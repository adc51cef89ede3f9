--------------------------- MODULE SessionProofs ---------------------------
(***************************************************************************)
(* Proofs about Session, for any connections and players, any queue of     *)
(* commands, and clients that send RECONNECT and DISCONNECT or do not, and *)
(* about the packets that a session carries (Wire).                        *)
(***************************************************************************)
EXTENDS Session, Wire, SequenceTheorems, TLAPS

Kinds == {"CONNECT", "RECONNECT", "PEER_DISCONNECTED", "DISCONNECT"}
Commands == [op : {"add", "remove"}, player : Players]

SessionTypes ==
  /\ up \in [Conns -> Seq(Kinds)]
  /\ gw \in [Conns -> {"new", "lookup", "dial", "relay", "close", "remove", "closed"}]
  /\ pool \in [Players -> Conns \cup {NoConn}]
  /\ relay \in [Conns -> {"recv", "add", "disconnect", "cleanup", "remove", "returned"}]
  /\ sender \in [Conns -> {"none", "running", "exiting", "stopped"}]
  /\ clients \in [Players -> Conns \cup {NoConn}]
  /\ done \in [Conns -> BOOLEAN]
  /\ cmds \in Seq(Commands)
  /\ entities \subseteq Players /\ lost \subseteq Players

\* The steps of one connection, of the gateway as a whole, of the game server
\* and of the clients.
LEMMA SplitNext ==
  ASSUME Next
  PROVE  \/ \E c \in Conns : GatewayStep(c) /\ UNCHANGED gsVars
         \/ (Drain \/ Exit) /\ UNCHANGED gsVars
         \/ \E c \in Conns, kind \in ClientKinds : SendKind(c, kind)
         \/ \E c \in Conns : (RelayStep(c) \/ SenderStep(c)) /\ UNCHANGED gwVars
         \/ ApplyCmd /\ UNCHANGED gwVars
         \/ SweepDisconnected /\ UNCHANGED gwVars
         \/ \E p \in Players : WindowPasses(p) /\ UNCHANGED gwVars
BY DEF Next

-----------------------------------------------------------------------------
(* Types                                                                   *)

\* The steps of a stream.
LEMMA StreamTypes ==
  ASSUME up \in [Conns -> Seq(Kinds)], NEW c \in Conns,
         (\E kind \in Kinds : Send(c, kind)) \/ (\E kind \in Kinds : Recv(c, kind)) \/ RecvEnd(c)
  PROVE  up' \in [Conns -> Seq(Kinds)] /\ \A d \in Conns \ {c} : up'[d] = up[d]
<1>1. ASSUME NEW kind \in Kinds, Send(c, kind)
      PROVE  up' \in [Conns -> Seq(Kinds)] /\ \A d \in Conns \ {c} : up'[d] = up[d]
  <2>1. Append(up[c], kind) \in Seq(Kinds)
    BY AppendProperties
  <2> QED
    BY <1>1, <2>1 DEF Send
<1>2. ASSUME NEW kind \in Kinds, Recv(c, kind)
      PROVE  up' \in [Conns -> Seq(Kinds)] /\ \A d \in Conns \ {c} : up'[d] = up[d]
  <2>1. Tail(up[c]) \in Seq(Kinds)
    BY <1>2, HeadTailProperties DEF Recv
  <2> QED
    BY <1>2, <2>1 DEF Recv
<1>3. CASE RecvEnd(c)
  <2>1. <<>> \in Seq(Kinds)
    BY EmptySeq
  <2> QED
    BY <1>3, <2>1 DEF RecvEnd
<1> QED
  BY <1>1, <1>2, <1>3

\* The command queue.
LEMMA QueueTypes ==
  ASSUME SessionTypes, NEW op \in {"add", "remove"}, NEW p \in Players, Enqueue(op, p)
  PROVE  cmds' \in Seq(Commands) /\ lost' \subseteq Players
<1>1. Append(cmds, [op |-> op, player |-> p]) \in Seq(Commands)
  BY AppendProperties DEF SessionTypes, Commands
<1> QED
  BY <1>1 DEF Enqueue, SessionTypes

\* Registering and unregistering.
LEMMA RegistryTypes ==
  ASSUME SessionTypes,
         (\E c \in Conns : Register(c)) \/ (\E p \in Players : Unregister(p))
  PROVE  clients' \in [Players -> Conns \cup {NoConn}] /\ done' \in [Conns -> BOOLEAN]
<1>1. ASSUME NEW c \in Conns, Register(c)
      PROVE  clients' \in [Players -> Conns \cup {NoConn}] /\ done' \in [Conns -> BOOLEAN]
  BY <1>1 DEF Register, SessionTypes
<1>2. ASSUME NEW p \in Players, Unregister(p)
      PROVE  clients' \in [Players -> Conns \cup {NoConn}] /\ done' \in [Conns -> BOOLEAN]
  BY <1>2 DEF Unregister, SessionTypes
<1> QED
  BY <1>1, <1>2

\* The gateway's steps keep the types.
LEMMA GatewayTypes ==
  ASSUME SessionTypes, NEW c \in Conns, GatewayStep(c), UNCHANGED gsVars
  PROVE  SessionTypes'
<1> USE StreamAssumption DEF gsVars, registry, world, SessionTypes
<1>1. CASE HandleWS(c) \/ RefuseWS(c) \/ DialFails(c)
  BY <1>1 DEF HandleWS, RefuseWS, DialFails, Step
<1>2. CASE AcceptWS(c)
  BY <1>2 DEF AcceptWS, Step
<1>5. CASE RemoveSession(c)
  BY <1>5 DEF RemoveSession, Step
<1>3. CASE OpenRelay(c) \/ PeerDisconnected(c)
  <2>1. up' \in [Conns -> Seq(Kinds)]
    BY <1>3, StreamTypes DEF OpenRelay, PeerDisconnected, Kinds
  <2> QED
    BY <1>3, <2>1 DEF OpenRelay, PeerDisconnected, Step
<1>4. CASE CloseRelay(c)
  BY <1>4 DEF CloseRelay, Step, Close
<1> QED
  BY <1>1, <1>2, <1>3, <1>4, <1>5 DEF GatewayStep

\* A handler's steps and its sender's keep the types.
LEMMA RelayTypes ==
  ASSUME SessionTypes, NEW c \in Conns, RelayStep(c) \/ SenderStep(c), UNCHANGED gwVars
  PROVE  SessionTypes'
<1> USE StreamAssumption DEF gwVars, registry, world
<1>0. PlayerOf[c] \in Players
  OBVIOUS
<1>1. CASE RelayConnect(c)
  <2>1. up' \in [Conns -> Seq(Kinds)]
    BY <1>1, StreamTypes DEF RelayConnect, Kinds, SessionTypes
  <2>2. clients' \in [Players -> Conns \cup {NoConn}] /\ done' \in [Conns -> BOOLEAN]
    BY <1>1, RegistryTypes DEF RelayConnect
  <2> QED
    BY <1>1, <2>1, <2>2 DEF RelayConnect, Goto, SessionTypes
<1>2. CASE RelayAdd(c)
  <2>1. cmds' \in Seq(Commands) /\ lost' \subseteq Players
    BY <1>0, <1>2, QueueTypes DEF RelayAdd
  <2> QED
    BY <1>2, <2>1 DEF RelayAdd, Goto, SessionTypes
<1>3. CASE RelayReconnect(c) \/ RelayPeerDisconnected(c)
  <2>1. up' \in [Conns -> Seq(Kinds)]
    BY <1>3, StreamTypes DEF RelayReconnect, RelayPeerDisconnected, Kinds, SessionTypes
  <2> QED
    BY <1>3, <2>1 DEF RelayReconnect, RelayPeerDisconnected, Goto, SessionTypes
<1>4. CASE RelayDisconnect(c)
  <2>1. up' \in [Conns -> Seq(Kinds)]
    BY <1>4, StreamTypes DEF RelayDisconnect, Kinds, SessionTypes
  <2>2. clients' \in [Players -> Conns \cup {NoConn}] /\ done' \in [Conns -> BOOLEAN]
    BY <1>0, <1>4, RegistryTypes DEF RelayDisconnect
  <2> QED
    BY <1>4, <2>1, <2>2 DEF RelayDisconnect, Goto, SessionTypes
<1>5. CASE RelayDisconnectRemove(c) \/ CleanupRemove(c)
  <2>1. cmds' \in Seq(Commands) /\ lost' \subseteq Players
    BY <1>0, <1>5, QueueTypes DEF RelayDisconnectRemove, CleanupRemove
  <2> QED
    BY <1>5, <2>1 DEF RelayDisconnectRemove, CleanupRemove, Goto, SessionTypes
<1>6. CASE RelayEnds(c)
  <2>1. up' \in [Conns -> Seq(Kinds)]
    BY <1>6, StreamTypes DEF RelayEnds, SessionTypes
  <2> QED
    BY <1>6, <2>1 DEF RelayEnds, Goto, SessionTypes
<1>7. CASE CleanupUnregister(c)
  <2>1. clients' \in [Players -> Conns \cup {NoConn}] /\ done' \in [Conns -> BOOLEAN]
    BY <1>0, <1>7, RegistryTypes DEF CleanupUnregister
  <2> QED
    BY <1>7, <2>1 DEF CleanupUnregister, Goto, SessionTypes
<1>8. CASE SenderExit(c)
  BY <1>8 DEF SenderExit, SessionTypes
<1>9. CASE SenderUnregister(c)
  <2>1. clients' \in [Players -> Conns \cup {NoConn}] /\ done' \in [Conns -> BOOLEAN]
    BY <1>0, <1>9, RegistryTypes DEF SenderUnregister
  <2> QED
    BY <1>9, <2>1 DEF SenderUnregister, SessionTypes
<1> QED
  BY <1>1, <1>2, <1>3, <1>4, <1>5, <1>6, <1>7, <1>8, <1>9 DEF RelayStep, SenderStep

\* The types are inductive.
LEMMA NextTypes == SessionTypes /\ [Next]_vars => SessionTypes'
<1> SUFFICES ASSUME SessionTypes, [Next]_vars PROVE SessionTypes'
  OBVIOUS
<1>1. CASE (Drain \/ Exit) /\ UNCHANGED gsVars
  BY <1>1 DEF Drain, Exit, gsVars, registry, world, SessionTypes
<1>2. ASSUME NEW c \in Conns, NEW kind \in ClientKinds, SendKind(c, kind) PROVE SessionTypes'
  <2>1. kind \in Kinds
    BY ClientKindsAssumption DEF Kinds
  <2>2. up' \in [Conns -> Seq(Kinds)]
    BY <1>2, <2>1, StreamTypes DEF SendKind, SessionTypes
  <2> QED
    BY <1>2, <2>2 DEF SendKind, gwVars, gsVars, registry, world, SessionTypes
<1>3. CASE ApplyCmd /\ UNCHANGED gwVars
  <2>1. Head(cmds) \in Commands /\ Tail(cmds) \in Seq(Commands)
    BY <1>3, HeadTailProperties DEF ApplyCmd, SessionTypes
  <2>2. entities' \subseteq Players
    BY <1>3, <2>1 DEF ApplyCmd, AddEntity, RemoveEntity, Commands, SessionTypes
  <2> QED
    BY <1>3, <2>1, <2>2 DEF ApplyCmd, gwVars, registry, SessionTypes
<1>4. CASE SweepDisconnected /\ UNCHANGED gwVars
  BY <1>4 DEF SweepDisconnected, gwVars, registry, SessionTypes
<1>5. ASSUME NEW p \in Players, WindowPasses(p), UNCHANGED gwVars PROVE SessionTypes'
  BY <1>5 DEF WindowPasses, gwVars, registry, SessionTypes
<1>6. CASE UNCHANGED vars
  BY <1>6 DEF vars, gwVars, gsVars, registry, world, SessionTypes
<1> QED
  BY <1>1, <1>2, <1>3, <1>4, <1>5, <1>6, GatewayTypes, RelayTypes, SplitNext

\* The types hold when nothing has happened.
LEMMA InitTypes == Init => SessionTypes
<1>1. <<>> \in Seq(Kinds) /\ <<>> \in Seq(Commands)
  BY EmptySeq
<1> QED
  BY <1>1 DEF Init, StreamInit, GatewayInit, RelayInit, SessionTypes

-----------------------------------------------------------------------------
(* The gateway's pool                                                      *)

\* A player whose session is stored has a connection that will remove it.
PoolIsCleared ==
  \A p \in Players : pool[p] # NoConn =>
    \E c \in ConnsOf(p) : gw[c] \in {"dial", "relay", "close", "remove"}

\* Every step keeps a connection that will remove the session.
LEMMA PoolStep == SessionTypes /\ PoolIsCleared /\ [Next]_vars => PoolIsCleared'
<1> SUFFICES ASSUME SessionTypes, PoolIsCleared, [Next]_vars,
                    NEW p \in Players, pool'[p] # NoConn
             PROVE  \E c \in ConnsOf(p) : gw'[c] \in {"dial", "relay", "close", "remove"}
  BY DEF PoolIsCleared
<1> USE DEF SessionTypes, ConnsOf
<1>1. CASE UNCHANGED gwVars
  BY <1>1 DEF gwVars, PoolIsCleared
<1>2. ASSUME NEW c \in Conns, GatewayStep(c)
      PROVE  \E d \in ConnsOf(p) : gw'[d] \in {"dial", "relay", "close", "remove"}
  <2>1. CASE AcceptWS(c) /\ PlayerOf[c] = p
    BY <2>1 DEF AcceptWS, Step
  <2>2. CASE pool'[p] = pool[p]
    <3>1. PICK d \in ConnsOf(p) : gw[d] \in {"dial", "relay", "close", "remove"}
      BY <2>2 DEF PoolIsCleared
    <3>2. CASE d # c
      BY <1>2, <3>1, <3>2
         DEF GatewayStep, HandleWS, RefuseWS, AcceptWS, DialFails, OpenRelay, PeerDisconnected,
             CloseRelay, RemoveSession, Step
    <3>3. CASE d = c
      <4>1. ~ RemoveSession(c)
        BY <2>2, <3>3, StreamAssumption DEF RemoveSession
      <4>2. gw'[d] \in {"dial", "relay", "close", "remove"}
        BY <1>2, <3>1, <3>3, <4>1
           DEF GatewayStep, HandleWS, RefuseWS, AcceptWS, DialFails, OpenRelay,
               PeerDisconnected, CloseRelay, Step
      <4> QED
        BY <4>2
    <3> QED
      BY <3>2, <3>3
  <2>3. CASE RemoveSession(c) /\ PlayerOf[c] = p
    BY <2>3 DEF RemoveSession
  <2> QED
    BY <1>2, <2>1, <2>2, <2>3
       DEF GatewayStep, HandleWS, RefuseWS, AcceptWS, DialFails, OpenRelay, PeerDisconnected,
           CloseRelay, RemoveSession
<1>3. CASE Drain \/ Exit
  BY <1>1, <1>3 DEF Drain, Exit, PoolIsCleared
<1> QED
  BY <1>1, <1>2, <1>3, SplitNext DEF vars, SendKind

\* When the last connection of a player is closed, whatever its end and
\* whatever connections overlapped, the pool has no session of the player.
THEOREM ClosedPlayersLeavePool == Spec => []ClosedPlayerLeavesPool
<1>1. Init => PoolIsCleared
  BY DEF Init, GatewayInit, PoolIsCleared
<1>2. PoolIsCleared => ClosedPlayerLeavesPool
  BY DEF PoolIsCleared, ClosedPlayerLeavesPool
<1> QED
  BY <1>1, <1>2, InitTypes, NextTypes, PoolStep, PTL DEF Spec

-----------------------------------------------------------------------------
(* The client registry                                                     *)

\* The CONNECT of connection c has not been handled: relayWS has yet to send it,
\* or it is the next packet.
ToConnect(c) ==
  gw[c] \in {"new", "lookup", "dial"} \/ (up[c] # <<>> /\ Head(up[c]) = "CONNECT")

\* A stream carries CONNECT once, as its first packet, so that the entry of a
\* connection is made once.
ConnectsOnce(c) ==
  /\ gw[c] \in {"new", "lookup", "dial"} => up[c] = <<>>
  /\ \A i \in 2 .. Len(up[c]) : up[c][i] # "CONNECT"

\* An entry is its own player's, is open, and has a handler or a sender
\* goroutine that will take it out.  It was not made before its CONNECT.
EntryIsHeld(c) ==
  /\ ToConnect(c) => ~ done[c] /\ clients[PlayerOf[c]] # c
  /\ \A p \in Players : clients[p] = c =>
       /\ PlayerOf[c] = p /\ ~ done[c]
       /\ relay[c] = "add" \/ sender[c] \in {"running", "exiting"}

IRegistry == \A c \in Conns : ConnectsOnce(c) /\ EntryIsHeld(c)

\* Packets of another kind than CONNECT do not bring it back.
LEMMA AfterSend ==
  ASSUME SessionTypes, NEW c \in Conns, ConnectsOnce(c), NEW kind \in Kinds \ {"CONNECT"},
         up' = [up EXCEPT ![c] = Append(@, kind)], gw[c] \notin {"new", "lookup", "dial"},
         gw'[c] \notin {"new", "lookup", "dial"}
  PROVE  ConnectsOnce(c)' /\ (ToConnect(c)' => ToConnect(c))
<1> DEFINE s == up[c]
<1>1. s \in Seq(Kinds) /\ up'[c] = Append(s, kind)
  BY DEF SessionTypes
<1>2. /\ Len(Append(s, kind)) = Len(s) + 1 /\ Len(s) \in Nat
      /\ \A i \in 1 .. Len(s) : Append(s, kind)[i] = s[i]
      /\ Append(s, kind)[Len(s) + 1] = kind
  BY <1>1, AppendProperties
<1>3. ASSUME NEW i \in 2 .. Len(up'[c]) PROVE up'[c][i] # "CONNECT"
  <2>1. CASE i = Len(s) + 1
    BY <1>1, <1>2, <2>1
  <2>2. CASE i # Len(s) + 1
    BY <1>1, <1>2, <2>2 DEF ConnectsOnce
  <2> QED
    BY <2>1, <2>2
<1>4. CASE s = <<>>
  <2>1. up'[c][1] = kind /\ up'[c] # <<>> /\ Head(up'[c]) = up'[c][1]
    BY <1>1, <1>2, <1>4
  <2> QED
    BY <1>3, <2>1 DEF ConnectsOnce, ToConnect
<1>5. CASE s # <<>>
  <2>1. Head(up'[c]) = Head(s)
    BY <1>1, <1>2, <1>5
  <2> QED
    BY <1>3, <1>5, <2>1 DEF ConnectsOnce, ToConnect
<1> QED
  BY <1>4, <1>5

\* A packet that was received is gone, and what follows it is no CONNECT.
LEMMA AfterRecv ==
  ASSUME SessionTypes, NEW c \in Conns, ConnectsOnce(c), UNCHANGED gw,
         (\E kind \in Kinds : Recv(c, kind)) \/ RecvEnd(c)
  PROVE  /\ ConnectsOnce(c)'
         /\ ToConnect(c)' => gw[c] \in {"new", "lookup", "dial"} /\ ToConnect(c)
<1> DEFINE s == up[c]
<1>1. s \in Seq(Kinds)
  BY DEF SessionTypes
<1>2. CASE s # <<>> /\ up' = [up EXCEPT ![c] = Tail(@)]
  <2>1. up'[c] = Tail(s)
    BY <1>2 DEF SessionTypes
  <2>2. /\ Len(Tail(s)) = Len(s) - 1 /\ Len(s) \in Nat
        /\ \A i \in 1 .. Len(Tail(s)) : Tail(s)[i] = s[i + 1]
    BY <1>1, <1>2
  <2>3. \A i \in 1 .. Len(up'[c]) : up'[c][i] # "CONNECT"
    BY <2>1, <2>2 DEF ConnectsOnce
  <2>4. gw'[c] \notin {"new", "lookup", "dial"}
    BY <1>2 DEF ConnectsOnce
  <2>5. up'[c] # <<>> => Head(up'[c]) = up'[c][1] /\ 1 \in 1 .. Len(up'[c])
    BY <1>1, <1>2, <2>1
  <2> QED
    BY <2>3, <2>4, <2>5 DEF ConnectsOnce, ToConnect
<1>3. CASE RecvEnd(c)
  <2>1. up'[c] = <<>>
    BY <1>3 DEF RecvEnd, SessionTypes
  <2> QED
    BY <1>3, <2>1 DEF ConnectsOnce, ToConnect
<1> QED
  BY <1>2, <1>3 DEF Recv

\* Nothing changes for a connection.
LEMMA SameConnection ==
  ASSUME SessionTypes, NEW c \in Conns, ConnectsOnce(c), EntryIsHeld(c),
         up'[c] = up[c], gw'[c] = gw[c], relay'[c] = relay[c], sender'[c] = sender[c]
  PROVE  /\ ConnectsOnce(c)'
         /\ UNCHANGED registry => EntryIsHeld(c)'
         /\ \A p \in Players : Unregister(p) => EntryIsHeld(c)'
         /\ \A d \in Conns \ {c} : Register(d) => EntryIsHeld(c)'
<1>1. ConnectsOnce(c)' /\ ToConnect(c)' = ToConnect(c)
  BY DEF ConnectsOnce, ToConnect
<1>2. UNCHANGED registry => EntryIsHeld(c)'
  BY <1>1 DEF EntryIsHeld, registry
<1>3. ASSUME NEW p \in Players, Unregister(p) PROVE EntryIsHeld(c)'
  <2>1. ToConnect(c) => clients[p] # c
    BY StreamAssumption DEF EntryIsHeld
  <2>2. \A q \in Players : clients'[q] = IF q = p THEN NoConn ELSE clients[q]
    BY <1>3 DEF Unregister, SessionTypes
  <2>3. done'[c] <=> done[c] \/ clients[p] = c
    BY <1>3 DEF Unregister, SessionTypes
  <2>4. c # NoConn
    BY StreamAssumption
  <2>5. ASSUME NEW q \in Players, clients'[q] = c
        PROVE  q # p /\ clients[q] = c /\ PlayerOf[c] = q /\ clients[p] # c
    BY <2>2, <2>4, <2>5 DEF EntryIsHeld
  <2> QED
    BY <1>1, <2>1, <2>2, <2>3, <2>4, <2>5, StreamAssumption DEF EntryIsHeld
<1>4. ASSUME NEW d \in Conns \ {c}, Register(d) PROVE EntryIsHeld(c)'
  <2>1. done' = done /\ \A q \in Players : clients'[q] = IF q = PlayerOf[d] THEN d ELSE clients[q]
    BY <1>4 DEF Register, SessionTypes
  <2> QED
    BY <1>1, <2>1, StreamAssumption DEF EntryIsHeld
<1> QED
  BY <1>1, <1>2, <1>3, <1>4

\* The gateway's steps leave the registry alone.
LEMMA GatewayRegistry ==
  ASSUME SessionTypes, IRegistry, NEW c \in Conns, UNCHANGED gsVars,
         GatewayStep(c) \/ Drain \/ Exit \/ \E kind \in ClientKinds : SendKind(c, kind)
  PROVE  IRegistry'
<1> SUFFICES ASSUME NEW d \in Conns PROVE ConnectsOnce(d)' /\ EntryIsHeld(d)'
  BY DEF IRegistry
<1>0. ConnectsOnce(d) /\ EntryIsHeld(d) /\ UNCHANGED <<registry, relay, sender>>
  BY DEF IRegistry, gsVars
<1>1. ASSUME ConnectsOnce(d)', ToConnect(d)' => ToConnect(d)
      PROVE  ConnectsOnce(d)' /\ EntryIsHeld(d)'
  BY <1>0, <1>1 DEF EntryIsHeld, registry
<1>2. CASE GatewayStep(c) /\ d = c
  <2> USE DEF SessionTypes
  <2>1. CASE HandleWS(c) \/ RefuseWS(c) \/ AcceptWS(c) \/ DialFails(c) \/ CloseRelay(c)
             \/ RemoveSession(c)
    <3>1. up'[d] = up[d]
      BY <2>1 DEF HandleWS, RefuseWS, AcceptWS, DialFails, CloseRelay, RemoveSession, Close
    <3>2. gw'[d] \in {"new", "lookup", "dial"} => gw[d] \in {"new", "lookup", "dial"}
      BY <1>2, <2>1
         DEF HandleWS, RefuseWS, AcceptWS, DialFails, CloseRelay, RemoveSession, Step
    <3> QED
      BY <1>0, <1>1, <3>1, <3>2 DEF ConnectsOnce, ToConnect
  <2>2. CASE OpenRelay(c)
    <3>1. gw[d] = "dial" /\ gw'[d] = "relay" /\ up[d] = <<>>
      BY <1>0, <1>2, <2>2 DEF OpenRelay, Step, ConnectsOnce
    <3>2. up'[d] = Append(up[d], "CONNECT")
      BY <1>2, <2>2 DEF OpenRelay, Send
    <3>3. Len(up'[d]) = 1
      <4>1. Len(Append(<<>>, "CONNECT")) = 1
        OBVIOUS
      <4>2. up'[d] = Append(<<>>, "CONNECT")
        BY <3>1, <3>2
      <4> QED
        BY <4>1, <4>2
    <3>4. ConnectsOnce(d)'
      BY <3>1, <3>3 DEF ConnectsOnce
    <3> QED
      BY <1>1, <3>1, <3>4 DEF ToConnect
  <2>3. CASE PeerDisconnected(c)
    <3>1. /\ gw[d] = "relay" /\ gw'[d] = "close"
          /\ up' = [up EXCEPT ![d] = Append(@, "PEER_DISCONNECTED")]
      BY <1>2, <2>3 DEF PeerDisconnected, Step, Send
    <3>2. "PEER_DISCONNECTED" \in Kinds \ {"CONNECT"}
      BY DEF Kinds
    <3> QED
      BY <1>0, <1>1, <3>1, <3>2, AfterSend
  <2> QED
    BY <1>2, <2>1, <2>2, <2>3 DEF GatewayStep
<1>3. CASE GatewayStep(c) /\ d # c
  <2>1. gw'[d] = gw[d] /\ up'[d] = up[d]
    BY <1>3 DEF GatewayStep, HandleWS, RefuseWS, AcceptWS, DialFails, OpenRelay,
                PeerDisconnected, CloseRelay, RemoveSession, Step, Send, Close, SessionTypes
  <2> QED
    BY <1>0, <2>1, SameConnection
<1>4. CASE Drain
  BY <1>0, <1>4, SameConnection DEF Drain
<1>5. CASE Exit
  BY <1>0, <1>1, <1>5 DEF Exit, ConnectsOnce, ToConnect
<1>6. ASSUME NEW kind \in ClientKinds, SendKind(c, kind) PROVE ConnectsOnce(d)' /\ EntryIsHeld(d)'
  <2>1. kind \in Kinds \ {"CONNECT"}
    BY ClientKindsAssumption DEF Kinds
  <2>2. UNCHANGED gw /\ gw[c] = "relay" /\ up' = [up EXCEPT ![c] = Append(@, kind)]
    BY <1>6 DEF SendKind, Send, gwVars
  <2>3. CASE d = c
    BY <1>0, <1>1, <2>1, <2>2, <2>3, AfterSend
  <2>4. CASE d # c
    BY <1>0, <2>2, <2>4, SameConnection DEF SessionTypes
  <2> QED
    BY <2>3, <2>4
<1> QED
  BY <1>2, <1>3, <1>4, <1>5, <1>6

\* Others than connection c see at most a changed registry.
LEMMA OthersRegistry ==
  ASSUME SessionTypes, IRegistry, NEW c \in Conns, UNCHANGED gw,
         \A d \in Conns \ {c} : UNCHANGED <<up[d], relay[d], sender[d]>>,
         UNCHANGED registry \/ Register(c) \/ \E p \in Players : Unregister(p),
         NEW d \in Conns \ {c}
  PROVE  ConnectsOnce(d)' /\ EntryIsHeld(d)'
BY SameConnection DEF IRegistry

\* A handler's steps and its sender's: the entry is made with CONNECT, and goes
\* with whichever of the two ends first.
LEMMA RelayRegistry ==
  ASSUME SessionTypes, IRegistry, NEW c \in Conns, RelayStep(c) \/ SenderStep(c), UNCHANGED gwVars
  PROVE  IRegistry'
<1> USE DEF gwVars
<1>0. /\ ConnectsOnce(c) /\ EntryIsHeld(c) /\ PlayerOf[c] \in Players /\ c # NoConn
      /\ {"CONNECT", "RECONNECT", "PEER_DISCONNECTED", "DISCONNECT"} = Kinds
  BY StreamAssumption DEF IRegistry, Kinds
<1>1. \A d \in Conns \ {c} : UNCHANGED <<up[d], relay[d], sender[d]>>
  BY DEF RelayStep, SenderStep, RelayConnect, RelayAdd, RelayReconnect, RelayPeerDisconnected,
         RelayDisconnect, RelayDisconnectRemove, RelayEnds, CleanupUnregister, CleanupRemove,
         SenderExit, SenderUnregister, Goto, Recv, RecvEnd, SessionTypes
<1>2. UNCHANGED registry \/ Register(c) \/ Unregister(PlayerOf[c])
  BY DEF RelayStep, SenderStep, RelayConnect, RelayAdd, RelayReconnect, RelayPeerDisconnected,
         RelayDisconnect, RelayDisconnectRemove, RelayEnds, CleanupUnregister, CleanupRemove,
         SenderExit, SenderUnregister
<1>3. \A d \in Conns \ {c} : ConnectsOnce(d)' /\ EntryIsHeld(d)'
  BY <1>0, <1>1, <1>2, OthersRegistry
<1>4. ASSUME Unregister(PlayerOf[c]), ToConnect(c)' => ToConnect(c) PROVE EntryIsHeld(c)'
  <2>1. \A q \in Players : clients'[q] = IF q = PlayerOf[c] THEN NoConn ELSE clients[q]
    BY <1>4 DEF Unregister, SessionTypes
  <2>2. done'[c] <=> done[c] \/ clients[PlayerOf[c]] = c
    BY <1>4 DEF Unregister, SessionTypes
  <2> QED
    BY <1>0, <1>4, <2>1, <2>2 DEF EntryIsHeld
<1>5. ASSUME UNCHANGED registry, ToConnect(c)' => ToConnect(c),
             relay[c] = "add" \/ sender[c] \in {"running", "exiting"}
               => relay'[c] = "add" \/ sender'[c] \in {"running", "exiting"}
      PROVE  EntryIsHeld(c)'
  BY <1>0, <1>5 DEF EntryIsHeld, registry
<1>6. UNCHANGED <<up, gw>> => ConnectsOnce(c)' /\ (ToConnect(c)' => ToConnect(c))
  BY <1>0 DEF ConnectsOnce, ToConnect
<1> SUFFICES ConnectsOnce(c)' /\ EntryIsHeld(c)'
  BY <1>3 DEF IRegistry
<1>7. CASE RelayConnect(c)
  <2>1. ConnectsOnce(c)' /\ ~ ToConnect(c)'
    BY <1>0, <1>7, AfterRecv DEF RelayConnect, Recv, ConnectsOnce
  <2>2. ToConnect(c)
    BY <1>7 DEF RelayConnect, Recv, ToConnect
  <2>3. /\ \A q \in Players : clients'[q] = IF q = PlayerOf[c] THEN c ELSE clients[q]
        /\ done' = done /\ relay'[c] = "add"
    BY <1>7 DEF RelayConnect, Register, Goto, SessionTypes
  <2>4. EntryIsHeld(c)'
    BY <1>0, <2>1, <2>2, <2>3 DEF EntryIsHeld
  <2> QED
    BY <2>1, <2>4
<1>8. CASE RelayReconnect(c) \/ RelayPeerDisconnected(c) \/ RelayEnds(c)
  <2>1. ConnectsOnce(c)' /\ (ToConnect(c)' => ToConnect(c))
    BY <1>0, <1>8, AfterRecv DEF RelayReconnect, RelayPeerDisconnected, RelayEnds
  <2>2. UNCHANGED <<registry, sender>> /\ relay[c] # "add"
    BY <1>8 DEF RelayReconnect, RelayPeerDisconnected, RelayEnds, Goto
  <2> QED
    BY <1>5, <2>1, <2>2
<1>9. CASE RelayDisconnect(c)
  <2>1. ConnectsOnce(c)' /\ (ToConnect(c)' => ToConnect(c))
    BY <1>0, <1>9, AfterRecv DEF RelayDisconnect
  <2> QED
    BY <1>4, <1>9, <2>1 DEF RelayDisconnect
<1>10. CASE RelayAdd(c)
  BY <1>5, <1>6, <1>10 DEF RelayAdd, SessionTypes
<1>11. CASE RelayDisconnectRemove(c) \/ CleanupRemove(c) \/ SenderExit(c)
  <2>1. UNCHANGED <<registry, up>>
    BY <1>11 DEF RelayDisconnectRemove, CleanupRemove, SenderExit
  <2>2. relay[c] = "add" \/ sender[c] \in {"running", "exiting"}
          => relay'[c] = "add" \/ sender'[c] \in {"running", "exiting"}
    BY <1>11 DEF RelayDisconnectRemove, CleanupRemove, SenderExit, Goto, SessionTypes
  <2> QED
    BY <1>5, <1>6, <2>1, <2>2
<1>12. CASE CleanupUnregister(c) \/ SenderUnregister(c)
  BY <1>4, <1>6, <1>12 DEF CleanupUnregister, SenderUnregister
<1> QED
  BY <1>7, <1>8, <1>9, <1>10, <1>11, <1>12 DEF RelayStep, SenderStep

\* The invariant is inductive.
LEMMA RegistryStep == SessionTypes /\ IRegistry /\ [Next]_vars => IRegistry'
<1> SUFFICES ASSUME SessionTypes, IRegistry, [Next]_vars PROVE IRegistry'
  OBVIOUS
<1>1. CASE UNCHANGED <<up, gw, relay, sender, registry>>
  <2>1. UNCHANGED <<up, gw, relay, sender, clients, done>>
    BY <1>1 DEF registry
  <2>2. ASSUME NEW c \in Conns PROVE ConnectsOnce(c)'
    BY <2>1 DEF IRegistry, ConnectsOnce
  <2>3. ASSUME NEW c \in Conns PROVE EntryIsHeld(c)'
    <3>1. EntryIsHeld(c)
      BY DEF IRegistry
    <3> QED
      BY <2>1, <3>1 DEF EntryIsHeld, ToConnect
  <2> QED
    BY <2>2, <2>3 DEF IRegistry
<1>2. CASE (Drain \/ Exit) /\ UNCHANGED gsVars
  <2>1. CASE Conns = {}
    BY <2>1 DEF IRegistry
  <2>2. CASE Conns # {}
    BY <1>2, <2>2, GatewayRegistry
  <2> QED
    BY <2>1, <2>2
<1>3. ASSUME NEW c \in Conns, NEW kind \in ClientKinds, SendKind(c, kind) PROVE IRegistry'
  BY <1>3, GatewayRegistry DEF SendKind
<1> QED
  BY <1>1, <1>2, <1>3, GatewayRegistry, RelayRegistry, SplitNext
     DEF ApplyCmd, SweepDisconnected, WindowPasses, vars, gwVars, gsVars

\* Nobody is registered.
LEMMA RegistryInit == Init => IRegistry
BY StreamAssumption
   DEF Init, StreamInit, GatewayInit, RelayInit, IRegistry, ConnectsOnce, EntryIsHeld, ToConnect

\* unregister, which cleanup, the sender goroutine and DISCONNECT all call, in
\* any order and for connections that replaced each other, never meets an entry
\* whose done channel is closed already.
THEOREM RegisteredEntriesAreOpen == Spec => []RegisteredEntryIsOpen
<1>1. SessionTypes /\ IRegistry => RegisteredEntryIsOpen
  BY DEF SessionTypes, IRegistry, EntryIsHeld, RegisteredEntryIsOpen
<1> QED
  BY <1>1, InitTypes, NextTypes, RegistryInit, RegistryStep, PTL DEF Spec

-----------------------------------------------------------------------------
(* The entities of players                                                 *)

Removal(p) == [op |-> "remove", player |-> p]
Addition(p) == [op |-> "add", player |-> p]

\* Player p has an entity when the tick has applied the commands there are.
Remains(p) ==
  \/ p \in entities /\ \A j \in 1 .. Len(cmds) : cmds[j] # Removal(p)
  \/ \E i \in 1 .. Len(cmds) :
       cmds[i] = Addition(p) /\ \A j \in i + 1 .. Len(cmds) : cmds[j] # Removal(p)

\* The handler of a connection that added its player has yet to remove it.
WillRemove(c) == sender[c] # "none" /\ relay[c] # "returned"

\* Unless a command was dropped, an entity that remains has such a handler.
IEntities ==
  \A p \in Players : Remains(p) => p \in lost \/ \E c \in ConnsOf(p) : WillRemove(c)

\* Enqueue puts one command at the end, or drops it.
LEMMA EnqueueRemains ==
  ASSUME SessionTypes, NEW op \in {"add", "remove"}, NEW q \in Players, Enqueue(op, q),
         UNCHANGED entities, NEW p \in Players
  PROVE  /\ p # q /\ Remains(p)' => Remains(p)
         /\ op = "remove" /\ p = q => ~ Remains(p)' \/ p \in lost'
         /\ lost \subseteq lost'
<1>1. CASE UNCHANGED cmds /\ lost' = lost \cup {q}
  BY <1>1 DEF Remains
<1>2. CASE cmds' = Append(cmds, [op |-> op, player |-> q]) /\ UNCHANGED lost
  <2> DEFINE e == [op |-> op, player |-> q]
  <2>0. cmds \in Seq(Commands)
    BY DEF SessionTypes
  <2>1. e \in Commands
    BY DEF Commands
  <2> HIDE DEF e
  <2>a. cmds' = Append(cmds, e)
    BY <1>2 DEF e
  <2>b. Len(cmds') = Len(cmds) + 1 /\ Len(cmds) \in Nat
    BY <2>0, <2>1, <2>a
  <2>c. \A i \in 1 .. Len(cmds) : cmds'[i] = cmds[i]
    BY <2>0, <2>1, <2>a
  <2>d. cmds'[Len(cmds) + 1] = e
    BY <2>0, <2>1, <2>a
  <2>2. p # q => e # Removal(p) /\ e # Addition(p)
    BY DEF e, Removal, Addition
  <2>3. p # q /\ Remains(p)' => Remains(p)
    <3> SUFFICES ASSUME p # q, Remains(p)' PROVE Remains(p)
      OBVIOUS
    <3>1. CASE p \in entities' /\ \A j \in 1 .. Len(cmds') : cmds'[j] # Removal(p)
      <4>1. \A j \in 1 .. Len(cmds) : cmds[j] # Removal(p)
        BY <2>b, <2>c, <3>1
      <4> QED
        BY <3>1, <4>1 DEF Remains
    <3>2. ASSUME NEW i \in 1 .. Len(cmds'), cmds'[i] = Addition(p),
                 \A j \in i + 1 .. Len(cmds') : cmds'[j] # Removal(p)
          PROVE  Remains(p)
      <4>1. i \in 1 .. Len(cmds) /\ cmds[i] = Addition(p)
        <5>1. i # Len(cmds) + 1
          BY <2>2, <2>d, <3>2
        <5>2. i \in 1 .. Len(cmds)
          BY <2>b, <3>2, <5>1
        <5> QED
          BY <2>c, <3>2, <5>2
      <4>2. \A j \in i + 1 .. Len(cmds) : cmds[j] # Removal(p)
        <5>1. ASSUME NEW j \in i + 1 .. Len(cmds) PROVE j \in 1 .. Len(cmds) /\ j \in i + 1 .. Len(cmds')
          BY <2>b
        <5> QED
          BY <2>c, <3>2, <5>1
      <4> QED
        BY <4>1, <4>2 DEF Remains
    <3> QED
      BY <3>1, <3>2 DEF Remains, Removal, Addition
  <2>4. op = "remove" /\ p = q => ~ Remains(p)'
    <3> SUFFICES ASSUME op = "remove", p = q PROVE ~ Remains(p)'
      OBVIOUS
    <3>1. e = Removal(p) /\ e # Addition(p)
      BY DEF e, Removal, Addition
    <3>2. \A i \in 1 .. Len(cmds') : cmds'[i] = Addition(p) => Len(cmds') \in i + 1 .. Len(cmds')
      <4> SUFFICES ASSUME NEW i \in 1 .. Len(cmds'), cmds'[i] = Addition(p)
                   PROVE  Len(cmds') \in i + 1 .. Len(cmds')
        OBVIOUS
      <4>1. i # Len(cmds) + 1
        BY <2>d, <3>1
      <4> QED
        BY <2>b, <4>1
    <3>3. cmds'[Len(cmds')] = Removal(p) /\ Len(cmds') \in 1 .. Len(cmds')
      BY <2>b, <2>d, <3>1
    <3> QED
      BY <3>2, <3>3 DEF Remains, Removal, Addition
  <2> QED
    BY <1>2, <2>3, <2>4
<1> QED
  BY <1>1, <1>2 DEF Enqueue

\* The tick applies the oldest command.
LEMMA ApplyRemains ==
  ASSUME SessionTypes, ApplyCmd, NEW p \in Players, Remains(p)' PROVE Remains(p)
<1>1. /\ cmds \in Seq(Commands) /\ cmds # <<>> /\ cmds' = Tail(cmds)
      /\ Len(cmds') = Len(cmds) - 1 /\ Len(cmds) \in Nat /\ Len(cmds) > 0
      /\ Head(cmds) = cmds[1] /\ cmds[1] \in Commands
      /\ \A i \in 1 .. Len(cmds') : cmds'[i] = cmds[i + 1]
  BY DEF ApplyCmd, SessionTypes
<1>2. ASSUME NEW i \in 1 .. Len(cmds'), cmds'[i] = Addition(p),
             \A j \in i + 1 .. Len(cmds') : cmds'[j] # Removal(p)
      PROVE  Remains(p)
  <2>1. i + 1 \in 1 .. Len(cmds) /\ cmds[i + 1] = Addition(p)
    BY <1>1, <1>2
  <2>2. ASSUME NEW j \in (i + 1) + 1 .. Len(cmds) PROVE cmds[j] # Removal(p)
    <3>1. j - 1 \in i + 1 .. Len(cmds') /\ cmds'[j - 1] = cmds[j]
      BY <1>1, <1>2
    <3> QED
      BY <1>2, <3>1
  <2> QED
    BY <2>1, <2>2 DEF Remains
<1>3. CASE p \in entities' /\ \A j \in 1 .. Len(cmds') : cmds'[j] # Removal(p)
  <2>1. ASSUME NEW j \in 2 .. Len(cmds) PROVE cmds[j] # Removal(p)
    <3>1. j - 1 \in 1 .. Len(cmds') /\ cmds'[j - 1] = cmds[j]
      BY <1>1
    <3> QED
      BY <1>3, <3>1
  <2>2. CASE cmds[1] = Addition(p)
    <3>1. 1 \in 1 .. Len(cmds) /\ \A j \in 1 + 1 .. Len(cmds) : cmds[j] # Removal(p)
      BY <1>1, <2>1
    <3> QED
      BY <2>2, <3>1 DEF Remains
  <2>3. CASE cmds[1] # Addition(p)
    <3>1. p \in entities /\ cmds[1] # Removal(p)
      BY <1>1, <1>3, <2>3
         DEF ApplyCmd, AddEntity, RemoveEntity, Commands, Removal, Addition
    <3>2. \A j \in 1 .. Len(cmds) : cmds[j] # Removal(p)
      BY <1>1, <2>1, <3>1
    <3> QED
      BY <3>1, <3>2 DEF Remains
  <2> QED
    BY <2>2, <2>3
<1> QED
  BY <1>2, <1>3 DEF Remains, Removal, Addition

\* A handler's steps: whoever adds the player stays to remove it, and whoever
\* leaves has removed it or lost the command.
LEMMA RelayEntities ==
  ASSUME SessionTypes, IEntities, NEW c \in Conns, RelayStep(c) \/ SenderStep(c)
  PROVE  IEntities'
<1> USE DEF ConnsOf
<1> DEFINE q == PlayerOf[c]
<1>0. q \in Players /\ UNCHANGED entities
  BY StreamAssumption
     DEF RelayStep, SenderStep, RelayConnect, RelayAdd, RelayReconnect, RelayPeerDisconnected,
         RelayDisconnect, RelayDisconnectRemove, RelayEnds, CleanupUnregister, CleanupRemove,
         SenderExit, SenderUnregister, world
<1>1. \A d \in Conns \ {c} : WillRemove(d)' = WillRemove(d)
  BY DEF RelayStep, SenderStep, RelayConnect, RelayAdd, RelayReconnect, RelayPeerDisconnected,
         RelayDisconnect, RelayDisconnectRemove, RelayEnds, CleanupUnregister, CleanupRemove,
         SenderExit, SenderUnregister, Goto, WillRemove, SessionTypes
<1>2. ASSUME UNCHANGED <<cmds, lost>>, WillRemove(c) => WillRemove(c)' PROVE IEntities'
  BY <1>0, <1>1, <1>2 DEF IEntities, Remains
<1>3. ASSUME Enqueue("remove", q) PROVE IEntities'
  <2> SUFFICES ASSUME NEW p \in Players, Remains(p)'
               PROVE  p \in lost' \/ \E d \in ConnsOf(p) : WillRemove(d)'
    BY DEF IEntities
  <2>1. p = q => p \in lost'
    BY <1>0, <1>3, EnqueueRemains
  <2>2. p # q => Remains(p) /\ lost \subseteq lost'
    BY <1>0, <1>3, EnqueueRemains
  <2> QED
    BY <1>1, <2>1, <2>2 DEF IEntities
<1>4. CASE RelayAdd(c)
  <2> SUFFICES ASSUME NEW p \in Players, Remains(p)'
               PROVE  p \in lost' \/ \E d \in ConnsOf(p) : WillRemove(d)'
    BY DEF IEntities
  <2>1. WillRemove(c)'
    BY <1>4 DEF RelayAdd, Goto, WillRemove, SessionTypes
  <2>2. p # q => Remains(p) /\ lost \subseteq lost'
    BY <1>0, <1>4, EnqueueRemains DEF RelayAdd
  <2> QED
    BY <1>1, <2>1, <2>2 DEF IEntities
<1>5. CASE RelayConnect(c) \/ RelayReconnect(c) \/ RelayPeerDisconnected(c) \/ RelayDisconnect(c)
           \/ CleanupUnregister(c)
  <2>1. UNCHANGED <<cmds, lost, sender>> /\ relay'[c] # "returned"
    BY <1>5 DEF RelayConnect, RelayReconnect, RelayPeerDisconnected, RelayDisconnect,
                CleanupUnregister, Goto, SessionTypes
  <2> QED
    BY <1>2, <2>1 DEF WillRemove
<1>6. CASE RelayEnds(c)
  <2>1. UNCHANGED <<cmds, lost, sender>> /\ (sender[c] # "none" => relay'[c] = "cleanup")
    BY <1>6 DEF RelayEnds, Goto, SessionTypes
  <2> QED
    BY <1>2, <2>1 DEF WillRemove
<1>7. CASE SenderExit(c) \/ SenderUnregister(c)
  <2>1. UNCHANGED <<cmds, lost, relay>> /\ sender'[c] # "none"
    BY <1>7 DEF SenderExit, SenderUnregister, SessionTypes
  <2> QED
    BY <1>2, <2>1 DEF WillRemove
<1> QED
  BY <1>3, <1>4, <1>5, <1>6, <1>7
     DEF RelayStep, SenderStep, RelayDisconnectRemove, CleanupRemove

\* The invariant is inductive.
LEMMA EntitiesStep == SessionTypes /\ IEntities /\ [Next]_vars => IEntities'
<1> SUFFICES ASSUME SessionTypes, IEntities, [Next]_vars PROVE IEntities'
  OBVIOUS
<1>1. CASE UNCHANGED <<cmds, entities, lost, sender, relay>>
  BY <1>1 DEF IEntities, Remains, WillRemove
<1>2. CASE ApplyCmd
  <2>1. UNCHANGED <<sender, relay, lost>>
    BY <1>2 DEF ApplyCmd
  <2> QED
    BY <1>2, <2>1, ApplyRemains DEF IEntities, WillRemove
<1>3. CASE SweepDisconnected
  <2>1. UNCHANGED <<sender, relay, lost, cmds>> /\ entities' \subseteq entities
    BY <1>3 DEF SweepDisconnected
  <2>2. \A p \in Players : Remains(p)' => Remains(p)
    BY <2>1 DEF Remains
  <2> QED
    BY <2>1, <2>2 DEF IEntities, WillRemove
<1> QED
  BY <1>1, <1>2, <1>3, RelayEntities, SplitNext DEF SendKind, WindowPasses, vars, gsVars, world

\* Once the handlers and goroutines of all connections of a player are done and
\* none of its commands was dropped, registry and entities have nothing left of
\* the player: the entry by the registry's invariant, the entity because the
\* last handler to leave queued its removal behind every addition.
THEOREM FinishedPlayersAreGone == Spec => []FinishedPlayerIsGone
<1>1. SessionTypes /\ IRegistry /\ IEntities => FinishedPlayerIsGone
  <2> SUFFICES ASSUME SessionTypes, IRegistry, IEntities, NEW p \in Players,
                      \A c \in ConnsOf(p) : Finished(c) \/ Untouched(c),
                      ~ Pending(p), p \notin lost
               PROVE  p \notin entities /\ clients[p] = NoConn
    BY DEF FinishedPlayerIsGone
  <2>1. clients[p] = NoConn
    <3> SUFFICES ASSUME clients[p] # NoConn PROVE FALSE
      OBVIOUS
    <3> DEFINE c == clients[p]
    <3>1. c \in ConnsOf(p) /\ (relay[c] = "add" \/ sender[c] \in {"running", "exiting"})
      BY DEF SessionTypes, IRegistry, EntryIsHeld, ConnsOf
    <3> QED
      BY <3>1 DEF Finished, Untouched
  <2>2. p \in entities => Remains(p)
    <3>1. DOMAIN cmds = 1 .. Len(cmds)
      BY DEF SessionTypes
    <3>2. \A j \in 1 .. Len(cmds) : cmds[j].player # p
      BY <3>1 DEF Pending
    <3>3. \A j \in 1 .. Len(cmds) : cmds[j] # Removal(p)
      BY <3>2 DEF Removal
    <3> QED
      BY <3>3 DEF Remains
  <2>3. ~ \E c \in ConnsOf(p) : WillRemove(c)
    BY DEF WillRemove, Finished, Untouched
  <2> QED
    BY <2>1, <2>2, <2>3 DEF IEntities
<1>2. Init => IEntities
  <2>1. Init => \A p \in Players : ~ Remains(p)
    BY DEF Init, RelayInit, Remains
  <2> QED
    BY <2>1 DEF IEntities
<1> QED
  BY <1>1, <1>2, InitTypes, NextTypes, RegistryInit, RegistryStep, EntitiesStep, PTL DEF Spec

-----------------------------------------------------------------------------
(* The packet format.  The frames under way that decode are, in order, the   *)
(* packets the server sent and the client has not shown; at[i] counts the    *)
(* packets up to the i-th frame.                                             *)

Packets == [id : PacketIds, payload : Payloads, seq : SeqNumbers]

Frames ==
  {Encode(k.id, k.payload, z, k.seq) : k \in Packets, z \in BOOLEAN} \cup BadFrames

\* What the read loop shows of a frame.
Shown(f) == [id |-> Decode(f).id, payload |-> Decode(f).payload, seq |-> Decode(f).seq]

\* The frames q are what is left of the packets s after the first n.
FrameStep(f, a, b, s) ==
  IF Decode(f).ok THEN b = a + 1 /\ b <= Len(s) /\ Shown(f) = s[b] ELSE b = a

Follows(at, q, n, s, cut) ==
  /\ at \in [0 .. Len(q) -> Nat]
  /\ at[0] = n /\ at[Len(q)] <= Len(s)
  /\ ~cut => at[Len(q)] = Len(s)
  /\ \A i \in 1 .. Len(q) : FrameStep(q[i], at[i - 1], at[i], s)

IWire ==
  /\ toClient \in Seq(Frames)
  /\ fromServer \in Seq(Packets) /\ displayed \in Seq(Packets)
  /\ broken \in BOOLEAN
  /\ \E at : Follows(at, toClient, Len(displayed), fromServer, broken)
  /\ ShownIsSent

\* A 16-bit number is its two bytes.
LEMMA TwoBytes ==
  ASSUME NEW n \in Nat, n <= 65535
  PROVE  Byte(n, 1) \in Nat /\ Byte(n, 0) \in Nat /\ Byte(n, 1) * 256 + Byte(n, 0) = n
<1>1. Byte(n, 1) = (n \div 256) % 256
  BY DEF Byte
<1>2. Byte(n, 0) = (n \div 1) % 256
  BY DEF Byte
<1>3. n \div 1 = n /\ n \div 256 \in Int /\ 0 <= n \div 256 /\ n \div 256 <= 255
  OBVIOUS
<1>4. (n \div 256) % 256 = n \div 256
  BY <1>3
<1>5. (n \div 256) * 256 + (n % 256) = n /\ n % 256 \in Nat
  OBVIOUS
<1> QED
  BY <1>1, <1>2, <1>3, <1>4, <1>5

\* A pair is its halves.
LEMMA Halves ==
  ASSUME NEW S, NEW s \in S \X S PROVE s = <<s[1], s[2]>> /\ s[1] \in S /\ s[2] \in S
OBVIOUS

\* Decode gives back what Encode was given, packed or not.
LEMMA RoundTrip ==
  ASSUME NEW id \in PacketIds, NEW p \in Payloads, NEW z \in BOOLEAN, NEW s \in SeqNumbers
  PROVE  LET f == Encode(id, p, z, s)
         IN Decode(f).ok /\ Shown(f) = [id |-> id, payload |-> p, seq |-> s]
<1> DEFINE f == Encode(id, p, z, s)
           h == f.head
           gz == Packs(p, z)
<1>1. /\ id \in Nat /\ id <= 65535 /\ s = <<s[1], s[2]>>
      /\ s[1] \in Nat /\ s[1] <= 65535 /\ s[2] \in Nat /\ s[2] <= 65535
  BY WireAssumption, Halves
<1>2. h = <<1, Byte(id, 1), Byte(id, 0), IF gz THEN 1 ELSE 0,
            Byte(s[1], 1), Byte(s[1], 0), Byte(s[2], 1), Byte(s[2], 0)>>
      /\ f.body = [gzip |-> gz, of |-> p]
  BY DEF Encode
<1> HIDE DEF h, f
<1>3. /\ Len(h) = 8 /\ h[1] = 1 /\ h[4] = IF gz THEN 1 ELSE 0
      /\ h[2] = Byte(id, 1) /\ h[3] = Byte(id, 0)
      /\ h[5] = Byte(s[1], 1) /\ h[6] = Byte(s[1], 0)
      /\ h[7] = Byte(s[2], 1) /\ h[8] = Byte(s[2], 0)
      /\ f.body.gzip = gz /\ f.body.of = p
  BY <1>2
<1>4. h[4] % 2 = 1 => gz
  BY <1>3
<1>5. Uint16(h, 2) = id /\ Uint16(h, 5) = s[1] /\ Uint16(h, 7) = s[2]
  BY <1>1, <1>3, TwoBytes DEF Uint16
<1>6. Decode(f) = [ok |-> TRUE, id |-> Uint16(h, 2), payload |-> f.body.of,
                   packed |-> h[4] % 2 = 1, seq |-> <<Uint16(h, 5), Uint16(h, 7)>>]
  <2>1. ~(Len(h) < 8) /\ ~(h[1] # 1) /\ ~(h[4] % 2 = 1 /\ ~f.body.gzip)
    BY <1>3, <1>4
  <2> QED
    BY <2>1 DEF Decode, h
<1>7. Decode(f).ok /\ Decode(f).id = id /\ Decode(f).payload = p /\ Decode(f).seq = s
  <2>1. /\ Decode(f).ok /\ Decode(f).id = Uint16(h, 2) /\ Decode(f).payload = f.body.of
        /\ Decode(f).seq = <<Uint16(h, 5), Uint16(h, 7)>>
    BY <1>6
  <2>2. f.body.of = p
    BY <1>3
  <2>3. s = <<s[1], s[2]>>
    BY <1>1
  <2> QED
    BY <1>5, <2>1, <2>2, <2>3
<1> QED
  BY <1>7 DEF f, Shown

\* Decode refuses the bad frames.
LEMMA BadIsRefused == ASSUME NEW f \in BadFrames PROVE ~Decode(f).ok
<1>1. PICK h \in {<<1, 0, 4>>, <<2, 0, 4, 0, 0, 0, 0, 0>>, <<1, 0, 4, 1, 0, 0, 0, 0>>} :
        f.head = h /\ f.body.gzip = FALSE
  BY DEF BadFrames
<1>2. Len(h) < 8 \/ h[1] # 1 \/ h[4] % 2 = 1
  <2>1. CASE h = <<1, 0, 4>>
    BY <2>1
  <2>2. CASE h = <<2, 0, 4, 0, 0, 0, 0, 0>>
    BY <2>2
  <2>3. CASE h = <<1, 0, 4, 1, 0, 0, 0, 0>>
    BY <2>3
  <2> QED
    BY <1>1, <2>1, <2>2, <2>3
<1>3. Decode(f) = DecodeError
  BY <1>1, <1>2 DEF Decode
<1> QED
  BY <1>3 DEF DecodeError

\* Appending keeps the elements' type.
LEMMA AppendType == ASSUME NEW S, NEW s \in Seq(S), NEW e \in S PROVE Append(s, e) \in Seq(S)
OBVIOUS

\* One more place at the end of a function on 0 .. l.
LEMMA OneMorePlace ==
  ASSUME NEW l \in Nat, NEW at \in [0 .. l -> Nat], NEW v \in Nat,
         NEW a2, a2 = [i \in 0 .. l + 1 |-> IF i = l + 1 THEN v ELSE at[i]]
  PROVE  /\ a2 \in [0 .. l + 1 -> Nat] /\ a2[l + 1] = v
         /\ \A i \in 0 .. l : a2[i] = at[i]
OBVIOUS

LEMMA FirstAndLast == ASSUME NEW l \in Nat PROVE 0 \in 0 .. l /\ l \in 0 .. l
OBVIOUS

\* Another packet is on its way.
LEMMA MorePackets ==
  ASSUME NEW F, NEW P, NEW q \in Seq(F), NEW s \in Seq(P), NEW n, NEW f \in F, NEW k \in P,
         Decode(f).ok, Shown(f) = k, NEW at, Follows(at, q, n, s, FALSE)
  PROVE  \E a2 : Follows(a2, Append(q, f), n, Append(s, k), FALSE)
<1> DEFINE l == Len(q)
           m == Len(s)
           q2 == Append(q, f)
           s2 == Append(s, k)
           a2 == [i \in 0 .. l + 1 |-> IF i = l + 1 THEN m + 1 ELSE at[i]]
<1>0. l \in Nat /\ m \in Nat /\ Len(q2) = l + 1 /\ Len(s2) = m + 1
  OBVIOUS
<1>1. /\ q2[l + 1] = f /\ \A i \in 1 .. l : q2[i] = q[i]
      /\ s2[m + 1] = k /\ \A i \in 1 .. m : s2[i] = s[i]
  OBVIOUS
<1>a. at \in [0 .. l -> Nat] /\ at[0] = n /\ at[l] = m
  BY DEF Follows
<1>2. \A i \in 1 .. l : FrameStep(q[i], at[i - 1], at[i], s)
  BY DEF Follows
<1> HIDE DEF l, m, q2, s2
<1>3. /\ a2 \in [0 .. l + 1 -> Nat] /\ a2[l + 1] = m + 1
      /\ \A i \in 0 .. l : a2[i] = at[i]
  <2>1. m + 1 \in Nat
    BY <1>0
  <2>2. a2 = [i \in 0 .. l + 1 |-> IF i = l + 1 THEN m + 1 ELSE at[i]]
    OBVIOUS
  <2> HIDE DEF a2
  <2> QED
    BY <1>0, <1>a, <2>1, <2>2, OneMorePlace
<1>4. 0 \in 0 .. l /\ l \in 0 .. l
  BY <1>0, FirstAndLast
<1> HIDE DEF a2
<1>5. ASSUME NEW i \in 1 .. l + 1 PROVE FrameStep(q2[i], a2[i - 1], a2[i], s2)
  <2>1. CASE i = l + 1
    <3>1. i - 1 = l
      BY <1>0, <2>1
    <3>2. a2[i - 1] = m
      BY <1>a, <1>3, <1>4, <3>1
    <3>3. a2[i] = m + 1 /\ q2[i] = f /\ s2[a2[i]] = k
      BY <1>1, <1>3, <2>1
    <3>4. a2[i] = a2[i - 1] + 1 /\ a2[i] <= Len(s2)
      BY <1>0, <3>2, <3>3
    <3> QED
      BY <3>3, <3>4 DEF FrameStep
  <2>2. CASE i # l + 1
    <3>1. i \in 1 .. l /\ i \in 0 .. l /\ i - 1 \in 0 .. l
      BY <1>0, <2>2
    <3>2. a2[i - 1] = at[i - 1] /\ a2[i] = at[i] /\ q2[i] = q[i]
          /\ at[i - 1] \in Nat /\ at[i] \in Nat
      BY <1>a, <1>1, <1>3, <3>1
    <3>3. FrameStep(q[i], at[i - 1], at[i], s)
      BY <1>2, <3>1
    <3>4. ASSUME Decode(q[i]).ok
          PROVE  at[i] = at[i - 1] + 1 /\ at[i] <= m + 1 /\ Shown(q[i]) = s2[at[i]]
      <4>1. at[i] = at[i - 1] + 1 /\ at[i] <= m /\ Shown(q[i]) = s[at[i]]
        BY <3>3, <3>4 DEF FrameStep, m
      <4>2. at[i - 1] \in Nat /\ at[i] \in Nat
        BY <3>2
      <4>3. at[i] \in 1 .. m /\ at[i] <= m + 1
        BY <1>0, <4>1, <4>2
      <4>4. s2[at[i]] = s[at[i]]
        BY <1>1, <4>3
      <4> QED
        BY <4>1, <4>3, <4>4
    <3> QED
      BY <1>0, <3>2, <3>3, <3>4 DEF FrameStep
  <2> QED
    BY <2>1, <2>2
<1>6. a2[0] = n /\ a2[Len(q2)] = Len(s2) /\ Len(s2) <= Len(s2)
  BY <1>0, <1>a, <1>3, <1>4
<1>7. Follows(a2, q2, n, s2, FALSE)
  BY <1>0, <1>3, <1>5, <1>6 DEF Follows
<1> QED
  BY <1>7 DEF q2, s2

\* A frame that does not decode is on its way.
LEMMA MoreNoise ==
  ASSUME NEW F, NEW q \in Seq(F), NEW s, NEW n, NEW f \in F, ~Decode(f).ok,
         NEW cut, NEW at, Follows(at, q, n, s, cut)
  PROVE  \E a2 : Follows(a2, Append(q, f), n, s, cut)
<1> DEFINE l == Len(q)
           q2 == Append(q, f)
           a2 == [i \in 0 .. l + 1 |-> IF i = l + 1 THEN at[l] ELSE at[i]]
<1>0. l \in Nat /\ Len(q2) = l + 1
  OBVIOUS
<1>1. q2[l + 1] = f /\ \A i \in 1 .. l : q2[i] = q[i]
  OBVIOUS
<1>a. /\ at \in [0 .. l -> Nat] /\ at[0] = n
      /\ at[l] <= Len(s) /\ (~cut => at[l] = Len(s))
  BY DEF Follows
<1>2. \A i \in 1 .. l : FrameStep(q[i], at[i - 1], at[i], s)
  BY DEF Follows
<1> HIDE DEF l, q2
<1>4. 0 \in 0 .. l /\ l \in 0 .. l
  BY <1>0, FirstAndLast
<1>3. /\ a2 \in [0 .. l + 1 -> Nat] /\ a2[l + 1] = at[l]
      /\ \A i \in 0 .. l : a2[i] = at[i]
  <2>1. at[l] \in Nat
    BY <1>a, <1>4
  <2>2. a2 = [i \in 0 .. l + 1 |-> IF i = l + 1 THEN at[l] ELSE at[i]]
    OBVIOUS
  <2> HIDE DEF a2
  <2> QED
    BY <1>0, <1>a, <2>1, <2>2, OneMorePlace
<1> HIDE DEF a2
<1>5. ASSUME NEW i \in 1 .. l + 1 PROVE FrameStep(q2[i], a2[i - 1], a2[i], s)
  <2>1. CASE i = l + 1
    <3>1. i - 1 = l
      BY <1>0, <2>1
    <3>2. a2[i - 1] = at[l] /\ a2[i] = at[l] /\ q2[i] = f
      BY <1>1, <1>3, <1>4, <2>1, <3>1
    <3> QED
      BY <3>2 DEF FrameStep
  <2>2. CASE i # l + 1
    <3>1. i \in 1 .. l /\ i \in 0 .. l /\ i - 1 \in 0 .. l
      BY <1>0, <2>2
    <3>2. a2[i - 1] = at[i - 1] /\ a2[i] = at[i] /\ q2[i] = q[i]
      BY <1>1, <1>3, <3>1
    <3> QED
      BY <1>2, <3>1, <3>2
  <2> QED
    BY <2>1, <2>2
<1>6. a2[0] = n /\ a2[Len(q2)] <= Len(s) /\ (~cut => a2[Len(q2)] = Len(s))
  BY <1>0, <1>a, <1>3, <1>4
<1>7. Follows(a2, q2, n, s, cut)
  BY <1>0, <1>3, <1>5, <1>6 DEF Follows
<1> QED
  BY <1>7 DEF q2

\* The first frame is taken: it is the next packet, or does not decode.
LEMMA OneLess ==
  ASSUME NEW F, NEW q \in Seq(F), q # <<>>, NEW s, NEW n, NEW cut, NEW at,
         Follows(at, q, n, s, cut)
  PROVE  \E b \in Nat : /\ FrameStep(Head(q), n, b, s)
                        /\ \E a2 : Follows(a2, Tail(q), b, s, cut)
<1> DEFINE l == Len(q)
           q2 == Tail(q)
           a2 == [i \in 0 .. l - 1 |-> at[i + 1]]
<1>1. /\ l \in Nat /\ l > 0 /\ Len(q2) = l - 1 /\ Head(q) = q[1]
      /\ \A i \in 1 .. l - 1 : q2[i] = q[i + 1]
  BY HeadTailProperties, LenProperties
<1>2. /\ at \in [0 .. l -> Nat] /\ at[0] = n /\ at[l] <= Len(s) /\ (~cut => at[l] = Len(s))
      /\ \A i \in 1 .. l : FrameStep(q[i], at[i - 1], at[i], s)
  BY DEF Follows
<1> HIDE DEF l, q2
<1>3. /\ \A i \in 0 .. l - 1 : i + 1 \in 0 .. l /\ i + 1 \in 1 .. l
      /\ 0 \in 0 .. l - 1 /\ l - 1 \in 0 .. l - 1 /\ (l - 1) + 1 = l /\ 1 \in 1 .. l /\ 1 \in 0 .. l
  BY <1>1
<1>4. a2 \in [0 .. l - 1 -> Nat] /\ \A i \in 0 .. l - 1 : a2[i] = at[i + 1]
  BY <1>2, <1>3
<1>5. a2[0] = at[1] /\ a2[l - 1] = at[l] /\ at[1] \in Nat
  <2>1. a2[0] = at[0 + 1] /\ a2[l - 1] = at[(l - 1) + 1]
    BY <1>3, <1>4
  <2> QED
    BY <1>2, <1>3, <2>1
<1> HIDE DEF a2
<1>6. ASSUME NEW i \in 1 .. l - 1 PROVE FrameStep(q2[i], a2[i - 1], a2[i], s)
  <2>1. i \in 0 .. l - 1 /\ i - 1 \in 0 .. l - 1 /\ (i - 1) + 1 = i /\ (i + 1) - 1 = i
        /\ i + 1 \in 1 .. l
    BY <1>1
  <2>2. a2[i - 1] = at[i] /\ a2[i] = at[i + 1] /\ q2[i] = q[i + 1]
    <3>1. a2[i - 1] = at[(i - 1) + 1] /\ a2[i] = at[i + 1]
      BY <1>4, <2>1
    <3> QED
      BY <1>1, <2>1, <3>1
  <2>3. FrameStep(q[i + 1], at[(i + 1) - 1], at[i + 1], s)
    BY <1>2, <2>1
  <2> QED
    BY <2>1, <2>2, <2>3
<1>7. Follows(a2, q2, at[1], s, cut)
  BY <1>1, <1>2, <1>4, <1>5, <1>6 DEF Follows
<1>8. FrameStep(Head(q), n, at[1], s)
  <2>1. FrameStep(q[1], at[1 - 1], at[1], s) /\ 1 - 1 = 0
    BY <1>2, <1>3
  <2> QED
    BY <1>1, <1>2, <2>1
<1> QED
  BY <1>5, <1>7, <1>8 DEF q2

\* Nothing is sent.
LEMMA IWireInit == WireInit => IWire
<1> SUFFICES ASSUME WireInit PROVE IWire
  OBVIOUS
<1> DEFINE a == [i \in 0 .. 0 |-> 0]
<1>1. Len(toClient) = 0 /\ Len(displayed) = 0 /\ Len(fromServer) = 0
  BY DEF WireInit
<1>2. Follows(a, toClient, Len(displayed), fromServer, broken)
  <2>1. a \in [0 .. 0 -> Nat] /\ a[0] = 0
    OBVIOUS
  <2> HIDE DEF a
  <2> QED
    BY <1>1, <2>1 DEF Follows
<1>3. ShownIsSent
  BY <1>1 DEF ShownIsSent
<1>4. /\ toClient \in Seq(Frames) /\ fromServer \in Seq(Packets) /\ displayed \in Seq(Packets)
      /\ broken \in BOOLEAN
  BY EmptySeq DEF WireInit
<1> QED
  BY <1>2, <1>3, <1>4 DEF IWire

\* The server sends a packet.
LEMMA IWireSends ==
  ASSUME IWire, NEW id \in PacketIds, NEW p \in Payloads, NEW z \in BOOLEAN, NEW s \in SeqNumbers,
         ServerSends(id, p, z, s)
  PROVE  IWire'
<1> DEFINE f == Encode(id, p, z, s)
           k == [id |-> id, payload |-> p, seq |-> s]
<1>1. /\ toClient' = Append(toClient, f) /\ fromServer' = Append(fromServer, k)
      /\ UNCHANGED <<displayed, broken>> /\ broken = FALSE
  BY DEF ServerSends, IWire
<1>2. k \in Packets /\ f \in Frames
  <2>1. k \in Packets /\ k.id = id /\ k.payload = p /\ k.seq = s
    BY DEF Packets
  <2> HIDE DEF k
  <2> QED
    BY <2>1 DEF Frames
<1>3. Decode(f).ok /\ Shown(f) = k
  BY RoundTrip
<1> HIDE DEF f, k
<1>4. PICK at : Follows(at, toClient, Len(displayed), fromServer, FALSE)
  BY <1>1 DEF IWire
<1>5. \E a2 : Follows(a2, Append(toClient, f), Len(displayed), Append(fromServer, k), FALSE)
  BY <1>2, <1>3, <1>4, MorePackets DEF IWire
<1>6. toClient' \in Seq(Frames) /\ fromServer' \in Seq(Packets)
  BY <1>1, <1>2, AppendType DEF IWire
<1>7. ShownIsSent'
  <2>1. /\ Len(fromServer') = Len(fromServer) + 1 /\ Len(fromServer) \in Nat
        /\ \A i \in 1 .. Len(fromServer) : fromServer'[i] = fromServer[i]
        /\ Len(displayed) \in Nat
    BY <1>1, <1>2, LenProperties DEF IWire
  <2>2. Len(displayed) <= Len(fromServer)
        /\ \A i \in 1 .. Len(displayed) : displayed[i] = fromServer[i]
    BY DEF IWire, ShownIsSent
  <2> QED
    BY <1>1, <2>1, <2>2 DEF ShownIsSent
<1> QED
  BY <1>1, <1>5, <1>6, <1>7 DEF IWire

\* A frame that does not decode arrives.
LEMMA IWireBad ==
  ASSUME IWire, NEW f \in BadFrames, BadFrameArrives(f)
  PROVE  IWire'
<1>1. toClient' = Append(toClient, f) /\ UNCHANGED <<displayed, fromServer, broken>>
  BY DEF BadFrameArrives
<1>2. f \in Frames /\ ~Decode(f).ok
  BY BadIsRefused DEF Frames
<1>3. PICK at : Follows(at, toClient, Len(displayed), fromServer, broken)
  BY DEF IWire
<1>4. \E a2 : Follows(a2, Append(toClient, f), Len(displayed), fromServer, broken)
  BY <1>2, <1>3, MoreNoise DEF IWire
<1>5. toClient' \in Seq(Frames)
  BY <1>1, <1>2, AppendType DEF IWire
<1> QED
  BY <1>1, <1>4, <1>5 DEF IWire, ShownIsSent

\* The read loop takes a frame: it shows the next packet, or nothing.
LEMMA IWireReads == ASSUME IWire, ClientReads PROVE IWire'
<1> DEFINE f == Head(toClient)
           n == Len(displayed)
<1>1. /\ toClient # <<>> /\ toClient' = Tail(toClient) /\ UNCHANGED <<fromServer, broken>>
      /\ displayed' = IF Decode(f).ok THEN Append(displayed, Shown(f)) ELSE displayed
  BY DEF ClientReads, Shown
<1>2. PICK at : Follows(at, toClient, n, fromServer, broken)
  BY DEF IWire
<1> HIDE DEF f, n
<1>3. PICK b \in Nat : /\ FrameStep(Head(toClient), n, b, fromServer)
                       /\ \E a2 : Follows(a2, Tail(toClient), b, fromServer, broken)
  BY <1>1, <1>2, OneLess DEF IWire
<1>4. toClient' \in Seq(Frames)
  BY <1>1, HeadTailProperties DEF IWire
<1>5. CASE ~Decode(f).ok
  <2>1. displayed' = displayed /\ b = n
    BY <1>1, <1>3, <1>5 DEF FrameStep, f
  <2> QED
    BY <1>1, <1>3, <1>4, <2>1 DEF IWire, ShownIsSent, n
<1>6. CASE Decode(f).ok
  <2> DEFINE k == fromServer[n + 1]
  <2>1. displayed' = Append(displayed, k) /\ b = n + 1 /\ n + 1 <= Len(fromServer)
    BY <1>1, <1>3, <1>6 DEF FrameStep, f
  <2>2. n \in Nat /\ Len(fromServer) \in Nat
    BY LenProperties DEF IWire, n
  <2>3. k \in Packets
    <3>1. n + 1 \in 1 .. Len(fromServer)
      BY <2>1, <2>2
    <3> QED
      BY <3>1, ElementOfSeq DEF IWire
  <2> HIDE DEF k
  <2>4. /\ displayed' \in Seq(Packets) /\ Len(displayed') = n + 1 /\ displayed'[n + 1] = k
        /\ \A i \in 1 .. n : displayed'[i] = displayed[i]
    BY <2>1, <2>3 DEF IWire, n
  <2>5. ShownIsSent'
    <3>1. \A i \in 1 .. n : displayed[i] = fromServer[i]
      BY DEF IWire, ShownIsSent, n
    <3>2. \A i \in 1 .. n + 1 : i \in 1 .. n \/ i = n + 1
      BY <2>2
    <3>3. \A i \in 1 .. n + 1 : displayed'[i] = fromServer[i]
      BY <2>4, <3>1, <3>2 DEF k
    <3> QED
      BY <1>1, <2>1, <2>4, <3>3 DEF ShownIsSent
  <2>6. \E a2 : Follows(a2, toClient', Len(displayed'), fromServer', broken')
    BY <1>1, <1>3, <2>1, <2>4
  <2> QED
    BY <1>1, <1>4, <2>4, <2>5, <2>6 DEF IWire
<1> QED
  BY <1>5, <1>6

\* The connection breaks: what was under way is lost.
LEMMA IWireBreaks == ASSUME IWire, ConnectionBreaks PROVE IWire'
<1> DEFINE n == Len(displayed)
           a == [i \in 0 .. 0 |-> n]
<1>1. toClient' = <<>> /\ broken' = TRUE /\ UNCHANGED <<displayed, fromServer>>
  BY DEF ConnectionBreaks
<1>2. n \in Nat /\ n <= Len(fromServer)
  BY LenProperties DEF IWire, ShownIsSent
<1>3. a \in [0 .. 0 -> Nat] /\ a[0] = n
  BY <1>2
<1> HIDE DEF a, n
<1>4. Follows(a, <<>>, n, fromServer, TRUE)
  BY <1>2, <1>3 DEF Follows
<1>5. \E at : Follows(at, toClient', Len(displayed'), fromServer', broken')
  BY <1>1, <1>4 DEF n
<1> QED
  BY <1>1, <1>5, EmptySeq DEF IWire, ShownIsSent

\* The invariant is inductive.
LEMMA IWireNext == IWire /\ [WireNext]_wireVars => IWire'
<1> SUFFICES ASSUME IWire, [WireNext]_wireVars PROVE IWire'
  OBVIOUS
<1>1. CASE UNCHANGED <<toClient, fromServer, displayed, broken>>
  BY <1>1 DEF IWire, ShownIsSent
<1> QED
  BY <1>1, IWireSends, IWireBad, IWireReads, IWireBreaks
     DEF WireNext, ClientWrites, ServerReads, ReadFails, WriteEnds, wireVars

\* What the client shows is what the server gave to Encode, field by field and
\* in order, whatever frames that do not decode come in between and whenever the
\* connection breaks.
THEOREM ShownAreSent == WireSpec => []ShownIsSent
<1>1. IWire => ShownIsSent
  BY DEF IWire
<1> QED
  BY <1>1, IWireInit, IWireNext, PTL DEF WireSpec

\* What the write loop sends.
Update == Encode(PositionUpdate, CHOOSE q \in Payloads : TRUE, FALSE, <<0, 0>>)
Action == Encode(EntityAction, CHOOSE q \in Payloads : TRUE, FALSE, <<0, 1>>)

\* The client's side of the connection, and the bounds on both.
IClient ==
  /\ toServer \in Seq({Update, Action})
  /\ written \in Seq({PositionUpdate, EntityAction})
  /\ cTick \in 0 .. MaxFrames
  /\ loops \subseteq {"read", "write"}
  /\ ctxDone \in BOOLEAN
  /\ Len(toClient) <= FrameCap /\ Len(toServer) <= FrameCap
  /\ Len(fromServer) <= MaxFrames

\* The bounds are numbers.
LEMMA WireBounds == FrameCap \in Nat /\ MaxFrames \in Nat
BY WireAssumption

\* One frame or two make a sequence.
LEMMA ShortSeqs ==
  ASSUME NEW S, NEW a \in S, NEW b \in S
  PROVE  <<a>> \in Seq(S) /\ <<a, b>> \in Seq(S)
OBVIOUS

\* A tick of the write loop.
LEMMA IClientWrites == ASSUME IWire, IClient, ClientWrites PROVE IClient'
<1> DEFINE frames == IF SendsAction THEN <<Update, Action>> ELSE <<Update>>
           ids == IF SendsAction THEN <<PositionUpdate, EntityAction>> ELSE <<PositionUpdate>>
<1>1. /\ cTick < MaxFrames /\ cTick' = cTick + 1
      /\ Len(toServer) + Len(frames) <= FrameCap
      /\ toServer' = toServer \o frames /\ written' = written \o ids
      /\ UNCHANGED <<toClient, fromServer, loops, ctxDone>>
  BY DEF ClientWrites, Update, Action
<1>2. frames \in Seq({Update, Action})
  BY ShortSeqs
<1>3. ids \in Seq({PositionUpdate, EntityAction})
  BY ShortSeqs
<1> HIDE DEF frames, ids
<1>4. /\ toServer' \in Seq({Update, Action}) /\ Len(toServer') = Len(toServer) + Len(frames)
      /\ written' \in Seq({PositionUpdate, EntityAction})
  BY <1>1, <1>2, <1>3, ConcatProperties DEF IClient
<1>5. cTick' \in 0 .. MaxFrames
  BY <1>1, WireBounds DEF IClient
<1> QED
  BY <1>1, <1>4, <1>5 DEF IClient

\* A frame leaves one end of a queue.
LEMMA ShorterTail ==
  ASSUME NEW S, NEW q \in Seq(S), q # <<>>, NEW n \in Nat, Len(q) <= n
  PROVE  Tail(q) \in Seq(S) /\ Len(Tail(q)) <= n
<1>1. Len(q) \in Nat /\ Len(Tail(q)) = Len(q) - 1 /\ Tail(q) \in Seq(S)
  BY HeadTailProperties, LenProperties
<1> QED
  BY <1>1

\* A frame comes to the other.
LEMMA LongerAppend ==
  ASSUME NEW S, NEW q \in Seq(S), NEW n \in Nat, Len(q) < n, NEW f
  PROVE  Len(Append(q, f)) <= n
<1>1. Len(q) \in Nat /\ Len(Append(q, f)) = Len(q) + 1
  BY LenProperties
<1> QED
  BY <1>1

\* Every step keeps the bounds.
LEMMA IClientNext == IWire /\ IClient /\ [WireNext]_wireVars => IClient'
<1> SUFFICES ASSUME IWire, IClient, [WireNext]_wireVars PROVE IClient'
  OBVIOUS
<1>1. toClient \in Seq(Frames) /\ fromServer \in Seq(Packets)
  BY DEF IWire
<1>2. ASSUME NEW id \in PacketIds, NEW p \in Payloads, NEW z \in BOOLEAN, NEW s \in SeqNumbers,
             ServerSends(id, p, z, s)
      PROVE  IClient'
  <2>1. Len(toClient') <= FrameCap /\ Len(fromServer') <= MaxFrames
    BY <1>1, <1>2, LongerAppend, WireBounds DEF ServerSends
  <2> QED
    BY <1>2, <2>1 DEF ServerSends, IClient
<1>3. ASSUME NEW f \in BadFrames, BadFrameArrives(f) PROVE IClient'
  <2>1. Len(toClient') <= FrameCap
    BY <1>1, <1>3, LongerAppend, WireBounds DEF BadFrameArrives
  <2> QED
    BY <1>3, <2>1 DEF BadFrameArrives, IClient
<1>4. CASE ClientReads
  <2>1. Len(toClient') <= FrameCap
    BY <1>1, <1>4, ShorterTail, WireBounds DEF ClientReads, IClient
  <2> QED
    BY <1>4, <2>1 DEF ClientReads, IClient
<1>5. CASE ServerReads
  <2>1. toServer' \in Seq({Update, Action}) /\ Len(toServer') <= FrameCap
    BY <1>5, ShorterTail, WireBounds DEF ServerReads, IClient
  <2> QED
    BY <1>5, <2>1 DEF ServerReads, IClient
<1>6. CASE ConnectionBreaks
  <2>1. <<>> \in Seq({Update, Action}) /\ Len(<<>>) <= FrameCap
    BY EmptySeq, WireBounds
  <2> QED
    BY <1>6, <2>1 DEF ConnectionBreaks, IClient
<1>7. CASE ReadFails \/ WriteEnds
  <2>1. /\ loops' \subseteq loops /\ ctxDone' = TRUE
        /\ UNCHANGED <<toClient, toServer, fromServer, written, cTick>>
    BY <1>7 DEF ReadFails, WriteEnds
  <2> QED
    BY <2>1 DEF IClient
<1>8. CASE UNCHANGED wireVars
  BY <1>8 DEF wireVars, IClient
<1> QED
  BY <1>2, <1>3, <1>4, <1>5, <1>6, <1>7, <1>8, IClientWrites DEF WireNext

\* Neither direction holds more frames than the connection takes, the client
\* never shows more than was sent, and its loops and its context keep their types.
THEOREM WireTypes == WireSpec => []WireTypeOK
<1>1. WireInit => IClient
  <2> SUFFICES ASSUME WireInit PROVE IClient
    OBVIOUS
  <2>1. /\ <<>> \in Seq({Update, Action}) /\ <<>> \in Seq({PositionUpdate, EntityAction})
        /\ Len(<<>>) <= FrameCap /\ Len(<<>>) <= MaxFrames /\ 0 \in 0 .. MaxFrames
    BY EmptySeq, WireBounds
  <2> QED
    BY <2>1 DEF WireInit, IClient
<1>2. IWire /\ IClient => WireTypeOK
  <2> SUFFICES ASSUME IWire, IClient PROVE WireTypeOK
    OBVIOUS
  <2>1. /\ Len(displayed) \in Nat /\ Len(fromServer) \in Nat
        /\ Len(displayed) <= Len(fromServer) /\ Len(fromServer) <= MaxFrames
    BY LenProperties DEF IWire, ShownIsSent, IClient
  <2>2. Len(displayed) <= MaxFrames
    BY <2>1, WireBounds
  <2> QED
    BY <2>2 DEF IWire, IClient, WireTypeOK
<1> QED
  BY <1>1, <1>2, IWireInit, IWireNext, IClientNext, PTL DEF WireSpec
============================================================================
