------------------------------ MODULE Session ------------------------------
(***************************************************************************)
(* A client's session from end to end: the gateway and the game server     *)
(* composed through the relay streams.                                     *)
(***************************************************************************)
EXTENDS Gateway, GameServerRelay

\* RECONNECT and DISCONNECT, which Relay handles and relayWS never sends, when
\* the stream's client is taken to send them.
CONSTANT ClientKinds

ASSUME ClientKindsAssumption == ClientKinds \subseteq {"RECONNECT", "DISCONNECT"}

vars == <<up, ended, gwVars, gsVars>>

Init == StreamInit /\ GatewayInit /\ RelayInit

SendKind(c, kind) ==
  /\ gw[c] = "relay"
  /\ up[c] = <<>>
  /\ Send(c, kind)
  /\ UNCHANGED <<gwVars, gsVars>>

Next ==
  \/ \E c \in Conns : GatewayStep(c) /\ UNCHANGED gsVars
  \/ (Drain \/ Exit) /\ UNCHANGED gsVars
  \/ \E c \in Conns, kind \in ClientKinds : SendKind(c, kind)
  \/ \E c \in Conns : (RelayStep(c) \/ SenderStep(c)) /\ UNCHANGED gwVars
  \/ (ApplyCmd \/ SweepDisconnected) /\ UNCHANGED gwVars
  \/ \E p \in Players : WindowPasses(p) /\ UNCHANGED gwVars

Spec == Init /\ [][Next]_vars

\* What goes on without the clients: the deferred calls of relayWS, the
\* goroutines of the game server, and the clock.
Progress ==
  \/ \E c \in Conns :
       \/ (CloseRelay(c) \/ RemoveSession(c)) /\ UNCHANGED gsVars
       \/ (RelayStep(c) \/ SenderStep(c)) /\ UNCHANGED gwVars
  \/ (ApplyCmd \/ SweepDisconnected) /\ UNCHANGED gwVars
  \/ \E p \in Players : WindowPasses(p) /\ UNCHANGED gwVars

\* As long as something of it can go on, something does.  Each goroutine has
\* only so many steps to take, so this is enough for every one of them to get
\* its turn; clients need not do anything.
Fairness == WF_vars(Progress)

FairSpec == Spec /\ Fairness

----------------------------------------------------------------------------
(* Properties                                                              *)

ConnsOf(p) == {c \in Conns : PlayerOf[c] = p}

\* Connection c has no handler, goroutine or packet left in the game server.
Finished(c) == relay[c] = "returned" /\ sender[c] # "running" /\ sender[c] # "exiting"
Untouched(c) == relay[c] = "recv" /\ sender[c] = "none" /\ up[c] = <<>>

Pending(p) == \E i \in DOMAIN cmds : cmds[i].player = p

\* No entry in the registry has its done channel closed: unregister, called by
\* cleanup, by the sender goroutine and for DISCONNECT, closes no channel twice.
RegisteredEntryIsOpen == \A p \in Players : clients[p] # NoConn => ~ done[clients[p]]

\* Once all connections of a player are finished and no command was dropped,
\* nothing of the player is left in the registry or among the entities, in
\* whatever order the handlers of its connections overlapped.
FinishedPlayerIsGone ==
  \A p \in Players :
    (\A c \in ConnsOf(p) : Finished(c) \/ Untouched(c)) /\ ~ Pending(p) /\ p \notin lost =>
      p \notin entities /\ clients[p] = NoConn

\* Once all connections of a player are closed, its session is out of the pool.
ClosedPlayerLeavesPool ==
  \A p \in Players :
    (\A c \in ConnsOf(p) : gw[c] \in {"new", "closed"}) => pool[p] = NoConn

\* A sender goroutine does not outlive its stream.
SenderStops == \A c \in Conns : (ended[c] /\ sender[c] = "running") ~> (sender[c] = "stopped")

\* A session state does not stay behind: it is swept after the window.
SessionStateIsSwept == \A p \in Players : (sess[p] = "disconnected") ~> (sess[p] = "none")

\* The connection c is the only one of its player, is fully connected, and
\* nothing else is going on for the player.
SettledOn(c) ==
  /\ gw[c] = "relay" /\ relay[c] = "recv" /\ up[c] = <<>> /\ sender[c] # "none"
  /\ \A d \in ConnsOf(PlayerOf[c]) \ {c} : Finished(d) \/ Untouched(d)
  /\ ~ Pending(PlayerOf[c])
  /\ PlayerOf[c] \notin lost

\* A connected player has an entity.
ConnectedHasEntity == \A c \in Conns : SettledOn(c) => PlayerOf[c] \in entities

\* The gateway is not ready while SoftLimit clients are connected.
ReadyCountsClients ==
  Cardinality({c \in Conns : gw[c] = "relay"}) >= SoftLimit => ~ Ready
============================================================================
