-------------------------- MODULE GameServerRelay --------------------------
(***************************************************************************)
(* The game server's side of a client: the Relay handlers and their sender *)
(* goroutines, the client registry, the command queue, and the part of the *)
(* simulation that adds, removes and sweeps the players' entities.  What   *)
(* those steps do to zones and AOI indexes is module World's subject.      *)
(***************************************************************************)
EXTENDS RelayStream

CONSTANT CmdCap   \* capacity of Game.cmds

ASSUME CmdCapAssumption == CmdCap \in Nat \ {0}

VARIABLES
  relay,      \* connection -> where its Relay handler is
  sender,     \* connection -> its sender goroutine
  clients,    \* clientRegistry.clients: player -> connection of the entry
  done,       \* connection -> the done channel of its entry is closed
  cmds,       \* Game.cmds: an [op, player] to "add" or "remove" each
  entities,   \* Game.Entities, entityZone and entityAOI
  sess,       \* sessionStates; "expired": the window is over
  lost        \* history: players with a command dropped from a full queue

registry == <<clients, done>>
world == <<entities, sess>>
gsVars == <<relay, sender, registry, cmds, world, lost>>

RelayInit ==
  /\ relay = [c \in Conns |-> "recv"]
  /\ sender = [c \in Conns |-> "none"]
  /\ clients = [p \in Players |-> NoConn]
  /\ done = [c \in Conns |-> FALSE]
  /\ cmds = <<>>
  /\ entities = {} /\ lost = {}
  /\ sess = [p \in Players |-> "none"]

----------------------------------------------------------------------------
(* clientRegistry and the command queue                                    *)

\* A previous entry of the player is replaced, and its done channel stays open.
Register(c) == clients' = [clients EXCEPT ![PlayerOf[c]] = c] /\ UNCHANGED done

\* Mutant: the entry is closed but stays in the map.
Unregister_Keeps(p) ==
  /\ done' = [c \in Conns |-> done[c] \/ clients[p] = c]
  /\ UNCHANGED clients

\* Whatever entry the player has now is closed and deleted.
Unregister(p) ==
  /\ done' = [c \in Conns |-> done[c] \/ clients[p] = c]
  /\ clients' = [clients EXCEPT ![p] = NoConn]

\* enqueueCmd waits for space and gives up after a timeout.
Enqueue(op, p) ==
  \/ /\ Len(cmds) < CmdCap
     /\ cmds' = Append(cmds, [op |-> op, player |-> p])
     /\ UNCHANGED lost
  \/ /\ Len(cmds) = CmdCap
     /\ lost' = lost \cup {p}
     /\ UNCHANGED cmds

----------------------------------------------------------------------------
(* Relay                                                                   *)

Goto(c, from, to) == relay[c] = from /\ relay' = [relay EXCEPT ![c] = to]

RelayConnect(c) ==
  /\ Goto(c, "recv", "add")
  /\ Recv(c, "CONNECT")
  /\ Register(c)
  /\ UNCHANGED <<sender, cmds, world, lost>>

RelayAdd(c) ==
  /\ Goto(c, "add", "recv")
  /\ Enqueue("add", PlayerOf[c])
  /\ sender' = [sender EXCEPT ![c] = "running"]
  /\ UNCHANGED <<registry, world, up, ended>>

\* MarkReconnected
RelayReconnect(c) ==
  /\ Goto(c, "recv", "recv")
  /\ Recv(c, "RECONNECT")
  /\ sess' = [sess EXCEPT ![PlayerOf[c]] = "active"]
  /\ UNCHANGED <<sender, registry, cmds, entities, lost>>

\* MarkDisconnected: the window starts now.
RelayPeerDisconnected(c) ==
  LET p == PlayerOf[c] IN
  /\ Goto(c, "recv", "recv")
  /\ Recv(c, "PEER_DISCONNECTED")
  /\ sess' = IF p \in entities THEN [sess EXCEPT ![p] = "disconnected"] ELSE sess
  /\ UNCHANGED <<sender, registry, cmds, entities, lost>>

RelayDisconnect(c) ==
  /\ Goto(c, "recv", "disconnect")
  /\ Recv(c, "DISCONNECT")
  /\ Unregister(PlayerOf[c])
  /\ UNCHANGED <<sender, cmds, world, lost>>

RelayDisconnectRemove(c) ==
  /\ Goto(c, "disconnect", "recv")
  /\ Enqueue("remove", PlayerOf[c])
  /\ UNCHANGED <<sender, registry, world, up, ended>>

\* Recv returns an error; owned holds the client once CONNECT was handled.
RelayEnds(c) ==
  /\ Goto(c, "recv", IF sender[c] = "none" THEN "returned" ELSE "cleanup")
  /\ RecvEnd(c)
  /\ UNCHANGED <<sender, registry, cmds, world, lost>>

CleanupUnregister(c) ==
  /\ Goto(c, "cleanup", "remove")
  /\ Unregister(PlayerOf[c])
  /\ UNCHANGED <<sender, cmds, world, lost, up, ended>>

\* Mutant: the entity of a client that has another entry by now is kept, and
\* so is one whose entry is gone.
CleanupRemove_IfRegistered(c) ==
  /\ Goto(c, "remove", "returned")
  /\ IF done[c] THEN UNCHANGED <<cmds, lost>> ELSE Enqueue("remove", PlayerOf[c])
  /\ UNCHANGED <<sender, registry, world, up, ended>>

CleanupRemove(c) ==
  /\ Goto(c, "remove", "returned")
  /\ Enqueue("remove", PlayerOf[c])
  /\ UNCHANGED <<sender, registry, world, up, ended>>

RelayStep(c) ==
  \/ RelayConnect(c) \/ RelayAdd(c) \/ RelayReconnect(c) \/ RelayPeerDisconnected(c)
  \/ RelayDisconnect(c) \/ RelayDisconnectRemove(c)
  \/ RelayEnds(c) \/ CleanupUnregister(c) \/ CleanupRemove(c)

\* Mutant: the goroutine does not watch the stream's context.
SenderExit_DoneOnly(c) ==
  /\ sender[c] = "running"
  /\ done[c]
  /\ sender' = [sender EXCEPT ![c] = "exiting"]
  /\ UNCHANGED <<relay, registry, cmds, world, lost, up, ended>>

\* done is closed, the stream's context is cancelled, or Send fails.
SenderExit(c) ==
  /\ sender[c] = "running"
  /\ done[c] \/ ended[c] \/ relay[c] = "returned"
  /\ sender' = [sender EXCEPT ![c] = "exiting"]
  /\ UNCHANGED <<relay, registry, cmds, world, lost, up, ended>>

\* The deferred unregister.
SenderUnregister(c) ==
  /\ sender[c] = "exiting"
  /\ sender' = [sender EXCEPT ![c] = "stopped"]
  /\ Unregister(PlayerOf[c])
  /\ UNCHANGED <<relay, cmds, world, lost, up, ended>>

SenderStep(c) == SenderExit(c) \/ SenderUnregister(c)

----------------------------------------------------------------------------
(* The tick goroutine                                                      *)

AddEntity(p) == entities' = entities \cup {p}
RemoveEntity(p) == entities' = entities \ {p}

ApplyCmd ==
  /\ cmds # <<>>
  /\ LET cmd == Head(cmds) IN
     IF cmd.op = "add" THEN AddEntity(cmd.player) ELSE RemoveEntity(cmd.player)
  /\ cmds' = Tail(cmds)
  /\ UNCHANGED <<relay, sender, registry, sess, lost, up, ended>>

\* Mutant: the session state is kept.
SweepDisconnected_KeepsState ==
  /\ LET gone == {p \in Players : sess[p] = "expired"} IN
     /\ gone # {}
     /\ entities' = entities \ gone
  /\ UNCHANGED <<relay, sender, registry, cmds, sess, lost, up, ended>>

\* The end of a tick.  Commands that came after the tick's applyCmds wait.
SweepDisconnected ==
  /\ LET gone == {p \in Players : sess[p] = "expired"} IN
     /\ gone # {}
     /\ entities' = entities \ gone
     /\ sess' = [p \in Players |-> IF p \in gone THEN "none" ELSE sess[p]]
  /\ UNCHANGED <<relay, sender, registry, cmds, lost, up, ended>>

\* reconnectWindow passes.
WindowPasses(p) ==
  /\ sess[p] = "disconnected"
  /\ sess' = [sess EXCEPT ![p] = "expired"]
  /\ UNCHANGED <<relay, sender, registry, cmds, entities, lost, up, ended>>
============================================================================
