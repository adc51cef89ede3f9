------------------------------ MODULE Gateway ------------------------------
(***************************************************************************)
(* The gateway's connections: handleWS, the relayWS goroutine it starts,   *)
(* the session pool, the connection counter behind /ready, and shutdown.   *)
(***************************************************************************)
EXTENDS RelayStream

CONSTANTS
  SoftLimit,
  Shutdown    \* whether the gateway receives SIGTERM

ASSUME GatewayAssumption == SoftLimit \in Nat /\ Shutdown \in BOOLEAN

VARIABLES
  gw,         \* connection -> where handleWS or relayWS is: "new", "lookup"
              \* (handleWS), "dial", "relay", "close", "remove" (the deferred
              \* calls of relayWS), "closed"
  pool,       \* Pool.byID: player -> the connection whose session is stored
  conns,      \* Handler.conns
  draining    \* Handler.draining

gwVars == <<gw, pool, conns, draining>>

GatewayInit ==
  /\ gw = [c \in Conns |-> "new"]
  /\ pool = [p \in Players |-> NoConn]
  /\ conns = 0
  /\ draining = FALSE

Step(c, from, to) == gw[c] = from /\ gw' = [gw EXCEPT ![c] = to]

HandleWS(c) ==
  /\ ~ draining
  /\ Step(c, "new", "lookup")
  /\ conns' = conns + 1
  /\ UNCHANGED <<pool, draining, up, ended>>

\* LookupZone or the upgrade fails.
RefuseWS(c) ==
  /\ Step(c, "lookup", "closed")
  /\ conns' = conns - 1
  /\ UNCHANGED <<pool, draining, up, ended>>

\* The session is stored, relayWS is started and handleWS returns, which
\* counts the connection off.
AcceptWS(c) ==
  /\ Step(c, "lookup", "dial")
  /\ pool' = [pool EXCEPT ![PlayerOf[c]] = c]
  /\ conns' = conns - 1
  /\ UNCHANGED <<draining, up, ended>>

\* Mutant: an early return before the deferred calls are set up.
DialFails_NoCleanup(c) ==
  /\ Step(c, "dial", "closed")
  /\ UNCHANGED <<pool, conns, draining, up, ended>>

DialFails(c) ==
  /\ Step(c, "dial", "remove")
  /\ UNCHANGED <<pool, conns, draining, up, ended>>

OpenRelay(c) ==
  /\ Step(c, "dial", "relay")
  /\ Send(c, "CONNECT")
  /\ UNCHANGED <<pool, conns, draining>>

\* One of the two copying goroutines meets an error: the client is gone, or
\* the game server ended the stream.
PeerDisconnected(c) ==
  /\ Step(c, "relay", "close")
  /\ Send(c, "PEER_DISCONNECTED")
  /\ UNCHANGED <<pool, conns, draining>>

\* CloseSend, gconn.Close and cancel.
CloseRelay(c) ==
  /\ Step(c, "close", "remove")
  /\ Close(c)
  /\ UNCHANGED <<pool, conns, draining>>

RemoveSession(c) ==
  /\ Step(c, "remove", "closed")
  /\ pool' = [pool EXCEPT ![PlayerOf[c]] = NoConn]
  /\ UNCHANGED <<conns, draining, up, ended>>

\* SIGTERM.
Drain ==
  /\ Shutdown /\ ~ draining
  /\ draining' = TRUE
  /\ UNCHANGED <<gw, pool, conns, up, ended>>

\* http.Server.Shutdown does not wait for upgraded connections; then main
\* returns and the process is gone.
Exit ==
  /\ draining
  /\ \E c \in Conns : gw[c] \notin {"new", "closed"}
  /\ \A c \in Conns : gw[c] # "lookup"
  /\ gw' = [c \in Conns |-> "closed"]
  /\ ended' = [c \in Conns |-> ended[c] \/ gw[c] \in {"relay", "close"}]
  /\ pool' = [p \in Players |-> NoConn]
  /\ conns' = 0
  /\ UNCHANGED <<draining, up>>

GatewayStep(c) ==
  \/ HandleWS(c) \/ RefuseWS(c) \/ AcceptWS(c) \/ DialFails(c) \/ OpenRelay(c)
  \/ PeerDisconnected(c) \/ CloseRelay(c) \/ RemoveSession(c)

\* /ready, with the room service healthy.
Ready == ~ draining /\ conns < SoftLimit
============================================================================
