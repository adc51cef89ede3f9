---------------------------- MODULE RelayStream ----------------------------
(***************************************************************************)
(* The gRPC Relay streams between the gateway and the game server, as far  *)
(* as a client's lifecycle is concerned: control packets in order, and the *)
(* end of the stream.  Each connection has a stream of its own.  DATA      *)
(* packets change no lifecycle state and are left out.                     *)
(***************************************************************************)
EXTENDS Naturals, Sequences, FiniteSets

CONSTANTS
  Conns,      \* WebSocket connections
  Players,    \* player ids, which are also client ids and entity ids
  PlayerOf,   \* connection -> player id of the token's claims
  NoConn

ASSUME StreamAssumption ==
  /\ PlayerOf \in [Conns -> Players]
  /\ NoConn \notin Conns

VARIABLES
  up,         \* connection -> packets on their way to the game server, each a
              \* "CONNECT", "RECONNECT", "PEER_DISCONNECTED" or "DISCONNECT"
  ended       \* connection -> the gateway's end is closed

StreamInit ==
  /\ up = [c \in Conns |-> <<>>]
  /\ ended = [c \in Conns |-> FALSE]

Send(c, kind) == up' = [up EXCEPT ![c] = Append(@, kind)] /\ UNCHANGED ended

Close(c) == ended' = [ended EXCEPT ![c] = TRUE] /\ UNCHANGED up

Recv(c, kind) ==
  /\ up[c] # <<>> /\ Head(up[c]) = kind
  /\ up' = [up EXCEPT ![c] = Tail(@)]
  /\ UNCHANGED ended

\* The receiver sees the end.  Closing the connection under the stream may
\* overtake packets that were not yet received.
RecvEnd(c) ==
  /\ ended[c]
  /\ up' = [up EXCEPT ![c] = <<>>]
  /\ UNCHANGED ended
============================================================================
