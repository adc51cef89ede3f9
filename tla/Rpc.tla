-------------------------------- MODULE Rpc --------------------------------
(***************************************************************************)
(* The gRPC calls into a room service or a game server: the generated      *)
(* stubs of the client, the generated handlers that decode a request and   *)
(* enter the chain of interceptors, the handler itself, which returns or   *)
(* panics, and the stop of the server, which waits for the calls it has    *)
(* accepted.  What the handlers do is in the modules of the components.    *)
(***************************************************************************)
EXTENDS Integers, Sequences

CONSTANTS
  Calls,         \* calls in flight
  AskedMethods   \* the methods that are called

VARIABLES
  listener,      \* "serving", "stopping", "stopped", or "dead" after a panic
  hosted,        \* the process: "room-service" or "game-server"
  calls,         \* the calls as the server sees them
  answer         \* what the client's stub returned, or "waiting"

rpcVars == <<listener, hosted, calls, answer>>

\* The ServiceDesc of each service.
RoomServiceDesc ==
  [unary |-> {"Register", "Heartbeat", "PrepareShutdown", "LookupZone", "LookupServer",
              "ReportMetrics", "PrepareTransfer"},
   streams |-> {"TransferZone", "WatchOwnership"}]

GameServerDesc ==
  [unary |-> {"AssignZone", "ReleaseZone", "MigrateEntity", "NotifyEntityEnter",
              "NotifyEntityLeave", "SendEntityUpdate", "QueryEntities"},
   streams |-> {"ZoneStateSync", "Relay"}]

SpatialServerAPIDesc ==
  [unary |-> {"CreateRuntime", "DestroyRuntime", "GetRuntimeInfo", "GetRuntimeMetrics",
              "ListRuntimes"},
   streams |-> {}]

Descs == {RoomServiceDesc, GameServerDesc, SpatialServerAPIDesc}

Methods == UNION {d.unary \cup d.streams : d \in Descs}

IsStream(m) == \E d \in Descs : m \in d.streams

\* What main registers with its server.
Registered ==
  IF hosted = "game-server" THEN {GameServerDesc} ELSE {RoomServiceDesc, SpatialServerAPIDesc}

\* The methods of RoomService that roomServiceServer leaves to the embedded
\* UnimplementedRoomServiceServer.
Unimplemented ==
  {"PrepareShutdown", "LookupServer", "ReportMetrics", "PrepareTransfer", "TransferZone"}

\* ServerOptions: the interceptors of unary calls, from the outside in ...
UnaryChain == <<"recovery", "logging", "metrics">>

\* Mutant: only unary calls recover.
StreamChain_NoRecovery == <<"metrics">>

\* ... and of streams.
StreamChain == <<"recovery", "metrics">>

Chain(m) == IF IsStream(m) THEN StreamChain ELSE UnaryChain

Recovers(chain) == \E k \in 1 .. Len(chain) : chain[k] = "recovery"

NoCall == [method |-> "none", phase |-> "free", outcome |-> "none"]

RpcInit ==
  /\ listener = "serving"
  /\ hosted \in {"room-service", "game-server"}
  /\ calls = [c \in Calls |-> NoCall]
  /\ answer = [c \in Calls |-> "waiting"]

\* A stub: cc.Invoke or cc.NewStream hands the request to the connection.
Request(c, m) ==
  /\ calls[c].phase = "free"
  /\ \E d \in Registered : m \in d.unary \cup d.streams
  /\ calls' = [calls EXCEPT ![c] = [method |-> m, phase |-> "sent", outcome |-> "none"]]
  /\ UNCHANGED <<listener, hosted, answer>>

\* The server accepts the request; one that stops or has ended does not.
Accept(c) ==
  /\ calls[c].phase = "sent" /\ listener = "serving"
  /\ calls' = [calls EXCEPT ![c].phase = "accepted"]
  /\ UNCHANGED <<listener, hosted, answer>>

Refuse(c) ==
  /\ calls[c].phase = "sent" /\ listener # "serving"
  /\ calls' = [calls EXCEPT ![c].phase = "refused"]
  /\ UNCHANGED <<listener, hosted, answer>>

\* A unary handler decodes the request before it enters the interceptors, and
\* a request that does not decode never reaches them; a stream's handler runs
\* inside them.
Dispatch(c) ==
  /\ calls[c].phase = "accepted"
  /\ \/ /\ calls' = [calls EXCEPT ![c].phase = "running"]
     \/ /\ ~IsStream(calls[c].method)
        /\ calls' = [calls EXCEPT ![c] = [method |-> @.method, phase |-> "done", outcome |-> "undecoded"]]
  /\ UNCHANGED <<listener, hosted, answer>>

Outcomes(m) ==
  IF m \in Unimplemented THEN {"unimplemented"} ELSE {"ok", "error", "panic"}

\* The handler returns, or panics, and the interceptors unwind.  A panic that
\* nothing recovers ends the process, and every call in it.
Return(c) ==
  /\ calls[c].phase = "running"
  /\ \E o \in Outcomes(calls[c].method) :
       LET m == calls[c].method
       IN IF o = "panic" /\ ~Recovers(Chain(m))
          THEN /\ listener' = "dead"
               /\ calls' = [k \in Calls |->
                              IF calls[k].phase \in {"accepted", "running"}
                              THEN [calls[k] EXCEPT !.phase = "lost"] ELSE calls[k]]
          ELSE /\ calls' = [calls EXCEPT ![c] = [method |-> m, phase |-> "done", outcome |-> o]]
               /\ UNCHANGED listener
  /\ UNCHANGED <<hosted, answer>>

\* RecoveryInterceptor and RecoveryStreamInterceptor set the named result.
Recovered == "Internal"

StatusOf(c) ==
  CASE calls[c].phase \in {"refused", "lost"}  -> "Unavailable"
    [] calls[c].outcome = "ok"                 -> "OK"
    [] calls[c].outcome = "panic"              -> Recovered
    [] calls[c].outcome = "unimplemented"      -> "Unimplemented"
    [] OTHER                                   -> "Error"

\* A stub returns the response, or no response and the error.
Receive(c) ==
  /\ answer[c] = "waiting" /\ calls[c].phase \in {"refused", "lost", "done"}
  /\ answer' = [answer EXCEPT ![c] = StatusOf(c)]
  /\ UNCHANGED <<listener, hosted, calls>>

\* The caller's context ends first; the server's handler goes on.
GiveUp(c) ==
  /\ answer[c] = "waiting" /\ calls[c].phase # "free"
  /\ answer' = [answer EXCEPT ![c] = "Canceled"]
  /\ UNCHANGED <<listener, hosted, calls>>

\* SIGTERM: srv.GracefulStop ...
GracefulStop ==
  /\ listener = "serving"
  /\ listener' = "stopping"
  /\ UNCHANGED <<hosted, calls, answer>>

\* ... returns when no accepted call is left.
StopReturns ==
  /\ listener = "stopping"
  /\ \A c \in Calls : calls[c].phase \notin {"accepted", "running"}
  /\ listener' = "stopped"
  /\ UNCHANGED <<hosted, calls, answer>>

RpcNext ==
  \/ \E c \in Calls :
       \/ \E m \in AskedMethods : Request(c, m)
       \/ Accept(c) \/ Refuse(c) \/ Dispatch(c) \/ Return(c) \/ Receive(c) \/ GiveUp(c)
  \/ GracefulStop \/ StopReturns

RpcSpec == RpcInit /\ [][RpcNext]_rpcVars

RpcTypeOK ==
  /\ listener \in {"serving", "stopping", "stopped", "dead"}
  /\ hosted \in {"room-service", "game-server"}
  /\ calls \in [Calls -> [method : Methods \cup {"none"},
                          phase : {"free", "sent", "accepted", "running", "done", "refused", "lost"},
                          outcome : {"none", "ok", "error", "panic", "unimplemented", "undecoded"}]]
  /\ answer \in [Calls -> {"waiting", "OK", "Internal", "Unimplemented", "Error", "Unavailable",
                         "Canceled"}]

(* The status a stub returns tells what became of the call, whichever other
   calls panic and whenever the server is told to stop: OK only if the handler
   ran to its end, and Unavailable, which a caller may retry, only if the call
   never reached it.  Recovery keeps a panic in the call it came from and turns
   it into an error, and GracefulStop waits for what the server accepted. *)
AnswerIsTrue ==
  \A c \in Calls :
    /\ answer[c] = "OK" => calls[c].outcome = "ok"
    /\ answer[c] = "Unavailable" => calls[c].phase = "refused"
============================================================================
