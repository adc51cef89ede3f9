----------------------------- MODULE RateLimit -----------------------------
(***************************************************************************)
(* The limits on what a gateway forwards: a token bucket per connection    *)
(* and one per key of the limiter shared by the connections.  relayWS uses *)
(* the client id as that key.  A token is One units, a clock step adds     *)
(* Rate units; the code's floats make the same sums in fractions.          *)
(***************************************************************************)
EXTENDS Integers

CONSTANTS
  Conns,      \* websocket connections
  Clients,    \* client ids, the keys of ipLimiter
  ClientOf,   \* the client id of a connection
  One,        \* units in a token
  Rate,       \* units per clock step, by connection and client id
  Burst,      \* capacity in units, by connection and client id
  NoBucket,
  MaxTime     \* bound on the clock

Limited == Conns \cup Clients

ASSUME LimitAssumption ==
  /\ Conns \cap Clients = {}
  /\ ClientOf \in [Conns -> Clients]
  /\ One \in Nat \ {0}
  /\ Rate \in [Limited -> Nat]
  /\ Burst \in [Limited -> Nat]
  /\ NoBucket \notin [tokens : Nat, last : Nat]
  /\ MaxTime \in Nat

VARIABLES
  limNow,     \* the monotonic clock
  bucket,     \* the buckets, NoBucket before they are made
  reader,     \* where the reading goroutine of a connection is
  watched,    \* history: the bucket a window is kept for,
  since,      \* when the window began,
  passed      \* and the packets its bucket let pass in it

limVars == <<limNow, bucket, reader, watched, since, passed>>

Bucket == [tokens : Nat, last : Nat]

LimTypeOK ==
  /\ limNow \in Nat
  /\ bucket \in [Limited -> Bucket \cup {NoBucket}]
  /\ reader \in [Conns -> {"none", "read", "ip"}]
  /\ watched \in Limited
  /\ since \in 0 .. limNow
  /\ passed \in Nat

newTokenBucket(k) == [tokens |-> Burst[k], last |-> limNow]

\* Mutant: the refill is not capped at the burst.
Refilled_Uncapped(k, b) == b.tokens + (limNow - b.last) * Rate[k]

Refilled(k, b) ==
  LET sum == b.tokens + (limNow - b.last) * Rate[k]
  IN IF sum > Burst[k] THEN Burst[k] ELSE sum

\* allow() of bucket b of k: what it becomes and whether it lets a packet pass.
allow(k, b, ok) ==
  /\ ok <=> Refilled(k, b) >= One
  /\ bucket' = [bucket EXCEPT ![k] =
       [tokens |-> IF ok THEN Refilled(k, b) - One ELSE Refilled(k, b), last |-> limNow]]
  /\ passed' = IF ok /\ k = watched THEN passed + 1 ELSE passed

LimInit ==
  /\ limNow = 0
  /\ bucket = [k \in Limited |-> NoBucket]
  /\ reader = [c \in Conns |-> "none"]
  /\ watched \in Limited
  /\ since = 0
  /\ passed = 0

\* relayWS makes the connection's limiter and starts the reader.
StartReader(c) ==
  /\ reader[c] = "none"
  /\ reader' = [reader EXCEPT ![c] = "read"]
  /\ bucket' = [bucket EXCEPT ![c] = newTokenBucket(c)]
  /\ UNCHANGED <<limNow, watched, since, passed>>

\* A packet is read; the connection's limiter lets it pass or drops it.
ConnAllow(c, ok) ==
  /\ reader[c] = "read"
  /\ allow(c, bucket[c], ok)
  /\ reader' = [reader EXCEPT ![c] = IF ok THEN "ip" ELSE "read"]
  /\ UNCHANGED <<limNow, watched, since>>

\* LoadOrStore makes the client's bucket at its first use; the packet is then
\* sent to the game server or dropped.
IPAllow(c, ok) ==
  LET k == ClientOf[c]
  IN /\ reader[c] = "ip"
     /\ allow(k, IF bucket[k] = NoBucket THEN newTokenBucket(k) ELSE bucket[k], ok)
     /\ reader' = [reader EXCEPT ![c] = "read"]
     /\ UNCHANGED <<limNow, watched, since>>

LimTick ==
  /\ limNow < MaxTime
  /\ limNow' = limNow + 1
  /\ UNCHANGED <<bucket, reader, watched, since, passed>>

\* A new window begins.
OpenWindow ==
  /\ since' = limNow
  /\ passed' = 0
  /\ UNCHANGED <<limNow, bucket, reader, watched>>

LimNext ==
  \/ \E c \in Conns : StartReader(c)
  \/ \E c \in Conns, ok \in BOOLEAN : ConnAllow(c, ok)
  \/ \E c \in Conns, ok \in BOOLEAN : IPAllow(c, ok)
  \/ LimTick
  \/ OpenWindow

LimSpec == LimInit /\ [][LimNext]_limVars

\* In every window of time a limiter lets at most its burst and what its rate
\* adds pass, however the readers of a client's connections interleave.
WindowBound == One * passed <= Burst[watched] + Rate[watched] * (limNow - since)
============================================================================
