---------------------------- MODULE RouterCache ----------------------------
(***************************************************************************)
(* The gateway's routing cache and the ownership changes that fill it: the *)
(* room service's WatcherFanout and WatchOwnership stream, the gateway's   *)
(* StartOwnershipWatch goroutine, and Gets that race with them.  An entry  *)
(* carries its age instead of a deadline.  Every change has a number, its  *)
(* place in the order of the broadcasts.                                   *)
(***************************************************************************)
EXTENDS Integers, Sequences

CONSTANTS
  CacheZones,
  Getters,     \* callers of Get
  NoEntry,
  Idle,
  TTL,         \* RouterCache.ttl, in clock steps
  WatchCap,    \* capacity of a fanout channel
  WireCap,     \* changes the stream holds between the two processes
  MaxChanges,  \* bound on the broadcasts
  MaxBreaks    \* bound on the failures of the stream

ASSUME CacheAssumption ==
  /\ TTL \in Nat /\ WatchCap \in Nat /\ WireCap \in Nat \ {0}
  /\ MaxChanges \in Nat /\ MaxBreaks \in Nat

VARIABLES
  entries,     \* RouterCache.entries: zone -> [num, age] or NoEntry
  getting,     \* getter -> the zone whose entry it saw expired, or Idle
  watcher,     \* StartOwnershipWatch: "dial", "recv" or "wait"
  sub,         \* WatchOwnership of the current stream: "none", "start", "on"
  fanout,      \* the channel of the current subscription
  wire,        \* changes sent and not yet received
  changes,     \* broadcasts so far
  latest,      \* zone -> the number of its last change, 0 when it has none
  breaks

cacheVars == <<entries, getting, watcher, sub, fanout, wire, changes, latest, breaks>>
feedVars == <<watcher, sub, fanout, wire, changes, latest, breaks>>

Change == [zone : CacheZones, num : 1 .. MaxChanges]

CacheTypeOK ==
  /\ entries \in [CacheZones -> [num : 1 .. MaxChanges, age : 0 .. TTL + 1] \cup {NoEntry}]
  /\ getting \in [Getters -> CacheZones \cup {Idle}]
  /\ watcher \in {"dial", "recv", "wait"}
  /\ sub \in {"none", "start", "on"}
  /\ fanout \in Seq(Change) /\ Len(fanout) <= WatchCap
  /\ wire \in Seq(Change) /\ Len(wire) <= WireCap
  /\ changes \in 0 .. MaxChanges
  /\ latest \in [CacheZones -> 0 .. MaxChanges]
  /\ breaks \in 0 .. MaxBreaks

CacheInit ==
  /\ entries = [z \in CacheZones |-> NoEntry]
  /\ getting = [g \in Getters |-> Idle]
  /\ watcher = "dial" /\ sub = "none"
  /\ fanout = <<>> /\ wire = <<>>
  /\ changes = 0 /\ latest = [z \in CacheZones |-> 0]
  /\ breaks = 0

expired(e) == e.age > TTL

\* A full channel, or none, loses the change.
BroadcastChange(z) ==
  /\ changes < MaxChanges
  /\ changes' = changes + 1
  /\ latest' = [latest EXCEPT ![z] = changes']
  /\ fanout' = IF sub = "on" /\ Len(fanout) < WatchCap
               THEN Append(fanout, [zone |-> z, num |-> changes']) ELSE fanout
  /\ UNCHANGED <<entries, getting, watcher, sub, wire, breaks>>

\* The call that opens the stream returns before its handler runs.
OpenWatch ==
  /\ watcher = "dial"
  /\ watcher' = "recv" /\ sub' = "start"
  /\ UNCHANGED <<entries, getting, fanout, wire, changes, latest, breaks>>

WatchSubscribes ==
  /\ sub = "start"
  /\ sub' = "on" /\ fanout' = <<>>
  /\ UNCHANGED <<entries, getting, watcher, wire, changes, latest, breaks>>

\* WatchOwnership takes a change from its channel and sends it.
StreamChange ==
  /\ sub = "on" /\ fanout # <<>> /\ Len(wire) < WireCap
  /\ wire' = Append(wire, Head(fanout)) /\ fanout' = Tail(fanout)
  /\ UNCHANGED <<entries, getting, watcher, sub, changes, latest, breaks>>

Set(z, num) == entries' = [entries EXCEPT ![z] = [num |-> num, age |-> 0]]

\* Mutant: the newest change of the stream is applied first.
ApplyChange_NewestFirst ==
  LET last == wire[Len(wire)]
  IN /\ watcher = "recv" /\ wire # <<>>
     /\ Set(last.zone, last.num)
     /\ wire' = SubSeq(wire, 1, Len(wire) - 1)
     /\ UNCHANGED <<getting, watcher, sub, fanout, changes, latest, breaks>>

ApplyChange ==
  /\ watcher = "recv" /\ wire # <<>>
  /\ Set(Head(wire).zone, Head(wire).num)
  /\ wire' = Tail(wire)
  /\ UNCHANGED <<getting, watcher, sub, fanout, changes, latest, breaks>>

\* The dial or the stream fails; the handler unsubscribes, the buffered
\* changes are lost, and the goroutine waits before it dials again.
WatchFails ==
  /\ watcher \in {"dial", "recv"} /\ breaks < MaxBreaks
  /\ breaks' = breaks + 1
  /\ watcher' = "wait" /\ sub' = "none" /\ fanout' = <<>> /\ wire' = <<>>
  /\ UNCHANGED <<entries, getting, changes, latest>>

WatchRetries ==
  /\ watcher = "wait"
  /\ watcher' = "dial"
  /\ UNCHANGED <<entries, getting, sub, fanout, wire, changes, latest, breaks>>

\* Mutant: Get returns whatever entry it finds.
Get_NoExpiry(z) == entries[z]

\* What Get returns: the entry when it has not expired.
Get(z) == IF entries[z] = NoEntry \/ expired(entries[z]) THEN NoEntry ELSE entries[z]

\* Get finds an expired entry and releases the read lock ...
GetExpired(g, z) ==
  /\ getting[g] = Idle
  /\ entries[z] # NoEntry /\ expired(entries[z])
  /\ getting' = [getting EXCEPT ![g] = z]
  /\ UNCHANGED <<entries, feedVars>>

\* ... and deletes whatever entry the zone has by then.
DeleteExpired(g) ==
  /\ getting[g] # Idle
  /\ entries' = [entries EXCEPT ![getting[g]] = NoEntry]
  /\ getting' = [getting EXCEPT ![g] = Idle]
  /\ UNCHANGED feedVars

Invalidate(z) ==
  /\ entries[z] # NoEntry
  /\ entries' = [entries EXCEPT ![z] = NoEntry]
  /\ UNCHANGED <<getting, feedVars>>

\* Time passes; an age past the TTL is not told apart from a greater one.
CacheTick ==
  /\ \E z \in CacheZones : entries[z] # NoEntry /\ ~ expired(entries[z])
  /\ entries' = [z \in CacheZones |->
       IF entries[z] = NoEntry \/ expired(entries[z]) THEN entries[z]
       ELSE [entries[z] EXCEPT !.age = @ + 1]]
  /\ UNCHANGED <<getting, feedVars>>

FeedNext ==
  \/ \E z \in CacheZones : BroadcastChange(z)
  \/ OpenWatch \/ WatchSubscribes \/ StreamChange \/ ApplyChange \/ WatchFails \/ WatchRetries

CacheNext ==
  \/ FeedNext
  \/ \E z \in CacheZones : Invalidate(z)
  \/ \E g \in Getters, z \in CacheZones : GetExpired(g, z)
  \/ \E g \in Getters : DeleteExpired(g)
  \/ CacheTick

CacheSpec == CacheInit /\ [][CacheNext]_cacheVars

\* Time passes, an open stream delivers, and a Get finishes.
CacheFairness ==
  /\ WF_cacheVars(CacheTick)
  /\ WF_cacheVars(ApplyChange)
  /\ WF_cacheVars(StreamChange)
  /\ \A g \in Getters : WF_cacheVars(DeleteExpired(g))

\* An entry is replaced only by a later change of its zone, and ages otherwise:
\* neither a lost change, a broken stream nor a reconnection makes the cache go
\* back, or gives a server that the zone has left another TTL.
ChangesApplyInOrder ==
  [][\A z \in CacheZones :
       entries[z] # NoEntry /\ entries'[z] # NoEntry =>
         \/ entries'[z].num > entries[z].num
         \/ entries'[z].num = entries[z].num /\ entries'[z].age >= entries[z].age]_cacheVars

\* Once the zones stop moving, Get answers with a server the zone has left
\* only for a while, though changes were lost on a full channel or between two
\* streams: the entry that is wrong expires.
StaleHitsEnd ==
  <>[](\A z \in CacheZones : Get(z) # NoEntry => Get(z).num = latest[z])
============================================================================
