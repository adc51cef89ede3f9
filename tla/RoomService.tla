----------------------------- MODULE RoomService -----------------------------
(***************************************************************************)
(* The room service: the PostgreSQL tables game_servers and zones, the     *)
(* LookupZone handlers and the ProductionSweeper that read and write them, *)
(* the heartbeats of the game servers and the WatcherFanout.               *)
(*                                                                         *)
(* Every SQL statement is one step, so two handlers, or a handler and the  *)
(* sweeper, interleave between their statements exactly as they may in     *)
(* the service.  A game server's id is fresh for each process              *)
(* (types.NewServerID), so a crashed server never comes back under its id. *)
(* zones.status is always written together with zones.server_id ('active'  *)
(* iff not NULL) and is left out.                                          *)
(***************************************************************************)
EXTENDS Naturals, Sequences, FiniteSets

CONSTANTS
  Servers,      \* ids of game-server processes
  Zones,        \* zone ids
  Lookups,      \* slots for concurrent LookupZone calls
  Watchers,     \* WatchOwnership streams
  NoServer,     \* SQL NULL in zones.server_id
  MaxZones,     \* game_servers.max_zones, the same for every server
  ChanCap,      \* capacity of a watcher's channel
  Environment   \* which faults happen: "partition", "db", "crash"

ASSUME ConstantsAssumption ==
  /\ NoServer \notin Servers
  /\ Zones # {}
  /\ MaxZones \in Nat
  /\ ChanCap \in Nat \ {0}
  /\ Environment \subseteq {"partition", "db", "crash"}

VARIABLES
  proc,      \* game-server process: "off", "up" or "down"
  status,    \* game_servers.status; "none" when there is no row
  stale,     \* last_heartbeat < NOW() - MissThreshold
  zoneRows,  \* ids with a row in zones
  owner,     \* zones.server_id
  lookup,    \* the LookupZone calls
  sweep,     \* the sweeper goroutine
  watching,  \* the watchers with a channel in the fanout
  chan,      \* watcher -> ownership changes buffered in its channel
  seen,      \* history: owners a call's zone had since the call began
  late       \* history: zones claimed for a server no longer active

dbVars == <<status, stale, zoneRows>>
watch == <<watching, chan>>
history == <<seen, late>>
vars == <<proc, dbVars, owner, lookup, sweep, watch, history>>

OwnerOrNone == Servers \cup {NoServer}
Changes == [zone : Zones, server : OwnerOrNone]

LookupPCs == {"idle", "lookup", "get", "list", "claim", "reread", "done"}
SweepPCs == {"idle", "mark", "zones", "release", "list", "claim", "reread"}

NoLookup == [pc |-> "idle", zone |-> CHOOSE z \in Zones : TRUE, server |-> NoServer]
NoSweep == [pc |-> "idle", dead |-> {}, server |-> NoServer, zones |-> {},
            zone |-> CHOOSE z \in Zones : TRUE, target |-> NoServer]

TypeOK ==
  /\ proc \in [Servers -> {"off", "up", "down"}]
  /\ status \in [Servers -> {"none", "joining", "active", "shutdown"}]
  /\ stale \in [Servers -> BOOLEAN]
  /\ zoneRows \subseteq Zones
  /\ owner \in [Zones -> OwnerOrNone]
  /\ lookup \in [Lookups -> [pc : LookupPCs, zone : Zones, server : OwnerOrNone]]
  /\ sweep \in [pc : SweepPCs, dead : SUBSET Servers, server : OwnerOrNone,
                zones : SUBSET Zones, zone : Zones, target : OwnerOrNone]
  /\ watching \subseteq Watchers
  /\ chan \in [Watchers -> Seq(Changes)]
  /\ \A w \in Watchers : Len(chan[w]) <= ChanCap
  /\ seen \in [Lookups -> SUBSET OwnerOrNone]
  /\ late \subseteq Zones

Init ==
  /\ proc = [s \in Servers |-> "off"]
  /\ status = [s \in Servers |-> "none"]
  /\ stale = [s \in Servers |-> FALSE]
  /\ zoneRows = {}
  /\ owner = [z \in Zones |-> NoServer]
  /\ lookup = [l \in Lookups |-> NoLookup]
  /\ sweep = NoSweep
  /\ watching = {}
  /\ chan = [w \in Watchers |-> <<>>]
  /\ seen = [l \in Lookups |-> {}]
  /\ late = {}

DBFails == "db" \in Environment

-----------------------------------------------------------------------------
(* The tables and the allocator                                            *)

\* SELECT ... WHERE status='active'.  List does not read the load, so every
\* descriptor has zone count 0.
List == {[node |-> s, zoneCount |-> 0] : s \in {t \in Servers : status[t] = "active"}}

CanAccept(n) == ~ (MaxZones > 0 /\ n.zoneCount >= MaxZones)

\* The nodes LeastLoadedAllocator may return: the row order is not specified.
Select(nodes) ==
  {n \in nodes : CanAccept(n) /\ \A m \in nodes : CanAccept(m) => n.zoneCount <= m.zoneCount}

\* SELECT id ... WHERE status='active' AND last_heartbeat < NOW() - since
ListDead == {s \in Servers : status[s] = "active" /\ stale[s]}

ListByServer(s) == {z \in Zones : owner[z] = s}

\* Mutant: AND server_id IS NULL is lost.
ClaimUpdates_Owned(z) == z \in zoneRows

\* The UPDATE of Claim affects a row.
ClaimUpdates(z) == z \in zoneRows /\ owner[z] = NoServer

\* Mutant: the owner that is read is not compared.
RereadAccepts_AnyOwner(z, s) == z \in zoneRows

\* Claim's second statement finds a row, and not another server in it.
RereadAccepts(z, s) == z \in zoneRows /\ owner[z] \in {NoServer, s}

InFlight(l) == lookup[l].pc \notin {"idle", "done"}

SetOwner(z, s) ==
  /\ owner' = [owner EXCEPT ![z] = s]
  /\ seen' = [l \in Lookups |-> IF InFlight(l) /\ lookup[l].zone = z
                                THEN seen[l] \cup {s} ELSE seen[l]]

-----------------------------------------------------------------------------
(* Game servers                                                            *)

\* main registers once; the reply's Success field is not looked at, so a
\* failed INSERT leaves a running server without a row.
StartServer(s) ==
  /\ proc[s] = "off"
  /\ proc' = [proc EXCEPT ![s] = "up"]
  /\ \/ status' = [status EXCEPT ![s] = IF @ = "none" THEN "joining" ELSE @]
     \/ DBFails /\ UNCHANGED status
  /\ UNCHANGED <<stale, zoneRows, owner, lookup, sweep, watch, history>>

\* UPDATE game_servers SET status='active', last_heartbeat=NOW() WHERE id=s
Heartbeat(s) ==
  /\ proc[s] = "up"
  /\ status[s] # "none"
  /\ status' = [status EXCEPT ![s] = "active"]
  /\ stale' = [stale EXCEPT ![s] = FALSE]
  /\ UNCHANGED <<proc, zoneRows, owner, lookup, sweep, watch, history>>

\* Three heartbeats are missed: the process is gone or cut off.  ListDead reads
\* last_heartbeat of active servers only.
HeartbeatsMissed(s) ==
  /\ status[s] = "active" /\ ~ stale[s]
  /\ proc[s] = "down" \/ "partition" \in Environment
  /\ stale' = [stale EXCEPT ![s] = TRUE]
  /\ UNCHANGED <<proc, status, zoneRows, owner, lookup, sweep, watch, history>>

StopServer(s) ==
  /\ proc[s] = "up"
  /\ proc' = [proc EXCEPT ![s] = "down"]
  /\ UNCHANGED <<dbVars, owner, lookup, sweep, watch, history>>

EnsureRow(z) ==
  /\ z \notin zoneRows
  /\ zoneRows' = zoneRows \cup {z}
  /\ UNCHANGED <<proc, status, stale, owner, lookup, sweep, watch, history>>

-----------------------------------------------------------------------------
(* LookupZone                                                              *)

Goto(l, pc) == lookup' = [lookup EXCEPT ![l].pc = pc]
\* The call returns an error.
Fail(l) == lookup' = [lookup EXCEPT ![l] = NoLookup]
GotoWith(l, pc, s) == lookup' = [lookup EXCEPT ![l] = [@ EXCEPT !.pc = pc, !.server = s]]

\* NoServer enters seen when the zone is released during the call, or when it
\* had no row at the beginning.
StartLookup(l, z) ==
  /\ ~ InFlight(l)
  /\ lookup' = [lookup EXCEPT ![l] = [pc |-> "lookup", zone |-> z, server |-> NoServer]]
  /\ seen' = [seen EXCEPT ![l] = IF ClaimUpdates(z) THEN {} ELSE {owner[z]}]
  /\ UNCHANGED <<proc, dbVars, owner, sweep, watch, late>>

\* An error of the query is treated like an unowned zone.
LookupOwner(l) ==
  LET z == lookup[l].zone IN
  /\ lookup[l].pc = "lookup"
  /\ \/ owner[z] # NoServer /\ GotoWith(l, "get", owner[z])
     \/ owner[z] = NoServer /\ Goto(l, "list")
     \/ DBFails /\ Goto(l, "list")
  /\ UNCHANGED <<proc, dbVars, owner, sweep, watch, history>>

\* Get returns the row whatever its status.
LookupGet(l) ==
  /\ lookup[l].pc = "get"
  /\ \/ Goto(l, "done")
     \/ DBFails /\ GotoWith(l, "list", NoServer)
  /\ UNCHANGED <<proc, dbVars, owner, sweep, watch, history>>

LookupSelect(l) ==
  /\ lookup[l].pc = "list"
  /\ \/ \E n \in Select(List) : GotoWith(l, "claim", n.node)
     \/ (Select(List) = {} \/ DBFails) /\ Fail(l)
  /\ UNCHANGED <<proc, dbVars, owner, sweep, watch, history>>

LookupClaim(l) ==
  LET z == lookup[l].zone
      s == lookup[l].server
  IN
  /\ lookup[l].pc = "claim"
  /\ \/ /\ ClaimUpdates(z)
        /\ SetOwner(z, s)
        /\ late' = IF status[s] = "active" THEN late \ {z} ELSE late \cup {z}
        /\ Goto(l, "done")
     \/ /\ ~ ClaimUpdates(z)
        /\ Goto(l, "reread")
        /\ UNCHANGED <<owner, history>>
     \/ /\ DBFails
        /\ Fail(l)
        /\ UNCHANGED <<owner, history>>
  /\ UNCHANGED <<proc, dbVars, sweep, watch>>

\* Only ErrNoRows is looked at: any other error of the second statement
\* leaves owner nil, and Claim returns nil.
LookupReread(l) ==
  LET accepts == RereadAccepts(lookup[l].zone, lookup[l].server) IN
  /\ lookup[l].pc = "reread"
  /\ \/ accepts /\ Goto(l, "done")
     \/ ~ accepts /\ Fail(l)
     \/ DBFails /\ Goto(l, "done")
  /\ UNCHANGED <<proc, dbVars, owner, sweep, watch, history>>

LookupStep(l) ==
  \/ LookupOwner(l)
  \/ LookupGet(l)
  \/ LookupSelect(l)
  \/ LookupClaim(l)
  \/ LookupReread(l)

-----------------------------------------------------------------------------
(* WatcherFanout and the WatchOwnership streams                            *)

Subscribe(w) ==
  /\ w \notin watching
  /\ watching' = watching \cup {w}
  /\ UNCHANGED <<proc, dbVars, owner, lookup, sweep, chan, history>>

Unsubscribe(w) ==
  /\ w \in watching
  /\ watching' = watching \ {w}
  /\ chan' = [chan EXCEPT ![w] = <<>>]
  /\ UNCHANGED <<proc, dbVars, owner, lookup, sweep, history>>

\* The stream sends the oldest buffered change.
SendChange(w) ==
  /\ chan[w] # <<>>
  /\ chan' = [chan EXCEPT ![w] = Tail(@)]
  /\ UNCHANGED <<proc, dbVars, owner, lookup, sweep, watching, history>>

\* A full channel drops the change.
Broadcast(c) ==
  /\ chan' = [w \in Watchers |-> IF w \in watching /\ Len(chan[w]) < ChanCap
                                 THEN Append(chan[w], c) ELSE chan[w]]
  /\ UNCHANGED watching

-----------------------------------------------------------------------------
(* ProductionSweeper.  An error at any statement is logged and the loop    *)
(* goes on with the next zone or the next server.                          *)

SweepListDead ==
  /\ sweep.pc = "idle"
  /\ ListDead # {}
  /\ sweep' = [sweep EXCEPT !.pc = "mark", !.dead = ListDead]
  /\ UNCHANGED <<proc, dbVars, owner, lookup, watch, history>>

\* UPDATE game_servers SET status='shutdown' WHERE id=s, whatever has
\* happened to the row since ListDead.
SweepMark(s) ==
  /\ sweep.pc = "mark"
  /\ s \in sweep.dead
  /\ \/ /\ status' = [status EXCEPT ![s] = "shutdown"]
        /\ sweep' = [sweep EXCEPT !.pc = "zones", !.dead = @ \ {s}, !.server = s]
     \/ /\ DBFails
        /\ sweep' = [sweep EXCEPT !.dead = @ \ {s}]
        /\ UNCHANGED status
  /\ UNCHANGED <<proc, stale, zoneRows, owner, lookup, watch, history>>

SweepDone ==
  /\ sweep.pc = "mark"
  /\ sweep.dead = {}
  /\ sweep' = NoSweep
  /\ UNCHANGED <<proc, dbVars, owner, lookup, watch, history>>

SweepZones ==
  /\ sweep.pc = "zones"
  /\ \/ sweep' = [sweep EXCEPT !.pc = "release", !.zones = ListByServer(sweep.server)]
     \/ DBFails /\ sweep' = [sweep EXCEPT !.pc = "mark"]
  /\ UNCHANGED <<proc, dbVars, owner, lookup, watch, history>>

\* Mutant: the comparison with the owner is the wrong way round.
SweepRelease_Inverted(z) ==
  /\ sweep.pc = "release"
  /\ z \in sweep.zones
  /\ \/ /\ owner[z] # sweep.server
        /\ SetOwner(z, NoServer)
        /\ late' = late \ {z}
        /\ sweep' = [sweep EXCEPT !.pc = "list", !.zones = @ \ {z}, !.zone = z]
     \/ /\ owner[z] = sweep.server
        /\ sweep' = [sweep EXCEPT !.zones = @ \ {z}]
        /\ UNCHANGED <<owner, history>>
  /\ UNCHANGED <<proc, dbVars, lookup, watch>>

SweepRelease(z) ==
  /\ sweep.pc = "release"
  /\ z \in sweep.zones
  /\ \/ /\ owner[z] = sweep.server
        /\ SetOwner(z, NoServer)
        /\ late' = late \ {z}
        /\ sweep' = [sweep EXCEPT !.pc = "list", !.zones = @ \ {z}, !.zone = z]
     \/ /\ owner[z] # sweep.server \/ DBFails
        /\ sweep' = [sweep EXCEPT !.zones = @ \ {z}]
        /\ UNCHANGED <<owner, history>>
  /\ UNCHANGED <<proc, dbVars, lookup, watch>>

SweepServerDone ==
  /\ sweep.pc = "release"
  /\ sweep.zones = {}
  /\ sweep' = [NoSweep EXCEPT !.pc = "mark", !.dead = sweep.dead]
  /\ UNCHANGED <<proc, dbVars, owner, lookup, watch, history>>

\* Mutant: "return" for "continue" when no server can take the zone.
SweepSelect_Returns ==
  /\ sweep.pc = "list"
  /\ \/ \E n \in Select(List) : sweep' = [sweep EXCEPT !.pc = "claim", !.target = n.node]
     \/ Select(List) = {} /\ sweep' = [NoSweep EXCEPT !.pc = "mark", !.dead = sweep.dead]
  /\ UNCHANGED <<proc, dbVars, owner, lookup, watch, history>>

SweepSelect ==
  /\ sweep.pc = "list"
  /\ \/ \E n \in Select(List) : sweep' = [sweep EXCEPT !.pc = "claim", !.target = n.node]
     \/ (Select(List) = {} \/ DBFails) /\ sweep' = [sweep EXCEPT !.pc = "release"]
  /\ UNCHANGED <<proc, dbVars, owner, lookup, watch, history>>

SweepClaim ==
  /\ sweep.pc = "claim"
  /\ \/ /\ ClaimUpdates(sweep.zone)
        /\ SetOwner(sweep.zone, sweep.target)
        /\ late' = IF status[sweep.target] = "active"
                   THEN late \ {sweep.zone} ELSE late \cup {sweep.zone}
        /\ Broadcast([zone |-> sweep.zone, server |-> sweep.target])
        /\ sweep' = [sweep EXCEPT !.pc = "release"]
     \/ /\ ~ ClaimUpdates(sweep.zone)
        /\ sweep' = [sweep EXCEPT !.pc = "reread"]
        /\ UNCHANGED <<owner, watch, history>>
     \/ /\ DBFails
        /\ sweep' = [sweep EXCEPT !.pc = "release"]
        /\ UNCHANGED <<owner, watch, history>>
  /\ UNCHANGED <<proc, dbVars, lookup>>

SweepReread ==
  LET accepts == RereadAccepts(sweep.zone, sweep.target) IN
  /\ sweep.pc = "reread"
  /\ sweep' = [sweep EXCEPT !.pc = "release"]
  /\ \/ (accepts \/ DBFails) /\ Broadcast([zone |-> sweep.zone, server |-> sweep.target])
     \/ ~ accepts /\ UNCHANGED watch
  /\ UNCHANGED <<proc, dbVars, owner, lookup, history>>

SweepStep ==
  \/ SweepListDead
  \/ \E s \in Servers : SweepMark(s)
  \/ SweepDone
  \/ SweepZones
  \/ \E z \in Zones : SweepRelease(z)
  \/ SweepServerDone
  \/ SweepSelect
  \/ SweepClaim
  \/ SweepReread

-----------------------------------------------------------------------------
\* The process dies and starts again: what it held in memory is gone.
RoomServiceCrash ==
  /\ "crash" \in Environment
  /\ lookup' = [l \in Lookups |-> IF InFlight(l) THEN NoLookup ELSE lookup[l]]
  /\ sweep' = NoSweep
  /\ watching' = {}
  /\ chan' = [w \in Watchers |-> <<>>]
  /\ UNCHANGED <<proc, dbVars, owner, history>>

Next ==
  \/ \E s \in Servers : StartServer(s) \/ Heartbeat(s) \/ HeartbeatsMissed(s) \/ StopServer(s)
  \/ \E z \in Zones : EnsureRow(z)
  \/ \E l \in Lookups, z \in Zones : StartLookup(l, z)
  \/ \E l \in Lookups : LookupStep(l)
  \/ \E w \in Watchers : Subscribe(w) \/ Unsubscribe(w) \/ SendChange(w)
  \/ SweepStep
  \/ RoomServiceCrash

Spec == Init /\ [][Next]_vars

\* The sweeper's ticker keeps firing, and a server that is down misses its
\* heartbeats.
Fairness ==
  /\ WF_vars(SweepStep)
  /\ \A s \in Servers : WF_vars(proc[s] = "down" /\ HeartbeatsMissed(s))

FairSpec == Spec /\ Fairness

-----------------------------------------------------------------------------
(* Properties                                                              *)

Activated == {s \in Servers : status[s] \in {"active", "shutdown"}}

\* A server that has never sent a heartbeat owns no zone and is never the
\* target of a claim, although List and Claim are separate statements.
OwnerWasActive == \A z \in Zones : owner[z] \in Activated \cup {NoServer}

\* The ownership table behaves as ZoneOwnership says: LookupZone calls and the
\* sweeper, interleaved in any way, hand a zone over only through NULL.
Ownership == INSTANCE ZoneOwnership WITH activated <- Activated
ImplementsZoneOwnership == Ownership!Spec

\* When the zone is not released during a LookupZone call, the call answers
\* with a server that owned it during the call: a call that loses the race for
\* a free zone to another call, or to the sweeper, does not answer with the
\* server it selected itself.
UnreleasedAnswerOwned ==
  \A l \in Lookups :
    lookup[l].pc = "done" /\ NoServer \notin seen[l] => lookup[l].server \in seen[l]

\* The server a LookupZone call answers with owned the zone at some moment of
\* the call.
AnsweredServerOwned ==
  \A l \in Lookups : lookup[l].pc = "done" => lookup[l].server \in seen[l]

\* Zone z is still on the list of the sweep in progress.
BeingSwept(z) ==
  /\ sweep.server = owner[z]
  /\ sweep.pc = "zones" \/ (sweep.pc \notin {"idle", "mark"} /\ z \in sweep.zones)

\* A zone of a server marked shutdown is on the list of the sweep in progress,
\* unless a LookupZone call that had selected the server before it was marked
\* claimed the zone afterwards: the sweeper itself forgets no zone.
ShutdownOwnerIsBeingSwept ==
  \A z \in Zones : owner[z] # NoServer =>
    (status[owner[z]] = "shutdown" => BeingSwept(z) \/ z \in late)

\* A zone whose owner crashed while registered as active is taken from it.
OrphanIsReleased ==
  \A s \in Servers, z \in Zones :
    (proc[s] = "down" /\ status[s] = "active" /\ owner[z] = s) ~> (owner[z] # s)

\* A zone whose owner crashed is taken from it.
DeadOwnerIsReplaced ==
  \A s \in Servers, z \in Zones :
    (proc[s] = "down" /\ owner[z] = s) ~> (owner[z] # s)
=============================================================================
