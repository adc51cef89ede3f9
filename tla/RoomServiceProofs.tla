-------------------------- MODULE RoomServiceProofs --------------------------
(***************************************************************************)
(* Proofs about RoomService, for any sets of servers, zones, calls and     *)
(* watchers.                                                               *)
(***************************************************************************)
EXTENDS RoomService, SequenceTheorems, TLAPS

\* The records the two processes start with are well typed.
LEMMA NoProcessType ==
  /\ NoLookup \in [pc : LookupPCs, zone : Zones, server : OwnerOrNone]
  /\ NoSweep \in [pc : SweepPCs, dead : SUBSET Servers, server : OwnerOrNone,
                  zones : SUBSET Zones, zone : Zones, target : OwnerOrNone]
<1>1. (CHOOSE z \in Zones : TRUE) \in Zones
  BY ConstantsAssumption
<1> QED
  BY <1>1 DEF NoLookup, NoSweep, LookupPCs, SweepPCs, OwnerOrNone

\* The allocator returns only servers listed as active.
LEMMA SelectedIsActive ==
  ASSUME NEW n \in Select(List)
  PROVE  n.node \in Servers /\ status[n.node] = "active"
BY DEF Select, List

\* Broadcast keeps every channel within its capacity.
LEMMA BroadcastType ==
  ASSUME TypeOK, NEW c \in Changes, Broadcast(c)
  PROVE  /\ watching' \subseteq Watchers
         /\ chan' \in [Watchers -> Seq(Changes)]
         /\ \A w \in Watchers : Len(chan'[w]) <= ChanCap
<1>1. ASSUME NEW w \in Watchers, Len(chan[w]) < ChanCap
      PROVE  /\ Append(chan[w], c) \in Seq(Changes)
             /\ Len(Append(chan[w], c)) <= ChanCap
  <2>1. chan[w] \in Seq(Changes)
    BY DEF TypeOK
  <2>2. Len(chan[w]) \in Nat
    BY <2>1
  <2> QED
    BY <1>1, <2>1, <2>2, ConstantsAssumption, AppendProperties
<1> QED
  BY <1>1 DEF Broadcast, TypeOK

\* SetOwner writes a well-typed owner and history.
LEMMA SetOwnerType ==
  ASSUME TypeOK, NEW z \in Zones, NEW s \in OwnerOrNone, SetOwner(z, s)
  PROVE  /\ owner' \in [Zones -> OwnerOrNone]
         /\ seen' \in [Lookups -> SUBSET OwnerOrNone]
BY DEF SetOwner, TypeOK

-----------------------------------------------------------------------------
(* Type correctness                                                        *)

\* The initial state is well typed.
LEMMA InitType == Init => TypeOK
<1> SUFFICES ASSUME Init PROVE TypeOK
  OBVIOUS
<1>1. \A w \in Watchers : chan[w] \in Seq(Changes) /\ Len(chan[w]) <= ChanCap
  BY ConstantsAssumption, EmptySeq DEF Init
<1> QED
  BY <1>1, NoProcessType DEF Init, TypeOK, OwnerOrNone

\* The game servers' steps keep the type.
LEMMA ServerStepType ==
  ASSUME TypeOK, NEW s \in Servers,
         StartServer(s) \/ Heartbeat(s) \/ HeartbeatsMissed(s) \/ StopServer(s)
  PROVE  TypeOK'
BY DEF TypeOK, StartServer, Heartbeat, HeartbeatsMissed, StopServer, dbVars, watch, history

\* Moving a call on keeps it well typed.
LEMMA GotoType ==
  ASSUME TypeOK, NEW l \in Lookups, NEW p \in LookupPCs, NEW s \in OwnerOrNone,
         Goto(l, p) \/ GotoWith(l, p, s) \/ Fail(l)
  PROVE  lookup' \in [Lookups -> [pc : LookupPCs, zone : Zones, server : OwnerOrNone]]
<1> DEFINE Call == [pc : LookupPCs, zone : Zones, server : OwnerOrNone]
<1>1. lookup \in [Lookups -> Call]
  BY DEF TypeOK
<1>2. CASE Goto(l, p)
  <2>1. [lookup[l] EXCEPT !.pc = p] \in Call
    BY <1>1
  <2> QED
    BY <1>1, <1>2, <2>1 DEF Goto
<1>3. CASE GotoWith(l, p, s)
  <2>1. [lookup[l] EXCEPT !.pc = p, !.server = s] \in Call
    BY <1>1
  <2> QED
    BY <1>1, <1>3, <2>1 DEF GotoWith
<1>4. CASE Fail(l)
  BY <1>1, <1>4, NoProcessType DEF Fail
<1> QED
  BY <1>2, <1>3, <1>4

\* The steps of a LookupZone call keep the type.
LEMMA LookupStepType ==
  ASSUME TypeOK, NEW l \in Lookups, LookupStep(l)
  PROVE  TypeOK'
<1> DEFINE Call == [pc : LookupPCs, zone : Zones, server : OwnerOrNone]
<1> USE DEF dbVars, watch, history
<1>0. /\ lookup[l].zone \in Zones /\ lookup[l].server \in OwnerOrNone
      /\ owner[lookup[l].zone] \in OwnerOrNone /\ NoServer \in OwnerOrNone
      /\ \A n \in Select(List) : n.node \in OwnerOrNone
      /\ {"lookup", "get", "list", "claim", "reread", "done"} \subseteq LookupPCs
  BY SelectedIsActive DEF TypeOK, OwnerOrNone, LookupPCs
<1>1. CASE LookupOwner(l)
  <2>1. lookup' \in [Lookups -> Call]
    BY <1>0, <1>1, GotoType DEF LookupOwner
  <2> QED
    BY <1>1, <2>1 DEF TypeOK, LookupOwner
<1>2. CASE LookupGet(l)
  <2>1. lookup' \in [Lookups -> Call]
    BY <1>0, <1>2, GotoType DEF LookupGet
  <2> QED
    BY <1>2, <2>1 DEF TypeOK, LookupGet
<1>3. CASE LookupSelect(l)
  <2>1. lookup' \in [Lookups -> Call]
    BY <1>0, <1>3, GotoType DEF LookupSelect
  <2> QED
    BY <1>3, <2>1 DEF TypeOK, LookupSelect
<1>4. CASE LookupClaim(l)
  <2>1. lookup' \in [Lookups -> Call]
    BY <1>0, <1>4, GotoType DEF LookupClaim
  <2>2. /\ owner' \in [Zones -> OwnerOrNone]
        /\ seen' \in [Lookups -> SUBSET OwnerOrNone]
        /\ late' \subseteq Zones
    BY <1>0, <1>4, SetOwnerType DEF LookupClaim, TypeOK
  <2> QED
    BY <1>4, <2>1, <2>2 DEF TypeOK, LookupClaim
<1>5. CASE LookupReread(l)
  <2>1. lookup' \in [Lookups -> Call]
    BY <1>0, <1>5, GotoType DEF LookupReread
  <2> QED
    BY <1>5, <2>1 DEF TypeOK, LookupReread
<1> QED
  BY <1>1, <1>2, <1>3, <1>4, <1>5 DEF LookupStep

\* A new LookupZone call keeps the type.
LEMMA StartLookupType ==
  ASSUME TypeOK, NEW l \in Lookups, NEW z \in Zones, StartLookup(l, z)
  PROVE  TypeOK'
<1>1. [pc |-> "lookup", zone |-> z, server |-> NoServer]
        \in [pc : LookupPCs, zone : Zones, server : OwnerOrNone]
  BY DEF LookupPCs, OwnerOrNone
<1> QED
  BY <1>1 DEF TypeOK, StartLookup, dbVars, watch, history

\* The steps of a WatchOwnership stream keep the type.
LEMMA WatcherStepType ==
  ASSUME TypeOK, NEW w \in Watchers, Subscribe(w) \/ Unsubscribe(w) \/ SendChange(w)
  PROVE  TypeOK'
<1> USE DEF dbVars, watch, history
<1>1. CASE Subscribe(w)
  BY <1>1 DEF TypeOK, Subscribe
<1>2. CASE Unsubscribe(w)
  <2>1. <<>> \in Seq(Changes) /\ Len(<<>>) <= ChanCap
    BY ConstantsAssumption, EmptySeq
  <2> QED
    BY <1>2, <2>1 DEF TypeOK, Unsubscribe
<1>3. CASE SendChange(w)
  <2>1. chan[w] \in Seq(Changes) /\ chan[w] # <<>> /\ Len(chan[w]) <= ChanCap
    BY <1>3 DEF TypeOK, SendChange
  <2>2. Tail(chan[w]) \in Seq(Changes) /\ Len(Tail(chan[w])) <= ChanCap
    BY <2>1, HeadTailProperties, ConstantsAssumption
  <2> QED
    BY <1>3, <2>2 DEF TypeOK, SendChange
<1> QED
  BY <1>1, <1>2, <1>3

\* The sweeper's steps keep the type.
LEMMA SweepStepType ==
  ASSUME TypeOK, SweepStep
  PROVE  TypeOK'
<1> DEFINE Sweeper == [pc : SweepPCs, dead : SUBSET Servers, server : OwnerOrNone,
                       zones : SUBSET Zones, zone : Zones, target : OwnerOrNone]
<1> USE DEF dbVars, watch, history
<1>0. /\ sweep \in Sweeper /\ NoSweep \in Sweeper
      /\ NoServer \in OwnerOrNone /\ Servers \subseteq OwnerOrNone
      /\ SweepPCs = {"idle", "mark", "zones", "release", "list", "claim", "reread"}
  BY NoProcessType DEF TypeOK, OwnerOrNone, SweepPCs
<1>1. CASE SweepListDead
  BY <1>0, <1>1 DEF TypeOK, SweepListDead, ListDead
<1>2. ASSUME NEW s \in Servers, SweepMark(s) PROVE TypeOK'
  <2>1. sweep' \in Sweeper
    BY <1>0, <1>2 DEF SweepMark
  <2>2. status' \in [Servers -> {"none", "joining", "active", "shutdown"}]
    BY <1>2 DEF SweepMark, TypeOK
  <2> QED
    BY <1>2, <2>1, <2>2 DEF TypeOK, SweepMark
<1>3. CASE SweepDone
  BY <1>0, <1>3 DEF TypeOK, SweepDone
<1>4. CASE SweepZones
  <2>1. ListByServer(sweep.server) \subseteq Zones
    BY DEF ListByServer
  <2>2. sweep' \in Sweeper
    BY <1>0, <1>4, <2>1 DEF SweepZones
  <2> QED
    BY <1>4, <2>2 DEF TypeOK, SweepZones
<1>5. ASSUME NEW z \in Zones, SweepRelease(z) PROVE TypeOK'
  <2>1. sweep' \in Sweeper
    BY <1>0, <1>5 DEF SweepRelease
  <2>2. /\ owner' \in [Zones -> OwnerOrNone]
        /\ seen' \in [Lookups -> SUBSET OwnerOrNone]
        /\ late' \subseteq Zones
    BY <1>0, <1>5, SetOwnerType DEF SweepRelease, TypeOK
  <2> QED
    BY <1>5, <2>1, <2>2 DEF TypeOK, SweepRelease
<1>6. CASE SweepServerDone
  BY <1>0, <1>6 DEF TypeOK, SweepServerDone
<1>7. CASE SweepSelect
  BY <1>0, <1>7, SelectedIsActive DEF TypeOK, SweepSelect
<1>8. [zone |-> sweep.zone, server |-> sweep.target] \in Changes
  BY <1>0 DEF Changes
<1>9. CASE SweepClaim
  <2>1. sweep' \in Sweeper
    BY <1>0, <1>9 DEF SweepClaim
  <2>2. /\ owner' \in [Zones -> OwnerOrNone]
        /\ seen' \in [Lookups -> SUBSET OwnerOrNone]
        /\ late' \subseteq Zones
    BY <1>0, <1>9, SetOwnerType DEF SweepClaim, TypeOK
  <2>3. /\ watching' \subseteq Watchers
        /\ chan' \in [Watchers -> Seq(Changes)]
        /\ \A w \in Watchers : Len(chan'[w]) <= ChanCap
    BY <1>8, <1>9, BroadcastType DEF SweepClaim, TypeOK
  <2> QED
    BY <1>9, <2>1, <2>2, <2>3 DEF TypeOK, SweepClaim
<1>10. CASE SweepReread
  <2>1. sweep' \in Sweeper
    BY <1>0, <1>10 DEF SweepReread
  <2>2. /\ watching' \subseteq Watchers
        /\ chan' \in [Watchers -> Seq(Changes)]
        /\ \A w \in Watchers : Len(chan'[w]) <= ChanCap
    BY <1>8, <1>10, BroadcastType DEF SweepReread, TypeOK
  <2> QED
    BY <1>10, <2>1, <2>2 DEF TypeOK, SweepReread
<1> QED
  BY <1>1, <1>2, <1>3, <1>4, <1>5, <1>6, <1>7, <1>9, <1>10 DEF SweepStep

\* A restart of the room service keeps the type.
LEMMA CrashType ==
  ASSUME TypeOK, RoomServiceCrash
  PROVE  TypeOK'
<1>1. <<>> \in Seq(Changes) /\ Len(<<>>) <= ChanCap
  BY ConstantsAssumption, EmptySeq
<1> QED
  BY <1>1, NoProcessType DEF TypeOK, RoomServiceCrash, dbVars, watch, history

\* The type is inductive.
LEMMA NextType == TypeOK /\ [Next]_vars => TypeOK'
<1> SUFFICES ASSUME TypeOK, [Next]_vars PROVE TypeOK'
  OBVIOUS
<1>1. ASSUME NEW z \in Zones, EnsureRow(z) PROVE TypeOK'
  BY <1>1 DEF TypeOK, EnsureRow, dbVars, watch, history
<1>2. CASE UNCHANGED vars
  BY <1>2 DEF TypeOK, vars, dbVars, watch, history
<1> QED
  BY <1>1, <1>2, ServerStepType, StartLookupType, LookupStepType, WatcherStepType,
     SweepStepType, CrashType DEF Next

\* Every variable of the room service keeps its type; in particular no
\* watcher's channel ever holds more than its capacity.
THEOREM TypeCorrect == Spec => []TypeOK
<1> QED
  BY InitType, NextType, PTL DEF Spec

-----------------------------------------------------------------------------
(* Zones go only to servers that have sent a heartbeat                     *)

\* OwnerWasActive is not inductive: between List and Claim the selected server
\* is remembered by the call or by the sweeper, so these are covered too.
TargetsActivated ==
  /\ OwnerWasActive
  /\ \A l \in Lookups : lookup[l].pc \in {"claim", "reread"} => lookup[l].server \in Activated
  /\ sweep.pc \in {"claim", "reread"} => sweep.target \in Activated

\* A step either leaves the owners alone, or claims one unowned zone, or
\* releases one zone; the last two write no server row.
OwnerStep ==
  \/ owner' = owner
  \/ \E z \in Zones, s \in Activated :
       owner[z] = NoServer /\ owner' = [owner EXCEPT ![z] = s] /\ Activated' = Activated
  \/ \E z \in Zones : owner' = [owner EXCEPT ![z] = NoServer] /\ Activated' = Activated

\* At most one server is activated by a step, and none loses its row.
ActivatedStep ==
  \/ Activated' = Activated
  \/ \E s \in Servers : Activated' = Activated \cup {s}

\* Every step is an ActivatedStep.
LEMMA ActivatedSteps == TypeOK /\ [Next]_vars => ActivatedStep
<1> SUFFICES ASSUME TypeOK, [Next]_vars PROVE ActivatedStep
  OBVIOUS
<1> USE DEF ActivatedStep, Activated, TypeOK
<1>1. CASE UNCHANGED status
  BY <1>1
<1>2. ASSUME NEW s \in Servers, StartServer(s) \/ Heartbeat(s) \/ SweepMark(s)
      PROVE  ActivatedStep
  <2>1. CASE UNCHANGED status
    BY <2>1, <1>1
  <2>2. CASE StartServer(s) /\ status' # status
    <3>1. Activated' = Activated
      BY <2>2 DEF StartServer
    <3> QED
      BY <3>1
  <2>3. CASE Heartbeat(s)
    <3>1. Activated' = Activated \cup {s}
      BY <2>3 DEF Heartbeat
    <3> QED
      BY <3>1
  <2>4. CASE SweepMark(s) /\ status' # status
    <3>1. Activated' = Activated \cup {s}
      BY <2>4 DEF SweepMark
    <3> QED
      BY <3>1
  <2> QED
    BY <1>2, <2>1, <2>2, <2>3, <2>4
<1> QED
  BY <1>1, <1>2
     DEF Next, vars, dbVars, LookupStep, SweepStep, HeartbeatsMissed, StopServer, EnsureRow,
         StartLookup, LookupOwner, LookupGet, LookupSelect, LookupClaim, LookupReread,
         Subscribe, Unsubscribe, SendChange, SweepListDead, SweepDone, SweepZones,
         SweepRelease, SweepServerDone, SweepSelect, SweepClaim, SweepReread, RoomServiceCrash

\* Every step is an OwnerStep: the targets of claims have sent a heartbeat.
LEMMA OwnerSteps == TypeOK /\ TargetsActivated /\ [Next]_vars => OwnerStep
<1> SUFFICES ASSUME TypeOK, TargetsActivated, [Next]_vars PROVE OwnerStep
  OBVIOUS
<1>1. CASE UNCHANGED owner
  BY <1>1 DEF OwnerStep
<1>2. ASSUME NEW l \in Lookups, LookupClaim(l), owner' # owner PROVE OwnerStep
  <2>1. /\ lookup[l].zone \in Zones
        /\ lookup[l].server \in Activated
        /\ owner[lookup[l].zone] = NoServer
        /\ owner' = [owner EXCEPT ![lookup[l].zone] = lookup[l].server]
    BY <1>2 DEF LookupClaim, SetOwner, ClaimUpdates, TargetsActivated, TypeOK
  <2>2. Activated' = Activated
    BY <1>2 DEF LookupClaim, dbVars, Activated
  <2> QED
    BY <2>1, <2>2 DEF OwnerStep
<1>3. CASE SweepClaim /\ owner' # owner
  <2>1. /\ sweep.zone \in Zones
        /\ sweep.target \in Activated
        /\ owner[sweep.zone] = NoServer
        /\ owner' = [owner EXCEPT ![sweep.zone] = sweep.target]
    BY <1>3 DEF SweepClaim, SetOwner, ClaimUpdates, TargetsActivated, TypeOK
  <2>2. Activated' = Activated
    BY <1>3 DEF SweepClaim, dbVars, Activated
  <2> QED
    BY <2>1, <2>2 DEF OwnerStep
<1>4. ASSUME NEW z \in Zones, SweepRelease(z), owner' # owner PROVE OwnerStep
  <2>1. owner' = [owner EXCEPT ![z] = NoServer] /\ Activated' = Activated
    BY <1>4 DEF SweepRelease, SetOwner, dbVars, Activated
  <2> QED
    BY <2>1 DEF OwnerStep
<1> QED
  BY <1>1, <1>2, <1>3, <1>4
     DEF Next, vars, LookupStep, SweepStep, StartServer, Heartbeat, HeartbeatsMissed,
         StopServer, EnsureRow, StartLookup, LookupOwner, LookupGet, LookupSelect,
         LookupReread, Subscribe, Unsubscribe, SendChange, SweepListDead, SweepMark,
         SweepDone, SweepZones, SweepServerDone, SweepSelect, SweepReread, RoomServiceCrash

\* No step makes a server that has sent a heartbeat look as if it had not.
LEMMA ActivatedGrows == ActivatedStep => Activated \subseteq Activated'
BY DEF ActivatedStep

\* A call that is about to claim has selected a server that has sent a
\* heartbeat, after every step.
LEMMA LookupTargets ==
  ASSUME TypeOK, TargetsActivated, [Next]_vars, Activated \subseteq Activated',
         NEW l \in Lookups, lookup'[l].pc \in {"claim", "reread"}
  PROVE  lookup'[l].server \in Activated'
<1>1. CASE lookup'[l] = lookup[l]
  BY <1>1 DEF TargetsActivated
<1>2. ASSUME NEW k \in Lookups, LookupStep(k) \/ (\E z \in Zones : StartLookup(k, z)),
             lookup'[l] # lookup[l]
      PROVE  lookup'[l].server \in Activated'
  <2> USE DEF TypeOK
  <2>1. CASE LookupSelect(k)
    <3>1. PICK n \in Select(List) : GotoWith(k, "claim", n.node)
      BY <1>2, <2>1, NoProcessType DEF LookupSelect, Fail, NoLookup
    <3>2. n.node \in Activated /\ k = l
      BY <1>2, <3>1, SelectedIsActive DEF Activated, GotoWith
    <3> QED
      BY <3>1, <3>2 DEF GotoWith
  <2>2. CASE LookupClaim(k)
    <3>1. \/ lookup' = [lookup EXCEPT ![k].pc = "reread"]
          \/ lookup' = [lookup EXCEPT ![k].pc = "done"]
          \/ lookup' = [lookup EXCEPT ![k] = NoLookup]
      BY <2>2 DEF LookupClaim, Goto, Fail
    <3>2. k = l /\ lookup'[l].server = lookup[l].server
      BY <1>2, <3>1 DEF NoLookup
    <3>3. lookup[l].pc = "claim"
      BY <2>2, <3>2 DEF LookupClaim
    <3> QED
      BY <3>2, <3>3 DEF TargetsActivated
  <2>3. CASE LookupOwner(k) \/ LookupGet(k) \/ LookupReread(k)
    <3>1. ASSUME NEW p \in {"get", "list", "done"}, NEW s, Goto(k, p) \/ GotoWith(k, p, s)
          PROVE  lookup'[l].pc \notin {"claim", "reread"}
      <4>1. k = l
        BY <1>2, <3>1 DEF Goto, GotoWith
      <4>2. CASE Goto(k, p)
        BY <4>1, <4>2 DEF Goto
      <4>3. CASE GotoWith(k, p, s)
        BY <4>1, <4>3 DEF GotoWith
      <4> QED
        BY <3>1, <4>2, <4>3
    <3>2. CASE Fail(k)
      BY <1>2, <3>2 DEF Fail, NoLookup
    <3> QED
      BY <2>3, <3>1, <3>2 DEF LookupOwner, LookupGet, LookupReread
  <2>4. ASSUME NEW z \in Zones, StartLookup(k, z) PROVE lookup'[l].server \in Activated'
    BY <1>2, <2>4 DEF StartLookup
  <2> QED
    BY <1>2, <2>1, <2>2, <2>3, <2>4 DEF LookupStep
<1>3. CASE RoomServiceCrash
  BY <1>1, <1>3 DEF RoomServiceCrash, NoLookup
<1> QED
  BY <1>1, <1>2, <1>3
     DEF Next, vars, SweepStep, StartServer, Heartbeat, HeartbeatsMissed, StopServer, EnsureRow,
         Subscribe, Unsubscribe, SendChange, SweepListDead, SweepMark, SweepDone, SweepZones,
         SweepRelease, SweepServerDone, SweepSelect, SweepClaim, SweepReread

\* The sweeper that is about to claim has selected a server that has sent a
\* heartbeat, after every step.
LEMMA SweepTarget ==
  ASSUME TypeOK, TargetsActivated, [Next]_vars, Activated \subseteq Activated',
         sweep'.pc \in {"claim", "reread"}
  PROVE  sweep'.target \in Activated'
<1>1. CASE sweep' = sweep
  BY <1>1 DEF TargetsActivated
<1>2. CASE SweepSelect
  <2>1. PICK n \in Select(List) : sweep' = [sweep EXCEPT !.pc = "claim", !.target = n.node]
    BY <1>2 DEF SweepSelect, TypeOK
  <2>2. n.node \in Activated
    BY <2>1, SelectedIsActive DEF Activated
  <2> QED
    BY <2>1, <2>2 DEF TypeOK
<1>3. CASE SweepClaim
  BY <1>3 DEF SweepClaim, TypeOK, TargetsActivated
<1>4. CASE SweepListDead \/ SweepDone \/ SweepZones \/ SweepServerDone \/ SweepReread
  <2>1. CASE SweepListDead
    BY <2>1 DEF SweepListDead, TypeOK
  <2>2. CASE SweepDone
    BY <2>2 DEF SweepDone, NoSweep
  <2>5. CASE SweepServerDone
    <3>1. sweep'.pc = "mark"
      BY <2>5, NoProcessType DEF SweepServerDone
    <3> QED
      BY <3>1
  <2>3. CASE SweepZones
    BY <2>3 DEF SweepZones, TypeOK
  <2>4. CASE SweepReread
    BY <2>4 DEF SweepReread, TypeOK
  <2> QED
    BY <1>4, <2>1, <2>2, <2>3, <2>4, <2>5
<1>6. ASSUME NEW s \in Servers, SweepMark(s) PROVE FALSE
  BY <1>6 DEF SweepMark, TypeOK
<1>7. ASSUME NEW z \in Zones, SweepRelease(z) PROVE FALSE
  BY <1>7 DEF SweepRelease, TypeOK
<1>5. CASE RoomServiceCrash
  BY <1>5 DEF RoomServiceCrash, NoSweep
<1> QED
  BY <1>1, <1>2, <1>3, <1>4, <1>5, <1>6, <1>7
     DEF Next, vars, SweepStep, LookupStep, StartServer, Heartbeat, HeartbeatsMissed,
         StopServer, EnsureRow, StartLookup, LookupOwner, LookupGet, LookupSelect, LookupClaim, LookupReread,
         Subscribe, Unsubscribe, SendChange

\* TargetsActivated is inductive relative to TypeOK: between List and Claim a
\* server may be marked shutdown, but it does not become a server that never
\* sent a heartbeat.
LEMMA TargetsStep == TypeOK /\ TargetsActivated /\ [Next]_vars => TargetsActivated'
<1> SUFFICES ASSUME TypeOK, TargetsActivated, [Next]_vars PROVE TargetsActivated'
  OBVIOUS
<1>1. Activated \subseteq Activated'
  BY ActivatedSteps, ActivatedGrows
<1>2. OwnerWasActive'
  <2>1. OwnerStep
    BY OwnerSteps
  <2> QED
    BY <1>1, <2>1 DEF OwnerStep, OwnerWasActive, TargetsActivated, TypeOK
<1>3. \A l \in Lookups : lookup'[l].pc \in {"claim", "reread"} => lookup'[l].server \in Activated'
  BY <1>1, LookupTargets
<1>4. sweep'.pc \in {"claim", "reread"} => sweep'.target \in Activated'
  BY <1>1, SweepTarget
<1> QED
  BY <1>2, <1>3, <1>4 DEF TargetsActivated

\* Initially nobody claims anything.
LEMMA TargetsInit == Init => TargetsActivated
BY DEF Init, TargetsActivated, OwnerWasActive, NoLookup, NoSweep

\* Zones are only ever given to servers that have sent a heartbeat, for any
\* number of servers, zones and concurrent calls and any combination of faults.
THEOREM OwnersWereActive == Spec => []OwnerWasActive
<1>1. TypeOK /\ TargetsActivated /\ [Next]_vars => TargetsActivated'
  BY TargetsStep
<1>2. TargetsActivated => OwnerWasActive
  BY DEF TargetsActivated
<1> QED
  BY TypeCorrect, TargetsInit, <1>1, <1>2, PTL DEF Spec

-----------------------------------------------------------------------------
(* The tables implement ZoneOwnership                                      *)

\* Every step of the service is a step of ZoneOwnership or leaves the owners
\* and the activated servers alone.
LEMMA OwnershipStep ==
  TypeOK /\ TargetsActivated /\ [Next]_vars => [Ownership!Next]_(Ownership!vars)
<1> SUFFICES ASSUME TypeOK, TargetsActivated, [Next]_vars
             PROVE  [Ownership!Next]_(Ownership!vars)
  OBVIOUS
<1>1. OwnerStep /\ ActivatedStep
  BY OwnerSteps, ActivatedSteps
<1>2. CASE owner' = owner
  BY <1>1, <1>2 DEF ActivatedStep, Ownership!Next, Ownership!Activate, Ownership!vars, Activated
<1>3. ASSUME NEW z \in Zones, NEW s \in Activated, owner[z] = NoServer,
             owner' = [owner EXCEPT ![z] = s], Activated' = Activated
      PROVE  Ownership!Next
  BY <1>3 DEF Ownership!Next, Ownership!Claim, Activated
<1>4. ASSUME NEW z \in Zones, owner' = [owner EXCEPT ![z] = NoServer], Activated' = Activated
      PROVE  [Ownership!Next]_(Ownership!vars)
  <2>1. CASE owner[z] = NoServer
    BY <1>4, <2>1 DEF TypeOK, Ownership!vars
  <2>2. CASE owner[z] # NoServer
    BY <1>4, <2>2 DEF Ownership!Next, Ownership!Release
  <2> QED
    BY <2>1, <2>2
<1> QED
  BY <1>1, <1>2, <1>3, <1>4 DEF OwnerStep

\* Initial states map to initial states.
LEMMA OwnershipInit == Init => Ownership!Init
BY DEF Init, Ownership!Init, Activated

\* The room service implements ZoneOwnership: whatever the interleaving of
\* LookupZone calls and the sweeper and whatever fails, a zone has one owner
\* and changes hands only through NULL.
THEOREM RoomServiceImplementsZoneOwnership == Spec => ImplementsZoneOwnership
<1>1. TypeOK /\ TargetsActivated /\ [Next]_vars => TargetsActivated'
  BY TargetsStep
<1>2. TypeOK /\ TargetsActivated /\ [Next]_vars => [Ownership!Next]_(Ownership!vars)
  BY OwnershipStep
<1> QED
  BY TypeCorrect, TargetsInit, OwnershipInit, <1>1, <1>2, PTL
     DEF Spec, ImplementsZoneOwnership, Ownership!Spec

-----------------------------------------------------------------------------
(* What a LookupZone call answers                                          *)

\* Since a call began its zone's owners were recorded, or the zone was free and
\* nobody has taken it.  The server a call read, and whatever kept its UPDATE
\* from claiming the zone, is on that record.
CallRecorded(l) ==
  /\ InFlight(l) => \/ owner[lookup[l].zone] \in seen[l]
                    \/ seen[l] = {} /\ ClaimUpdates(lookup[l].zone)
  /\ lookup[l].pc = "get" => lookup[l].server \in seen[l]
  /\ lookup[l].pc = "reread" => seen[l] # {}
  /\ lookup[l].pc = "done" /\ NoServer \notin seen[l] => lookup[l].server \in seen[l]

CallsRecorded == \A l \in Lookups : CallRecorded(l)

\* What others do to the zone of a call enters its record.
LEMMA RecordKept ==
  ASSUME TypeOK, NEW l \in Lookups, CallRecorded(l), lookup'[l] = lookup[l],
         zoneRows \subseteq zoneRows',
         \/ UNCHANGED <<owner, seen>>
         \/ \E z \in Zones, s \in OwnerOrNone : SetOwner(z, s)
  PROVE  CallRecorded(l)'
<1>1. CASE UNCHANGED <<owner, seen>>
  BY <1>1 DEF CallRecorded, InFlight, ClaimUpdates
<1>2. ASSUME NEW z \in Zones, NEW s \in OwnerOrNone, SetOwner(z, s)
      PROVE  CallRecorded(l)'
  <2>1. CASE InFlight(l) /\ lookup[l].zone = z
    <3>1. seen'[l] = seen[l] \cup {s} /\ owner'[lookup'[l].zone] = s
      BY <1>2, <2>1 DEF SetOwner, TypeOK
    <3> QED
      BY <2>1, <3>1 DEF CallRecorded, InFlight
  <2>2. CASE InFlight(l) /\ lookup[l].zone # z
    <3>1. seen'[l] = seen[l] /\ owner'[lookup'[l].zone] = owner[lookup[l].zone]
      BY <1>2, <2>2 DEF SetOwner, TypeOK
    <3> QED
      BY <3>1 DEF CallRecorded, InFlight, ClaimUpdates
  <2>3. CASE ~ InFlight(l)
    <3>1. seen'[l] = seen[l]
      BY <1>2, <2>3 DEF SetOwner
    <3> QED
      BY <2>3, <3>1 DEF CallRecorded, InFlight
  <2> QED
    BY <2>1, <2>2, <2>3
<1> QED
  BY <1>1, <1>2

\* A call that fails has no answer, and nothing to record.
LEMMA NoLookupRecorded ==
  ASSUME NEW l \in Lookups, lookup'[l] = NoLookup PROVE CallRecorded(l)'
BY DEF CallRecorded, InFlight, NoLookup

\* A call's own steps, when no statement fails.
LEMMA OwnStepRecorded ==
  ASSUME TypeOK, "db" \notin Environment, NEW l \in Lookups, CallRecorded(l), LookupStep(l)
  PROVE  CallRecorded(l)'
<1> DEFINE z == lookup[l].zone
           s == lookup[l].server
<1>0. ~ DBFails /\ z \in Zones /\ s \in OwnerOrNone
  BY DEF DBFails, TypeOK
<1>1. ASSUME NEW p, Goto(l, p)
      PROVE  lookup'[l].pc = p /\ lookup'[l].zone = z /\ lookup'[l].server = s
  BY <1>1 DEF Goto, TypeOK
<1>2. ASSUME NEW p, NEW t, GotoWith(l, p, t)
      PROVE  lookup'[l].pc = p /\ lookup'[l].zone = z /\ lookup'[l].server = t
  BY <1>2 DEF GotoWith, TypeOK
<1>3. ASSUME Fail(l) PROVE CallRecorded(l)'
  BY <1>3, NoLookupRecorded DEF Fail, TypeOK
<1>4. CASE LookupOwner(l)
  <2>1. UNCHANGED <<owner, seen, zoneRows>> /\ InFlight(l)
    BY <1>4 DEF LookupOwner, history, dbVars, InFlight
  <2>2. CASE owner[z] # NoServer /\ GotoWith(l, "get", owner[z])
    BY <1>2, <2>1, <2>2 DEF CallRecorded, InFlight, ClaimUpdates
  <2>3. CASE Goto(l, "list")
    BY <1>1, <2>1, <2>3 DEF CallRecorded, InFlight, ClaimUpdates
  <2> QED
    BY <1>0, <1>4, <2>2, <2>3 DEF LookupOwner
<1>5. CASE LookupGet(l)
  <2>1. UNCHANGED <<owner, seen, zoneRows>> /\ Goto(l, "done") /\ lookup[l].pc = "get"
    BY <1>0, <1>5 DEF LookupGet, history, dbVars
  <2> QED
    BY <1>1, <2>1 DEF CallRecorded, InFlight
<1>6. CASE LookupSelect(l)
  <2>1. UNCHANGED <<owner, seen, zoneRows>> /\ InFlight(l)
    BY <1>6 DEF LookupSelect, history, dbVars, InFlight
  <2>2. ASSUME NEW n \in Select(List), GotoWith(l, "claim", n.node) PROVE CallRecorded(l)'
    BY <1>2, <2>1, <2>2 DEF CallRecorded, InFlight, ClaimUpdates
  <2> QED
    BY <1>0, <1>3, <1>6, <2>2 DEF LookupSelect
<1>7. CASE LookupClaim(l)
  <2>1. CASE ClaimUpdates(z) /\ SetOwner(z, s) /\ Goto(l, "done")
    <3>1. lookup'[l].pc = "done" /\ lookup'[l].server = s
      BY <1>1, <2>1
    <3>2. seen'[l] = seen[l] \cup {s}
      BY <1>7, <2>1 DEF LookupClaim, SetOwner, InFlight
    <3> QED
      BY <3>1, <3>2 DEF CallRecorded, InFlight
  <2>2. CASE ~ ClaimUpdates(z) /\ Goto(l, "reread") /\ UNCHANGED <<owner, history>>
    <3>1. InFlight(l) /\ UNCHANGED zoneRows
      BY <1>7 DEF LookupClaim, InFlight, dbVars
    <3>2. owner[z] \in seen[l]
      BY <2>2, <3>1 DEF CallRecorded
    <3> QED
      BY <1>1, <2>2, <3>1, <3>2 DEF CallRecorded, InFlight, history
  <2> QED
    BY <1>0, <1>7, <2>1, <2>2 DEF LookupClaim
<1>8. CASE LookupReread(l)
  <2>1. UNCHANGED <<owner, seen>> /\ InFlight(l) /\ lookup[l].pc = "reread"
    BY <1>8 DEF LookupReread, InFlight, history
  <2>2. owner[z] \in seen[l]
    BY <2>1 DEF CallRecorded
  <2>3. CASE RereadAccepts(z, s) /\ Goto(l, "done")
    <3>1. lookup'[l].pc = "done" /\ lookup'[l].server = s
      BY <1>1, <2>3
    <3>2. s \in seen'[l] \/ NoServer \in seen'[l]
      BY <2>1, <2>2, <2>3 DEF RereadAccepts
    <3> QED
      BY <3>1, <3>2 DEF CallRecorded, InFlight
  <2> QED
    BY <1>0, <1>3, <1>8, <2>3 DEF LookupReread
<1> QED
  BY <1>4, <1>5, <1>6, <1>7, <1>8 DEF LookupStep

\* The record of every call is kept by every step.
LEMMA RecordedStep ==
  ASSUME TypeOK, "db" \notin Environment, CallsRecorded, [Next]_vars PROVE CallsRecorded'
<1> SUFFICES ASSUME NEW l \in Lookups PROVE CallRecorded(l)'
  BY DEF CallsRecorded
<1>0. CallRecorded(l)
  BY DEF CallsRecorded
<1> USE DEF dbVars, history
<1>1. ASSUME NEW k \in Lookups, LookupStep(k), k # l PROVE CallRecorded(l)'
  <2>1. lookup'[l] = lookup[l]
    BY <1>1 DEF LookupStep, LookupOwner, LookupGet, LookupSelect, LookupClaim, LookupReread,
                Goto, GotoWith, Fail, TypeOK
  <2>2. zoneRows' = zoneRows
    BY <1>1 DEF LookupStep, LookupOwner, LookupGet, LookupSelect, LookupClaim, LookupReread
  <2>3. UNCHANGED <<owner, seen>> \/ SetOwner(lookup[k].zone, lookup[k].server)
    BY <1>1 DEF LookupStep, LookupOwner, LookupGet, LookupSelect, LookupClaim, LookupReread
  <2>4. lookup[k].zone \in Zones /\ lookup[k].server \in OwnerOrNone
    BY DEF TypeOK
  <2> QED
    BY <1>0, <2>1, <2>2, <2>3, <2>4, RecordKept
<1>2. ASSUME NEW k \in Lookups, NEW z \in Zones, StartLookup(k, z) PROVE CallRecorded(l)'
  <2>1. CASE k = l
    <3>1. /\ lookup'[l] = [pc |-> "lookup", zone |-> z, server |-> NoServer]
          /\ seen'[l] = IF ClaimUpdates(z) THEN {} ELSE {owner[z]}
          /\ UNCHANGED <<owner, zoneRows>>
      BY <1>2, <2>1 DEF StartLookup, TypeOK
    <3> QED
      BY <3>1 DEF CallRecorded, ClaimUpdates
  <2>2. CASE k # l
    <3>1. lookup'[l] = lookup[l] /\ seen'[l] = seen[l] /\ UNCHANGED <<owner, zoneRows>>
      BY <1>2, <2>2 DEF StartLookup, TypeOK
    <3> QED
      BY <1>0, <3>1 DEF CallRecorded, InFlight, ClaimUpdates
  <2> QED
    BY <2>1, <2>2
<1>3. CASE SweepStep
  <2>1. lookup'[l] = lookup[l] /\ zoneRows' = zoneRows
    BY <1>3 DEF SweepStep, SweepListDead, SweepMark, SweepDone, SweepZones, SweepRelease,
                SweepServerDone, SweepSelect, SweepClaim, SweepReread
  <2>2. \/ UNCHANGED <<owner, seen>> \/ SetOwner(sweep.zone, sweep.target)
        \/ \E z \in Zones : SetOwner(z, NoServer)
    BY <1>3 DEF SweepStep, SweepListDead, SweepMark, SweepDone, SweepZones, SweepRelease,
                SweepServerDone, SweepSelect, SweepClaim, SweepReread
  <2>3. sweep.zone \in Zones /\ sweep.target \in OwnerOrNone /\ NoServer \in OwnerOrNone
    BY DEF TypeOK, OwnerOrNone
  <2> QED
    BY <1>0, <2>1, <2>2, <2>3, RecordKept
<1>4. CASE RoomServiceCrash
  <2>1. UNCHANGED <<owner, seen, zoneRows>>
    BY <1>4 DEF RoomServiceCrash
  <2>2. lookup'[l] = NoLookup \/ lookup'[l] = lookup[l]
    BY <1>4 DEF RoomServiceCrash
  <2> QED
    BY <1>0, <2>1, <2>2, NoLookupRecorded, RecordKept
<1>5. CASE UNCHANGED <<lookup, owner, seen>> /\ zoneRows \subseteq zoneRows'
  BY <1>0, <1>5, RecordKept
<1> QED
  BY <1>0, <1>1, <1>2, <1>3, <1>4, <1>5, OwnStepRecorded
     DEF Next, vars, StartServer, Heartbeat, HeartbeatsMissed, StopServer, EnsureRow,
         Subscribe, Unsubscribe, SendChange

\* As long as no SQL statement fails, a LookupZone call whose zone is not
\* released meanwhile answers with a server that owned it during the call,
\* however calls, the sweeper and restarts of the service interleave.
THEOREM UnreleasedAnswersOwned ==
  ASSUME "db" \notin Environment PROVE Spec => []UnreleasedAnswerOwned
<1>1. Init => CallsRecorded
  BY DEF Init, CallsRecorded, CallRecorded, InFlight, NoLookup
<1>2. TypeOK /\ CallsRecorded /\ [Next]_vars => CallsRecorded'
  BY RecordedStep
<1>3. CallsRecorded => UnreleasedAnswerOwned
  BY DEF CallsRecorded, CallRecorded, UnreleasedAnswerOwned
<1> QED
  BY <1>1, <1>2, <1>3, TypeCorrect, PTL DEF Spec

-----------------------------------------------------------------------------
(* What the sweeper forgets                                                *)

\* ShutdownOwnerIsBeingSwept speaks of each zone by itself.
SweptOrLate(z) ==
  owner[z] # NoServer => (status[owner[z]] = "shutdown" => BeingSwept(z) \/ z \in late)

\* A claim for a server that is not active any more is late, and no claim
\* touches another zone.
LEMMA ClaimSweptOrLate ==
  ASSUME TypeOK, NEW y \in Zones, NEW s \in OwnerOrNone, SetOwner(y, s), UNCHANGED status,
         late' = IF status[s] = "active" THEN late \ {y} ELSE late \cup {y},
         NEW z \in Zones, SweptOrLate(z), owner[z] = NoServer \/ z # y,
         BeingSwept(z) /\ z # y => BeingSwept(z)'
  PROVE  SweptOrLate(z)'
<1>1. CASE z = y
  BY <1>1 DEF SetOwner, SweptOrLate, TypeOK
<1>2. CASE z # y
  BY <1>2 DEF SetOwner, SweptOrLate, TypeOK
<1> QED
  BY <1>1, <1>2

\* The steps of the servers and the handlers: a server that goes on sending
\* heartbeats is not shutdown any more, and only claims write owners.
LEMMA OthersSweptOrLate ==
  ASSUME TypeOK, NEW z \in Zones, SweptOrLate(z),
         \/ \E s \in Servers :
              StartServer(s) \/ Heartbeat(s) \/ HeartbeatsMissed(s) \/ StopServer(s)
         \/ \E l \in Lookups : LookupStep(l)
  PROVE  SweptOrLate(z)'
<1> USE DEF dbVars, history
<1>1. ASSUME NEW s \in Servers,
             StartServer(s) \/ Heartbeat(s) \/ HeartbeatsMissed(s) \/ StopServer(s)
      PROVE  SweptOrLate(z)'
  <2>1. UNCHANGED <<owner, sweep, late>>
    BY <1>1 DEF StartServer, Heartbeat, HeartbeatsMissed, StopServer
  <2>2. \A t \in Servers : status'[t] = "shutdown" => status[t] = "shutdown"
    BY <1>1 DEF StartServer, Heartbeat, HeartbeatsMissed, StopServer, TypeOK
  <2>3. owner[z] \in OwnerOrNone
    BY DEF TypeOK
  <2> QED
    BY <2>1, <2>2, <2>3 DEF SweptOrLate, BeingSwept, OwnerOrNone
<1>2. ASSUME NEW l \in Lookups, LookupStep(l) PROVE SweptOrLate(z)'
  <2>1. UNCHANGED <<status, sweep>>
    BY <1>2 DEF LookupStep, LookupOwner, LookupGet, LookupSelect, LookupClaim, LookupReread
  <2>2. CASE UNCHANGED <<owner, late>>
    BY <2>1, <2>2 DEF SweptOrLate, BeingSwept
  <2>3. CASE /\ ClaimUpdates(lookup[l].zone) /\ SetOwner(lookup[l].zone, lookup[l].server)
             /\ late' = IF status[lookup[l].server] = "active" THEN late \ {lookup[l].zone}
                        ELSE late \cup {lookup[l].zone}
    <3>1. lookup[l].zone \in Zones /\ lookup[l].server \in OwnerOrNone
      BY DEF TypeOK
    <3>2. owner[z] = NoServer \/ z # lookup[l].zone
      BY <2>3 DEF ClaimUpdates
    <3>3. BeingSwept(z) /\ z # lookup[l].zone => BeingSwept(z)'
      BY <2>1, <2>3 DEF SetOwner, BeingSwept, TypeOK
    <3> QED
      BY <2>1, <2>3, <3>1, <3>2, <3>3, ClaimSweptOrLate
  <2> QED
    BY <1>2, <2>2, <2>3
       DEF LookupStep, LookupOwner, LookupGet, LookupSelect, LookupClaim, LookupReread
<1> QED
  BY <1>1, <1>2

\* The sweeper's own steps: it lists the zones of a server after marking it and
\* leaves the server when the list is empty.
LEMMA SweeperSweptOrLate ==
  ASSUME TypeOK, "db" \notin Environment, NEW z \in Zones, SweptOrLate(z), SweepStep
  PROVE  SweptOrLate(z)'
<1> USE DEF dbVars, history
<1>0. ~ DBFails /\ owner[z] \in OwnerOrNone
  BY DEF DBFails, TypeOK
<1>1. CASE SweepListDead \/ SweepDone
  BY <1>1 DEF SweepListDead, SweepDone, SweptOrLate, BeingSwept
<1>2. ASSUME NEW s \in Servers, SweepMark(s) PROVE SweptOrLate(z)'
  <2>1. /\ status' = [status EXCEPT ![s] = "shutdown"]
        /\ sweep' = [sweep EXCEPT !.pc = "zones", !.dead = @ \ {s}, !.server = s]
        /\ UNCHANGED <<owner, late>> /\ sweep.pc = "mark"
    BY <1>0, <1>2 DEF SweepMark
  <2>2. sweep'.pc = "zones" /\ sweep'.server = s
    BY <2>1 DEF TypeOK
  <2>3. CASE owner[z] = s
    BY <2>1, <2>2, <2>3 DEF SweptOrLate, BeingSwept
  <2>4. CASE owner[z] # s
    BY <1>0, <2>1, <2>4 DEF SweptOrLate, BeingSwept, OwnerOrNone, TypeOK
  <2> QED
    BY <2>3, <2>4
<1>3. CASE SweepZones
  <2>1. /\ sweep' = [sweep EXCEPT !.pc = "release", !.zones = ListByServer(sweep.server)]
        /\ UNCHANGED <<owner, late, status>> /\ sweep.pc = "zones"
    BY <1>0, <1>3 DEF SweepZones
  <2>2. sweep'.pc = "release" /\ sweep'.server = sweep.server
        /\ sweep'.zones = ListByServer(sweep.server)
    BY <2>1 DEF TypeOK
  <2> QED
    BY <2>1, <2>2 DEF SweptOrLate, BeingSwept, ListByServer
<1>4. ASSUME NEW y \in Zones, SweepRelease(y) PROVE SweptOrLate(z)'
  <2>1. sweep.pc = "release" /\ UNCHANGED status
    BY <1>4 DEF SweepRelease
  <2>2. CASE /\ SetOwner(y, NoServer) /\ late' = late \ {y}
             /\ sweep' = [sweep EXCEPT !.pc = "list", !.zones = @ \ {y}, !.zone = y]
    <3>1. sweep'.pc = "list" /\ sweep'.server = sweep.server /\ sweep'.zones = sweep.zones \ {y}
      BY <2>2 DEF TypeOK
    <3>2. owner'[z] = IF z = y THEN NoServer ELSE owner[z]
      BY <2>2 DEF SetOwner, TypeOK
    <3> QED
      BY <2>1, <2>2, <3>1, <3>2 DEF SweptOrLate, BeingSwept
  <2>3. CASE /\ owner[y] # sweep.server /\ sweep' = [sweep EXCEPT !.zones = @ \ {y}]
             /\ UNCHANGED <<owner, history>>
    <3>1. sweep'.pc = "release" /\ sweep'.server = sweep.server /\ sweep'.zones = sweep.zones \ {y}
      BY <2>1, <2>3 DEF TypeOK
    <3> QED
      BY <2>1, <2>3, <3>1 DEF SweptOrLate, BeingSwept
  <2> QED
    BY <1>0, <1>4, <2>2, <2>3 DEF SweepRelease
<1>5. CASE SweepServerDone
  <2>1. ~ BeingSwept(z) /\ UNCHANGED <<owner, late, status>>
    BY <1>5 DEF SweepServerDone, BeingSwept
  <2> QED
    BY <2>1 DEF SweptOrLate
<1>6. ASSUME UNCHANGED status, sweep'.server = sweep.server, sweep'.zones = sweep.zones,
             {sweep.pc, sweep'.pc} \subseteq {"release", "list", "claim", "reread"},
             \/ UNCHANGED <<owner, late>>
             \/ /\ ClaimUpdates(sweep.zone) /\ SetOwner(sweep.zone, sweep.target)
                /\ late' = IF status[sweep.target] = "active" THEN late \ {sweep.zone}
                           ELSE late \cup {sweep.zone}
      PROVE  SweptOrLate(z)'
  <2>1. owner'[z] = owner[z] => BeingSwept(z)' = BeingSwept(z)
    BY <1>6 DEF BeingSwept
  <2>2. CASE UNCHANGED <<owner, late>>
    BY <1>6, <2>1, <2>2 DEF SweptOrLate
  <2>3. CASE /\ ClaimUpdates(sweep.zone) /\ SetOwner(sweep.zone, sweep.target)
             /\ late' = IF status[sweep.target] = "active" THEN late \ {sweep.zone}
                        ELSE late \cup {sweep.zone}
    <3>1. sweep.zone \in Zones /\ sweep.target \in OwnerOrNone
      BY DEF TypeOK
    <3>2. z # sweep.zone => owner'[z] = owner[z]
      BY <2>3 DEF SetOwner, TypeOK
    <3>3. owner[z] = NoServer \/ z # sweep.zone
      BY <2>3 DEF ClaimUpdates
    <3> QED
      BY <1>6, <2>1, <2>3, <3>1, <3>2, <3>3, ClaimSweptOrLate
  <2> QED
    BY <1>6, <2>2, <2>3
<1>7. CASE SweepSelect
  <2>1. /\ UNCHANGED <<status, owner, late>>
        /\ sweep.pc = "list" /\ sweep'.pc \in {"claim", "release"}
        /\ sweep'.server = sweep.server /\ sweep'.zones = sweep.zones
    BY <1>7 DEF SweepSelect, TypeOK
  <2> QED
    BY <1>6, <2>1
<1>8. CASE SweepReread
  <2>1. /\ UNCHANGED <<status, owner, late>> /\ sweep.pc = "reread" /\ sweep'.pc = "release"
        /\ sweep'.server = sweep.server /\ sweep'.zones = sweep.zones
    BY <1>8 DEF SweepReread, TypeOK
  <2> QED
    BY <1>6, <2>1
<1>9. CASE SweepClaim
  <2>1. /\ UNCHANGED status /\ sweep.pc = "claim" /\ sweep'.pc \in {"release", "reread"}
        /\ sweep'.server = sweep.server /\ sweep'.zones = sweep.zones
    BY <1>9 DEF SweepClaim, TypeOK
  <2>2. \/ UNCHANGED <<owner, late>>
        \/ /\ ClaimUpdates(sweep.zone) /\ SetOwner(sweep.zone, sweep.target)
           /\ late' = IF status[sweep.target] = "active" THEN late \ {sweep.zone}
                      ELSE late \cup {sweep.zone}
    BY <1>9 DEF SweepClaim
  <2> QED
    BY <1>6, <2>1, <2>2
<1> QED
  BY <1>1, <1>2, <1>3, <1>4, <1>5, <1>7, <1>8, <1>9 DEF SweepStep

\* When no SQL statement fails and the service does not crash in the middle of
\* a sweep, the sweeper takes every zone of a server it marked, unless the zone
\* was claimed for the server after that by a call that had selected it before.
THEOREM ShutdownOwnersAreSwept ==
  ASSUME Environment \cap {"db", "crash"} = {} PROVE Spec => []ShutdownOwnerIsBeingSwept
<1>1. Init => ShutdownOwnerIsBeingSwept
  BY DEF Init, ShutdownOwnerIsBeingSwept
<1>2. TypeOK /\ ShutdownOwnerIsBeingSwept /\ [Next]_vars => ShutdownOwnerIsBeingSwept'
  <2> SUFFICES ASSUME TypeOK, ShutdownOwnerIsBeingSwept, [Next]_vars, NEW z \in Zones
               PROVE  SweptOrLate(z)'
    BY DEF ShutdownOwnerIsBeingSwept, SweptOrLate
  <2>1. SweptOrLate(z)
    BY DEF ShutdownOwnerIsBeingSwept, SweptOrLate
  <2>2. "db" \notin Environment /\ "crash" \notin Environment
    OBVIOUS
  <2>3. CASE UNCHANGED <<owner, status, sweep, late>>
    BY <2>1, <2>3 DEF SweptOrLate, BeingSwept
  <2> QED
    BY <2>1, <2>2, <2>3, OthersSweptOrLate, SweeperSweptOrLate
       DEF Next, vars, dbVars, history, EnsureRow, StartLookup, Subscribe, Unsubscribe,
           SendChange, RoomServiceCrash
<1> QED
  BY <1>1, <1>2, TypeCorrect, PTL DEF Spec
=============================================================================
