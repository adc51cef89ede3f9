----------------------------- MODULE RuntimeAPI -----------------------------
(***************************************************************************)
(* The runtime-management API (internal/room/api.go): CreateRuntime,       *)
(* DestroyRuntime, GetRuntimeInfo and ListRuntimes over                    *)
(* MemoryRuntimeStore, and its one caller, doProvision of tools/client,    *)
(* which seeds the tables runtimes and zones afterwards.                   *)
(*                                                                         *)
(* Each store call is one critical section; Get and List hand out pointers *)
(* whose Status is read after the unlock, so the reader may see a write    *)
(* made in between.  A provisioner may stop between any two of its steps   *)
(* and be run again, and the room service, which keeps its runtimes in     *)
(* memory only, may restart.                                               *)
(***************************************************************************)
EXTENDS Naturals

CONSTANTS
  RuntimeIds,    \* runtime ids
  Provisioners,  \* runs of doProvision
  Readers,       \* GetRuntimeInfo and ListRuntimes calls
  NoRuntime,     \* no record, or nothing asked
  MaxCount       \* largest zone_count asked for

ASSUME RuntimeAssumption == NoRuntime \notin RuntimeIds /\ MaxCount \in Nat \ {0}

VARIABLES
  data,        \* MemoryRuntimeStore.data: status and zone count of a record
  prov,        \* provisioner -> its step, runtime and zone id
  runtimeRows, \* ids in table runtimes
  seeded,      \* <<runtime, number>> ids in table zones
  reading,     \* reader -> the runtime whose record it holds
  shown        \* history: runtime -> statuses readers were given since a restart

apiVars == <<data, prov, runtimeRows, seeded, reading, shown>>

\* fmt.Sprintf("%s-z%d", id, n)
ZoneName(r, n) == <<r, n>>

NoRecord == [status |-> "none", zones |-> 0]
ProvIdle == [pc |-> "idle", id |-> NoRuntime, zone |-> 0]

APITypeOK ==
  /\ data \in [RuntimeIds -> [status : {"none", "creating", "active", "destroyed"},
                              zones : 0..MaxCount]]
  /\ prov \in [Provisioners -> [pc : {"idle", "create", "runtime", "zone"},
                                id : RuntimeIds \cup {NoRuntime}, zone : 0..1]]
  /\ runtimeRows \subseteq RuntimeIds
  /\ seeded \subseteq RuntimeIds \X (0..1)
  /\ reading \in [Readers -> RuntimeIds \cup {NoRuntime}]
  /\ shown \in [RuntimeIds -> SUBSET {"creating", "active", "destroyed"}]

APIInit ==
  /\ data = [r \in RuntimeIds |-> NoRecord]
  /\ prov = [p \in Provisioners |-> ProvIdle]
  /\ runtimeRows = {}
  /\ seeded = {}
  /\ reading = [q \in Readers |-> NoRuntime]
  /\ shown = [r \in RuntimeIds |-> {}]

\* Mutant: an id whose runtime was destroyed can be created again.
Conflict_LiveOnly(r) == data[r].status = "active"

Conflict(r) == data[r] # NoRecord

\* The record of MemoryRuntimeStore.Create when it is put into the map.
Created(count) == [status |-> "active", zones |-> count]

\* CreateRuntime with the defaults applied; a conflict changes nothing.
CreateRuntime(r, count) ==
  /\ ~ Conflict(r)
  /\ data' = [data EXCEPT ![r] = Created(IF count = 0 THEN 1 ELSE count)]

DestroyRuntime(r) ==
  /\ data[r] # NoRecord
  /\ data' = [data EXCEPT ![r].status = "destroyed"]
  /\ UNCHANGED <<prov, runtimeRows, seeded, reading, shown>>

ProvisionStarts(p, r) ==
  /\ prov[p].pc = "idle"
  /\ prov' = [prov EXCEPT ![p] = [pc |-> "create", id |-> r, zone |-> 0]]
  /\ UNCHANGED <<data, runtimeRows, seeded, reading, shown>>

\* Mutant: the zone id after a conflict is numbered from 0.
DerivedZone_Zero(r) == ZoneName(r, 0)

\* The zone id doProvision derives when CreateRuntime returns an error.
DerivedZone(r) == ZoneName(r, 1)

\* The call of CreateRuntime: the first zone of the answer, or after any error,
\* one of the connection included, the derived id.
ProvisionCreates(p) ==
  /\ prov[p].pc = "create"
  /\ LET r == prov[p].id IN
       \/ /\ \E count \in 0..MaxCount : CreateRuntime(r, count)
          /\ prov' = [prov EXCEPT ![p] = [pc |-> "runtime", id |-> r, zone |-> ZoneName(r, 1)[2]]]
       \/ /\ prov' = [prov EXCEPT ![p] = [pc |-> "runtime", id |-> r, zone |-> DerivedZone(r)[2]]]
          /\ UNCHANGED data
  /\ UNCHANGED <<runtimeRows, seeded, reading, shown>>

\* INSERT INTO runtimes ... ON CONFLICT DO NOTHING
SeedRuntime(p) ==
  /\ prov[p].pc = "runtime"
  /\ runtimeRows' = runtimeRows \cup {prov[p].id}
  /\ prov' = [prov EXCEPT ![p].pc = "zone"]
  /\ UNCHANGED <<data, seeded, reading, shown>>

\* zones.runtime_id references runtimes, and (runtime_id, grid_x, grid_y), always
\* (r, 0, 0) here, is unique.
ZoneFits(r, z) ==
  /\ r \in runtimeRows
  /\ \A y \in seeded : y[1] = r => y = z

\* INSERT INTO zones ... ON CONFLICT (id) DO NOTHING, and the return.
SeedZone(p) ==
  /\ prov[p].pc = "zone"
  /\ LET z == ZoneName(prov[p].id, prov[p].zone) IN
       /\ ZoneFits(prov[p].id, z)
       /\ seeded' = seeded \cup {z}
  /\ prov' = [prov EXCEPT ![p] = ProvIdle]
  /\ UNCHANGED <<data, runtimeRows, reading, shown>>

\* An error from PostgreSQL, or the program is stopped.
ProvisionStops(p) ==
  /\ prov[p].pc # "idle"
  /\ prov' = [prov EXCEPT ![p] = ProvIdle]
  /\ UNCHANGED <<data, runtimeRows, seeded, reading, shown>>

\* The locked part of Get; GetRuntimeInfo and GetRuntimeMetrics.
ReadGet(q, r) ==
  /\ reading[q] = NoRuntime
  /\ data[r] # NoRecord
  /\ reading' = [reading EXCEPT ![q] = r]
  /\ UNCHANGED <<data, prov, runtimeRows, seeded, shown>>

\* The locked part of List, for one of the records it returns.
ReadList(q, r) ==
  /\ reading[q] = NoRuntime
  /\ data[r].status \notin {"none", "destroyed"}
  /\ reading' = [reading EXCEPT ![q] = r]
  /\ UNCHANGED <<data, prov, runtimeRows, seeded, shown>>

\* The answer is built from the record after the unlock (toProtoStatus).
ReadAnswers(q) ==
  /\ reading[q] # NoRuntime
  /\ shown' = [shown EXCEPT ![reading[q]] = @ \cup {data[reading[q]].status}]
  /\ reading' = [reading EXCEPT ![q] = NoRuntime]
  /\ UNCHANGED <<data, prov, runtimeRows, seeded>>

\* The room service stops, with its calls, and starts with an empty store.
ServiceRestarts ==
  /\ data' = [r \in RuntimeIds |-> NoRecord]
  /\ reading' = [q \in Readers |-> NoRuntime]
  /\ shown' = [r \in RuntimeIds |-> {}]
  /\ UNCHANGED <<prov, runtimeRows, seeded>>

APINext ==
  \/ \E r \in RuntimeIds : DestroyRuntime(r)
  \/ \E p \in Provisioners : \/ \E r \in RuntimeIds : ProvisionStarts(p, r)
                             \/ ProvisionCreates(p) \/ SeedRuntime(p)
                             \/ SeedZone(p) \/ ProvisionStops(p)
  \/ \E q \in Readers : \/ \E r \in RuntimeIds : ReadGet(q, r) \/ ReadList(q, r)
                        \/ ReadAnswers(q)
  \/ ServiceRestarts

APISpec == APIInit /\ [][APINext]_apiVars

(* Every provisioning of a runtime - the first, a retry after a failure at any
   step, one running beside another, one after a restart of the room service -
   arrives at the same zone, so that its INSERT never meets a constraint of the
   tables. *)
ProvisionAgrees ==
  \A p \in Provisioners :
    prov[p].pc = "zone" => ZoneFits(prov[p].id, ZoneName(prov[p].id, prov[p].zone))

(* While the process runs, a runtime that was destroyed stays destroyed: a later
   CreateRuntime of its id is a conflict. *)
DestroyedIsFinal ==
  \A r \in RuntimeIds : "destroyed" \in shown[r] => data[r].status = "destroyed"
=============================================================================
