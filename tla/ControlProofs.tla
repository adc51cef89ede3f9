--------------------------- MODULE ControlProofs ----------------------------
(***************************************************************************)
(* Theorems about the control plane: the Sweeper, the lifecycle of zones,  *)
(* the runtime-management API, the calls between processes, the order the  *)
(* processes come up in, and what a restarted game server begins with.     *)
(* Each holds for every value of the constants.                            *)
(***************************************************************************)
EXTENDS Registry, ZoneLifecycle, RuntimeAPI, Rpc, Startup, GameProcess, TLAPS

-----------------------------------------------------------------------------
(***************************************************************************)
(* The Sweeper and the claims it races with, for any nodes and zones:      *)
(* HandoverThroughUnowned and SweptNodeOwnsNothing.  The first needs that  *)
(* a pick still to be claimed names a node that has sent a heartbeat.  The *)
(* second is inductive with the types: only the Sweeper marks a node, and  *)
(* it takes the node's zones before it marks another.                      *)
(***************************************************************************)

IReg ==
  /\ RegTypeOK
  /\ \A n \in Nodes : nodeStatus[n] = "active" => n \in beaten
  /\ \A p \in picks : p[2] \in beaten
  /\ SweptNodeOwnsNothing

\* What LeastLoaded returns has sent a heartbeat.
LEMMA PickedHasBeaten == IReg => LeastLoaded \subseteq beaten /\ LeastLoaded \subseteq Nodes
BY DEF IReg, LeastLoaded, NodeHasRoom, svr

\* No node is registered.
LEMMA IRegInit == RegInit => IReg
BY RegistryAssumption DEF RegInit, IReg, RegTypeOK, SweeperIdle, SweptNodeOwnsNothing

\* The steps of a node: none of them marks one.
LEMMA IRegNode ==
  ASSUME IReg, NEW n \in Nodes,
         NodeRegisters(n) \/ RegHeartbeat(n) \/ UpdateLoad(n) \/ NodeRemoved(n) \/ BeatsMissed(n)
  PROVE  IReg'
<1>1. CASE NodeRegisters(n)
  BY <1>1 DEF NodeRegisters, IReg, RegTypeOK, SweptNodeOwnsNothing
<1>2. ASSUME NEW load \in 0 .. RegMaxZones, NodeBeats(n, load) PROVE IReg'
  BY <1>2 DEF NodeBeats, IReg, RegTypeOK, SweptNodeOwnsNothing
<1>3. CASE RegHeartbeat(n)
  <2>1. zoneCount[n] \in 0 .. RegMaxZones
    BY DEF IReg, RegTypeOK
  <2> QED
    BY <1>2, <1>3, <2>1 DEF RegHeartbeat
<1>4. CASE UpdateLoad(n)
  BY <1>2, <1>4 DEF UpdateLoad
<1>5. CASE NodeRemoved(n)
  BY <1>5, RegistryAssumption DEF NodeRemoved, IReg, RegTypeOK, SweptNodeOwnsNothing
<1>6. CASE BeatsMissed(n)
  BY <1>6 DEF BeatsMissed, IReg, RegTypeOK, SweptNodeOwnsNothing
<1> QED
  BY <1>1, <1>3, <1>4, <1>5, <1>6

\* A caller picks a node, and claims or releases a zone.
LEMMA IRegCaller ==
  ASSUME IReg, NEW z \in RegZones,
         PickNode(z) \/ \E n \in Nodes : RegClaim(z, n) \/ RegRelease(z, n)
  PROVE  IReg'
<1>1. CASE PickNode(z)
  BY <1>1, PickedHasBeaten DEF PickNode, nodeVars, IReg, RegTypeOK, SweptNodeOwnsNothing
<1>2. ASSUME NEW n \in Nodes, RegClaim(z, n) PROVE IReg'
  <2>1. RegTypeOK'
    BY <1>2 DEF RegClaim, nodeVars, IReg, RegTypeOK
  <2>2. (\A m \in Nodes : nodeStatus'[m] = "active" => m \in beaten')
        /\ \A p \in picks' : p[2] \in beaten'
    BY <1>2 DEF RegClaim, nodeVars, IReg
  <2>3. SweptNodeOwnsNothing'
    BY <1>2 DEF RegClaim, nodeVars, IReg, RegTypeOK, SweptNodeOwnsNothing
  <2> QED
    BY <2>1, <2>2, <2>3 DEF IReg
<1>3. ASSUME NEW n \in Nodes, RegRelease(z, n) PROVE IReg'
  BY <1>3, RegistryAssumption DEF RegRelease, nodeVars, IReg, RegTypeOK, SweptNodeOwnsNothing
<1> QED
  BY <1>1, <1>2, <1>3

\* Where the Sweeper goes after a zone or a node.
LEMMA AfterOrphansType ==
  ASSUME IReg, NEW S \in SUBSET RegZones
  PROVE  /\ AfterOrphans(S) \in [pc : {"idle", "mark", "orphans", "reassign"},
                                 dead : SUBSET Nodes, node : Nodes \cup {NoNode},
                                 orphaned : SUBSET RegZones]
         /\ AfterOrphans(S).pc # "orphans"
<1>1. sweeper \in [pc : {"idle", "mark", "orphans", "reassign"}, dead : SUBSET Nodes,
                   node : Nodes \cup {NoNode}, orphaned : SUBSET RegZones]
  BY DEF IReg, RegTypeOK
<1> QED
  BY <1>1 DEF AfterOrphans, SweeperIdle

\* The Sweeper marks a node, takes its zones, and only then goes on.
LEMMA IRegSweeper == ASSUME IReg, SweeperStep PROVE IReg'
<1>1. CASE SweepCollects
  BY <1>1 DEF SweepCollects, svr, SweeperIdle, nodeVars, IReg, RegTypeOK, SweptNodeOwnsNothing
<1>2. CASE SweepMarks
  <2>1. PICK n \in sweeper.dead :
          /\ nodeStatus' = IF n \in svr THEN [nodeStatus EXCEPT ![n] = "shutdown"]
                           ELSE nodeStatus
          /\ sweeper' = [sweeper EXCEPT !.pc = "orphans", !.node = n, !.dead = @ \ {n}]
    BY <1>2 DEF SweepMarks
  <2>2. n \in Nodes
    BY DEF IReg, RegTypeOK
  <2>3. RegTypeOK'
    BY <1>2, <2>1, <2>2 DEF SweepMarks, IReg, RegTypeOK
  <2>4. SweptNodeOwnsNothing'
    BY <1>2, <2>1, <2>2 DEF SweepMarks, IReg, RegTypeOK, SweptNodeOwnsNothing
  <2> QED
    BY <1>2, <2>1, <2>2, <2>3, <2>4 DEF SweepMarks, IReg, RegTypeOK
<1>3. CASE SweepOrphans
  <2> DEFINE orphaned == {z \in RegZones : zoneOwner[z] = sweeper.node}
  <2>1. /\ zoneOwner' = [z \in RegZones |-> IF z \in orphaned THEN NoNode ELSE zoneOwner[z]]
        /\ lateClaims' = lateClaims \ orphaned
        /\ sweeper' = AfterOrphans(orphaned)
        /\ UNCHANGED <<nodeVars, picks>>
    BY <1>3 DEF SweepOrphans
  <2>2. /\ sweeper' \in [pc : {"idle", "mark", "orphans", "reassign"}, dead : SUBSET Nodes,
                         node : Nodes \cup {NoNode}, orphaned : SUBSET RegZones]
        /\ sweeper'.pc # "orphans"
    BY <2>1, AfterOrphansType
  <2>3. RegTypeOK'
    BY <2>1, <2>2 DEF IReg, RegTypeOK, nodeVars
  <2>4. SweptNodeOwnsNothing'
    BY <2>1, RegistryAssumption DEF IReg, RegTypeOK, nodeVars, SweptNodeOwnsNothing
  <2> QED
    BY <2>1, <2>3, <2>4 DEF IReg, nodeVars
<1>4. CASE SweepReassigns
  <2>1. PICK z \in sweeper.orphaned :
          /\ \/ \E n \in LeastLoaded : picks' = picks \cup {<<z, n>>}
             \/ LeastLoaded = {} /\ UNCHANGED picks
          /\ sweeper' = AfterOrphans(sweeper.orphaned \ {z})
    BY <1>4 DEF SweepReassigns
  <2>2. z \in RegZones /\ sweeper.orphaned \ {z} \in SUBSET RegZones
    BY DEF IReg, RegTypeOK
  <2>3. sweeper' \in [pc : {"idle", "mark", "orphans", "reassign"}, dead : SUBSET Nodes,
                      node : Nodes \cup {NoNode}, orphaned : SUBSET RegZones]
    BY <2>1, <2>2, AfterOrphansType
  <2>4. picks' \subseteq RegZones \X Nodes /\ \A p \in picks' : p[2] \in beaten
    BY <2>1, <2>2, PickedHasBeaten DEF IReg, RegTypeOK
  <2>5. sweeper.pc = "reassign" /\ UNCHANGED <<nodeVars, zoneOwner, lateClaims>>
    BY <1>4 DEF SweepReassigns
  <2> QED
    BY <2>3, <2>4, <2>5 DEF IReg, RegTypeOK, nodeVars, SweptNodeOwnsNothing
<1> QED
  BY <1>1, <1>2, <1>3, <1>4 DEF SweeperStep

\* The invariant is inductive.
LEMMA IRegNext == IReg /\ [RegNext]_regVars => IReg'
<1> SUFFICES ASSUME IReg, [RegNext]_regVars PROVE IReg'
  OBVIOUS
<1>1. CASE UNCHANGED regVars
  BY <1>1 DEF regVars, IReg, RegTypeOK, SweptNodeOwnsNothing
<1> QED
  BY <1>1, IRegNode, IRegCaller, IRegSweeper DEF RegNext

\* When the Sweeper is done with a node it marked, the node owns only zones
\* claimed for it since: reassignZonesOf misses none.
THEOREM SweptNodesOwnNothing == RegSpec => []SweptNodeOwnsNothing
<1>1. IReg => SweptNodeOwnsNothing
  BY DEF IReg
<1> QED
  BY <1>1, IRegInit, IRegNext, PTL DEF RegSpec

\* A step that changes a zone's owner clears it, or sets one that has sent a
\* heartbeat where there was none.
LEMMA HandoverStep ==
  ASSUME IReg, RegNext, NEW z \in RegZones, zoneOwner'[z] # zoneOwner[z]
  PROVE  zoneOwner'[z] = NoNode \/ (zoneOwner[z] = NoNode /\ zoneOwner'[z] \in beaten)
<1>1. ASSUME NEW n \in Nodes,
             NodeRegisters(n) \/ RegHeartbeat(n) \/ UpdateLoad(n) \/ NodeRemoved(n) \/ BeatsMissed(n)
      PROVE  FALSE
  BY <1>1 DEF NodeRegisters, RegHeartbeat, UpdateLoad, NodeBeats, NodeRemoved, BeatsMissed
<1>2. ASSUME NEW y \in RegZones, PickNode(y) PROVE FALSE
  BY <1>2 DEF PickNode
<1>3. ASSUME NEW y \in RegZones, NEW n \in Nodes, RegClaim(y, n)
      PROVE  zoneOwner[z] = NoNode /\ zoneOwner'[z] \in beaten
  BY <1>3 DEF RegClaim, IReg, RegTypeOK
<1>4. ASSUME NEW y \in RegZones, NEW n \in Nodes, RegRelease(y, n)
      PROVE  zoneOwner'[z] = NoNode
  BY <1>4 DEF RegRelease, IReg, RegTypeOK
<1>5. CASE SweeperStep
  BY <1>5 DEF SweeperStep, SweepCollects, SweepMarks, SweepOrphans, SweepReassigns
<1> QED
  BY <1>1, <1>2, <1>3, <1>4, <1>5 DEF RegNext

\* A zone changes hands only by way of having no owner, and goes only to a node
\* that has sent a heartbeat, whatever the callers and the Sweeper interleave.
THEOREM HandoversThroughUnowned == RegSpec => HandoverThroughUnowned
<1>1. IReg /\ [RegNext]_regVars =>
        [\A z \in RegZones : zoneOwner'[z] # zoneOwner[z] =>
           \/ zoneOwner'[z] = NoNode
           \/ zoneOwner[z] = NoNode /\ zoneOwner'[z] \in beaten]_regVars
  BY HandoverStep
<1> QED
  BY <1>1, IRegInit, IRegNext, PTL DEF RegSpec, HandoverThroughUnowned

\* The registry's tables keep their types; no server reports more
\* zones than its capacity.
THEOREM RegistryTypes == RegSpec => []RegTypeOK
<1>1. IReg => RegTypeOK
  BY DEF IReg
<1> QED
  BY <1>1, IRegInit, IRegNext, PTL DEF RegSpec

-----------------------------------------------------------------------------
(***************************************************************************)
(* ListenersFollow for any zones, servers and listeners.  It needs that a  *)
(* listener was told nothing before it was attached, and nothing about a   *)
(* zone that has no row.                                                   *)
(***************************************************************************)

ILife ==
  /\ LifeTypeOK
  /\ ListenersFollow
  /\ \A l \in Listeners, z \in Moved :
       l \notin attached \/ row[z].status = "none" => told[l][z] = NoHost

\* No zone has a row and no listener is attached.
LEMMA ILifeInit == LifeInit => ILife
BY DEF LifeInit, ILife, LifeTypeOK, ZoneType, ListenersFollow

\* The methods of Zone leave the table alone.
LEMMA ILifeZone ==
  ASSUME ILife, zone' \in ZoneType, UNCHANGED tableVars PROVE ILife'
BY DEF ILife, LifeTypeOK, ListenersFollow, tableVars

\* A new row is about a zone no listener was told of.
LEMMA ILifeRow == ASSUME ILife, NEW z \in Moved, NEW s \in Hosts, SetRow(z, s) PROVE ILife'
BY DEF ILife, LifeTypeOK, ListenersFollow, SetRow, Statuses

\* A new listener has been told nothing.
LEMMA ILifeListener == ASSUME ILife, NEW l \in Listeners, WithListener(l) PROVE ILife'
BY DEF ILife, LifeTypeOK, ListenersFollow, WithListener

\* A transfer begins: the owner stays.
LEMMA ILifePrepare == ASSUME ILife, NEW z \in Moved, PrepareTransfer(z) PROVE ILife'
<1>1. /\ row' \in [Moved -> [owner : Hosts \cup {NoHost}, status : Statuses \cup {"none"}]]
      /\ \A y \in Moved : /\ row'[y].owner = row[y].owner
                          /\ row'[y].status = "none" => row[y].status = "none"
  BY DEF ILife, LifeTypeOK, PrepareTransfer, Statuses
<1> QED
  BY <1>1 DEF ILife, LifeTypeOK, ListenersFollow, PrepareTransfer

\* A transfer ends: every listener attached is told the new owner.
LEMMA ILifeComplete ==
  ASSUME ILife, NEW z \in Moved, NEW s \in Hosts, CompleteTransfer(z, s) PROVE ILife'
<1>1. /\ row' \in [Moved -> [owner : Hosts \cup {NoHost}, status : Statuses \cup {"none"}]]
      /\ row'[z] = [owner |-> s, status |-> "active"]
      /\ \A y \in Moved \ {z} : row'[y] = row[y]
  BY DEF ILife, LifeTypeOK, CompleteTransfer, Statuses
<1>2. ASSUME NEW l \in Listeners
      PROVE  /\ told'[l] \in [Moved -> Hosts \cup {NoHost}]
             /\ l \in attached => told'[l][z] = s
             /\ l \notin attached => told'[l] = told[l]
             /\ \A y \in Moved \ {z} : told'[l][y] = told[l][y]
  BY DEF ILife, LifeTypeOK, CompleteTransfer
<1>3. told' \in [Listeners -> [Moved -> Hosts \cup {NoHost}]]
  BY <1>2 DEF CompleteTransfer
<1>4. UNCHANGED <<zone, attached>>
  BY DEF CompleteTransfer
<1>5. LifeTypeOK'
  BY <1>1, <1>3, <1>4 DEF ILife, LifeTypeOK
<1>6. ASSUME NEW l \in Listeners, NEW y \in Moved
      PROVE  /\ l \in attached /\ told'[l][y] # NoHost => told'[l][y] = row'[y].owner
             /\ l \notin attached \/ row'[y].status = "none" => told'[l][y] = NoHost
  <2>1. CASE y = z
    BY <1>1, <1>2, <2>1 DEF ILife
  <2>2. CASE y # z
    BY <1>1, <1>2, <2>2 DEF ILife, ListenersFollow
  <2> QED
    BY <2>1, <2>2
<1> QED
  BY <1>4, <1>5, <1>6 DEF ILife, ListenersFollow, LifeTypeOK

\* Every call keeps the invariant.
LEMMA ILifeNext == ILife /\ [LifeNext]_lifeVars => ILife'
<1> SUFFICES ASSUME ILife, [LifeNext]_lifeVars PROVE ILife'
  OBVIOUS
<1>1. CASE UNCHANGED lifeVars
  BY <1>1 DEF ILife, LifeTypeOK, ListenersFollow, lifeVars
<1>2. ASSUME NEW s \in Hosts, ZoneClaim(s) \/ ZoneCompletes(s) PROVE ILife'
  BY <1>2, ILifeZone DEF ZoneClaim, ZoneCompletes, ZoneType
<1>3. CASE ZoneRelease
  BY <1>3, ILifeZone DEF ZoneRelease, ZoneType
<1>4. CASE BeginTransfer
  <2>1. zone.status = "active"
    BY <1>4 DEF BeginTransfer, ValidTransition
  <2>2. zone' \in ZoneType /\ UNCHANGED tableVars
    BY <1>4, <2>1 DEF BeginTransfer, ILife, LifeTypeOK, ZoneType
  <2> QED
    BY <2>2, ILifeZone
<1>5. CASE MarkOrphan
  BY <1>5, ILifeZone DEF MarkOrphan, ILife, LifeTypeOK, ZoneType
<1> QED
  BY <1>1, <1>2, <1>3, <1>4, <1>5, ILifeRow, ILifeListener, ILifePrepare, ILifeComplete
     DEF LifeNext

\* A listener's last word on a zone is the owner in the table, for any number
\* of transfers, zones, servers and listeners.
THEOREM ListenersAreCurrent == LifeSpec => []ListenersFollow
<1>1. ILife => ListenersFollow
  BY DEF ILife
<1> QED
  BY <1>1, ILifeInit, ILifeNext, PTL DEF LifeSpec

\* A zone, its row and what listeners were told keep their types, through every
\* transition and every rollback of one.
THEOREM LifecycleTypes == LifeSpec => []LifeTypeOK
<1>1. ILife => LifeTypeOK
  BY DEF ILife
<1> QED
  BY <1>1, ILifeInit, ILifeNext, PTL DEF LifeSpec

-----------------------------------------------------------------------------
(***************************************************************************)
(* ProvisionAgrees and DestroyedIsFinal for any runtimes, provisioners,    *)
(* readers and zone counts.  The first needs that both ways to a zone id   *)
(* give the first zone of the runtime, also in the rows of earlier runs.   *)
(* The second needs that a reader holds a record, and that no record loses *)
(* the status destroyed.                                                   *)
(***************************************************************************)

IProvision ==
  /\ \A p \in Provisioners :
       /\ prov[p].pc # "idle" => prov[p].id \in RuntimeIds
       /\ prov[p].pc \in {"runtime", "zone"} => prov[p].zone = 1
       /\ prov[p].pc = "zone" => prov[p].id \in runtimeRows
  /\ \A y \in seeded : y[2] = 1

IRecords ==
  /\ \A r \in RuntimeIds : data[r].status = "none" <=> data[r] = NoRecord
  /\ \A q \in Readers : reading[q] # NoRuntime => data[reading[q]] # NoRecord
  /\ DestroyedIsFinal

IApi == APITypeOK /\ IProvision /\ IRecords

\* A missing record and an idle provisioner are of the types.
LEMMA IdleTypes ==
  /\ NoRecord \in [status : {"none", "creating", "active", "destroyed"}, zones : 0..MaxCount]
  /\ ProvIdle \in [pc : {"idle", "create", "runtime", "zone"},
                   id : RuntimeIds \cup {NoRuntime}, zone : 0..1]
  /\ ProvIdle.pc = "idle"
BY RuntimeAssumption DEF NoRecord, ProvIdle

\* Nothing was provisioned.
LEMMA IApiInit == APIInit => IApi
<1> SUFFICES ASSUME APIInit PROVE IApi
  OBVIOUS
<1>1. APITypeOK
  BY IdleTypes DEF APIInit, APITypeOK
<1>2. IProvision
  BY DEF APIInit, IProvision, ProvIdle
<1>3. IRecords
  BY DEF APIInit, IRecords, DestroyedIsFinal, NoRecord
<1> QED
  BY <1>1, <1>2, <1>3 DEF IApi

\* A record gets the status destroyed.
LEMMA IApiDestroy == ASSUME IApi, NEW r \in RuntimeIds, DestroyRuntime(r) PROVE IApi'
<1>1. /\ data' \in [RuntimeIds -> [status : {"none", "creating", "active", "destroyed"},
                                   zones : 0..MaxCount]]
      /\ data'[r].status = "destroyed" /\ \A s \in RuntimeIds \ {r} : data'[s] = data[s]
  BY DEF IApi, APITypeOK, DestroyRuntime
<1>2. UNCHANGED <<prov, runtimeRows, seeded, reading, shown>>
  BY DEF DestroyRuntime
<1>3. APITypeOK' /\ IProvision'
  BY <1>1, <1>2 DEF IApi, APITypeOK, IProvision
<1>4. \A s \in RuntimeIds : data'[s].status = "none" <=> data'[s] = NoRecord
  BY <1>1 DEF IApi, IRecords, NoRecord
<1>5. data'[r] # NoRecord
  BY <1>1 DEF NoRecord
<1>6. \A q \in Readers : reading'[q] # NoRuntime => data'[reading'[q]] # NoRecord
  BY <1>1, <1>2, <1>5 DEF IApi, IRecords, APITypeOK
<1>7. DestroyedIsFinal'
  BY <1>1, <1>2 DEF IApi, IRecords, DestroyedIsFinal
<1> QED
  BY <1>3, <1>4, <1>6, <1>7 DEF IApi, IRecords

\* A record is made only where there is none.
LEMMA CreateKeepsRecords ==
  ASSUME IApi, NEW r \in RuntimeIds, NEW count \in 0..MaxCount, CreateRuntime(r, count),
         UNCHANGED <<reading, shown>>
  PROVE  /\ data' \in [RuntimeIds -> [status : {"none", "creating", "active", "destroyed"},
                                      zones : 0..MaxCount]]
         /\ IRecords'
<1> DEFINE rec == Created(IF count = 0 THEN 1 ELSE count)
<1>1. /\ rec \in [status : {"none", "creating", "active", "destroyed"}, zones : 0..MaxCount]
      /\ rec.status = "active" /\ rec # NoRecord
  BY RuntimeAssumption DEF Created, NoRecord
<1>2. data[r] = NoRecord /\ data' = [data EXCEPT ![r] = rec]
  BY DEF CreateRuntime, Conflict
<1> HIDE DEF rec
<1>3. /\ data' \in [RuntimeIds -> [status : {"none", "creating", "active", "destroyed"},
                                   zones : 0..MaxCount]]
      /\ data'[r] = rec /\ \A s \in RuntimeIds \ {r} : data'[s] = data[s]
  BY <1>1, <1>2 DEF IApi, APITypeOK
<1>4. \A s \in RuntimeIds : data'[s].status = "none" <=> data'[s] = NoRecord
  BY <1>1, <1>3 DEF IApi, IRecords
<1>5. \A q \in Readers : reading'[q] # NoRuntime => data'[reading'[q]] # NoRecord
  BY <1>1, <1>3 DEF IApi, IRecords, APITypeOK
<1>6. data[r].status = "none"
  BY <1>2 DEF NoRecord
<1>7. DestroyedIsFinal'
  BY <1>3, <1>6 DEF IApi, IRecords, DestroyedIsFinal
<1> QED
  BY <1>3, <1>4, <1>5, <1>7 DEF IRecords

\* The first zone of the answer and the one derived after an error are the same.
LEMMA IApiProvision ==
  ASSUME IApi, NEW p \in Provisioners, ProvisionCreates(p) PROVE IApi'
<1> DEFINE r == prov[p].id
<1>1. r \in RuntimeIds
  BY DEF ProvisionCreates, IApi, IProvision
<1>2. prov' = [prov EXCEPT ![p] = [pc |-> "runtime", id |-> r, zone |-> 1]]
  BY DEF ProvisionCreates, ZoneName, DerivedZone
<1>3. UNCHANGED <<runtimeRows, seeded, reading, shown>>
  BY DEF ProvisionCreates
<1>4. /\ data' \in [RuntimeIds -> [status : {"none", "creating", "active", "destroyed"},
                                   zones : 0..MaxCount]]
      /\ IRecords'
  <2>1. CASE UNCHANGED data
    BY <1>3, <2>1 DEF IApi, APITypeOK, IRecords, DestroyedIsFinal
  <2>2. CASE \E count \in 0..MaxCount : CreateRuntime(r, count)
    BY <1>1, <1>3, <2>2, CreateKeepsRecords
  <2> QED
    BY <2>1, <2>2 DEF ProvisionCreates
<1>5. /\ prov' \in [Provisioners -> [pc : {"idle", "create", "runtime", "zone"},
                                     id : RuntimeIds \cup {NoRuntime}, zone : 0..1]]
      /\ prov'[p].pc = "runtime" /\ prov'[p].zone = 1 /\ prov'[p].id = r
      /\ \A o \in Provisioners \ {p} : prov'[o] = prov[o]
  <2> DEFINE step == [pc |-> "runtime", id |-> r, zone |-> 1]
  <2>1. /\ step \in [pc : {"idle", "create", "runtime", "zone"},
                     id : RuntimeIds \cup {NoRuntime}, zone : 0..1]
        /\ step.pc = "runtime" /\ step.zone = 1 /\ step.id = r
    BY <1>1
  <2>2. prov' = [prov EXCEPT ![p] = step]
    BY <1>2
  <2> HIDE DEF step
  <2> QED
    BY <2>1, <2>2 DEF IApi, APITypeOK
<1>6. IProvision'
  BY <1>1, <1>3, <1>5 DEF IApi, IProvision
<1>7. APITypeOK'
  BY <1>3, <1>4, <1>5 DEF IApi, APITypeOK
<1> QED
  BY <1>4, <1>6, <1>7 DEF IApi

\* The other steps of a provisioner leave the runtimes alone.
LEMMA IApiSeed ==
  ASSUME IApi, NEW p \in Provisioners,
         \/ \E r \in RuntimeIds : ProvisionStarts(p, r)
         \/ SeedRuntime(p) \/ SeedZone(p) \/ ProvisionStops(p)
  PROVE  IApi'
<1>1. UNCHANGED <<data, reading, shown>>
  BY DEF ProvisionStarts, SeedRuntime, SeedZone, ProvisionStops
<1>2. IRecords'
  BY <1>1 DEF IApi, IRecords, DestroyedIsFinal
<1>3. ASSUME NEW r \in RuntimeIds, ProvisionStarts(p, r) PROVE APITypeOK' /\ IProvision'
  BY <1>3 DEF IApi, APITypeOK, IProvision, ProvisionStarts
<1>4. CASE SeedRuntime(p)
  <2>1. prov[p].id \in RuntimeIds /\ prov[p].zone = 1
    BY <1>4 DEF IApi, IProvision, SeedRuntime
  <2>2. /\ prov' \in [Provisioners -> [pc : {"idle", "create", "runtime", "zone"},
                                       id : RuntimeIds \cup {NoRuntime}, zone : 0..1]]
        /\ prov'[p].pc = "zone" /\ prov'[p].zone = prov[p].zone /\ prov'[p].id = prov[p].id
        /\ \A o \in Provisioners \ {p} : prov'[o] = prov[o]
    BY <1>4 DEF IApi, APITypeOK, SeedRuntime
  <2>3. runtimeRows' = runtimeRows \cup {prov[p].id} /\ seeded' = seeded
    BY <1>4 DEF SeedRuntime
  <2>4. IProvision'
    BY <2>1, <2>2, <2>3 DEF IApi, IProvision
  <2>5. APITypeOK'
    BY <1>1, <2>1, <2>2, <2>3 DEF IApi, APITypeOK
  <2> QED
    BY <1>2, <2>4, <2>5 DEF IApi
<1>5. CASE SeedZone(p)
  <2>1. prov[p].id \in RuntimeIds /\ prov[p].zone = 1
    BY <1>5 DEF IApi, IProvision, SeedZone
  <2>2. seeded' = seeded \cup {<<prov[p].id, 1>>} /\ runtimeRows' = runtimeRows
    BY <1>5, <2>1 DEF SeedZone, ZoneName
  <2>3. prov' = [prov EXCEPT ![p] = ProvIdle]
    BY <1>5 DEF SeedZone
  <2>4. seeded' \subseteq RuntimeIds \X (0..1) /\ \A y \in seeded' : y[2] = 1
    BY <2>1, <2>2 DEF IApi, APITypeOK, IProvision
  <2>5. APITypeOK'
    BY <1>1, <2>2, <2>3, <2>4, IdleTypes DEF IApi, APITypeOK
  <2>6. IProvision'
    BY <2>2, <2>3, <2>4, IdleTypes DEF IApi, APITypeOK, IProvision
  <2> QED
    BY <1>2, <2>5, <2>6 DEF IApi
<1>6. CASE ProvisionStops(p)
  <2>1. APITypeOK'
    BY <1>6, IdleTypes DEF IApi, APITypeOK, ProvisionStops
  <2>2. IProvision'
    BY <1>6, IdleTypes DEF IApi, APITypeOK, IProvision, ProvisionStops
  <2> QED
    BY <1>2, <2>1, <2>2 DEF IApi
<1> QED
  BY <1>2, <1>3, <1>4, <1>5, <1>6 DEF IApi

\* A reader shows the status its record has by then.
LEMMA IApiReads ==
  ASSUME IApi, NEW q \in Readers,
         (\E r \in RuntimeIds : ReadGet(q, r) \/ ReadList(q, r)) \/ ReadAnswers(q)
  PROVE  IApi'
<1>1. UNCHANGED <<data, prov, runtimeRows, seeded>>
  BY DEF ReadGet, ReadList, ReadAnswers
<1>2. IProvision'
  BY <1>1 DEF IApi, IProvision
<1>3. ASSUME NEW r \in RuntimeIds, ReadGet(q, r) \/ ReadList(q, r) PROVE IApi'
  <2>1. data[r] # NoRecord /\ reading' = [reading EXCEPT ![q] = r] /\ shown' = shown
    BY <1>3 DEF ReadGet, ReadList, NoRecord
  <2>2. APITypeOK'
    BY <1>1, <2>1 DEF IApi, APITypeOK
  <2>3. IRecords'
    BY <1>1, <2>1 DEF IApi, APITypeOK, IRecords, DestroyedIsFinal
  <2> QED
    BY <1>2, <2>2, <2>3 DEF IApi
<1>4. CASE ReadAnswers(q)
  <2> DEFINE r == reading[q]
  <2>1. r \in RuntimeIds /\ data[r].status \in {"creating", "active", "destroyed"}
    <3>1. r \in RuntimeIds /\ data[r] # NoRecord
      BY <1>4 DEF IApi, APITypeOK, IRecords, ReadAnswers
    <3>2. data[r].status \in {"none", "creating", "active", "destroyed"}
      BY <3>1 DEF IApi, APITypeOK
    <3> QED
      BY <3>1, <3>2 DEF IApi, IRecords
  <2>2. /\ shown' = [shown EXCEPT ![r] = @ \cup {data[r].status}]
        /\ reading' = [reading EXCEPT ![q] = NoRuntime]
    BY <1>4 DEF ReadAnswers
  <2> HIDE DEF r
  <2>3. APITypeOK'
    BY <1>1, <2>1, <2>2 DEF IApi, APITypeOK
  <2>4. IRecords'
    BY <1>1, <2>1, <2>2 DEF IApi, APITypeOK, IRecords, DestroyedIsFinal
  <2> QED
    BY <1>2, <2>3, <2>4 DEF IApi
<1> QED
  BY <1>3, <1>4

\* Every step keeps the invariant; a restart forgets what was shown.
LEMMA IApiNext == IApi /\ [APINext]_apiVars => IApi'
<1> SUFFICES ASSUME IApi, [APINext]_apiVars PROVE IApi'
  OBVIOUS
<1>1. CASE UNCHANGED apiVars
  BY <1>1 DEF IApi, APITypeOK, IProvision, IRecords, DestroyedIsFinal, apiVars
<1>2. CASE ServiceRestarts
  <2>1. APITypeOK'
    BY <1>2, IdleTypes DEF IApi, APITypeOK, ServiceRestarts
  <2>2. IProvision'
    BY <1>2 DEF IApi, IProvision, ServiceRestarts
  <2>3. IRecords'
    BY <1>2 DEF IRecords, DestroyedIsFinal, ServiceRestarts, NoRecord
  <2> QED
    BY <2>1, <2>2, <2>3 DEF IApi
<1> QED
  BY <1>1, <1>2, IApiDestroy, IApiProvision, IApiSeed, IApiReads DEF APINext

\* Provisioning a runtime again, or beside another run, never meets a
\* constraint of the tables, for any number of runs, stops and restarts.
THEOREM ProvisionsAgree == APISpec => []ProvisionAgrees
<1>1. IApi => ProvisionAgrees
  <2> SUFFICES ASSUME IApi, NEW p \in Provisioners, prov[p].pc = "zone", NEW y \in seeded,
                      y[1] = prov[p].id
               PROVE  y = <<prov[p].id, prov[p].zone>>
    BY DEF ProvisionAgrees, ZoneFits, ZoneName, IApi, IProvision
  <2>1. y[2] = 1 /\ prov[p].zone = 1
    BY DEF IApi, IProvision
  <2>2. y \in RuntimeIds \X (0..1)
    BY DEF IApi, APITypeOK
  <2> QED
    BY <2>1, <2>2
<1> QED
  BY <1>1, IApiInit, IApiNext, PTL DEF APISpec

\* A runtime shown as destroyed stays destroyed while the service runs, for any
\* number of runtimes and readers.
THEOREM DestroyedIsForGood == APISpec => []DestroyedIsFinal
<1>1. IApi => DestroyedIsFinal
  BY DEF IApi, IRecords
<1> QED
  BY <1>1, IApiInit, IApiNext, PTL DEF APISpec

\* Runtimes, provisioning and the rows it seeds keep their types.
THEOREM RuntimeTypes == APISpec => []APITypeOK
<1>1. IApi => APITypeOK
  BY DEF IApi
<1> QED
  BY <1>1, IApiInit, IApiNext, PTL DEF APISpec

-----------------------------------------------------------------------------
(***************************************************************************)
(* AnswerIsTrue for any number of calls.  Both chains of interceptors      *)
(* recover, so no call is lost to the panic of another; and a call that    *)
(* was refused or has ended changes no more, so an answer stays true.      *)
(***************************************************************************)

\* A call has an outcome when it is done.
CallType ==
  [method : Methods \cup {"none"},
   phase : {"free", "sent", "accepted", "running", "refused"}, outcome : {"none"}]
    \cup [method : Methods \cup {"none"}, phase : {"done"},
          outcome : {"ok", "error", "panic", "unimplemented", "undecoded"}]

AnswersHold ==
  \A c \in Calls :
    /\ answer[c] = "OK" => calls[c].phase = "done" /\ calls[c].outcome = "ok"
    /\ answer[c] = "Unavailable" => calls[c].phase = "refused"

IRpc ==
  /\ listener \in {"serving", "stopping", "stopped"}
  /\ calls \in [Calls -> CallType]
  /\ answer \in [Calls -> {"waiting", "OK", "Internal", "Unimplemented", "Error", "Unavailable",
                           "Canceled"}]
  /\ AnswersHold

\* Every call runs inside an interceptor that recovers.
LEMMA ChainsRecover == \A m : Recovers(Chain(m))
<1>1. Len(UnaryChain) = 3 /\ UnaryChain[1] = "recovery"
  BY DEF UnaryChain
<1>2. Len(StreamChain) = 2 /\ StreamChain[1] = "recovery"
  BY DEF StreamChain
<1> QED
  BY <1>1, <1>2 DEF Chain, Recovers

\* No call was made.
LEMMA IRpcInit == RpcInit => IRpc
BY DEF RpcInit, IRpc, CallType, NoCall, AnswersHold

\* A call goes on; one that was refused or has ended does not.
LEMMA CallGoesOn ==
  ASSUME IRpc, NEW c \in Calls, calls[c].phase \notin {"done", "refused"}, NEW r \in CallType,
         calls' = [calls EXCEPT ![c] = r], UNCHANGED <<listener, answer>>
  PROVE  IRpc'
<1>1. calls' \in [Calls -> CallType]
  BY DEF IRpc
<1>2. \A k \in Calls \ {c} : calls'[k] = calls[k]
  BY DEF IRpc
<1>3. answer'[c] \notin {"OK", "Unavailable"}
  BY DEF IRpc, AnswersHold
<1>4. AnswersHold'
  BY <1>2, <1>3 DEF IRpc, AnswersHold
<1> QED
  BY <1>1, <1>4 DEF IRpc

\* The steps of the server and the request.
LEMMA IRpcServer ==
  ASSUME IRpc, NEW c \in Calls,
         \/ \E m \in AskedMethods : Request(c, m)
         \/ Accept(c) \/ Refuse(c) \/ Dispatch(c) \/ Return(c)
  PROVE  IRpc'
<1>1. calls \in [Calls -> CallType] /\ calls[c] \in CallType
  BY DEF IRpc
<1>2. ASSUME NEW m \in AskedMethods, Request(c, m) PROVE IRpc'
  <2>1. m \in Methods
    BY <1>2 DEF Request, Registered, Methods, Descs
  <2>2. [method |-> m, phase |-> "sent", outcome |-> "none"] \in CallType
    BY <2>1 DEF CallType
  <2> QED
    BY <1>2, <2>2, CallGoesOn DEF Request
<1>3. ASSUME NEW h \in {"accepted", "refused", "running"},
             calls[c].phase \in {"sent", "accepted"},
             calls' = [calls EXCEPT ![c].phase = h], UNCHANGED <<listener, answer>>
      PROVE  IRpc'
  <2>1. [calls[c] EXCEPT !.phase = h] \in CallType
    BY <1>1, <1>3 DEF CallType
  <2>2. calls' = [calls EXCEPT ![c] = [calls[c] EXCEPT !.phase = h]]
    BY <1>1, <1>3
  <2> QED
    BY <1>3, <2>1, <2>2, CallGoesOn
<1>4. CASE Accept(c)
  BY <1>3, <1>4 DEF Accept
<1>5. CASE Refuse(c)
  BY <1>3, <1>5 DEF Refuse
<1>6. ASSUME NEW o \in {"ok", "error", "panic", "unimplemented", "undecoded"},
             calls[c].phase \in {"accepted", "running"},
             calls' = [calls EXCEPT ![c] =
                         [method |-> calls[c].method, phase |-> "done", outcome |-> o]],
             UNCHANGED <<listener, answer>>
      PROVE  IRpc'
  <2>1. [method |-> calls[c].method, phase |-> "done", outcome |-> o] \in CallType
    BY <1>1 DEF CallType
  <2> QED
    BY <1>6, <2>1, CallGoesOn
<1>7. CASE Dispatch(c)
  BY <1>1, <1>3, <1>6, <1>7 DEF Dispatch
<1>8. CASE Return(c)
  <2>1. PICK o \in Outcomes(calls[c].method) :
          /\ calls' = [calls EXCEPT ![c] =
                         [method |-> calls[c].method, phase |-> "done", outcome |-> o]]
          /\ UNCHANGED listener
    BY <1>8, ChainsRecover DEF Return
  <2>2. o \in {"ok", "error", "panic", "unimplemented", "undecoded"}
    BY <2>1 DEF Outcomes
  <2> QED
    BY <1>6, <1>8, <2>1, <2>2 DEF Return
<1> QED
  BY <1>2, <1>4, <1>5, <1>7, <1>8

\* The stub's answer is the status of a call that was refused or has ended.
LEMMA IRpcReceive == ASSUME IRpc, NEW c \in Calls, Receive(c) PROVE IRpc'
<1>1. calls[c] \in CallType /\ calls[c].phase \in {"refused", "done"}
  BY DEF IRpc, Receive, CallType
<1>2. /\ StatusOf(c) \in {"OK", "Internal", "Unimplemented", "Error", "Unavailable"}
      /\ StatusOf(c) = "OK" => calls[c].phase = "done" /\ calls[c].outcome = "ok"
      /\ StatusOf(c) = "Unavailable" => calls[c].phase = "refused"
  <2>1. CASE calls[c].phase = "refused"
    <3>1. calls[c].outcome = "none"
      BY <1>1, <2>1 DEF CallType
    <3>2. StatusOf(c) = "Unavailable"
      BY <2>1, <3>1 DEF StatusOf
    <3> QED
      BY <2>1, <3>2
  <2>2. CASE calls[c].phase = "done"
    BY <2>2 DEF StatusOf, Recovered
  <2> QED
    BY <1>1, <2>1, <2>2
<1>3. answer' = [answer EXCEPT ![c] = StatusOf(c)] /\ UNCHANGED <<listener, hosted, calls>>
  BY DEF Receive
<1> QED
  BY <1>2, <1>3 DEF IRpc, AnswersHold

\* Every step keeps the invariant.
LEMMA IRpcNext == IRpc /\ [RpcNext]_rpcVars => IRpc'
<1> SUFFICES ASSUME IRpc, [RpcNext]_rpcVars PROVE IRpc'
  OBVIOUS
<1>1. CASE UNCHANGED rpcVars
  BY <1>1 DEF IRpc, AnswersHold, rpcVars
<1>2. ASSUME NEW c \in Calls, GiveUp(c) PROVE IRpc'
  BY <1>2 DEF IRpc, AnswersHold, GiveUp
<1>3. CASE GracefulStop \/ StopReturns
  BY <1>3 DEF IRpc, AnswersHold, GracefulStop, StopReturns
<1> QED
  BY <1>1, <1>2, <1>3, IRpcServer, IRpcReceive DEF RpcNext

\* The status of a call tells what became of it, for any number of calls,
\* panics and methods.
THEOREM AnswersAreTrue == RpcSpec => []AnswerIsTrue
<1>1. IRpc => AnswerIsTrue
  BY DEF IRpc, AnswersHold, AnswerIsTrue
<1> QED
  BY <1>1, IRpcInit, IRpcNext, PTL DEF RpcSpec

\* Whatever panics, RecoveryInterceptor and RecoveryStreamInterceptor keep the
\* server alive and no other call is lost; the state keeps its types.
THEOREM NoPanicEndsTheServer ==
  RpcSpec => [](RpcTypeOK /\ listener # "dead" /\ \A c \in Calls : calls[c].phase # "lost")
<1> DEFINE Hosted == hosted \in {"room-service", "game-server"}
<1>1. RpcInit => Hosted
  BY DEF RpcInit
<1>2. Hosted /\ [RpcNext]_rpcVars => Hosted'
  BY DEF RpcNext, Request, Accept, Refuse, Dispatch, Return, Receive, GiveUp, GracefulStop,
         StopReturns, rpcVars
<1>3. IRpc /\ Hosted =>
        RpcTypeOK /\ listener # "dead" /\ \A c \in Calls : calls[c].phase # "lost"
  <2> SUFFICES ASSUME IRpc, Hosted
               PROVE  /\ RpcTypeOK /\ listener # "dead"
                      /\ \A c \in Calls : calls[c].phase # "lost"
    OBVIOUS
  <2> DEFINE Call == [method : Methods \cup {"none"},
                      phase : {"free", "sent", "accepted", "running", "done", "refused", "lost"},
                      outcome : {"none", "ok", "error", "panic", "unimplemented", "undecoded"}]
  <2>1. \A r \in CallType : r \in Call /\ r.phase # "lost"
    BY DEF CallType
  <2>2. calls \in [Calls -> Call] /\ \A c \in Calls : calls[c].phase # "lost"
    BY <2>1 DEF IRpc
  <2> QED
    BY <2>2 DEF IRpc, RpcTypeOK
<1> QED
  BY <1>1, <1>2, <1>3, IRpcInit, IRpcNext, PTL DEF RpcSpec

-----------------------------------------------------------------------------
(***************************************************************************)
(* SchemaBeforeService for any number of migrations, outages and kills.    *)
(* It needs where each main can be, and that only a program at its         *)
(* migrations holds the lock: a schema that is complete is changed by no   *)
(* one, and nobody gets past the migrations before it is.                  *)
(***************************************************************************)

Whole == [version |-> LatestVersion, dirty |-> FALSE]

\* The room service has migrated, or a game server has, or has registered.
Migrated ==
  \/ at["room-service"] \in {"listen", "serve"}
  \/ at["game-server"] = "serve"
  \/ registered

IStart ==
  /\ at \in [Programs -> {"down", "config", "register", "postgres", "redis", "migrate",
                          "listen", "serve", "stopping", "gone"}]
  /\ at["room-service"] # "register" /\ at["game-server"] # "redis"
  /\ at["gateway"] \notin {"register", "postgres", "redis", "migrate", "listen"}
  /\ schema \in [version : 0 .. LatestVersion, dirty : BOOLEAN]
  /\ locker \in Programs \cup {"none"}
  /\ locker # "none" => at[locker] = "migrate"
  /\ registered \in BOOLEAN
  /\ Migrated => schema = Whole

\* The place of a step in a list of different steps.
LEMMA PlaceOfStep ==
  ASSUME NEW steps, NEW n \in Nat, NEW j \in 1 .. n,
         \A i \in 1 .. n : steps[i] = steps[j] => i = j
  PROVE  (CHOOSE i \in 1 .. n : steps[i] = steps[j]) = j
OBVIOUS

\* Where a main goes after the step it is at.
LEMMA NextStep ==
  ASSUME IStart, NEW p \in Programs, Passes(p)
  PROVE  /\ at[p] = "config" => at' = [at EXCEPT ![p] =
              CASE p = "room-service" -> "postgres" [] p = "game-server" -> "register"
                [] OTHER -> "serve"]
         /\ at[p] = "register" /\ p = "game-server" => at' = [at EXCEPT ![p] = "listen"]
         /\ at[p] = "postgres" /\ p # "gateway" => at' = [at EXCEPT ![p] =
              IF p = "room-service" THEN "redis" ELSE "migrate"]
         /\ at[p] = "redis" /\ p = "room-service" => at' = [at EXCEPT ![p] = "migrate"]
         /\ at[p] = "migrate" /\ p # "gateway" => at' = [at EXCEPT ![p] =
              IF p = "room-service" THEN "listen" ELSE "serve"]
         /\ at[p] = "listen" /\ p # "gateway" => at' = [at EXCEPT ![p] =
              IF p = "room-service" THEN "serve" ELSE "postgres"]
<1> DEFINE steps == MainSteps(p)
<1>1. ASSUME NEW j \in 1 .. Len(steps), Len(steps) \in Nat, at[p] = steps[j],
             \A i \in 1 .. Len(steps) : steps[i] = steps[j] => i = j
      PROVE  at' = [at EXCEPT ![p] = steps[j + 1]]
  <2>1. (CHOOSE i \in 1 .. Len(steps) : steps[i] = at[p]) = j
    BY <1>1, PlaceOfStep
  <2> QED
    BY <2>1 DEF Passes, IStart
<1>2. CASE p = "room-service"
  <2>1. steps = <<"config", "postgres", "redis", "migrate", "listen", "serve">>
    BY <1>2 DEF MainSteps
  <2>2. /\ Len(steps) = 6
        /\ steps[1] = "config" /\ steps[2] = "postgres" /\ steps[3] = "redis"
        /\ steps[4] = "migrate" /\ steps[5] = "listen" /\ steps[6] = "serve"
    BY <2>1
  <2> HIDE DEF steps
  <2>3. \A j, i \in 1 .. 6 : steps[i] = steps[j] => i = j
    BY <2>2
  <2> QED
    BY <1>1, <1>2, <2>2, <2>3
<1>3. CASE p = "game-server"
  <2>1. steps = <<"config", "register", "listen", "postgres", "migrate", "serve">>
    BY <1>3 DEF MainSteps
  <2>2. /\ Len(steps) = 6
        /\ steps[1] = "config" /\ steps[2] = "register" /\ steps[3] = "listen"
        /\ steps[4] = "postgres" /\ steps[5] = "migrate" /\ steps[6] = "serve"
    BY <2>1
  <2> HIDE DEF steps
  <2>3. \A j, i \in 1 .. 6 : steps[i] = steps[j] => i = j
    BY <2>2
  <2> QED
    BY <1>1, <1>3, <2>2, <2>3
<1>4. CASE p = "gateway"
  <2>1. steps = <<"config", "serve">>
    BY <1>4 DEF MainSteps
  <2>2. Len(steps) = 2 /\ steps[1] = "config" /\ steps[2] = "serve"
    BY <2>1
  <2> HIDE DEF steps
  <2>3. \A j, i \in 1 .. 2 : steps[i] = steps[j] => i = j
    BY <2>2
  <2> QED
    BY <1>1, <1>4, <2>2, <2>3
<1> QED
  BY <1>2, <1>3, <1>4 DEF Programs

\* A main goes to step v: past the migrations only when the schema is whole.
LEMMA MainMoves ==
  ASSUME IStart, NEW p \in Programs,
         NEW v \in {"down", "config", "register", "postgres", "redis", "migrate",
                    "listen", "serve", "stopping", "gone"},
         at' = [at EXCEPT ![p] = v],
         p = "room-service" => v # "register",
         p = "game-server" => v # "redis",
         p = "gateway" => v \notin {"register", "postgres", "redis", "migrate", "listen"},
         UNCHANGED schema,
         locker' \in {locker, "none"}, locker' = p => v = "migrate",
         registered' \in BOOLEAN, registered' => schema = Whole,
         p = "room-service" /\ v \in {"listen", "serve"} => schema = Whole,
         p = "game-server" /\ v = "serve" => schema = Whole
  PROVE  IStart'
<1>1. /\ at' \in [Programs -> {"down", "config", "register", "postgres", "redis", "migrate",
                               "listen", "serve", "stopping", "gone"}]
      /\ at'[p] = v /\ \A q \in Programs \ {p} : at'[q] = at[q]
      /\ "room-service" \in Programs /\ "game-server" \in Programs /\ "gateway" \in Programs
  BY DEF IStart, Programs
<1>2. Migrated' => schema' = Whole
  BY <1>1 DEF IStart, Migrated
<1>3. locker' # "none" => at'[locker'] = "migrate"
  BY <1>1 DEF IStart
<1>4. /\ at'["room-service"] # "register" /\ at'["game-server"] # "redis"
      /\ at'["gateway"] \notin {"register", "postgres", "redis", "migrate", "listen"}
  BY <1>1 DEF IStart
<1> QED
  BY <1>1, <1>2, <1>3, <1>4 DEF IStart

\* Only a program at its migrations holds their lock.
LEMMA LockerMigrates ==
  ASSUME IStart, NEW p \in Programs, locker = p
  PROVE  at[p] = "migrate" /\ p # "gateway"
BY DEF IStart, Programs

\* The steps of a main that have nothing to do with the schema.
LEMMA PlainSteps ==
  ASSUME IStart, NEW p \in Programs,
         \/ Launch(p) \/ LoadConfig(p) \/ OpenPostgres(p) \/ OpenRedis(p) \/ Listen(p)
         \/ StopsEnd(p) \/ Stops(p) \/ Killed(p) \/ Withdrawn(p)
  PROVE  IStart'
<1>1. registered => schema = Whole
  BY DEF IStart, Migrated
<1>2. registered \in BOOLEAN /\ (locker = p => at[p] = "migrate" /\ p # "gateway")
  BY LockerMigrates DEF IStart
<1>3. CASE Launch(p)
  <2>1. registered' \in BOOLEAN /\ (registered' => registered)
    BY <1>2, <1>3 DEF Launch
  <2> QED
    BY <1>1, <1>2, <1>3, <2>1, MainMoves DEF Launch
<1>4. CASE LoadConfig(p)
  <2>1. at' = [at EXCEPT ![p] = CASE p = "room-service" -> "postgres"
                                  [] p = "game-server" -> "register" [] OTHER -> "serve"]
    BY <1>4, NextStep DEF LoadConfig
  <2>2. UNCHANGED <<schema, locker, registered>> /\ at[p] = "config"
    BY <1>4 DEF LoadConfig
  <2>3. CASE p = "room-service"
    BY <1>1, <1>2, <2>1, <2>2, <2>3, MainMoves
  <2>4. CASE p = "game-server"
    BY <1>1, <1>2, <2>1, <2>2, <2>4, MainMoves
  <2>5. CASE p = "gateway"
    BY <1>1, <1>2, <2>1, <2>2, <2>5, MainMoves
  <2> QED
    BY <2>3, <2>4, <2>5 DEF Programs
<1>5. CASE OpenPostgres(p)
  <2>1. UNCHANGED <<schema, locker, registered>> /\ at[p] = "postgres" /\ p # "gateway"
    BY <1>5 DEF OpenPostgres, IStart
  <2>2. CASE Exits(p)
    BY <1>1, <1>2, <2>1, <2>2, MainMoves DEF Exits
  <2>3. CASE Passes(p)
    <3>1. at' = [at EXCEPT ![p] = IF p = "room-service" THEN "redis" ELSE "migrate"]
      BY <2>1, <2>3, NextStep
    <3> QED
      BY <1>1, <1>2, <2>1, <3>1, MainMoves
  <2> QED
    BY <1>5, <2>2, <2>3 DEF OpenPostgres
<1>6. CASE OpenRedis(p)
  <2>1. UNCHANGED <<schema, locker, registered>> /\ at[p] = "redis" /\ p = "room-service"
    BY <1>6 DEF OpenRedis, IStart, Programs
  <2>2. CASE Exits(p)
    BY <1>1, <1>2, <2>1, <2>2, MainMoves DEF Exits
  <2>3. CASE Passes(p)
    <3>1. at' = [at EXCEPT ![p] = "migrate"]
      BY <2>1, <2>3, NextStep
    <3> QED
      BY <1>1, <1>2, <2>1, <3>1, MainMoves
  <2> QED
    BY <1>6, <2>2, <2>3 DEF OpenRedis
<1>7. CASE Listen(p)
  <2>1. UNCHANGED <<schema, locker, registered>> /\ at[p] = "listen" /\ p # "gateway"
    BY <1>7 DEF Listen, IStart
  <2>2. at' = [at EXCEPT ![p] = IF p = "room-service" THEN "serve" ELSE "postgres"]
    BY <1>7, <2>1, NextStep DEF Listen
  <2>3. p = "room-service" => schema = Whole
    BY <2>1 DEF IStart, Migrated
  <2> QED
    BY <1>1, <1>2, <2>1, <2>2, <2>3, MainMoves
<1>8. CASE StopsEnd(p) \/ Stops(p) \/ Withdrawn(p)
  <2>1. /\ UNCHANGED <<schema, locker, registered>> /\ at[p] # "migrate"
        /\ \E v \in {"down", "stopping", "gone"} : at' = [at EXCEPT ![p] = v]
    BY <1>8 DEF StopsEnd, Stops, Withdrawn, Exits, Serving
  <2> QED
    BY <1>1, <1>2, <2>1, MainMoves
<1>9. CASE Killed(p)
  <2>1. /\ UNCHANGED <<schema, registered>> /\ at' = [at EXCEPT ![p] = "down"]
        /\ locker' \in {locker, "none"} /\ locker' # p
    BY <1>9 DEF Killed, Exits, Programs
  <2> QED
    BY <1>1, <1>2, <2>1, MainMoves
<1> QED
  BY <1>3, <1>4, <1>5, <1>6, <1>7, <1>8, <1>9

\* The migrations: who holds the lock changes a schema that is not whole, and
\* goes on when it is.
LEMMA MigrationSteps ==
  ASSUME IStart, NEW p \in Programs, MigrateBegins(p) \/ MigrateVersion(p) \/ MigrateEnds(p)
  PROVE  IStart'
<1>1. registered \in BOOLEAN /\ (registered => schema = Whole)
  BY DEF IStart, Migrated
<1>2. ASSUME Passes(p), at[p] = "migrate", schema = Whole, UNCHANGED <<schema, registered>>,
             locker' \in {locker, "none"}, locker' # p
      PROVE  IStart'
  <2>1. p # "gateway"
    BY <1>2 DEF IStart
  <2>2. at' = [at EXCEPT ![p] = IF p = "room-service" THEN "listen" ELSE "serve"]
    BY <1>2, <2>1, NextStep
  <2> QED
    BY <1>1, <1>2, <2>1, <2>2, MainMoves
<1>3. ASSUME Exits(p), UNCHANGED <<schema, registered>>, locker' \in {locker, "none"}, locker' # p
      PROVE  IStart'
  BY <1>1, <1>3, MainMoves DEF Exits
<1>4. CASE MigrateBegins(p)
  <2>1. /\ at[p] = "migrate" /\ locker # p /\ UNCHANGED <<schema, registered>>
        /\ \/ Exits(p) /\ UNCHANGED locker
           \/ /\ schema.version < LatestVersion
              /\ locker' = p /\ UNCHANGED at
           \/ /\ ~ (schema.version < LatestVersion) /\ ~ schema.dirty
              /\ Passes(p) /\ UNCHANGED locker
    BY <1>4 DEF MigrateBegins, NoChange
  <2>2. CASE Exits(p) /\ UNCHANGED locker
    BY <1>3, <2>1, <2>2
  <2>3. CASE locker' = p /\ UNCHANGED at
    BY <2>1, <2>3 DEF IStart, Migrated, Programs
  <2>4. CASE /\ ~ (schema.version < LatestVersion) /\ ~ schema.dirty
             /\ Passes(p) /\ UNCHANGED locker
    <3>1. schema = Whole
      BY <2>4, StartupAssumption DEF IStart, Whole
    <3> QED
      BY <1>2, <2>1, <2>4, <3>1
  <2> QED
    BY <2>1, <2>2, <2>3, <2>4
<1>5. CASE MigrateVersion(p)
  <2>1. UNCHANGED <<at, locker, registered>>
    BY <1>5 DEF MigrateVersion
  <2>2. schema # Whole
    BY <1>5, StartupAssumption DEF MigrateVersion, Whole
  <2>3. schema' \in [version : 0 .. LatestVersion, dirty : BOOLEAN]
    <3>1. schema \in [version : 0 .. LatestVersion, dirty : BOOLEAN]
      BY DEF IStart
    <3>2. CASE schema.dirty
      BY <1>5, <3>1, <3>2 DEF MigrateVersion
    <3>3. CASE ~ schema.dirty
      <4>1. schema' = [version |-> schema.version + 1, dirty |-> TRUE]
        BY <1>5, <3>3 DEF MigrateVersion
      <4>2. schema.version + 1 \in 0 .. LatestVersion
        BY <1>5, <3>1, <3>3, StartupAssumption DEF MigrateVersion
      <4> QED
        BY <4>1, <4>2
    <3> QED
      BY <3>2, <3>3
  <2> QED
    BY <2>1, <2>2, <2>3 DEF IStart, Migrated
<1>6. CASE MigrateEnds(p)
  <2>1. at[p] = "migrate" /\ locker' = "none" /\ UNCHANGED <<schema, registered>> /\ p # "none"
    BY <1>6, LockerMigrates DEF MigrateEnds, Programs
  <2>2. Exits(p) \/ (Passes(p) /\ schema = Whole)
    BY <1>6 DEF MigrateEnds, Whole
  <2> QED
    BY <1>2, <1>3, <2>1, <2>2
<1> QED
  BY <1>4, <1>5, <1>6

\* A registration goes through a room service that serves.
LEMMA RegistrationStep == ASSUME IStart, RegisterNode PROVE IStart'
<1>1. /\ "game-server" \in Programs /\ at["game-server"] = "register"
      /\ UNCHANGED <<schema, locker>>
  BY DEF RegisterNode, Programs
<1>2. locker # "game-server" /\ registered \in BOOLEAN /\ (registered => schema = Whole)
  BY <1>1, LockerMigrates DEF IStart, Migrated
<1>3. CASE Exits("game-server") /\ UNCHANGED registered
  BY <1>1, <1>2, <1>3, MainMoves DEF Exits
<1>4. CASE Serving("room-service") /\ Passes("game-server") /\ registered' = TRUE
  <2>1. schema = Whole
    BY <1>4 DEF IStart, Migrated, Serving
  <2>2. at' = [at EXCEPT !["game-server"] = "listen"]
    BY <1>1, <1>4, NextStep
  <2> QED
    BY <1>1, <1>2, <1>4, <2>1, <2>2, MainMoves
<1> QED
  BY <1>3, <1>4 DEF RegisterNode

\* Every step keeps the invariant.
LEMMA IStartNext == IStart /\ [StartupNext]_startVars => IStart'
<1> SUFFICES ASSUME IStart, [StartupNext]_startVars PROVE IStart'
  OBVIOUS
<1>1. ASSUME UNCHANGED <<at, schema, locker, registered>> PROVE IStart'
  BY <1>1 DEF IStart, Migrated
<1>2. CASE UNCHANGED startVars
  BY <1>1, <1>2 DEF startVars
<1>3. ASSUME NEW d \in Stores, StoreUp(d) \/ StoreDown(d) PROVE IStart'
  BY <1>1, <1>3 DEF StoreUp, StoreDown
<1>4. CASE CheckReady
  BY <1>1, <1>4 DEF CheckReady
<1>5. ASSUME NEW p \in Programs, StartupStep(p) \/ Stops(p) \/ Killed(p) \/ Withdrawn(p)
      PROVE  IStart'
  BY <1>5, PlainSteps, MigrationSteps, RegistrationStep DEF StartupStep
<1> QED
  BY <1>2, <1>3, <1>4, <1>5 DEF StartupNext

\* Nothing runs, and the schema is empty.
LEMMA IStartInit == StartupInit => IStart
<1> SUFFICES ASSUME StartupInit PROVE IStart
  OBVIOUS
<1>1. \A p \in Programs : at[p] = "down"
  BY DEF StartupInit
<1>2. at["room-service"] = "down" /\ at["game-server"] = "down" /\ at["gateway"] = "down"
  BY <1>1 DEF Programs
<1>3. at \in [Programs -> {"down", "config", "register", "postgres", "redis", "migrate",
                          "listen", "serve", "stopping", "gone"}]
  BY DEF StartupInit
<1>4. schema \in [version : 0 .. LatestVersion, dirty : BOOLEAN]
  BY StartupAssumption DEF StartupInit
<1>5. registered = FALSE /\ locker = "none"
  BY DEF StartupInit
<1> QED
  BY <1>2, <1>3, <1>4, <1>5 DEF IStart, Migrated

\* Whoever serves or is registered finds the whole schema, for any number of
\* migrations, of outages of the stores and of processes killed.
THEOREM SchemaIsWhole == StartupSpec => []SchemaBeforeService
<1>1. IStart => SchemaBeforeService
  BY DEF IStart, Migrated, SchemaBeforeService, Serving, Whole
<1> QED
  BY <1>1, IStartInit, IStartNext, PTL DEF StartupSpec

\* The rest of Startup's state, and what a migration under way may rely on.
Counts == outages \in 0 .. MaxOutages /\ kills \in 0 .. MaxKills

IDirty ==
  /\ StartupTypeOK
  /\ locker # "none" => "postgres" \in stores \/ outages > 0
  /\ DirtyMeansInterrupted

\* Nothing has happened.
LEMMA IDirtyInit == StartupInit => IDirty
<1> SUFFICES ASSUME StartupInit PROVE IDirty
  OBVIOUS
<1>1. StartupTypeOK
  <2>1. IStart
    BY IStartInit
  <2>2. stores \subseteq Stores /\ ready \in BOOLEAN
    BY DEF StartupInit
  <2>3. outages \in 0 .. MaxOutages /\ kills \in 0 .. MaxKills
    BY StartupAssumption DEF StartupInit
  <2> QED
    BY <2>1, <2>2, <2>3 DEF IStart, StartupTypeOK
<1> QED
  BY <1>1 DEF StartupInit, IDirty, DirtyMeansInterrupted

\* The bounds on outages and kills, and the types IStart leaves out.
LEMMA RestOfTypes ==
  ASSUME StartupTypeOK, [StartupNext]_startVars
  PROVE  /\ stores' \subseteq Stores /\ ready' \in BOOLEAN
         /\ Counts' /\ outages' >= outages /\ kills' >= kills
<1>1. /\ stores \subseteq Stores /\ ready \in BOOLEAN /\ Counts
      /\ outages \in Nat /\ kills \in Nat /\ MaxOutages \in Nat /\ MaxKills \in Nat
  BY StartupAssumption DEF StartupTypeOK, Counts
<1>2. ASSUME NEW p \in Programs, StartupStep(p) PROVE UNCHANGED <<stores, outages, kills>>
  BY <1>2 DEF StartupStep, Launch, LoadConfig, OpenPostgres, OpenRedis, Listen, MigrateBegins,
              MigrateVersion, MigrateEnds, StopsEnd, RegisterNode
<1>3. ASSUME NEW p \in Programs, StartupStep(p) PROVE ready' \in BOOLEAN
  BY <1>1, <1>3 DEF StartupStep, Launch, LoadConfig, OpenPostgres, OpenRedis, Listen,
              MigrateBegins, MigrateVersion, MigrateEnds, StopsEnd, RegisterNode
<1>4. ASSUME NEW p \in Programs, Stops(p) \/ Killed(p) \/ Withdrawn(p)
      PROVE  /\ UNCHANGED <<stores, outages>> /\ ready' \in BOOLEAN
             /\ kills < MaxKills /\ kills' = kills + 1
  BY <1>1, <1>4 DEF Stops, Killed, Withdrawn
<1>5. ASSUME NEW d \in Stores, StoreUp(d) \/ StoreDown(d)
      PROVE  /\ stores' \subseteq Stores /\ UNCHANGED <<ready, kills>>
             /\ outages' = outages \/ (outages < MaxOutages /\ outages' = outages + 1)
  BY <1>1, <1>5 DEF StoreUp, StoreDown
<1>6. CASE CheckReady
  BY <1>1, <1>6 DEF CheckReady, ReadyAnswer, Serving, Counts
<1>7. CASE UNCHANGED startVars
  BY <1>1, <1>7 DEF startVars, Counts
<1>8. ASSUME NEW p \in Programs, StartupStep(p)
      PROVE  Counts' /\ outages' >= outages /\ kills' >= kills
  BY <1>1, <1>2, <1>8 DEF Counts
<1>9. ASSUME NEW p \in Programs, Stops(p) \/ Killed(p) \/ Withdrawn(p)
      PROVE  Counts' /\ outages' >= outages /\ kills' >= kills
  BY <1>1, <1>4, <1>9 DEF Counts
<1>10. ASSUME NEW d \in Stores, StoreUp(d) \/ StoreDown(d)
       PROVE  Counts' /\ outages' >= outages /\ kills' >= kills
  BY <1>1, <1>5, <1>10 DEF Counts
<1> QED
  BY <1>1, <1>2, <1>3, <1>4, <1>5, <1>6, <1>7, <1>8, <1>9, <1>10 DEF StartupNext

\* What may happen to the lock and the schema in one step: the lock is taken
\* while the database answers, is lost with its process or the database, or is
\* given back with a clean schema.
LEMMA LockSteps ==
  ASSUME IStart, StartupTypeOK, [StartupNext]_startVars
  PROVE  \/ UNCHANGED <<schema, locker>>
         \/ locker' # "none" /\ locker' = locker
         \/ locker' # "none" /\ "postgres" \in stores /\ UNCHANGED <<schema, stores>>
         \/ locker' = "none" /\ kills' > 0
         \/ locker' = "none" /\ locker # "none" /\ "postgres" \notin stores /\ UNCHANGED schema
         \/ locker' = "none" /\ ~ schema.dirty /\ UNCHANGED schema
<1>1. "none" \notin Programs /\ kills \in Nat
  BY StartupAssumption DEF Programs, StartupTypeOK
<1>2. ASSUME NEW p \in Programs, MigrateBegins(p)
      PROVE  \/ UNCHANGED <<schema, locker>>
             \/ locker' # "none" /\ "postgres" \in stores /\ UNCHANGED <<schema, stores>>
  BY <1>1, <1>2 DEF MigrateBegins
<1>3. ASSUME NEW p \in Programs, MigrateVersion(p) PROVE locker' # "none" /\ locker' = locker
  BY <1>1, <1>3 DEF MigrateVersion
<1>4. ASSUME NEW p \in Programs, MigrateEnds(p)
      PROVE  \/ locker' = "none" /\ locker # "none" /\ "postgres" \notin stores /\ UNCHANGED schema
             \/ locker' = "none" /\ ~ schema.dirty /\ UNCHANGED schema
  BY <1>1, <1>4 DEF MigrateEnds
<1>5. ASSUME NEW p \in Programs, Killed(p)
      PROVE  \/ UNCHANGED <<schema, locker>>
             \/ locker' = "none" /\ kills' > 0
  BY <1>1, <1>5 DEF Killed
<1>6. ASSUME NEW p \in Programs,
             \/ Launch(p) \/ LoadConfig(p) \/ OpenPostgres(p) \/ OpenRedis(p) \/ Listen(p)
             \/ StopsEnd(p) \/ Stops(p) \/ Withdrawn(p) \/ RegisterNode
      PROVE  UNCHANGED <<schema, locker>>
  BY <1>6 DEF Launch, LoadConfig, OpenPostgres, OpenRedis, Listen, StopsEnd, Stops, Withdrawn,
              RegisterNode
<1>7. CASE CheckReady \/ UNCHANGED startVars \/ \E d \in Stores : StoreUp(d) \/ StoreDown(d)
  BY <1>7 DEF CheckReady, startVars, StoreUp, StoreDown
<1> QED
  BY <1>2, <1>3, <1>4, <1>5, <1>6, <1>7 DEF StartupNext, StartupStep

\* Every step keeps the invariant.
LEMMA IDirtyNext == IStart /\ IDirty /\ [StartupNext]_startVars => IDirty'
<1> SUFFICES ASSUME IStart, IDirty, [StartupNext]_startVars PROVE IDirty'
  OBVIOUS
<1>1. IStart' /\ StartupTypeOK
  BY IStartNext DEF IDirty
<1>2. /\ stores' \subseteq Stores /\ ready' \in BOOLEAN
      /\ Counts' /\ outages' >= outages /\ kills' >= kills
  BY <1>1, RestOfTypes
<1>3. StartupTypeOK'
  BY <1>1, <1>2 DEF IStart, StartupTypeOK, Counts
<1>4. outages \in Nat /\ kills \in Nat /\ outages' \in Nat /\ kills' \in Nat
  BY <1>1, <1>3, StartupAssumption DEF StartupTypeOK
<1>5. "postgres" \in stores /\ "postgres" \notin stores' => outages' > 0
  <2>1. UNCHANGED stores \/ \E d \in Stores : StoreUp(d) \/ StoreDown(d)
    BY DEF StartupNext, StartupStep, Launch, LoadConfig, OpenPostgres, OpenRedis, Listen,
           MigrateBegins, MigrateVersion, MigrateEnds, StopsEnd, RegisterNode, Stops, Killed,
           Withdrawn, CheckReady, startVars
  <2> QED
    BY <1>4, <2>1 DEF StoreUp, StoreDown
<1>6. locker' # "none" => "postgres" \in stores' \/ outages' > 0
  BY <1>1, <1>2, <1>4, <1>5, LockSteps DEF IDirty
<1>7. (outages > 0 => outages' > 0) /\ (kills > 0 => kills' > 0)
  BY <1>2, <1>4
<1>8. DirtyMeansInterrupted'
  <2>1. CASE UNCHANGED <<schema, locker>>
    BY <1>7, <2>1 DEF IDirty, DirtyMeansInterrupted
  <2>2. CASE locker' = "none" /\ kills' > 0
    BY <2>2 DEF DirtyMeansInterrupted
  <2>3. CASE locker # "none" /\ "postgres" \notin stores
    BY <1>7, <2>3 DEF IDirty, DirtyMeansInterrupted
  <2>4. CASE ~ schema.dirty /\ UNCHANGED schema
    BY <2>4 DEF DirtyMeansInterrupted
  <2>5. CASE locker' # "none"
    BY <2>5 DEF DirtyMeansInterrupted
  <2> QED
    BY <1>1, <2>1, <2>2, <2>3, <2>4, <2>5, LockSteps
<1> QED
  BY <1>3, <1>6, <1>8 DEF IDirty

\* Startup's state keeps its types for any number of migrations, outages and
\* kills, and a version is left dirty only by one of the last two.
THEOREM DirtyIsInterrupted == StartupSpec => [](StartupTypeOK /\ DirtyMeansInterrupted)
<1>1. IDirty => StartupTypeOK /\ DirtyMeansInterrupted
  BY DEF IDirty
<1> QED
  BY <1>1, IStartInit, IStartNext, IDirtyInit, IDirtyNext, PTL DEF StartupSpec

-----------------------------------------------------------------------------
(* A restarted process.  The rows of zone_state are all of the zone that    *)
(* ticks save, and no process looks for that one.                           *)

Rows == [zone : {DefaultZone},
         npcs : SUBSET [id : Nat \X NPCSpecs, spec : NPCSpecs, tuned : {TRUE}]]

IProc ==
  /\ run \in Nat
  /\ zoneState \in Seq(Rows)
  /\ RestartStartsOver

\* main's next step, up to recovery, is neither "ready" nor a later one.
LEMMA AdvanceIsEarly == ASSUME Advance PROVE stage' \notin {"ready", "serve"}
<1>1. ASSUME NEW i \in 1 .. 5, stage = Steps[i] PROVE stage' = Steps[i + 1]
  <2>1. Len(Steps) = 7 /\ i \in 1 .. 7
    BY DEF Steps
  <2>2. \A j \in 1 .. 7 : Steps[j] = stage => j = i
    BY <1>1 DEF Steps
  <2>3. StepOf(stage) = i
    BY <1>1, <2>1, <2>2 DEF StepOf
  <2> QED
    BY <2>3 DEF Advance
<1>2. \E i \in 1 .. 5 : stage = Steps[i]
  <2>1. /\ Steps[1] = "config" /\ Steps[2] = "register" /\ Steps[3] = "listen"
        /\ Steps[4] = "postgres" /\ Steps[5] = "migrate"
    BY DEF Steps
  <2> QED
    BY <2>1 DEF Advance
<1>3. \A i \in 1 .. 5 : Steps[i + 1] \notin {"ready", "serve"}
  BY DEF Steps
<1> QED
  BY <1>1, <1>2, <1>3

\* The NPCs of the configuration, as a row has them.
LEMMA SeedType ==
  ASSUME run \in Nat
  PROVE  SeedNPCs \in SUBSET [id : Nat \X NPCSpecs, spec : NPCSpecs, tuned : {TRUE}]
<1>1. ASSUME NEW s \in NPCSpecs
      PROVE  [id |-> <<run, s>>, spec |-> s, tuned |-> TRUE]
               \in [id : Nat \X NPCSpecs, spec : NPCSpecs, tuned : {TRUE}]
  <2>1. <<run, s>> \in Nat \X NPCSpecs
    OBVIOUS
  <2> QED
    BY <2>1
<1> QED
  BY <1>1 DEF SeedNPCs

\* Recovery finds no row.
LEMMA NothingToRecover == ASSUME IProc PROVE Latest(RecoveryZone) = {}
<1>1. ASSUME NEW i \in 1 .. Len(zoneState) PROVE zoneState[i].zone # RecoveryZone
  <2>1. zoneState[i] \in Rows
    BY DEF IProc
  <2>2. zoneState[i].zone = DefaultZone
    BY <2>1 DEF Rows
  <2>3. DefaultZone[2] = "default" /\ RecoveryZone[2] = "z1"
    BY DEF DefaultZone, RecoveryZone
  <2> QED
    BY <2>2, <2>3
<1> QED
  BY <1>1 DEF Latest

\* Nothing runs and nothing is saved.
LEMMA IProcInit == ProcessInit => IProc
BY DEF ProcessInit, IProc, RestartStartsOver

\* The invariant is inductive.
LEMMA IProcNext == IProc /\ [ProcessNext]_processVars => IProc'
<1> SUFFICES ASSUME IProc, [ProcessNext]_processVars PROVE IProc'
  OBVIOUS
<1>1. CASE Start \/ ProcessExits \/ Stop \/ Stopped
  BY <1>1 DEF Start, ProcessExits, Stop, Stopped, IProc, RestartStartsOver
<1>2. CASE Advance
  <2>1. UNCHANGED <<run, zoneState>>
    BY <1>2 DEF Advance
  <2> QED
    BY <1>2, <2>1, AdvanceIsEarly DEF IProc, RestartStartsOver
<1>3. CASE Recover
  BY <1>3, NothingToRecover DEF Recover, IProc, RestartStartsOver, SeedNPCs
<1>4. CASE ProcessTick
  <2>1. UNCHANGED <<run, stage, npcs>> /\ stage = "serve"
    BY <1>4 DEF ProcessTick
  <2>2. \/ zoneState' = zoneState
        \/ zoneState' = Append(zoneState, [zone |-> DefaultZone, npcs |-> npcs])
    BY <1>4 DEF ProcessTick, Save
  <2> DEFINE saved == [zone |-> DefaultZone, npcs |-> npcs]
  <2>3. saved \in Rows
    BY <2>1, SeedType DEF Rows, IProc, RestartStartsOver
  <2>4. zoneState' \in Seq(Rows)
    BY <2>2, <2>3 DEF IProc
  <2> QED
    BY <2>1, <2>4 DEF IProc, RestartStartsOver, SeedNPCs
<1>5. CASE Serve \/ OpenStream \/ CloseStream \/ UNCHANGED processVars
  BY <1>5 DEF Serve, OpenStream, CloseStream, processVars, IProc, RestartStartsOver, SeedNPCs
<1> QED
  BY <1>1, <1>2, <1>3, <1>4, <1>5 DEF ProcessNext

\* A restarted process serves the NPCs of its configuration and none of an
\* earlier process, whatever was saved: main recovers from a zone named after
\* the new server, and ticks save another.
THEOREM RestartsStartOver == ProcessSpec => []RestartStartsOver
<1>1. IProc => RestartStartsOver
  BY DEF IProc
<1> QED
  BY <1>1, IProcInit, IProcNext, PTL DEF ProcessSpec
=============================================================================
