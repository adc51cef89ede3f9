------------------------------ MODULE Registry ------------------------------
(***************************************************************************)
(* The in-memory control plane of internal/room: ServerRegistry,           *)
(* ZoneOwnership, LeastLoadedAllocator and the Sweeper over them.  It is   *)
(* the variant without a database that the package's tests drive; the      *)
(* service itself runs RoomService.                                        *)
(*                                                                         *)
(* A step is one critical section of reg.mu or zo.mu.  A caller that wants *)
(* a server for a zone asks LeastLoaded and then calls Claim; the Sweeper  *)
(* passes the server it asked for to its reassign callback, which is taken *)
(* to do the same.  LeastLoaded is one step: what it reads can be out of   *)
(* date by the time of Claim anyway.                                       *)
(***************************************************************************)
EXTENDS Integers

CONSTANTS
  Nodes,      \* node ids; a process has a fresh one
  RegZones,   \* zone ids
  NoNode,     \* a zone without an entry in ZoneOwnership.zones
  RegMaxZones \* Capacity.MaxZones of every node

ASSUME RegistryAssumption == NoNode \notin Nodes /\ RegMaxZones \in Nat

VARIABLES
  nodeStatus,  \* NodeDescriptor.Status; "absent" before Register, "removed" after Remove
  missed,      \* nodes whose LastHeartbeat is older than MissThreshold
  zoneCount,   \* NodeDescriptor.Load.ZoneCount, as last reported
  zoneOwner,   \* ZoneOwnership.zones
  picks,       \* <<zone, node>> chosen by LeastLoaded, Claim still to come
  sweeper,     \* the Sweeper goroutine
  beaten,      \* history: nodes that have sent a heartbeat
  lateClaims   \* history: zones claimed for a node no longer active

regVars == <<nodeStatus, missed, zoneCount, zoneOwner, picks, sweeper, beaten,
             lateClaims>>
nodeVars == <<nodeStatus, missed, zoneCount, beaten>>

\* The nodes with an entry in ServerRegistry.svr.
svr == {n \in Nodes : nodeStatus[n] \notin {"absent", "removed"}}

SweeperIdle == [pc |-> "idle", dead |-> {}, node |-> NoNode, orphaned |-> {}]

RegTypeOK ==
  /\ nodeStatus \in [Nodes -> {"absent", "registered", "active", "shutdown", "removed"}]
  /\ missed \subseteq Nodes
  /\ zoneCount \in [Nodes -> 0..RegMaxZones]
  /\ zoneOwner \in [RegZones -> Nodes \cup {NoNode}]
  /\ picks \subseteq RegZones \X Nodes
  /\ sweeper \in [pc : {"idle", "mark", "orphans", "reassign"},
                  dead : SUBSET Nodes, node : Nodes \cup {NoNode},
                  orphaned : SUBSET RegZones]
  /\ beaten \subseteq Nodes
  /\ lateClaims \subseteq RegZones

RegInit ==
  /\ nodeStatus = [n \in Nodes |-> "absent"]
  /\ missed = {}
  /\ zoneCount = [n \in Nodes |-> 0]
  /\ zoneOwner = [z \in RegZones |-> NoNode]
  /\ picks = {}
  /\ sweeper = SweeperIdle
  /\ beaten = {}
  /\ lateClaims = {}

NodeRegisters(n) ==
  /\ nodeStatus[n] = "absent"
  /\ nodeStatus' = [nodeStatus EXCEPT ![n] = "registered"]
  /\ UNCHANGED <<missed, zoneCount, zoneOwner, picks, sweeper, beaten, lateClaims>>

\* RegHeartbeat keeps the reported load, UpdateLoad replaces it.
NodeBeats(n, load) ==
  /\ n \in svr
  /\ nodeStatus' = [nodeStatus EXCEPT ![n] = "active"]
  /\ missed' = missed \ {n}
  /\ zoneCount' = [zoneCount EXCEPT ![n] = load]
  /\ beaten' = beaten \cup {n}
  /\ UNCHANGED <<zoneOwner, picks, sweeper, lateClaims>>

RegHeartbeat(n) == NodeBeats(n, zoneCount[n])

UpdateLoad(n) == \E load \in 0..RegMaxZones : NodeBeats(n, load)

NodeRemoved(n) ==
  /\ n \in svr
  /\ nodeStatus' = [nodeStatus EXCEPT ![n] = "removed"]
  /\ missed' = missed \ {n}
  /\ zoneCount' = [zoneCount EXCEPT ![n] = 0]
  /\ UNCHANGED <<zoneOwner, picks, sweeper, beaten, lateClaims>>

\* MissThreshold passes without a heartbeat.
BeatsMissed(n) ==
  /\ n \in svr \ missed
  /\ missed' = missed \cup {n}
  /\ UNCHANGED <<nodeStatus, zoneCount, zoneOwner, picks, sweeper, beaten, lateClaims>>

NodeHasRoom(n) ==
  /\ nodeStatus[n] = "active"
  /\ RegMaxZones > 0 => zoneCount[n] < RegMaxZones

\* The nodes Select may return: the order of the map decides between equals.
LeastLoaded ==
  {n \in svr : /\ NodeHasRoom(n)
               /\ \A m \in svr : NodeHasRoom(m) => zoneCount[n] <= zoneCount[m]}

PickNode(z) ==
  /\ \E n \in LeastLoaded : picks' = picks \cup {<<z, n>>}
  /\ UNCHANGED <<nodeVars, zoneOwner, sweeper, lateClaims>>

\* Claim leaves a zone that has an entry as it is.
RegClaim(z, n) ==
  /\ <<z, n>> \in picks
  /\ picks' = picks \ {<<z, n>>}
  /\ IF zoneOwner[z] = NoNode
     THEN /\ zoneOwner' = [zoneOwner EXCEPT ![z] = n]
          /\ lateClaims' = IF nodeStatus[n] = "active" THEN lateClaims
                           ELSE lateClaims \cup {z}
     ELSE UNCHANGED <<zoneOwner, lateClaims>>
  /\ UNCHANGED <<nodeVars, sweeper>>

RegRelease(z, n) ==
  /\ zoneOwner[z] = n
  /\ zoneOwner' = [zoneOwner EXCEPT ![z] = NoNode]
  /\ lateClaims' = lateClaims \ {z}
  /\ UNCHANGED <<nodeVars, picks, sweeper>>

\* The read-locked loop of sweep.
SweepCollects ==
  /\ sweeper.pc = "idle"
  /\ LET dead == {n \in svr \cap missed : nodeStatus[n] # "shutdown"} IN
       /\ dead # {}
       /\ sweeper' = [SweeperIdle EXCEPT !.pc = "mark", !.dead = dead]
  /\ UNCHANGED <<nodeVars, zoneOwner, picks, lateClaims>>

\* A heartbeat since SweepCollects is not looked for.
SweepMarks ==
  /\ sweeper.pc = "mark"
  /\ \E n \in sweeper.dead :
       /\ nodeStatus' = IF n \in svr THEN [nodeStatus EXCEPT ![n] = "shutdown"]
                        ELSE nodeStatus
       /\ sweeper' = [sweeper EXCEPT !.pc = "orphans", !.node = n, !.dead = @ \ {n}]
  /\ UNCHANGED <<missed, zoneCount, zoneOwner, picks, beaten, lateClaims>>

AfterOrphans(orphaned) ==
  IF orphaned # {} THEN [sweeper EXCEPT !.pc = "reassign", !.orphaned = orphaned]
  ELSE IF sweeper.dead # {} THEN [sweeper EXCEPT !.pc = "mark", !.orphaned = {}]
  ELSE SweeperIdle

\* Mutant: the orphaned zones are collected but keep their owner.
SweepOrphans_Keeps ==
  /\ sweeper.pc = "orphans"
  /\ sweeper' = AfterOrphans({z \in RegZones : zoneOwner[z] = sweeper.node})
  /\ UNCHANGED <<nodeVars, zoneOwner, picks, lateClaims>>

\* The locked loop of reassignZonesOf: every zone of the node loses its owner.
SweepOrphans ==
  /\ sweeper.pc = "orphans"
  /\ LET orphaned == {z \in RegZones : zoneOwner[z] = sweeper.node} IN
       /\ zoneOwner' = [z \in RegZones |-> IF z \in orphaned THEN NoNode ELSE zoneOwner[z]]
       /\ lateClaims' = lateClaims \ orphaned
       /\ sweeper' = AfterOrphans(orphaned)
  /\ UNCHANGED <<nodeVars, picks>>

\* Without a candidate the zone stays unowned.
SweepReassigns ==
  /\ sweeper.pc = "reassign"
  /\ \E z \in sweeper.orphaned :
       /\ \/ \E n \in LeastLoaded : picks' = picks \cup {<<z, n>>}
          \/ LeastLoaded = {} /\ UNCHANGED picks
       /\ sweeper' = AfterOrphans(sweeper.orphaned \ {z})
  /\ UNCHANGED <<nodeVars, zoneOwner, lateClaims>>

SweeperStep == SweepCollects \/ SweepMarks \/ SweepOrphans \/ SweepReassigns

RegNext ==
  \/ \E n \in Nodes : \/ NodeRegisters(n) \/ RegHeartbeat(n) \/ UpdateLoad(n)
                      \/ NodeRemoved(n) \/ BeatsMissed(n)
  \/ \E z \in RegZones : PickNode(z)
  \/ \E z \in RegZones, n \in Nodes : RegClaim(z, n) \/ RegRelease(z, n)
  \/ SweeperStep

RegSpec == RegInit /\ [][RegNext]_regVars

(* A zone goes from one node to another only by way of having no owner, and
   only to a node that has sent a heartbeat: "a node that registers but never
   heartbeats is never a scheduling candidate" (Register), over any order of
   picks, claims, releases and sweeps. *)
HandoverThroughUnowned ==
  [][\A z \in RegZones : zoneOwner'[z] # zoneOwner[z] =>
       \/ zoneOwner'[z] = NoNode
       \/ zoneOwner[z] = NoNode /\ zoneOwner'[z] \in beaten]_regVars

(* When the Sweeper is done with a node it marked, the node owns only zones
   claimed for it since, by a caller that had picked it while it was active. *)
SweptNodeOwnsNothing ==
  \A z \in RegZones, n \in Nodes :
    (zoneOwner[z] = n /\ nodeStatus[n] = "shutdown" /\ z \notin lateClaims)
      => sweeper.pc = "orphans" /\ sweeper.node = n
=============================================================================
