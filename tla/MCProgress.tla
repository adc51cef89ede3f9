---------------------------- MODULE MCProgress -----------------------------
(***************************************************************************)
(* The components that something must come to an end in.  They share no    *)
(* state: Init picks the one that runs, and its fairness is asked of it.   *)
(***************************************************************************)
EXTENDS RoomService, RouterCache, Registry, Scenario, NPC, GameProcess, Wire,
        Peers, Startup, TLC

CONSTANTS ga, gb, gc

\* Two game servers are frozen in the middle of the stack.
MCStart == <<"room-service", "gs1", "gs2", "gateway">>
MCTargets == <<"gs1", "gs2">>

P(a, b) == [x |-> a, z |-> b]

\* Routes of no, one and two waypoints, and one that repeats a waypoint and
\* changes both axes.
MCRoutes == {<<>>, <<P(2, 1)>>, <<P(2, 1), P(-2, 1)>>, <<P(2, 1), P(2, 1), P(0, -2)>>}
MCOrigin == P(1, 0)

\* Payloads below the size worth compressing, that shrink, and that grow.
MCPayloads == {[size |-> 2, packed |-> 3], [size |-> 4, packed |-> 3], [size |-> 4, packed |-> 5]}
MCSeqs == {<<0, 0>>, <<255, 256>>}

\* A chain of servers that ask their neighbours for ghosts.
MCAsks == (ga :> {gb}) @@ (gb :> {gc}) @@ (gc :> {})

VARIABLE part

mcVars == <<part, vars, cacheVars, regVars, scenVars, npcVars, processVars, wireVars, peerVars, startVars>>

MCInit ==
  /\ part \in {"room", "cache", "registry", "scenario", "npc", "process", "wire", "peers", "startup"}
  /\ Init
  /\ CacheInit
  /\ RegInit
  /\ ScenInit
  /\ NPCInit
  /\ ProcessInit
  /\ WireInit
  /\ PeersInit
  /\ StartupInit
  /\ part # "npc" => route = <<>>
  /\ part # "scenario" => injector = "crash"

MCNext ==
  /\ UNCHANGED part
  /\ \/ part = "room" /\ Next
        /\ UNCHANGED <<cacheVars, regVars, scenVars, npcVars, processVars, wireVars, peerVars, startVars>>
     \/ part = "cache" /\ CacheNext
        /\ UNCHANGED <<vars, regVars, scenVars, npcVars, processVars, wireVars, peerVars, startVars>>
     \/ part = "registry" /\ RegNext
        /\ UNCHANGED <<vars, cacheVars, scenVars, npcVars, processVars, wireVars, peerVars, startVars>>
     \/ part = "scenario" /\ ScenNext
        /\ UNCHANGED <<vars, cacheVars, regVars, npcVars, processVars, wireVars, peerVars, startVars>>
     \/ part = "npc" /\ NPCNext
        /\ UNCHANGED <<vars, cacheVars, regVars, scenVars, processVars, wireVars, peerVars, startVars>>
     \/ part = "process" /\ ProcessNext
        /\ UNCHANGED <<vars, cacheVars, regVars, scenVars, npcVars, wireVars, peerVars, startVars>>
     \/ part = "wire" /\ WireNext
        /\ UNCHANGED <<vars, cacheVars, regVars, scenVars, npcVars, processVars, peerVars, startVars>>
     \/ part = "peers" /\ PeersNext
        /\ UNCHANGED <<vars, cacheVars, regVars, scenVars, npcVars, processVars, wireVars, startVars>>
     \/ part = "startup" /\ StartupNext
        /\ UNCHANGED <<vars, cacheVars, regVars, scenVars, npcVars, processVars, wireVars, peerVars>>

\* As in the components' Fairness; RoomService's sweep and the start-up of
\* the stack are always possible, so they are only asked for where they run.
MCFairness ==
  /\ WF_vars(part = "room" /\ SweepStep)
  /\ \A s \in Servers : WF_vars(part = "room" /\ proc[s] = "down" /\ HeartbeatsMissed(s))
  /\ CacheFairness /\ NPCFairness /\ PeersFairness
  /\ \A p \in Programs : WF_startVars(part = "startup" /\ StartupStep(p))
  /\ \A d \in Stores : WF_startVars(part = "startup" /\ StoreUp(d))
  /\ WF_startVars(part = "startup" /\ CheckReady)

MCSpec == MCInit /\ [][MCNext]_mcVars /\ MCFairness
============================================================================
