---------------------------- MODULE GameProcess ----------------------------
(***************************************************************************)
(* The life of a game server process: main's steps up to serving, in their *)
(* order and each with its way to fail, the snapshots a tick saves, what a *)
(* restarted process recovers from them, crashes, and the shutdown.        *)
(* A process is a new server: main makes a fresh id every time.            *)
(***************************************************************************)
EXTENDS Integers, Sequences

CONSTANTS
  NPCSpecs,      \* cfg.Game.NPCs
  Runtimes,      \* ids in the runtimes table
  SnapshotEvery, \* cfg.Game.SnapshotInterval
  MaxRuns,       \* bound on the restarts
  MaxTicks,      \* bound on the ticks of a process
  MaxStreams     \* bound on the Relay streams open at a time

ASSUME ProcessAssumption ==
  /\ SnapshotEvery \in Nat \ {0}
  /\ MaxRuns \in Nat /\ MaxTicks \in Nat /\ MaxStreams \in Nat

VARIABLES
  run,           \* the process, which stands for its serverID
  stage,         \* where main is
  npcs,          \* g.Entities: [id, spec, tuned], all in the zone "default"
  ticks,         \* g.tickCount
  zoneState,     \* the zone_state table: sequence of [zone, npcs]
  streams        \* open Relay streams

processVars == <<run, stage, npcs, ticks, zoneState, streams>>

\* main's steps: each may fail, and the process exits.
Steps == <<"config", "register", "listen", "postgres", "migrate", "recover", "ready">>

StepOf(st) == CHOOSE i \in 1 .. Len(Steps) : Steps[i] = st

ProcessInit ==
  /\ run = 0 /\ stage = "down"
  /\ npcs = {} /\ ticks = 0
  /\ zoneState = <<>>
  /\ streams = 0

Start ==
  /\ stage = "down" /\ run < MaxRuns
  /\ run' = run + 1
  /\ stage' = "config"
  /\ npcs' = {} /\ ticks' = 0
  /\ UNCHANGED <<zoneState, streams>>

\* config.Load and NewServerID; Register and the heartbeats, which RoomService
\* models; net.Listen; the pool and its Ping; the migrations.
Advance ==
  /\ stage \in {"config", "register", "listen", "postgres", "migrate"}
  /\ stage' = Steps[StepOf(stage) + 1]
  /\ UNCHANGED <<run, npcs, ticks, zoneState, streams>>

\* os.Exit(1), or a crash at any time.
ProcessExits ==
  /\ stage # "down"
  /\ stage' = "down" /\ streams' = 0
  /\ UNCHANGED <<run, npcs, ticks, zoneState>>

\* SnapshotStore.Latest: the last row of the zone, as a set of at most one.
Latest(zone) ==
  LET rows == {i \in 1 .. Len(zoneState) : zoneState[i].zone = zone}
  IN {zoneState[i].npcs : i \in {j \in rows : \A k \in rows : k <= j}}

\* hydrateFromSnapshot: rows carry the behaviour, not its waypoints or radius.
Hydrate(snapshot) == {[e EXCEPT !.tuned = FALSE] : e \in snapshot}

SeedNPCs == {[id |-> <<run, s>>, spec |-> s, tuned |-> TRUE] : s \in NPCSpecs}

\* The zone that ticks save: the NPCs' own.
DefaultZone == <<0, "default">>

\* Mutant: recovery looks for the zone the snapshots are saved under.
RecoveryZone_Default == DefaultZone

\* The zone recovery looks for is named after the id of the new process.
RecoveryZone == <<run, "z1">>

\* The snapshot found, or, when there is none or the query fails, the NPCs of
\* the configuration.
Recover ==
  /\ stage = "recover"
  /\ npcs' \in {SeedNPCs} \cup {Hydrate(s) : s \in Latest(RecoveryZone)}
  /\ stage' = "ready"
  /\ UNCHANGED <<run, ticks, zoneState, streams>>

\* srv.Serve and the game loop.
Serve ==
  /\ stage = "ready"
  /\ stage' = "serve"
  /\ UNCHANGED <<run, npcs, ticks, zoneState, streams>>

\* The row's runtime_id references runtimes, and the adapter passes serverID;
\* an INSERT that fails is logged.
Save(zone) ==
  zoneState' = IF run \in Runtimes THEN Append(zoneState, [zone |-> zone, npcs |-> npcs])
               ELSE zoneState

\* A tick, with snapshotAllZones when it is due.
ProcessTick ==
  /\ stage = "serve" /\ ticks < MaxTicks
  /\ ticks' = ticks + 1
  /\ IF ticks' % SnapshotEvery = 0 THEN Save(DefaultZone) ELSE UNCHANGED zoneState
  /\ UNCHANGED <<run, stage, npcs, streams>>

OpenStream ==
  /\ stage = "serve" /\ streams < MaxStreams
  /\ streams' = streams + 1
  /\ UNCHANGED <<run, stage, npcs, ticks, zoneState>>

CloseStream ==
  /\ streams > 0
  /\ streams' = streams - 1
  /\ UNCHANGED <<run, stage, npcs, ticks, zoneState>>

\* SIGTERM: gameCancel, heartbeatCancel, then GracefulStop ...
Stop ==
  /\ stage = "serve"
  /\ stage' = "stop"
  /\ UNCHANGED <<run, npcs, ticks, zoneState, streams>>

\* ... which waits for the streams.
Stopped ==
  /\ stage = "stop" /\ streams = 0
  /\ stage' = "down"
  /\ UNCHANGED <<run, npcs, ticks, zoneState, streams>>

ProcessNext ==
  \/ Start \/ Advance \/ Recover \/ Serve \/ ProcessExits
  \/ ProcessTick \/ OpenStream \/ CloseStream \/ Stop \/ Stopped

ProcessSpec == ProcessInit /\ [][ProcessNext]_processVars

\* A restarted process serves the NPCs of its configuration and none of an
\* earlier process, although snapshots were saved: the zone main recovers from
\* carries the new server's id, and the zones that ticks save do not.
RestartStartsOver == stage \in {"ready", "serve"} => npcs = SeedNPCs
============================================================================
