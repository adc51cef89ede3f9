------------------------------ MODULE Startup ------------------------------
(***************************************************************************)
(* The room service, a game server and the gateway coming up together: the *)
(* steps of their mains in order, each of which may fail and end its       *)
(* process, the stores they need, the migrations that two of them run, the *)
(* registration of the game server, and the gateway's readiness.  The      *)
(* deployment starts an ended process again, or gives it up.               *)
(***************************************************************************)
EXTENDS Integers, Sequences

CONSTANTS
  LatestVersion, \* the migrations in internal/storage/migrations
  MaxOutages,    \* bound on the times a store goes down
  MaxKills       \* bound on the processes killed

ASSUME StartupAssumption ==
  LatestVersion \in Nat \ {0} /\ MaxOutages \in Nat /\ MaxKills \in Nat

Programs == {"room-service", "game-server", "gateway"}
Stores == {"postgres", "redis"}

VARIABLES
  at,            \* where the main of each program is, "down" when it is not running
  stores,        \* the stores that answer
  schema,        \* schema_migrations: [version, dirty]
  locker,        \* the program that holds the migrations' advisory lock
  registered,    \* the running game server has a row in game_servers
  ready,         \* the gateway's last answer to /ready
  outages, kills \* for the bounds

startVars == <<at, stores, schema, locker, registered, ready, outages, kills>>

\* Mutant: the room service listens before it migrates.
MainSteps_ServeFirst(p) ==
  CASE p = "room-service" -> <<"config", "postgres", "redis", "serve", "migrate", "serve">>
    [] p = "game-server"  -> <<"config", "register", "listen", "postgres", "migrate", "serve">>
    [] OTHER              -> <<"config", "serve">>

\* The steps of each main.  The gateway's connection to the room service is
\* made on the first call.
MainSteps(p) ==
  CASE p = "room-service" -> <<"config", "postgres", "redis", "migrate", "listen", "serve">>
    [] p = "game-server"  -> <<"config", "register", "listen", "postgres", "migrate", "serve">>
    [] OTHER              -> <<"config", "serve">>

StartupInit ==
  /\ at = [p \in Programs |-> "down"]
  /\ stores = {}
  /\ schema = [version |-> 0, dirty |-> FALSE]
  /\ locker = "none"
  /\ registered = FALSE /\ ready = FALSE
  /\ outages = 0 /\ kills = 0

Serving(p) == at[p] = "serve"

\* main goes on to its next step, or ends.
Passes(p) ==
  at' = [at EXCEPT ![p] = LET k == CHOOSE i \in 1 .. Len(MainSteps(p)) : MainSteps(p)[i] = @
                          IN MainSteps(p)[k + 1]]
Exits(p) == at' = [at EXCEPT ![p] = "down"]

\* A new game server process is a new server.
Launch(p) ==
  /\ at[p] = "down"
  /\ at' = [at EXCEPT ![p] = "config"]
  /\ registered' = (registered /\ p # "game-server")
  /\ ready' = (ready /\ p # "gateway")
  /\ UNCHANGED <<stores, schema, locker, outages, kills>>

\* config.Load of the files in the image: it succeeds or no process ever runs.
LoadConfig(p) ==
  /\ at[p] = "config"
  /\ Passes(p)
  /\ UNCHANGED <<stores, schema, locker, registered, ready, outages, kills>>

\* NewPostgresPool pings the database.
OpenPostgres(p) ==
  /\ at[p] = "postgres"
  /\ IF "postgres" \in stores THEN Passes(p) ELSE Exits(p)
  /\ UNCHANGED <<stores, schema, locker, registered, ready, outages, kills>>

OpenRedis(p) ==
  /\ at[p] = "redis"
  /\ IF "redis" \in stores THEN Passes(p) ELSE Exits(p)
  /\ UNCHANGED <<stores, schema, locker, registered, ready, outages, kills>>

Listen(p) ==
  /\ at[p] = "listen"
  /\ Passes(p)
  /\ UNCHANGED <<stores, schema, locker, registered, ready, outages, kills>>

\* Mutant: a schema that is up to date is an error.
NoChange_Fails(p) == Exits(p)

\* migration.Run takes ErrNoChange for success.
NoChange(p) == Passes(p)

\* m.Up waits for the lock, for a time, and stops at a dirty version.  It marks
\* each version dirty, runs it and marks it clean.
MigrateBegins(p) ==
  /\ at[p] = "migrate" /\ locker # p
  /\ \/ /\ "postgres" \in stores /\ locker = "none" /\ ~schema.dirty
        /\ IF schema.version < LatestVersion THEN locker' = p /\ UNCHANGED at
           ELSE NoChange(p) /\ UNCHANGED locker
     \/ /\ "postgres" \notin stores \/ locker # "none" \/ schema.dirty
        /\ Exits(p) /\ UNCHANGED locker
  /\ UNCHANGED <<stores, schema, registered, ready, outages, kills>>

MigrateVersion(p) ==
  /\ locker = p /\ "postgres" \in stores
  /\ schema.version < LatestVersion \/ schema.dirty
  /\ schema' = IF schema.dirty THEN [schema EXCEPT !.dirty = FALSE]
               ELSE [version |-> schema.version + 1, dirty |-> TRUE]
  /\ UNCHANGED <<at, stores, locker, registered, ready, outages, kills>>

\* Mutant: Run gives up after a while, in the middle of a version.
MigrateEnds_Early(p) ==
  /\ locker = p
  /\ Exits(p)
  /\ locker' = "none"
  /\ UNCHANGED <<stores, schema, registered, ready, outages, kills>>

MigrateEnds(p) ==
  /\ locker = p
  /\ \/ /\ "postgres" \in stores /\ schema = [version |-> LatestVersion, dirty |-> FALSE]
        /\ Passes(p)
     \/ "postgres" \notin stores /\ Exits(p)
  /\ locker' = "none"
  /\ UNCHANGED <<stores, schema, registered, ready, outages, kills>>

\* Register in the room service inserts the server's row; the main ends when
\* the call fails.
RegisterNode ==
  /\ at["game-server"] = "register"
  /\ IF Serving("room-service") /\ "postgres" \in stores /\ schema.version > 0
     THEN Passes("game-server") /\ registered' = TRUE
     ELSE Exits("game-server") /\ UNCHANGED registered
  /\ UNCHANGED <<stores, schema, locker, ready, outages, kills>>

\* readyFn asks the room service's health server.
ReadyAnswer == Serving("room-service")

\* GET /ready.
CheckReady ==
  /\ Serving("gateway")
  /\ ready' = ReadyAnswer
  /\ UNCHANGED <<at, stores, schema, locker, registered, outages, kills>>

\* A signal: the room service and the game server stop gracefully, the gateway
\* answers /ready with 503 from then on and shuts down.
Stops(p) ==
  /\ Serving(p) /\ kills < MaxKills
  /\ at' = [at EXCEPT ![p] = "stopping"]
  /\ ready' = (ready /\ p # "gateway")
  /\ kills' = kills + 1
  /\ UNCHANGED <<stores, schema, locker, registered, outages>>

StopsEnd(p) ==
  /\ at[p] = "stopping"
  /\ Exits(p)
  /\ UNCHANGED <<stores, schema, locker, registered, ready, outages, kills>>

\* The environment: a process is killed, and its session's lock goes with it;
\* a store comes up or goes down.
Killed(p) ==
  /\ at[p] \notin {"down", "gone"} /\ kills < MaxKills
  /\ Exits(p)
  /\ kills' = kills + 1
  /\ locker' = IF locker = p THEN "none" ELSE locker
  /\ UNCHANGED <<stores, schema, registered, ready, outages>>

\* The deployment gives a program up.
Withdrawn(p) ==
  /\ at[p] = "down" /\ kills < MaxKills
  /\ at' = [at EXCEPT ![p] = "gone"]
  /\ kills' = kills + 1
  /\ UNCHANGED <<stores, schema, locker, registered, ready, outages>>

StoreUp(d) ==
  /\ d \notin stores
  /\ stores' = stores \cup {d}
  /\ UNCHANGED <<at, schema, locker, registered, ready, outages, kills>>

StoreDown(d) ==
  /\ d \in stores /\ outages < MaxOutages
  /\ stores' = stores \ {d}
  /\ outages' = outages + 1
  /\ UNCHANGED <<at, schema, locker, registered, ready, kills>>

StartupStep(p) ==
  \/ Launch(p) \/ LoadConfig(p) \/ OpenPostgres(p) \/ OpenRedis(p) \/ Listen(p)
  \/ MigrateBegins(p) \/ MigrateVersion(p) \/ MigrateEnds(p) \/ StopsEnd(p)
  \/ p = "game-server" /\ RegisterNode

StartupNext ==
  \/ \E p \in Programs : StartupStep(p) \/ Stops(p) \/ Killed(p) \/ Withdrawn(p)
  \/ \E d \in Stores : StoreUp(d) \/ StoreDown(d)
  \/ CheckReady

StartupSpec == StartupInit /\ [][StartupNext]_startVars

\* The deployment restarts what ended, mains do not hang, a store that goes
\* down comes back, and the gateway is probed.
StartupFairness ==
  /\ \A p \in Programs : WF_startVars(StartupStep(p))
  /\ \A d \in Stores : WF_startVars(StoreUp(d))
  /\ WF_startVars(CheckReady)

StartupTypeOK ==
  /\ at \in [Programs -> {"down", "config", "register", "postgres", "redis", "migrate",
                          "listen", "serve", "stopping", "gone"}]
  /\ stores \subseteq Stores
  /\ schema \in [version : 0 .. LatestVersion, dirty : BOOLEAN]
  /\ locker \in Programs \cup {"none"}
  /\ registered \in BOOLEAN /\ ready \in BOOLEAN
  /\ outages \in 0 .. MaxOutages /\ kills \in 0 .. MaxKills

\* Whoever serves, or has registered a node, finds the whole schema: the room
\* service migrates before it listens, and a game server's registration, which
\* comes before its own migrations, goes through a room service that did.
SchemaBeforeService ==
  Serving("room-service") \/ Serving("game-server") \/ registered =>
    schema = [version |-> LatestVersion, dirty |-> FALSE]

\* A version is left dirty, for someone to repair, only by a process that was
\* killed or a database that went away in the middle of it: the two servers that
\* migrate at the same time do not do this to each other.
DirtyMeansInterrupted ==
  schema.dirty => locker # "none" \/ outages > 0 \/ kills > 0

\* Whatever order the processes and the stores come up in, and whenever one of
\* them is lost, once the room service is launched all of them serve in the
\* end and the gateway answers that it is ready, unless one is given up or a
\* migration was interrupted: a version left dirty keeps both servers from
\* starting until someone repairs it.
StackComesUp ==
  at["room-service"] = "config" ~>
    (schema.dirty \/ (\E p \in Programs : at[p] = "gone")
       \/ (ready /\ \A p \in Programs : Serving(p)))
============================================================================
