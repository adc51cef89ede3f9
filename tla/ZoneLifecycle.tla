---------------------------- MODULE ZoneLifecycle ----------------------------
(***************************************************************************)
(* The life of a zone: the state machine of internal/game/zone, and the    *)
(* MigrationCoordinator of internal/room that moves a zone between servers *)
(* in two calls and tells its listeners.  Neither takes a lock: their      *)
(* callers, so far the packages' tests, make one call at a time.           *)
(***************************************************************************)
EXTENDS Naturals

CONSTANTS
  Hosts,        \* server ids
  NoHost,       \* the empty ServerID
  Moved,        \* zone ids in the coordinator's table
  Listeners     \* OwnershipChangeListener callbacks

ASSUME LifecycleAssumption == NoHost \notin Hosts

VARIABLES
  zone,       \* a Zone: its Status and ServerID
  row,        \* zoneTable.rows; status "none" when there is no row
  attached,   \* listeners added by WithListener
  told        \* listener -> zone -> the owner it was told last

lifeVars == <<zone, row, attached, told>>
tableVars == <<row, attached, told>>

Statuses == {"unowned", "active", "transferring", "orphan"}

\* An unowned zone names no server, an active or transferring one names one;
\* only an orphan, which MarkOrphan makes of any zone, may do either.
ZoneType ==
  [status : {"unowned"}, server : {NoHost}]
    \cup [status : {"active", "transferring"}, server : Hosts]
    \cup [status : {"orphan"}, server : Hosts \cup {NoHost}]

LifeTypeOK ==
  /\ zone \in ZoneType
  /\ row \in [Moved -> [owner : Hosts \cup {NoHost}, status : Statuses \cup {"none"}]]
  /\ attached \subseteq Listeners
  /\ told \in [Listeners -> [Moved -> Hosts \cup {NoHost}]]

ValidTransition(from, to) ==
  <<from, to>> \in {<<"unowned", "active">>, <<"active", "transferring">>,
                    <<"active", "unowned">>, <<"transferring", "active">>,
                    <<"transferring", "orphan">>, <<"orphan", "active">>,
                    <<"orphan", "unowned">>}

LifeInit ==
  /\ zone = [status |-> "unowned", server |-> NoHost]
  /\ row = [z \in Moved |-> [owner |-> NoHost, status |-> "none"]]
  /\ attached = {}
  /\ told = [l \in Listeners |-> [z \in Moved |-> NoHost]]

-----------------------------------------------------------------------------
(* The methods of Zone; one that returns an error changes nothing. *)

ZoneClaim(s) ==
  /\ ValidTransition(zone.status, "active")
  /\ zone' = [status |-> "active", server |-> s]
  /\ UNCHANGED tableVars

ZoneRelease ==
  /\ zone.status \in {"active", "orphan"}
  /\ zone' = [status |-> "unowned", server |-> NoHost]
  /\ UNCHANGED tableVars

BeginTransfer ==
  /\ ValidTransition(zone.status, "transferring")
  /\ zone' = [zone EXCEPT !.status = "transferring"]
  /\ UNCHANGED tableVars

ZoneCompletes(s) ==
  /\ zone.status = "transferring"
  /\ zone' = [status |-> "active", server |-> s]
  /\ UNCHANGED tableVars

MarkOrphan ==
  /\ zone' = [zone EXCEPT !.status = "orphan"]
  /\ UNCHANGED tableVars

-----------------------------------------------------------------------------
(* The methods of MigrationCoordinator. *)

SetRow(z, s) ==
  /\ row[z].status = "none"
  /\ row' = [row EXCEPT ![z] = [owner |-> s, status |-> "active"]]
  /\ UNCHANGED <<zone, attached, told>>

WithListener(l) ==
  /\ l \notin attached
  /\ attached' = attached \cup {l}
  /\ UNCHANGED <<zone, row, told>>

\* The target given to PrepareTransfer is not kept.
PrepareTransfer(z) ==
  /\ row[z].status = "active"
  /\ row' = [row EXCEPT ![z].status = "transferring"]
  /\ UNCHANGED <<zone, attached, told>>

\* Mutant: the listeners are told the owner the zone had.
CompleteTransfer_TellsOld(z, s) ==
  /\ row[z].status = "transferring"
  /\ row' = [row EXCEPT ![z] = [owner |-> s, status |-> "active"]]
  /\ told' = [l \in Listeners |-> IF l \in attached THEN [told[l] EXCEPT ![z] = row[z].owner]
                                  ELSE told[l]]
  /\ UNCHANGED <<zone, attached>>

CompleteTransfer(z, s) ==
  /\ row[z].status = "transferring"
  /\ row' = [row EXCEPT ![z] = [owner |-> s, status |-> "active"]]
  /\ told' = [l \in Listeners |-> IF l \in attached THEN [told[l] EXCEPT ![z] = s]
                                  ELSE told[l]]
  /\ UNCHANGED <<zone, attached>>

-----------------------------------------------------------------------------
LifeNext ==
  \/ \E s \in Hosts : ZoneClaim(s) \/ ZoneCompletes(s)
  \/ ZoneRelease \/ BeginTransfer \/ MarkOrphan
  \/ \E l \in Listeners : WithListener(l)
  \/ \E z \in Moved, s \in Hosts : SetRow(z, s) \/ CompleteTransfer(z, s)
  \/ \E z \in Moved : PrepareTransfer(z)

LifeSpec == LifeInit /\ [][LifeNext]_lifeVars

(* A listener's last word on a zone is the owner in the table, from the first
   transfer that completes after it was attached. *)
ListenersFollow ==
  \A l \in attached, z \in Moved :
    told[l][z] # NoHost => told[l][z] = row[z].owner
=============================================================================
