------------------------------- MODULE Peers -------------------------------
(***************************************************************************)
(* How game servers reach each other: PeerRegistry (internal/game/peer.go) *)
(* with its gRPC connections, and the locks of ReconcileNeighborGhosts,    *)
(* which keeps its server's g.mu while it asks a neighbour, whose answer   *)
(* needs the neighbour's g.mu for reading.                                 *)
(*                                                                         *)
(* What the answer does to the ghosts is in ZoneState; here only the locks *)
(* matter.  A server's other users of g.mu - its tick, its handlers - take *)
(* it, never ask anybody and give it back.                                 *)
(***************************************************************************)
EXTENDS Naturals

CONSTANTS
  Sims,      \* game servers
  Asks,      \* server -> the servers whose zones it reconciles with
  PeerIds,   \* ids of peers in a PeerRegistry
  Addresses, \* addresses a peer may have
  NoPeer,    \* no entry, no connection
  MaxDials   \* bound on the connections made

ASSUME PeersAssumption ==
  /\ Asks \in [Sims -> SUBSET Sims]
  /\ NoPeer \notin Sims \cup Addresses \cup {"tick", "reconcile"}
  /\ MaxDials \in Nat

VARIABLES
  lock,      \* server -> who holds g.mu: NoPeer, "tick" or "reconcile"
  asking,    \* server -> the server that its reconcile waits for
  entry,     \* PeerRegistry.conns: peer -> its address and its connection
  open       \* connections that are not closed

peerVars == <<lock, asking, entry, open>>
lockVars == <<lock, asking>>

NoEntryYet == [addr |-> NoPeer, conn |-> 0]

PeersTypeOK ==
  /\ lock \in [Sims -> {NoPeer, "tick", "reconcile"}]
  /\ asking \in [Sims -> Sims \cup {NoPeer}]
  /\ entry \in [PeerIds -> [addr : Addresses \cup {NoPeer}, conn : 0..MaxDials]]
  /\ open \subseteq 1..MaxDials

PeersInit ==
  /\ lock = [s \in Sims |-> NoPeer]
  /\ asking = [s \in Sims |-> NoPeer]
  /\ entry = [p \in PeerIds |-> NoEntryYet]
  /\ open = {}

-----------------------------------------------------------------------------
(* g.mu *)

TickLocks(s) ==
  /\ lock[s] = NoPeer
  /\ lock' = [lock EXCEPT ![s] = "tick"]
  /\ UNCHANGED <<asking, entry, open>>

\* Mutant: a phase of the tick returns without the unlock.
TickUnlocks_Early(s) ==
  /\ lock[s] = "tick"
  /\ UNCHANGED peerVars

TickUnlocks(s) ==
  /\ lock[s] = "tick"
  /\ lock' = [lock EXCEPT ![s] = NoPeer]
  /\ UNCHANGED <<asking, entry, open>>

\* Mutant: the neighbour zone is one of the server's own.
Asked_Self(s) == {s}

Asked(s) == Asks[s]

\* ReconcileNeighborGhosts up to the call of the querier.
ReconcileLocks(s) ==
  /\ lock[s] = NoPeer
  /\ \E n \in Asked(s) : asking' = [asking EXCEPT ![s] = n]
  /\ lock' = [lock EXCEPT ![s] = "reconcile"]
  /\ UNCHANGED <<entry, open>>

\* The neighbour answers (EntitiesNearGrid under its read lock), the ghosts are
\* brought up to date and the lock is given back.
ReconcileEnds(s) ==
  /\ asking[s] # NoPeer
  /\ lock[asking[s]] = NoPeer
  /\ asking' = [asking EXCEPT ![s] = NoPeer]
  /\ lock' = [lock EXCEPT ![s] = NoPeer]
  /\ UNCHANGED <<entry, open>>

-----------------------------------------------------------------------------
(* PeerRegistry *)

\* grpc.NewClient makes a connection that no entry has.
Free == {c \in 1..MaxDials : c \notin open /\ \A p \in PeerIds : entry[p].conn # c}
FreshConn == CHOOSE c \in Free : TRUE

\* Mutant: the connection to the old address stays open.
Upsert_KeepsOld(p, a) ==
  /\ entry[p].addr # a
  /\ Free # {}
  /\ open' = open \cup {FreshConn}
  /\ entry' = [entry EXCEPT ![p] = [addr |-> a, conn |-> FreshConn]]
  /\ UNCHANGED lockVars

\* A peer at its known address keeps its connection.
Upsert(p, a) ==
  /\ entry[p].addr # a
  /\ Free # {}
  /\ open' = (open \ {entry[p].conn}) \cup {FreshConn}
  /\ entry' = [entry EXCEPT ![p] = [addr |-> a, conn |-> FreshConn]]
  /\ UNCHANGED lockVars

\* grpc.NewClient refuses the new address: the old entry is gone already.
UpsertFails(p, a) ==
  /\ entry[p].addr # a
  /\ open' = open \ {entry[p].conn}
  /\ entry' = [entry EXCEPT ![p] = NoEntryYet]
  /\ UNCHANGED lockVars

ClosePeers ==
  /\ open' = open \ {entry[p].conn : p \in PeerIds}
  /\ entry' = [p \in PeerIds |-> NoEntryYet]
  /\ UNCHANGED lockVars

PeersNext ==
  \/ \E s \in Sims : TickLocks(s) \/ TickUnlocks(s) \/ ReconcileLocks(s) \/ ReconcileEnds(s)
  \/ \E p \in PeerIds, a \in Addresses : Upsert(p, a) \/ UpsertFails(p, a)
  \/ ClosePeers

PeersSpec == PeersInit /\ [][PeersNext]_peerVars

\* Critical sections end, and a waiting reader of a sync.RWMutex gets its turn.
PeersFairness ==
  \A s \in Sims : WF_peerVars(TickUnlocks(s)) /\ SF_peerVars(ReconcileEnds(s))

(* The registry owns its connections: each open one belongs to exactly one
   entry and each entry's connection is open, through changes of address, failed
   dials and Close. *)
ConnectionsAreOwned ==
  /\ open = {entry[p].conn : p \in {q \in PeerIds : entry[q].addr # NoPeer}}
  /\ \A p, q \in PeerIds : p # q /\ entry[p].conn # 0 => entry[p].conn # entry[q].conn

(* No server asks, through others, for its own lock: some server of every set
   of servers asks none of the set. *)
NoCycle == \A T \in SUBSET Sims : T # {} => \E s \in T : Asks[s] \cap T = {}

(* While a reconcile waits, the servers do not all wait for each other: some
   critical section is about to end, or some neighbour's lock is free. *)
SomeoneGoesOn ==
  (\E s \in Sims : asking[s] # NoPeer) =>
    \E t \in Sims : lock[t] = "tick" \/ (asking[t] # NoPeer /\ lock[asking[t]] = NoPeer)

(* A reconcile that waits for its neighbour gets its answer and gives g.mu back,
   as long as no two servers ask each other, as in the package's tests: with
   Asks cyclic, a reconcile of each side at the same time stops both. *)
ReconcileReturns == \A s \in Sims : (asking[s] # NoPeer) ~> (asking[s] = NoPeer)
=============================================================================
