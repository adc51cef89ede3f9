--------------------------- MODULE ZoneOwnership ---------------------------
(***************************************************************************)
(* What the room service promises about the ownership table: a zone has no *)
(* owner or exactly one, it is handed over only through the unowned state, *)
(* and it is given only to a server that has sent a heartbeat.             *)
(***************************************************************************)
CONSTANTS Servers, Zones, NoServer

VARIABLES owner, activated

vars == <<owner, activated>>

Init ==
  /\ owner = [z \in Zones |-> NoServer]
  /\ activated = {}

\* The first heartbeat of a server.
Activate(s) ==
  /\ activated' = activated \cup {s}
  /\ UNCHANGED owner

Claim(z, s) ==
  /\ owner[z] = NoServer
  /\ s \in activated
  /\ owner' = [owner EXCEPT ![z] = s]
  /\ UNCHANGED activated

Release(z) ==
  /\ owner[z] # NoServer
  /\ owner' = [owner EXCEPT ![z] = NoServer]
  /\ UNCHANGED activated

Next ==
  \/ \E s \in Servers : Activate(s)
  \/ \E z \in Zones, s \in Servers : Claim(z, s)
  \/ \E z \in Zones : Release(z)

Spec == Init /\ [][Next]_vars
=============================================================================
