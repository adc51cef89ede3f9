------------------------------ MODULE MCZone -------------------------------
(***************************************************************************)
(* A server's ticks, and what other servers do to its zones.  They share   *)
(* no state: Init picks the one that runs.                                 *)
(***************************************************************************)
EXTENDS MCWorld, ZoneState

VARIABLE part

mcVars == <<part, vars, stateVars>>

MCInit ==
  /\ part \in {"world", "state"}
  /\ Init
  /\ ZoneStateInit

MCNext ==
  /\ UNCHANGED part
  /\ \/ part = "world" /\ Next
        /\ UNCHANGED stateVars
     \/ part = "state" /\ ZoneStateNext
        /\ UNCHANGED vars

MCSpec == MCInit /\ [][MCNext]_mcVars
============================================================================
