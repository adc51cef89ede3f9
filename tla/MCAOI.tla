------------------------------- MODULE MCAOI -------------------------------
(***************************************************************************)
(* The index of a zone, and the queues between a game server's goroutines. *)
(* They share no state: Init picks the one that runs.                      *)
(***************************************************************************)
EXTENDS AOI, Delivery

\* Points in three cells, two of them in one cell and one of them across a
\* diagonal: pairs lie within the radius and two cells apart, beyond it on one
\* axis, and beyond it although no axis is, on both sides of the origin.
MCPoints ==
  {[x |-> a, z |-> 0] : a \in {-2, -1, 2}} \cup {[x |-> 2, z |-> -3]}

VARIABLE part

mcVars == <<part, vars, deliveryVars>>

MCInit ==
  /\ part \in {"aoi", "delivery"}
  /\ Init
  /\ DeliveryInit

MCNext ==
  /\ UNCHANGED part
  /\ \/ part = "aoi" /\ Next
        /\ UNCHANGED deliveryVars
     \/ part = "delivery" /\ DeliveryNext
        /\ UNCHANGED vars

\* As in DeliveryFairness, when the queues run.
MCFairness ==
  WF_deliveryVars(part = "delivery" /\ TickStep) /\ WF_deliveryVars(part = "delivery" /\ DrainStep)

MCSpec == MCInit /\ [][MCNext]_mcVars /\ MCFairness
============================================================================
