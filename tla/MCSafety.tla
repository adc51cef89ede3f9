----------------------------- MODULE MCSafety ------------------------------
(***************************************************************************)
(* The room service and the components that must stay safe in whatever     *)
(* order their calls come.  They share no state: Init picks the one that   *)
(* runs.                                                                   *)
(***************************************************************************)
EXTENDS MCRoomService, SessionStore, KeyCache, RateLimit, ZoneLifecycle, RuntimeAPI,
        Rpc

CONSTANT p1

\* Every connection is of one client, which sends a little faster than a
\* connection may: half a token is the unit.
MCClientOf == [c \in Conns |-> p1]
MCRate == [k \in Limited |-> IF k = p1 THEN 2 ELSE 1]
MCBurst == [k \in Limited |-> IF k = p1 THEN 5 ELSE 4]

VARIABLE part

mcVars == <<part, vars, storeVars, keyVars, limVars, lifeVars, apiVars, rpcVars>>

MCInit ==
  /\ part \in {"room", "store", "keys", "limits", "zones", "runtimes", "calls"}
  /\ Init
  /\ StoreInit
  /\ KeyInit
  /\ LimInit
  /\ LifeInit
  /\ APIInit
  /\ RpcInit
  /\ part # "limits" => watched = p1
  /\ part # "calls" => hosted = "room-service"

MCNext ==
  /\ UNCHANGED part
  /\ \/ part = "room" /\ Next
        /\ UNCHANGED <<storeVars, keyVars, limVars, lifeVars, apiVars, rpcVars>>
     \/ part = "store" /\ StoreNext
        /\ UNCHANGED <<vars, keyVars, limVars, lifeVars, apiVars, rpcVars>>
     \/ part = "keys" /\ KeyNext
        /\ UNCHANGED <<vars, storeVars, limVars, lifeVars, apiVars, rpcVars>>
     \/ part = "limits" /\ LimNext
        /\ UNCHANGED <<vars, storeVars, keyVars, lifeVars, apiVars, rpcVars>>
     \/ part = "zones" /\ LifeNext
        /\ UNCHANGED <<vars, storeVars, keyVars, limVars, apiVars, rpcVars>>
     \/ part = "runtimes" /\ APINext
        /\ UNCHANGED <<vars, storeVars, keyVars, limVars, lifeVars, rpcVars>>
     \/ part = "calls" /\ RpcNext
        /\ UNCHANGED <<vars, storeVars, keyVars, limVars, lifeVars, apiVars>>

MCSpec == MCInit /\ [][MCNext]_mcVars
============================================================================
