---------------------------- MODULE SessionStore ---------------------------
(***************************************************************************)
(* RedisSessionStore: Issue, Lookup, Touch and Revoke as the Redis         *)
(* commands they send, in every interleaving, with commands that fail and  *)
(* keys that expire.  A token is random, so each is issued once.           *)
(***************************************************************************)
EXTENDS Integers

CONSTANTS
  Tokens,
  Finds,     \* calls of Lookup
  NoKey,
  SessionTTL   \* RedisSessionStore.ttl, in clock steps

ASSUME SessionTTLAssumption == SessionTTL \in Nat \ {0} /\ NoKey \notin Nat

VARIABLES
  redis,       \* token -> clock steps its key has left, or NoKey
  issued,      \* tokens Issue returned
  look,        \* lookup -> [pc, token]
  ended,       \* history: tokens whose key was deleted or expired
  tooLate      \* history: lookups that began when their token had ended

storeVars == <<redis, issued, look, ended, tooLate>>

LookPCs == {"idle", "touch", "found", "none", "err"}

StoreTypeOK ==
  /\ redis \in [Tokens -> 1 .. SessionTTL \cup {NoKey}]
  /\ issued \subseteq Tokens /\ ended \subseteq issued
  /\ look \in [Finds -> [pc : LookPCs, token : Tokens \cup {NoKey}]]
  /\ tooLate \subseteq Finds

StoreInit ==
  /\ redis = [t \in Tokens |-> NoKey]
  /\ issued = {} /\ ended = {} /\ tooLate = {}
  /\ look = [l \in Finds |-> [pc |-> "idle", token |-> NoKey]]

\* SET with an expiry; a failed command returns no token.
Issue(t) ==
  /\ t \notin issued
  /\ issued' = issued \cup {t}
  /\ redis' = [redis EXCEPT ![t] = SessionTTL]
  /\ UNCHANGED <<look, ended, tooLate>>

\* GET.
FindGet(l, t) ==
  /\ look[l].pc = "idle" /\ t \in issued
  /\ look' = [look EXCEPT ![l] = [pc |-> IF redis[t] = NoKey THEN "none" ELSE "touch",
                                  token |-> t]]
  /\ tooLate' = IF t \in ended THEN tooLate \cup {l} ELSE tooLate
  /\ UNCHANGED <<redis, issued, ended>>

\* Mutant: the record is written back with a new deadline.
Expire_Rewrites(t) == redis' = [redis EXCEPT ![t] = SessionTTL]

\* EXPIRE does nothing to a key that is gone, and that is no error.
Expire(t) == redis' = [redis EXCEPT ![t] = IF @ = NoKey THEN NoKey ELSE SessionTTL]

FindTouch(l) ==
  /\ look[l].pc = "touch"
  /\ Expire(look[l].token)
  /\ look' = [look EXCEPT ![l].pc = "found"]
  /\ UNCHANGED <<issued, ended, tooLate>>

\* Either command fails.
FindFails(l) ==
  /\ look[l].pc \in {"idle", "touch"}
  /\ look' = [look EXCEPT ![l].pc = "err"]
  /\ UNCHANGED <<redis, issued, ended, tooLate>>

\* DEL.
Revoke(t) ==
  /\ t \in issued /\ redis[t] # NoKey
  /\ redis' = [redis EXCEPT ![t] = NoKey]
  /\ ended' = ended \cup {t}
  /\ UNCHANGED <<issued, look, tooLate>>

StoreTick ==
  /\ \E t \in Tokens : redis[t] # NoKey
  /\ redis' = [t \in Tokens |-> IF redis[t] \in {1, NoKey} THEN NoKey ELSE redis[t] - 1]
  /\ ended' = ended \cup {t \in Tokens : redis[t] = 1}
  /\ UNCHANGED <<issued, look, tooLate>>

StoreNext ==
  \/ \E t \in Tokens : Issue(t) \/ Revoke(t)
  \/ \E l \in Finds, t \in Tokens : FindGet(l, t)
  \/ \E l \in Finds : FindTouch(l) \/ FindFails(l)
  \/ StoreTick

StoreSpec == StoreInit /\ [][StoreNext]_storeVars

\* A Lookup that begins after its session was revoked or has expired does not
\* find it, whatever lookups that began earlier still do: the Touch of one of
\* them cannot bring the session back.
EndedSessionIsNotFound == \A l \in tooLate : look[l].pc # "found"
============================================================================
