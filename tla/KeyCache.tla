------------------------------ MODULE KeyCache ------------------------------
(***************************************************************************)
(* JWKSProvider: Refreshes that overlap, the keys the issuer publishes and *)
(* retires meanwhile, and the keys Verifier hands out.  The HTTP client's  *)
(* timeout covers a request up to the end of its body; what Refresh does   *)
(* after it is local and takes no clock step.                              *)
(***************************************************************************)
EXTENDS Integers

CONSTANTS
  Kids,        \* keys of the issuer
  EdDSA,       \* those Refresh can use: EdDSA over Ed25519, well formed
  Refreshers,  \* callers of Refresh
  Never,
  KeyTTL,      \* JWKSProvider.ttl
  Timeout,     \* http.Client.Timeout
  MaxKeyTime   \* bound on the clock

ASSUME KeyAssumption ==
  /\ EdDSA \subseteq Kids
  /\ KeyTTL \in Nat /\ Timeout \in Nat /\ MaxKeyTime \in Nat
  /\ Never \notin Nat

VARIABLES
  keyNow,
  keys,        \* JWKSProvider.keys
  fetched,     \* JWKSProvider.fetched
  refresh,     \* refresher -> [pc, start, body]
  retired      \* kid -> when the issuer withdrew it, or Never

keyVars == <<keyNow, keys, fetched, refresh, retired>>

Refresh == [pc : {"idle", "sent", "body"}, start : Nat, body : SUBSET Kids]

KeyTypeOK ==
  /\ keyNow \in Nat
  /\ keys \subseteq EdDSA
  /\ fetched \in Nat \cup {Never}
  /\ refresh \in [Refreshers -> Refresh]
  /\ retired \in [Kids -> Nat \cup {Never}]

KeyInit ==
  /\ keyNow = 0
  /\ keys = {} /\ fetched = Never
  /\ refresh = [r \in Refreshers |-> [pc |-> "idle", start |-> 0, body |-> {}]]
  /\ retired = [k \in Kids |-> Never]

StartRefresh(r) ==
  /\ refresh[r].pc = "idle"
  /\ refresh' = [refresh EXCEPT ![r] = [pc |-> "sent", start |-> keyNow, body |-> {}]]
  /\ UNCHANGED <<keyNow, keys, fetched, retired>>

\* The issuer answers with the keys it has not withdrawn.
Answer(r) ==
  /\ refresh[r].pc = "sent"
  /\ refresh' = [refresh EXCEPT ![r] = [@ EXCEPT !.pc = "body", !.body = {k \in Kids : retired[k] = Never}]]
  /\ UNCHANGED <<keyNow, keys, fetched, retired>>

\* The body is read in time; the usable keys replace the old ones.
StoreKeys(r) ==
  /\ refresh[r].pc = "body"
  /\ keyNow - refresh[r].start <= Timeout
  /\ keys' = refresh[r].body \cap EdDSA
  /\ fetched' = keyNow
  /\ refresh' = [refresh EXCEPT ![r] = [@ EXCEPT !.pc = "idle", !.body = {}]]
  /\ UNCHANGED <<keyNow, retired>>

\* Request, timeout or decoding error: the old keys stay, and so does fetched.
RefreshFails(r) ==
  /\ refresh[r].pc \in {"sent", "body"}
  /\ refresh' = [refresh EXCEPT ![r] = [@ EXCEPT !.pc = "idle", !.body = {}]]
  /\ UNCHANGED <<keyNow, keys, fetched, retired>>

\* Mutant: the age of the cache is not looked at.
Verifier_Stale(kid) == kid \in keys

\* Whether Verifier returns the key of an EdDSA token.
Verifier(kid) ==
  /\ fetched # Never
  /\ keyNow - fetched <= KeyTTL
  /\ kid \in keys

\* The issuer withdraws a key.
Retire(k) ==
  /\ retired[k] = Never
  /\ retired' = [retired EXCEPT ![k] = keyNow]
  /\ UNCHANGED <<keyNow, keys, fetched, refresh>>

KeyTick ==
  /\ keyNow < MaxKeyTime
  /\ keyNow' = keyNow + 1
  /\ UNCHANGED <<keys, fetched, refresh, retired>>

KeyNext ==
  \/ \E r \in Refreshers : StartRefresh(r) \/ Answer(r) \/ StoreKeys(r) \/ RefreshFails(r)
  \/ \E k \in Kids : Retire(k)
  \/ KeyTick

KeySpec == KeyInit /\ [][KeyNext]_keyVars

\* A key Verifier hands out was withdrawn at most ttl and one request timeout
\* ago, even when an older answer overwrites a newer one or Refresh keeps
\* failing.
WithdrawnKeyExpires ==
  \A k \in Kids : Verifier(k) /\ retired[k] # Never => keyNow - retired[k] <= KeyTTL + Timeout
============================================================================
