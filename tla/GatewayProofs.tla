--------------------------- MODULE GatewayProofs ----------------------------
(***************************************************************************)
(* Theorems about the parts of a gateway and of the session store that     *)
(* keep no connection: the verifier's keys, the limiters, the routing      *)
(* cache and the sessions.  Each holds for every value of the constants.   *)
(***************************************************************************)
EXTENDS KeyCache, RateLimit, SessionStore, RouterCache, SequenceTheorems, TLAPS

-----------------------------------------------------------------------------
(***************************************************************************)
(* WithdrawnKeyExpires for any number of keys and of overlapping           *)
(* Refreshes, any lifetimes and an unbounded clock.  The invariant follows *)
(* a key from the answer that carried it to the cache: an answer holds no  *)
(* key that was withdrawn before its request started, and a request ends   *)
(* within Timeout.                                                         *)
(***************************************************************************)

\* Key k was not withdrawn before time t.
NotBefore(k, t) == retired[k] = Never \/ retired[k] >= t

IKey ==
  /\ KeyTypeOK
  /\ \A r \in Refreshers :
       /\ refresh[r].start <= keyNow
       /\ refresh[r].pc = "body" => \A k \in refresh[r].body : NotBefore(k, refresh[r].start)
  /\ fetched # Never => /\ fetched <= keyNow
                        /\ \A k \in keys : NotBefore(k, fetched - Timeout)
  /\ fetched = Never => keys = {}

\* No cache and no answer exists before the first Refresh.
LEMMA IKeyInit == KeyInit => IKey
BY KeyAssumption DEF KeyInit, IKey, KeyTypeOK, Refresh, NotBefore

\* A request keeps the time it started at.
LEMMA IKeyStart ==
  ASSUME IKey, NEW r \in Refreshers, StartRefresh(r)
  PROVE  IKey'
<1>1. KeyTypeOK'
  BY DEF StartRefresh, IKey, KeyTypeOK, Refresh
<1>2. \A s \in Refreshers :
        /\ refresh'[s].start <= keyNow'
        /\ refresh'[s].pc = "body" => \A k \in refresh'[s].body : NotBefore(k, refresh[s].start)'
  BY DEF StartRefresh, IKey, KeyTypeOK, Refresh, NotBefore
<1>3. /\ fetched' # Never => /\ fetched' <= keyNow'
                             /\ \A k \in keys' : NotBefore(k, fetched - Timeout)'
      /\ fetched' = Never => keys' = {}
  BY DEF StartRefresh, IKey, KeyTypeOK, NotBefore
<1> QED
  BY <1>1, <1>2, <1>3 DEF IKey

\* The issuer's answer has no key that is withdrawn.
LEMMA IKeyAnswer ==
  ASSUME IKey, NEW r \in Refreshers, Answer(r)
  PROVE  IKey'
<1>1. KeyTypeOK'
  BY DEF Answer, IKey, KeyTypeOK, Refresh
<1>2. \A s \in Refreshers :
        /\ refresh'[s].start <= keyNow'
        /\ refresh'[s].pc = "body" => \A k \in refresh'[s].body : NotBefore(k, refresh[s].start)'
  BY DEF Answer, IKey, KeyTypeOK, Refresh, NotBefore
<1>3. /\ fetched' # Never => /\ fetched' <= keyNow'
                             /\ \A k \in keys' : NotBefore(k, fetched - Timeout)'
      /\ fetched' = Never => keys' = {}
  BY DEF Answer, IKey, KeyTypeOK, NotBefore
<1> QED
  BY <1>1, <1>2, <1>3 DEF IKey

\* The keys stored were not withdrawn before the request, which is at most
\* Timeout old.
LEMMA IKeyStore ==
  ASSUME IKey, NEW r \in Refreshers, StoreKeys(r)
  PROVE  IKey'
<1>1. KeyTypeOK'
  BY DEF StoreKeys, IKey, KeyTypeOK, Refresh
<1>2. \A s \in Refreshers :
        /\ refresh'[s].start <= keyNow'
        /\ refresh'[s].pc = "body" => \A k \in refresh'[s].body : NotBefore(k, refresh[s].start)'
  BY DEF StoreKeys, IKey, KeyTypeOK, Refresh, NotBefore
<1>3. /\ fetched' \in Nat /\ fetched' = keyNow /\ fetched' <= keyNow'
      /\ fetched' # Never
  BY KeyAssumption DEF StoreKeys, IKey, KeyTypeOK
<1>4. ASSUME NEW k \in keys'
      PROVE  NotBefore(k, fetched - Timeout)'
  <2>1. k \in refresh[r].body /\ k \in Kids
    BY <1>4, KeyAssumption DEF StoreKeys, IKey, KeyTypeOK
  <2>2. NotBefore(k, refresh[r].start)
    BY <2>1 DEF StoreKeys, IKey
  <2>3. refresh[r].start \in Nat /\ keyNow - refresh[r].start <= Timeout
    BY DEF StoreKeys, IKey, KeyTypeOK, Refresh
  <2> QED
    BY <2>1, <2>2, <2>3, KeyAssumption DEF StoreKeys, IKey, KeyTypeOK, NotBefore
<1> QED
  BY <1>1, <1>2, <1>3, <1>4 DEF IKey

\* A Refresh that fails changes neither the keys nor their age.
LEMMA IKeyFails ==
  ASSUME IKey, NEW r \in Refreshers, RefreshFails(r)
  PROVE  IKey'
<1>1. KeyTypeOK'
  BY DEF RefreshFails, IKey, KeyTypeOK, Refresh
<1>2. \A s \in Refreshers :
        /\ refresh'[s].start <= keyNow'
        /\ refresh'[s].pc = "body" => \A k \in refresh'[s].body : NotBefore(k, refresh[s].start)'
  BY DEF RefreshFails, IKey, KeyTypeOK, Refresh, NotBefore
<1>3. /\ fetched' # Never => /\ fetched' <= keyNow'
                             /\ \A k \in keys' : NotBefore(k, fetched - Timeout)'
      /\ fetched' = Never => keys' = {}
  BY DEF RefreshFails, IKey, KeyTypeOK, NotBefore
<1> QED
  BY <1>1, <1>2, <1>3 DEF IKey

\* A key is withdrawn now, which no request and no cache is younger than.
LEMMA IKeyRetire ==
  ASSUME IKey, NEW k \in Kids, Retire(k)
  PROVE  IKey'
<1>1. KeyTypeOK'
  BY DEF Retire, IKey, KeyTypeOK
<1>2. ASSUME NEW j \in Kids, NEW t \in Int, t <= keyNow, NotBefore(j, t)
      PROVE  NotBefore(j, t)'
  BY <1>2 DEF Retire, IKey, KeyTypeOK, NotBefore
<1>3. \A s \in Refreshers :
        /\ refresh'[s].start <= keyNow'
        /\ refresh'[s].pc = "body" => \A j \in refresh'[s].body : NotBefore(j, refresh[s].start)'
  BY <1>2 DEF Retire, IKey, KeyTypeOK, Refresh
<1>4. /\ fetched' # Never => /\ fetched' <= keyNow'
                             /\ \A j \in keys' : NotBefore(j, fetched - Timeout)'
      /\ fetched' = Never => keys' = {}
  BY <1>2, KeyAssumption DEF Retire, IKey, KeyTypeOK
<1> QED
  BY <1>1, <1>3, <1>4 DEF IKey

\* Time passes.
LEMMA IKeyTick == ASSUME IKey, KeyTick PROVE IKey'
BY DEF KeyTick, IKey, KeyTypeOK, Refresh, NotBefore

\* The invariant is inductive.
LEMMA IKeyNext == IKey /\ [KeyNext]_keyVars => IKey'
<1> SUFFICES ASSUME IKey, [KeyNext]_keyVars PROVE IKey'
  OBVIOUS
<1>1. ASSUME NEW r \in Refreshers, StartRefresh(r) PROVE IKey'
  BY <1>1, IKeyStart
<1>2. ASSUME NEW r \in Refreshers, Answer(r) PROVE IKey'
  BY <1>2, IKeyAnswer
<1>3. ASSUME NEW r \in Refreshers, StoreKeys(r) PROVE IKey'
  BY <1>3, IKeyStore
<1>4. ASSUME NEW r \in Refreshers, RefreshFails(r) PROVE IKey'
  BY <1>4, IKeyFails
<1>5. ASSUME NEW k \in Kids, Retire(k) PROVE IKey'
  BY <1>5, IKeyRetire
<1>6. CASE KeyTick
  BY <1>6, IKeyTick
<1>7. CASE UNCHANGED keyVars
  BY <1>7 DEF IKey, KeyTypeOK, keyVars, NotBefore
<1> QED
  BY <1>1, <1>2, <1>3, <1>4, <1>5, <1>6, <1>7 DEF KeyNext

\* A key Verifier hands out was withdrawn at most ttl and one request timeout
\* ago, whichever Refreshes overlap or fail.
THEOREM WithdrawnKeysExpire == KeySpec => []WithdrawnKeyExpires
<1>1. IKey => WithdrawnKeyExpires
  BY KeyAssumption DEF IKey, KeyTypeOK, WithdrawnKeyExpires, Verifier, NotBefore
<1> QED
  BY <1>1, IKeyInit, IKeyNext, PTL DEF KeySpec

-----------------------------------------------------------------------------
(***************************************************************************)
(* WindowBound for any connections, clients, rates and bursts.  A window's *)
(* bound is not inductive: it says nothing of the tokens still in the      *)
(* bucket.  What has passed and what could pass now are bounded together:  *)
(* allow moves tokens from the second to the first, and a clock step adds  *)
(* at most Rate to the second.                                             *)
(***************************************************************************)

\* What bucket k could let pass now.
Credit(k) == Refilled(k, bucket[k])

ILim ==
  /\ LimTypeOK
  /\ \A c \in Conns : reader[c] = "none" <=> bucket[c] = NoBucket
  /\ \A k \in Limited : bucket[k] # NoBucket =>
       bucket[k].tokens <= Burst[k] /\ bucket[k].last <= limNow
  /\ bucket[watched] = NoBucket => passed = 0
  /\ bucket[watched] # NoBucket =>
       One * passed + Credit(watched) <= Burst[watched] + Rate[watched] * (limNow - since)

\* What the provers need of products.
LEMMA Products ==
  ASSUME NEW a \in Int, NEW b \in Int, NEW r \in Int
  PROVE  /\ a * b \in Int
         /\ r * (a + 1) = r * a + r
         /\ (a + 1) * r = a * r + r
         /\ a * r = r * a
         /\ r * 0 = 0 /\ 0 * r = 0
OBVIOUS

\* A product of naturals is a natural.
LEMMA NatProduct == ASSUME NEW a \in Nat, NEW b \in Nat PROVE a * b \in Nat
OBVIOUS

\* Refilled stays within the burst, and a bucket read when it was last filled
\* has just its tokens.
LEMMA RefilledBounds ==
  ASSUME LimitAssumption, limNow \in Nat, NEW k \in Limited, NEW b \in Bucket,
         b.tokens <= Burst[k], b.last <= limNow
  PROVE  /\ Refilled(k, b) \in Nat
         /\ Refilled(k, b) <= Burst[k]
         /\ b.last = limNow => Refilled(k, b) = b.tokens
<1> DEFINE add == (limNow - b.last) * Rate[k]
<1>1. b.tokens \in Nat /\ b.last \in Nat /\ Rate[k] \in Nat /\ Burst[k] \in Nat
  BY DEF LimitAssumption, Bucket
<1>2. limNow - b.last \in Nat
  BY <1>1
<1>3. add \in Nat
  BY <1>1, <1>2, NatProduct
<1>4. b.last = limNow => add = 0
  <2> SUFFICES ASSUME b.last = limNow PROVE add = 0
    OBVIOUS
  <2>1. limNow - b.last = 0
    BY <1>1
  <2> QED
    BY <1>1, <2>1, Products
<1>5. Refilled(k, b) = IF b.tokens + add > Burst[k] THEN Burst[k] ELSE b.tokens + add
  BY DEF Refilled
<1> HIDE DEF add
<1> QED
  BY <1>1, <1>3, <1>4, <1>5

\* No bucket exists and nothing has passed.
LEMMA ILimInit == LimInit => ILim
BY LimitAssumption DEF LimInit, ILim, LimTypeOK, Limited

\* allow() keeps what has passed and what could pass within the bound, for a
\* bucket that exists or one made now.
LEMMA ILimAllow ==
  ASSUME ILim, NEW k \in Limited, NEW b \in Bucket, NEW ok \in BOOLEAN,
         allow(k, b, ok), UNCHANGED <<limNow, watched, since>>,
         bucket[k] # NoBucket => b = bucket[k],
         bucket[k] = NoBucket => b = newTokenBucket(k),
         b.tokens <= Burst[k], b.last <= limNow
  PROVE  /\ bucket' \in [Limited -> Bucket \cup {NoBucket}]
         /\ passed' \in Nat
         /\ \A j \in Limited : j # k => bucket'[j] = bucket[j]
         /\ bucket'[k] # NoBucket
         /\ bucket'[k].tokens <= Burst[k] /\ bucket'[k].last <= limNow
         /\ bucket'[watched] = NoBucket => passed' = 0
         /\ bucket'[watched] # NoBucket =>
              One * passed' + Refilled(watched, bucket[watched])'
                <= Burst[watched] + Rate[watched] * (limNow - since)
<1> DEFINE R == Refilled(k, b)
           n == [tokens |-> IF ok THEN R - One ELSE R, last |-> limNow]
           bound == Burst[watched] + Rate[watched] * (limNow - since)
<1>1. /\ limNow \in Nat /\ watched \in Limited /\ since \in Nat /\ passed \in Nat
      /\ since <= limNow /\ One \in Nat \ {0} /\ bucket \in [Limited -> Bucket \cup {NoBucket}]
      /\ Burst[watched] \in Nat /\ Rate[watched] \in Nat /\ Burst[k] \in Nat
  BY LimitAssumption DEF ILim, LimTypeOK
<1>2. R \in Nat /\ R <= Burst[k]
  BY <1>1, LimitAssumption, RefilledBounds
<1>3. bound \in Int
  <2>1. limNow - since \in Nat
    BY <1>1
  <2> QED
    BY <1>1, <2>1, NatProduct
<1>4. bucket' = [bucket EXCEPT ![k] = n] /\ (ok <=> R >= One)
      /\ passed' = IF ok /\ k = watched THEN passed + 1 ELSE passed
  BY DEF allow
<1>5. n \in Bucket /\ n.tokens <= Burst[k] /\ n.last = limNow
      /\ n.tokens = IF ok THEN R - One ELSE R
  BY <1>1, <1>2, <1>4 DEF Bucket
<1>6. n # NoBucket
  BY <1>5, LimitAssumption DEF Bucket
<1> HIDE DEF R, n, bound
<1>7. bucket'[k] = n /\ \A j \in Limited : j # k => bucket'[j] = bucket[j]
  BY <1>1, <1>4
<1>8. bucket' \in [Limited -> Bucket \cup {NoBucket}] /\ passed' \in Nat
  BY <1>1, <1>4, <1>5
<1>9. bucket'[watched] = NoBucket => passed' = 0
  BY <1>1, <1>4, <1>6, <1>7 DEF ILim
<1>10. ASSUME bucket'[watched] # NoBucket
       PROVE  One * passed' + Refilled(watched, bucket[watched])' <= bound
  <2>1. CASE k = watched
    <3>1. Refilled(k, n) = n.tokens
      BY <1>1, <1>5, LimitAssumption, RefilledBounds
    <3>2. Refilled(watched, bucket[watched])' = n.tokens
      BY <2>1, <1>7, <3>1 DEF Refilled
    <3>3. One * passed + R <= bound
      <4>1. CASE bucket[k] # NoBucket
        BY <2>1, <4>1 DEF ILim, Credit, R, bound
      <4>2. CASE bucket[k] = NoBucket
        <5>1. passed = 0
          BY <2>1, <4>2 DEF ILim
        <5>2. One * passed = 0
          BY <1>1, <5>1, Products
        <5>3. limNow - since \in Nat
          BY <1>1
        <5>4. Rate[watched] * (limNow - since) \in Nat
          BY <1>1, <5>3, NatProduct
        <5> QED
          BY <1>1, <1>2, <2>1, <5>2, <5>4 DEF bound
      <4> QED
        BY <4>1, <4>2
    <3>4. One * (passed + 1) = One * passed + One /\ One * passed \in Int
      BY <1>1, Products
    <3> QED
      BY <1>1, <1>2, <1>3, <1>4, <1>5, <2>1, <3>2, <3>3, <3>4
  <2>2. CASE k # watched
    <3>1. bucket'[watched] = bucket[watched] /\ passed' = passed
      BY <1>1, <1>4, <1>7, <2>2
    <3> QED
      BY <1>10, <3>1 DEF ILim, Credit, Refilled, bound
  <2> QED
    BY <2>1, <2>2
<1> QED
  BY <1>1, <1>5, <1>6, <1>7, <1>8, <1>9, <1>10 DEF bound

\* The rest of the invariant after allow() in a reader's step.
LEMMA ILimReader ==
  ASSUME ILim, NEW c \in Conns, NEW k \in Limited, NEW b \in Bucket, NEW ok \in BOOLEAN,
         allow(k, b, ok), UNCHANGED <<limNow, watched, since>>,
         bucket[k] # NoBucket => b = bucket[k],
         bucket[k] = NoBucket => b = newTokenBucket(k) /\ k \in Clients,
         b.tokens <= Burst[k], b.last <= limNow,
         reader[c] # "none", NEW s \in {"read", "ip"}, reader' = [reader EXCEPT ![c] = s]
  PROVE  ILim'
<1>1. /\ bucket' \in [Limited -> Bucket \cup {NoBucket}]
      /\ passed' \in Nat
      /\ \A j \in Limited : j # k => bucket'[j] = bucket[j]
      /\ bucket'[k] # NoBucket
      /\ bucket'[k].tokens <= Burst[k] /\ bucket'[k].last <= limNow
      /\ bucket'[watched] = NoBucket => passed' = 0
      /\ bucket'[watched] # NoBucket =>
           One * passed' + Refilled(watched, bucket[watched])'
             <= Burst[watched] + Rate[watched] * (limNow - since)
  BY ILimAllow
<1>2. LimTypeOK'
  BY <1>1 DEF ILim, LimTypeOK
<1>3. \A d \in Conns : reader'[d] = "none" <=> bucket'[d] = NoBucket
  <2> SUFFICES ASSUME NEW d \in Conns PROVE reader'[d] = "none" <=> bucket'[d] = NoBucket
    OBVIOUS
  <2>1. d \in Limited /\ (bucket[d] = NoBucket <=> reader[d] = "none")
    BY DEF ILim, Limited
  <2>2. reader'[d] = "none" <=> reader[d] = "none"
    BY DEF ILim, LimTypeOK
  <2>3. d = k => bucket[d] # NoBucket
    BY LimitAssumption
  <2> QED
    BY <1>1, <2>1, <2>2, <2>3
<1>4. \A j \in Limited : bucket'[j] # NoBucket =>
        bucket'[j].tokens <= Burst[j] /\ bucket'[j].last <= limNow'
  BY <1>1 DEF ILim
<1> QED
  BY <1>1, <1>2, <1>3, <1>4 DEF ILim, Credit

\* The connection's bucket exists while its reader runs.
LEMMA ILimConn ==
  ASSUME ILim, NEW c \in Conns, NEW ok \in BOOLEAN, ConnAllow(c, ok)
  PROVE  ILim'
<1> DEFINE b == bucket[c]
           s == IF ok THEN "ip" ELSE "read"
<1>1. c \in Limited /\ bucket[c] # NoBucket /\ b = bucket[c] /\ b \in Bucket
      /\ b.tokens <= Burst[c] /\ b.last <= limNow
  BY DEF ConnAllow, ILim, LimTypeOK, Limited
<1>2. allow(c, b, ok) /\ UNCHANGED <<limNow, watched, since>> /\ reader[c] # "none"
  BY DEF ConnAllow
<1>3. s \in {"read", "ip"} /\ reader' = [reader EXCEPT ![c] = s]
  BY DEF ConnAllow
<1> HIDE DEF s, b
<1> QED
  BY <1>1, <1>2, <1>3, ILimReader

\* The client's bucket may be made by this very packet.
LEMMA ILimIP ==
  ASSUME ILim, NEW c \in Conns, NEW ok \in BOOLEAN, IPAllow(c, ok)
  PROVE  ILim'
<1> DEFINE k == ClientOf[c]
           b == IF bucket[k] = NoBucket THEN newTokenBucket(k) ELSE bucket[k]
<1>1. k \in Limited /\ k \in Clients
  BY LimitAssumption DEF Limited
<1>2. /\ allow(k, b, ok) /\ UNCHANGED <<limNow, watched, since>>
      /\ reader[c] # "none" /\ reader' = [reader EXCEPT ![c] = "read"]
  BY DEF IPAllow
<1>3. b \in Bucket /\ b.tokens <= Burst[k] /\ b.last <= limNow
  <2>1. CASE bucket[k] = NoBucket
    BY <1>1, <2>1, LimitAssumption DEF newTokenBucket, Bucket, ILim, LimTypeOK
  <2>2. CASE bucket[k] # NoBucket
    BY <1>1, <2>2 DEF ILim, LimTypeOK
  <2> QED
    BY <2>1, <2>2
<1>4. /\ bucket[k] # NoBucket => b = bucket[k]
      /\ bucket[k] = NoBucket => b = newTokenBucket(k)
  OBVIOUS
<1> HIDE DEF k, b
<1> QED
  BY <1>1, <1>2, <1>3, <1>4, ILimReader

\* A fresh bucket is full, and nothing of it has passed.
LEMMA ILimStart == ASSUME ILim, NEW c \in Conns, StartReader(c) PROVE ILim'
<1> DEFINE n == newTokenBucket(c)
<1>1. c \in Limited /\ bucket[c] = NoBucket /\ limNow \in Nat /\ Burst[c] \in Nat
  BY LimitAssumption DEF StartReader, ILim, LimTypeOK, Limited
<1>2. n \in Bucket /\ n.tokens = Burst[c] /\ n.last = limNow
  BY <1>1 DEF newTokenBucket, Bucket
<1>3. n # NoBucket /\ bucket' = [bucket EXCEPT ![c] = n]
  BY <1>2, LimitAssumption DEF StartReader, Bucket
<1> HIDE DEF n
<1>4. LimTypeOK'
  BY <1>1, <1>2, <1>3 DEF StartReader, ILim, LimTypeOK
<1>5. \A d \in Conns : reader'[d] = "none" <=> bucket'[d] = NoBucket
  BY <1>1, <1>3 DEF StartReader, ILim, LimTypeOK, Limited
<1>6. \A j \in Limited : bucket'[j] # NoBucket =>
        bucket'[j].tokens <= Burst[j] /\ bucket'[j].last <= limNow'
  BY <1>1, <1>2, <1>3 DEF StartReader, ILim, LimTypeOK
<1>7. bucket'[watched'] = NoBucket => passed' = 0
  BY <1>1, <1>3 DEF StartReader, ILim, LimTypeOK
<1>8. ASSUME bucket'[watched'] # NoBucket
      PROVE  One * passed' + Credit(watched)' <= Burst[watched'] + Rate[watched'] * (limNow' - since')
  <2>1. CASE c = watched
    <3>1. Refilled(c, n) = Burst[c]
      BY <1>1, <1>2, LimitAssumption, RefilledBounds
    <3>2. Credit(watched)' = Burst[c]
      BY <1>1, <1>3, <2>1, <3>1 DEF StartReader, Credit, Refilled, ILim, LimTypeOK
    <3>3. One * passed' = 0
      BY <1>1, <2>1, LimitAssumption, Products DEF StartReader, ILim
    <3>4. Rate[watched] \in Nat /\ limNow - since \in Nat
      BY LimitAssumption DEF ILim, LimTypeOK
    <3>5. Rate[watched] * (limNow - since) \in Nat
      BY <3>4, NatProduct
    <3> QED
      BY <1>1, <2>1, <3>2, <3>3, <3>5 DEF StartReader
  <2>2. CASE c # watched
    <3>1. bucket'[watched] = bucket[watched] /\ watched' = watched /\ passed' = passed
          /\ limNow' = limNow /\ since' = since
      BY <1>3, <2>2 DEF StartReader, ILim, LimTypeOK
    <3> QED
      BY <1>8, <3>1 DEF ILim, Credit, Refilled
  <2> QED
    BY <2>1, <2>2
<1> QED
  BY <1>4, <1>5, <1>6, <1>7, <1>8 DEF ILim

\* A clock step adds at most Rate to what could pass, and Rate to the bound.
LEMMA ILimTick == ASSUME ILim, LimTick PROVE ILim'
<1> DEFINE w == watched
           b == bucket[w]
<1>1. /\ limNow \in Nat /\ limNow' = limNow + 1 /\ w \in Limited /\ since \in Nat
      /\ passed \in Nat /\ One \in Nat /\ Rate[w] \in Nat /\ Burst[w] \in Nat
      /\ since <= limNow /\ UNCHANGED <<bucket, reader, watched, since, passed>>
  BY LimitAssumption DEF ILim, LimTypeOK, LimTick
<1>2. LimTypeOK'
  BY <1>1 DEF ILim, LimTypeOK
<1>3. \A j \in Limited : bucket'[j] # NoBucket =>
        bucket'[j].tokens <= Burst[j] /\ bucket'[j].last <= limNow'
  BY <1>1 DEF ILim, LimTypeOK, Bucket
<1>4. ASSUME b # NoBucket
      PROVE  One * passed + Credit(w)' <= Burst[w] + Rate[w] * (limNow' - since)
  <2>1. b.tokens \in Nat /\ b.last \in Nat /\ b.last <= limNow
    BY <1>1, <1>4 DEF ILim, LimTypeOK, Bucket
  <2> DEFINE add == (limNow - b.last) * Rate[w]
             more == (limNow' - b.last) * Rate[w]
             room == Rate[w] * (limNow - since)
             done == One * passed
  <2>2. (limNow' - b.last) = (limNow - b.last) + 1 /\ limNow' - since = (limNow - since) + 1
        /\ limNow - b.last \in Int /\ limNow - since \in Int
    BY <1>1, <2>1
  <2>3. more = add + Rate[w] /\ add \in Int
    BY <1>1, <2>2, Products
  <2>4. Rate[w] * (limNow' - since) = room + Rate[w] /\ room \in Int /\ done \in Int
    BY <1>1, <2>2, Products
  <2>5. Credit(w) = IF b.tokens + add > Burst[w] THEN Burst[w] ELSE b.tokens + add
    BY DEF Credit, Refilled
  <2>6. Credit(w)' = IF b.tokens + more > Burst[w] THEN Burst[w] ELSE b.tokens + more
    BY <1>1 DEF Credit, Refilled
  <2>7. done + Credit(w) <= Burst[w] + room
    BY <1>4 DEF ILim
  <2> HIDE DEF add, more, room, done
  <2>8. done + Credit(w)' <= Burst[w] + (room + Rate[w])
    BY <1>1, <2>1, <2>3, <2>4, <2>5, <2>6, <2>7
  <2> QED
    BY <2>4, <2>8 DEF done
<1> QED
  BY <1>1, <1>2, <1>3, <1>4 DEF ILim, Credit

\* A new window starts with a bucket that holds at most its burst.
LEMMA ILimOpen == ASSUME ILim, OpenWindow PROVE ILim'
<1> DEFINE w == watched
           b == bucket[w]
<1>1. /\ limNow \in Nat /\ limNow' = limNow /\ w \in Limited /\ since' = limNow
      /\ One \in Nat /\ Rate[w] \in Nat /\ Burst[w] \in Nat
      /\ passed' = 0 /\ UNCHANGED <<bucket, reader, watched>>
  BY LimitAssumption DEF ILim, LimTypeOK, OpenWindow
<1>2. LimTypeOK'
  BY <1>1 DEF ILim, LimTypeOK
<1>3. ASSUME b # NoBucket
      PROVE  One * passed' + Credit(w)' <= Burst[w] + Rate[w] * (limNow' - since')
  <2>1. b \in Bucket /\ b.tokens <= Burst[w] /\ b.last <= limNow
    BY <1>1, <1>3 DEF ILim, LimTypeOK
  <2>2. Refilled(w, b) \in Nat /\ Refilled(w, b) <= Burst[w]
    BY <1>1, <2>1, LimitAssumption, RefilledBounds
  <2>3. Credit(w)' = Refilled(w, b)
    BY <1>1 DEF Credit, Refilled
  <2>4. limNow' - since' = 0
    BY <1>1
  <2>5. One * 0 = 0 /\ Rate[w] * 0 = 0
    BY <1>1
  <2>6. One * passed' = 0
    BY <1>1, <2>5, Zenon
  <2>7. Rate[w] * (limNow' - since') = 0
    BY <2>4, <2>5, Zenon
  <2> QED
    BY <1>1, <2>2, <2>3, <2>6, <2>7
<1> QED
  BY <1>1, <1>2, <1>3 DEF ILim, Credit

\* The invariant is inductive.
LEMMA ILimNext == ILim /\ [LimNext]_limVars => ILim'
<1> SUFFICES ASSUME ILim, [LimNext]_limVars PROVE ILim'
  OBVIOUS
<1>1. ASSUME NEW c \in Conns, StartReader(c) PROVE ILim'
  BY <1>1, ILimStart
<1>2. ASSUME NEW c \in Conns, NEW ok \in BOOLEAN, ConnAllow(c, ok) PROVE ILim'
  BY <1>2, ILimConn
<1>3. ASSUME NEW c \in Conns, NEW ok \in BOOLEAN, IPAllow(c, ok) PROVE ILim'
  BY <1>3, ILimIP
<1>4. CASE LimTick
  BY <1>4, ILimTick
<1>5. CASE OpenWindow
  BY <1>5, ILimOpen
<1>6. CASE UNCHANGED limVars
  BY <1>6 DEF limVars, ILim, LimTypeOK, Credit, Refilled
<1> QED
  BY <1>1, <1>2, <1>3, <1>4, <1>5, <1>6 DEF LimNext

\* In every window of time a connection's limiter, and the limiter of a client
\* id shared by any number of connections, lets at most its burst and what its
\* rate adds pass.
THEOREM WindowsAreBounded == LimSpec => []WindowBound
<1>1. ILim => WindowBound
  <2> SUFFICES ASSUME ILim PROVE WindowBound
    OBVIOUS
  <2>1. /\ limNow \in Nat /\ watched \in Limited /\ since \in Nat /\ since <= limNow
        /\ passed \in Nat /\ One \in Nat /\ Rate[watched] \in Nat /\ Burst[watched] \in Nat
    BY LimitAssumption DEF ILim, LimTypeOK
  <2>2. limNow - since \in Nat
    BY <2>1
  <2>3. Rate[watched] * (limNow - since) \in Nat /\ One * passed \in Nat
    BY <2>1, <2>2, NatProduct
  <2>4. CASE bucket[watched] = NoBucket
    <3>1. One * passed = 0
      BY <2>1, <2>4, Products DEF ILim
    <3> QED
      BY <2>1, <2>3, <3>1 DEF WindowBound
  <2>5. CASE bucket[watched] # NoBucket
    <3>1. Credit(watched) \in Nat
      BY <2>1, <2>5, LimitAssumption, RefilledBounds DEF ILim, LimTypeOK, Credit
    <3> QED
      BY <2>1, <2>3, <2>5, <3>1 DEF ILim, WindowBound
  <2> QED
    BY <2>4, <2>5
<1> QED
  BY <1>1, ILimInit, ILimNext, PTL DEF LimSpec

-----------------------------------------------------------------------------
(***************************************************************************)
(* EndedSessionIsNotFound for any number of tokens and of overlapping      *)
(* Lookups.  An ended token has no key, and no command gives it one again: *)
(* tokens are issued once, and EXPIRE leaves a missing key alone.          *)
(***************************************************************************)

IStore ==
  /\ StoreTypeOK
  /\ \A t \in Tokens : redis[t] # NoKey => t \in issued \ ended
  /\ \A l \in Finds : look[l].pc = "touch" => look[l].token \in Tokens
  /\ \A l \in tooLate : look[l].pc \in {"none", "err"}

\* No token has been issued.
LEMMA IStoreInit == StoreInit => IStore
BY DEF StoreInit, IStore, StoreTypeOK, LookPCs

\* A token is issued once, so it has not ended.
LEMMA IStoreIssue == ASSUME IStore, NEW t \in Tokens, Issue(t) PROVE IStore'
BY SessionTTLAssumption DEF IStore, StoreTypeOK, Issue

\* A deleted key ends its token.
LEMMA IStoreRevoke == ASSUME IStore, NEW t \in Tokens, Revoke(t) PROVE IStore'
BY DEF IStore, StoreTypeOK, Revoke

\* GET of an ended token finds no key.
LEMMA IStoreGet == ASSUME IStore, NEW l \in Finds, NEW t \in Tokens, FindGet(l, t) PROVE IStore'
<1>1. StoreTypeOK'
  BY DEF IStore, StoreTypeOK, FindGet, LookPCs
<1>2. t \in ended => look'[l].pc = "none"
  BY DEF IStore, StoreTypeOK, FindGet
<1>3. look'[l].token = t /\ \A m \in Finds \ {l} : look'[m] = look[m]
  BY DEF IStore, StoreTypeOK, FindGet
<1>4. ASSUME NEW m \in tooLate' PROVE look'[m].pc \in {"none", "err"}
  BY <1>2, <1>3, <1>4 DEF IStore, StoreTypeOK, FindGet
<1> QED
  BY <1>1, <1>3, <1>4 DEF IStore, FindGet

\* EXPIRE gives no token a key.
LEMMA IStoreTouch == ASSUME IStore, NEW l \in Finds, FindTouch(l) PROVE IStore'
<1>1. look[l].token \in Tokens /\ l \notin tooLate
  BY DEF IStore, FindTouch
<1>2. redis' \in [Tokens -> 1 .. SessionTTL \cup {NoKey}]
  BY <1>1, SessionTTLAssumption DEF IStore, StoreTypeOK, FindTouch, Expire
<1>3. \A t \in Tokens : redis'[t] # NoKey => redis[t] # NoKey
  BY <1>1 DEF IStore, StoreTypeOK, FindTouch, Expire
<1>4. /\ look' \in [Finds -> [pc : LookPCs, token : Tokens \cup {NoKey}]]
      /\ look'[l].pc = "found"
      /\ \A m \in Finds \ {l} : look'[m] = look[m]
  BY DEF IStore, StoreTypeOK, FindTouch, LookPCs
<1> QED
  BY <1>1, <1>2, <1>3, <1>4 DEF IStore, StoreTypeOK, FindTouch

\* A failed command finds nothing.
LEMMA IStoreFails == ASSUME IStore, NEW l \in Finds, FindFails(l) PROVE IStore'
<1>1. /\ look' \in [Finds -> [pc : LookPCs, token : Tokens \cup {NoKey}]]
      /\ look'[l].pc = "err"
      /\ \A m \in Finds \ {l} : look'[m] = look[m]
  BY DEF IStore, StoreTypeOK, FindFails, LookPCs
<1> QED
  BY <1>1 DEF IStore, StoreTypeOK, FindFails

\* A key that expires ends its token.
LEMMA IStoreTick == ASSUME IStore, StoreTick PROVE IStore'
<1>1. ASSUME NEW t \in Tokens
      PROVE  /\ redis'[t] \in 1 .. SessionTTL \cup {NoKey}
             /\ redis'[t] # NoKey => redis[t] \notin {1, NoKey}
             /\ redis[t] = 1 => t \in issued
  BY SessionTTLAssumption DEF IStore, StoreTypeOK, StoreTick
<1>2. redis' \in [Tokens -> 1 .. SessionTTL \cup {NoKey}]
  BY <1>1 DEF StoreTick
<1> QED
  BY <1>1, <1>2 DEF IStore, StoreTypeOK, StoreTick

\* Every command keeps the invariant.
LEMMA IStoreNext == IStore /\ [StoreNext]_storeVars => IStore'
<1> SUFFICES ASSUME IStore, [StoreNext]_storeVars PROVE IStore'
  OBVIOUS
<1>1. CASE UNCHANGED storeVars
  BY <1>1 DEF IStore, StoreTypeOK, storeVars
<1> QED
  BY <1>1, IStoreIssue, IStoreRevoke, IStoreGet, IStoreTouch, IStoreFails, IStoreTick DEF StoreNext

\* A Lookup that begins after its session ended does not find it, for any
\* number of sessions and of Lookups under way.
THEOREM EndedSessionsAreNotFound == StoreSpec => []EndedSessionIsNotFound
<1>1. IStore => EndedSessionIsNotFound
  BY DEF IStore, EndedSessionIsNotFound
<1> QED
  BY <1>1, IStoreInit, IStoreNext, PTL DEF StoreSpec

-----------------------------------------------------------------------------
(***************************************************************************)
(* ChangesApplyInOrder for any number of zones, changes and failures.  The *)
(* changes on their way are in the order of the broadcasts: those on the   *)
(* stream before those in the fanout channel, and all of them after those  *)
(* applied to the cache.                                                   *)
(***************************************************************************)

\* The changes of s are in order, later than from and none later than upto.
InOrder(s, from, upto) ==
  /\ \A i \in 1 .. Len(s) : from < s[i].num /\ s[i].num <= upto
  /\ \A i, j \in 1 .. Len(s) : i < j => s[i].num < s[j].num

Numbered == [zone : CacheZones, num : Nat]

FeedTypes ==
  /\ entries \in [CacheZones -> [num : Nat, age : Nat] \cup {NoEntry}]
  /\ getting \in [Getters -> CacheZones \cup {Idle}]
  /\ fanout \in Seq(Numbered)
  /\ wire \in Seq(Numbered)
  /\ changes \in Nat

\* Two borders part the changes: at most a was applied, at most b was sent.
IFeed ==
  /\ FeedTypes
  /\ \E a, b \in 0 .. changes :
       /\ a <= b
       /\ \A z \in CacheZones : entries[z] # NoEntry => entries[z].num <= a
       /\ InOrder(wire, a, b)
       /\ InOrder(fanout, b, changes)

\* The changes of a sequence have a number.
LEMMA NumberedElements ==
  ASSUME NEW s \in Seq(Numbered)
  PROVE  /\ Len(s) \in Nat
         /\ \A i \in 1 .. Len(s) : s[i] \in Numbered /\ s[i].num \in Nat
<1>1. \A i \in 1 .. Len(s) : s[i] \in Numbered
  OBVIOUS
<1> QED
  BY <1>1 DEF Numbered

\* The first change of a sequence in order is a border for the others.
LEMMA TailInOrder ==
  ASSUME NEW s \in Seq(Numbered), s # <<>>, NEW a \in Nat, NEW b \in Nat, InOrder(s, a, b)
  PROVE  /\ Head(s) \in Numbered /\ Head(s).num \in a + 1 .. b
         /\ Tail(s) \in Seq(Numbered) /\ InOrder(Tail(s), Head(s).num, b)
<1>1. /\ Head(s) = s[1] /\ Len(s) \in Nat /\ Len(s) >= 1
      /\ Tail(s) \in Seq(Numbered) /\ Len(Tail(s)) = Len(s) - 1
      /\ \A i \in 1 .. Len(s) - 1 : Tail(s)[i] = s[i + 1]
  OBVIOUS
<1>2. \A i \in 1 .. Len(s) : s[i] \in Numbered /\ s[i].num \in Nat
  BY NumberedElements
<1>3. Head(s) \in Numbered /\ Head(s).num \in a + 1 .. b
  BY <1>1, <1>2 DEF InOrder
<1>4. InOrder(Tail(s), Head(s).num, b)
  BY <1>1, <1>2 DEF InOrder
<1> QED
  BY <1>1, <1>3, <1>4

\* A number of an interval, by its bounds.
LEMMA Between ==
  ASSUME NEW b \in Nat, NEW c \in Nat, NEW n \in b + 1 .. c
  PROVE  n \in 0 .. c /\ b < n /\ n <= c
OBVIOUS

\* A change after the others comes last.
LEMMA AppendInOrder ==
  ASSUME NEW s \in Seq(Numbered), NEW a \in Nat, NEW b \in Nat, InOrder(s, a, b),
         NEW c \in Numbered, a <= b, b < c.num
  PROVE  Append(s, c) \in Seq(Numbered) /\ InOrder(Append(s, c), a, c.num)
<1>1. /\ Len(s) \in Nat /\ Append(s, c) \in Seq(Numbered) /\ Len(Append(s, c)) = Len(s) + 1
      /\ \A i \in 1 .. Len(s) : Append(s, c)[i] = s[i]
      /\ Append(s, c)[Len(s) + 1] = c
  OBVIOUS
<1>2. c.num \in Nat /\ \A i \in 1 .. Len(s) : s[i].num \in Nat
  BY NumberedElements DEF Numbered
<1>3. /\ \A i \in 1 .. Len(s) : a < s[i].num /\ s[i].num <= b
      /\ \A i, j \in 1 .. Len(s) : i < j => s[i].num < s[j].num
  BY DEF InOrder
<1> DEFINE t == Append(s, c)
           l == Len(s)
<1>4. l \in Nat /\ Len(t) = l + 1 /\ t[l + 1].num = c.num
  BY <1>1
<1>5. ASSUME NEW i \in 1 .. l
      PROVE  t[i].num = s[i].num /\ a < t[i].num /\ t[i].num < c.num /\ t[i].num \in Nat
  <2>1. t[i].num = s[i].num
    BY <1>1
  <2>2. s[i].num \in Nat /\ a < s[i].num /\ s[i].num <= b
    BY <1>2, <1>3
  <2> QED
    BY <1>2, <2>1, <2>2
<1> HIDE DEF t, l
<1>6. ASSUME NEW i \in 1 .. Len(t) PROVE a < t[i].num /\ t[i].num <= c.num
  <2>1. i = l + 1 \/ i \in 1 .. l
    BY <1>4
  <2> QED
    BY <1>2, <1>4, <1>5, <2>1
<1>7. ASSUME NEW i \in 1 .. Len(t), NEW j \in 1 .. Len(t), i < j PROVE t[i].num < t[j].num
  <2>1. i \in 1 .. l /\ (j = l + 1 \/ j \in 1 .. l)
    BY <1>4, <1>7
  <2>2. CASE j = l + 1
    BY <1>4, <1>5, <2>1, <2>2
  <2>3. CASE j \in 1 .. l
    <3>1. t[i].num = s[i].num /\ t[j].num = s[j].num
      BY <1>5, <2>1, <2>3
    <3>2. s[i].num < s[j].num
      BY <1>3, <1>7, <2>1, <2>3 DEF l
    <3> QED
      BY <3>1, <3>2
  <2> QED
    BY <2>1, <2>2, <2>3
<1>8. InOrder(t, a, c.num)
  BY <1>6, <1>7 DEF InOrder
<1> QED
  BY <1>1, <1>8 DEF t

\* A sequence in order is in order within wider borders.
LEMMA WidenOrder ==
  ASSUME NEW s \in Seq(Numbered), NEW a \in Nat, NEW b \in Nat, NEW c \in Nat, NEW d \in Nat,
         InOrder(s, b, c), a <= b, c <= d
  PROVE  InOrder(s, a, d)
<1>1. Len(s) \in Nat /\ \A i \in 1 .. Len(s) : s[i].num \in Nat
  BY NumberedElements
<1> QED
  BY <1>1 DEF InOrder

\* Nothing has been broadcast.
LEMMA IFeedInit == CacheInit => IFeed
<1> SUFFICES ASSUME CacheInit PROVE IFeed
  OBVIOUS
<1>1. FeedTypes
  BY DEF CacheInit, FeedTypes
<1>2. 0 \in 0 .. changes /\ InOrder(wire, 0, 0) /\ InOrder(fanout, 0, changes)
  BY DEF CacheInit, InOrder
<1>3. \A z \in CacheZones : entries[z] = NoEntry
  BY DEF CacheInit
<1> QED
  BY <1>1, <1>2, <1>3 DEF IFeed

\* A new change is the last one, in the channel or lost.
LEMMA BroadcastKeepsOrder ==
  ASSUME IFeed, NEW z \in CacheZones, BroadcastChange(z) PROVE IFeed'
<1> DEFINE c == [zone |-> z, num |-> changes']
<1>1. changes \in Nat /\ changes' = changes + 1 /\ changes <= changes' /\ changes < changes'
  BY DEF IFeed, FeedTypes, BroadcastChange
<1>2. c \in Numbered /\ c.num = changes'
  BY <1>1 DEF Numbered
<1>3. PICK a, b \in 0 .. changes :
        /\ a <= b
        /\ \A y \in CacheZones : entries[y] # NoEntry => entries[y].num <= a
        /\ InOrder(wire, a, b)
        /\ InOrder(fanout, b, changes)
  BY DEF IFeed
<1>4. fanout \in Seq(Numbered) /\ fanout' \in {fanout, Append(fanout, c)}
  BY DEF IFeed, FeedTypes, BroadcastChange
<1> HIDE DEF c
<1>5. fanout' \in Seq(Numbered) /\ InOrder(fanout', b, changes')
  <2>1. b \in Nat /\ b <= changes /\ changes' \in Nat /\ b <= b /\ b < changes'
    BY <1>1
  <2>2. InOrder(fanout, b, changes')
    BY <1>1, <1>3, <1>4, <2>1, WidenOrder
  <2>3. Append(fanout, c) \in Seq(Numbered) /\ InOrder(Append(fanout, c), b, changes')
    BY <1>1, <1>2, <1>3, <1>4, <2>1, AppendInOrder
  <2> QED
    BY <1>4, <2>2, <2>3
<1>6. FeedTypes'
  BY <1>1, <1>5 DEF IFeed, FeedTypes, BroadcastChange
<1>7. a \in 0 .. changes' /\ b \in 0 .. changes' /\ entries' = entries /\ wire' = wire
  BY <1>1 DEF BroadcastChange
<1> QED
  BY <1>3, <1>5, <1>6, <1>7 DEF IFeed

\* The first change of the channel is the last one of the stream.
LEMMA StreamKeepsOrder == ASSUME IFeed, StreamChange PROVE IFeed'
<1>1. PICK a, b \in 0 .. changes :
        /\ a <= b
        /\ \A y \in CacheZones : entries[y] # NoEntry => entries[y].num <= a
        /\ InOrder(wire, a, b)
        /\ InOrder(fanout, b, changes)
  BY DEF IFeed
<1> DEFINE n == Head(fanout).num
<1>2. changes \in Nat /\ fanout \in Seq(Numbered) /\ wire \in Seq(Numbered) /\ fanout # <<>>
  BY DEF IFeed, FeedTypes, StreamChange
<1>3. /\ Head(fanout) \in Numbered /\ n \in 0 .. changes /\ b < n
      /\ Tail(fanout) \in Seq(Numbered) /\ InOrder(Tail(fanout), n, changes)
  <2>1. b \in Nat
    BY <1>2
  <2>2. /\ Head(fanout) \in Numbered /\ n \in b + 1 .. changes
        /\ Tail(fanout) \in Seq(Numbered) /\ InOrder(Tail(fanout), n, changes)
    BY <1>1, <1>2, <2>1, TailInOrder
  <2> HIDE DEF n
  <2>3. n \in 0 .. changes /\ b < n
    BY <1>2, <2>1, <2>2, Between
  <2> QED
    BY <2>2, <2>3
<1>4. Append(wire, Head(fanout)) \in Seq(Numbered) /\ InOrder(Append(wire, Head(fanout)), a, n)
  BY <1>1, <1>2, <1>3, AppendInOrder
<1>5. /\ wire' = Append(wire, Head(fanout)) /\ fanout' = Tail(fanout)
      /\ UNCHANGED <<entries, getting, changes>>
  BY DEF StreamChange
<1>6. FeedTypes'
  BY <1>3, <1>4, <1>5 DEF IFeed, FeedTypes
<1>7. a <= n
  BY <1>1, <1>3
<1> HIDE DEF n
<1> QED
  BY <1>1, <1>3, <1>4, <1>5, <1>6, <1>7 DEF IFeed

\* The first change of the stream is later than any entry of the cache.
LEMMA ApplyKeepsOrder ==
  ASSUME IFeed, ApplyChange
  PROVE  /\ IFeed'
         /\ \A z \in CacheZones : entries[z] # NoEntry => entries[z].num < Head(wire).num
<1>1. PICK a, b \in 0 .. changes :
        /\ a <= b
        /\ \A y \in CacheZones : entries[y] # NoEntry => entries[y].num <= a
        /\ InOrder(wire, a, b)
        /\ InOrder(fanout, b, changes)
  BY DEF IFeed
<1> DEFINE n == Head(wire).num
<1>2. changes \in Nat /\ wire \in Seq(Numbered) /\ wire # <<>>
  BY DEF IFeed, FeedTypes, ApplyChange
<1>3. /\ Head(wire) \in Numbered /\ n \in 0 .. changes /\ a < n /\ n <= b
      /\ Tail(wire) \in Seq(Numbered) /\ InOrder(Tail(wire), n, b)
  <2>1. a \in Nat /\ b \in Nat /\ b <= changes
    BY <1>2
  <2>2. /\ Head(wire) \in Numbered /\ n \in a + 1 .. b
        /\ Tail(wire) \in Seq(Numbered) /\ InOrder(Tail(wire), n, b)
    BY <1>1, <1>2, <2>1, TailInOrder
  <2> HIDE DEF n
  <2>3. n \in 0 .. b /\ a < n /\ n <= b
    BY <2>1, <2>2, Between
  <2>4. n \in 0 .. changes
    BY <1>2, <2>1, <2>3
  <2> QED
    BY <2>2, <2>3, <2>4
<1>4. /\ entries' = [entries EXCEPT ![Head(wire).zone] = [num |-> n, age |-> 0]]
      /\ wire' = Tail(wire)
      /\ UNCHANGED <<getting, fanout, changes>>
  BY DEF ApplyChange, Set
<1>5. \A z \in CacheZones : entries[z] # NoEntry => entries[z].num \in Nat
  BY DEF IFeed, FeedTypes
<1>6. \A z \in CacheZones : entries[z] # NoEntry => entries[z].num < n
  BY <1>1, <1>3, <1>5
<1>7. Head(wire).zone \in CacheZones /\ n \in Nat
  BY <1>3 DEF Numbered
<1> HIDE DEF n
<1>8. entries' \in [CacheZones -> [num : Nat, age : Nat] \cup {NoEntry}]
  BY <1>4, <1>7 DEF IFeed, FeedTypes
<1>9. \A z \in CacheZones : entries'[z] # NoEntry => entries'[z].num <= n
  <2> SUFFICES ASSUME NEW z \in CacheZones, entries'[z] # NoEntry PROVE entries'[z].num <= n
    OBVIOUS
  <2>1. entries' = [entries EXCEPT ![Head(wire).zone] = [num |-> n, age |-> 0]]
        /\ DOMAIN entries = CacheZones
    BY <1>4 DEF IFeed, FeedTypes
  <2>2. CASE z = Head(wire).zone
    <3>1. entries'[z].num = n
      BY <2>1, <2>2
    <3> QED
      BY <1>7, <3>1
  <2>3. CASE z # Head(wire).zone
    <3>1. entries'[z] = entries[z]
      BY <2>1, <2>3
    <3>2. entries[z].num \in Nat /\ entries[z].num < n
      BY <1>5, <1>6, <3>1
    <3> QED
      BY <1>7, <3>1, <3>2
  <2> QED
    BY <2>2, <2>3
<1>10. FeedTypes'
  BY <1>3, <1>4, <1>8 DEF IFeed, FeedTypes
<1>11. IFeed'
  BY <1>1, <1>3, <1>4, <1>9, <1>10 DEF IFeed
<1> QED
  BY <1>6, <1>11 DEF n

\* Other steps lose changes and entries, and never put an entry back.
LEMMA OthersKeepOrder ==
  ASSUME IFeed, UNCHANGED changes,
         wire' \in {wire, <<>>}, fanout' \in {fanout, <<>>},
         entries' \in [CacheZones -> [num : Nat, age : Nat] \cup {NoEntry}],
         \A z \in CacheZones : entries'[z] # NoEntry =>
           entries[z] # NoEntry /\ entries'[z].num = entries[z].num,
         getting' \in [Getters -> CacheZones \cup {Idle}]
  PROVE  IFeed'
<1>1. FeedTypes'
  <2>1. <<>> \in Seq(Numbered)
    BY EmptySeq
  <2>2. wire' \in Seq(Numbered) /\ fanout' \in Seq(Numbered)
    BY <2>1 DEF IFeed, FeedTypes
  <2> QED
    BY <2>2 DEF IFeed, FeedTypes
<1>2. PICK a, b \in 0 .. changes :
        /\ a <= b
        /\ \A y \in CacheZones : entries[y] # NoEntry => entries[y].num <= a
        /\ InOrder(wire, a, b)
        /\ InOrder(fanout, b, changes)
  BY DEF IFeed
<1>3. InOrder(<<>>, a, b) /\ InOrder(<<>>, b, changes)
  BY DEF InOrder
<1>4. InOrder(wire', a, b) /\ InOrder(fanout', b, changes)
  BY <1>2, <1>3
<1> QED
  BY <1>1, <1>2, <1>4 DEF IFeed

\* The entry of every zone is the same change and no younger, or is gone.
EntriesAgree ==
  /\ entries' \in [CacheZones -> [num : Nat, age : Nat] \cup {NoEntry}]
  /\ \A z \in CacheZones : entries'[z] # NoEntry =>
       /\ entries[z] # NoEntry /\ entries'[z].num = entries[z].num
       /\ entries'[z].age >= entries[z].age

\* Every step keeps the order of the changes, and only ApplyChange gives a zone
\* another entry.
LEMMA FeedStep ==
  ASSUME IFeed, [CacheNext]_cacheVars
  PROVE  IFeed' /\ (EntriesAgree \/ ApplyChange)
<1> USE DEF feedVars
<1>1. FeedTypes
  BY DEF IFeed
<1>2. ASSUME entries' = entries PROVE EntriesAgree
  BY <1>1, <1>2 DEF FeedTypes, EntriesAgree
<1>3. CASE UNCHANGED cacheVars
  BY <1>1, <1>2, <1>3, OthersKeepOrder DEF cacheVars, FeedTypes, EntriesAgree
<1>4. ASSUME NEW z \in CacheZones, BroadcastChange(z) PROVE IFeed' /\ EntriesAgree
  BY <1>2, <1>4, BroadcastKeepsOrder DEF BroadcastChange
<1>5. CASE OpenWatch \/ WatchSubscribes \/ WatchFails \/ WatchRetries
  BY <1>1, <1>2, <1>5, OthersKeepOrder
     DEF OpenWatch, WatchSubscribes, WatchFails, WatchRetries, FeedTypes, EntriesAgree
<1>6. CASE StreamChange
  BY <1>2, <1>6, StreamKeepsOrder DEF StreamChange
<1>7. CASE ApplyChange
  BY <1>7, ApplyKeepsOrder
<1>8. ASSUME NEW z \in CacheZones, entries' = [entries EXCEPT ![z] = NoEntry] PROVE EntriesAgree
  BY <1>1, <1>8 DEF FeedTypes, EntriesAgree
<1>9. ASSUME NEW z \in CacheZones, Invalidate(z) PROVE IFeed' /\ EntriesAgree
  BY <1>1, <1>8, <1>9, OthersKeepOrder DEF Invalidate, FeedTypes, EntriesAgree
<1>10. ASSUME NEW g \in Getters, NEW z \in CacheZones, GetExpired(g, z) PROVE IFeed' /\ EntriesAgree
  BY <1>1, <1>2, <1>10, OthersKeepOrder DEF GetExpired, FeedTypes, EntriesAgree
<1>11. ASSUME NEW g \in Getters, DeleteExpired(g) PROVE IFeed' /\ EntriesAgree
  <2>1. getting[g] \in CacheZones /\ getting' \in [Getters -> CacheZones \cup {Idle}]
    BY <1>1, <1>11 DEF FeedTypes, DeleteExpired
  <2>2. EntriesAgree
    BY <1>8, <1>11, <2>1 DEF DeleteExpired
  <2> QED
    BY <1>11, <2>1, <2>2, OthersKeepOrder DEF DeleteExpired, EntriesAgree
<1>12. CASE CacheTick
  <2>1. ASSUME NEW z \in CacheZones
        PROVE  /\ entries'[z] \in [num : Nat, age : Nat] \cup {NoEntry}
               /\ entries'[z] # NoEntry => /\ entries[z] # NoEntry /\ entries'[z].num = entries[z].num
                                           /\ entries'[z].age >= entries[z].age
    <3>1. entries[z] \in [num : Nat, age : Nat] \cup {NoEntry}
      BY <1>1 DEF FeedTypes
    <3>2. \/ entries'[z] = entries[z]
          \/ entries[z] # NoEntry /\ entries'[z] = [entries[z] EXCEPT !.age = @ + 1]
      BY <1>12 DEF CacheTick
    <3> QED
      BY <3>1, <3>2
  <2>2. entries' \in [CacheZones -> [num : Nat, age : Nat] \cup {NoEntry}]
    BY <1>12, <2>1 DEF CacheTick
  <2>3. EntriesAgree
    BY <2>1, <2>2 DEF EntriesAgree
  <2> QED
    BY <1>1, <1>12, <2>3, OthersKeepOrder DEF CacheTick, EntriesAgree, FeedTypes
<1> QED
  BY <1>3, <1>4, <1>5, <1>6, <1>7, <1>9, <1>10, <1>11, <1>12 DEF CacheNext, FeedNext

\* The cache replaces a change only by a later one and never renews an entry, for
\* any number of zones, changes, lost changes and streams.
THEOREM ChangesAreAppliedInOrder == CacheSpec => ChangesApplyInOrder
<1> DEFINE Forward == \A z \in CacheZones :
      entries[z] # NoEntry /\ entries'[z] # NoEntry =>
        \/ entries'[z].num > entries[z].num
        \/ entries'[z].num = entries[z].num /\ entries'[z].age >= entries[z].age
<1>1. IFeed /\ [CacheNext]_cacheVars => IFeed' /\ Forward
  <2> SUFFICES ASSUME IFeed, [CacheNext]_cacheVars, NEW z \in CacheZones,
                      entries[z] # NoEntry, entries'[z] # NoEntry
               PROVE  \/ entries'[z].num > entries[z].num
                      \/ entries'[z].num = entries[z].num /\ entries'[z].age >= entries[z].age
    BY FeedStep
  <2>1. entries[z].num \in Nat /\ entries[z].age \in Nat
    BY DEF IFeed, FeedTypes
  <2>2. CASE EntriesAgree
    BY <2>1, <2>2 DEF EntriesAgree
  <2>3. CASE ApplyChange
    <3>1. entries[z].num < Head(wire).num
      BY <2>3, ApplyKeepsOrder
    <3>2. entries' = [entries EXCEPT ![Head(wire).zone] = [num |-> Head(wire).num, age |-> 0]]
      BY <2>3 DEF ApplyChange, Set
    <3>3. wire \in Seq(Numbered) /\ wire # <<>>
      BY <2>3 DEF IFeed, FeedTypes, ApplyChange
    <3>4. Head(wire).num \in Nat
      BY <3>3, NumberedElements
    <3>5. z \in DOMAIN entries
      BY DEF IFeed, FeedTypes
    <3>6. entries'[z] \in {entries[z], [num |-> Head(wire).num, age |-> 0]}
      BY <3>2, <3>5
    <3> QED
      BY <2>1, <3>1, <3>4, <3>6
  <2> QED
    BY <2>2, <2>3, FeedStep
<1>2. IFeed /\ [CacheNext]_cacheVars => IFeed' /\ [Forward]_cacheVars
  BY <1>1
<1>3. CacheSpec => [][Forward]_cacheVars
  BY <1>2, IFeedInit, PTL DEF CacheSpec
<1> QED
  BY <1>3 DEF ChangesApplyInOrder

\* A change that is taken from the front of a bounded list leaves room.
LEMMA TailOfChanges ==
  ASSUME NEW s \in Seq(Change), s # <<>>, NEW n \in Nat, Len(s) <= n
  PROVE  /\ Head(s) \in Change /\ Tail(s) \in Seq(Change) /\ Len(Tail(s)) <= n
<1>1. Len(s) \in Nat /\ Len(Tail(s)) = Len(s) - 1 /\ Tail(s) \in Seq(Change) /\ Head(s) \in Change
  BY HeadTailProperties, LenProperties
<1> QED
  BY <1>1

\* A list of changes that has room takes another one.
LEMMA AppendChange ==
  ASSUME NEW s \in Seq(Change), NEW n \in Nat, Len(s) < n, NEW c \in Change
  PROVE  Append(s, c) \in Seq(Change) /\ Len(Append(s, c)) <= n
<1>1. Len(s) \in Nat /\ Len(Append(s, c)) = Len(s) + 1 /\ Append(s, c) \in Seq(Change)
  BY AppendProperties, LenProperties
<1> QED
  BY <1>1

\* The steps that leave the entries alone keep the types.
LEMMA FeedKeepsType ==
  ASSUME CacheTypeOK,
         \/ \E z \in CacheZones : BroadcastChange(z)
         \/ OpenWatch \/ WatchSubscribes \/ StreamChange \/ WatchFails \/ WatchRetries
  PROVE  CacheTypeOK'
<1>1. <<>> \in Seq(Change) /\ Len(<<>>) = 0
  BY EmptySeq
<1>2. ASSUME NEW z \in CacheZones, BroadcastChange(z) PROVE CacheTypeOK'
  <2> DEFINE c == [zone |-> z, num |-> changes']
  <2>1. changes' \in 1 .. MaxChanges /\ changes' \in 0 .. MaxChanges
    BY <1>2, CacheAssumption DEF CacheTypeOK, BroadcastChange
  <2>2. c \in Change
    BY <2>1 DEF Change
  <2>3. latest' \in [CacheZones -> 0 .. MaxChanges]
    BY <1>2, <2>1 DEF CacheTypeOK, BroadcastChange
  <2>4. \/ fanout' = fanout
        \/ fanout' = Append(fanout, c) /\ Len(fanout) < WatchCap
    BY <1>2 DEF BroadcastChange
  <2> HIDE DEF c
  <2>5. fanout' \in Seq(Change) /\ Len(fanout') <= WatchCap
    BY <2>2, <2>4, AppendChange, CacheAssumption DEF CacheTypeOK
  <2> QED
    BY <1>2, <2>1, <2>3, <2>5 DEF CacheTypeOK, BroadcastChange
<1>3. CASE OpenWatch \/ WatchRetries
  BY <1>3 DEF CacheTypeOK, OpenWatch, WatchRetries
<1>4. CASE WatchSubscribes
  BY <1>1, <1>4, CacheAssumption DEF CacheTypeOK, WatchSubscribes
<1>5. CASE WatchFails
  <2>1. breaks' \in 0 .. MaxBreaks
    BY <1>5, CacheAssumption DEF CacheTypeOK, WatchFails
  <2>2. 0 <= WatchCap /\ 0 <= WireCap
    BY CacheAssumption
  <2>3. /\ fanout' \in Seq(Change) /\ Len(fanout') <= WatchCap
        /\ wire' \in Seq(Change) /\ Len(wire') <= WireCap
    BY <1>1, <1>5, <2>2 DEF WatchFails
  <2> QED
    BY <1>5, <2>1, <2>3 DEF CacheTypeOK, WatchFails
<1>6. CASE StreamChange
  <2>1. Head(fanout) \in Change /\ Tail(fanout) \in Seq(Change) /\ Len(Tail(fanout)) <= WatchCap
    BY <1>6, TailOfChanges, CacheAssumption DEF CacheTypeOK, StreamChange
  <2>2. Append(wire, Head(fanout)) \in Seq(Change) /\ Len(Append(wire, Head(fanout))) <= WireCap
    BY <1>6, <2>1, AppendChange, CacheAssumption DEF CacheTypeOK, StreamChange
  <2> QED
    BY <1>6, <2>1, <2>2 DEF CacheTypeOK, StreamChange
<1> QED
  BY <1>2, <1>3, <1>4, <1>5, <1>6

\* Every step keeps the types and the bounds.
LEMMA CacheTypeNext == CacheTypeOK /\ [CacheNext]_cacheVars => CacheTypeOK'
<1> SUFFICES ASSUME CacheTypeOK, [CacheNext]_cacheVars PROVE CacheTypeOK'
  OBVIOUS
<1> DEFINE Entry == [num : 1 .. MaxChanges, age : 0 .. TTL + 1]
<1>1. CASE UNCHANGED cacheVars
  BY <1>1 DEF CacheTypeOK, cacheVars
<1>2. ASSUME UNCHANGED feedVars, entries' \in [CacheZones -> Entry \cup {NoEntry}],
             getting' \in [Getters -> CacheZones \cup {Idle}]
      PROVE  CacheTypeOK'
  BY <1>2 DEF CacheTypeOK, feedVars
<1>3. CASE ApplyChange
  <2>1. Head(wire) \in Change /\ Tail(wire) \in Seq(Change) /\ Len(Tail(wire)) <= WireCap
    BY <1>3, TailOfChanges, CacheAssumption DEF CacheTypeOK, ApplyChange
  <2>2. [num |-> Head(wire).num, age |-> 0] \in Entry
    <3>1. Head(wire).num \in 1 .. MaxChanges
      BY <2>1 DEF Change
    <3>2. 0 \in 0 .. TTL + 1
      BY CacheAssumption
    <3> QED
      BY <3>1, <3>2
  <2>3. entries' = [entries EXCEPT ![Head(wire).zone] = [num |-> Head(wire).num, age |-> 0]]
    BY <1>3 DEF ApplyChange, Set
  <2>4. entries' \in [CacheZones -> Entry \cup {NoEntry}]
    BY <2>2, <2>3 DEF CacheTypeOK
  <2> QED
    BY <1>3, <2>1, <2>4 DEF CacheTypeOK, ApplyChange
<1>4. ASSUME NEW z \in CacheZones, Invalidate(z) PROVE CacheTypeOK'
  BY <1>2, <1>4 DEF CacheTypeOK, Invalidate
<1>5. ASSUME NEW g \in Getters, NEW z \in CacheZones, GetExpired(g, z) PROVE CacheTypeOK'
  BY <1>2, <1>5 DEF CacheTypeOK, GetExpired
<1>6. ASSUME NEW g \in Getters, DeleteExpired(g) PROVE CacheTypeOK'
  BY <1>2, <1>6 DEF CacheTypeOK, DeleteExpired
<1>7. CASE CacheTick
  <2>1. ASSUME NEW z \in CacheZones PROVE entries'[z] \in Entry \cup {NoEntry}
    <3>1. \/ entries'[z] = entries[z]
          \/ /\ entries[z] # NoEntry /\ ~ (entries[z].age > TTL)
             /\ entries'[z] = [entries[z] EXCEPT !.age = @ + 1]
      BY <1>7 DEF CacheTick, expired
    <3>2. entries[z] \in Entry \cup {NoEntry}
      BY DEF CacheTypeOK
    <3> QED
      BY <3>1, <3>2, CacheAssumption
  <2>2. entries' \in [CacheZones -> Entry \cup {NoEntry}]
    BY <1>7, <2>1 DEF CacheTick
  <2> QED
    BY <1>2, <1>7, <2>2 DEF CacheTypeOK, CacheTick
<1> QED
  BY <1>1, <1>3, <1>4, <1>5, <1>6, <1>7, FeedKeepsType DEF CacheNext, FeedNext

\* RouterCache: the fanout channel and the stream keep to their capacity, whatever
\* the number of broadcasts and failures, and a Get deletes only entries of zones.
THEOREM RouterCacheTypes == CacheSpec => []CacheTypeOK
<1>1. CacheInit => CacheTypeOK
  <2> SUFFICES ASSUME CacheInit PROVE CacheTypeOK
    OBVIOUS
  <2>1. <<>> \in Seq(Change) /\ Len(<<>>) = 0
    BY EmptySeq
  <2> QED
    BY <2>1, CacheAssumption DEF CacheInit, CacheTypeOK
<1> QED
  BY <1>1, CacheTypeNext, PTL DEF CacheSpec

-----------------------------------------------------------------------------
(* The types of the other caches, from their invariants.                    *)

\* keyCache: only EdDSA keys are cached, and fetchedAt is a time or none.
THEOREM KeyCacheTypes == KeySpec => []KeyTypeOK
<1>1. IKey => KeyTypeOK
  BY DEF IKey
<1> QED
  BY <1>1, IKeyInit, IKeyNext, PTL DEF KeySpec

\* tokenBucket: buckets, readers and the window that is watched keep their types.
THEOREM RateLimitTypes == LimSpec => []LimTypeOK
<1>1. ILim => LimTypeOK
  BY DEF ILim
<1> QED
  BY <1>1, ILimInit, ILimNext, PTL DEF LimSpec

\* RedisSessionStore: no key has more than SessionTTL left, and only issued tokens end.
THEOREM SessionStoreTypes == StoreSpec => []StoreTypeOK
<1>1. IStore => StoreTypeOK
  BY DEF IStore
<1> QED
  BY <1>1, IStoreInit, IStoreNext, PTL DEF StoreSpec
=============================================================================
