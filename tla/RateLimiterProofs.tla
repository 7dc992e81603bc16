------------------------- MODULE RateLimiterProofs -------------------------
(***************************************************************************)
(* Theorems of RateLimiter, for any burst, window and addresses: the limit *)
(* is kept, Retry-After is honest, and the buckets implement the plain     *)
(* allowance of Quota.  The sweep is invisible because a bucket it drops   *)
(* has been idle for longer than the window and is full (TTLAssumption).   *)
(***************************************************************************)
EXTENDS RateLimiter, TLAPS

----------------------------------------------------------------------------
(* Arithmetic *)

LEMMA FullFacts == Cost \in Nat \ {0} /\ Full \in Nat /\ Full >= Cost
<1>1. Burst \in Nat /\ Window \in Nat /\ Burst >= 1 /\ Window >= 1
  BY ParameterAssumption
<1>2. Burst * Window \in Nat BY <1>1
<1>3. \A b, w \in Nat : b >= 1 => b * w >= w
  OBVIOUS
<1>. QED BY <1>1, <1>2, <1>3 DEF Cost, Full

\* A window of refill fills every bucket.
LEMMA WindowFills ==
    ASSUME NEW d \in Nat, d >= Window
    PROVE  d * Burst >= Full
<1>1. Burst \in Nat /\ Window \in Nat BY ParameterAssumption
<1>2. \A b, x, w \in Nat : x >= w => x * b >= b * w OBVIOUS
<1>. QED BY <1>1, <1>2 DEF Full

LEMMA TimesOneMore ==
    ASSUME NEW d \in Int
    PROVE  d * Burst \in Int /\ (d + 1) * Burst = d * Burst + Burst
  BY ParameterAssumption

LEMMA CostTimes ==
    ASSUME NEW n \in Nat
    PROVE  n * Cost \in Nat /\ (n + 1) * Cost = n * Cost + Cost
  BY ParameterAssumption DEF Cost

LEMMA TimesNat ==
    ASSUME NEW d \in Nat
    PROVE  d * Burst \in Nat /\ (d >= 1 => d * Burst >= Burst)
  BY ParameterAssumption

\* The wait in RetryAfter is longer than the missing tokens take.
LEMMA RetryIsEnough ==
    ASSUME NEW tokens \in 0 .. Full, tokens < Cost
    PROVE  /\ RetryAfter(tokens) \in Nat \ {0}
           /\ RetryAfter(tokens) * Second \in Nat \ {0}
           /\ tokens + (RetryAfter(tokens) * Second) * Burst >= Cost
<1> DEFINE a == Cost - tokens
<1> DEFINE b == Burst * Second
<1>1. a \in Nat /\ Burst \in Nat \ {0} /\ Second \in Nat \ {0}
  BY FullFacts, ParameterAssumption
<1>2. b \in Nat \ {0} BY <1>1
<1>3. \A x \in Nat, y \in Nat \ {0} : x \div y \in Nat /\ (x \div y + 1) * y > x
  OBVIOUS
<1>4. (a \div b) \in Nat /\ (a \div b + 1) * b > a BY <1>1, <1>2, <1>3
<1>5. RetryAfter(tokens) = a \div b + 1 BY DEF RetryAfter
<1> DEFINE r == a \div b + 1
<1>6. r \in Nat \ {0} /\ r * (Burst * Second) > a BY <1>4
<1> HIDE DEF r, a, b
<1>7. (r * Second) * Burst = r * (Burst * Second) BY <1>1, <1>6
<1>8. r * Second \in Nat \ {0} BY <1>1, <1>6
<1>9. (r * Second) * Burst > Cost - tokens BY <1>6, <1>7 DEF a
<1>10. (r * Second) * Burst \in Nat BY <1>1, <1>8
<1>11. tokens + (r * Second) * Burst >= Cost BY <1>9, <1>10, FullFacts
<1>. QED BY <1>5, <1>6, <1>8, <1>11 DEF r

----------------------------------------------------------------------------
(* The level of an address *)

LEMMA CappedFacts ==
    ASSUME NEW n \in Nat
    PROVE  /\ Capped(n) \in 0 .. Full
           /\ n <= Full => Capped(n) = n
           /\ n >= Full => Capped(n) = Full
  BY FullFacts DEF Capped

\* Every kept bucket is a bucket, seen in the past.
LEMMA BucketFacts ==
    ASSUME IInv, NEW k \in DOMAIN buckets
    PROVE  /\ k \in Key
           /\ buckets[k] \in Bucket
           /\ buckets[k].tokens \in 0 .. Full
           /\ buckets[k].seen \in Nat
           /\ now - buckets[k].seen \in Nat
           /\ buckets[k].tokens + (now - buckets[k].seen) * Burst \in Nat
<1>1. /\ k \in Key /\ buckets[k] \in Bucket /\ now \in Nat
      /\ buckets[k].seen <= now
  BY DEF IInv, TypeOK, Time
<1>2. buckets[k].tokens \in 0 .. Full /\ buckets[k].seen \in Nat BY <1>1 DEF Bucket
<1>3. now - buckets[k].seen \in Nat BY <1>1, <1>2
<1>4. (now - buckets[k].seen) * Burst \in Nat BY <1>3, TimesNat
<1>5. buckets[k].tokens \in Nat BY <1>2, FullFacts
<1>6. \A x, y \in Nat : x + y \in Nat OBVIOUS
<1>. QED BY <1>1, <1>2, <1>3, <1>4, <1>5, <1>6

LEMMA LevelType ==
    ASSUME IInv, NEW k \in Key
    PROVE  Level(k) \in 0 .. Full
<1>1. CASE k \in DOMAIN buckets
  BY <1>1, BucketFacts, CappedFacts DEF Level, Refilled
<1>2. CASE k \notin DOMAIN buckets
  BY <1>2, FullFacts DEF Level
<1>. QED BY <1>1, <1>2

\* The sweep drops full buckets only: an address does not notice.
LEMMA SweptIsFull ==
    ASSUME IInv, NEW k \in DOMAIN buckets, k \notin Kept
    PROVE  Level(k) = Full
<1> DEFINE d == now - buckets[k].seen
<1>1. d \in Nat /\ d > BucketTTL BY BucketFacts, TTLAssumption DEF Kept
<1>2. d >= Window BY <1>1, TTLAssumption, ParameterAssumption
<1>3. d * Burst >= Full /\ d * Burst \in Nat BY <1>1, <1>2, WindowFills, TimesNat
<1>4. buckets[k].tokens \in Nat BY BucketFacts
<1>5. buckets[k].tokens + d * Burst \in Nat BY BucketFacts
<1> HIDE DEF d
<1>6. buckets[k].tokens + d * Burst >= Full BY <1>3, <1>4, FullFacts
<1>7. Capped(buckets[k].tokens + d * Burst) = Full BY <1>5, <1>6, CappedFacts
<1>. QED BY <1>7 DEF Level, Refilled, d

LEMMA KeptFacts == Kept \subseteq DOMAIN buckets
  BY DEF Kept

LEMMA TokensAreLevel ==
    ASSUME IInv, NEW k \in Key
    PROVE  TokensOf(k) = Level(k)
  BY SweptIsFull, KeptFacts DEF TokensOf, Level

\* A call sets the level of its own address and leaves every other.
LEMMA StoreLevel ==
    ASSUME IInv, NEW k \in Key, NEW tokens \in 0 .. Full, Store(k, tokens), NEW i \in Key
    PROVE  Level(i)' = IF i = k THEN tokens ELSE Level(i)
<1>1. /\ buckets' = [j \in Kept \cup {k} |->
                      IF j = k THEN [tokens |-> tokens, seen |-> now] ELSE buckets[j]]
      /\ now' = now
  BY DEF Store
<1>2. DOMAIN buckets' = Kept \cup {k} BY <1>1
<1>3. now \in Nat BY DEF IInv, TypeOK, Time
<1>4. CASE i = k
  <2>1. buckets'[i] = [tokens |-> tokens, seen |-> now] BY <1>1, <1>4
  <2>2. tokens + (now - now) * Burst = tokens BY <1>3, FullFacts, ParameterAssumption
  <2>3. Capped(tokens) = tokens BY FullFacts, CappedFacts
  <2>. QED BY <1>1, <1>2, <1>4, <2>1, <2>2, <2>3 DEF Level, Refilled, Capped
<1>5. CASE i # k /\ i \in Kept
  <2>1. buckets'[i] = buckets[i] /\ i \in DOMAIN buckets' BY <1>1, <1>5
  <2>. QED BY <1>1, <1>5, <2>1, KeptFacts DEF Level, Refilled, Capped
<1>6. CASE i # k /\ i \notin Kept
  <2>1. i \notin DOMAIN buckets' BY <1>2, <1>6
  <2>2. Level(i)' = Full BY <2>1 DEF Level, Full
  <2>3. Level(i) = Full BY <1>6, SweptIsFull DEF Level
  <2>. QED BY <1>6, <2>2, <2>3
<1>. QED BY <1>4, <1>5, <1>6

\* A tick refills every address by Burst, whether or not it has a bucket.
LEMMA TickLevel ==
    ASSUME IInv, Tick, NEW k \in Key
    PROVE  Level(k)' = Capped(Level(k) + Burst)
<1>1. buckets' = buckets /\ now' = now + 1 /\ now \in Nat
  BY DEF Tick, IInv, TypeOK, Time
<1>2. Burst \in Nat BY ParameterAssumption
<1>3. CASE k \notin DOMAIN buckets
  <2>1. Level(k)' = Full /\ Level(k) = Full BY <1>1, <1>3 DEF Level, Full
  <2>2. Full + Burst \in Nat /\ Full + Burst >= Full BY <1>2, FullFacts
  <2>. QED BY <2>1, <2>2, CappedFacts
<1>4. CASE k \in DOMAIN buckets
  <2> DEFINE b == buckets[k]
  <2> DEFINE d == now - b.seen
  <2> DEFINE x == b.tokens + d * Burst
  <2>1. d \in Nat /\ x \in Nat /\ b.seen \in Nat /\ b.tokens \in 0 .. Full
    BY <1>4, BucketFacts
  <2>2. (now + 1) - b.seen = d + 1 BY <1>1, <2>1
  <2>3. (d + 1) * Burst = d * Burst + Burst /\ d * Burst \in Int BY <2>1, TimesOneMore
  <2>4. b.tokens \in Int BY <2>1, FullFacts
  <2>5. b.tokens + (d + 1) * Burst = x + Burst BY <1>2, <2>3, <2>4
  <2>6. Level(k)' = Capped(b.tokens + ((now + 1) - b.seen) * Burst)
    BY <1>1, <1>4 DEF Level, Refilled, Capped, Full
  <2>7. Level(k) = Capped(x) BY <1>4 DEF Level, Refilled
  <2> HIDE DEF d, x, b
  <2>8. Level(k)' = Capped(x + Burst) BY <2>2, <2>5, <2>6
  <2>9. Capped(x + Burst) = Capped(Capped(x) + Burst)
    BY <1>2, <2>1, FullFacts DEF Capped
  <2>. QED BY <2>7, <2>8, <2>9
<1>. QED BY <1>3, <1>4

----------------------------------------------------------------------------
(* The invariant *)

LEMMA InitInv == Init => IInv
<1>. SUFFICES ASSUME Init PROVE IInv OBVIOUS
<1>1. TypeOK
  BY ParameterAssumption, TTLAssumption
     DEF Init, TypeOK, Time, ZeroTime, Bucket, NotTold, NoAnswer
<1>2. \A k \in Key : Level(k) = Full BY DEF Init, Level
<1>3. Accounted
  <2>1. ASSUME NEW k \in Key, NEW t \in 0 .. now
        PROVE  granted[k][t] * Cost + Level(k) <= Full + (now - t) * Burst
    <3>1. t = 0 /\ now = 0 /\ granted[k][t] = 0
      BY ParameterAssumption DEF Init, Time
    <3>. QED BY <1>2, <3>1, FullFacts, ParameterAssumption
  <2>. QED BY <2>1 DEF Accounted
<1>. QED BY <1>1, <1>3 DEF Init, IInv, EnoughByThen

\* Storing a bucket leaves a function of buckets seen in the past.
LEMMA StoreType ==
    ASSUME IInv, NEW k \in Key, NEW tokens \in 0 .. Full, Store(k, tokens)
    PROVE  /\ now' = now /\ now' \in Time
           /\ DOMAIN buckets' \subseteq Key
           /\ buckets' \in [DOMAIN buckets' -> Bucket]
           /\ lastSweep' \in Int
           /\ \A i \in DOMAIN buckets' : buckets'[i].seen <= now'
<1>1. now \in Time /\ now \in Nat /\ lastSweep \in Int BY DEF IInv, TypeOK, Time
<1>2. /\ buckets' = [j \in Kept \cup {k} |->
                      IF j = k THEN [tokens |-> tokens, seen |-> now] ELSE buckets[j]]
      /\ now' = now
      /\ lastSweep' = IF SweepDue THEN now ELSE lastSweep
  BY DEF Store
<1>3. [tokens |-> tokens, seen |-> now] \in Bucket BY <1>1 DEF Bucket
<1>4. \A j \in Kept : j \in Key /\ buckets[j] \in Bucket /\ buckets[j].seen <= now
  BY BucketFacts, KeptFacts DEF IInv
<1>. QED BY <1>1, <1>2, <1>3, <1>4

\* What a request that is let through adds to the count it takes off the level.
LEMMA PassKeeps ==
    ASSUME IInv, NEW k \in Key, Pass(k)
    PROVE  IInv'
<1> DEFINE l == Level(k)
<1>1. l \in 0 .. Full /\ TokensOf(k) = l BY LevelType, TokensAreLevel
<1>2. l >= Cost /\ Store(k, l - Cost) BY <1>1 DEF Pass
<1>3. l - Cost \in 0 .. Full BY <1>1, <1>2, FullFacts
<1> HIDE DEF l
<1>4. \A i \in Key : Level(i)' = IF i = k THEN l - Cost ELSE Level(i)
  BY <1>2, <1>3, StoreLevel
<1>5. /\ answer' = <<k, TRUE>>
      /\ granted' = [granted EXCEPT ![k] =
           [t \in Time |-> IF t <= now THEN granted[k][t] + 1 ELSE granted[k][t]]]
      /\ told' = [told EXCEPT ![k] = NotTold]
  BY DEF Pass
<1>6. /\ now' = now /\ now' \in Time /\ now \in Nat
      /\ granted \in [Key -> [Time -> Nat]]
      /\ told \in [Key -> Nat \cup {NotTold}]
      /\ DOMAIN buckets' \subseteq Key
      /\ buckets' \in [DOMAIN buckets' -> Bucket]
      /\ lastSweep' \in Int
      /\ \A i \in DOMAIN buckets' : buckets'[i].seen <= now'
  BY <1>2, <1>3, StoreType DEF IInv, TypeOK, Time
<1>7. granted' \in [Key -> [Time -> Nat]] BY <1>5, <1>6
<1>8. told' \in [Key -> Nat \cup {NotTold}] BY <1>5, <1>6
<1>9. TypeOK' BY <1>5, <1>6, <1>7, <1>8 DEF TypeOK
<1>10. \A i \in Key : \A t \in Time : t > now' => granted'[i][t] = 0
  BY <1>5, <1>6 DEF IInv, Time
<1>11. Accounted'
  <2>1. ASSUME NEW i \in Key, NEW t \in 0 .. now
        PROVE  granted'[i][t] * Cost + Level(i)' <= Full + (now - t) * Burst
    <3>1. t \in Time /\ t <= now BY <1>6, ParameterAssumption DEF Time
    <3>2. granted[i][t] * Cost + Level(i) <= Full + (now - t) * Burst
      BY DEF IInv, Accounted
    <3>3. CASE i # k
      BY <1>4, <1>5, <1>6, <3>2, <3>3
    <3>4. CASE i = k
      <4> DEFINE n == granted[k][t]
      <4>1. granted'[i][t] = n + 1 /\ n \in Nat BY <1>5, <1>6, <3>1, <3>4
      <4>2. (n + 1) * Cost = n * Cost + Cost /\ n * Cost \in Int BY <4>1, CostTimes
      <4>3. Level(i)' = l - Cost BY <1>4, <3>4
      <4>4. n * Cost + l <= Full + (now - t) * Burst BY <3>2, <3>4 DEF l
      <4> HIDE DEF n
      <4>5. (n + 1) * Cost + (l - Cost) = n * Cost + l
        BY <1>1, <4>2, FullFacts
      <4>. QED BY <4>1, <4>3, <4>4, <4>5
    <3>. QED BY <3>3, <3>4
  <2>. QED BY <1>6, <2>1 DEF Accounted, Full, Cost
<1>12. EnoughByThen'
  BY <1>4, <1>5, <1>6 DEF IInv, EnoughByThen, Cost
<1>. QED BY <1>6, <1>9, <1>10, <1>11, <1>12 DEF IInv

LEMMA RefuseKeeps ==
    ASSUME IInv, NEW k \in Key, Refuse(k)
    PROVE  IInv'
<1> DEFINE l == Level(k)
<1> DEFINE wait == RetryAfter(l) * Second
<1>1. l \in 0 .. Full /\ TokensOf(k) = l BY LevelType, TokensAreLevel
<1>2. l < Cost /\ Store(k, l) BY <1>1 DEF Refuse
<1>3. wait \in Nat \ {0} /\ l + wait * Burst >= Cost BY <1>1, <1>2, RetryIsEnough
<1>4. /\ answer' = <<k, FALSE>>
      /\ granted' = granted
      /\ told' = [told EXCEPT ![k] = now + wait]
  BY <1>1 DEF Refuse
<1> HIDE DEF l, wait
<1>5. \A i \in Key : Level(i)' = Level(i)
  BY <1>1, <1>2, StoreLevel DEF l
<1>6. /\ now' = now /\ now' \in Time /\ now \in Nat
      /\ granted \in [Key -> [Time -> Nat]]
      /\ told \in [Key -> Nat \cup {NotTold}]
      /\ DOMAIN buckets' \subseteq Key
      /\ buckets' \in [DOMAIN buckets' -> Bucket]
      /\ lastSweep' \in Int
      /\ \A i \in DOMAIN buckets' : buckets'[i].seen <= now'
  BY <1>1, <1>2, StoreType DEF IInv, TypeOK, Time
<1>7. told' \in [Key -> Nat \cup {NotTold}] BY <1>3, <1>4, <1>6
<1>8. TypeOK' BY <1>4, <1>6, <1>7 DEF TypeOK
<1>9. Accounted' BY <1>4, <1>5, <1>6 DEF IInv, Accounted, Full, Cost
<1>10. EnoughByThen'
  <2>1. ASSUME NEW i \in Key, told'[i] # NotTold
        PROVE  IF told'[i] <= now' THEN Level(i)' >= Cost
               ELSE Level(i)' + (told'[i] - now') * Burst >= Cost
    <3>1. CASE i = k
      <4>1. told'[i] = now + wait BY <1>4, <1>6, <3>1
      <4>2. ~(now + wait <= now) /\ (now + wait) - now = wait BY <1>3, <1>6
      <4>3. Level(i)' = l BY <1>5, <3>1 DEF l
      <4>. QED BY <1>3, <1>6, <4>1, <4>2, <4>3
    <3>2. CASE i # k
      BY <1>4, <1>5, <1>6, <2>1, <3>2 DEF IInv, EnoughByThen
    <3>. QED BY <3>1, <3>2
  <2>. QED BY <2>1 DEF EnoughByThen, Cost
<1>11. \A i \in Key : \A t \in Time : t > now' => granted'[i][t] = 0
  BY <1>4, <1>6 DEF IInv
<1>. QED BY <1>6, <1>8, <1>9, <1>10, <1>11 DEF IInv

LEMMA TickKeeps ==
    ASSUME IInv, Tick
    PROVE  IInv'
<1>1. /\ now' = now + 1 /\ now < MaxTime /\ now \in Nat /\ MaxTime \in Nat
      /\ answer' = NoAnswer
      /\ buckets' = buckets /\ lastSweep' = lastSweep
      /\ granted' = granted /\ told' = told
  BY ParameterAssumption DEF Tick, IInv, TypeOK, Time
<1>2. TypeOK' BY <1>1 DEF IInv, TypeOK, Time, Bucket, Full
<1>3. \A k \in DOMAIN buckets' : buckets'[k].seen <= now'
  BY <1>1, BucketFacts DEF IInv
<1>4. \A k \in Key : \A t \in Time : t > now' => granted'[k][t] = 0
  BY <1>1 DEF IInv, Time
<1>5. ASSUME NEW k \in Key
      PROVE  /\ Level(k) \in 0 .. Full
             /\ Level(k)' = Capped(Level(k) + Burst)
             /\ Level(k)' \in 0 .. Full
             /\ Level(k)' <= Level(k) + Burst
             /\ Level(k)' >= Level(k)
             /\ Level(k)' = Full \/ Level(k)' = Level(k) + Burst
  <2>1. Level(k) \in 0 .. Full /\ Level(k)' = Capped(Level(k) + Burst)
    BY LevelType, TickLevel
  <2> DEFINE l == Level(k)
  <2> HIDE DEF l
  <2>2. l \in 0 .. Full /\ Level(k)' = Capped(l + Burst) BY <2>1 DEF l
  <2>3. Burst \in Nat BY ParameterAssumption
  <2>4. /\ Capped(l + Burst) \in 0 .. Full
        /\ Capped(l + Burst) <= l + Burst
        /\ Capped(l + Burst) >= l
        /\ Capped(l + Burst) = Full \/ Capped(l + Burst) = l + Burst
    BY <2>2, <2>3, FullFacts DEF Capped
  <2>. QED BY <2>2, <2>4 DEF l
<1>6. Accounted'
  <2>1. ASSUME NEW k \in Key, NEW t \in 0 .. now + 1
        PROVE  granted[k][t] * Cost + Level(k)' <= Full + ((now + 1) - t) * Burst
    <3>1. t \in Time /\ t \in Nat /\ granted[k][t] \in Nat
      BY <1>1 DEF IInv, TypeOK, Time
    <3>2. Level(k)' \in 0 .. Full BY <1>5
    <3>3. CASE t = now + 1
      <4>1. granted[k][t] = 0 BY <1>1, <3>1, <3>3 DEF IInv
      <4>2. 0 * Cost = 0 /\ ((now + 1) - t) * Burst = 0
        BY <1>1, <3>3, FullFacts, ParameterAssumption
      <4>. QED BY <3>2, <4>1, <4>2, FullFacts
    <3>4. CASE t \in 0 .. now
      <4>1. granted[k][t] * Cost + Level(k) <= Full + (now - t) * Burst
        BY <3>4 DEF IInv, Accounted
      <4> DEFINE d == now - t
      <4>2. d \in Nat /\ (now + 1) - t = d + 1 BY <1>1, <3>4
      <4>3. (d + 1) * Burst = d * Burst + Burst /\ d * Burst \in Int
        BY <4>2, TimesOneMore
      <4>4. granted[k][t] * Cost \in Nat BY <3>1, CostTimes
      <4> HIDE DEF d
      <4>5. Level(k)' <= Level(k) + Burst /\ Level(k) \in 0 .. Full BY <1>5
      <4>6. granted[k][t] * Cost + Level(k) <= Full + d * Burst BY <4>1 DEF d
      <4>7. Burst \in Nat BY ParameterAssumption
      <4>8. granted[k][t] * Cost + Level(k)' <= Full + (d * Burst + Burst)
        BY <3>2, <4>3, <4>4, <4>5, <4>6, <4>7, FullFacts
      <4>. QED BY <4>2, <4>3, <4>8
    <3>. QED BY <1>1, <3>3, <3>4
  <2>. QED BY <1>1, <2>1 DEF Accounted, Full, Cost
<1>7. EnoughByThen'
  <2>1. ASSUME NEW k \in Key, told[k] # NotTold
        PROVE  IF told[k] <= now + 1 THEN Level(k)' >= Cost
               ELSE Level(k)' + (told[k] - (now + 1)) * Burst >= Cost
    <3>1. told[k] \in Nat BY <2>1 DEF IInv, TypeOK
    <3>2. IF told[k] <= now THEN Level(k) >= Cost
          ELSE Level(k) + (told[k] - now) * Burst >= Cost
      BY <2>1 DEF IInv, EnoughByThen
    <3> DEFINE l == Level(k)
    <3> DEFINE m == Level(k)'
    <3>3. /\ l \in 0 .. Full /\ m \in 0 .. Full
          /\ m >= l /\ (m = Full \/ m = l + Burst)
      BY <1>5
    <3>4. CASE told[k] <= now
      BY <1>1, <3>1, <3>2, <3>3, <3>4, FullFacts
    <3>5. CASE told[k] > now
      <4> DEFINE d == told[k] - (now + 1)
      <4>1. d \in Nat /\ told[k] - now = d + 1 BY <1>1, <3>1, <3>5
      <4>2. (d + 1) * Burst = d * Burst + Burst /\ d * Burst \in Nat
        BY <4>1, TimesOneMore, TimesNat
      <4>3. l + (d * Burst + Burst) >= Cost BY <1>1, <3>1, <3>2, <3>5, <4>1, <4>2
      <4>4. Burst \in Nat BY ParameterAssumption
      <4>5. d = 0 => d * Burst = 0 BY <4>4
      <4> HIDE DEF d, l, m
      <4>6. m + d * Burst >= Cost BY <3>3, <4>2, <4>3, <4>4, FullFacts
      <4>7. told[k] <= now + 1 => d = 0 BY <1>1, <3>1, <3>5 DEF d
      <4>8. d = 0 => m >= Cost BY <3>3, <4>5, <4>6, FullFacts
      <4>. QED BY <4>6, <4>7, <4>8 DEF d, m
    <3>. QED BY <1>1, <3>1, <3>4, <3>5
  <2>. QED BY <1>1, <2>1 DEF EnoughByThen, Cost
<1>. QED BY <1>2, <1>3, <1>4, <1>6, <1>7 DEF IInv

LEMMA RestartLevel ==
    ASSUME Restart, NEW k \in Key
    PROVE  Level(k)' = Full
  BY DEF Restart, Level, Full

LEMMA RestartKeeps ==
    ASSUME IInv, Restart
    PROVE  IInv'
<1>1. /\ DOMAIN buckets' = {} /\ now' = now /\ now \in Nat
      /\ granted' = [k \in Key |-> [t \in Time |-> 0]]
      /\ told' = told
  BY DEF Restart, IInv, TypeOK, Time
<1>2. TypeOK'
  BY TTLAssumption DEF Restart, IInv, TypeOK, Time, ZeroTime, Bucket, NoAnswer
<1>3. Accounted'
  <2>1. ASSUME NEW k \in Key, NEW t \in 0 .. now
        PROVE  granted'[k][t] * Cost + Level(k)' <= Full + (now - t) * Burst
    <3>1. now - t \in Nat BY <1>1
    <3>2. (now - t) * Burst \in Nat BY <3>1, TimesNat
    <3>3. now \in Time BY DEF IInv, TypeOK
    <3>4. t \in Time BY <1>1, <3>3, ParameterAssumption DEF Time
    <3>5. granted'[k][t] = 0 BY <1>1, <3>4
    <3>6. 0 * Cost = 0 BY FullFacts
    <3>. QED BY <3>2, <3>5, <3>6, FullFacts, RestartLevel
  <2>. QED BY <1>1, <2>1 DEF Accounted, Full, Cost
<1>4. EnoughByThen'
  <2>1. ASSUME NEW k \in Key, told[k] # NotTold
        PROVE  IF told[k] <= now THEN Level(k)' >= Cost
               ELSE Level(k)' + (told[k] - now) * Burst >= Cost
    <3>1. Level(k)' = Full BY RestartLevel
    <3>2. told[k] \in Nat BY <2>1 DEF IInv, TypeOK
    <3>3. CASE told[k] <= now BY <3>1, <3>3, FullFacts
    <3>4. CASE ~(told[k] <= now)
      <4>1. (told[k] - now) \in Nat BY <1>1, <3>2, <3>4
      <4>2. (told[k] - now) * Burst \in Nat BY <4>1, TimesNat
      <4>. QED BY <3>1, <3>4, <4>2, FullFacts
    <3>. QED BY <3>3, <3>4
  <2>. QED BY <1>1, <2>1 DEF EnoughByThen, Cost
<1>. QED BY <1>1, <1>2, <1>3, <1>4 DEF IInv

LEMMA NextInv == IInv /\ [Next]_vars => IInv'
<1>. SUFFICES ASSUME IInv, [Next]_vars PROVE IInv' OBVIOUS
<1>1. CASE UNCHANGED vars
  BY <1>1 DEF vars, IInv, TypeOK, Accounted, EnoughByThen, Level, Refilled, Capped,
              Time, Bucket, Full, Cost
<1>2. CASE Tick BY <1>2, TickKeeps
<1>3. CASE Restart BY <1>3, RestartKeeps
<1>4. CASE \E k \in Key : Allow(k) BY <1>4, PassKeeps, RefuseKeeps DEF Allow
<1>. QED BY <1>1, <1>2, <1>3, <1>4 DEF Next

\* The buckets are typed and what was let through and what is left never exceed
\* the burst and the refill (allow and sweep of ratelimit.go).
THEOREM Invariance == Spec => []IInv
  BY InitInv, NextInv, PTL DEF Spec

\* From any time on an address gets at most a burst and the refill since through,
\* for any burst and window, sweeps included (allow, sweep).
THEOREM LimitKept == Spec => []RateBound
<1>1. IInv => RateBound
  <2>. SUFFICES ASSUME IInv, NEW k \in Key, NEW t \in 0 .. now
                PROVE  granted[k][t] * Cost <= Full + (now - t) * Burst
    BY DEF RateBound
  <2>1. now \in Time /\ now \in Nat BY DEF IInv, TypeOK, Time
  <2>2. t \in Time BY <2>1, ParameterAssumption DEF Time
  <2>3. granted[k][t] \in Nat BY <2>2 DEF IInv, TypeOK
  <2>4. granted[k][t] * Cost \in Nat BY <2>3, CostTimes
  <2>5. (now - t) * Burst \in Nat BY <2>1, TimesNat
  <2>6. granted[k][t] * Cost + Level(k) <= Full + (now - t) * Burst BY DEF IInv, Accounted
  <2>7. Level(k) \in Nat BY LevelType, FullFacts
  <2>. QED BY <2>4, <2>5, <2>6, <2>7, FullFacts
<1>. QED BY <1>1, Invariance, PTL

----------------------------------------------------------------------------
(* Retry-After *)

LEMMA RetryStep ==
    ASSUME IInv, Next, NEW k \in Key, told[k] # NotTold, told[k] <= now,
           answer' = <<k, FALSE>>
    PROVE  FALSE
<1>1. Level(k) >= Cost BY DEF IInv, EnoughByThen
<1>2. CASE Tick \/ Restart BY <1>2 DEF Tick, Restart, NoAnswer
<1>3. ASSUME NEW j \in Key, Pass(j) PROVE FALSE
  <2>1. <<j, TRUE>> = <<k, FALSE>> BY <1>3 DEF Pass
  <2>2. <<j, TRUE>>[2] = TRUE /\ <<k, FALSE>>[2] = FALSE OBVIOUS
  <2>. QED BY <2>1, <2>2
<1>4. ASSUME NEW j \in Key, Refuse(j) PROVE FALSE
  <2>1. j = k BY <1>4 DEF Refuse
  <2>2. TokensOf(k) < Cost BY <1>4, <2>1 DEF Refuse
  <2>3. TokensOf(k) = Level(k) /\ Level(k) \in 0 .. Full BY TokensAreLevel, LevelType
  <2>. QED BY <1>1, <2>2, <2>3, FullFacts
<1>. QED BY <1>2, <1>3, <1>4 DEF Next, Allow

\* A client that waits for the Retry-After it was given is let through, unless
\* another request of its address was meanwhile (rateLimit, allow).
THEOREM RetryAfterSuffices == Spec => RetryIsHonoured
<1>1. IInv /\ [Next]_vars =>
        [ \A k \in Key :
            told[k] # NotTold /\ told[k] <= now => answer' # <<k, FALSE>> ]_vars
  BY RetryStep
<1>. QED BY <1>1, Invariance, PTL DEF Spec, RetryIsHonoured

----------------------------------------------------------------------------
(* The refinement of Quota *)

LEMMA QuotaInit == Init => Promise!Init
<1>. SUFFICES ASSUME Init PROVE Promise!Init OBVIOUS
<1>1. \A k \in Key : Level(k) = Full BY DEF Init, Level
<1>. QED BY <1>1 DEF Init, Promise!Init, Promise!NoAnswer, NoAnswer

LEMMA QuotaPass ==
    ASSUME IInv, NEW k \in Key, Pass(k)
    PROVE  Promise!Pass(k)
<1> DEFINE l == Level(k)
<1>1. l \in 0 .. Full /\ TokensOf(k) = l BY LevelType, TokensAreLevel
<1>2. l >= Cost /\ Store(k, l - Cost) BY <1>1 DEF Pass
<1>3. l - Cost \in 0 .. Full BY <1>1, <1>2, FullFacts
<1>4. \A i \in Key : Level(i)' = IF i = k THEN l - Cost ELSE Level(i)
  BY <1>2, <1>3, StoreLevel
<1>5. [i \in Key |-> Level(i)]' = [[i \in Key |-> Level(i)] EXCEPT ![k] = l - Cost]
  BY <1>4
<1>. QED BY <1>2, <1>5 DEF Promise!Pass, Pass

LEMMA QuotaRefuse ==
    ASSUME IInv, NEW k \in Key, Refuse(k)
    PROVE  Promise!Refuse(k)
<1> DEFINE l == Level(k)
<1>1. l \in 0 .. Full /\ TokensOf(k) = l BY LevelType, TokensAreLevel
<1>2. l < Cost /\ Store(k, l) BY <1>1 DEF Refuse
<1>3. \A i \in Key : Level(i)' = Level(i) BY <1>1, <1>2, StoreLevel
<1>4. [i \in Key |-> Level(i)]' = [i \in Key |-> Level(i)] BY <1>3
<1>. QED BY <1>2, <1>4 DEF Promise!Refuse, Refuse

LEMMA QuotaTick ==
    ASSUME IInv, Tick
    PROVE  Promise!Tick
<1>1. \A i \in Key : Level(i)' = Capped(Level(i) + Burst) BY TickLevel
<1>2. \A i \in Key : Level(i)' = IF Level(i) + Burst > Full THEN Full ELSE Level(i) + Burst
  BY <1>1 DEF Capped
<1>3. answer' = NoAnswer BY DEF Tick
<1>. QED BY <1>2, <1>3 DEF Promise!Tick, Promise!NoAnswer, NoAnswer

LEMMA QuotaStep == IInv /\ [Next]_vars => [Promise!Next]_(Promise!vars)
<1>. SUFFICES ASSUME IInv, [Next]_vars PROVE [Promise!Next]_(Promise!vars) OBVIOUS
<1>1. CASE UNCHANGED vars
  <2>1. answer' = answer /\ \A k \in Key : Level(k)' = Level(k)
    BY <1>1 DEF vars, Level, Refilled, Capped, Full
  <2>. QED BY <2>1 DEF Promise!vars
<1>2. CASE Tick BY <1>2, QuotaTick DEF Promise!Next
<1>3. CASE Restart
  <2>1. \A k \in Key : Level(k)' = Full BY <1>3, RestartLevel
  <2>2. Promise!Restart
    BY <1>3, <2>1 DEF Restart, Promise!Restart, Promise!NoAnswer, NoAnswer
  <2>. QED BY <2>2 DEF Promise!Next
<1>4. CASE \E k \in Key : Allow(k)
  BY <1>4, QuotaPass, QuotaRefuse DEF Allow, Promise!Next
<1>. QED BY <1>1, <1>2, <1>3, <1>4 DEF Next

\* Buckets, lazy refill and sweep implement a plain allowance of every address
\* (the whole of rateLimiter).
THEOREM Refinement == Spec => KeepsQuota
  BY QuotaInit, QuotaStep, Invariance, PTL DEF Spec, KeepsQuota, Promise!Spec
=============================================================================
