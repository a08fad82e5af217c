---------------------------- MODULE ChoicesProofs ----------------------------
(***************************************************************************)
(* Theorems about what decides the provider, the model, the key and the    *)
(* settings a request meets: the credential pool, the failure policy, the  *)
(* configuration, the models on offer and the reasoning policy; for any    *)
(* number of keys, calls, updates, providers and refreshes.  Each has an   *)
(* inductive invariant (PoolInv, FailureInv, ConfigInv, CatalogInv,        *)
(* ReasoningInv) that implies its property.                                *)
(***************************************************************************)
EXTENDS ProviderChoices, FiniteSetTheorems, NaturalsInduction, WellFoundedInduction, TLAPS

-----------------------------------------------------------------------------
(* CredentialPool.                                                          *)
LEMMA Least ==
  ASSUME NEW T \in SUBSET Nat, T # {}
  PROVE  Min(T) \in T /\ \A m \in T : Min(T) <= m
<1> DEFINE R == {ss \in Nat \X Nat : ss[1] < ss[2]}
<1>1. IsWellFoundedOn(R, Nat)
  BY NatLessThanWellFounded DEF OpToRel
<1> HIDE DEF R
<1>2. PICK x \in T : \A y \in T : ~ (<<y, x>> \in R)
  BY <1>1, WFMin
<1>3. \A y \in T : ~ (y < x)
  BY <1>2 DEF R
<1>4. \E z \in T : \A y \in T : z <= y
  BY <1>2, <1>3
<1>5. (CHOOSE z \in T : \A y \in T : z <= y) \in T
      /\ \A y \in T : (CHOOSE z \in T : \A m \in T : z <= m) <= y
  BY <1>4
<1> QED
  BY <1>5 DEF Min

LEMMA MaxOfTwo ==
  ASSUME NEW a \in Nat, NEW b \in Nat
  PROVE  Max({a, b}) \in Nat /\ Max({a, b}) >= a /\ Max({a, b}) >= b
<1>1. \E x \in {a, b} : \A y \in {a, b} : x >= y
  OBVIOUS
<1> QED
  BY <1>1 DEF Max

LEMMA KeysFacts ==
  /\ Cardinality(Keys) \in Nat \ {0}
  /\ \A k : k \in Keys <=> k \in Nat /\ k < Cardinality(Keys)
  /\ Keys \subseteq Nat /\ 0 \in Keys
<1>1. Cardinality(Keys) \in Nat /\ Cardinality(Keys) # 0
  BY PoolAssumption, FS_CardinalityType, FS_EmptySet
<1>2. Keys = 0 .. Cardinality(Keys) - 1
  BY PoolAssumption
<1> QED
  BY <1>1, <1>2

LEMMA CooldownsPositive ==
  ASSUME NEW f \in Nat \ {0}, NEW d \in Cooldowns(f)
  PROVE  d \in Nat \ {0}
<1>1. Backoff(f) \in Nat \ {0}
  <2>1. CASE f \in 1 .. 6
    <3>1. f = 1 \/ f = 2 \/ f = 3 \/ f = 4 \/ f = 5 \/ f = 6
      BY <2>1
    <3> QED
      BY <3>1 DEF Backoff
  <2>2. CASE ~(f <= 6)
    BY <2>2 DEF Backoff
  <2> QED
    BY <2>1, <2>2
<1>2. \A r \in RetryAfters : Max({1, r}) \in Nat \ {0}
  <2> TAKE r \in RetryAfters
  <2>1. r \in Nat
    BY PoolAssumption
  <2> QED
    BY <2>1, MaxOfTwo
<1>3. d = 300 \/ d = Backoff(f) \/ \E r \in RetryAfters : d = Max({1, r})
  BY DEF Cooldowns
<1>4. CASE \E r \in RetryAfters : d = Max({1, r})
  BY <1>2, <1>4
<1>5. CASE d = 300 \/ d = Backoff(f)
  BY <1>1, <1>5
<1> QED
  BY <1>3, <1>4, <1>5

LEMMA KeysMinimum ==
  ASSUME NEW cool \in [Keys -> Nat]
  PROVE  \E k \in Keys : \A other \in Keys : cool[k] <= cool[other]
<1> DEFINE T == {cool[k] : k \in Keys}
<1>1. T \in SUBSET Nat /\ T # {}
  BY KeysFacts
<1>2. Min(T) \in T /\ \A m \in T : Min(T) <= m
  <2> HIDE DEF T
  <2> QED
    BY <1>1, Least
<1>3. PICK k \in Keys : Min(T) = cool[k]
  BY <1>2
<1>4. \A other \in Keys : cool[other] \in T
  OBVIOUS
<1> QED
  BY <1>2, <1>3, <1>4

(* What is selected is a key, a healthy one if there is one.               *)
LEMMA Selected ==
  ASSUME NEW cool \in [Keys -> Nat], NEW k \in Selectable(cool)
  PROVE  /\ k \in Keys
         /\ Healthy(cool) # {} => k \in Healthy(cool)
         /\ Healthy(cool) # {} /\ strategy = "round_robin" => k \in RoundRobin(Healthy(cool))
<1>1. Healthy(cool) \in SUBSET Nat /\ Healthy(cool) \subseteq Keys
  BY KeysFacts DEF Healthy
<1>2. CASE Healthy(cool) = {}
  <2> DEFINE T == {j \in Keys : \A other \in Keys : cool[j] <= cool[other]}
  <2>1. T \in SUBSET Nat /\ T # {} /\ T \subseteq Keys
    BY KeysMinimum, KeysFacts
  <2>2. k = Min(T)
    BY <1>2 DEF Selectable, NextBack
  <2>3. Min(T) \in T
    <3> HIDE DEF T
    <3> QED
      BY <2>1, Least
  <2> HIDE DEF T
  <2> QED
    BY <1>2, <2>1, <2>2, <2>3
<1>3. CASE Healthy(cool) # {}
  <2>1. Min(Healthy(cool)) \in Healthy(cool)
    BY <1>1, <1>3, Least
  <2>2. \/ strategy = "sequential" /\ k = Min(Healthy(cool))
        \/ strategy = "round_robin" /\ k \in RoundRobin(Healthy(cool))
        \/ strategy # "round_robin" /\ k \in Healthy(cool)
    BY <1>3 DEF Selectable
  <2>3. RoundRobin(Healthy(cool)) \subseteq Healthy(cool)
    BY DEF RoundRobin
  <2> QED
    BY <1>1, <2>1, <2>2, <2>3
<1> QED
  BY <1>2, <1>3

LEMMA CooledBySafe ==
  ASSUME NEW k \in Keys, cooling \in [Keys -> Nat], NEW d \in Nat \ {0}
  PROVE  /\ CooledBy(k, d) \in [Keys -> Nat] /\ CooledBy(k, d)[k] > 0
         /\ \A j \in Keys : CooledBy(k, d)[j] >= cooling[j]
<1>1. Max({cooling[k], d}) \in Nat /\ Max({cooling[k], d}) >= cooling[k] /\ Max({cooling[k], d}) >= d
  BY MaxOfTwo
<1> QED
  BY <1>1 DEF CooledBy
-----------------------------------------------------------------------------
(* While a call goes on it has had as many keys as attempts, and all but   *)
(* the last are cooling, or else every key was cooling at some choice.     *)
KeysCounted(c) ==
    call[c].at = "calling" /\ ~disturbed[c] =>
        \/ cooled[c] = Keys
        \/ /\ call[c].key \in tried[c] /\ Cardinality(tried[c]) = call[c].attempts
           /\ \A k \in tried[c] \ {call[c].key} : cooling[k] > 0

Unused(c) ==
    /\ call[c].at # "calling" => call[c].attempts = 0
    /\ call[c].at = "new" => tried[c] = {} /\ cooled[c] = {}

(* A key that was passed over is as much nearer to the cursor.             *)
InTurn == \A k \in Keys : passedOver[k] + Distance(k) < Cardinality(Keys)

PoolInv ==
    /\ PoolTypeOK /\ InTurn /\ ExhaustionIsHonest
    /\ \A c \in PoolCallers : KeysCounted(c) /\ Unused(c)

LEMMA PoolInitInv == PoolInit => PoolInv
<1> SUFFICES ASSUME PoolInit PROVE PoolInv
  OBVIOUS
<1>1. PoolTypeOK
  <2>1. 0 \in Keys /\ 0 \in 0 .. Cardinality(Keys) /\ 0 \in 0 .. MaxKeyFailures
    BY KeysFacts, PoolAssumption
  <2>2. /\ strategy \in Strategies /\ cooling \in [Keys -> Nat]
        /\ failed \in [Keys -> 0 .. MaxKeyFailures] /\ cursor \in Keys
        /\ passedOver \in [Keys -> Nat]
    BY <2>1 DEF PoolInit
  <2>3. call \in [PoolCallers -> [at : CallStates, key : Keys, attempts : 0 .. Cardinality(Keys)]]
    BY <2>1 DEF PoolInit, CallStates
  <2>4. /\ retired \in BOOLEAN /\ keyClients \subseteq Keys /\ unclosed \subseteq Keys
        /\ dropped \subseteq Keys
    BY DEF PoolInit
  <2>5. /\ tried \in [PoolCallers -> SUBSET Keys] /\ cooled \in [PoolCallers -> SUBSET Keys]
        /\ disturbed \in [PoolCallers -> BOOLEAN]
    BY DEF PoolInit
  <2> QED
    BY <2>2, <2>3, <2>4, <2>5 DEF PoolTypeOK
<1>2. InTurn
  BY KeysFacts DEF PoolInit, InTurn, Distance
<1>3. \A c \in PoolCallers : KeysCounted(c) /\ Unused(c)
  BY DEF PoolInit, KeysCounted, Unused
<1>4. ExhaustionIsHonest
  BY DEF PoolInit, ExhaustionIsHonest
<1> QED
  BY <1>1, <1>2, <1>3, <1>4 DEF PoolInv

LEMMA SelectTypes ==
  ASSUME PoolTypeOK, NEW c \in PoolCallers, NEW cool \in [Keys -> Nat],
         call[c].attempts < Cardinality(Keys), Select(c, cool)
  PROVE  /\ cursor' \in Keys /\ keyClients' \subseteq Keys
         /\ call' \in [PoolCallers -> [at : CallStates, key : Keys, attempts : 0 .. Cardinality(Keys)]]
         /\ passedOver' \in [Keys -> Nat]
         /\ tried' \in [PoolCallers -> SUBSET Keys] /\ cooled' \in [PoolCallers -> SUBSET Keys]
<1>1. PICK k \in Selectable(cool) :
       /\ call' = [call EXCEPT ![c] = [at |-> "calling", key |-> k,
                                       attempts |-> call[c].attempts + 1]]
       /\ cursor' = IF strategy = "round_robin" /\ Healthy(cool) # {}
                    THEN After(k) ELSE cursor
       /\ keyClients' = keyClients \union {k}
       /\ passedOver' = [j \in Keys |-> IF \/ strategy # "round_robin"
                                           \/ j = k \/ j \notin Healthy(cool)
                                        THEN 0 ELSE passedOver[j] + 1]
       /\ tried' = [tried EXCEPT ![c] = @ \union {k}]
       /\ cooled' = [cooled EXCEPT ![c] = @ \union (Keys \ Healthy(cool))]
  BY DEF Select
<1>2. k \in Keys
  BY Selected
<1>3. cursor' \in Keys /\ keyClients' \subseteq Keys /\ passedOver' \in [Keys -> Nat]
  <2>1. After(k) \in Keys /\ cursor \in Keys
    BY <1>2, KeysFacts DEF PoolTypeOK, After
  <2>2. cursor' \in Keys
    BY <1>1, <2>1
  <2>3. keyClients' \subseteq Keys
    BY <1>1, <1>2 DEF PoolTypeOK
  <2>4. passedOver \in [Keys -> Nat]
    BY DEF PoolTypeOK
  <2>5. passedOver' \in [Keys -> Nat]
    BY <1>1, <2>4
  <2> QED
    BY <2>2, <2>3, <2>5
<1>4. [at |-> "calling", key |-> k, attempts |-> call[c].attempts + 1]
        \in [at : CallStates, key : Keys, attempts : 0 .. Cardinality(Keys)]
  BY <1>2, KeysFacts DEF PoolTypeOK, CallStates
<1>5. call' \in [PoolCallers -> [at : CallStates, key : Keys, attempts : 0 .. Cardinality(Keys)]]
  BY <1>1, <1>4 DEF PoolTypeOK
<1>6. tried' \in [PoolCallers -> SUBSET Keys] /\ cooled' \in [PoolCallers -> SUBSET Keys]
  BY <1>1, <1>2 DEF PoolTypeOK
<1> QED
  BY <1>3, <1>5, <1>6

LEMMA SelectTurns ==
  ASSUME PoolTypeOK, InTurn, NEW c \in PoolCallers, NEW cool \in [Keys -> Nat], Select(c, cool)
  PROVE  InTurn'
<1>1. PICK k \in Selectable(cool) :
       /\ cursor' = IF strategy = "round_robin" /\ Healthy(cool) # {}
                    THEN After(k) ELSE cursor
       /\ passedOver' = [j \in Keys |-> IF \/ strategy # "round_robin"
                                           \/ j = k \/ j \notin Healthy(cool)
                                        THEN 0 ELSE passedOver[j] + 1]
  BY DEF Select
<1>2. /\ k \in Keys
      /\ Healthy(cool) # {} /\ strategy = "round_robin" => k \in RoundRobin(Healthy(cool))
  BY Selected
<1>3. cursor \in Keys /\ cursor' \in Keys /\ passedOver \in [Keys -> Nat]
  BY <1>1, <1>2, KeysFacts DEF PoolTypeOK, After
<1> DEFINE n == Cardinality(Keys)
<1>n. /\ n \in Nat /\ cursor \in Nat /\ cursor < n /\ cursor' \in Nat /\ cursor' < n
      /\ k \in Nat /\ k < n /\ \A i \in Keys : i \in Nat /\ i < n
  BY <1>2, <1>3, KeysFacts
<1> SUFFICES ASSUME NEW j \in Keys
             PROVE  passedOver'[j] + Distance(j)' < Cardinality(Keys)
  BY DEF InTurn
<1>4. CASE strategy # "round_robin" \/ j = k \/ j \notin Healthy(cool)
  <2>1. passedOver'[j] = 0
    BY <1>1, <1>4
  <2>2. Distance(j)' \in Nat /\ Distance(j)' < Cardinality(Keys)
    <3> HIDE DEF n
    <3>1. Distance(j)' = IF j >= cursor' THEN j - cursor' ELSE j + n - cursor'
      BY DEF Distance, n
    <3> QED
      BY <1>n, <3>1 DEF n
  <2> QED
    BY <2>1, <2>2
<1>5. CASE strategy = "round_robin" /\ j # k /\ j \in Healthy(cool)
  <2>1. passedOver'[j] = passedOver[j] + 1 /\ cursor' = After(k)
    BY <1>1, <1>5
  <2>2. Distance(k) <= Distance(j)
    BY <1>2, <1>5 DEF RoundRobin
  <2>3. Distance(j)' < Distance(j)
    <3> HIDE DEF n
    <3>1. /\ Distance(j)' = IF j >= cursor' THEN j - cursor' ELSE j + n - cursor'
          /\ Distance(j) = IF j >= cursor THEN j - cursor ELSE j + n - cursor
          /\ Distance(k) = IF k >= cursor THEN k - cursor ELSE k + n - cursor
          /\ cursor' = IF k + 1 < n THEN k + 1 ELSE 0
      BY <2>1 DEF Distance, After, n
    <3> QED
      BY <1>n, <1>5, <2>2, <3>1
  <2>4. Distance(j) \in Nat /\ Distance(j)' \in Nat /\ passedOver[j] \in Nat
    <3>1. passedOver[j] \in Nat
      BY <1>3
    <3>2. n = Cardinality(Keys)
      OBVIOUS
    <3> HIDE DEF n
    <3>3. Distance(j) \in Nat
      BY <1>n, <3>2 DEF Distance
    <3>4. Distance(j)' \in Nat
      BY <1>n, <3>2 DEF Distance
    <3> QED
      BY <3>1, <3>3, <3>4
  <2> QED
    BY <2>1, <2>3, <2>4, KeysFacts DEF InTurn
<1> QED
  BY <1>4, <1>5

LEMMA SelectCounts ==
  ASSUME PoolTypeOK, NEW c \in PoolCallers, NEW cool \in [Keys -> Nat], Select(c, cool),
         cooling' = cool,
         \/ cooled[c] = Keys
         \/ Cardinality(tried[c]) = call[c].attempts /\ \A k \in tried[c] : cool[k] > 0
  PROVE  \/ cooled'[c] = Keys
         \/ /\ call'[c].key \in tried'[c] /\ Cardinality(tried'[c]) = call'[c].attempts
            /\ \A k \in tried'[c] \ {call'[c].key} : cooling'[k] > 0
<1>1. PICK k \in Selectable(cool) :
       /\ call' = [call EXCEPT ![c] = [at |-> "calling", key |-> k,
                                       attempts |-> call[c].attempts + 1]]
       /\ tried' = [tried EXCEPT ![c] = @ \union {k}]
       /\ cooled' = [cooled EXCEPT ![c] = @ \union (Keys \ Healthy(cool))]
  BY DEF Select
<1>2. k \in Keys /\ (Healthy(cool) # {} => k \in Healthy(cool))
  BY Selected
<1>3. /\ call'[c] = [at |-> "calling", key |-> k, attempts |-> call[c].attempts + 1]
      /\ tried'[c] = tried[c] \union {k} /\ cooled'[c] = cooled[c] \union (Keys \ Healthy(cool))
      /\ tried[c] \subseteq Keys /\ cooled[c] \subseteq Keys
  BY <1>1 DEF PoolTypeOK
<1>4. CASE cooled[c] = Keys \/ Healthy(cool) = {}
  BY <1>3, <1>4
<1>5. CASE Healthy(cool) # {} /\ Cardinality(tried[c]) = call[c].attempts
           /\ \A j \in tried[c] : cool[j] > 0
  <2>1. k \notin tried[c]
    BY <1>2, <1>5 DEF Healthy
  <2>2. IsFiniteSet(tried[c])
    BY <1>3, FS_Subset, PoolAssumption
  <2>3. Cardinality(tried[c] \union {k}) = Cardinality(tried[c]) + 1
    BY <2>1, <2>2, FS_AddElement
  <2>4. \A j \in tried'[c] \ {k} : cooling'[j] > 0
    BY <1>3, <1>5
  <2> QED
    BY <1>3, <1>5, <2>3, <2>4
<1> QED
  BY <1>4, <1>5

(* Nobody else's call changes, and no key that others failed with comes     *)
(* back, when a call selects.                                               *)
LEMMA SelectOthers ==
  ASSUME PoolInv, NEW c \in PoolCallers, NEW cool \in [Keys -> Nat], Select(c, cool),
         cooling' = cool, \A k \in Keys : cool[k] >= cooling[k], disturbed' = disturbed,
         NEW d \in PoolCallers, d # c
  PROVE  /\ KeysCounted(d)' /\ Unused(d)'
         /\ call'[d] = call[d] /\ tried'[d] = tried[d] /\ cooled'[d] = cooled[d]
<1>1. call'[d] = call[d] /\ tried'[d] = tried[d] /\ cooled'[d] = cooled[d]
  BY DEF Select, PoolInv, PoolTypeOK
<1>2. KeysCounted(d) /\ Unused(d) /\ tried[d] \subseteq Keys /\ cooling \in [Keys -> Nat]
  BY DEF PoolInv, PoolTypeOK
<1>3. \A k \in tried[d] : cooling[k] > 0 => cooling'[k] > 0
  BY <1>2
<1>4. KeysCounted(d)'
  BY <1>1, <1>2, <1>3 DEF KeysCounted
<1>5. Unused(d)'
  BY <1>1, <1>2 DEF Unused
<1> QED
  BY <1>1, <1>4, <1>5

LEMMA SelectItself ==
  ASSUME PoolTypeOK, NEW c \in PoolCallers, NEW cool \in [Keys -> Nat], Select(c, cool)
  PROVE  call'[c].at = "calling"
BY DEF Select, PoolTypeOK

LEMMA StartCallStep ==
  ASSUME PoolInv, NEW c \in PoolCallers, StartCall(c)
  PROVE  PoolInv'
<1>1. /\ call[c].at = "new" /\ Select(c, cooling) /\ cooling' = cooling
      /\ disturbed' = disturbed
  BY DEF StartCall
<1>2. /\ PoolTypeOK /\ InTurn /\ ExhaustionIsHonest /\ cooling \in [Keys -> Nat]
      /\ Unused(c)
  BY DEF PoolInv, PoolTypeOK
<1>3. call[c].attempts = 0 /\ tried[c] = {}
  BY <1>1, <1>2 DEF Unused
<1>4. call[c].attempts < Cardinality(Keys)
  BY <1>3, KeysFacts
<1>5. PoolTypeOK'
  <2>1. /\ cursor' \in Keys /\ keyClients' \subseteq Keys
        /\ call' \in [PoolCallers -> [at : CallStates, key : Keys, attempts : 0 .. Cardinality(Keys)]]
        /\ passedOver' \in [Keys -> Nat]
        /\ tried' \in [PoolCallers -> SUBSET Keys] /\ cooled' \in [PoolCallers -> SUBSET Keys]
    BY <1>1, <1>2, <1>4, SelectTypes
  <2>2. UNCHANGED <<strategy, cooling, failed, retired, unclosed, dropped, disturbed>>
    BY DEF StartCall
  <2> QED
    BY <1>2, <2>1, <2>2 DEF PoolTypeOK, CallStates
<1>6. InTurn'
  BY <1>1, <1>2, SelectTurns
<1>7. KeysCounted(c)' /\ Unused(c)'
  <2>1. call'[c].at = "calling"
    BY <1>1, <1>2, SelectItself
  <2>2. Cardinality(tried[c]) = call[c].attempts /\ \A k \in tried[c] : cooling[k] > 0
    BY <1>3, FS_EmptySet
  <2>3. \/ cooled'[c] = Keys
        \/ /\ call'[c].key \in tried'[c] /\ Cardinality(tried'[c]) = call'[c].attempts
           /\ \A k \in tried'[c] \ {call'[c].key} : cooling'[k] > 0
    BY <1>1, <1>2, <2>2, SelectCounts
  <2> QED
    BY <2>1, <2>3 DEF KeysCounted, Unused
<1>8. \A k \in Keys : cooling[k] >= cooling[k]
  BY <1>2
<1>9. ASSUME NEW d \in PoolCallers, d # c
      PROVE  /\ KeysCounted(d)' /\ Unused(d)'
             /\ call'[d] = call[d] /\ tried'[d] = tried[d] /\ cooled'[d] = cooled[d]
  BY <1>1, <1>2, <1>8, <1>9, SelectOthers
<1>10. ExhaustionIsHonest'
  <2>1. call'[c].at = "calling"
    BY <1>1, <1>2, SelectItself
  <2> QED
    BY <1>1, <1>2, <1>9, <2>1 DEF ExhaustionIsHonest
<1> QED
  BY <1>5, <1>6, <1>7, <1>9, <1>10 DEF PoolInv

(* A call that ends leaves the cursor, and the other calls, alone.          *)
LEMMA EndOthers ==
  ASSUME PoolInv, NEW c \in PoolCallers, NEW how \in CallStates \ {"new", "calling"},
         EndCall(c, how), NEW d \in PoolCallers, d # c
  PROVE  call'[d] = call[d] /\ tried'[d] = tried[d] /\ cooled'[d] = cooled[d]
BY DEF EndCall, PoolInv, PoolTypeOK

LEMMA EndTypes ==
  ASSUME PoolInv, NEW c \in PoolCallers, NEW how \in CallStates \ {"new", "calling"},
         EndCall(c, how)
  PROVE  /\ cursor' = cursor /\ keyClients' = keyClients /\ passedOver' = passedOver
         /\ call' \in [PoolCallers -> [at : CallStates, key : Keys, attempts : 0 .. Cardinality(Keys)]]
         /\ tried' \in [PoolCallers -> SUBSET Keys] /\ cooled' \in [PoolCallers -> SUBSET Keys]
         /\ call'[c] = [at |-> how, key |-> 0, attempts |-> 0]
<1>1. [at |-> how, key |-> 0, attempts |-> 0]
        \in [at : CallStates, key : Keys, attempts : 0 .. Cardinality(Keys)]
  BY KeysFacts
<1> QED
  BY <1>1 DEF EndCall, PoolInv, PoolTypeOK

LEMMA EndTurns ==
  ASSUME InTurn, cursor' = cursor, passedOver' = passedOver
  PROVE  InTurn'
BY DEF InTurn, Distance

LEMMA CallFallsBackStep ==
  ASSUME PoolInv, NEW c \in PoolCallers, CallFallsBack(c)
  PROVE  PoolInv'
<1> DEFINE key == call[c].key
<1>1. /\ call[c].at = "calling" /\ failed[key] < MaxKeyFailures
      /\ UNCHANGED <<strategy, retired, unclosed, dropped>> /\ disturbed' = disturbed
  BY DEF CallFallsBack
<1>2. PICK cooldown \in Cooldowns(failed[key] + 1) :
        /\ cooling' = CooledBy(key, cooldown)
        /\ failed' = [failed EXCEPT ![key] = @ + 1]
        /\ IF MayTryAgain(c)
           THEN Select(c, CooledBy(key, cooldown)) ELSE EndCall(c, "exhausted")
  BY DEF CallFallsBack
<1>3. /\ PoolTypeOK /\ InTurn /\ ExhaustionIsHonest /\ cooling \in [Keys -> Nat]
      /\ KeysCounted(c) /\ key \in Keys /\ failed \in [Keys -> 0 .. MaxKeyFailures]
      /\ call[c].attempts \in 0 .. Cardinality(Keys) /\ tried[c] \subseteq Keys
      /\ cooled[c] \subseteq Keys
  BY DEF PoolInv, PoolTypeOK
<1>4. cooldown \in Nat \ {0}
  <2>1. failed[key] + 1 \in Nat \ {0}
    BY <1>3, PoolAssumption
  <2> QED
    BY <2>1, CooldownsPositive
<1> DEFINE cool == CooledBy(key, cooldown)
<1>5. cool \in [Keys -> Nat] /\ cool[key] > 0 /\ \A j \in Keys : cool[j] >= cooling[j]
  BY <1>3, <1>4, CooledBySafe
<1>6. cooling' \in [Keys -> Nat] /\ failed' \in [Keys -> 0 .. MaxKeyFailures]
  <2>1. failed[key] + 1 \in 0 .. MaxKeyFailures
    BY <1>1, <1>3, PoolAssumption
  <2> QED
    BY <1>2, <1>3, <1>5, <2>1
<1>7. ~disturbed[c] =>
        \/ cooled[c] = Keys
        \/ Cardinality(tried[c]) = call[c].attempts /\ \A k \in tried[c] : cool[k] > 0
  <2> SUFFICES ASSUME ~disturbed[c], cooled[c] # Keys
               PROVE  Cardinality(tried[c]) = call[c].attempts /\ \A k \in tried[c] : cool[k] > 0
    OBVIOUS
  <2>1. /\ Cardinality(tried[c]) = call[c].attempts
        /\ \A k \in tried[c] \ {key} : cooling[k] > 0
    BY <1>1, <1>3 DEF KeysCounted
  <2> HIDE DEF cool, key
  <2> QED
    BY <1>3, <1>5, <2>1
<1>8. CASE MayTryAgain(c)
  <2>1. Select(c, cool)
    BY <1>2, <1>8
  <2>2. call[c].attempts < Cardinality(Keys) /\ cooling' = cool
    BY <1>2, <1>8 DEF MayTryAgain
  <2> HIDE DEF cool
  <2>3. /\ cursor' \in Keys /\ keyClients' \subseteq Keys
        /\ call' \in [PoolCallers -> [at : CallStates, key : Keys, attempts : 0 .. Cardinality(Keys)]]
        /\ passedOver' \in [Keys -> Nat]
        /\ tried' \in [PoolCallers -> SUBSET Keys] /\ cooled' \in [PoolCallers -> SUBSET Keys]
    BY <1>3, <1>5, <2>1, <2>2, SelectTypes
  <2>4. PoolTypeOK'
    BY <1>1, <1>3, <1>6, <2>3 DEF PoolTypeOK, CallStates
  <2>5. InTurn'
    BY <1>3, <1>5, <2>1, SelectTurns
  <2>6. call'[c].at = "calling"
    BY <1>3, <1>5, <2>1, SelectItself
  <2>7. KeysCounted(c)' /\ Unused(c)'
    <3>1. CASE disturbed[c]
      BY <1>1, <2>6, <3>1 DEF KeysCounted, Unused
    <3>2. CASE ~disturbed[c]
      <4>1. \/ cooled'[c] = Keys
            \/ /\ call'[c].key \in tried'[c] /\ Cardinality(tried'[c]) = call'[c].attempts
               /\ \A k \in tried'[c] \ {call'[c].key} : cooling'[k] > 0
        BY <1>3, <1>5, <1>7, <2>1, <2>2, <3>2, SelectCounts
      <4> QED
        BY <2>6, <4>1 DEF KeysCounted, Unused
    <3> QED
      BY <3>1, <3>2
  <2>8. ASSUME NEW d \in PoolCallers, d # c
        PROVE  /\ KeysCounted(d)' /\ Unused(d)'
               /\ call'[d] = call[d] /\ tried'[d] = tried[d] /\ cooled'[d] = cooled[d]
    BY <1>1, <1>5, <2>1, <2>2, <2>8, SelectOthers
  <2>9. ExhaustionIsHonest'
    BY <1>1, <1>3, <2>6, <2>8 DEF ExhaustionIsHonest
  <2> QED
    BY <2>4, <2>5, <2>7, <2>8, <2>9 DEF PoolInv
<1>9. CASE ~MayTryAgain(c)
  <2>1. EndCall(c, "exhausted") /\ cooling' = cool
    BY <1>2, <1>9
  <2> HIDE DEF cool
  <2>2. "exhausted" \in CallStates \ {"new", "calling"}
    BY DEF CallStates
  <2>3. /\ cursor' = cursor /\ keyClients' = keyClients /\ passedOver' = passedOver
        /\ call' \in [PoolCallers -> [at : CallStates, key : Keys, attempts : 0 .. Cardinality(Keys)]]
        /\ tried' \in [PoolCallers -> SUBSET Keys] /\ cooled' \in [PoolCallers -> SUBSET Keys]
        /\ call'[c] = [at |-> "exhausted", key |-> 0, attempts |-> 0]
    BY <2>1, <2>2, EndTypes
  <2>4. PoolTypeOK'
    BY <1>1, <1>3, <1>6, <2>3 DEF PoolTypeOK, CallStates
  <2>5. InTurn'
    BY <1>3, <2>3, EndTurns
  <2>6. tried'[c] = tried[c] /\ cooled'[c] = cooled[c]
    BY <2>1 DEF EndCall
  <2>7. ~disturbed[c] => Keys \ tried[c] \subseteq cooled[c]
    <3> SUFFICES ASSUME ~disturbed[c], cooled[c] # Keys PROVE tried[c] = Keys
      BY <1>3
    <3>1. Cardinality(tried[c]) = call[c].attempts
      BY <1>7
    <3>2. call[c].attempts = Cardinality(Keys)
      BY <1>3, <1>9, KeysFacts DEF MayTryAgain
    <3> QED
      BY <1>3, <3>1, <3>2, FS_Subset, PoolAssumption
  <2>8. ASSUME NEW d \in PoolCallers, d # c
        PROVE  /\ KeysCounted(d)' /\ Unused(d)'
               /\ call'[d] = call[d] /\ tried'[d] = tried[d] /\ cooled'[d] = cooled[d]
    <3>1. call'[d] = call[d] /\ tried'[d] = tried[d] /\ cooled'[d] = cooled[d]
      BY <2>1, <2>2, <2>8, EndOthers
    <3>2. KeysCounted(d) /\ Unused(d) /\ tried[d] \subseteq Keys
      BY DEF PoolInv, PoolTypeOK
    <3>3. \A k \in tried[d] : cooling[k] > 0 => cooling'[k] > 0
      BY <1>3, <1>5, <2>1, <3>2
    <3>4. KeysCounted(d)'
      BY <1>1, <3>1, <3>2, <3>3 DEF KeysCounted
    <3>5. Unused(d)'
      BY <3>1, <3>2 DEF Unused
    <3> QED
      BY <3>1, <3>4, <3>5
  <2>9. ExhaustionIsHonest'
    BY <1>1, <1>3, <2>6, <2>7, <2>8 DEF ExhaustionIsHonest
  <2>10. KeysCounted(c)' /\ Unused(c)'
    BY <2>3 DEF KeysCounted, Unused
  <2> QED
    BY <2>4, <2>5, <2>8, <2>9, <2>10 DEF PoolInv
<1> QED
  BY <1>8, <1>9

LEMMA CallSucceedsStep ==
  ASSUME PoolInv, NEW c \in PoolCallers, CallSucceeds(c)
  PROVE  PoolInv'
<1> DEFINE key == call[c].key
<1>1. /\ EndCall(c, "done") /\ cooling' = [cooling EXCEPT ![key] = 0]
      /\ failed' = [failed EXCEPT ![key] = 0]
      /\ UNCHANGED <<strategy, retired, unclosed, dropped>>
  BY DEF CallSucceeds, RecordSuccess
<1>2. \A d \in PoolCallers : disturbed'[d] =
        (d # c /\ (disturbed[d] \/ (key \in tried[d] /\ cooling[key] > 0)))
  BY DEF CallSucceeds
<1>3. disturbed' \in [PoolCallers -> BOOLEAN]
  <2>1. disturbed' = [d \in PoolCallers |->
          /\ d # c
          /\ disturbed[d] \/ (key \in tried[d] /\ cooling[key] > 0)]
    BY DEF CallSucceeds
  <2> QED
    BY <2>1, Zenon
<1>4. /\ PoolTypeOK /\ InTurn /\ ExhaustionIsHonest /\ cooling \in [Keys -> Nat]
      /\ key \in Keys /\ failed \in [Keys -> 0 .. MaxKeyFailures]
  BY DEF PoolInv, PoolTypeOK
<1>5. "done" \in CallStates \ {"new", "calling"}
  BY DEF CallStates
<1>6. /\ cursor' = cursor /\ keyClients' = keyClients /\ passedOver' = passedOver
      /\ call' \in [PoolCallers -> [at : CallStates, key : Keys, attempts : 0 .. Cardinality(Keys)]]
      /\ tried' \in [PoolCallers -> SUBSET Keys] /\ cooled' \in [PoolCallers -> SUBSET Keys]
      /\ call'[c] = [at |-> "done", key |-> 0, attempts |-> 0]
  BY <1>1, <1>5, EndTypes
<1>7. cooling' \in [Keys -> Nat] /\ failed' \in [Keys -> 0 .. MaxKeyFailures]
  BY <1>1, <1>4, PoolAssumption
<1>8. PoolTypeOK'
  BY <1>1, <1>3, <1>4, <1>6, <1>7 DEF PoolTypeOK, CallStates
<1>9. InTurn'
  BY <1>4, <1>6, EndTurns
<1>10. ASSUME NEW d \in PoolCallers, d # c
       PROVE  /\ KeysCounted(d)' /\ Unused(d)'
              /\ call'[d] = call[d] /\ tried'[d] = tried[d] /\ cooled'[d] = cooled[d]
              /\ disturbed[d] => disturbed'[d]
  <2>1. call'[d] = call[d] /\ tried'[d] = tried[d] /\ cooled'[d] = cooled[d]
    BY <1>1, <1>5, <1>10, EndOthers
  <2>2. KeysCounted(d) /\ Unused(d) /\ tried[d] \subseteq Keys
    BY DEF PoolInv, PoolTypeOK
  <2>3. disturbed[d] => disturbed'[d]
    BY <1>2, <1>10
  <2>4. ~disturbed'[d] => \A k \in tried[d] : cooling[k] > 0 => cooling'[k] > 0
    <3>1. ~disturbed'[d] => ~(key \in tried[d] /\ cooling[key] > 0)
      BY <1>2, <1>10
    <3>2. \A k \in Keys : k # key => cooling'[k] = cooling[k]
      BY <1>1, <1>4
    <3> QED
      BY <2>2, <3>1, <3>2
  <2>5. KeysCounted(d)'
    BY <2>1, <2>2, <2>3, <2>4 DEF KeysCounted
  <2>6. Unused(d)'
    BY <2>1, <2>2 DEF Unused
  <2> QED
    BY <2>1, <2>3, <2>5, <2>6
<1>11. KeysCounted(c)' /\ Unused(c)'
  BY <1>6 DEF KeysCounted, Unused
<1>12. ExhaustionIsHonest'
  BY <1>4, <1>6, <1>10 DEF ExhaustionIsHonest
<1> QED
  BY <1>8, <1>9, <1>10, <1>11, <1>12 DEF PoolInv

LEMMA CallRaisesStep ==
  ASSUME PoolInv, NEW c \in PoolCallers, CallRaises(c)
  PROVE  PoolInv'
<1>1. /\ EndCall(c, "raised")
      /\ UNCHANGED <<strategy, cooling, failed, retired, unclosed, dropped, disturbed>>
  BY DEF CallRaises
<1>2. PoolTypeOK /\ InTurn /\ ExhaustionIsHonest
  BY DEF PoolInv
<1>3. "raised" \in CallStates \ {"new", "calling"}
  BY DEF CallStates
<1>4. /\ cursor' = cursor /\ keyClients' = keyClients /\ passedOver' = passedOver
      /\ call' \in [PoolCallers -> [at : CallStates, key : Keys, attempts : 0 .. Cardinality(Keys)]]
      /\ tried' \in [PoolCallers -> SUBSET Keys] /\ cooled' \in [PoolCallers -> SUBSET Keys]
      /\ call'[c] = [at |-> "raised", key |-> 0, attempts |-> 0]
  BY <1>1, <1>3, EndTypes
<1>5. PoolTypeOK'
  BY <1>1, <1>2, <1>4 DEF PoolTypeOK, CallStates
<1>6. InTurn'
  BY <1>2, <1>4, EndTurns
<1>7. ASSUME NEW d \in PoolCallers, d # c
      PROVE  /\ KeysCounted(d)' /\ Unused(d)'
             /\ call'[d] = call[d] /\ tried'[d] = tried[d] /\ cooled'[d] = cooled[d]
  <2>1. call'[d] = call[d] /\ tried'[d] = tried[d] /\ cooled'[d] = cooled[d]
    BY <1>1, <1>3, <1>7, EndOthers
  <2>2. KeysCounted(d) /\ Unused(d)
    BY DEF PoolInv
  <2>3. KeysCounted(d)'
    BY <1>1, <2>1, <2>2 DEF KeysCounted
  <2>4. Unused(d)'
    BY <2>1, <2>2 DEF Unused
  <2> QED
    BY <2>1, <2>3, <2>4
<1>8. KeysCounted(c)' /\ Unused(c)'
  BY <1>4 DEF KeysCounted, Unused
<1>9. ExhaustionIsHonest'
  BY <1>1, <1>2, <1>4, <1>7 DEF ExhaustionIsHonest
<1> QED
  BY <1>5, <1>6, <1>7, <1>8, <1>9 DEF PoolInv

LEMMA CloseSteps ==
  ASSUME PoolInv, CloseClients \/ \E k \in Keys : CloseClient(k)
  PROVE  PoolInv'
<1>1. UNCHANGED <<strategy, cooling, failed, cursor, call, passedOver, tried, cooled, disturbed>>
  BY DEF CloseClients, CloseClient
<1>2. /\ retired' \in BOOLEAN /\ keyClients' \subseteq Keys /\ unclosed' \subseteq Keys
      /\ dropped' \subseteq Keys
  BY DEF CloseClients, CloseClient, PoolInv, PoolTypeOK
<1>3. PoolTypeOK'
  BY <1>1, <1>2 DEF PoolInv, PoolTypeOK, CallStates
<1>4. InTurn'
  BY <1>1 DEF PoolInv, InTurn, Distance
<1>5. ExhaustionIsHonest' /\ \A c \in PoolCallers : KeysCounted(c)' /\ Unused(c)'
  BY <1>1 DEF PoolInv, ExhaustionIsHonest, KeysCounted, Unused
<1> QED
  BY <1>3, <1>4, <1>5 DEF PoolInv

LEMMA CooldownEndsStep ==
  ASSUME PoolInv, CooldownEnds
  PROVE  PoolInv'
<1> DEFINE remains == {cooling[k] : k \in Keys \ Healthy(cooling)}
           next == Min(remains)
           over == {k \in Keys : remains # {} /\ cooling[k] = next}
<1>1. /\ remains # {}
      /\ cooling' = [k \in Keys |-> IF cooling[k] = 0 THEN 0 ELSE cooling[k] - next]
      /\ UNCHANGED <<strategy, failed, cursor, keyClients, retired, unclosed, dropped, call,
                     passedOver, tried, cooled>>
  BY DEF CooldownEnds
<1>2. disturbed' = [d \in PoolCallers |->
         disturbed[d] \/ (call[d].at = "calling" /\ tried[d] \intersect over # {})]
  BY DEF CooldownEnds
<1>3. disturbed' \in [PoolCallers -> BOOLEAN]
  <2> HIDE DEF over
  <2> QED
    BY <1>2, Zenon
<1>4. cooling \in [Keys -> Nat]
  BY DEF PoolInv, PoolTypeOK
<1>5. next \in remains /\ \A m \in remains : next <= m
  <2>1. remains \in SUBSET Nat
    BY <1>4
  <2> HIDE DEF remains
  <2> QED
    BY <1>1, <2>1, Least
<1>6. \A k \in Keys : cooling[k] # 0 => cooling[k] \in remains
  BY DEF Healthy
<1>7. next \in Nat
  BY <1>4, <1>5
<1> HIDE DEF next, remains
<1>8. cooling' \in [Keys -> Nat]
  BY <1>1, <1>4, <1>5, <1>6, <1>7
<1>9. PoolTypeOK'
  BY <1>1, <1>3, <1>8 DEF PoolInv, PoolTypeOK, CallStates
<1>10. InTurn'
  BY <1>1 DEF PoolInv, InTurn, Distance
<1>11. ASSUME NEW d \in PoolCallers
       PROVE  KeysCounted(d)' /\ Unused(d)' /\ (disturbed[d] => disturbed'[d])
  <2>1. KeysCounted(d) /\ Unused(d) /\ tried[d] \subseteq Keys
    BY DEF PoolInv, PoolTypeOK
  <2>2. disturbed[d] => disturbed'[d]
    BY <1>2
  <2>3. call[d].at = "calling" /\ ~disturbed'[d] => \A k \in tried[d] : cooling[k] # next
    BY <1>1, <1>2, <2>1
  <2>4. \A k \in Keys : cooling[k] > 0 /\ cooling[k] # next => cooling'[k] > 0
    BY <1>1, <1>4, <1>5, <1>6, <1>7
  <2>5. KeysCounted(d)'
    BY <1>1, <2>1, <2>2, <2>3, <2>4 DEF KeysCounted
  <2>6. Unused(d)'
    BY <1>1, <2>1 DEF Unused
  <2> QED
    BY <2>2, <2>5, <2>6
<1>12. ExhaustionIsHonest'
  BY <1>1, <1>11 DEF PoolInv, ExhaustionIsHonest
<1> QED
  BY <1>9, <1>10, <1>11, <1>12 DEF PoolInv

LEMMA PoolStepInv == PoolInv /\ [PoolNext]_poolVars => PoolInv'
<1> SUFFICES ASSUME PoolInv, [PoolNext]_poolVars PROVE PoolInv'
  OBVIOUS
<1>1. ASSUME NEW c \in PoolCallers, StartCall(c) PROVE PoolInv'
  BY <1>1, StartCallStep
<1>2. ASSUME NEW c \in PoolCallers, CallSucceeds(c) PROVE PoolInv'
  BY <1>2, CallSucceedsStep
<1>3. ASSUME NEW c \in PoolCallers, CallFallsBack(c) PROVE PoolInv'
  BY <1>3, CallFallsBackStep
<1>4. ASSUME NEW c \in PoolCallers, CallRaises(c) PROVE PoolInv'
  BY <1>4, CallRaisesStep
<1>5. CASE CloseClients \/ \E k \in Keys : CloseClient(k)
  BY <1>5, CloseSteps
<1>6. CASE CooldownEnds
  BY <1>6, CooldownEndsStep
<1>7. CASE UNCHANGED poolVars
  <2>1. UNCHANGED <<strategy, cooling, failed, cursor, keyClients, retired, unclosed,
              dropped, call, passedOver, tried, cooled, disturbed>>
    BY <1>7 DEF poolVars
  <2>2. PoolTypeOK'
    BY <2>1 DEF PoolInv, PoolTypeOK, CallStates
  <2>3. InTurn'
    BY <2>1 DEF PoolInv, InTurn, Distance
  <2>4. ExhaustionIsHonest' /\ \A c \in PoolCallers : KeysCounted(c)' /\ Unused(c)'
    BY <2>1 DEF PoolInv, ExhaustionIsHonest, KeysCounted, Unused
  <2> QED
    BY <2>2, <2>3, <2>4 DEF PoolInv
<1> QED
  BY <1>1, <1>2, <1>3, <1>4, <1>5, <1>6, <1>7 DEF PoolNext

LEMMA PoolInvServes == PoolInv => KeysServed
<1> SUFFICES ASSUME PoolInv, NEW k \in Keys PROVE passedOver[k] < Cardinality(Keys)
  BY DEF PoolInv, KeysServed, NoStarvedKey
<1>1. /\ passedOver[k] \in Nat /\ cursor \in Keys
      /\ passedOver[k] + Distance(k) < Cardinality(Keys)
  BY DEF PoolInv, PoolTypeOK, InTurn
<1>2. Distance(k) \in Nat
  BY <1>1, KeysFacts DEF Distance
<1> QED
  BY <1>1, <1>2, KeysFacts

-----------------------------------------------------------------------------
(* FailurePolicy.                                                           *)
(* What an exception can be.                                                *)
LEMMA ExceptionFacts ==
  ASSUME NEW e \in Exceptions
  PROVE  /\ e.class \in Classes /\ e.status \in StatusesOf(e.class)
         /\ e.body \in {0, 400, 429, 503} /\ e.marker \in Markers
         /\ e.quirk \in {"none", "context_window", "degraded"}
         /\ e.class \notin OpenAIStatus \union {"APIError"} => e.body = 0
         /\ e.class \notin OpenAIStatus \union {"APIError", "Other"} => e.marker = "none"
         /\ e.class # "BadRequest" => e.quirk = "none"
BY DEF Exceptions

LEMMA MarkerFacts ==
  ASSUME NEW m \in Markers
  PROVE  StatusOfMarker(m) \in {0, 429, 500, 503}
BY DEF Markers, StatusOfMarker

KindFits(k, s) ==
    /\ k = "rate_limit" <=> s = 429
    /\ k = "overloaded" <=> s = 529
    /\ k = "authentication" <=> s = 401
    /\ k = "permission" <=> s = 403

(* StatusFits, of one failure.                                              *)
Fits(r) ==
    /\ r.retryable \in BOOLEAN /\ (r.retryable => RetryableStatus(r.status))
    /\ KindFits(r.kind, r.status)

LEMMA RetryFits ==
  ASSUME NEW f, f.retryable = TRUE, KindFits(f.kind, f.status), RetryableStatus(f.status)
  PROVE  Fits(f)
BY Zenon DEF Fits

LEMMA FinalFits ==
  ASSUME NEW f, f.retryable = FALSE, KindFits(f.kind, f.status)
  PROVE  Fits(f)
BY Zenon DEF Fits

LEMMA FailureFields ==
  ASSUME NEW k, NEW s, NEW r
  PROVE  Failure(k, s, r).kind = k /\ Failure(k, s, r).status = s /\ Failure(k, s, r).retryable = r
BY DEF Failure

LEMMA KnownClasses ==
  ASSUME NEW e \in Exceptions, e.class \in {"Authentication", "Permission", "RateLimit", "BadRequest",
                                             "APITimeout", "APIConnection"}
  PROVE  Fits(Classified(e)) /\ Classified(e).retryable = IsRetryable(e)
<1>1. CASE e.class = "Authentication"
  <2>1. Classified(e) = Failure("authentication", 401, FALSE)
    BY <1>1 DEF Classified
  <2>2. /\ Classified(e).kind = "authentication" /\ Classified(e).status = 401
        /\ Classified(e).retryable = FALSE
    BY <2>1 DEF Failure
  <2>3. KindFits(Classified(e).kind, Classified(e).status)
    BY <2>2 DEF KindFits
  <2>5. Fits(Classified(e))
    BY <2>2, <2>3, FinalFits
  <2>6. IsRetryable(e) = FALSE
    BY <1>1 DEF IsRetryable
  <2> QED
    BY <2>2, <2>5, <2>6
<1>2. CASE e.class = "Permission"
  <2>1. Classified(e) = Failure("permission", 403, FALSE)
    BY <1>2 DEF Classified
  <2>2. /\ Classified(e).kind = "permission" /\ Classified(e).status = 403
        /\ Classified(e).retryable = FALSE
    BY <2>1 DEF Failure
  <2>3. KindFits(Classified(e).kind, Classified(e).status)
    BY <2>2 DEF KindFits
  <2>5. Fits(Classified(e))
    BY <2>2, <2>3, FinalFits
  <2>6. IsRetryable(e) = FALSE
    BY <1>2 DEF IsRetryable
  <2> QED
    BY <2>2, <2>5, <2>6
<1>3. CASE e.class = "RateLimit"
  <2>1. Classified(e) = Failure("rate_limit", 429, TRUE)
    BY <1>3 DEF Classified
  <2>2. /\ Classified(e).kind = "rate_limit" /\ Classified(e).status = 429
        /\ Classified(e).retryable = TRUE
    BY <2>1 DEF Failure
  <2>3. KindFits(Classified(e).kind, Classified(e).status)
    BY <2>2 DEF KindFits
  <2>4. RetryableStatus(Classified(e).status)
    BY <2>2 DEF RetryableStatus
  <2>5. Fits(Classified(e))
    BY <2>2, <2>3, <2>4, RetryFits
  <2>6. IsRetryable(e) = TRUE
    BY <1>3 DEF IsRetryable, TransientStatus
  <2> QED
    BY <2>2, <2>5, <2>6
<1>4. CASE e.class = "BadRequest"
  <2>1. Classified(e) = Failure("invalid_request", 400, FALSE)
    BY <1>4 DEF Classified
  <2>2. /\ Classified(e).kind = "invalid_request" /\ Classified(e).status = 400
        /\ Classified(e).retryable = FALSE
    BY <2>1 DEF Failure
  <2>3. KindFits(Classified(e).kind, Classified(e).status)
    BY <2>2 DEF KindFits
  <2>5. Fits(Classified(e))
    BY <2>2, <2>3, FinalFits
  <2>6. IsRetryable(e) = FALSE
    BY <1>4 DEF IsRetryable
  <2> QED
    BY <2>2, <2>5, <2>6
<1>5. CASE e.class = "APITimeout"
  <2>1. Classified(e) = Failure("timeout", 500, TRUE)
    BY <1>5 DEF Classified
  <2>2. /\ Classified(e).kind = "timeout" /\ Classified(e).status = 500
        /\ Classified(e).retryable = TRUE
    BY <2>1 DEF Failure
  <2>3. KindFits(Classified(e).kind, Classified(e).status)
    BY <2>2 DEF KindFits
  <2>4. RetryableStatus(Classified(e).status)
    BY <2>2 DEF RetryableStatus
  <2>5. Fits(Classified(e))
    BY <2>2, <2>3, <2>4, RetryFits
  <2>6. IsRetryable(e) = TRUE
    BY <1>5 DEF IsRetryable, Transport
  <2> QED
    BY <2>2, <2>5, <2>6
<1>6. CASE e.class = "APIConnection"
  <2>1. Classified(e) = Failure("unavailable", 500, TRUE)
    BY <1>6 DEF Classified
  <2>2. /\ Classified(e).kind = "unavailable" /\ Classified(e).status = 500
        /\ Classified(e).retryable = TRUE
    BY <2>1 DEF Failure
  <2>3. KindFits(Classified(e).kind, Classified(e).status)
    BY <2>2 DEF KindFits
  <2>4. RetryableStatus(Classified(e).status)
    BY <2>2 DEF RetryableStatus
  <2>5. Fits(Classified(e))
    BY <2>2, <2>3, <2>4, RetryFits
  <2>6. IsRetryable(e) = TRUE
    BY <1>6 DEF IsRetryable, Transport
  <2> QED
    BY <2>2, <2>5, <2>6
<1> QED
  BY <1>1, <1>2, <1>3, <1>4, <1>5, <1>6

LEMMA ServerClass ==
  ASSUME NEW e \in Exceptions, e.class = "InternalServer"
  PROVE  Fits(Classified(e)) /\ Classified(e).retryable = IsRetryable(e)
<1>1. e.status \in {500, 503}
  BY ExceptionFacts DEF StatusesOf
<1>2. TransientStatus(e) = e.status
  BY <1>1 DEF TransientStatus, RetryableStatus
<1>3. IsRetryable(e) = TRUE
  BY <1>1, <1>2 DEF IsRetryable
<1>4. CASE e.marker = "overload"
  <2>1. Classified(e) = Failure("overloaded", 529, TRUE)
    BY <1>4 DEF Classified, ServerFailure, Overloaded
  <2>2. /\ Classified(e).kind = "overloaded" /\ Classified(e).status = 529
        /\ Classified(e).retryable = TRUE
    BY <2>1 DEF Failure
  <2>3. KindFits(Classified(e).kind, Classified(e).status)
    BY <2>2 DEF KindFits
  <2>4. RetryableStatus(Classified(e).status)
    BY <2>2 DEF RetryableStatus
  <2>5. Fits(Classified(e))
    BY <2>2, <2>3, <2>4, RetryFits
  <2> QED
    BY <1>3, <2>2, <2>5
<1>5. CASE e.marker # "overload"
  <2>1. Classified(e) = Failure("upstream", e.status, TRUE)
    BY <1>2, <1>5 DEF Classified, ServerFailure
  <2>2. /\ Classified(e).kind = "upstream" /\ Classified(e).status = e.status
        /\ Classified(e).retryable = TRUE
    BY <2>1 DEF Failure
  <2>3. KindFits(Classified(e).kind, Classified(e).status) /\ RetryableStatus(Classified(e).status)
    BY <1>1, <2>2 DEF KindFits, RetryableStatus
  <2>4. Fits(Classified(e))
    BY <2>2, <2>3, RetryFits
  <2> QED
    BY <1>3, <2>2, <2>4
<1> QED
  BY <1>4, <1>5

LEMMA StatusClasses ==
  ASSUME NEW e \in Exceptions, e.class \in {"OtherStatus", "APIError"}
  PROVE  Fits(Classified(e)) /\ Classified(e).retryable = IsRetryable(e)
<1>1. e.status \in {0, 404, 422} /\ e.body \in {0, 400, 429, 503} /\ e.marker \in Markers
  BY ExceptionFacts DEF StatusesOf
<1>2. TransientStatus(e) = IF RetryableStatus(e.body) THEN e.body ELSE StatusOfMarker(e.marker)
  BY <1>1 DEF TransientStatus, RetryableStatus
<1>3. TransientStatus(e) \in {0, 429, 500, 503}
  BY <1>1, <1>2, MarkerFacts DEF RetryableStatus
<1>4. IsRetryable(e) <=> TransientStatus(e) # 0
  BY DEF IsRetryable, Transport
<1>5. Classified(e) = StatusFailure(e)
  BY DEF Classified
<1>6. CASE TransientStatus(e) = 429
  <2>1. Classified(e) = Failure("rate_limit", 429, TRUE)
    BY <1>5, <1>6 DEF StatusFailure
  <2>2. /\ Classified(e).kind = "rate_limit" /\ Classified(e).status = 429
        /\ Classified(e).retryable = TRUE
    BY <2>1 DEF Failure
  <2>3. KindFits(Classified(e).kind, Classified(e).status)
    BY <2>2 DEF KindFits
  <2>4. RetryableStatus(Classified(e).status)
    BY <2>2 DEF RetryableStatus
  <2>5. Fits(Classified(e))
    BY <2>2, <2>3, <2>4, RetryFits
  <2>6. IsRetryable(e) = TRUE
    BY <1>6 DEF IsRetryable
  <2> QED
    BY <2>2, <2>5, <2>6
<1>7. CASE TransientStatus(e) # 429 /\ e.marker = "overload"
  <2>1. Classified(e) = Failure("overloaded", 529, TRUE)
    BY <1>5, <1>7 DEF StatusFailure, Overloaded
  <2>2. /\ Classified(e).kind = "overloaded" /\ Classified(e).status = 529
        /\ Classified(e).retryable = TRUE
    BY <2>1 DEF Failure
  <2>3. KindFits(Classified(e).kind, Classified(e).status)
    BY <2>2 DEF KindFits
  <2>4. RetryableStatus(Classified(e).status)
    BY <2>2 DEF RetryableStatus
  <2>5. Fits(Classified(e))
    BY <2>2, <2>3, <2>4, RetryFits
  <2>6. TransientStatus(e) # 0
    BY <1>1, <1>2, <1>7 DEF RetryableStatus, StatusOfMarker
  <2>7. IsRetryable(e) = TRUE
    BY <2>6 DEF IsRetryable
  <2> QED
    BY <2>2, <2>5, <2>7
<1>8. CASE TransientStatus(e) # 429 /\ e.marker # "overload"
  <2> DEFINE status == IF TransientStatus(e) # 0 THEN TransientStatus(e)
                       ELSE IF e.status # 0 THEN e.status ELSE 500
  <2>1. Classified(e) = Failure("upstream", status, IsRetryable(e))
    BY <1>5, <1>8 DEF StatusFailure
  <2>2. status \in {404, 422, 500, 503} /\ (TransientStatus(e) # 0 => status \in {500, 503})
    BY <1>1, <1>3, <1>8
  <2> HIDE DEF status
  <2>3. /\ Classified(e).kind = "upstream" /\ Classified(e).status = status
        /\ Classified(e).retryable = IsRetryable(e)
    BY <2>1, FailureFields
  <2>4. KindFits(Classified(e).kind, Classified(e).status)
    BY <2>2, <2>3 DEF KindFits
  <2>5. CASE TransientStatus(e) # 0
    <3>1. IsRetryable(e) = TRUE
      BY <2>5 DEF IsRetryable
    <3>2. RetryableStatus(Classified(e).status)
      BY <2>2, <2>3, <2>5 DEF RetryableStatus
    <3>3. Fits(Classified(e))
      BY <2>3, <2>4, <3>1, <3>2, RetryFits
    <3> QED
      BY <2>3, <3>3
  <2>6. CASE TransientStatus(e) = 0
    <3>1. IsRetryable(e) = FALSE
      BY <2>6 DEF IsRetryable, Transport
    <3>2. Fits(Classified(e))
      BY <2>3, <2>4, <3>1, FinalFits
    <3> QED
      BY <2>3, <3>2
  <2> QED
    BY <2>5, <2>6
<1> QED
  BY <1>6, <1>7, <1>8

LEMMA HttpClass ==
  ASSUME NEW e \in Exceptions, e.class = "HTTPStatus"
  PROVE  Fits(Classified(e)) /\ Classified(e).retryable = IsRetryable(e)
<1>1. e.status \in {400, 401, 403, 404, 422, 429, 500, 503}
  BY ExceptionFacts DEF StatusesOf
<1>2. TransientStatus(e) = IF RetryableStatus(e.status) THEN e.status ELSE 0
  BY DEF TransientStatus
<1>3. IsRetryable(e) <=> e.status \in {429, 500, 503}
  BY <1>1, <1>2 DEF IsRetryable, RetryableStatus, Transport
<1>4. Classified(e) = HttpFailure(e) /\ IsRetryable(e) \in BOOLEAN
  BY DEF Classified, IsRetryable
<1>5. CASE e.status = 401
  <2>1. Classified(e) = Failure("authentication", 401, FALSE)
    BY <1>4, <1>5 DEF HttpFailure, Overloaded
  <2>2. /\ Classified(e).kind = "authentication" /\ Classified(e).status = 401
        /\ Classified(e).retryable = FALSE
    BY <2>1 DEF Failure
  <2>3. KindFits(Classified(e).kind, Classified(e).status)
    BY <2>2 DEF KindFits
  <2>5. Fits(Classified(e))
    BY <2>2, <2>3, FinalFits
  <2>6. IsRetryable(e) = FALSE
    BY <1>5, <1>3
  <2> QED
    BY <2>2, <2>5, <2>6
<1>6. CASE e.status = 403
  <2>1. Classified(e) = Failure("permission", 403, FALSE)
    BY <1>4, <1>6 DEF HttpFailure, Overloaded
  <2>2. /\ Classified(e).kind = "permission" /\ Classified(e).status = 403
        /\ Classified(e).retryable = FALSE
    BY <2>1 DEF Failure
  <2>3. KindFits(Classified(e).kind, Classified(e).status)
    BY <2>2 DEF KindFits
  <2>5. Fits(Classified(e))
    BY <2>2, <2>3, FinalFits
  <2>6. IsRetryable(e) = FALSE
    BY <1>6, <1>3
  <2> QED
    BY <2>2, <2>5, <2>6
<1>7. CASE e.status = 429
  <2>1. Classified(e) = Failure("rate_limit", 429, TRUE)
    BY <1>4, <1>7 DEF HttpFailure, Overloaded
  <2>2. /\ Classified(e).kind = "rate_limit" /\ Classified(e).status = 429
        /\ Classified(e).retryable = TRUE
    BY <2>1 DEF Failure
  <2>3. KindFits(Classified(e).kind, Classified(e).status)
    BY <2>2 DEF KindFits
  <2>4. RetryableStatus(Classified(e).status)
    BY <2>2 DEF RetryableStatus
  <2>5. Fits(Classified(e))
    BY <2>2, <2>3, <2>4, RetryFits
  <2>6. IsRetryable(e) = TRUE
    BY <1>7, <1>3
  <2> QED
    BY <2>2, <2>5, <2>6
<1>8. CASE e.status = 400
  <2>1. Classified(e) = Failure("invalid_request", 400, FALSE)
    BY <1>4, <1>8 DEF HttpFailure, Overloaded
  <2>2. /\ Classified(e).kind = "invalid_request" /\ Classified(e).status = 400
        /\ Classified(e).retryable = FALSE
    BY <2>1 DEF Failure
  <2>3. KindFits(Classified(e).kind, Classified(e).status)
    BY <2>2 DEF KindFits
  <2>5. Fits(Classified(e))
    BY <2>2, <2>3, FinalFits
  <2>6. IsRetryable(e) = FALSE
    BY <1>8, <1>3
  <2> QED
    BY <2>2, <2>5, <2>6
<1>9. CASE e.status = 503
  <2>1. Classified(e) = Failure("overloaded", 529, TRUE)
    BY <1>4, <1>9 DEF HttpFailure, Overloaded
  <2>2. /\ Classified(e).kind = "overloaded" /\ Classified(e).status = 529
        /\ Classified(e).retryable = TRUE
    BY <2>1 DEF Failure
  <2>3. KindFits(Classified(e).kind, Classified(e).status)
    BY <2>2 DEF KindFits
  <2>4. RetryableStatus(Classified(e).status)
    BY <2>2 DEF RetryableStatus
  <2>5. Fits(Classified(e))
    BY <2>2, <2>3, <2>4, RetryFits
  <2>6. IsRetryable(e) = TRUE
    BY <1>9, <1>3
  <2> QED
    BY <2>2, <2>5, <2>6
<1>10. CASE e.status = 404
  <2>1. Classified(e) = Failure("upstream", 404, FALSE)
    <3>1. HttpFailure(e) = Failure("upstream", 404, RetryableStatus(404))
      BY <1>10 DEF HttpFailure
    <3>2. RetryableStatus(404) = FALSE
      BY DEF RetryableStatus
    <3> QED
      BY <1>4, <3>1, <3>2
  <2>2. /\ Classified(e).kind = "upstream" /\ Classified(e).status = 404
        /\ Classified(e).retryable = FALSE
    BY <2>1 DEF Failure
  <2>3. KindFits(Classified(e).kind, Classified(e).status)
    BY <2>2 DEF KindFits
  <2>5. Fits(Classified(e))
    BY <2>2, <2>3, FinalFits
  <2>6. IsRetryable(e) = FALSE
    BY <1>10, <1>3
  <2> QED
    BY <2>2, <2>5, <2>6
<1>12. CASE e.status = 422
  <2>1. Classified(e) = Failure("upstream", 422, FALSE)
    <3>1. HttpFailure(e) = Failure("upstream", 422, RetryableStatus(422))
      BY <1>12 DEF HttpFailure
    <3>2. RetryableStatus(422) = FALSE
      BY DEF RetryableStatus
    <3> QED
      BY <1>4, <3>1, <3>2
  <2>2. /\ Classified(e).kind = "upstream" /\ Classified(e).status = 422
        /\ Classified(e).retryable = FALSE
    BY <2>1 DEF Failure
  <2>3. KindFits(Classified(e).kind, Classified(e).status)
    BY <2>2 DEF KindFits
  <2>5. Fits(Classified(e))
    BY <2>2, <2>3, FinalFits
  <2>6. IsRetryable(e) = FALSE
    BY <1>12, <1>3
  <2> QED
    BY <2>2, <2>5, <2>6
<1>11. CASE e.status = 500
  <2>1. Classified(e) = Failure("upstream", 500, TRUE)
    <3>1. HttpFailure(e) = Failure("upstream", 500, RetryableStatus(500))
      BY <1>11 DEF HttpFailure
    <3>2. RetryableStatus(500) = TRUE
      BY DEF RetryableStatus
    <3> QED
      BY <1>4, <3>1, <3>2
  <2>2. /\ Classified(e).kind = "upstream" /\ Classified(e).status = 500
        /\ Classified(e).retryable = TRUE
    BY <2>1 DEF Failure
  <2>3. KindFits(Classified(e).kind, Classified(e).status)
    BY <2>2 DEF KindFits
  <2>4. RetryableStatus(Classified(e).status)
    BY <2>2 DEF RetryableStatus
  <2>5. Fits(Classified(e))
    BY <2>2, <2>3, <2>4, RetryFits
  <2>6. IsRetryable(e) = TRUE
    BY <1>11, <1>3
  <2> QED
    BY <2>2, <2>5, <2>6
<1> QED
  BY <1>1, <1>5, <1>6, <1>7, <1>8, <1>9, <1>10, <1>11, <1>12

LEMMA PlainClasses ==
  ASSUME NEW e \in Exceptions, e.class \in {"ReadTimeout", "ConnectError", "ReadError",
                                             "RemoteProtocol", "Timeout", "Protocol", "Other"}
  PROVE  Fits(Classified(e)) /\ Classified(e).retryable = IsRetryable(e)
<1>1. PICK kind \in {"timeout", "unavailable", "upstream"} :
         Classified(e) = Failure(kind, 502, IsRetryable(e))
  <2>1. Classified(e) = PlainFailure(e)
    <3>1. e.class \notin {"Authentication", "Permission", "RateLimit", "BadRequest", "APITimeout",
                          "APIConnection", "InternalServer", "OtherStatus", "APIError", "HTTPStatus"}
      OBVIOUS
    <3> QED
      BY <3>1, Zenon DEF Classified
  <2>2. CASE e.class \in {"Timeout", "ReadTimeout"}
    BY <2>1, <2>2 DEF PlainFailure
  <2>3. CASE e.class \in {"ConnectError", "ReadError"}
    BY <2>1, <2>3 DEF PlainFailure
  <2>4. CASE e.class \in {"RemoteProtocol", "Protocol", "Other"}
    BY <2>1, <2>4 DEF PlainFailure
  <2> QED
    BY <2>2, <2>3, <2>4
<1>2. /\ Classified(e).kind = kind /\ Classified(e).status = 502
      /\ Classified(e).retryable = IsRetryable(e)
  BY <1>1, FailureFields
<1>3. KindFits(Classified(e).kind, Classified(e).status) /\ RetryableStatus(Classified(e).status)
  BY <1>2 DEF KindFits, RetryableStatus
<1>4. IsRetryable(e) = TRUE \/ IsRetryable(e) = FALSE
  BY Zenon DEF IsRetryable
<1>5. CASE IsRetryable(e) = TRUE
  BY <1>2, <1>3, <1>5, RetryFits
<1>6. CASE IsRetryable(e) = FALSE
  <2>1. Classified(e).retryable = FALSE
    BY <1>2, <1>6
  <2>2. Fits(Classified(e))
    BY <1>3, <2>1, FinalFits
  <2> QED
    BY <1>2, <2>2
<1> QED
  BY <1>4, <1>5, <1>6

LEMMA ClassifiedFits ==
  ASSUME NEW e \in Exceptions, e.class # "ExecutionFailure"
  PROVE  Fits(Classified(e)) /\ Classified(e).retryable = IsRetryable(e)
<1>1. \/ e.class \in {"Authentication", "Permission", "RateLimit", "BadRequest", "APITimeout",
                       "APIConnection"}
      \/ e.class = "InternalServer" \/ e.class \in {"OtherStatus", "APIError"}
      \/ e.class = "HTTPStatus"
      \/ e.class \in {"ReadTimeout", "ConnectError", "ReadError", "RemoteProtocol", "Timeout",
                       "Protocol", "Other"}
  BY ExceptionFacts DEF Classes, OpenAIStatus, Connection, Http
<1> QED
  BY <1>1, KnownClasses, ServerClass, StatusClasses, HttpClass, PlainClasses
-----------------------------------------------------------------------------
LEMMA OverrideFits ==
  ASSUME NEW e \in Exceptions, Overridden(e)
  PROVE  Fits(Override(e))
<1>1. CASE e.quirk = "degraded"
  <2>1. Override(e) = Failure("overloaded", 529, TRUE)
    BY <1>1 DEF Override, Overloaded
  <2>2. Override(e).kind = "overloaded" /\ Override(e).status = 529 /\ Override(e).retryable = TRUE
    BY <2>1 DEF Failure
  <2>3. KindFits(Override(e).kind, Override(e).status) /\ RetryableStatus(Override(e).status)
    BY <2>2 DEF KindFits, RetryableStatus
  <2> QED
    BY <2>2, <2>3, RetryFits
<1>2. CASE e.quirk # "degraded"
  <2>1. Override(e) = Failure("context_window_exceeded", 400, FALSE)
    BY <1>2 DEF Override, ContextWindowExceeded
  <2>2. /\ Override(e).kind = "context_window_exceeded" /\ Override(e).status = 400
        /\ Override(e).retryable = FALSE
    BY <2>1 DEF Failure
  <2>3. KindFits(Override(e).kind, Override(e).status)
    BY <2>2 DEF KindFits
  <2> QED
    BY <2>2, <2>3, FinalFits
<1> QED
  BY <1>1, <1>2


(* The end of a chain is an exception the policy classifies.                *)
LEMMA BehindFacts ==
  ASSUME NEW e \in Exceptions, NEW f \in Behind(e)
  PROVE  f \in Exceptions /\ f.class # "ExecutionFailure"
<1>1. PICK class \in HiddenHere(e.class) \union HiddenInLibraries(e.class) :
        f = [Bare(class) EXCEPT !.status = IF class = "HTTPStatus" THEN e.status ELSE 0]
  BY DEF Behind
<1>2. f = [class |-> class, status |-> IF class = "HTTPStatus" THEN e.status ELSE 0,
           body |-> 0, marker |-> "none", quirk |-> "none"]
  BY <1>1 DEF Bare
<1>3. class \in {"HTTPStatus", "ReadTimeout", "ConnectError", "ReadError", "RemoteProtocol",
                 "Timeout", "Other"}
  BY <1>1 DEF HiddenHere, HiddenInLibraries
<1>4. CASE class # "HTTPStatus"
  BY <1>2, <1>3, <1>4
  DEF Exceptions, Classes, OpenAIStatus, Connection, Http, Markers, StatusesOf
<1>5. CASE class = "HTTPStatus"
  <2>1. e.class \in OpenAIStatus
    BY <1>1, <1>5 DEF HiddenHere, HiddenInLibraries
  <2>2. e.status \in {400, 401, 403, 404, 422, 429, 500, 503}
    BY <2>1, ExceptionFacts DEF StatusesOf, OpenAIStatus
  <2>3. e.status \in StatusesOf("HTTPStatus")
    BY <2>2 DEF StatusesOf, OpenAIStatus
  <2> QED
    BY <1>2, <1>5, <2>2, <2>3
    DEF Exceptions, Classes, OpenAIStatus, Connection, Http, Markers
<1> QED
  BY <1>4, <1>5

LEMMA ChainFacts ==
  ASSUME NEW chain \in Failures
  PROVE  /\ chain \in Seq(Exceptions) /\ chain # <<>>
         /\ Head(chain) \in Exceptions /\ chain[1] = Head(chain)
         /\ Underlying(chain) \in Exceptions /\ Underlying(chain).class # "ExecutionFailure"
<1>1. CASE chain \in Alone
  <2>1. PICK e \in Exceptions : chain = <<e>> /\ e.class # "ExecutionFailure"
    BY <1>1 DEF Alone
  <2> QED
    BY <2>1 DEF Underlying
<1>2. CASE chain \in HidesOne
  <2>1. PICK e \in Exceptions : chain \in {<<e, f>> : f \in Behind(e)}
    BY <1>2 DEF HidesOne
  <2>2. PICK f \in Behind(e) : chain = <<e, f>>
    BY <2>1
  <2>3. f \in Exceptions /\ f.class # "ExecutionFailure"
    BY BehindFacts
  <2> QED
    BY <2>2, <2>3 DEF Underlying
<1>3. CASE chain \in HidesTwo
  <2>1. PICK e \in Exceptions : chain \in UNION {{<<e, f, g>> : g \in Behind(f)} : f \in Behind(e)}
    BY <1>3 DEF HidesTwo
  <2>2. PICK f \in Behind(e) : chain \in {<<e, f, g>> : g \in Behind(f)}
    BY <2>1
  <2>3. PICK g \in Behind(f) : chain = <<e, f, g>>
    BY <2>2
  <2>4. f \in Exceptions
    BY BehindFacts
  <2>5. g \in Exceptions /\ g.class # "ExecutionFailure"
    BY <2>4, BehindFacts
  <2> QED
    BY <2>3, <2>4, <2>5 DEF Underlying
<1> QED
  BY <1>1, <1>2, <1>3 DEF Failures

(* A refusal hides the error of the execution that led the recovery.        *)
LEMMA RefusalFacts ==
  ASSUME NEW chain \in Failures, NEW refusal, refusal = <<RecoveryExhausted>> \o chain
  PROVE  /\ refusal # <<>> /\ refusal[1] = RecoveryExhausted
         /\ Tail(refusal) = chain /\ Underlying(refusal) = Underlying(chain)
<1>1. chain \in Seq(Exceptions) /\ chain # <<>>
  BY ChainFacts
<1>2. chain \in Seq(Exceptions \union {RecoveryExhausted})
  BY <1>1
<1>3. Len(refusal) = Len(chain) + 1 /\ refusal[1] = RecoveryExhausted /\ refusal # <<>>
  BY <1>2
<1>4. refusal[Len(refusal)] = chain[Len(chain)]
  BY <1>1, <1>2, <1>3
<1>5. Tail(refusal) = chain
  BY <1>1, <1>2, <1>3
<1> QED
  BY <1>3, <1>4, <1>5 DEF Underlying

(* A refusal is final.                                                      *)
LEMMA RefusalFinal == IsRetryableStream(RecoveryExhausted) = FALSE
<1>1. RecoveryExhausted = [class |-> "RecoveryExhausted", status |-> 0, body |-> 0,
                           marker |-> "none", quirk |-> "none"]
  BY DEF RecoveryExhausted, Bare
<1>2. TransientStatus(RecoveryExhausted) = 0
  BY <1>1 DEF TransientStatus, RetryableStatus, StatusOfMarker
<1> QED
  BY <1>1, <1>2 DEF IsRetryableStream, Transport

LEMMA NoException ==
  ASSUME NEW e \in Exceptions
  PROVE  e # RecoveryExhausted
BY ExceptionFacts DEF RecoveryExhausted, Bare, Classes, OpenAIStatus, Connection, Http

(* What is reported of any failure fits, and is what the policy says of the *)
(* error it is about.                                                       *)
LEMMA ReportedFits ==
  ASSUME NEW chain, NEW cause \in Failures, Underlying(chain) = Underlying(cause)
  PROVE  /\ Fits(Reported(chain))
         /\ Reported(chain).retryable = Qualifies(Underlying(chain))
<1>1. Underlying(chain) \in Exceptions /\ Underlying(chain).class # "ExecutionFailure"
  BY ChainFacts
<1>2. Fits(Reported(chain))
  BY <1>1, OverrideFits, ClassifiedFits DEF Reported
<1>3. CASE Overridden(Underlying(chain))
  BY <1>2, <1>3 DEF Reported, Qualifies
<1>4. CASE ~Overridden(Underlying(chain))
  BY <1>1, <1>2, <1>4, ClassifiedFits DEF Reported, Qualifies
<1> QED
  BY <1>2, <1>3, <1>4

(* What qualifies a failure, early and late.                                *)
Judged(e, late) == IF late THEN IsRetryableStream(e) ELSE Qualifies(e)

LEMMA JudgedAlike ==
  ASSUME NEW e \in Exceptions, NEW late \in BOOLEAN,
         ~(late /\ (Overridden(e) \/ e.class = "Permission"))
  PROVE  Judged(e, late) <=> Qualifies(e)
<1>1. CASE late
  <2>1. Qualifies(e) = IsRetryable(e)
    BY <1>1 DEF Qualifies
  <2>2. e.class # "Permission"
    BY <1>1
  <2>3. IsRetryableStream(e) <=> IsRetryable(e)
    BY <2>2, Zenon DEF IsRetryableStream, IsRetryable
  <2> QED
    BY <1>1, <2>1, <2>3 DEF Judged
<1>2. CASE ~late
  BY <1>2 DEF Judged
<1> QED
  BY <1>1, <1>2

(* A failure and what was judged of it.                                     *)
FailureInv ==
    /\ failing # <<>> =>
         /\ Cause \in Failures /\ Underlying(failing) = Underlying(Cause)
         /\ IF RefusedAtGate THEN Qualifies(Head(Cause)) /\ ~accepted
            ELSE qualified = Judged(Head(Cause), accepted)
    /\ accepted \in BOOLEAN
    /\ Told => failing # <<>> /\ reported = Reported(failing) /\ (~qualified \/ left = 0)

LEMMA FailureInitInv == FailureInit => FailureInv
BY DEF FailureInit, FailureInv, Told

LEMMA FailureStepInv == FailureInv /\ [FailureNext]_failureVars => FailureInv'
<1> SUFFICES ASSUME FailureInv, [FailureNext]_failureVars PROVE FailureInv'
  OBVIOUS
<1>1. CASE AttemptFails
  <2>1. PICK chain \in Failures, late \in BOOLEAN :
          /\ failing' = chain /\ accepted' = late
          /\ qualified' = IF late THEN IsRetryableStream(chain[1]) ELSE Qualifies(chain[1])
    BY <1>1 DEF AttemptFails
  <2>2. reported = Unreported /\ reported' = reported
    BY <1>1 DEF AttemptFails
  <2>3. chain[1] = Head(chain) /\ chain # <<>> /\ Head(chain) # RecoveryExhausted
    BY ChainFacts, NoException
  <2>4. ~RefusedAtGate' /\ Cause' = chain
    BY <2>1, <2>3 DEF RefusedAtGate, Cause
  <2>5. qualified' = Judged(Head(chain), accepted')
    BY <2>1, <2>3, Zenon DEF Judged
  <2> QED
    BY <2>1, <2>2, <2>4, <2>5 DEF FailureInv, Told
<1>2. CASE GateRefusesAttempt
  <2>1. PICK chain \in Failures :
          Qualifies(chain[1]) /\ failing' = <<RecoveryExhausted>> \o chain
    BY <1>2 DEF GateRefusesAttempt
  <2>2. /\ reported = Unreported /\ reported' = reported /\ accepted' = FALSE
        /\ qualified' = FALSE
    BY <1>2, RefusalFinal DEF GateRefusesAttempt
  <2>3. /\ failing' # <<>> /\ failing'[1] = RecoveryExhausted
        /\ Tail(failing') = chain /\ Underlying(failing') = Underlying(chain)
    BY <2>1, RefusalFacts
  <2>4. RefusedAtGate' /\ Cause' = chain /\ Qualifies(Head(chain))
    BY <2>1, <2>3, ChainFacts DEF RefusedAtGate, Cause
  <2> QED
    BY <2>2, <2>3, <2>4 DEF FailureInv, Told
<1>3. CASE ReportFailure
  <2>1. /\ failing # <<>> /\ reported' = Reported(failing)
        /\ ~qualified \/ left = 0
        /\ UNCHANGED <<failing, left, accepted, qualified>>
    BY <1>3 DEF ReportFailure
  <2>2. (RefusedAtGate' <=> RefusedAtGate) /\ Cause' = Cause
    BY <2>1 DEF RefusedAtGate, Cause
  <2> QED
    BY <2>1, <2>2 DEF FailureInv
<1>4. CASE UNCHANGED failureVars
  <2>1. (RefusedAtGate' <=> RefusedAtGate) /\ Cause' = Cause /\ (Told' <=> Told)
    BY <1>4 DEF failureVars, RefusedAtGate, Cause, Told
  <2> QED
    BY <1>4, <2>1 DEF failureVars, FailureInv
<1> QED
  BY <1>1, <1>2, <1>3, <1>4 DEF FailureNext

LEMMA FailureInvHonest == FailureInv => FailuresHonest
<1> SUFFICES ASSUME FailureInv, Told PROVE FailuresHonest
  BY DEF FailuresHonest, ReportsEligibility, TellsWhatWasDone, StatusFits
<1>1. /\ reported = Reported(failing) /\ accepted \in BOOLEAN
      /\ Cause \in Failures /\ Underlying(failing) = Underlying(Cause)
      /\ Head(Cause) \in Exceptions /\ (~qualified \/ left = 0)
  BY ChainFacts DEF FailureInv
<1>2. Fits(reported) /\ reported.retryable = Qualifies(Underlying(failing))
  BY <1>1, ReportedFits
<1>3. StatusFits
  BY <1>2 DEF StatusFits, Fits, KindFits
<1>4. ReportsEligibility
  BY <1>2 DEF ReportsEligibility
<1>5. ASSUME Qualifies(Head(Cause)) <=> Qualifies(Underlying(Cause)),
             ~(accepted /\ (Overridden(Head(Cause)) \/ Head(Cause).class = "Permission"))
      PROVE  reported.retryable <=> RefusedAtGate \/ (qualified /\ left = 0)
  <2>1. reported.retryable <=> Qualifies(Head(Cause))
    BY <1>1, <1>2, <1>5
  <2>2. CASE RefusedAtGate
    BY <2>1, <2>2 DEF FailureInv, Told
  <2>3. CASE ~RefusedAtGate
    <3>1. qualified = Judged(Head(Cause), accepted)
      BY <2>3, <1>1 DEF FailureInv, Told
    <3> QED
      BY <1>1, <1>5, <2>1, <2>3, <3>1, JudgedAlike
  <2> QED
    BY <2>2, <2>3
<1>6. TellsWhatWasDone
  BY <1>5 DEF TellsWhatWasDone
<1> QED
  BY <1>3, <1>4, <1>6 DEF FailuresHonest

-----------------------------------------------------------------------------
(* AdminConfig: which layer decides.                                        *)
(* The greatest element of a set of integers.                              *)
LEMMA GreatestIs ==
  ASSUME NEW S, S \subseteq Int, NEW m, m \in S, \A i \in S : ~(i > m)
  PROVE  Max(S) = m
<1>1. m \in S /\ S \subseteq Int
  OBVIOUS
<1>2. \A i \in S : m >= i
  <2> SUFFICES ASSUME NEW i \in S PROVE m >= i
    OBVIOUS
  <2>1. i \in Int /\ m \in Int /\ ~(i > m)
    OBVIOUS
  <2> QED
    BY <2>1
<1>3. Max(S) \in S /\ \A i \in S : Max(S) >= i
  BY <1>1, <1>2 DEF Max
<1>4. Max(S) \in Int /\ m \in Int /\ m >= Max(S) /\ Max(S) >= m
  BY <1>1, <1>2, <1>3
<1> QED
  BY <1>4

(* The layer that decides is the highest one that defines the key.          *)
LEMMA DecidesIs ==
  ASSUME NEW k, NEW layers, DOMAIN layers \subseteq Int, NEW m \in DOMAIN layers,
         k \in DOMAIN layers[m],
         \A i \in DOMAIN layers : i > m => k \notin DOMAIN layers[i]
  PROVE  Decides(k, layers) = m
<1> DEFINE defining == {i \in DOMAIN layers : k \in DOMAIN layers[i]}
<1>1. m \in defining /\ defining \subseteq Int /\ \A i \in defining : ~(i > m)
  OBVIOUS
<1> HIDE DEF defining
<1>2. Max(defining) = m
  BY <1>1, GreatestIs
<1> QED
  BY <1>2 DEF Decides, defining

(* Five layers, the first of which defines the key.                         *)
LEMMA FiveLayers ==
  ASSUME NEW k, NEW a, NEW b, NEW c, NEW d, NEW e, k \in DOMAIN a
  PROVE  LET layers == <<a, b, c, d, e>>
         IN  /\ Decides(k, layers) =
                  IF k \in DOMAIN e THEN 5 ELSE IF k \in DOMAIN d THEN 4
                  ELSE IF k \in DOMAIN c THEN 3 ELSE IF k \in DOMAIN b THEN 2 ELSE 1
             /\ ValueIn(k, layers) =
                  IF k \in DOMAIN e THEN e[k] ELSE IF k \in DOMAIN d THEN d[k]
                  ELSE IF k \in DOMAIN c THEN c[k] ELSE IF k \in DOMAIN b THEN b[k] ELSE a[k]
<1> DEFINE layers == <<a, b, c, d, e>>
<1>1. /\ DOMAIN layers = 1 .. 5
      /\ layers[1] = a /\ layers[2] = b /\ layers[3] = c /\ layers[4] = d /\ layers[5] = e
  OBVIOUS
<1>2. \A i \in 1 .. 5 : i = 1 \/ i = 2 \/ i = 3 \/ i = 4 \/ i = 5
  OBVIOUS
<1> HIDE DEF layers
<1>3. CASE k \in DOMAIN e
  <2>1. Decides(k, layers) = 5
    BY <1>1, <1>3, DecidesIs
  <2> QED
    BY <1>1, <1>3, <2>1 DEF ValueIn, layers
<1>4. CASE k \notin DOMAIN e /\ k \in DOMAIN d
  <2>1. \A i \in DOMAIN layers : i > 4 => k \notin DOMAIN layers[i]
    BY <1>1, <1>2, <1>4
  <2>2. Decides(k, layers) = 4
    BY <1>1, <1>4, <2>1, DecidesIs
  <2> QED
    BY <1>1, <1>4, <2>2 DEF ValueIn, layers
<1>5. CASE k \notin DOMAIN e /\ k \notin DOMAIN d /\ k \in DOMAIN c
  <2>1. \A i \in DOMAIN layers : i > 3 => k \notin DOMAIN layers[i]
    BY <1>1, <1>2, <1>5
  <2>2. Decides(k, layers) = 3
    BY <1>1, <1>5, <2>1, DecidesIs
  <2> QED
    BY <1>1, <1>5, <2>2 DEF ValueIn, layers
<1>6. CASE k \notin DOMAIN e /\ k \notin DOMAIN d /\ k \notin DOMAIN c /\ k \in DOMAIN b
  <2>1. \A i \in DOMAIN layers : i > 2 => k \notin DOMAIN layers[i]
    BY <1>1, <1>2, <1>6
  <2>2. Decides(k, layers) = 2
    BY <1>1, <1>6, <2>1, DecidesIs
  <2> QED
    BY <1>1, <1>6, <2>2 DEF ValueIn, layers
<1>7. CASE k \notin DOMAIN e /\ k \notin DOMAIN d /\ k \notin DOMAIN c /\ k \notin DOMAIN b
  <2>1. \A i \in DOMAIN layers : i > 1 => k \notin DOMAIN layers[i]
    BY <1>1, <1>2, <1>7
  <2>2. Decides(k, layers) = 1
    BY <1>1, <1>7, <2>1, DecidesIs
  <2> QED
    BY <1>1, <1>7, <2>2 DEF ValueIn, layers
<1> QED
  BY <1>3, <1>4, <1>5, <1>6, <1>7

(* Three files, one of which defines the key.                               *)
LEMMA ThreeFiles ==
  ASSUME NEW k, NEW b, NEW c, NEW d,
         k \in DOMAIN b \/ k \in DOMAIN c \/ k \in DOMAIN d
  PROVE  ValueIn(k, <<b, c, d>>) =
             IF k \in DOMAIN d THEN d[k] ELSE IF k \in DOMAIN c THEN c[k] ELSE b[k]
<1> DEFINE layers == <<b, c, d>>
<1>1. DOMAIN layers = 1 .. 3 /\ layers[1] = b /\ layers[2] = c /\ layers[3] = d
  OBVIOUS
<1>2. \A i \in 1 .. 3 : i = 1 \/ i = 2 \/ i = 3
  OBVIOUS
<1> HIDE DEF layers
<1>3. CASE k \in DOMAIN d
  <2>1. Decides(k, layers) = 3
    BY <1>1, <1>3, DecidesIs
  <2> QED
    BY <1>1, <1>3, <2>1 DEF ValueIn, layers
<1>4. CASE k \notin DOMAIN d /\ k \in DOMAIN c
  <2>1. \A i \in DOMAIN layers : i > 2 => k \notin DOMAIN layers[i]
    BY <1>1, <1>2, <1>4
  <2>2. Decides(k, layers) = 2
    BY <1>1, <1>4, <2>1, DecidesIs
  <2> QED
    BY <1>1, <1>4, <2>2 DEF ValueIn, layers
<1>5. CASE k \notin DOMAIN d /\ k \notin DOMAIN c /\ k \in DOMAIN b
  <2>1. \A i \in DOMAIN layers : i > 1 => k \notin DOMAIN layers[i]
    BY <1>1, <1>2, <1>5
  <2>2. Decides(k, layers) = 1
    BY <1>1, <1>5, <2>1, DecidesIs
  <2> QED
    BY <1>1, <1>5, <2>2 DEF ValueIn, layers
<1> QED
  BY <1>3, <1>4, <1>5

LEMMA TwoLayers ==
  ASSUME NEW k, NEW a, NEW b, k \in DOMAIN a
  PROVE  ValueIn(k, <<a, b>>) = IF k \in DOMAIN b THEN b[k] ELSE a[k]
<1> DEFINE layers == <<a, b>>
<1>1. DOMAIN layers = 1 .. 2 /\ layers[1] = a /\ layers[2] = b
  OBVIOUS
<1>2. \A i \in 1 .. 2 : i = 1 \/ i = 2
  OBVIOUS
<1> HIDE DEF layers
<1>3. CASE k \in DOMAIN b
  <2>1. Decides(k, layers) = 2
    BY <1>1, <1>3, DecidesIs
  <2> QED
    BY <1>1, <1>3, <2>1 DEF ValueIn, layers
<1>4. CASE k \notin DOMAIN b
  <2>1. \A i \in DOMAIN layers : i > 1 => k \notin DOMAIN layers[i]
    BY <1>1, <1>2, <1>4
  <2>2. Decides(k, layers) = 1
    BY <1>1, <1>4, <2>1, DecidesIs
  <2> QED
    BY <1>1, <1>4, <2>2 DEF ValueIn, layers
<1> QED
  BY <1>3, <1>4

LEMMA KeysAre ==
  /\ ConfigKeys = {"token", "policy"}
  /\ Manifest["token"].secret = TRUE /\ Manifest["token"].restart = TRUE
  /\ Manifest["token"].dotenvFirst = TRUE
  /\ Manifest["policy"].secret = FALSE /\ Manifest["policy"].restart = FALSE
  /\ Manifest["policy"].dotenvFirst = FALSE
  /\ DOMAIN Template = ConfigKeys /\ DOMAIN Defaults = ConfigKeys
  /\ RetiredKey \notin ConfigKeys /\ RetiredName = "policy"
  BY DEF ConfigKeys, Manifest, Template, Defaults, RetiredKey, RetiredName
(* What the sources amount to, now and after a step.                        *)
LEMMA FilesMean ==
  ASSUME NEW k
  PROVE  /\ InFiles(k) <=> k \in DOMAIN repo \/ k \in DOMAIN managed
                                \/ k \in DOMAIN explicitFile
         /\ InFiles(k) => ValueIn(k, EnvFiles) =
              IF k \in DOMAIN explicitFile THEN explicitFile[k]
              ELSE IF k \in DOMAIN managed THEN managed[k] ELSE repo[k]
<1>1. /\ EnvFiles = <<repo, managed, explicitFile>>
      /\ DOMAIN EnvFiles = 1 .. 3 /\ EnvFiles[1] = repo
      /\ EnvFiles[2] = managed /\ EnvFiles[3] = explicitFile
  BY DEF EnvFiles
<1>2. \A i \in 1 .. 3 : i = 1 \/ i = 2 \/ i = 3
  OBVIOUS
<1>3. InFiles(k) <=> k \in DOMAIN repo \/ k \in DOMAIN managed
                         \/ k \in DOMAIN explicitFile
  BY <1>1, <1>2 DEF InFiles
<1> QED
  BY <1>1, <1>3, ThreeFiles

LEMMA FilesMeanNext ==
  ASSUME NEW k
  PROVE  /\ InFiles(k)' <=> k \in DOMAIN repo' \/ k \in DOMAIN managed'
                                \/ k \in DOMAIN explicitFile'
         /\ InFiles(k)' => ValueIn(k, EnvFiles)' =
              IF k \in DOMAIN explicitFile' THEN explicitFile'[k]
              ELSE IF k \in DOMAIN managed' THEN managed'[k] ELSE repo'[k]
<1>1. /\ EnvFiles' = <<repo', managed', explicitFile'>>
      /\ DOMAIN EnvFiles' = 1 .. 3 /\ EnvFiles'[1] = repo'
      /\ EnvFiles'[2] = managed' /\ EnvFiles'[3] = explicitFile'
  BY DEF EnvFiles
<1>2. \A i \in 1 .. 3 : i = 1 \/ i = 2 \/ i = 3
  OBVIOUS
<1>3. InFiles(k)' <=> k \in DOMAIN repo' \/ k \in DOMAIN managed'
                         \/ k \in DOMAIN explicitFile'
  BY <1>1, <1>2 DEF InFiles
<1> QED
  BY <1>1, <1>3, ThreeFiles

LEMMA StateMeans ==
  ASSUME NEW k \in ConfigKeys
  PROVE  /\ StateValue(k) = IF k \in DOMAIN environ THEN environ[k]
              ELSE IF k \in DOMAIN explicitFile THEN explicitFile[k]
              ELSE IF k \in DOMAIN managed THEN managed[k]
              ELSE IF k \in DOMAIN repo THEN repo[k] ELSE Template[k]
         /\ Source(k) = IF k \in DOMAIN environ THEN "process"
              ELSE IF k \in DOMAIN explicitFile THEN "explicit_env_file"
              ELSE IF k \in DOMAIN managed THEN "managed_env"
              ELSE IF k \in DOMAIN repo THEN "repo_env" ELSE "template"
         /\ Locked(k) <=> k \in DOMAIN environ \/ k \in DOMAIN explicitFile
<1>1. k \in DOMAIN Template
  BY KeysAre
<1> DEFINE layers == <<Template, repo, managed, explicitFile, environ>>
<1>2. /\ Decides(k, layers) = IF k \in DOMAIN environ THEN 5
              ELSE IF k \in DOMAIN explicitFile THEN 4
              ELSE IF k \in DOMAIN managed THEN 3 ELSE IF k \in DOMAIN repo THEN 2 ELSE 1
      /\ ValueIn(k, layers) = IF k \in DOMAIN environ THEN environ[k]
              ELSE IF k \in DOMAIN explicitFile THEN explicitFile[k]
              ELSE IF k \in DOMAIN managed THEN managed[k]
              ELSE IF k \in DOMAIN repo THEN repo[k] ELSE Template[k]
  BY <1>1, FiveLayers
<1>3. StateValue(k) = ValueIn(k, layers)
  BY DEF StateValue, StateLayers
<1>4. Source(k) = SourceNames[Decides(k, layers)]
  BY DEF Source, StateLayers
<1>5. /\ SourceNames[1] = "template" /\ SourceNames[2] = "repo_env"
      /\ SourceNames[3] = "managed_env" /\ SourceNames[4] = "explicit_env_file"
      /\ SourceNames[5] = "process"
  BY DEF SourceNames
<1> HIDE DEF layers
<1>6. Source(k) = IF k \in DOMAIN environ THEN "process"
              ELSE IF k \in DOMAIN explicitFile THEN "explicit_env_file"
              ELSE IF k \in DOMAIN managed THEN "managed_env"
              ELSE IF k \in DOMAIN repo THEN "repo_env" ELSE "template"
  BY <1>2, <1>4, <1>5
<1> QED
  BY <1>2, <1>3, <1>6 DEF Locked

LEMMA LoadedMeans ==
  /\ Loaded["policy"] = IF "policy" \in DOMAIN environ THEN environ["policy"]
         ELSE IF "policy" \in DOMAIN explicitFile THEN explicitFile["policy"]
         ELSE IF "policy" \in DOMAIN managed THEN managed["policy"]
         ELSE IF "policy" \in DOMAIN repo THEN repo["policy"] ELSE Defaults["policy"]
  /\ Loaded["token"] = IF "token" \in DOMAIN explicitFile THEN explicitFile["token"]
         ELSE IF "token" \in DOMAIN managed THEN managed["token"]
         ELSE IF "token" \in DOMAIN repo THEN repo["token"]
         ELSE IF "token" \in DOMAIN environ THEN environ["token"] ELSE Defaults["token"]
<1> DEFINE layers == <<Defaults, repo, managed, explicitFile, environ>>
<1>1. "policy" \in ConfigKeys /\ "token" \in ConfigKeys /\ DOMAIN Defaults = ConfigKeys
  BY KeysAre
<1>2. \A k \in ConfigKeys : Loaded[k] = DotenvFirst(k, ValueIn(k, layers))
  BY DEF Loaded
<1>3. ValueIn("policy", layers) =
         IF "policy" \in DOMAIN environ THEN environ["policy"]
         ELSE IF "policy" \in DOMAIN explicitFile THEN explicitFile["policy"]
         ELSE IF "policy" \in DOMAIN managed THEN managed["policy"]
         ELSE IF "policy" \in DOMAIN repo THEN repo["policy"] ELSE Defaults["policy"]
  BY <1>1, FiveLayers
<1>4. ValueIn("token", layers) =
         IF "token" \in DOMAIN environ THEN environ["token"]
         ELSE IF "token" \in DOMAIN explicitFile THEN explicitFile["token"]
         ELSE IF "token" \in DOMAIN managed THEN managed["token"]
         ELSE IF "token" \in DOMAIN repo THEN repo["token"] ELSE Defaults["token"]
  BY <1>1, FiveLayers
<1> HIDE DEF layers
<1>5. DotenvFirst("policy", ValueIn("policy", layers)) = ValueIn("policy", layers)
  BY KeysAre DEF DotenvFirst
<1>6. DotenvFirst("token", ValueIn("token", layers)) =
         IF InFiles("token") THEN ValueIn("token", EnvFiles) ELSE ValueIn("token", layers)
  BY KeysAre DEF DotenvFirst
<1> QED
  BY <1>1, <1>2, <1>3, <1>4, <1>5, <1>6, FilesMean

LEMMA StateMeansNext ==
  ASSUME NEW k \in ConfigKeys
  PROVE  /\ StateValue(k)' = IF k \in DOMAIN environ' THEN environ'[k]
              ELSE IF k \in DOMAIN explicitFile' THEN explicitFile'[k]
              ELSE IF k \in DOMAIN managed' THEN managed'[k]
              ELSE IF k \in DOMAIN repo' THEN repo'[k] ELSE Template[k]
         /\ Source(k)' = IF k \in DOMAIN environ' THEN "process"
              ELSE IF k \in DOMAIN explicitFile' THEN "explicit_env_file"
              ELSE IF k \in DOMAIN managed' THEN "managed_env"
              ELSE IF k \in DOMAIN repo' THEN "repo_env" ELSE "template"
         /\ Locked(k)' <=> k \in DOMAIN environ' \/ k \in DOMAIN explicitFile'
<1>1. k \in DOMAIN Template
  BY KeysAre
<1> DEFINE layers == <<Template, repo, managed, explicitFile, environ>>
<1>2. /\ Decides(k, layers)' = IF k \in DOMAIN environ' THEN 5
              ELSE IF k \in DOMAIN explicitFile' THEN 4
              ELSE IF k \in DOMAIN managed' THEN 3 ELSE IF k \in DOMAIN repo' THEN 2 ELSE 1
      /\ ValueIn(k, layers)' = IF k \in DOMAIN environ' THEN environ'[k]
              ELSE IF k \in DOMAIN explicitFile' THEN explicitFile'[k]
              ELSE IF k \in DOMAIN managed' THEN managed'[k]
              ELSE IF k \in DOMAIN repo' THEN repo'[k] ELSE Template[k]
  BY <1>1, FiveLayers
<1>3. StateValue(k)' = ValueIn(k, layers)'
  BY DEF StateValue, StateLayers
<1>4. Source(k)' = SourceNames[Decides(k, layers)']
  BY DEF Source, StateLayers
<1>5. /\ SourceNames[1] = "template" /\ SourceNames[2] = "repo_env"
      /\ SourceNames[3] = "managed_env" /\ SourceNames[4] = "explicit_env_file"
      /\ SourceNames[5] = "process"
  BY DEF SourceNames
<1> HIDE DEF layers
<1>6. Source(k)' = IF k \in DOMAIN environ' THEN "process"
              ELSE IF k \in DOMAIN explicitFile' THEN "explicit_env_file"
              ELSE IF k \in DOMAIN managed' THEN "managed_env"
              ELSE IF k \in DOMAIN repo' THEN "repo_env" ELSE "template"
  BY <1>2, <1>4, <1>5
<1> QED
  BY <1>2, <1>3, <1>6 DEF Locked

LEMMA LoadedMeansNext ==
  /\ Loaded'["policy"] = IF "policy" \in DOMAIN environ' THEN environ'["policy"]
         ELSE IF "policy" \in DOMAIN explicitFile' THEN explicitFile'["policy"]
         ELSE IF "policy" \in DOMAIN managed' THEN managed'["policy"]
         ELSE IF "policy" \in DOMAIN repo' THEN repo'["policy"] ELSE Defaults["policy"]
  /\ Loaded'["token"] = IF "token" \in DOMAIN explicitFile' THEN explicitFile'["token"]
         ELSE IF "token" \in DOMAIN managed' THEN managed'["token"]
         ELSE IF "token" \in DOMAIN repo' THEN repo'["token"]
         ELSE IF "token" \in DOMAIN environ' THEN environ'["token"] ELSE Defaults["token"]
<1> DEFINE layers == <<Defaults, repo, managed, explicitFile, environ>>
<1>1. "policy" \in ConfigKeys /\ "token" \in ConfigKeys /\ DOMAIN Defaults = ConfigKeys
  BY KeysAre
<1>2. \A k \in ConfigKeys : Loaded'[k] = DotenvFirst(k, ValueIn(k, layers))'
  BY DEF Loaded
<1>3. ValueIn("policy", layers)' =
         IF "policy" \in DOMAIN environ' THEN environ'["policy"]
         ELSE IF "policy" \in DOMAIN explicitFile' THEN explicitFile'["policy"]
         ELSE IF "policy" \in DOMAIN managed' THEN managed'["policy"]
         ELSE IF "policy" \in DOMAIN repo' THEN repo'["policy"] ELSE Defaults["policy"]
  BY <1>1, FiveLayers
<1>4. ValueIn("token", layers)' =
         IF "token" \in DOMAIN environ' THEN environ'["token"]
         ELSE IF "token" \in DOMAIN explicitFile' THEN explicitFile'["token"]
         ELSE IF "token" \in DOMAIN managed' THEN managed'["token"]
         ELSE IF "token" \in DOMAIN repo' THEN repo'["token"] ELSE Defaults["token"]
  BY <1>1, FiveLayers
<1> HIDE DEF layers
<1>5. DotenvFirst("policy", ValueIn("policy", layers))' = ValueIn("policy", layers)'
  BY KeysAre DEF DotenvFirst
<1>6. DotenvFirst("token", ValueIn("token", layers))' =
         IF InFiles("token")' THEN ValueIn("token", EnvFiles)' ELSE ValueIn("token", layers)'
  BY KeysAre DEF DotenvFirst
<1> QED
  BY <1>1, <1>2, <1>3, <1>4, <1>5, <1>6, FilesMeanNext

-----------------------------------------------------------------------------
(* The migration of a file: it keeps everything but the retired key.        *)
LEMMA Migrated ==
  ASSUME NEW x
  PROVE  /\ "token" \in DOMAIN Migrate(x) <=> "token" \in DOMAIN x
         /\ "token" \in DOMAIN x => Migrate(x)["token"] = x["token"]
         /\ "policy" \notin DOMAIN Migrate(x) => Said(x) = {}
         /\ "policy" \in DOMAIN Migrate(x) => Said(x) = {Migrate(x)["policy"]}
         /\ Migrate(Migrate(x)) = Migrate(x)
         /\ Migrate(x) = NoFile => x = NoFile
         /\ Migrate(NoFile) = NoFile
         /\ DOMAIN x = ConfigKeys => Migrate(x) = x
<1>1. Migrate(NoFile) = NoFile
  BY DEF Migrate, NoFile
<1>2. DOMAIN x = ConfigKeys => Migrate(x) = x
  BY KeysAre DEF Migrate
<1>3. CASE RetiredKey \notin DOMAIN x \/ RetiredName \in DOMAIN x
  <2>1. Migrate(x) = x
    BY <1>3 DEF Migrate
  <2>2. /\ "policy" \notin DOMAIN x => Said(x) = {}
        /\ "policy" \in DOMAIN x => Said(x) = {x["policy"]}
    BY <1>3 DEF Said, RetiredName
  <2> QED
    BY <1>1, <1>2, <2>1, <2>2
<1>4. CASE RetiredKey \in DOMAIN x /\ RetiredName \notin DOMAIN x
  <2> DEFINE y == Migrate(x)
  <2>1. y = [k \in (DOMAIN x \ {RetiredKey}) \union {RetiredName} |->
                IF k = RetiredName THEN MappedValue(x[RetiredKey]) ELSE x[k]]
    BY <1>4 DEF Migrate
  <2>2. Said(x) = {MappedValue(x[RetiredKey])}
    BY <1>4 DEF Said
  <2>3. RetiredKey = "thinking" /\ RetiredName = "policy" /\ DOMAIN NoFile = {}
    BY DEF RetiredKey, RetiredName, NoFile
  <2> HIDE DEF y
  <2>4. RetiredName \in DOMAIN y
    BY <2>1
  <2>5. Migrate(y) = y
    BY <2>4 DEF Migrate
  <2>6. y # NoFile
    BY <2>3, <2>4
  <2>7. y["policy"] = MappedValue(x[RetiredKey])
    BY <2>1, <2>3
  <2>8. /\ "token" \in DOMAIN y <=> "token" \in DOMAIN x
        /\ "token" \in DOMAIN x => y["token"] = x["token"]
    BY <2>1, <2>3
  <2> QED
    BY <1>1, <1>2, <2>2, <2>3, <2>4, <2>5, <2>6, <2>7, <2>8 DEF y
<1> QED
  BY <1>3, <1>4

-----------------------------------------------------------------------------
TokenPlain(layer) == "token" \in DOMAIN layer => layer["token"] # Mask

(* What the files are.                                                      *)
LayersPlain ==
    /\ DOMAIN environ \subseteq ConfigKeys /\ DOMAIN explicitFile \subseteq ConfigKeys
    /\ TokenPlain(environ) /\ TokenPlain(explicitFile)
    /\ TokenPlain(repo) /\ TokenPlain(managed) /\ TokenPlain(legacy)

(* The first update writes every key, and nothing removes one.              *)
EveryKeyWritten == Edited => DOMAIN managed = ConfigKeys

(* Until the first update the files are those of before the first start,    *)
(* migrated.                                                                *)
FirstFilesKept ==
    /\ DOMAIN firstFiles = 1 .. 4
    /\ firstFiles[3] = explicitFile /\ firstFiles[4] = environ
    /\ ~Edited /\ server = "new" =>
          firstFiles[1] = repo /\ firstFiles[2] = IF managed = NoFile THEN legacy ELSE managed
    /\ ~Edited /\ server # "new" =>
          /\ repo = Migrate(firstFiles[1]) /\ managed = Migrate(firstFiles[2])
          /\ firstFiles[2] = NoFile => legacy = NoFile

ConfigInv ==
    /\ LayersPlain /\ EveryKeyWritten /\ FirstFilesKept
    /\ UpdatesStored /\ OthersKept /\ RunsWhatIsStored /\ RetiredHonoured

LEMMA ConfigInvSound == ConfigInv => ConfigSound
  BY DEF ConfigInv, ConfigSound

LEMMA FileDefined ==
  ASSUME NEW keys, NEW v, NEW w, NEW f, f \in Defining(keys, v, w), v # Mask
  PROVE  DOMAIN f \subseteq keys /\ TokenPlain(f)
<1>1. PICK S \in SUBSET keys : f = [k \in S |-> IF k = RetiredKey THEN w ELSE v]
  BY DEF Defining
<1>2. "token" # RetiredKey
  BY DEF RetiredKey
<1> QED
  BY <1>1, <1>2 DEF TokenPlain

LEMMA ConfigInitInv == ConfigInit => ConfigInv
<1> SUFFICES ASSUME ConfigInit PROVE ConfigInv
  OBVIOUS
<1>1. ~Edited /\ server = "new"
  BY DEF ConfigInit, Edited
<1>2. /\ "process" # Mask /\ "explicit" # Mask /\ "repo" # Mask /\ "managed" # Mask
      /\ "old" # Mask
  BY DEF Mask
<1>3. /\ environ \in Defining(ConfigKeys, "process", "")
      /\ explicitFile \in Defining(ConfigKeys, "explicit", "")
      /\ repo \in Defining(ConfigKeys \union {RetiredKey}, "repo", "yes")
      /\ managed \in Defining(ConfigKeys \union {RetiredKey}, "managed", "no")
      /\ legacy = NoFile \/ legacy \in Defining({"token", RetiredKey}, "old", "maybe")
  BY DEF ConfigInit
<1>4. LayersPlain
  <2>1. DOMAIN environ \subseteq ConfigKeys /\ TokenPlain(environ)
    BY <1>2, <1>3, FileDefined
  <2>2. DOMAIN explicitFile \subseteq ConfigKeys /\ TokenPlain(explicitFile)
    BY <1>2, <1>3, FileDefined
  <2>3. TokenPlain(repo)
    BY <1>2, <1>3, FileDefined
  <2>4. TokenPlain(managed)
    BY <1>2, <1>3, FileDefined
  <2>5. TokenPlain(NoFile)
    BY DEF TokenPlain, NoFile
  <2>6. TokenPlain(legacy)
    BY <1>2, <1>3, <2>5, FileDefined
  <2> QED
    BY <2>1, <2>2, <2>3, <2>4, <2>6 DEF LayersPlain
<1>5. FirstFilesKept
  <2> DEFINE file == IF managed = NoFile THEN legacy ELSE managed
  <2>1. firstFiles = <<repo, file, explicitFile, environ>>
    BY DEF ConfigInit
  <2> HIDE DEF file
  <2>2. /\ DOMAIN firstFiles = 1 .. 4 /\ firstFiles[1] = repo /\ firstFiles[2] = file
        /\ firstFiles[3] = explicitFile /\ firstFiles[4] = environ
    BY <2>1
  <2> QED
    BY <1>1, <2>2 DEF FirstFilesKept, file
<1>6. UpdatesStored
  BY <1>1, <1>4 DEF UpdatesStored, LayersPlain, TokenPlain
<1> QED
  BY <1>1, <1>4, <1>5, <1>6 DEF ConfigInv, EveryKeyWritten, OthersKept, RunsWhatIsStored,
     RetiredHonoured

-----------------------------------------------------------------------------
(* Once there was an update a start changes nothing the server reads.       *)
LEMMA StartMigrates ==
  ASSUME ConfigInv, StartServer
  PROVE  /\ LayersPlain'
         /\ Edited => managed' = managed
<1>1. /\ repo' = Migrate(repo)
      /\ managed' = Migrate(IF managed = NoFile THEN legacy ELSE managed)
      /\ UNCHANGED <<environ, explicitFile, legacy>>
  BY DEF StartServer, Migrations
<1>2. TokenPlain(repo)'
  BY <1>1, Migrated DEF ConfigInv, LayersPlain, TokenPlain
<1>3. TokenPlain(managed)'
  <2> DEFINE file == IF managed = NoFile THEN legacy ELSE managed
  <2>1. TokenPlain(file)
    BY DEF ConfigInv, LayersPlain
  <2>2. managed' = Migrate(file)
    BY <1>1
  <2> HIDE DEF file
  <2> QED
    BY <2>1, <2>2, Migrated DEF TokenPlain
<1>4. LayersPlain'
  BY <1>1, <1>2, <1>3 DEF ConfigInv, LayersPlain, TokenPlain
<1>5. ASSUME Edited PROVE managed' = managed
  <2>1. DOMAIN managed = ConfigKeys
    BY <1>5 DEF ConfigInv, EveryKeyWritten
  <2>2. managed # NoFile
    BY <2>1, KeysAre DEF NoFile
  <2> QED
    BY <1>1, <2>1, <2>2, Migrated
<1> QED
  BY <1>4, <1>5

LEMMA StartKeepsFirst ==
  ASSUME ConfigInv, StartServer
  PROVE  FirstFilesKept'
<1>1. /\ repo' = Migrate(repo)
      /\ managed' = Migrate(IF managed = NoFile THEN legacy ELSE managed)
      /\ UNCHANGED <<environ, explicitFile, legacy, edits, firstFiles>> /\ server' # "new"
  BY DEF StartServer, Migrations
<1>2. FirstFilesKept
  BY DEF ConfigInv
<1>3. Edited' <=> Edited
  BY <1>1 DEF Edited
<1>4. ASSUME ~Edited
      PROVE  /\ repo' = Migrate(firstFiles[1]) /\ managed' = Migrate(firstFiles[2])
             /\ firstFiles[2] = NoFile => legacy = NoFile
  <2>1. CASE server = "new"
    BY <1>1, <1>2, <1>4, <2>1 DEF FirstFilesKept
  <2>2. CASE server # "new"
    <3>1. /\ repo = Migrate(firstFiles[1]) /\ managed = Migrate(firstFiles[2])
          /\ firstFiles[2] = NoFile => legacy = NoFile
      BY <1>2, <1>4, <2>2 DEF FirstFilesKept
    <3>2. repo' = Migrate(firstFiles[1])
      BY <1>1, <3>1, Migrated
    <3>3. CASE managed = NoFile
      <4>1. firstFiles[2] = NoFile /\ legacy = NoFile
        BY <3>1, <3>3, Migrated
      <4> QED
        BY <1>1, <3>1, <3>2, <3>3, <4>1, Migrated
    <3>4. CASE managed # NoFile
      <4>1. managed' = Migrate(managed)
        BY <1>1, <3>4
      <4> QED
        BY <3>1, <3>2, <4>1, Migrated
    <3> QED
      BY <3>3, <3>4
  <2> QED
    BY <2>1, <2>2
<1> QED
  BY <1>1, <1>2, <1>3, <1>4 DEF FirstFilesKept

(* What the highest file said of the retired key is what the server reads.  *)
LEMMA HighestSaid ==
  ASSUME NEW files, DOMAIN files = 1 .. 4
  PROVE  LET spoke == [i \in DOMAIN files |-> Said(files[i])]
             layers == {i \in DOMAIN spoke : spoke[i] # {}}
         IN  (IF layers = {} THEN {Defaults[RetiredName]} ELSE spoke[Max(layers)])
                = IF Said(files[4]) # {} THEN Said(files[4]) ELSE IF Said(files[3]) # {} THEN Said(files[3])
                  ELSE IF Said(files[2]) # {} THEN Said(files[2]) ELSE IF Said(files[1]) # {} THEN Said(files[1])
                  ELSE {Defaults["policy"]}
<1> DEFINE spoke == [i \in DOMAIN files |-> Said(files[i])]
           layers == {i \in DOMAIN spoke : spoke[i] # {}}
           wanted == IF Said(files[4]) # {} THEN Said(files[4]) ELSE IF Said(files[3]) # {} THEN Said(files[3])
                     ELSE IF Said(files[2]) # {} THEN Said(files[2]) ELSE IF Said(files[1]) # {} THEN Said(files[1])
                     ELSE {Defaults["policy"]}
<1>1. /\ DOMAIN spoke = 1 .. 4 /\ spoke[1] = Said(files[1]) /\ spoke[2] = Said(files[2])
      /\ spoke[3] = Said(files[3]) /\ spoke[4] = Said(files[4])
  OBVIOUS
<1>2. layers = {i \in 1 .. 4 : spoke[i] # {}}
  BY <1>1
<1> HIDE DEF spoke
<1>3. \A i \in 1 .. 4 : i = 1 \/ i = 2 \/ i = 3 \/ i = 4
  OBVIOUS
<1>4. /\ 1 \in layers <=> Said(files[1]) # {}
      /\ 2 \in layers <=> Said(files[2]) # {}
      /\ 3 \in layers <=> Said(files[3]) # {}
      /\ 4 \in layers <=> Said(files[4]) # {}
      /\ layers \subseteq Int /\ \A i \in layers : i = 1 \/ i = 2 \/ i = 3 \/ i = 4
  BY <1>1, <1>2, <1>3
<1> HIDE DEF layers
<1>5. (IF layers = {} THEN {Defaults[RetiredName]} ELSE spoke[Max(layers)]) = wanted
  <2>1. CASE Said(files[4]) # {}
    <3>1. 4 \in layers /\ \A i \in layers : ~(i > 4)
      BY <1>4, <2>1
    <3>2. Max(layers) = 4
      BY <1>4, <3>1, GreatestIs
    <3> QED
      BY <1>1, <2>1, <3>1, <3>2
  <2>2. CASE Said(files[4]) = {} /\ Said(files[3]) # {}
    <3>1. 3 \in layers /\ \A i \in layers : ~(i > 3)
      BY <1>4, <2>2
    <3>2. Max(layers) = 3
      BY <1>4, <3>1, GreatestIs
    <3> QED
      BY <1>1, <2>2, <3>1, <3>2
  <2>3. CASE Said(files[4]) = {} /\ Said(files[3]) = {} /\ Said(files[2]) # {}
    <3>1. 2 \in layers /\ \A i \in layers : ~(i > 2)
      BY <1>4, <2>3
    <3>2. Max(layers) = 2
      BY <1>4, <3>1, GreatestIs
    <3> QED
      BY <1>1, <2>3, <3>1, <3>2
  <2>4. CASE Said(files[4]) = {} /\ Said(files[3]) = {} /\ Said(files[2]) = {} /\ Said(files[1]) # {}
    <3>1. 1 \in layers /\ \A i \in layers : ~(i > 1)
      BY <1>4, <2>4
    <3>2. Max(layers) = 1
      BY <1>4, <3>1, GreatestIs
    <3> QED
      BY <1>1, <2>4, <3>1, <3>2
  <2>5. CASE Said(files[4]) = {} /\ Said(files[3]) = {} /\ Said(files[2]) = {} /\ Said(files[1]) = {}
    <3>1. layers = {}
      BY <1>4, <2>5
    <3> QED
      BY <2>5, <3>1 DEF RetiredName
  <2> QED
    BY <2>1, <2>2, <2>3, <2>4, <2>5
<1> QED
  BY <1>5 DEF layers, spoke

LEMMA StartHonours ==
  ASSUME ConfigInv, StartServer
  PROVE  RetiredHonoured'
<1> SUFFICES ASSUME server' = "up", ~Edited'
             PROVE  RetiredHonoured'
  BY DEF RetiredHonoured
<1>1. FirstFilesKept'
  BY StartKeepsFirst
<1>2. /\ DOMAIN firstFiles' = 1 .. 4
      /\ repo' = Migrate(firstFiles'[1]) /\ managed' = Migrate(firstFiles'[2])
      /\ firstFiles'[3] = explicitFile' /\ firstFiles'[4] = environ'
  BY <1>1 DEF FirstFilesKept
<1>3. inEffect' = Loaded'
  BY DEF StartServer
<1>4. LayersPlain'
  BY StartMigrates
<1>5. RetiredKey \notin DOMAIN explicitFile' /\ RetiredKey \notin DOMAIN environ'
  BY <1>4, KeysAre DEF LayersPlain
<1>6. /\ Said(firstFiles'[4]) = IF "policy" \in DOMAIN environ' THEN {environ'["policy"]} ELSE {}
      /\ Said(firstFiles'[3]) = IF "policy" \in DOMAIN explicitFile' THEN {explicitFile'["policy"]} ELSE {}
  BY <1>2, <1>5 DEF Said, RetiredName
<1>7. /\ Said(firstFiles'[2]) = IF "policy" \in DOMAIN managed' THEN {managed'["policy"]} ELSE {}
      /\ Said(firstFiles'[1]) = IF "policy" \in DOMAIN repo' THEN {repo'["policy"]} ELSE {}
  BY <1>2, Migrated
<1> DEFINE wanted == IF Said(firstFiles'[4]) # {} THEN Said(firstFiles'[4]) ELSE IF Said(firstFiles'[3]) # {} THEN Said(firstFiles'[3])
                     ELSE IF Said(firstFiles'[2]) # {} THEN Said(firstFiles'[2]) ELSE IF Said(firstFiles'[1]) # {} THEN Said(firstFiles'[1])
                     ELSE {Defaults["policy"]}
<1>8. inEffect'["policy"] \in wanted
  BY <1>3, <1>6, <1>7, LoadedMeansNext
<1> DEFINE spoken == [i \in DOMAIN firstFiles' |-> Said(firstFiles'[i])]
           speakers == {i \in DOMAIN spoken : spoken[i] # {}}
<1>9. (IF speakers = {} THEN {Defaults[RetiredName]} ELSE spoken[Max(speakers)]) = wanted
  BY <1>2, HighestSaid, Zenon
<1> HIDE DEF wanted
<1> QED
  BY <1>8, <1>9 DEF RetiredHonoured, RetiredName

(* Nothing the updates left behind changes while no other one is written.   *)
LEMMA EditsKept ==
  ASSUME ConfigInv, UNCHANGED <<environ, explicitFile, edits>>, Edited => managed' = managed,
         LayersPlain'
  PROVE  EveryKeyWritten' /\ OthersKept' /\ UpdatesStored'
<1>1. Edited' <=> Edited
  BY DEF Edited
<1>2. \A k \in ConfigKeys : Wrote(k)' <=> Wrote(k)
  BY DEF Wrote
<1>3. EveryKeyWritten'
  BY <1>1 DEF ConfigInv, EveryKeyWritten
<1>4. ASSUME Edited, NEW k \in ConfigKeys
      PROVE  StateValue(k)' = StateValue(k)
  <2>1. DOMAIN managed = ConfigKeys /\ managed' = managed
    BY <1>4 DEF ConfigInv, EveryKeyWritten
  <2> QED
    BY <1>4, <2>1, StateMeans, StateMeansNext
<1>5. OthersKept'
  BY <1>1, <1>2, <1>4 DEF ConfigInv, OthersKept
<1>6. UpdatesStored'
  BY <1>1, <1>2, <1>4 DEF ConfigInv, UpdatesStored, LayersPlain, TokenPlain
<1> QED
  BY <1>3, <1>5, <1>6

LEMMA StartKeeps == ConfigInv /\ StartServer => ConfigInv'
<1> SUFFICES ASSUME ConfigInv, StartServer PROVE ConfigInv'
  OBVIOUS
<1>1. UNCHANGED <<environ, explicitFile, edits>>
  BY DEF StartServer, Migrations
<1>2. LayersPlain' /\ (Edited => managed' = managed)
  BY StartMigrates
<1>3. EveryKeyWritten' /\ OthersKept' /\ UpdatesStored'
  BY <1>1, <1>2, EditsKept
<1>4. RunsWhatIsStored'
  BY DEF StartServer, RunsWhatIsStored
<1> QED
  BY <1>2, <1>3, <1>4, StartHonours, StartKeepsFirst DEF ConfigInv

(* A step that leaves the files and the updates as they are.                *)
LEMMA FilesUntouched ==
  ASSUME ConfigInv,
         UNCHANGED <<environ, explicitFile, repo, managed, legacy, edits, firstFiles>>,
         server' = server \/ (server = "up" /\ server' = "stopped")
  PROVE  /\ LayersPlain' /\ EveryKeyWritten' /\ FirstFilesKept'
         /\ UpdatesStored' /\ OthersKept'
<1>1. LayersPlain'
  BY DEF ConfigInv, LayersPlain, TokenPlain
<1>2. Edited' <=> Edited
  BY DEF Edited
<1>3. EveryKeyWritten' /\ UpdatesStored' /\ OthersKept'
  BY <1>1, EditsKept
<1>4. FirstFilesKept'
  BY <1>2 DEF ConfigInv, FirstFilesKept
<1> QED
  BY <1>1, <1>3, <1>4
-----------------------------------------------------------------------------
(* What an update writes.                                                   *)
LEMMA Written ==
  ASSUME ConfigInv, NEW updates, Commit(updates),
         UNCHANGED <<environ, explicitFile, repo, legacy>>, NEW k \in ConfigKeys
  PROVE  /\ k \in DOMAIN managed' /\ managed'[k] = Target(updates)[k]
         /\ Target(updates)[k] = IF Writable(updates, k) THEN updates[k] ELSE Kept(k)
         /\ Wrote(k)' <=> Writable(updates, k)
         /\ edits'.sources[k] = Source(k) /\ edits'.before[k] = StateValue(k)
         /\ edits'.updates = updates /\ edits'.hadFile = (managed # NoFile)
         /\ Kept(k) = IF managed # NoFile
                        THEN IF k \in DOMAIN managed THEN managed[k] ELSE Template[k]
                      ELSE IF Locked(k) THEN Template[k] ELSE StateValue(k)
<1>1. managed' = Target(updates)
  BY DEF Commit
<1>2. /\ DOMAIN Target(updates) = ConfigKeys
      /\ Target(updates)[k] = IF Writable(updates, k) THEN updates[k] ELSE Kept(k)
  BY DEF Target
<1>3. /\ edits'.updates = updates /\ edits'.hadFile = (managed # NoFile)
      /\ edits'.before = [x \in ConfigKeys |-> StateValue(x)]
      /\ edits'.sources = [x \in ConfigKeys |-> Source(x)]
  BY DEF Commit
<1>4. edits'.sources[k] = Source(k) /\ edits'.before[k] = StateValue(k)
  BY <1>3
<1>5. Wrote(k)' <=> Writable(updates, k)
  BY <1>3, <1>4 DEF Wrote, Writable, Locked
<1>6. k \in DOMAIN Template
  BY KeysAre
<1>7. ValueIn(k, <<Template, managed>>) = IF k \in DOMAIN managed THEN managed[k] ELSE Template[k]
  BY <1>6, TwoLayers
<1>8. Kept(k) = IF managed # NoFile
                  THEN IF k \in DOMAIN managed THEN managed[k] ELSE Template[k]
                ELSE IF Locked(k) THEN Template[k] ELSE StateValue(k)
  BY <1>7 DEF Kept
<1> QED
  BY <1>1, <1>2, <1>3, <1>4, <1>5, <1>8

LEMMA CommitKeeps ==
  ASSUME ConfigInv, NEW updates, Commit(updates), server = "up", server' = "up",
         UNCHANGED <<environ, explicitFile, repo, legacy, firstFiles>>
  PROVE  /\ LayersPlain' /\ EveryKeyWritten' /\ FirstFilesKept' /\ Edited'
         /\ UpdatesStored' /\ OthersKept'
<1>1. Edited'
  <2>1. DOMAIN edits'.before = ConfigKeys
    BY DEF Commit
  <2>2. DOMAIN NoEdit.before = {}
    BY DEF NoEdit, NoFile
  <2> QED
    BY <2>1, <2>2, KeysAre DEF Edited
<1>2. EveryKeyWritten'
  BY DEF Commit, EveryKeyWritten, Target
<1>3. TokenPlain(managed)'
  <2>1. "token" \in ConfigKeys
    BY KeysAre
  <2>2. managed'["token"] = IF Writable(updates, "token") THEN updates["token"] ELSE Kept("token")
    BY <2>1, Written
  <2>3. CASE Writable(updates, "token")
    BY <2>2, <2>3, KeysAre DEF Writable, TokenPlain
  <2>4. CASE ~Writable(updates, "token")
    <3>1. Template["token"] # Mask
      BY DEF Template, Mask
    <3>2. StateValue("token") # Mask
      BY <2>1, <3>1, StateMeans DEF ConfigInv, LayersPlain, TokenPlain
    <3>3. Kept("token") # Mask
      BY <2>1, <3>1, <3>2, Written DEF ConfigInv, LayersPlain, TokenPlain
    <3> QED
      BY <2>2, <2>4, <3>3 DEF TokenPlain
  <2> QED
    BY <2>3, <2>4
<1>4. LayersPlain'
  BY <1>3 DEF ConfigInv, LayersPlain, TokenPlain
<1>5. FirstFilesKept'
  BY <1>1 DEF ConfigInv, FirstFilesKept
<1>6. UpdatesStored'
  <2>1. ASSUME NEW k \in ConfigKeys, Wrote(k)' PROVE StateValue(k)' = edits'.updates[k]
    <3>1. Writable(updates, k) /\ k \in DOMAIN managed' /\ managed'[k] = updates[k]
          /\ edits'.updates = updates
      BY <2>1, Written
    <3>2. k \notin DOMAIN environ' /\ k \notin DOMAIN explicitFile'
      BY <3>1, StateMeans DEF Writable
    <3> QED
      BY <3>1, <3>2, StateMeansNext
  <2> QED
    BY <1>3, <2>1 DEF UpdatesStored, TokenPlain
<1>7. OthersKept'
  <2>1. ASSUME NEW k \in ConfigKeys, ~Wrote(k)'
        PROVE  \/ StateValue(k)' = edits'.before[k]
               \/ edits'.sources[k] = "repo_env" /\ edits'.hadFile
    <3>1. /\ k \in DOMAIN managed' /\ managed'[k] = Kept(k)
          /\ edits'.sources[k] = Source(k) /\ edits'.before[k] = StateValue(k)
          /\ edits'.hadFile = (managed # NoFile)
          /\ Kept(k) = IF managed # NoFile
                         THEN IF k \in DOMAIN managed THEN managed[k] ELSE Template[k]
                       ELSE IF Locked(k) THEN Template[k] ELSE StateValue(k)
      BY <2>1, Written
    <3>2. CASE Locked(k)
      BY <3>1, <3>2, StateMeans, StateMeansNext
    <3>3. CASE ~Locked(k) /\ managed = NoFile
      BY <3>1, <3>3, StateMeans, StateMeansNext
    <3>4. CASE ~Locked(k) /\ managed # NoFile
      <4>1. CASE k \in DOMAIN managed \/ k \notin DOMAIN repo
        BY <3>1, <3>4, <4>1, StateMeans, StateMeansNext
      <4>2. CASE k \notin DOMAIN managed /\ k \in DOMAIN repo
        <5>1. Source(k) = "repo_env"
          BY <3>4, <4>2, StateMeans
        <5> QED
          BY <3>1, <3>4, <5>1
      <4> QED
        BY <4>1, <4>2
    <3> QED
      BY <3>2, <3>3, <3>4
  <2> QED
    BY <2>1 DEF OthersKept
<1> QED
  BY <1>1, <1>2, <1>4, <1>5, <1>6, <1>7

(* What an update puts in force at once is what is read from the files.     *)
LEMMA NowRunsWhatIsStored ==
  ASSUME ConfigInv, NEW updates, ApplyNow(updates)
  PROVE  RunsWhatIsStored'
<1>1. /\ Commit(updates) /\ UNCHANGED <<environ, explicitFile, repo, legacy, firstFiles>>
      /\ PendingOf(updates) = {} /\ inEffect' = Prospective(Target(updates))
  BY DEF ApplyNow, Submit
<1>2. "policy" \in ConfigKeys /\ "token" \in ConfigKeys /\ ConfigKeys = {"token", "policy"}
  BY KeysAre
<1> DEFINE target == Target(updates)
<1>3. \A k \in ConfigKeys :
         /\ k \in DOMAIN managed' /\ managed'[k] = target[k]
         /\ target[k] = IF Writable(updates, k) THEN updates[k] ELSE Kept(k)
         /\ Wrote(k)' <=> Writable(updates, k)
         /\ edits'.sources[k] = Source(k) /\ edits'.hadFile = (managed # NoFile)
         /\ Kept(k) = IF managed # NoFile
                        THEN IF k \in DOMAIN managed THEN managed[k] ELSE Template[k]
                      ELSE IF Locked(k) THEN Template[k] ELSE StateValue(k)
  BY <1>1, Written
<1>4. \A k \in ConfigKeys :
         /\ inEffect'[k] = DotenvFirst(k, Effective(target)[k])
         /\ Effective(target)[k] = IF Locked(k) THEN StateValue(k) ELSE target[k]
  BY <1>1 DEF Prospective, Effective
<1> HIDE DEF target
<1>5. inEffect'["policy"] = Loaded'["policy"]
  <2>1. inEffect'["policy"] = IF Locked("policy") THEN StateValue("policy") ELSE target["policy"]
    BY <1>2, <1>4, KeysAre DEF DotenvFirst
  <2> QED
    BY <1>1, <1>2, <1>3, <2>1, StateMeans, LoadedMeansNext
<1>6. inEffect'["token"] = Loaded'["token"] \/ TokenReplaced("token")'
  <2>1. inEffect'["token"] = IF InFiles("token") THEN ValueIn("token", EnvFiles)
            ELSE IF Locked("token") THEN StateValue("token") ELSE target["token"]
    BY <1>2, <1>4, KeysAre DEF DotenvFirst
  <2>2. CASE "token" \in DOMAIN environ
    <3>1. Source("token")' = "process"
      BY <1>1, <1>2, <2>2, StateMeansNext
    <3> QED
      BY <3>1, KeysAre DEF TokenReplaced
  <2>3. CASE "token" \notin DOMAIN environ /\ "token" \in DOMAIN explicitFile
    <3>1. Loaded'["token"] = explicitFile["token"]
      BY <1>1, <2>3, LoadedMeansNext
    <3>2. inEffect'["token"] = explicitFile["token"]
      BY <2>1, <2>3, FilesMean
    <3> QED
      BY <3>1, <3>2
  <2>4. CASE "token" \notin DOMAIN environ /\ "token" \notin DOMAIN explicitFile
    <3>1. ~Locked("token")
      BY <1>2, <2>4, StateMeans
    <3>2. Loaded'["token"] = target["token"]
      BY <1>1, <1>2, <1>3, <2>4, LoadedMeansNext
    <3>3. CASE ~InFiles("token")
      BY <2>1, <3>1, <3>2, <3>3
    <3>4. CASE InFiles("token")
      <4>1. /\ ValueIn("token", EnvFiles) = StateValue("token")
            /\ "token" \in DOMAIN managed \/ "token" \in DOMAIN repo
        BY <1>2, <2>4, <3>4, FilesMean, StateMeans
      <4>2. inEffect'["token"] = StateValue("token")
        BY <2>1, <3>4, <4>1
      <4>3. CASE Writable(updates, "token")
        <5>1. updates["token"] = StateValue("token")
          BY <1>1, <4>3, KeysAre DEF PendingOf, Writable
        <5> QED
          BY <1>2, <1>3, <3>2, <4>2, <4>3, <5>1
      <4>4. CASE ~Writable(updates, "token") /\ (managed = NoFile \/ "token" \in DOMAIN managed)
        <5>1. target["token"] = StateValue("token")
          BY <1>2, <1>3, <2>4, <3>1, <4>4, StateMeans
        <5> QED
          BY <3>2, <4>2, <5>1
      <4>5. CASE ~Writable(updates, "token") /\ managed # NoFile /\ "token" \notin DOMAIN managed
        <5>1. Source("token") = "repo_env"
          BY <1>2, <2>4, <4>1, <4>5, StateMeans
        <5>2. Edited'
          BY <1>1, CommitKeeps DEF ApplyNow, Submit
        <5>3. ~Wrote("token")' /\ edits'.sources["token"] = "repo_env" /\ edits'.hadFile
          BY <1>2, <1>3, <4>5, <5>1
        <5> QED
          BY <5>2, <5>3, KeysAre DEF TokenReplaced
      <4> QED
        BY <4>3, <4>4, <4>5
    <3> QED
      BY <3>3, <3>4
  <2> QED
    BY <2>2, <2>3, <2>4
<1> QED
  BY <1>2, <1>5, <1>6 DEF RunsWhatIsStored

LEMMA ApplyKeeps ==
  ASSUME ConfigInv, NEW updates, ApplyForRestart(updates) \/ ApplyNow(updates)
  PROVE  ConfigInv'
<1>1. /\ Commit(updates) /\ server = "up" /\ server' = "up"
      /\ UNCHANGED <<environ, explicitFile, repo, legacy, firstFiles>>
  BY DEF ApplyForRestart, ApplyNow, Submit
<1>2. /\ LayersPlain' /\ EveryKeyWritten' /\ FirstFilesKept' /\ Edited'
      /\ UpdatesStored' /\ OthersKept'
  BY <1>1, CommitKeeps
<1>3. RetiredHonoured'
  BY <1>2 DEF RetiredHonoured
<1>4. CASE ApplyForRestart(updates)
  <2>1. pending' # {} \/ restartDue' = TRUE
    <3>1. PICK automatic \in BOOLEAN :
             /\ pending' = IF automatic THEN {} ELSE PendingOf(updates)
             /\ restartDue' = (restartDue \/ automatic)
      BY <1>4, Zenon DEF ApplyForRestart
    <3>2. PendingOf(updates) # {}
      BY <1>4 DEF ApplyForRestart
    <3>3. CASE automatic = TRUE
      BY <3>1, <3>3, Zenon
    <3>4. CASE automatic = FALSE
      BY <3>1, <3>2, <3>4, Zenon
    <3> QED
      BY <3>3, <3>4, Zenon
  <2>2. RunsWhatIsStored'
    BY <2>1 DEF RunsWhatIsStored
  <2> QED
    BY <1>2, <1>3, <2>2 DEF ConfigInv
<1>5. CASE ApplyNow(updates)
  BY <1>2, <1>3, <1>5, NowRunsWhatIsStored DEF ConfigInv
<1> QED
  BY <1>4, <1>5

LEMMA ConfigStepInv == ConfigInv /\ [ConfigNext]_configVars => ConfigInv'
<1> SUFFICES ASSUME ConfigInv, [ConfigNext]_configVars PROVE ConfigInv'
  OBVIOUS
<1>1. CASE StartServer
  BY <1>1, StartKeeps
<1>2. CASE StopServer
  <2>1. /\ UNCHANGED <<environ, explicitFile, repo, managed, legacy, edits, firstFiles>>
        /\ server = "up" /\ server' = "stopped"
    BY <1>2 DEF StopServer
  <2>2. RunsWhatIsStored' /\ RetiredHonoured'
    BY <2>1 DEF RunsWhatIsStored, RetiredHonoured
  <2> QED
    BY <2>1, <2>2, FilesUntouched DEF ConfigInv
<1>3. ASSUME UNCHANGED <<environ, explicitFile, repo, managed, legacy, edits, firstFiles,
                         inEffect, pending, restartDue, server>>
      PROVE  ConfigInv'
  <2>1. \A k \in ConfigKeys :
          Loaded'[k] = Loaded[k] /\ (TokenReplaced(k)' <=> TokenReplaced(k))
    <3>1. Loaded' = Loaded
      BY <1>3 DEF Loaded, DotenvFirst, InFiles, EnvFiles
    <3>2. \A k \in ConfigKeys : TokenReplaced(k)' <=> TokenReplaced(k)
      BY <1>3, StateMeans, StateMeansNext DEF TokenReplaced, Edited, Wrote
    <3> QED
      BY <3>1, <3>2
  <2>2. RunsWhatIsStored'
    BY <1>3, <2>1 DEF ConfigInv, RunsWhatIsStored
  <2>3. RetiredHonoured'
    BY <1>3 DEF ConfigInv, RetiredHonoured, Edited
  <2> QED
    BY <1>3, <2>2, <2>3, FilesUntouched DEF ConfigInv
<1>4. ASSUME NEW updates \in Updates, RejectUpdate(updates) PROVE ConfigInv'
  BY <1>3, <1>4 DEF RejectUpdate, Submit
<1>5. ASSUME NEW updates \in Updates, ApplyForRestart(updates) \/ ApplyNow(updates)
      PROVE  ConfigInv'
  BY <1>5, ApplyKeeps
<1>6. CASE UNCHANGED configVars
  BY <1>3, <1>6 DEF configVars
<1> QED
  BY <1>1, <1>2, <1>4, <1>5, <1>6 DEF ConfigNext

-----------------------------------------------------------------------------
(* ModelCatalog.                                                            *)
(* A refresh has its fields.                                                *)
IsRefresh(r) ==
    DOMAIN r = {"at", "generation", "onlyMissing", "asked"}

RefreshFits(r) ==
    IsRefresh(r) /\ (r # NoRefresh => r.generation = currentId /\ managerPhase = "serving"
                                        /\ r.asked \subseteq Scope)

ReportFits ==
    /\ report.refreshed \union report.failed = report.asked
    /\ report.refreshed \intersect report.failed = {}
    /\ report.generation \in Nat /\ report.generation <= currentId
    /\ report.generation = currentId /\ managerPhase # "closed" =>
          report.refreshed \subseteq DOMAIN modelCache

CatalogInv ==
    /\ currentId \in Nat /\ currentId >= 1
    /\ DOMAIN modelCache \subseteq Scope
    /\ background # NoRefresh => requested = NoRefresh /\ publishing = NoSettings
    /\ requested = NoRefresh \/ publishing = NoSettings
    /\ RefreshFits(background) /\ RefreshFits(requested)
    /\ managerPhase # "serving" => requested = NoRefresh /\ publishing = NoSettings
    /\ managerPhase = "closed" => tested = NoTest /\ modelCache = [p \in {} |-> <<>>]
    /\ ReportFits

LEMMA CatalogInvSound == CatalogInv => CacheInScope /\ RefreshCurrent /\ ReportExact
  BY DEF CatalogInv, CacheInScope, RefreshCurrent, ReportExact, RefreshFits, ReportFits

LEMMA NoRefreshFits == RefreshFits(NoRefresh) /\ RefreshFits(NoRefresh)'
  BY DEF RefreshFits, IsRefresh, NoRefresh

LEMMA CatalogInitInv == CatalogInit => CatalogInv
<1> SUFFICES ASSUME CatalogInit PROVE CatalogInv
  OBVIOUS
<1>1. ReportFits
  BY DEF CatalogInit, ReportFits, NoReport
<1>2. DOMAIN modelCache = {}
  BY DEF CatalogInit
<1> QED
  BY <1>1, <1>2, NoRefreshFits DEF CatalogInit, CatalogInv

LEMMA ClosedIsIdle ==
  ASSUME CatalogInv, managerPhase = "closed"
  PROVE  tested.at = "none" /\ requested.at = "none" /\ background = NoRefresh
<1>1. background = NoRefresh
  BY DEF CatalogInv, RefreshFits
<1>2. tested = NoTest /\ requested = NoRefresh
  BY DEF CatalogInv
<1>3. NoTest.at = "none" /\ NoRefresh.at = "none"
  BY DEF NoTest, NoRefresh
<1> QED
  BY <1>1, <1>2, <1>3

LEMMA RefreshIdle == NoRefresh.at = "none" /\ IsRefresh(NoRefresh)
  BY DEF NoRefresh, IsRefresh

(* What is stored is stored in scope, beside what is there.                 *)
LEMMA StoringKeeps ==
  ASSUME NEW lists, CacheLists(lists), DOMAIN modelCache \subseteq Scope
  PROVE  /\ DOMAIN modelCache' \subseteq Scope
         /\ DOMAIN modelCache \subseteq DOMAIN modelCache'
         /\ \A p \in DOMAIN lists : p \in Scope => p \in DOMAIN modelCache'
  BY DEF CacheLists, InScope

(* An answered refresh accounts for every provider it asked.                *)
LEMMA AnswersAccounted ==
  ASSUME NEW queried, NEW answers \in Answers(queried), ~Raises(answers)
  PROVE  /\ StoredOf(answers) \union FailedOf(answers) = queried
         /\ StoredOf(answers) \intersect FailedOf(answers) = {}
<1>1. DOMAIN answers = queried /\ \A p \in queried : answers[p] \in Lists \union {FailedAnswer, CancelledAnswer}
  BY DEF Answers
<1>2. \A p \in queried : answers[p] # CancelledAnswer
  BY <1>1 DEF Raises
<1>3. FailedAnswer \notin Lists
  <2> SUFFICES ASSUME FailedAnswer \in Lists PROVE FALSE
    OBVIOUS
  <2>1. DOMAIN FailedAnswer = {"failed"} /\ FailedAnswer["failed"] = "failed"
    BY DEF FailedAnswer
  <2> QED
    BY <2>1, ModelCatalogAssumption DEF ModelCatalogAssumption
<1>4. StoredOf(answers) = {p \in queried : answers[p] \in Lists}
  BY <1>1, <1>2 DEF StoredOf
<1>5. FailedOf(answers) = {p \in queried : answers[p] = FailedAnswer}
  BY <1>1 DEF FailedOf
<1> QED
  BY <1>1, <1>2, <1>3, <1>4, <1>5

(* What a refresh is about to ask is in scope.                              *)
LEMMA AskingInScope ==
  ASSUME NEW r, IsRefresh(r)
  PROVE  /\ IsRefresh(Asking(r)) /\ Asking(r).generation = r.generation
         /\ Asking(r).asked \subseteq Scope
<1> DEFINE wanted == {p \in WorthAsking(inForce) : r.onlyMissing => p \notin DOMAIN modelCache}
<1>1. wanted \subseteq Scope
  BY DEF WorthAsking, Scope
<1>2. Asking(r) = [r EXCEPT !.at = "asking", !.asked = wanted]
  BY DEF Asking
<1> HIDE DEF wanted
<1> QED
  BY <1>1, <1>2 DEF IsRefresh

LEMMA CatalogStepInv == CatalogInv /\ [CatalogNext]_catalogVars => CatalogInv'
<1> SUFFICES ASSUME CatalogInv, [CatalogNext]_catalogVars PROVE CatalogInv'
  OBVIOUS
<1> USE DEF CatalogInv
<1>1. CASE WarmReferenced
  <2>1. (currentId \in Nat /\ currentId >= 1)'
    BY <1>1 DEF WarmReferenced
  <2>2. (DOMAIN modelCache \subseteq Scope)'
    BY <1>1, StoringKeeps DEF WarmReferenced, StoreAnswers, Scope
  <2>3. (background # NoRefresh => requested = NoRefresh /\ publishing = NoSettings)'
    BY <1>1 DEF WarmReferenced, StartServing, LockFree, CancelledRefresh, RefreshFits
  <2>4. RefreshFits(background)'
    <3>1. CASE background' = background
      BY <1>1, <3>1 DEF WarmReferenced, RefreshFits, Scope, IsRefresh, NoRefresh
    <3>2. CASE /\ managerPhase' = "serving"
               /\ background' = [NoRefresh EXCEPT !.at = "created", !.generation = currentId,
                                                  !.onlyMissing = TRUE]
      <4>1. background' = [at |-> "created", generation |-> currentId, onlyMissing |-> TRUE,
                           asked |-> {}]
        BY <3>2 DEF NoRefresh
      <4> QED
        BY <4>1, <1>1, <3>2 DEF RefreshFits, IsRefresh, WarmReferenced
    <3> QED
      BY <1>1, <3>1, <3>2 DEF WarmReferenced, StartServing
  <2>5. RefreshFits(requested)'
    BY <1>1, NoRefreshFits, AskingInScope DEF WarmReferenced, RefreshFits, Scope, LockFree
  <2>6. (managerPhase # "serving" => requested = NoRefresh /\ publishing = NoSettings)'
    BY <1>1 DEF WarmReferenced, StartServing, LockFree, RefreshFits
  <2>7. (managerPhase = "closed" => tested = NoTest /\ modelCache = [p \in {} |-> <<>>])'
    BY <1>1, ClosedIsIdle DEF WarmReferenced, StartServing
  <2>8. ReportFits'
    BY <1>1, StoringKeeps DEF WarmReferenced, ReportFits, StoreAnswers, StartServing
  <2>9. (requested = NoRefresh \/ publishing = NoSettings)'
    BY <1>1, RefreshIdle DEF WarmReferenced, LockFree, StartServing
  <2> QED
    BY <2>1, <2>2, <2>3, <2>4, <2>5, <2>6, <2>7, <2>8, <2>9
<1>2. CASE BackgroundAsks
  <2>1. (currentId \in Nat /\ currentId >= 1)'
    BY <1>2 DEF BackgroundAsks
  <2>2. (DOMAIN modelCache \subseteq Scope)'
    BY <1>2, StoringKeeps DEF BackgroundAsks, StoreAnswers, Scope
  <2>3. (background # NoRefresh => requested = NoRefresh /\ publishing = NoSettings)'
    BY <1>2 DEF BackgroundAsks, NoRefresh
  <2>4. RefreshFits(background)'
    <3>1. background # NoRefresh
      BY <1>2, RefreshIdle DEF BackgroundAsks
    <3>2. IsRefresh(background) /\ background.generation = currentId /\ managerPhase = "serving"
      BY <3>1 DEF RefreshFits
    <3>3. /\ IsRefresh(Asking(background)) /\ Asking(background).generation = currentId
          /\ Asking(background).asked \subseteq Scope
      BY <3>2, AskingInScope
    <3> QED
      BY <1>2, <3>2, <3>3 DEF BackgroundAsks, RefreshFits, Scope, IsRefresh
  <2>5. RefreshFits(requested)'
    BY <1>2, NoRefreshFits, AskingInScope DEF BackgroundAsks, RefreshFits, Scope, LockFree
  <2>6. (managerPhase # "serving" => requested = NoRefresh /\ publishing = NoSettings)'
    BY <1>2 DEF BackgroundAsks, StartServing, LockFree, RefreshFits
  <2>7. (managerPhase = "closed" => tested = NoTest /\ modelCache = [p \in {} |-> <<>>])'
    BY <1>2, ClosedIsIdle DEF BackgroundAsks, StartServing
  <2>8. ReportFits'
    BY <1>2, StoringKeeps DEF BackgroundAsks, ReportFits, StoreAnswers, StartServing
  <2>9. (requested = NoRefresh \/ publishing = NoSettings)'
    BY <1>2, RefreshIdle DEF BackgroundAsks, LockFree, StartServing
  <2> QED
    BY <2>1, <2>2, <2>3, <2>4, <2>5, <2>6, <2>7, <2>8, <2>9
<1>3. CASE BackgroundEnds
  <2>1. (currentId \in Nat /\ currentId >= 1)'
    BY <1>3 DEF BackgroundEnds
  <2>2. (DOMAIN modelCache \subseteq Scope)'
    BY <1>3, StoringKeeps DEF BackgroundEnds, StoreAnswers, Scope
  <2>3. (background # NoRefresh => requested = NoRefresh /\ publishing = NoSettings)'
    BY <1>3 DEF BackgroundEnds, StartServing, LockFree, CancelledRefresh, RefreshFits
  <2>4. RefreshFits(background)'
    BY <1>3, NoRefreshFits, AskingInScope DEF BackgroundEnds, RefreshFits, Scope, CancelledRefresh, StartServing, LockFree
  <2>5. RefreshFits(requested)'
    BY <1>3, NoRefreshFits, AskingInScope DEF BackgroundEnds, RefreshFits, Scope, LockFree
  <2>6. (managerPhase # "serving" => requested = NoRefresh /\ publishing = NoSettings)'
    BY <1>3 DEF BackgroundEnds, StartServing, LockFree, RefreshFits
  <2>7. (managerPhase = "closed" => tested = NoTest /\ modelCache = [p \in {} |-> <<>>])'
    BY <1>3, ClosedIsIdle DEF BackgroundEnds, StartServing
  <2>8. ReportFits'
    BY <1>3, StoringKeeps DEF BackgroundEnds, ReportFits, StoreAnswers, StartServing
  <2>9. (requested = NoRefresh \/ publishing = NoSettings)'
    BY <1>3, RefreshIdle DEF BackgroundEnds, LockFree, StartServing
  <2> QED
    BY <2>1, <2>2, <2>3, <2>4, <2>5, <2>6, <2>7, <2>8, <2>9
<1>4. CASE RefreshNow
  <2>1. (currentId \in Nat /\ currentId >= 1)'
    BY <1>4 DEF RefreshNow
  <2>2. (DOMAIN modelCache \subseteq Scope)'
    BY <1>4, StoringKeeps DEF RefreshNow, StoreAnswers, Scope
  <2>3. (background # NoRefresh => requested = NoRefresh /\ publishing = NoSettings)'
    BY <1>4 DEF RefreshNow, StartServing, LockFree, CancelledRefresh, RefreshFits
  <2>4. RefreshFits(background)'
    BY <1>4, NoRefreshFits, AskingInScope DEF RefreshNow, RefreshFits, Scope, CancelledRefresh, StartServing, LockFree
  <2>5. RefreshFits(requested)'
    <3> DEFINE fresh == [NoRefresh EXCEPT !.generation = currentId]
    <3>2. IsRefresh(fresh) /\ fresh.generation = currentId
      BY DEF IsRefresh, NoRefresh
    <3>3. requested' = Asking(fresh)
      BY <1>4 DEF RefreshNow
    <3> HIDE DEF fresh
    <3>4. /\ IsRefresh(Asking(fresh)) /\ Asking(fresh).generation = currentId
          /\ Asking(fresh).asked \subseteq Scope
      BY <3>2, AskingInScope
    <3> QED
      BY <1>4, <3>3, <3>4 DEF RefreshNow, RefreshFits, Scope, IsRefresh
  <2>6. (managerPhase # "serving" => requested = NoRefresh /\ publishing = NoSettings)'
    BY <1>4 DEF RefreshNow, StartServing, LockFree, RefreshFits
  <2>7. (managerPhase = "closed" => tested = NoTest /\ modelCache = [p \in {} |-> <<>>])'
    BY <1>4, ClosedIsIdle DEF RefreshNow, StartServing
  <2>8. ReportFits'
    BY <1>4, StoringKeeps DEF RefreshNow, ReportFits, StoreAnswers, StartServing
  <2>9. (requested = NoRefresh \/ publishing = NoSettings)'
    BY <1>4, RefreshIdle DEF RefreshNow, LockFree, StartServing
  <2> QED
    BY <2>1, <2>2, <2>3, <2>4, <2>5, <2>6, <2>7, <2>8, <2>9
<1>5. CASE RefreshReturns
  <2>1. (currentId \in Nat /\ currentId >= 1)'
    BY <1>5 DEF RefreshReturns
  <2>2. (DOMAIN modelCache \subseteq Scope)'
    BY <1>5, StoringKeeps DEF RefreshReturns, StoreAnswers, Scope
  <2>3. (background # NoRefresh => requested = NoRefresh /\ publishing = NoSettings)'
    BY <1>5 DEF RefreshReturns, StartServing, LockFree, CancelledRefresh, RefreshFits
  <2>4. RefreshFits(background)'
    BY <1>5, NoRefreshFits, AskingInScope DEF RefreshReturns, RefreshFits, Scope, CancelledRefresh, StartServing, LockFree
  <2>5. RefreshFits(requested)'
    BY <1>5, NoRefreshFits, AskingInScope DEF RefreshReturns, RefreshFits, Scope, LockFree
  <2>6. (managerPhase # "serving" => requested = NoRefresh /\ publishing = NoSettings)'
    BY <1>5 DEF RefreshReturns, StartServing, LockFree, RefreshFits
  <2>7. (managerPhase = "closed" => tested = NoTest /\ modelCache = [p \in {} |-> <<>>])'
    BY <1>5, ClosedIsIdle DEF RefreshReturns, StartServing
  <2>8. ReportFits'
    <3>1. PICK answers \in Answers(requested.asked) :
            /\ StoreAnswers(answers)
            /\ report' = IF Raises(answers) THEN report
                         ELSE [generation |-> currentId, asked |-> requested.asked,
                               refreshed |-> StoredOf(answers),
                               failed |-> ReportedFailed(answers)]
      BY <1>5 DEF RefreshReturns
    <3>2. /\ DOMAIN modelCache \subseteq DOMAIN modelCache'
          /\ \A p \in StoredOf(answers) : p \in Scope => p \in DOMAIN modelCache'
      BY <3>1, StoringKeeps DEF StoreAnswers
    <3>3. CASE Raises(answers)
      BY <1>5, <3>1, <3>2, <3>3 DEF RefreshReturns, ReportFits
    <3>4. CASE ~Raises(answers)
      <4>1. /\ StoredOf(answers) \union FailedOf(answers) = requested.asked
            /\ StoredOf(answers) \intersect FailedOf(answers) = {}
        BY <3>4, AnswersAccounted
      <4>2. requested # NoRefresh
        BY <1>5, RefreshIdle DEF RefreshReturns
      <4>3. requested.asked \subseteq Scope
        BY <4>2 DEF RefreshFits
      <4>4. report' = [generation |-> currentId, asked |-> requested.asked,
                       refreshed |-> StoredOf(answers), failed |-> FailedOf(answers)]
        BY <3>1, <3>4 DEF ReportedFailed
      <4>5. StoredOf(answers) \subseteq DOMAIN modelCache'
        BY <4>1, <4>3, <3>2
      <4> QED
        BY <1>5, <4>1, <4>4, <4>5 DEF RefreshReturns, ReportFits
    <3> QED
      BY <3>3, <3>4
  <2>9. (requested = NoRefresh \/ publishing = NoSettings)'
    BY <1>5, RefreshIdle DEF RefreshReturns, LockFree, StartServing
  <2> QED
    BY <2>1, <2>2, <2>3, <2>4, <2>5, <2>6, <2>7, <2>8, <2>9
<1>6. CASE BeginReplacement
  <2>1. (currentId \in Nat /\ currentId >= 1)'
    BY <1>6 DEF BeginReplacement
  <2>2. (DOMAIN modelCache \subseteq Scope)'
    BY <1>6, StoringKeeps DEF BeginReplacement, StoreAnswers, Scope
  <2>3. (background # NoRefresh => requested = NoRefresh /\ publishing = NoSettings)'
    BY <1>6 DEF BeginReplacement, StartServing, LockFree, CancelledRefresh, RefreshFits
  <2>4. RefreshFits(background)'
    BY <1>6, NoRefreshFits, AskingInScope DEF BeginReplacement, RefreshFits, Scope, CancelledRefresh, StartServing, LockFree
  <2>5. RefreshFits(requested)'
    BY <1>6, NoRefreshFits, AskingInScope DEF BeginReplacement, RefreshFits, Scope, LockFree
  <2>6. (managerPhase # "serving" => requested = NoRefresh /\ publishing = NoSettings)'
    BY <1>6 DEF BeginReplacement, StartServing, LockFree, RefreshFits
  <2>7. (managerPhase = "closed" => tested = NoTest /\ modelCache = [p \in {} |-> <<>>])'
    BY <1>6, ClosedIsIdle DEF BeginReplacement, StartServing
  <2>8. ReportFits'
    BY <1>6, StoringKeeps DEF BeginReplacement, ReportFits, StoreAnswers, StartServing
  <2>9. (requested = NoRefresh \/ publishing = NoSettings)'
    BY <1>6, RefreshIdle DEF BeginReplacement, LockFree, StartServing
  <2> QED
    BY <2>1, <2>2, <2>3, <2>4, <2>5, <2>6, <2>7, <2>8, <2>9
<1>7. CASE Publish
  <2>1. (currentId \in Nat /\ currentId >= 1)'
    BY <1>7 DEF Publish
  <2>2. (DOMAIN modelCache \subseteq Scope)'
    BY <1>7, StoringKeeps DEF Publish, StoreAnswers, Scope
  <2>3. (background # NoRefresh => requested = NoRefresh /\ publishing = NoSettings)'
    BY <1>7 DEF Publish, StartServing, LockFree, CancelledRefresh, RefreshFits
  <2>4. RefreshFits(background)'
    <3>1. background' = [at |-> "created", generation |-> currentId + 1, onlyMissing |-> FALSE,
                         asked |-> {}]
      BY <1>7 DEF Publish, NoRefresh
    <3>2. managerPhase' = "serving" /\ currentId' = currentId + 1
      BY <1>7 DEF Publish
    <3> QED
      BY <3>1, <3>2 DEF RefreshFits, IsRefresh
  <2>5. RefreshFits(requested)'
    <3>1. requested' = NoRefresh
      BY <1>7 DEF Publish
    <3> QED
      BY <3>1, NoRefreshFits DEF RefreshFits, IsRefresh
  <2>6. (managerPhase # "serving" => requested = NoRefresh /\ publishing = NoSettings)'
    BY <1>7 DEF Publish, StartServing, LockFree, RefreshFits
  <2>7. (managerPhase = "closed" => tested = NoTest /\ modelCache = [p \in {} |-> <<>>])'
    BY <1>7, ClosedIsIdle DEF Publish, StartServing
  <2>8. ReportFits'
    BY <1>7, StoringKeeps DEF Publish, ReportFits, StoreAnswers, StartServing
  <2>9. (requested = NoRefresh \/ publishing = NoSettings)'
    BY <1>7, RefreshIdle DEF Publish, LockFree, StartServing
  <2> QED
    BY <2>1, <2>2, <2>3, <2>4, <2>5, <2>6, <2>7, <2>8, <2>9
<1>8. CASE ReplacementFails
  <2>1. (currentId \in Nat /\ currentId >= 1)'
    BY <1>8 DEF ReplacementFails
  <2>2. (DOMAIN modelCache \subseteq Scope)'
    BY <1>8, StoringKeeps DEF ReplacementFails, StoreAnswers, Scope
  <2>3. (background # NoRefresh => requested = NoRefresh /\ publishing = NoSettings)'
    BY <1>8 DEF ReplacementFails, StartServing, LockFree, CancelledRefresh, RefreshFits
  <2>4. RefreshFits(background)'
    BY <1>8, NoRefreshFits, AskingInScope DEF ReplacementFails, RefreshFits, Scope, CancelledRefresh, StartServing, LockFree
  <2>5. RefreshFits(requested)'
    BY <1>8, NoRefreshFits, AskingInScope DEF ReplacementFails, RefreshFits, Scope, LockFree
  <2>6. (managerPhase # "serving" => requested = NoRefresh /\ publishing = NoSettings)'
    BY <1>8 DEF ReplacementFails, StartServing, LockFree, RefreshFits
  <2>7. (managerPhase = "closed" => tested = NoTest /\ modelCache = [p \in {} |-> <<>>])'
    BY <1>8, ClosedIsIdle DEF ReplacementFails, StartServing
  <2>8. ReportFits'
    BY <1>8, StoringKeeps DEF ReplacementFails, ReportFits, StoreAnswers, StartServing
  <2>9. (requested = NoRefresh \/ publishing = NoSettings)'
    BY <1>8, RefreshIdle DEF ReplacementFails, LockFree, StartServing
  <2> QED
    BY <2>1, <2>2, <2>3, <2>4, <2>5, <2>6, <2>7, <2>8, <2>9
<1>9. CASE TestProvider
  <2>1. (currentId \in Nat /\ currentId >= 1)'
    BY <1>9 DEF TestProvider
  <2>2. (DOMAIN modelCache \subseteq Scope)'
    BY <1>9, StoringKeeps DEF TestProvider, StoreAnswers, Scope
  <2>3. (background # NoRefresh => requested = NoRefresh /\ publishing = NoSettings)'
    BY <1>9 DEF TestProvider, StartServing, LockFree, CancelledRefresh, RefreshFits
  <2>4. RefreshFits(background)'
    BY <1>9, NoRefreshFits, AskingInScope DEF TestProvider, RefreshFits, Scope, CancelledRefresh, StartServing, LockFree
  <2>5. RefreshFits(requested)'
    BY <1>9, NoRefreshFits, AskingInScope DEF TestProvider, RefreshFits, Scope, LockFree
  <2>6. (managerPhase # "serving" => requested = NoRefresh /\ publishing = NoSettings)'
    BY <1>9 DEF TestProvider, StartServing, LockFree, RefreshFits
  <2>7. (managerPhase = "closed" => tested = NoTest /\ modelCache = [p \in {} |-> <<>>])'
    BY <1>9, ClosedIsIdle DEF TestProvider, StartServing
  <2>8. ReportFits'
    BY <1>9, StoringKeeps DEF TestProvider, ReportFits, StoreAnswers, StartServing
  <2>9. (requested = NoRefresh \/ publishing = NoSettings)'
    BY <1>9, RefreshIdle DEF TestProvider, LockFree, StartServing
  <2> QED
    BY <2>1, <2>2, <2>3, <2>4, <2>5, <2>6, <2>7, <2>8, <2>9
<1>10. CASE TestListed
  <2>1. (currentId \in Nat /\ currentId >= 1)'
    BY <1>10 DEF TestListed
  <2>2. (DOMAIN modelCache \subseteq Scope)'
    BY <1>10, StoringKeeps DEF TestListed, StoreAnswers, Scope
  <2>3. (background # NoRefresh => requested = NoRefresh /\ publishing = NoSettings)'
    BY <1>10 DEF TestListed, StartServing, LockFree, CancelledRefresh, RefreshFits
  <2>4. RefreshFits(background)'
    BY <1>10, NoRefreshFits, AskingInScope DEF TestListed, RefreshFits, Scope, CancelledRefresh, StartServing, LockFree
  <2>5. RefreshFits(requested)'
    BY <1>10, NoRefreshFits, AskingInScope DEF TestListed, RefreshFits, Scope, LockFree
  <2>6. (managerPhase # "serving" => requested = NoRefresh /\ publishing = NoSettings)'
    BY <1>10 DEF TestListed, StartServing, LockFree, RefreshFits
  <2>7. (managerPhase = "closed" => tested = NoTest /\ modelCache = [p \in {} |-> <<>>])'
    BY <1>10, ClosedIsIdle DEF TestListed, StartServing
  <2>8. ReportFits'
    BY <1>10, StoringKeeps DEF TestListed, ReportFits, StoreAnswers, StartServing
  <2>9. (requested = NoRefresh \/ publishing = NoSettings)'
    BY <1>10, RefreshIdle DEF TestListed, LockFree, StartServing
  <2> QED
    BY <2>1, <2>2, <2>3, <2>4, <2>5, <2>6, <2>7, <2>8, <2>9
<1>11. CASE TestStored
  <2>1. (currentId \in Nat /\ currentId >= 1)'
    BY <1>11 DEF TestStored
  <2>2. (DOMAIN modelCache \subseteq Scope)'
    BY <1>11, StoringKeeps DEF TestStored, StoreAnswers, Scope
  <2>3. (background # NoRefresh => requested = NoRefresh /\ publishing = NoSettings)'
    BY <1>11 DEF TestStored, StartServing, LockFree, CancelledRefresh, RefreshFits
  <2>4. RefreshFits(background)'
    BY <1>11, NoRefreshFits, AskingInScope DEF TestStored, RefreshFits, Scope, CancelledRefresh, StartServing, LockFree
  <2>5. RefreshFits(requested)'
    BY <1>11, NoRefreshFits, AskingInScope DEF TestStored, RefreshFits, Scope, LockFree
  <2>6. (managerPhase # "serving" => requested = NoRefresh /\ publishing = NoSettings)'
    BY <1>11 DEF TestStored, StartServing, LockFree, RefreshFits
  <2>7. (managerPhase = "closed" => tested = NoTest /\ modelCache = [p \in {} |-> <<>>])'
    BY <1>11, ClosedIsIdle DEF TestStored, StartServing
  <2>8. ReportFits'
    BY <1>11, StoringKeeps DEF TestStored, ReportFits, StoreAnswers, StartServing
  <2>9. (requested = NoRefresh \/ publishing = NoSettings)'
    BY <1>11, RefreshIdle DEF TestStored, LockFree, StartServing
  <2> QED
    BY <2>1, <2>2, <2>3, <2>4, <2>5, <2>6, <2>7, <2>8, <2>9
<1>12. CASE BeginClose
  <2>1. (currentId \in Nat /\ currentId >= 1)'
    BY <1>12 DEF BeginClose
  <2>2. (DOMAIN modelCache \subseteq Scope)'
    BY <1>12, StoringKeeps DEF BeginClose, StoreAnswers, Scope
  <2>3. (background # NoRefresh => requested = NoRefresh /\ publishing = NoSettings)'
    BY <1>12 DEF BeginClose, StartServing, LockFree, CancelledRefresh, RefreshFits
  <2>4. RefreshFits(background)'
    BY <1>12, NoRefreshFits, AskingInScope DEF BeginClose, RefreshFits, Scope, CancelledRefresh, StartServing, LockFree
  <2>5. RefreshFits(requested)'
    BY <1>12, NoRefreshFits, AskingInScope DEF BeginClose, RefreshFits, Scope, LockFree
  <2>6. (managerPhase # "serving" => requested = NoRefresh /\ publishing = NoSettings)'
    BY <1>12 DEF BeginClose, StartServing, LockFree, RefreshFits
  <2>7. (managerPhase = "closed" => tested = NoTest /\ modelCache = [p \in {} |-> <<>>])'
    BY <1>12, ClosedIsIdle DEF BeginClose, StartServing
  <2>8. ReportFits'
    BY <1>12, StoringKeeps DEF BeginClose, ReportFits, StoreAnswers, StartServing
  <2>9. (requested = NoRefresh \/ publishing = NoSettings)'
    BY <1>12, RefreshIdle DEF BeginClose, LockFree, StartServing
  <2> QED
    BY <2>1, <2>2, <2>3, <2>4, <2>5, <2>6, <2>7, <2>8, <2>9
<1>13. CASE EndClose
  <2>1. (currentId \in Nat /\ currentId >= 1)'
    BY <1>13 DEF EndClose
  <2>2. (DOMAIN modelCache \subseteq Scope)'
    BY <1>13, StoringKeeps DEF EndClose, StoreAnswers, Scope
  <2>3. (background # NoRefresh => requested = NoRefresh /\ publishing = NoSettings)'
    BY <1>13 DEF EndClose, StartServing, LockFree, CancelledRefresh, RefreshFits
  <2>4. RefreshFits(background)'
    BY <1>13, NoRefreshFits, AskingInScope DEF EndClose, RefreshFits, Scope, CancelledRefresh, StartServing, LockFree
  <2>5. RefreshFits(requested)'
    BY <1>13, NoRefreshFits, AskingInScope DEF EndClose, RefreshFits, Scope, LockFree
  <2>6. (managerPhase # "serving" => requested = NoRefresh /\ publishing = NoSettings)'
    BY <1>13 DEF EndClose, StartServing, LockFree, RefreshFits
  <2>7. (managerPhase = "closed" => tested = NoTest /\ modelCache = [p \in {} |-> <<>>])'
    BY <1>13, ClosedIsIdle DEF EndClose, StartServing
  <2>8. ReportFits'
    BY <1>13, StoringKeeps DEF EndClose, ReportFits, StoreAnswers, StartServing
  <2>9. (requested = NoRefresh \/ publishing = NoSettings)'
    BY <1>13, RefreshIdle DEF EndClose, LockFree, StartServing
  <2> QED
    BY <2>1, <2>2, <2>3, <2>4, <2>5, <2>6, <2>7, <2>8, <2>9
<1>14. CASE UNCHANGED catalogVars
  BY <1>14 DEF catalogVars, RefreshFits, ReportFits, Scope, IsRefresh
<1> QED
  BY <1>1, <1>2, <1>3, <1>4, <1>5, <1>6, <1>7, <1>8, <1>9, <1>10, <1>11, <1>12, <1>13, <1>14 DEF CatalogNext

-----------------------------------------------------------------------------

(* A call that gives up has tried every key it could, unless the success of *)
(* another brought one back, and under round robin no healthy key is passed *)
(* over for a whole round (key_rotation.py).                                *)
THEOREM KeysAreServed == PoolSpec => []KeysServed
<1>1. PoolInit => PoolInv
  BY PoolInitInv
<1>2. PoolInv /\ [PoolNext]_poolVars => PoolInv'
  BY PoolStepInv
<1>3. PoolInv => KeysServed
  BY PoolInvServes
<1> QED
  BY <1>1, <1>2, <1>3, PTL DEF PoolSpec

(* What a client is told of a failure fits what the provider said and what  *)
(* was done about it (failure_policy.py).                                   *)
THEOREM FailuresAreHonest == FailureSpec => []FailuresHonest
<1>1. FailureInit => FailureInv
  BY FailureInitInv
<1>2. FailureInv /\ [FailureNext]_failureVars => FailureInv'
  BY FailureStepInv
<1>3. FailureInv => FailuresHonest
  BY FailureInvHonest
<1> QED
  BY <1>1, <1>2, <1>3, PTL DEF FailureSpec

(* What was submitted is stored and runs, what was not stays, and a retired *)
(* key is honoured, over any sequence of updates, restarts and crashes      *)
(* (config/admin/, env_migrations.py).                                      *)
THEOREM ConfigurationKept == ConfigSpec => []ConfigSound
<1>1. ConfigInit => ConfigInv
  BY ConfigInitInv
<1>2. ConfigInv /\ [ConfigNext]_configVars => ConfigInv'
  BY ConfigStepInv
<1>3. ConfigInv => ConfigSound
  BY ConfigInvSound
<1> QED
  BY <1>1, <1>2, <1>3, PTL DEF ConfigSpec

(* Only configured providers are on offer, one refresh runs at a time and   *)
(* for the current generation, and its report is exact (provider_manager.py).*)
THEOREM CatalogCurrent == CatalogSpec => [](CacheInScope /\ RefreshCurrent /\ ReportExact)
<1>1. CatalogInit => CatalogInv
  BY CatalogInitInv
<1>2. CatalogInv /\ [CatalogNext]_catalogVars => CatalogInv'
  BY CatalogStepInv
<1>3. CatalogInv => (CacheInScope /\ RefreshCurrent /\ ReportExact)
  BY CatalogInvSound
<1> QED
  BY <1>1, <1>2, <1>3, PTL DEF CatalogSpec

(* ReasoningPolicies.                                                       *)
(* The words of an encoder get no weaker with more effort.                  *)
Words == {"none", "minimal", "low", "medium", "high", "xhigh", "max"}

KeepsOrder(table) ==
    /\ \A k \in 1..6 : table[k] \in Words
    /\ \A k \in 1..5 : Rank[table[k]] <= Rank[table[k + 1]]

LEMMA RankOf ==
  /\ Rank["none"] = 0 /\ Rank["minimal"] = 1 /\ Rank["low"] = 2 /\ Rank["medium"] = 3
  /\ Rank["high"] = 4 /\ Rank["xhigh"] = 5 /\ Rank["max"] = 6
  BY DEF Rank

LEMMA OneToSix ==
  /\ \A k \in 1..6 : k = 1 \/ k = 2 \/ k = 3 \/ k = 4 \/ k = 5 \/ k = 6
  /\ \A k \in 1..5 : k = 1 \/ k = 2 \/ k = 3 \/ k = 4 \/ k = 5
  OBVIOUS

LEMMA SixWords ==
  ASSUME NEW table,
         table[1] \in Words, table[2] \in Words, table[3] \in Words,
         table[4] \in Words, table[5] \in Words, table[6] \in Words,
         Rank[table[1]] <= Rank[table[2]], Rank[table[2]] <= Rank[table[3]],
         Rank[table[3]] <= Rank[table[4]], Rank[table[4]] <= Rank[table[5]],
         Rank[table[5]] <= Rank[table[6]]
  PROVE  KeepsOrder(table)
<1>1. \A k \in 1..6 : table[k] \in Words
  BY OneToSix
<1>2. \A k \in 1..5 : Rank[table[k]] <= Rank[table[k + 1]]
  <2> SUFFICES ASSUME NEW k \in 1..5 PROVE Rank[table[k]] <= Rank[table[k + 1]]
    OBVIOUS
  <2>1. k = 1 \/ k = 2 \/ k = 3 \/ k = 4 \/ k = 5
    OBVIOUS
  <2> QED
    BY <2>1
<1> QED
  BY <1>1, <1>2 DEF KeepsOrder

LEMMA TablesKeepOrder ==
  /\ KeepsOrder(AllEfforts) /\ KeepsOrder(LowMediumHigh) /\ KeepsOrder(LowToMax)
  /\ KeepsOrder(KimiEfforts) /\ KeepsOrder(FireEfforts) /\ KeepsOrder(GeminiEfforts)
  /\ KeepsOrder(AlwaysHigh)
<1> USE RankOf
<1>1. KeepsOrder(AllEfforts)
  <2>1. /\ AllEfforts[1] = "minimal"
      /\ AllEfforts[2] = "low"
      /\ AllEfforts[3] = "medium"
      /\ AllEfforts[4] = "high"
      /\ AllEfforts[5] = "xhigh"
      /\ AllEfforts[6] = "max"
    BY DEF AllEfforts
  <2>2. "minimal" \in Words /\ "low" \in Words /\ "medium" \in Words /\ "high" \in Words /\ "xhigh" \in Words /\ "max" \in Words
    BY DEF Words
  <2> HIDE DEF AllEfforts, Words
  <2> QED
    BY <2>1, <2>2, SixWords
<1>2. KeepsOrder(LowMediumHigh)
  <2>1. /\ LowMediumHigh[1] = "low"
      /\ LowMediumHigh[2] = "low"
      /\ LowMediumHigh[3] = "medium"
      /\ LowMediumHigh[4] = "high"
      /\ LowMediumHigh[5] = "high"
      /\ LowMediumHigh[6] = "high"
    BY DEF LowMediumHigh
  <2>2. "low" \in Words /\ "medium" \in Words /\ "high" \in Words
    BY DEF Words
  <2> HIDE DEF LowMediumHigh, Words
  <2> QED
    BY <2>1, <2>2, SixWords
<1>3. KeepsOrder(LowToMax)
  <2>1. /\ LowToMax[1] = "low"
      /\ LowToMax[2] = "low"
      /\ LowToMax[3] = "medium"
      /\ LowToMax[4] = "high"
      /\ LowToMax[5] = "max"
      /\ LowToMax[6] = "max"
    BY DEF LowToMax
  <2>2. "low" \in Words /\ "medium" \in Words /\ "high" \in Words /\ "max" \in Words
    BY DEF Words
  <2> HIDE DEF LowToMax, Words
  <2> QED
    BY <2>1, <2>2, SixWords
<1>4. KeepsOrder(KimiEfforts)
  <2>1. /\ KimiEfforts[1] = "low"
      /\ KimiEfforts[2] = "low"
      /\ KimiEfforts[3] = "high"
      /\ KimiEfforts[4] = "high"
      /\ KimiEfforts[5] = "max"
      /\ KimiEfforts[6] = "max"
    BY DEF KimiEfforts
  <2>2. "low" \in Words /\ "high" \in Words /\ "max" \in Words
    BY DEF Words
  <2> HIDE DEF KimiEfforts, Words
  <2> QED
    BY <2>1, <2>2, SixWords
<1>5. KeepsOrder(FireEfforts)
  <2>1. /\ FireEfforts[1] = "low"
      /\ FireEfforts[2] = "low"
      /\ FireEfforts[3] = "medium"
      /\ FireEfforts[4] = "high"
      /\ FireEfforts[5] = "xhigh"
      /\ FireEfforts[6] = "max"
    BY DEF FireEfforts
  <2>2. "low" \in Words /\ "medium" \in Words /\ "high" \in Words /\ "xhigh" \in Words /\ "max" \in Words
    BY DEF Words
  <2> HIDE DEF FireEfforts, Words
  <2> QED
    BY <2>1, <2>2, SixWords
<1>6. KeepsOrder(GeminiEfforts)
  <2>1. /\ GeminiEfforts[1] = "minimal"
      /\ GeminiEfforts[2] = "low"
      /\ GeminiEfforts[3] = "medium"
      /\ GeminiEfforts[4] = "high"
      /\ GeminiEfforts[5] = "high"
      /\ GeminiEfforts[6] = "high"
    BY DEF GeminiEfforts
  <2>2. "minimal" \in Words /\ "low" \in Words /\ "medium" \in Words /\ "high" \in Words
    BY DEF Words
  <2> HIDE DEF GeminiEfforts, Words
  <2> QED
    BY <2>1, <2>2, SixWords
<1>7. KeepsOrder(AlwaysHigh)
  <2>1. /\ AlwaysHigh[1] = "high"
      /\ AlwaysHigh[2] = "high"
      /\ AlwaysHigh[3] = "high"
      /\ AlwaysHigh[4] = "high"
      /\ AlwaysHigh[5] = "high"
      /\ AlwaysHigh[6] = "high"
    BY DEF AlwaysHigh
  <2>2. "high" \in Words
    BY DEF Words
  <2> HIDE DEF AlwaysHigh, Words
  <2> QED
    BY <2>1, <2>2, SixWords
<1> QED
  BY <1>1, <1>2, <1>3, <1>4, <1>5, <1>6, <1>7

(* What each encoder is made of.                                            *)
EncoderOK(e) ==
    /\ e.kind \in {"silent", "named", "object", "thinking"}
    /\ e.kind \in {"named", "object"} => KeepsOrder(e.table)
    /\ e.on \in Words
    /\ e.kind = "silent" => e = Silent

LEMMA EncoderKinds ==
  /\ EncoderOK(Silent) /\ EncoderOK(Object) /\ EncoderOK(Thinking)
  /\ \A table, off, budget : \A on \in Words :
        KeepsOrder(table) => EncoderOK(Named(table, off, on, budget))
<1>1. EncoderOK(Silent) /\ EncoderOK(Thinking)
  BY DEF EncoderOK, Silent, Thinking, Encoder, Words
<1>2. EncoderOK(Object)
  BY TablesKeepOrder DEF EncoderOK, Object, Silent, Encoder, Words
<1>3. ASSUME NEW table, NEW off, NEW budget, NEW on \in Words, KeepsOrder(table)
      PROVE  EncoderOK(Named(table, off, on, budget))
  BY <1>3 DEF EncoderOK, Named, Encoder
<1> QED
  BY <1>1, <1>2, <1>3

ProfileNames ==
    {"mistral_codestral", "opencode", "opencode_go", "bedrock",
     "siliconflow", "huggingface", "minimax", "vercel", "kimi", "zai",
     "cohere", "wafer", "ollama_cloud", "ollama", "llamacpp", "kimi_code",
     "cerebras", "groq", "sambanova", "fireworks"}

LEMMA ProfilesNamed == DOMAIN ProfileEncoders = ProfileNames
BY DEF ProfileEncoders, ProfileNames

LEMMA ProfilesOK == \A who \in DOMAIN ProfileEncoders : EncoderOK(ProfileEncoders[who])
<1>1. {"high", "max", "medium"} \subseteq Words
  BY DEF Words
<1>2. /\ EncoderOK(Named(AlwaysHigh, TRUE, "high", FALSE))
      /\ EncoderOK(Named(LowToMax, TRUE, "high", FALSE))
      /\ EncoderOK(Named(KimiEfforts, TRUE, "max", FALSE))
      /\ EncoderOK(Named(LowMediumHigh, TRUE, "medium", FALSE))
      /\ EncoderOK(Named(LowMediumHigh, FALSE, "medium", FALSE))
      /\ EncoderOK(Named(FireEfforts, TRUE, "high", TRUE))
  BY <1>1, EncoderKinds, TablesKeepOrder
<1>3. EncoderOK(Silent) /\ EncoderOK(Object) /\ EncoderOK(Thinking)
  BY EncoderKinds
<1>4. DOMAIN ProfileEncoders = ProfileNames
  BY ProfilesNamed
<1>5. /\ ProfileEncoders["mistral_codestral"] = Silent
      /\ ProfileEncoders["opencode"] = Silent
      /\ ProfileEncoders["opencode_go"] = Silent
      /\ ProfileEncoders["bedrock"] = Silent
      /\ ProfileEncoders["siliconflow"] = Silent
      /\ ProfileEncoders["huggingface"] = Silent
      /\ ProfileEncoders["minimax"] = Silent
      /\ ProfileEncoders["vercel"] = Object
      /\ ProfileEncoders["kimi"] = Thinking
      /\ ProfileEncoders["zai"] = Thinking
  BY DEF ProfileEncoders
<1>6. /\ ProfileEncoders["cohere"] = Named(AlwaysHigh, TRUE, "high", FALSE)
      /\ ProfileEncoders["wafer"] = Named(LowToMax, TRUE, "high", FALSE)
      /\ ProfileEncoders["ollama_cloud"] = Named(LowToMax, TRUE, "high", FALSE)
      /\ ProfileEncoders["ollama"] = Named(LowToMax, TRUE, "high", FALSE)
      /\ ProfileEncoders["llamacpp"] = Named(LowToMax, TRUE, "high", FALSE)
      /\ ProfileEncoders["kimi_code"] = Named(KimiEfforts, TRUE, "max", FALSE)
      /\ ProfileEncoders["cerebras"] = Named(LowMediumHigh, TRUE, "medium", FALSE)
      /\ ProfileEncoders["groq"] = Named(LowMediumHigh, TRUE, "medium", FALSE)
      /\ ProfileEncoders["sambanova"] = Named(LowMediumHigh, FALSE, "medium", FALSE)
      /\ ProfileEncoders["fireworks"] = Named(FireEfforts, TRUE, "high", TRUE)
  BY DEF ProfileEncoders
<1>7. SUFFICES ASSUME NEW who \in DOMAIN ProfileEncoders PROVE EncoderOK(ProfileEncoders[who])
  OBVIOUS
<1> QED
  BY <1>2, <1>3, <1>4, <1>5, <1>6 DEF ProfileNames

LEMMA OthersOK == EncoderOK(LmStudio) /\ EncoderOK(OpenRouter) /\ EncoderOK(Cloudflare)
<1>1. "high" \in Words
  BY DEF Words
<1> QED
  BY <1>1, EncoderKinds, TablesKeepOrder DEF LmStudio, OpenRouter, Cloudflare

(* What an encoder must do with a policy.                                   *)
Says(p, w, more) ==
    /\ w.asks \in {"unsaid", "off", "on"}
    /\ p.control = "off" => w.asks # "on"
    /\ p = DefaultPolicy => w = Unsaid
    /\ p.effort \in 1..5 => Rank[w.word] <= Rank[more.word]

More(p) == [p EXCEPT !.effort = @ + 1]

LEMMA Stronger ==
  ASSUME NEW p \in Policies, p.effort \in 1..5
  PROVE  /\ More(p).control = p.control /\ More(p).budget = p.budget
         /\ More(p).effort = p.effort + 1 /\ More(p).effort \in 2..6
BY DEF More, Policies, Efforts

LEMMA NamedSays ==
  ASSUME NEW e, EncoderOK(e), e.kind = "named", NEW p \in Policies
  PROVE  /\ Says(p, NamedEncoded(e, p), NamedEncoded(e, More(p)))
         /\ p.control = "on" /\ p.effort # 0 => NamedEncoded(e, p).asks = "on"
<1>1. /\ \A k \in 1..6 : e.table[k] \in Words
      /\ \A k \in 1..5 : Rank[e.table[k]] <= Rank[e.table[k + 1]]
  BY DEF EncoderOK, KeepsOrder
<1>2. p.effort \in 0..6 /\ p.control \in {"default", "off", "on"} /\ p.budget \in BOOLEAN
  BY DEF Policies, Efforts, Control
<1>3. NamedEncoded(e, p).asks \in {"unsaid", "off", "on"}
  BY <1>2 DEF NamedEncoded, Off, Unsaid, Budget, On, Wire
<1>4. p.control = "off" => NamedEncoded(e, p).asks # "on"
  BY <1>2 DEF NamedEncoded, Off, Unsaid, Budget, On, Wire
<1>5. p = DefaultPolicy => NamedEncoded(e, p) = Unsaid
  BY <1>2 DEF NamedEncoded, DefaultPolicy, Policy, Unsaid
<1>6. ASSUME p.effort \in 1..5
      PROVE  Rank[NamedEncoded(e, p).word] <= Rank[NamedEncoded(e, More(p)).word]
  <2>1. /\ More(p).control = p.control /\ More(p).budget = p.budget
        /\ More(p).effort = p.effort + 1 /\ More(p).effort # 0 /\ p.effort # 0
    BY <1>6, Stronger
  <2>2. CASE p.control = "off" \/ (p.budget /\ e.budget)
    BY <2>1, <2>2, RankOf DEF NamedEncoded, Off, Unsaid, Budget, Wire
  <2>3. CASE p.control # "off" /\ ~(p.budget /\ e.budget)
    <3>1. NamedEncoded(e, p) = On(e.table[p.effort])
      BY <2>1, <2>3 DEF NamedEncoded
    <3>2. NamedEncoded(e, More(p)) = On(e.table[p.effort + 1])
      BY <2>1, <2>3 DEF NamedEncoded
    <3> QED
      BY <3>1, <3>2, <1>1, <1>6 DEF On, Wire
  <2> QED
    BY <2>2, <2>3
<1>7. p.control = "on" /\ p.effort # 0 => NamedEncoded(e, p).asks = "on"
  BY <1>2 DEF NamedEncoded, Budget, On, Wire
<1> QED
  BY <1>3, <1>4, <1>5, <1>6, <1>7 DEF Says

LEMMA PolicyShape ==
  ASSUME NEW p \in Policies
  PROVE  /\ p.effort \in 0..6 /\ p.control \in {"default", "off", "on"} /\ p.budget \in BOOLEAN
         /\ p = DefaultPolicy => p.control = "default" /\ p.effort = 0 /\ p.budget = FALSE
BY DEF Policies, Efforts, Control, DefaultPolicy, Policy

LEMMA ObjectSays ==
  ASSUME NEW e, EncoderOK(e), e.kind = "object", NEW p \in Policies
  PROVE  /\ Says(p, ObjectEncoded(e, p), ObjectEncoded(e, More(p)))
         /\ p.control = "on" /\ p.effort # 0 => ObjectEncoded(e, p).asks = "on"
<1>1. /\ \A k \in 1..6 : e.table[k] \in Words
      /\ \A k \in 1..5 : Rank[e.table[k]] <= Rank[e.table[k + 1]]
  BY DEF EncoderOK, KeepsOrder
<1>2. p.effort \in 0..6 /\ p.control \in {"default", "off", "on"} /\ p.budget \in BOOLEAN
  BY PolicyShape
<1>3. ObjectEncoded(e, p).asks \in {"unsaid", "off", "on"}
  BY <1>2 DEF ObjectEncoded, Off, Unsaid, Budget, On, Wire
<1>4. p.control = "off" => ObjectEncoded(e, p).asks # "on"
  BY <1>2 DEF ObjectEncoded, Off, Unsaid, Budget, On, Wire
<1>5. p = DefaultPolicy => ObjectEncoded(e, p) = Unsaid
  BY PolicyShape DEF ObjectEncoded
<1>6. ASSUME p.effort \in 1..5
      PROVE  Rank[ObjectEncoded(e, p).word] <= Rank[ObjectEncoded(e, More(p)).word]
  <2>1. /\ More(p).control = p.control /\ More(p).budget = p.budget
        /\ More(p).effort = p.effort + 1 /\ More(p).effort # 0 /\ p.effort # 0
    BY <1>6, Stronger
  <2>2. CASE p.control = "off" \/ p.budget
    BY <2>1, <2>2, RankOf DEF ObjectEncoded, Off, Unsaid, Budget, Wire
  <2>3. CASE p.control # "off" /\ ~p.budget
    <3>1. ObjectEncoded(e, p) = On(e.table[p.effort])
      BY <2>1, <2>3 DEF ObjectEncoded
    <3>2. ObjectEncoded(e, More(p)) = On(e.table[p.effort + 1])
      BY <2>1, <2>3 DEF ObjectEncoded
    <3> QED
      BY <3>1, <3>2, <1>1, <1>6 DEF On, Wire
  <2> QED
    BY <2>2, <2>3
<1>7. p.control = "on" /\ p.effort # 0 => ObjectEncoded(e, p).asks = "on"
  BY <1>2 DEF ObjectEncoded, Budget, On, Wire
<1> QED
  BY <1>3, <1>4, <1>5, <1>6, <1>7 DEF Says

(* The encoders that only turn reasoning on or off always write "none".     *)
LEMMA SwitchSays ==
  ASSUME NEW p \in Policies
  PROVE  /\ SwitchEncoded(p).asks \in {"unsaid", "off", "on"} /\ SwitchEncoded(p).word = "none"
         /\ p.control = "off" => SwitchEncoded(p) = Off
         /\ p = DefaultPolicy => SwitchEncoded(p) = Unsaid
         /\ p.control # "off" /\ (p.control = "on" \/ p.effort # 0) => SwitchEncoded(p).asks = "on"
<1>1. p.effort \in 0..6 /\ p.control \in {"default", "off", "on"} /\ p.budget \in BOOLEAN
  BY PolicyShape
<1>2. p = DefaultPolicy => ~RequestsReasoning(p) /\ p.control # "off"
  BY PolicyShape DEF RequestsReasoning
<1> QED
  BY <1>1, <1>2 DEF SwitchEncoded, RequestsReasoning, Off, Unsaid, On, Wire

LEMMA ByEncoderSays ==
  ASSUME NEW e, EncoderOK(e), NEW p \in Policies
  PROVE  /\ Says(p, ByEncoder(e, p), ByEncoder(e, More(p)))
         /\ p.control = "on" /\ p.effort # 0 /\ e # Silent => ByEncoder(e, p).asks = "on"
<1>1. CASE e.kind = "silent"
  <2>1. e = Silent /\ ByEncoder(e, p) = Unsaid /\ ByEncoder(e, More(p)) = Unsaid
    BY <1>1 DEF EncoderOK, ByEncoder
  <2> QED
    BY <2>1, RankOf DEF Says, Unsaid, Wire
<1>2. CASE e.kind = "named"
  BY <1>2, NamedSays DEF ByEncoder
<1>3. CASE e.kind = "object"
  BY <1>3, ObjectSays DEF ByEncoder
<1>4. CASE e.kind = "thinking"
  <2>1. ByEncoder(e, p) = SwitchEncoded(p) /\ ByEncoder(e, More(p)) = SwitchEncoded(More(p))
    BY <1>4 DEF ByEncoder
  <2>2. p.effort \in 1..5 => SwitchEncoded(p).word = "none" /\ SwitchEncoded(More(p)).word = "none"
    <3>1. p.effort \in 1..5 => More(p) \in Policies
      BY DEF More, Policies, Efforts
    <3> QED
      BY <3>1, SwitchSays
  <2>3. Off.asks # "on"
    BY DEF Off, Wire
  <2> QED
    BY <2>1, <2>2, <2>3, SwitchSays, RankOf DEF Says
<1> QED
  BY <1>1, <1>2, <1>3, <1>4 DEF EncoderOK

(* The encoders of single providers.                                        *)
LEMMA OwnEncodersSay ==
  ASSUME NEW p \in Policies
  PROVE  /\ Says(p, DeepSeekEncoded(p), DeepSeekEncoded(More(p)))
         /\ Says(p, MistralEncoded(p), MistralEncoded(More(p)))
         /\ Says(p, NimEncoded(p), NimEncoded(More(p)))
         /\ Says(p, GeminiEncoded(p), GeminiEncoded(More(p)))
         /\ Says(p, VertexEncoded(p), VertexEncoded(More(p)))
         /\ p.control = "on" /\ p.effort # 0 =>
              /\ DeepSeekEncoded(p).asks = "on" /\ MistralEncoded(p).asks = "on"
              /\ NimEncoded(p).asks = "on" /\ GeminiEncoded(p).asks = "on"
              /\ VertexEncoded(p).asks = "on"
<1>1. p.effort \in 0..6 /\ p.control \in {"default", "off", "on"} /\ p.budget \in BOOLEAN
  BY PolicyShape
<1>2. p = DefaultPolicy => ~RequestsReasoning(p)
  BY PolicyShape DEF RequestsReasoning
<1>3. p.control = "on" => RequestsReasoning(p)
  BY DEF RequestsReasoning
<1>4. p.effort \in 1..5 =>
        /\ More(p).control = p.control /\ More(p).budget = p.budget /\ More(p) \in Policies
        /\ More(p).effort = p.effort + 1 /\ More(p).effort # 0 /\ p.effort # 0
  <2>1. p.effort \in 1..5 => More(p) \in Policies
    BY DEF More, Policies, Efforts
  <2> QED
    BY <2>1, Stronger
<1>5. p.effort \in 1..5 /\ p.control # "off" => RequestsReasoning(p) /\ RequestsReasoning(More(p))
  BY <1>1, <1>4 DEF RequestsReasoning
<1>6. /\ Off.asks = "off" /\ Unsaid.asks = "unsaid" /\ Budget.asks = "on"
      /\ Off.word = "none" /\ Unsaid.word = "none" /\ Budget.word = "none"
      /\ \A w : On(w).asks = "on" /\ On(w).word = w
  BY DEF Off, Unsaid, Budget, On, Wire
<1>7. /\ Says(p, DeepSeekEncoded(p), DeepSeekEncoded(More(p)))
      /\ p.control = "on" /\ p.effort # 0 => DeepSeekEncoded(p).asks = "on"
  <2>1. DeepSeekEncoded(p).asks \in {"unsaid", "off", "on"}
    BY <1>1, <1>6, SwitchSays DEF DeepSeekEncoded
  <2>2. p.control = "off" => DeepSeekEncoded(p).asks # "on"
    BY <1>6 DEF DeepSeekEncoded
  <2>3. p = DefaultPolicy => DeepSeekEncoded(p) = Unsaid
    <3> SUFFICES ASSUME p = DefaultPolicy PROVE DeepSeekEncoded(p) = Unsaid
      OBVIOUS
    <3>1. p.control = "default" /\ p.effort = 0 /\ SwitchEncoded(p) = Unsaid
      BY PolicyShape, SwitchSays
    <3>2. ~(p.effort \in 5..6) /\ ~(p.effort \in 1..4)
      BY <3>1
    <3> QED
      BY <3>1, <3>2 DEF DeepSeekEncoded
  <2>4. p.effort \in 1..5 => Rank[DeepSeekEncoded(p).word] <= Rank[DeepSeekEncoded(More(p)).word]
    BY <1>1, <1>4, <1>6, RankOf DEF DeepSeekEncoded
  <2>5. p.control = "on" /\ p.effort # 0 => DeepSeekEncoded(p).asks = "on"
    BY <1>1, <1>6 DEF DeepSeekEncoded
  <2> QED
    BY <2>1, <2>2, <2>3, <2>4, <2>5 DEF Says
<1>8. /\ Says(p, MistralEncoded(p), MistralEncoded(More(p)))
      /\ p.control = "on" /\ p.effort # 0 => MistralEncoded(p).asks = "on"
  <2>1. MistralEncoded(p).asks \in {"unsaid", "off", "on"}
    BY <1>6, SwitchSays DEF MistralEncoded
  <2>2. p.control = "off" => MistralEncoded(p).asks # "on"
    BY <1>6, SwitchSays DEF MistralEncoded
  <2>3. p = DefaultPolicy => MistralEncoded(p) = Unsaid
    BY <1>6, SwitchSays DEF MistralEncoded
  <2>4. p.effort \in 1..5 => Rank[MistralEncoded(p).word] <= Rank[MistralEncoded(More(p)).word]
    <3>1. CASE p.control = "off"
      BY <3>1, <1>4, <1>6, SwitchSays, RankOf DEF MistralEncoded
    <3>2. CASE p.control # "off"
      BY <3>2, <1>1, <1>4, <1>6, SwitchSays, RankOf DEF MistralEncoded
    <3> QED
      BY <3>1, <3>2
  <2>5. p.control = "on" /\ p.effort # 0 => MistralEncoded(p).asks = "on"
    BY <1>1, <1>6, SwitchSays DEF MistralEncoded
  <2> QED
    BY <2>1, <2>2, <2>3, <2>4, <2>5 DEF Says
<1>9. /\ Says(p, NimEncoded(p), NimEncoded(More(p)))
      /\ p.control = "on" /\ p.effort # 0 => NimEncoded(p).asks = "on"
  <2>1. NimEncoded(p).asks \in {"unsaid", "off", "on"}
    BY <1>6, SwitchSays DEF NimEncoded
  <2>2. p.control = "off" => NimEncoded(p).asks # "on"
    BY <1>6, SwitchSays DEF NimEncoded, RequestsReasoning
  <2>3. p = DefaultPolicy => NimEncoded(p) = Unsaid
    BY <1>2, SwitchSays DEF NimEncoded
  <2>4. p.effort \in 1..5 => Rank[NimEncoded(p).word] <= Rank[NimEncoded(More(p)).word]
    BY <1>4, <1>6, SwitchSays, RankOf DEF NimEncoded
  <2>5. p.control = "on" /\ p.effort # 0 => NimEncoded(p).asks = "on"
    BY <1>3, <1>6 DEF NimEncoded
  <2> QED
    BY <2>1, <2>2, <2>3, <2>4, <2>5 DEF Says
<1>10. /\ Says(p, GeminiEncoded(p), GeminiEncoded(More(p)))
       /\ p.control = "on" /\ p.effort # 0 => GeminiEncoded(p).asks = "on"
  <2>1. GeminiEncoded(p).asks \in {"unsaid", "off", "on"}
    BY <1>1, <1>6 DEF GeminiEncoded
  <2>2. p.control = "off" => GeminiEncoded(p).asks # "on"
    BY <1>6 DEF GeminiEncoded
  <2>3. p = DefaultPolicy => GeminiEncoded(p) = Unsaid
    BY PolicyShape DEF GeminiEncoded
  <2>4. p.effort \in 1..5 => Rank[GeminiEncoded(p).word] <= Rank[GeminiEncoded(More(p)).word]
    <3>1. \A k \in 1..5 : Rank[GeminiEfforts[k]] <= Rank[GeminiEfforts[k + 1]]
      BY TablesKeepOrder DEF KeepsOrder
    <3>2. CASE p.control = "off" \/ p.budget
      BY <3>2, <1>1, <1>4, <1>6, RankOf DEF GeminiEncoded
    <3>3. CASE p.effort \in 1..5 /\ p.control # "off" /\ ~p.budget
      <4>1. GeminiEncoded(p) = On(GeminiEfforts[p.effort])
        BY <3>3, <1>4 DEF GeminiEncoded
      <4>2. GeminiEncoded(More(p)) = On(GeminiEfforts[p.effort + 1])
        BY <3>3, <1>4 DEF GeminiEncoded
      <4> QED
        BY <4>1, <4>2, <3>1, <1>6, <3>3
    <3> QED
      BY <3>2, <3>3, <1>1
  <2>5. p.control = "on" /\ p.effort # 0 => GeminiEncoded(p).asks = "on"
    BY <1>1, <1>6 DEF GeminiEncoded
  <2> QED
    BY <2>1, <2>2, <2>3, <2>4, <2>5 DEF Says
<1>11. /\ Says(p, VertexEncoded(p), VertexEncoded(More(p)))
       /\ p.control = "on" /\ p.effort # 0 => VertexEncoded(p).asks = "on"
  <2>1. VertexEncoded(p).asks \in {"unsaid", "off", "on"}
    BY <1>1, <1>6 DEF VertexEncoded
  <2>2. p.control = "off" => VertexEncoded(p).asks # "on"
    BY <1>6 DEF VertexEncoded
  <2>3. p = DefaultPolicy => VertexEncoded(p) = Unsaid
    BY PolicyShape DEF VertexEncoded
  <2>4. p.effort \in 1..5 => Rank[VertexEncoded(p).word] <= Rank[VertexEncoded(More(p)).word]
    BY <1>1, <1>4, <1>6, RankOf DEF VertexEncoded
  <2>5. p.control = "on" /\ p.effort # 0 => VertexEncoded(p).asks = "on"
    BY <1>1, <1>6 DEF VertexEncoded
  <2> QED
    BY <2>1, <2>2, <2>3, <2>4, <2>5 DEF Says
<1> QED
  BY <1>7, <1>8, <1>9, <1>10, <1>11

LEMMA EncodedSays ==
  ASSUME NEW who \in Upstreams, NEW p \in Policies
  PROVE  /\ Says(p, Encoded(who, p), Encoded(who, More(p)))
         /\ p.control = "on" /\ p.effort # 0 /\ ~Mute(who) => Encoded(who, p).asks = "on"
<1>1. CASE who \in DOMAIN ProfileEncoders
  <2>0. /\ who # "lmstudio" /\ who # "open_router" /\ who # "cloudflare" /\ who # "deepseek"
        /\ who # "mistral" /\ who # "nvidia_nim" /\ who # "gemini" /\ who # "vertex"
    BY <1>1, ProfilesNamed DEF ProfileNames
  <2>1. Encoded(who, p) = ByEncoder(ProfileEncoders[who], p)
    BY <1>1, <2>0 DEF Encoded
  <2>2. Encoded(who, More(p)) = ByEncoder(ProfileEncoders[who], More(p))
    BY <1>1, <2>0 DEF Encoded
  <2>3. ~Mute(who) => ProfileEncoders[who] # Silent
    BY <1>1 DEF Mute
  <2>4. EncoderOK(ProfileEncoders[who])
    BY <1>1, ProfilesOK
  <2> QED
    BY <2>1, <2>2, <2>3, <2>4, ByEncoderSays
<1>2. CASE who \notin DOMAIN ProfileEncoders /\ who \in {"lmstudio", "open_router", "cloudflare"}
  <2> DEFINE e == CASE who = "lmstudio" -> LmStudio [] who = "open_router" -> OpenRouter
                    [] who = "cloudflare" -> Cloudflare
  <2>1. Encoded(who, p) = ByEncoder(e, p) /\ Encoded(who, More(p)) = ByEncoder(e, More(p))
    BY <1>2 DEF Encoded
  <2>2. EncoderOK(e)
    BY <1>2, OthersOK
  <2>3. LmStudio # Silent /\ OpenRouter # Silent /\ Cloudflare # Silent
    BY DEF LmStudio, OpenRouter, Cloudflare, Named, Object, Thinking, Silent, Encoder
  <2>4. e # Silent
    BY <1>2, <2>3
  <2> HIDE DEF e
  <2> QED
    BY <2>1, <2>2, <2>4, ByEncoderSays
<1>3. CASE who \notin DOMAIN ProfileEncoders
           /\ who \in {"deepseek", "mistral", "nvidia_nim", "gemini", "vertex"}
  <2>1. /\ who = "deepseek" => /\ Encoded(who, p) = DeepSeekEncoded(p)
                               /\ Encoded(who, More(p)) = DeepSeekEncoded(More(p))
        /\ who = "mistral" => /\ Encoded(who, p) = MistralEncoded(p)
                              /\ Encoded(who, More(p)) = MistralEncoded(More(p))
        /\ who = "nvidia_nim" => /\ Encoded(who, p) = NimEncoded(p)
                                 /\ Encoded(who, More(p)) = NimEncoded(More(p))
        /\ who = "gemini" => /\ Encoded(who, p) = GeminiEncoded(p)
                             /\ Encoded(who, More(p)) = GeminiEncoded(More(p))
        /\ who = "vertex" => /\ Encoded(who, p) = VertexEncoded(p)
                             /\ Encoded(who, More(p)) = VertexEncoded(More(p))
    BY <1>3 DEF Encoded
  <2> QED
    BY <2>1, <1>3, OwnEncodersSay
<1> QED
  BY <1>1, <1>2, <1>3 DEF Upstreams, Special, Google

(* The policy of a request is one of the policies.                          *)
LEMMA ResolvedPolicy ==
  ASSUME NEW preference \in Preferences \ {"inherit"}, NEW r \in Requests
  PROVE  /\ Resolve(preference, r) \in Policies
         /\ preference = "off" => Resolve(preference, r) = OffPolicy
         /\ preference = "client" => Resolve(preference, r) = ClientPolicy(r)
         /\ preference \in DOMAIN EffortOf =>
              /\ Resolve(preference, r) = Policy("on", EffortOf[preference], FALSE)
              /\ EffortOf[preference] \in 2..6
<1>1. /\ r.thinking \in {"absent", "untyped", "disabled", "enabled", "adaptive"}
      /\ r.budget \in BOOLEAN /\ r.effort \in 0..7
  BY DEF Requests
<1>2. ThinkingControl(r) \in Control
  BY <1>1 DEF ThinkingControl, Control
<1>3. r.effort # 7 => ClientEffort(r) \in 0..6
  BY <1>1 DEF ClientEffort
<1>4. OffPolicy \in Policies
  BY DEF OffPolicy, Policy, Policies, Control, Efforts
<1>5. ClientPolicy(r) \in Policies
  <2>1. r.effort = 7 => ClientPolicy(r) = OffPolicy
    BY DEF ClientPolicy
  <2>2. r.effort # 7 /\ ThinkingControl(r) = "on" =>
          ClientPolicy(r) = Policy("on", ClientEffort(r), r.thinking # "absent" /\ r.budget)
    BY DEF ClientPolicy
  <2>3. r.effort # 7 /\ ThinkingControl(r) # "on" =>
          ClientPolicy(r) = Policy(ThinkingControl(r), ClientEffort(r), FALSE)
    BY DEF ClientPolicy
  <2>4. \A control \in Control, effort \in 0..6, budget \in BOOLEAN :
          Policy(control, effort, budget) \in Policies
    BY DEF Policy, Policies, Efforts
  <2>5. (r.thinking # "absent" /\ r.budget) \in BOOLEAN /\ "on" \in Control
    BY DEF Control
  <2>6. CASE r.effort = 7
    BY <2>6, <2>1, <1>4
  <2>7. CASE r.effort # 7 /\ ThinkingControl(r) = "on"
    BY <2>7, <2>2, <2>4, <2>5, <1>3
  <2>8. CASE r.effort # 7 /\ ThinkingControl(r) # "on"
    BY <2>8, <2>3, <2>4, <1>2, <1>3
  <2> QED
    BY <2>6, <2>7, <2>8
<1>6. /\ DOMAIN EffortOf = {"low", "medium", "high", "xhigh", "max"}
      /\ \A q \in DOMAIN EffortOf : EffortOf[q] \in 2..6
  BY DEF EffortOf
<1>7. preference \in {"off", "client"} \union DOMAIN EffortOf
  BY PreferencesAssumption
<1>8. /\ preference = "off" => Resolve(preference, r) = OffPolicy
      /\ preference = "client" => Resolve(preference, r) = ClientPolicy(r)
      /\ preference \in DOMAIN EffortOf =>
           Resolve(preference, r) = Policy("on", EffortOf[preference], FALSE)
  BY <1>6 DEF Resolve
<1>9. \A q \in 2..6 : Policy("on", q, FALSE) \in Policies
  BY DEF Policy, Policies, Control, Efforts
<1> QED
  BY <1>4, <1>5, <1>6, <1>7, <1>8, <1>9

(* What a request has become, at each stage.                                *)
KeptOwn == upstream \in Google /\ asked.own

ReasoningInv ==
    /\ routedBy.form \in Forms /\ routedBy.preference \in Preferences \ {"inherit"}
    /\ routedBy.form = "gateway_off" => routedBy.preference = "off"
    /\ policy \in Policies /\ asked \in Requests /\ upstream \in Upstreams
    /\ stage \in {"named", "routed", "resolved", "encoded", "rejected"}
    /\ stage \in {"resolved", "encoded"} =>
          policy = IF asked.classifier THEN OffPolicy ELSE Resolve(routedBy.preference, asked)
    /\ stage = "encoded" /\ KeptOwn => policy = DefaultPolicy /\ wire = On("none")
    /\ stage = "encoded" /\ ~KeptOwn => wire = Encoded(upstream, policy)

LEMMA ReasoningInitInv == ReasoningInit => ReasoningInv
<1> SUFFICES ASSUME ReasoningInit PROVE ReasoningInv
  OBVIOUS
<1>1. /\ routedBy.form = "plain" /\ routedBy.preference = "client"
      /\ policy = DefaultPolicy /\ asked = NoRequest /\ upstream = "opencode" /\ stage = "named"
  BY DEF ReasoningInit, NoRoute
<1>2. policy \in Policies
  BY <1>1 DEF DefaultPolicy, Policy, Policies, Control, Efforts
<1>3. asked \in Requests
  BY <1>1 DEF NoRequest, Requests
<1>4. upstream \in Upstreams
  BY <1>1 DEF Upstreams, ProfileEncoders
<1>5. "client" \in Preferences \ {"inherit"}
  BY PreferencesAssumption
<1> QED
  BY <1>1, <1>2, <1>3, <1>4, <1>5 DEF ReasoningInv, Forms

LEMMA RoutedPreference ==
  ASSUME NEW form \in Forms, NEW words, NEW root \in Preferences \ {"inherit"},
         NEW route \in Preferences
  PROVE  /\ ResolvedPreference(form, words, root, route) \in Preferences \ {"inherit"}
         /\ form = "gateway_off" => ResolvedPreference(form, words, root, route) = "off"
<1>1. RoutePreference(words, root, route) \in Preferences \ {"inherit"}
  BY DEF RoutePreference
<1>2. "off" \in Preferences
  BY PreferencesAssumption
<1> QED
  BY <1>1, <1>2 DEF ResolvedPreference, Forms, DirectForms

LEMMA ReasoningStepInv == ReasoningInv /\ [ReasoningNext]_reasoningVars => ReasoningInv'
<1> SUFFICES ASSUME ReasoningInv, [ReasoningNext]_reasoningVars PROVE ReasoningInv'
  OBVIOUS
<1>1. CASE Route
  <2>1. PICK form \in Forms, words \in SUBSET {"fable", "opus", "haiku", "sonnet"},
             root \in Preferences \ {"inherit"}, route \in Preferences :
          routedBy' = [form |-> form,
                       preference |-> ResolvedPreference(form, words, root, route)]
    BY <1>1 DEF Route
  <2>2. /\ routedBy'.form = form
        /\ routedBy'.preference = ResolvedPreference(form, words, root, route)
    BY <2>1
  <2>3. stage' = "routed" /\ UNCHANGED <<policy, asked, upstream, wire>>
    BY <1>1 DEF Route
  <2> QED
    BY <2>2, <2>3, RoutedPreference DEF ReasoningInv, KeptOwn
<1>2. CASE ResolvePolicy
  <2>1. PICK r \in Requests :
          /\ asked' = r
          /\ policy' = IF r.classifier THEN OffPolicy ELSE Resolve(routedBy.preference, r)
    BY <1>2 DEF ResolvePolicy
  <2>2. stage' = "resolved" /\ UNCHANGED <<routedBy, upstream, wire>>
    BY <1>2 DEF ResolvePolicy
  <2>3. policy' \in Policies
    <3>1. OffPolicy \in Policies
      BY DEF OffPolicy, Policy, Policies, Control, Efforts
    <3> QED
      BY <2>1, <3>1, ResolvedPolicy DEF ReasoningInv
  <2> QED
    BY <2>1, <2>2, <2>3 DEF ReasoningInv, KeptOwn
<1>3. CASE EncodeReasoning
  <2>1. PICK who \in Upstreams :
          /\ upstream' = who
          /\ IF who \in Google /\ asked.own
             THEN /\ stage' = IF policy = DefaultPolicy THEN "encoded" ELSE "rejected"
                  /\ wire' = IF policy = DefaultPolicy THEN On("none") ELSE Unsaid
             ELSE stage' = "encoded" /\ wire' = Encoded(who, policy)
    BY <1>3 DEF EncodeReasoning
  <2>2. stage = "resolved" /\ UNCHANGED <<routedBy, policy, asked>>
    BY <1>3 DEF EncodeReasoning
  <2> QED
    BY <2>1, <2>2 DEF ReasoningInv, KeptOwn
<1>4. CASE UNCHANGED reasoningVars
  BY <1>4 DEF ReasoningInv, KeptOwn, reasoningVars
<1> QED
  BY <1>1, <1>2, <1>3, <1>4 DEF ReasoningNext

LEMMA ReasoningInvHonoured == ReasoningInv => ReasoningHonoured
<1> SUFFICES ASSUME ReasoningInv, stage = "encoded" PROVE ReasoningHonoured
  BY DEF ReasoningHonoured, OffIsOff, SaidAsMeant, EffortsKeepOrder
<1>1. /\ routedBy.preference \in Preferences \ {"inherit"}
      /\ routedBy.form = "gateway_off" => routedBy.preference = "off"
      /\ policy \in Policies /\ asked \in Requests /\ upstream \in Upstreams
      /\ policy = IF asked.classifier THEN OffPolicy ELSE Resolve(routedBy.preference, asked)
      /\ KeptOwn => policy = DefaultPolicy /\ wire = On("none")
      /\ ~KeptOwn => wire = Encoded(upstream, policy)
  BY DEF ReasoningInv
<1>2. /\ Says(policy, Encoded(upstream, policy), Encoded(upstream, More(policy)))
      /\ policy.control = "on" /\ policy.effort # 0 /\ ~Mute(upstream)
           => Encoded(upstream, policy).asks = "on"
  BY <1>1, EncodedSays
<1>3. OffIsOff
  <2> SUFFICES ASSUME MustBeOff PROVE wire.asks # "on"
    BY DEF OffIsOff
  <2>1. OffPolicy.control = "off"
    BY DEF OffPolicy, Policy
  <2>2. asked.thinking = "disabled" \/ asked.effort = 7 => ClientPolicy(asked).control = "off"
    BY <2>1, <1>1 DEF ClientPolicy, ThinkingControl, Policy, Requests
  <2>3. policy.control = "off"
    BY <2>1, <2>2, <1>1, ResolvedPolicy DEF MustBeOff
  <2>4. policy # DefaultPolicy
    BY <2>3 DEF DefaultPolicy, Policy
  <2> QED
    BY <2>3, <2>4, <1>1, <1>2 DEF Says
<1>4. SaidAsMeant
  <2>1. ASSUME routedBy.preference \in DOMAIN EffortOf, ~asked.classifier, ~Mute(upstream)
        PROVE  wire.asks = "on"
    <3>1. policy = Policy("on", EffortOf[routedBy.preference], FALSE)
          /\ EffortOf[routedBy.preference] \in 2..6
      BY <2>1, <1>1, ResolvedPolicy
    <3>2. policy.control = "on" /\ policy.effort # 0 /\ policy # DefaultPolicy
      BY <3>1 DEF Policy, DefaultPolicy
    <3> QED
      BY <3>2, <2>1, <1>1, <1>2
  <2>2. ASSUME policy = DefaultPolicy, ~KeptOwn PROVE wire = Unsaid
    BY <2>2, <1>1, <1>2 DEF Says
  <2> QED
    BY <2>1, <2>2 DEF SaidAsMeant, KeptOwn
<1>5. EffortsKeepOrder
  BY <1>1, <1>2 DEF EffortsKeepOrder, Says, More, KeptOwn
<1> QED
  BY <1>3, <1>4, <1>5 DEF ReasoningHonoured

(* Off is off, a configured effort is asked for of every provider that has  *)
(* words for it, and more effort is never said with a weaker word, for      *)
(* every preference, request and provider (application/reasoning.py and the *)
(* encoders of the providers).                                              *)
THEOREM ReasoningKept == ReasoningSpec => []ReasoningHonoured
<1>1. ReasoningInit => ReasoningInv
  BY ReasoningInitInv
<1>2. ReasoningInv /\ [ReasoningNext]_reasoningVars => ReasoningInv'
  BY ReasoningStepInv
<1>3. ReasoningInv => ReasoningHonoured
  BY ReasoningInvHonoured
<1> QED
  BY <1>1, <1>2, <1>3, PTL DEF ReasoningSpec

-----------------------------------------------------------------------------
(* The five side by side: each makes its own steps or none.                 *)
ChoicesInv == ConfigInv /\ CatalogInv /\ PoolInv /\ FailureInv /\ ReasoningInv

LEMMA EachChooses ==
  [ChoicesNext]_choiceVars =>
    /\ [ConfigNext]_configVars /\ [CatalogNext]_catalogVars
    /\ [PoolNext]_poolVars /\ [FailureNext]_failureVars
    /\ [ReasoningNext]_reasoningVars
<1> SUFFICES ASSUME [ChoicesNext]_choiceVars
             PROVE  /\ [ConfigNext]_configVars /\ [CatalogNext]_catalogVars
                    /\ [PoolNext]_poolVars /\ [FailureNext]_failureVars
                    /\ [ReasoningNext]_reasoningVars
  OBVIOUS
<1>1. CASE ChoicesNext
  BY <1>1 DEF ChoicesNext
<1>2. CASE UNCHANGED choiceVars
  <2>1. UNCHANGED <<configVars, catalogVars, poolVars, failureVars, reasoningVars>>
    BY <1>2 DEF choiceVars
  <2> QED
    BY <2>1
<1> QED
  BY <1>1, <1>2

(* Whatever a behaviour is about, what is stored is what runs, what is on   *)
(* offer is in scope, keys are served, failures are honest and a reasoning  *)
(* preference is honoured: for any number of keys, calls, updates,          *)
(* providers, refreshes and failures.                                       *)
THEOREM ChoicesKept == ChoicesSpec => []ChoicesSound
<1>1. ChoicesInit => ChoicesInv
  BY ConfigInitInv, CatalogInitInv, PoolInitInv, FailureInitInv, ReasoningInitInv
  DEF ChoicesInit, ChoicesInv
<1>2. ChoicesInv /\ [ChoicesNext]_choiceVars => ChoicesInv'
  <2> SUFFICES ASSUME ChoicesInv, [ChoicesNext]_choiceVars PROVE ChoicesInv'
    OBVIOUS
  <2>1. ConfigInv /\ CatalogInv /\ PoolInv /\ FailureInv /\ ReasoningInv
    BY DEF ChoicesInv
  <2>2. ConfigInv' /\ CatalogInv'
    BY <2>1, EachChooses, ConfigStepInv, CatalogStepInv
  <2>3. PoolInv' /\ FailureInv' /\ ReasoningInv'
    BY <2>1, EachChooses, PoolStepInv, FailureStepInv, ReasoningStepInv
  <2> QED
    BY <2>2, <2>3 DEF ChoicesInv
<1>3. ChoicesInv => ChoicesSound
  BY ConfigInvSound, CatalogInvSound, PoolInvServes, FailureInvHonest, ReasoningInvHonoured
  DEF ChoicesInv, ChoicesSound
<1> QED
  BY <1>1, <1>2, <1>3, PTL DEF ChoicesSpec
=============================================================================
