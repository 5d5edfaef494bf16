-------------------------- MODULE Limiters_proofs ---------------------------
(***************************************************************************)
(* The two limiters keep their promises for any number of attempts, any    *)
(* quota, any window and any order of the checks, however late an EXPIRE   *)
(* comes and whatever fails.                                               *)
(***************************************************************************)
EXTENDS MCLimiters, FiniteSetTheorems, TLAPS

-----------------------------------------------------------------------------
(* The sliding window.  The bucket is the link: it never holds more than   *)
(* Max, and everything it no longer holds is out of the newest window for  *)
(* good.                                                                   *)

\* The bucket holds admitted attempts, at most Max of them.
BucketCap == bucket \subseteq Admitted /\ Cardinality(bucket) <= Max

\* No attempt has been judged with a stamp after the newest.
NewestIsLast ==
    \A c \in Calls : pc[c] \in {"admitted", "refused"} => now[c] <= newest

\* Only what is out of the newest window has left the bucket.
EvictedIsOld == \A c \in Admitted : newest - now[c] < Window => c \in bucket

IInv == TypeOK /\ BucketCap /\ NewestIsLast /\ EvictedIsOld

\* A subset of the calls is finite, and no larger than what contains it.
LEMMA Smaller ==
    ASSUME NEW S, NEW T, S \subseteq T, T \subseteq Calls
    PROVE  /\ IsFiniteSet(S) /\ Cardinality(S) \in Nat /\ Cardinality(T) \in Nat
           /\ Cardinality(S) <= Cardinality(T)
<1>1. IsFiniteSet(T)
  BY FS_Subset, LimiterAssumption
<1>2. IsFiniteSet(S) /\ Cardinality(S) <= Cardinality(T)
  BY <1>1, FS_Subset
<1> QED
  BY <1>1, <1>2, FS_CardinalityType

\* One more attempt is at most one more.
LEMMA OneMore ==
    ASSUME NEW S \in SUBSET Calls, NEW c \in Calls, Cardinality(S) < Max
    PROVE  Cardinality(S \cup {c}) <= Max
<1>1. IsFiniteSet(S) /\ Cardinality(S) \in Nat
  BY Smaller
<1>2. Cardinality(S \cup {c}) = Cardinality(S) \/ Cardinality(S \cup {c}) = Cardinality(S) + 1
  BY <1>1, FS_AddElement
<1> QED
  BY <1>1, <1>2, LimiterAssumption

LEMMA InitHolds == Init => IInv
<1> SUFFICES ASSUME Init PROVE IInv
  OBVIOUS
<1>1. TypeOK
  <2>1. late \in BOOLEAN
    BY DEF Init
  <2> QED
    BY <2>1, LimiterAssumption DEF Init, TypeOK
<1>2. Cardinality({}) = 0
  BY FS_EmptySet
<1>3. BucketCap /\ NewestIsLast /\ EvictedIsOld
  BY <1>2, LimiterAssumption DEF Init, BucketCap, NewestIsLast, EvictedIsOld, Admitted
<1> QED
  BY <1>1, <1>3 DEF IInv

\* What a check does to the bucket, in the two ways it can end.
LEMMA CheckEnds ==
    ASSUME IInv, NEW c \in Calls, Check(c)
    PROVE  \/ /\ Cardinality(Kept(c)) >= Max
              /\ bucket' = Kept(c) /\ pc' = [pc EXCEPT ![c] = "refused"]
           \/ /\ ~ Cardinality(Kept(c)) >= Max
              /\ bucket' = Kept(c) \cup {c}
              /\ pc' = [pc EXCEPT ![c] = "admitted"]
<1> QED
  BY DEF Check

LEMMA CheckKeeps == ASSUME IInv, NEW c \in Calls, Check(c) PROVE IInv'
<1>1. TypeOK /\ pc[c] = "stamped" /\ c \notin bucket
  BY DEF IInv, Check, BucketCap, Admitted
<1>2. now' = now /\ clock' = clock /\ newest' \in 0..MaxTime
      /\ newest <= newest' /\ now[c] <= newest'
  BY <1>1 DEF Check, Observe, TypeOK
<1>3. Kept(c) \subseteq bucket /\ bucket \subseteq Calls
  BY <1>1 DEF Kept, TypeOK
<1>4. TypeOK'
  <2>1. late' = TRUE \/ late' = late
    BY DEF Check, Observe
  <2>2. late' \in BOOLEAN
    BY <1>1, <2>1 DEF TypeOK
  <2> QED
    BY <1>1, <1>2, <1>3, <2>2, CheckEnds DEF TypeOK
<1>5. Cardinality(Kept(c)) <= Max /\ Cardinality(Kept(c)) \in Nat
  <2>1. Cardinality(bucket) <= Max
    BY DEF IInv, BucketCap
  <2> QED
    BY <1>3, <2>1, Smaller, LimiterAssumption
<1>6. BucketCap'
  <2>1. bucket' \subseteq Admitted'
    BY <1>1, <1>3, CheckEnds DEF IInv, BucketCap, Admitted, TypeOK
  <2>2. Cardinality(bucket') <= Max
    <3>1. CASE bucket' = Kept(c)
      BY <1>5, <3>1
    <3>2. CASE ~ Cardinality(Kept(c)) >= Max /\ bucket' = Kept(c) \cup {c}
      <4>1. Cardinality(Kept(c)) < Max
        BY <1>5, <3>2, LimiterAssumption
      <4> QED
        BY <1>3, <3>2, <4>1, OneMore
    <3> QED
      BY <3>1, <3>2, CheckEnds
  <2> QED
    BY <2>1, <2>2 DEF BucketCap
<1>7. NewestIsLast'
  <2> SUFFICES ASSUME NEW d \in Calls, pc'[d] \in {"admitted", "refused"}
               PROVE  now[d] <= newest'
    BY <1>2 DEF NewestIsLast
  <2>1. CASE d = c
    BY <1>2, <2>1
  <2>2. CASE d # c
    <3>1. pc[d] \in {"admitted", "refused"}
      BY <1>1, <2>2, CheckEnds DEF TypeOK
    <3>2. now[d] <= newest
      BY <3>1 DEF IInv, NewestIsLast
    <3> QED
      BY <1>1, <1>2, <3>2 DEF TypeOK
  <2> QED
    BY <2>1, <2>2
<1>8. EvictedIsOld'
  <2> SUFFICES ASSUME NEW d \in Admitted', newest' - now[d] < Window
               PROVE  d \in bucket'
    BY <1>2 DEF EvictedIsOld
  <2>1. CASE d = c
    BY <1>1, <2>1, CheckEnds DEF Admitted, TypeOK
  <2>2. CASE d # c
    <3>1. d \in Calls /\ d \in Admitted
      BY <1>1, <2>2, CheckEnds DEF Admitted, TypeOK
    <3>2. newest - now[d] < Window /\ now[c] - now[d] < Window
      BY <1>1, <1>2, <3>1, LimiterAssumption DEF TypeOK
    <3>3. d \in bucket
      BY <3>1, <3>2 DEF IInv, EvictedIsOld
    <3>4. d \in Kept(c)
      BY <3>2, <3>3 DEF Kept
    <3> QED
      BY <3>4, CheckEnds
  <2> QED
    BY <2>1, <2>2
<1> QED
  BY <1>4, <1>6, <1>7, <1>8 DEF IInv

LEMMA StepHolds == IInv /\ [Next]_vars => IInv'
<1> SUFFICES ASSUME IInv, [Next]_vars PROVE IInv'
  OBVIOUS
<1> USE LimiterAssumption
<1>1. CASE Tick
  BY <1>1 DEF Tick, IInv, TypeOK, BucketCap, NewestIsLast, EvictedIsOld, Admitted
<1>2. ASSUME NEW c \in Calls, Stamp(c) PROVE IInv'
  <2>1. TypeOK'
    BY <1>2 DEF Stamp, IInv, TypeOK
  <2>2. /\ Admitted' = Admitted /\ c \notin Admitted
        /\ \A d \in Calls : d # c => now'[d] = now[d] /\ pc'[d] = pc[d]
        /\ pc'[c] = "stamped"
    BY <1>2 DEF Stamp, IInv, TypeOK, Admitted
  <2>3. BucketCap'
    BY <1>2, <2>2 DEF Stamp, IInv, BucketCap
  <2>4. NewestIsLast'
    BY <1>2, <2>2 DEF Stamp, IInv, NewestIsLast
  <2>5. EvictedIsOld'
    BY <1>2, <2>2 DEF Stamp, IInv, EvictedIsOld, Admitted
  <2> QED
    BY <2>1, <2>3, <2>4, <2>5 DEF IInv
<1>3. ASSUME NEW c \in Calls, Check(c) PROVE IInv'
  BY <1>3, CheckKeeps
<1>4. CASE UNCHANGED vars
  BY <1>4 DEF vars, IInv, TypeOK, BucketCap, NewestIsLast, EvictedIsOld, Admitted
<1> QED
  BY <1>1, <1>2, <1>3, <1>4 DEF Next

LEMMA Invariance == Spec => []IInv
<1> QED
  BY InitHolds, StepHolds, PTL DEF Spec

\* Every variable keeps its type, for any attempts, quota and window.
THEOREM LimiterTypeSafe == Spec => []TypeOK
<1>1. IInv => TypeOK
  BY DEF IInv
<1> QED
  BY <1>1, Invariance, PTL

\* In whatever order threads get the lock after reading the clock, the window
\* that ends at the newest stamp never holds more than Max admitted attempts.
THEOREM NewestWindowHolds == Spec => []WindowCap
<1>1. IInv => WindowCap
  <2> SUFFICES ASSUME IInv PROVE WindowCap
    OBVIOUS
  <2>1. InWindow(newest) \subseteq bucket /\ bucket \subseteq Calls
    BY LimiterAssumption DEF IInv, TypeOK, EvictedIsOld, InWindow, Admitted
  <2>2. Cardinality(bucket) <= Max
    BY DEF IInv, BucketCap
  <2> QED
    BY <2>1, <2>2, Smaller, LimiterAssumption DEF WindowCap
<1> QED
  BY <1>1, Invariance, PTL

\* check says no only when the attempts admitted less than a window before fill
\* the quota: refusals are not held against anybody.
THEOREM NoRefusalWithoutCause == Spec => RefusedForCause
<1>1. IInv /\ [Next]_vars => [RefuseStep]_vars
  <2> SUFFICES ASSUME IInv, Next PROVE RefuseStep
    BY DEF vars
  <2> SUFFICES ASSUME NEW c \in Calls, pc[c] = "stamped", pc'[c] = "refused"
               PROVE  Cardinality({d \in Admitted : now[c] - now[d] < Window}) >= Max
    BY DEF RefuseStep
  <2>1. Check(c)
    BY DEF Next, Tick, Stamp, Check, IInv, TypeOK
  <2>2. Cardinality(Kept(c)) >= Max
    BY <2>1, CheckEnds DEF IInv, TypeOK
  <2>3. Kept(c) \subseteq {d \in Admitted : now[c] - now[d] < Window}
    BY DEF Kept, IInv, BucketCap
  <2>4. {d \in Admitted : now[c] - now[d] < Window} \subseteq Calls
    BY DEF Admitted
  <2> QED
    BY <2>2, <2>3, <2>4, Smaller, LimiterAssumption
<1> QED
  BY <1>1, Invariance, PTL DEF Spec, RefusedForCause

-----------------------------------------------------------------------------

OInv == IInv /\ EveryWindowCap

LEMMA StepKeepsEveryWindow == OInv /\ [Next]_vars => OInv'
<1> SUFFICES ASSUME OInv, [Next]_vars, ~late'
             PROVE  \A t \in 0..MaxTime : Cardinality(InWindow(t)') <= Max
  BY StepHolds DEF OInv, EveryWindowCap
<1>1. IInv /\ TypeOK /\ IInv'
  BY StepHolds DEF OInv, IInv
<1>2. CASE Tick \/ UNCHANGED vars
  BY <1>2 DEF Tick, vars, OInv, EveryWindowCap, InWindow, Admitted
<1>3. ASSUME NEW c \in Calls, Stamp(c)
      PROVE  \A t \in 0..MaxTime : Cardinality(InWindow(t)') <= Max
  <2>1. \A t \in 0..MaxTime : InWindow(t)' = InWindow(t)
    BY <1>1, <1>3 DEF Stamp, TypeOK, InWindow, Admitted
  <2> QED
    BY <1>3, <2>1 DEF Stamp, OInv, EveryWindowCap
<1>4. ASSUME NEW c \in Calls, Check(c)
      PROVE  \A t \in 0..MaxTime : Cardinality(InWindow(t)') <= Max
  <2>1. /\ pc[c] = "stamped" /\ newest <= now[c] /\ now' = now
        /\ newest' = now[c] /\ ~late
    BY <1>1, <1>4 DEF Check, Observe, TypeOK
  <2>2. \A d \in Calls : d # c => pc'[d] = pc[d]
    BY <1>1, <1>4 DEF Check, TypeOK
  <2> TAKE t \in 0..MaxTime
  <2>3. CASE t < now[c]
    <3>1. InWindow(t)' \subseteq InWindow(t) /\ InWindow(t) \subseteq Calls
      BY <1>1, <2>1, <2>2, <2>3 DEF InWindow, Admitted, TypeOK
    <3>2. Cardinality(InWindow(t)) <= Max
      BY <2>1 DEF OInv, EveryWindowCap
    <3> QED
      BY <3>1, <3>2, Smaller, LimiterAssumption
  <2>4. CASE now[c] <= t
    <3>1. InWindow(t)' \subseteq bucket'
      BY <1>1, <2>1, <2>4, LimiterAssumption
      DEF IInv, EvictedIsOld, InWindow, Admitted, TypeOK
    <3>2. Cardinality(bucket') <= Max /\ bucket' \subseteq Calls
      BY <1>1 DEF IInv, BucketCap, TypeOK
    <3> QED
      BY <3>1, <3>2, Smaller, LimiterAssumption
  <2> QED
    BY <1>1, <2>3, <2>4 DEF TypeOK
<1> QED
  BY <1>2, <1>3, <1>4 DEF Next

\* "at most `max` events per `window` per key" (ratelimit.rs) holds of every window
\* until a check is overtaken by one with a later stamp.
THEOREM EveryWindowHolds == Spec => []EveryWindowCap
<1>1. Init => OInv
  <2> SUFFICES ASSUME Init PROVE OInv
    OBVIOUS
  <2>1. \A t \in 0..MaxTime : InWindow(t) = {}
    BY DEF Init, InWindow, Admitted
  <2>2. Cardinality({}) = 0
    BY FS_EmptySet
  <2> QED
    BY <2>1, <2>2, InitHolds, LimiterAssumption DEF OInv, EveryWindowCap
<1>2. OInv => EveryWindowCap
  BY DEF OInv
<1> QED
  BY <1>1, <1>2, StepKeepsEveryWindow, PTL DEF Spec

-----------------------------------------------------------------------------
(* The counter in Redis.  The key lives at least Window ticks from its     *)
(* first INCR, so a stretch of Window ticks meets two of its lives at      *)
(* most: what was counted before "e", when the present life began or may   *)
(* begin, and what was since.                                              *)

\* What was counted after the last restart of Redis, in the present life of
\* the key and, as far as a window that is still open reaches, before it.
Present(e) == {c \in Redis!Counted : e <= at[c] /\ flushed < at[c]}
Before(e) == {c \in Redis!Counted : redisClock - RedisWindow < at[c] /\ at[c] < e /\ flushed < at[c]}

Stretch(t) == {c \in Redis!Counted : t - RedisWindow < at[c] /\ at[c] <= t}

TwoLives(e) ==
    /\ e <= redisClock
    /\ e + RedisWindow <= expiry
    /\ Cardinality(Present(e)) <= count
    /\ Cardinality(Present(e)) <= RedisMax
    /\ Cardinality(Before(e)) <= RedisMax

HasTwoLives == \E e \in Int : TwoLives(e)

\* The counter counts attempts; they were made by now.
CountedOnce == count <= Cardinality({c \in Calls : redisPc[c] # "idle"})
MadeByNow == \A c \in Calls : at[c] <= redisClock

\* A key has a time to live, or the attempt that created it did not give it one; a
\* key that is due is gone.
Owing == {"expire", "unset", "open"}
OwesExpiry ==
    /\ count > 0 => expiry # Redis!Never \/ \E c \in creator : redisPc[c] \in Owing
    /\ redisClock < expiry

RInv ==
    /\ Redis!TypeOK /\ CountedOnce /\ MadeByNow /\ OwesExpiry
    /\ HasTwoLives
    /\ Redis!BurstCap

-----------------------------------------------------------------------------
\* Cardinality is what it is everywhere.
LEMMA SameCount == \A S : Redis!Cardinality(S) = Cardinality(S)
BY Zenon DEF Redis!Cardinality, Cardinality

LEMMA Sizes ==
    ASSUME NEW S \in SUBSET Calls
    PROVE  IsFiniteSet(S) /\ Cardinality(S) \in Nat
BY Smaller

\* One more attempt counts once.
LEMMA AtMostOneMore ==
    ASSUME NEW S \in SUBSET Calls, NEW T \in SUBSET Calls, NEW c \in Calls, T \subseteq S \cup {c}
    PROVE  Cardinality(T) <= Cardinality(S) + 1
<1>1. IsFiniteSet(S) /\ Cardinality(S) \in Nat
  BY Smaller
<1>2. Cardinality(S \cup {c}) = Cardinality(S) \/ Cardinality(S \cup {c}) = Cardinality(S) + 1
  BY <1>1, FS_AddElement
<1>3. Cardinality(T) <= Cardinality(S \cup {c}) /\ Cardinality(T) \in Nat
  BY Smaller
<1> QED
  BY <1>1, <1>2, <1>3

LEMMA Together ==
    ASSUME NEW S \in SUBSET Calls, NEW T \in SUBSET Calls, NEW U \in SUBSET Calls, U \subseteq S \cup T
    PROVE  Cardinality(U) <= Cardinality(S) + Cardinality(T)
<1>1. /\ IsFiniteSet(S) /\ Cardinality(S) \in Nat /\ IsFiniteSet(T) /\ Cardinality(T) \in Nat
      /\ IsFiniteSet(S \cap T) /\ Cardinality(S \cap T) \in Nat
  BY Smaller
<1>2. Cardinality(S \cup T) = Cardinality(S) + Cardinality(T) - Cardinality(S \cap T)
  BY <1>1, FS_Union
<1>3. Cardinality(U) <= Cardinality(S \cup T) /\ Cardinality(U) \in Nat
  BY Smaller
<1> QED
  BY <1>1, <1>2, <1>3

\* A window that is still open holds no more than the two lives it meets.
OpenCap ==
    \A t \in 0..RedisMaxTime :
        redisClock <= t /\ flushed < t - RedisWindow => Cardinality(Stretch(t)) <= 2 * RedisMax

LEMMA OpenWindow == Redis!TypeOK /\ HasTwoLives => OpenCap
<1> SUFFICES ASSUME Redis!TypeOK, NEW e \in Int, TwoLives(e), NEW t \in 0..RedisMaxTime,
                    redisClock <= t, flushed < t - RedisWindow
             PROVE  Cardinality(Stretch(t)) <= 2 * RedisMax
  BY DEF HasTwoLives, OpenCap
<1>1. Present(e) \subseteq Calls /\ Before(e) \subseteq Calls /\ Stretch(t) \subseteq Calls
  BY DEF Present, Before, Stretch, Redis!Counted
<1>2. Stretch(t) \subseteq Present(e) \cup Before(e)
  <2> SUFFICES ASSUME NEW c \in Stretch(t) PROVE c \in Present(e) \cup Before(e)
    OBVIOUS
  <2>1. c \in Redis!Counted /\ c \in Calls /\ at[c] \in Int /\ t - RedisWindow < at[c]
    BY LimitersAssumption DEF Stretch, Redis!Counted, Redis!TypeOK
  <2>2. flushed \in Int /\ redisClock \in Int /\ RedisWindow \in Int /\ t \in Int
    BY LimitersAssumption DEF Redis!TypeOK, Redis!RedisAssumption
  <2>3. flushed < at[c] /\ redisClock - RedisWindow < at[c]
    BY <2>1, <2>2
  <2>4. e <= at[c] \/ at[c] < e
    BY <2>1
  <2> QED
    BY <2>1, <2>3, <2>4 DEF Present, Before
<1>3. Cardinality(Stretch(t)) <= Cardinality(Present(e)) + Cardinality(Before(e))
  BY <1>1, <1>2, Together
<1>4. Cardinality(Stretch(t)) \in Nat /\ Cardinality(Present(e)) \in Nat /\ Cardinality(Before(e)) \in Nat
  BY <1>1, Sizes
<1>5. RedisMax \in Nat
  BY LimitersAssumption DEF Redis!RedisAssumption
<1> QED
  BY <1>3, <1>4, <1>5 DEF TwoLives

LEMMA Typed ==
    /\ Cardinality(Calls) \in Nat
    /\ Redis!TypeOK <=>
        /\ redisClock \in 0..RedisMaxTime
        /\ count \in 0..Cardinality(Calls)
        /\ expiry \in 0..(RedisMaxTime + RedisWindow + 1)
        /\ redisPc \in [Calls -> {"idle", "expire", "unset", "admitted", "refused", "open"}]
        /\ at \in [Calls -> 0..RedisMaxTime]
        /\ creator \subseteq Calls
        /\ flushed \in -1..RedisMaxTime
<1>1. Cardinality(Calls) \in Nat
  BY FS_CardinalityType, LimiterAssumption
<1> QED
  BY <1>1, SameCount DEF Redis!TypeOK, Redis!Never

LEMMA Capped ==
    Redis!BurstCap <=>
        \A t \in 0..RedisMaxTime :
            flushed < t - RedisWindow => Cardinality(Stretch(t)) <= 2 * RedisMax
BY SameCount DEF Redis!BurstCap, Stretch

LEMMA OpenNext == Redis!TypeOK' /\ HasTwoLives' => OpenCap'
BY OpenWindow, PTL

LEMMA RedisInit == Redis!Init => RInv
<1> SUFFICES ASSUME Redis!Init PROVE RInv
  OBVIOUS
<1> USE LimitersAssumption DEF Redis!RedisAssumption
<1>2. Redis!TypeOK
  BY Typed DEF Redis!Init, Redis!Never
<1>3. Redis!Counted = {} /\ Cardinality({}) = 0
  BY FS_EmptySet DEF Redis!Init, Redis!Counted
<1>4. {c \in Calls : redisPc[c] # "idle"} = {}
  BY DEF Redis!Init
<1>5. CountedOnce /\ MadeByNow /\ OwesExpiry
  BY <1>3, <1>4 DEF Redis!Init, Redis!Never, CountedOnce, MadeByNow, OwesExpiry
<1>6. Present(0) = {} /\ Before(0) = {} /\ \A t \in 0..RedisMaxTime : Stretch(t) = {}
  BY <1>3 DEF Present, Before, Stretch
<1>7. TwoLives(0)
  BY <1>3, <1>6 DEF Redis!Init, Redis!Never, TwoLives
<1>8. Redis!BurstCap
  <2>1. 0 <= 2 * RedisMax
    OBVIOUS
  <2> QED
    BY <1>3, <1>6, <2>1, Capped
<1> QED
  BY <1>2, <1>5, <1>7, <1>8 DEF RInv, HasTwoLives

-----------------------------------------------------------------------------
\* The steps of the key's life.
LEMMA TickKeeps == RInv /\ Redis!Tick => RInv'
<1> SUFFICES ASSUME RInv, Redis!Tick PROVE RInv'
  OBVIOUS
<1>0. /\ RedisMax \in Nat \ {0} /\ RedisWindow \in Nat \ {0} /\ RedisMaxTime \in Nat
      /\ redisClock \in 0..RedisMaxTime /\ flushed \in Int /\ expiry \in Int /\ count \in Nat
      /\ \A c \in Calls : at[c] \in Int
  BY LimitersAssumption DEF Redis!RedisAssumption, RInv, Redis!TypeOK, Redis!Never
<1>1. Redis!TypeOK'
  <2>1. redisClock' \in 0..RedisMaxTime /\ redisPc' = redisPc /\ at' = at /\ flushed' = flushed
        /\ creator' \subseteq Calls
    BY <1>0, Typed DEF RInv, Redis!Tick
  <2>2. count' \in 0..Cardinality(Calls) /\ expiry' \in 0..(RedisMaxTime + RedisWindow + 1)
    BY <1>0, Typed DEF RInv, Redis!Tick, Redis!Never
  <2> QED
    BY <2>1, <2>2, SameCount, Typed DEF RInv, Redis!TypeOK, Redis!Never
<1>2. CountedOnce'
  <2>1. {c \in Calls : redisPc[c] # "idle"}' = {c \in Calls : redisPc[c] # "idle"} /\ count' <= count
    BY <1>0 DEF Redis!Tick
  <2>2. Cardinality({c \in Calls : redisPc[c] # "idle"}) \in Nat
    BY Sizes
  <2> QED
    BY <1>0, <2>1, <2>2, count' \in Nat DEF RInv, CountedOnce, Redis!Tick
<1>3. MadeByNow' /\ OwesExpiry'
  BY <1>0 DEF RInv, MadeByNow, OwesExpiry, Redis!Tick, Redis!Never
<1>4. HasTwoLives'
  <2>1. PICK e \in Int : TwoLives(e)
    BY DEF RInv, HasTwoLives
  <2>2. /\ Redis!Counted' = Redis!Counted /\ Redis!Counted \subseteq Calls
        /\ redisClock' = redisClock + 1 /\ at' = at /\ flushed' = flushed
    BY DEF Redis!Counted, Redis!Tick
  <2>3. Present(e) \in SUBSET Calls /\ Before(e) \in SUBSET Calls
    BY <2>2 DEF Present, Before
  <2>4. CASE expiry <= redisClock + 1
    <3>1. expiry = redisClock + 1 /\ count' = 0 /\ expiry' = Redis!Never
      BY <1>0, <2>4 DEF RInv, OwesExpiry, Redis!Tick
    <3>x. PICK x \in Int : x = redisClock + 1
      BY <1>0
    <3>2. Present(x)' = {}
      BY <1>0, <2>2, <3>x DEF RInv, Present, MadeByNow
    <3>3. Before(x)' \subseteq Present(e)
      BY <1>0, <2>1, <2>2, <3>1, <3>x DEF TwoLives, Before, Present
    <3>4. Cardinality(Before(x)') <= Cardinality(Present(e))
      BY <2>3, <3>3, Smaller
    <3>5. Cardinality(Present(e)) \in Nat /\ Cardinality(Before(x)') \in Nat /\ Cardinality({}) = 0
      BY <2>3, <3>3, Sizes, FS_EmptySet
    <3>6. Cardinality(Before(x))' <= RedisMax /\ Cardinality(Present(x))' = 0
      BY <1>0, <2>1, <3>2, <3>4, <3>5 DEF TwoLives
    <3>7. TwoLives(x)'
      BY <1>0, <2>2, <3>1, <3>6, <3>x DEF TwoLives, Redis!Never, Redis!Tick
    <3> QED
      BY <3>7 DEF HasTwoLives
  <2>5. CASE ~(expiry <= redisClock + 1)
    <3>1. count' = count /\ expiry' = expiry
      BY <2>2, <2>5 DEF Redis!Tick
    <3>2. Present(e)' = Present(e) /\ Before(e)' \subseteq Before(e)
      BY <1>0, <2>2 DEF Present, Before
    <3>3. Cardinality(Before(e)') <= Cardinality(Before(e))
      BY <2>3, <3>2, Smaller
    <3>4. Cardinality(Before(e)) \in Nat /\ Cardinality(Before(e)') \in Nat
      BY <2>3, <3>2, Sizes
    <3>5. TwoLives(e)'
      BY <1>0, <2>1, <2>2, <3>1, <3>2, <3>3, <3>4 DEF TwoLives
    <3> QED
      BY <3>5 DEF HasTwoLives
  <2> QED
    BY <2>4, <2>5
<1>5. Redis!BurstCap'
  <2>1. \A t \in 0..RedisMaxTime : Stretch(t)' = Stretch(t)
    BY DEF Stretch, Redis!Counted, Redis!Tick
  <2>2. flushed' = flushed
    BY DEF Redis!Tick
  <2> QED
    BY <2>1, <2>2, Capped DEF RInv, Redis!BurstCap, Stretch
<1> QED
  BY <1>1, <1>2, <1>3, <1>4, <1>5 DEF RInv

LEMMA FlushKeeps == RInv /\ Redis!Flush => RInv'
<1> SUFFICES ASSUME RInv, Redis!Flush PROVE RInv'
  OBVIOUS
<1>0. /\ RedisMax \in Nat \ {0} /\ RedisWindow \in Nat \ {0} /\ RedisMaxTime \in Nat
      /\ redisClock \in 0..RedisMaxTime /\ count \in Nat
      /\ \A c \in Calls : at[c] \in Int
  BY LimitersAssumption DEF Redis!RedisAssumption, RInv, Redis!TypeOK
<1>1. Redis!TypeOK'
  <2>1. /\ redisClock' = redisClock /\ redisPc' = redisPc /\ at' = at /\ flushed' = redisClock /\ creator' = {}
        /\ count' = 0 /\ expiry' = RedisMaxTime + RedisWindow + 1
    BY DEF Redis!Flush, Redis!Never
  <2> QED
    BY <1>0, <2>1, SameCount, Typed DEF RInv, Redis!TypeOK, Redis!Never
<1>2. CountedOnce'
  <2>1. {c \in Calls : redisPc[c] # "idle"}' \in SUBSET Calls
    OBVIOUS
  <2>2. Cardinality({c \in Calls : redisPc[c] # "idle"}') \in Nat
    BY <2>1, Sizes
  <2> QED
    BY <1>0, <2>2 DEF CountedOnce, Redis!Flush
<1>3. MadeByNow' /\ OwesExpiry'
  BY <1>0 DEF RInv, MadeByNow, OwesExpiry, Redis!Flush, Redis!Never
<1>4. TwoLives(redisClock)'
  <2>1. Present(redisClock)' = {} /\ Before(redisClock)' = {}
    BY <1>0 DEF Present, Before, RInv, MadeByNow, Redis!Flush, Redis!Counted
  <2>2. Cardinality(Present(redisClock))' = 0 /\ Cardinality(Before(redisClock))' = 0
    BY <2>1, FS_EmptySet
  <2> QED
    BY <1>0, <2>2 DEF TwoLives, Redis!Flush, Redis!Never
<1>5. Redis!BurstCap'
  <2> SUFFICES ASSUME NEW t \in 0..RedisMaxTime, flushed' < t - RedisWindow
               PROVE  Cardinality(Stretch(t)') <= 2 * RedisMax
    BY SameCount DEF Redis!BurstCap, Stretch
  <2>1. Stretch(t)' = {}
    BY <1>0 DEF RInv, MadeByNow, Stretch, Redis!Flush, Redis!Counted
  <2> QED
    BY <1>0, <2>1, FS_EmptySet
<1> QED
  BY <1>0, <1>1, <1>2, <1>3, <1>4, <1>5 DEF RInv, Redis!Flush, HasTwoLives

-----------------------------------------------------------------------------
\* The steps of an attempt.  INCR adds to the present life of the key.
LEMMA IncrKeeps == \A c \in Calls : RInv /\ Redis!Incr(c) => RInv'
<1> SUFFICES ASSUME NEW c \in Calls, RInv, Redis!Incr(c) PROVE RInv'
  OBVIOUS
<1>0. /\ RedisMax \in Nat \ {0} /\ RedisWindow \in Nat \ {0} /\ RedisMaxTime \in Nat
      /\ redisClock \in 0..RedisMaxTime /\ flushed \in Int /\ expiry \in Int /\ count \in Nat
      /\ redisPc \in [Calls -> {"idle", "expire", "unset", "admitted", "refused", "open"}]
      /\ at \in [Calls -> 0..RedisMaxTime] /\ creator \subseteq Calls
  BY LimitersAssumption, Typed DEF Redis!RedisAssumption, RInv
<1>1. /\ redisClock' = redisClock /\ flushed' = flushed /\ expiry' = expiry /\ count' = count + 1
      /\ creator' = IF count = 0 THEN {c} ELSE creator
      /\ redisPc[c] = "idle" /\ at' = [at EXCEPT ![c] = redisClock]
      /\ \A d \in Calls : d # c => redisPc'[d] = redisPc[d] /\ at'[d] = at[d]
      /\ at'[c] = redisClock
      /\ redisPc' \in [Calls -> {"idle", "expire", "unset", "admitted", "refused", "open"}]
      /\ redisPc'[c] \in {"expire", "admitted", "refused"}
      /\ count + 1 = 1 => redisPc'[c] = "expire"
      /\ count + 1 # 1 /\ redisPc'[c] # "refused" => count + 1 <= RedisMax
  BY <1>0 DEF Redis!Incr, Redis!Counts, Redis!Verdict
<1>2. CountedOnce'
  <2> DEFINE Busy == {d \in Calls : redisPc[d] # "idle"}
  <2>1. Busy \in SUBSET Calls /\ c \notin Busy /\ Busy' = Busy \cup {c}
    BY <1>1
  <2>2. IsFiniteSet(Busy) /\ Cardinality(Busy) \in Nat
    BY <2>1, Sizes
  <2>3. Cardinality(Busy \cup {c}) = Cardinality(Busy) + 1
    BY <2>1, <2>2, FS_AddElement
  <2>4. Cardinality(Busy)' = Cardinality(Busy) + 1
    BY <2>1, <2>3
  <2>5. count <= Cardinality(Busy)
    BY DEF RInv, CountedOnce
  <2>6. count' <= Cardinality(Busy)'
    BY <1>0, <1>1, <2>2, <2>4, <2>5
  <2> QED
    BY <2>6 DEF CountedOnce
<1>3. Redis!TypeOK'
  <2>1. {d \in Calls : redisPc[d] # "idle"}' \in SUBSET Calls
    OBVIOUS
  <2>2. Cardinality({d \in Calls : redisPc[d] # "idle"}') <= Cardinality(Calls)
        /\ Cardinality({d \in Calls : redisPc[d] # "idle"}') \in Nat
    BY <2>1, Smaller
  <2>3. count' \in 0..Cardinality(Calls)
    BY <1>0, <1>1, <1>2, <2>2, Typed DEF CountedOnce
  <2>4. at' \in [Calls -> 0..RedisMaxTime]
    BY <1>0, <1>1
  <2> QED
    BY <1>0, <1>1, <2>3, <2>4, SameCount, Typed DEF RInv, Redis!TypeOK, Redis!Never
<1>4. MadeByNow' /\ OwesExpiry'
  <2>1. MadeByNow'
    BY <1>0, <1>1 DEF RInv, MadeByNow
  <2>2. count = 0 => redisPc'[c] = "expire"
    BY <1>0, <1>1
  <2>3. count > 0 => expiry' # Redis!Never \/ \E d \in creator' : redisPc'[d] \in Owing
    <3>1. ASSUME NEW d \in creator, redisPc[d] \in Owing PROVE redisPc'[d] \in Owing
      BY <1>0, <1>1, <3>1 DEF Owing
    <3> QED
      BY <1>0, <1>1, <3>1 DEF RInv, OwesExpiry
  <2>4. Redis!Never' = Redis!Never
    BY DEF Redis!Never
  <2> QED
    BY <1>0, <1>1, <2>1, <2>2, <2>3, <2>4 DEF RInv, OwesExpiry, Owing
<1>5. c \notin Redis!Counted /\ Redis!Counted \subseteq Calls
  BY <1>1 DEF Redis!Counted
<1>6. \A d \in Calls : d # c => (d \in Redis!Counted' <=> d \in Redis!Counted)
  BY <1>1 DEF Redis!Counted
<1>7. HasTwoLives'
  <2>1. PICK e \in Int : TwoLives(e)
    BY DEF RInv, HasTwoLives
  <2>2. Present(e) \in SUBSET Calls /\ Before(e) \in SUBSET Calls
    BY <1>5 DEF Present, Before
  <2>3. Before(e)' \subseteq Before(e)
    BY <1>0, <1>1, <1>5, <1>6, <2>1 DEF Before, TwoLives, Redis!Counted
  <2>4. Present(e)' \subseteq Present(e) \cup {c} /\ Present(e)' \in SUBSET Calls
    BY <1>0, <1>1, <1>5, <1>6 DEF Present, Redis!Counted
  <2>5. redisPc'[c] = "refused" => Present(e)' \subseteq Present(e)
    BY <1>1, <2>4 DEF Present, Redis!Counted
  <2>6. Cardinality(Present(e)') <= Cardinality(Present(e)) + 1
    BY <2>2, <2>4, AtMostOneMore
  <2>7. redisPc'[c] = "refused" => Cardinality(Present(e)') <= Cardinality(Present(e))
    BY <2>2, <2>5, Smaller
  <2>8. Cardinality(Before(e)') <= Cardinality(Before(e))
    BY <2>2, <2>3, Smaller
  <2>9. /\ Cardinality(Present(e)) \in Nat /\ Cardinality(Present(e)') \in Nat
        /\ Cardinality(Before(e)) \in Nat /\ Cardinality(Before(e)') \in Nat
    BY <2>2, <2>3, <2>4, Sizes
  <2>10. TwoLives(e)'
    BY <1>0, <1>1, <2>1, <2>6, <2>7, <2>8, <2>9 DEF TwoLives
  <2> QED
    BY <2>10 DEF HasTwoLives
<1>8. Redis!BurstCap'
  <2> SUFFICES ASSUME NEW t \in 0..RedisMaxTime, flushed' < t - RedisWindow
               PROVE  Cardinality(Stretch(t)') <= 2 * RedisMax
    BY SameCount DEF Redis!BurstCap, Stretch
  <2>1. CASE t < redisClock
    <3>1. Stretch(t)' = Stretch(t)
      BY <1>0, <1>1, <1>5, <1>6, <2>1 DEF Stretch, Redis!Counted
    <3> QED
      BY <1>1, <3>1, Capped DEF RInv
  <2>2. CASE redisClock <= t
    <3>1. OpenCap'
      BY <1>3, <1>7, OpenNext
    <3> QED
      BY <1>1, <2>2, <3>1 DEF OpenCap
  <2> QED
    BY <1>0, <2>1, <2>2
<1> QED
  BY <1>2, <1>3, <1>4, <1>7, <1>8 DEF RInv

\* What admits nothing and leaves the key's time or puts it off keeps the lives.
LEMMA LivesStay ==
    ASSUME RInv, redisClock' = redisClock, at' = at, flushed' = flushed, count' = count \/ count' = count + 1,
           Redis!Counted' = Redis!Counted, expiry \in Int, expiry' \in Int,
           expiry' = expiry \/ redisClock + RedisWindow <= expiry'
    PROVE  HasTwoLives' /\ Redis!BurstCap' /\ MadeByNow'
<1>1. \A e \in Int : Present(e)' = Present(e) /\ Before(e)' = Before(e)
  BY DEF Present, Before
<1>2. \A t \in 0..RedisMaxTime : Stretch(t)' = Stretch(t)
  BY DEF Stretch
<1>3. PICK e \in Int : TwoLives(e)
  BY DEF RInv, HasTwoLives
<1>4. redisClock \in Int /\ RedisWindow \in Int /\ count \in Int
  BY LimitersAssumption, Typed DEF RInv, Redis!RedisAssumption
<1>5. TwoLives(e)'
  <2>1. Cardinality(Present(e)) \in Nat
    BY Sizes DEF Present, Redis!Counted
  <2> QED
    BY <1>1, <1>3, <1>4, <2>1 DEF TwoLives
<1>6. Redis!BurstCap'
  <2> SUFFICES ASSUME NEW t \in 0..RedisMaxTime, flushed' < t - RedisWindow
               PROVE  Cardinality(Stretch(t)') <= 2 * RedisMax
    BY SameCount DEF Redis!BurstCap, Stretch
  <2> QED
    BY <1>2, Capped DEF RInv
<1> QED
  BY <1>5, <1>6 DEF HasTwoLives, RInv, MadeByNow

LEMMA OthersKeep ==
    \A c \in Calls : RInv /\ (Redis!FailOpen(c) \/ Redis!Expire(c) \/ Redis!FailExpire(c)) => RInv'
<1> SUFFICES ASSUME NEW c \in Calls, RInv,
                    Redis!FailOpen(c) \/ Redis!Expire(c) \/ Redis!FailExpire(c)
             PROVE  RInv'
  OBVIOUS
<1>0. /\ RedisMax \in Nat \ {0} /\ RedisWindow \in Nat \ {0} /\ RedisMaxTime \in Nat
      /\ redisClock \in 0..RedisMaxTime /\ expiry \in 0..(RedisMaxTime + RedisWindow + 1)
      /\ count \in 0..Cardinality(Calls) /\ Cardinality(Calls) \in Nat /\ creator \subseteq Calls
      /\ redisPc \in [Calls -> {"idle", "expire", "unset", "admitted", "refused", "open"}]
  BY LimitersAssumption, Typed DEF Redis!RedisAssumption, RInv
<1>1. /\ redisClock' = redisClock /\ at' = at /\ flushed' = flushed
      /\ expiry' = expiry \/ (redisPc[c] = "expire" /\ expiry' = redisClock + RedisWindow)
      /\ \E v \in {"open", "admitted", "unset"} :
            /\ redisPc' = [redisPc EXCEPT ![c] = v]
            /\ v = "open" <=> redisPc[c] = "idle"
            /\ v # "open" <=> redisPc[c] = "expire"
            /\ IF v = "admitted" THEN count > 0 => expiry' = redisClock + RedisWindow ELSE expiry' = expiry
            /\ \/ count' = count /\ creator' = creator
               \/ v = "open" /\ count' = count + 1 /\ creator' = IF count = 0 THEN {c} ELSE creator
  BY <1>0 DEF Redis!FailOpen, Redis!Counts, Redis!Expire, Redis!FailExpire, Redis!Verdict
<1>2. PICK v \in {"open", "admitted", "unset"} :
            /\ redisPc' = [redisPc EXCEPT ![c] = v]
            /\ v = "open" <=> redisPc[c] = "idle"
            /\ v # "open" <=> redisPc[c] = "expire"
            /\ IF v = "admitted" THEN count > 0 => expiry' = redisClock + RedisWindow ELSE expiry' = expiry
            /\ \/ count' = count /\ creator' = creator
               \/ v = "open" /\ count' = count + 1 /\ creator' = IF count = 0 THEN {c} ELSE creator
  BY <1>1
<1>3. Redis!Counted' = Redis!Counted
  BY <1>0, <1>2 DEF Redis!Counted
<1>4. expiry' \in 0..(RedisMaxTime + RedisWindow + 1)
  BY <1>0, <1>1
<1>5. HasTwoLives' /\ Redis!BurstCap' /\ MadeByNow'
  BY <1>0, <1>1, <1>2, <1>3, <1>4, LivesStay
<1>6. CountedOnce' /\ count' \in 0..Cardinality(Calls)
  <2> DEFINE Busy == {d \in Calls : redisPc[d] # "idle"}
  <2>1. /\ Busy \subseteq Busy' /\ Busy' \in SUBSET Calls /\ Busy \in SUBSET Calls
        /\ v = "open" => c \notin Busy /\ Busy' = Busy \cup {c}
    BY <1>0, <1>2
  <2>2. /\ Cardinality(Busy) <= Cardinality(Busy') /\ Cardinality(Busy') \in Nat
        /\ IsFiniteSet(Busy) /\ Cardinality(Busy) \in Nat
        /\ Cardinality(Busy') <= Cardinality(Calls)
    BY <2>1, Smaller
  <2>3. v = "open" => Cardinality(Busy') = Cardinality(Busy) + 1
    BY <2>1, <2>2, FS_AddElement
  <2>4. count <= Cardinality(Busy)
    BY DEF RInv, CountedOnce
  <2> HIDE DEF Busy
  <2>5. count' <= Cardinality(Busy') /\ count' \in 0..Cardinality(Calls)
    BY <1>0, <1>2, <2>2, <2>3, <2>4
  <2> QED
    BY <2>5 DEF CountedOnce, Busy
<1>7. Redis!TypeOK'
  <2>1. redisPc' \in [Calls -> {"idle", "expire", "unset", "admitted", "refused", "open"}]
    BY <1>0, <1>2
  <2>2. creator' \subseteq Calls
    BY <1>0, <1>2
  <2> QED
    BY <1>0, <1>1, <1>4, <1>6, <2>1, <2>2, SameCount, Typed DEF RInv, Redis!TypeOK, Redis!Never
<1>8. OwesExpiry'
  <2>1. redisClock' < expiry'
    BY <1>0, <1>1 DEF RInv, OwesExpiry
  <2>2. ASSUME count' > 0 PROVE expiry' # Redis!Never \/ \E d \in creator' : redisPc'[d] \in Owing
    <3>1. CASE v = "admitted"
      BY <1>0, <1>2, <2>2, <3>1 DEF Redis!Never
    <3>2. CASE v # "admitted"
      <4>1. expiry' = expiry
        BY <3>2, <1>2
      <4>2. redisPc'[c] \in Owing /\ \A d \in Calls \ {c} : redisPc'[d] = redisPc[d]
        BY <1>0, <1>2, <3>2 DEF Owing
      <4>3. CASE count = 0
        BY <1>2, <2>2, <4>2, <4>3
      <4>4. CASE count > 0
        <5>1. creator' = creator /\ \A d \in creator : redisPc[d] \in Owing => redisPc'[d] \in Owing
          BY <1>0, <1>2, <4>2, <4>4
        <5> QED
          BY <4>1, <4>4, <5>1 DEF RInv, OwesExpiry
      <4> QED
        BY <1>0, <4>3, <4>4
    <3> QED
      BY <3>1, <3>2
  <2> QED
    BY <2>1, <2>2 DEF OwesExpiry, Redis!Never
<1> QED
  BY <1>5, <1>6, <1>7, <1>8 DEF RInv

-----------------------------------------------------------------------------
LEMMA RedisStutter == RInv /\ UNCHANGED redisVars => RInv'
<1> SUFFICES ASSUME RInv, UNCHANGED redisVars PROVE RInv'
  OBVIOUS
<1>1. /\ redisClock' = redisClock /\ count' = count /\ expiry' = expiry
      /\ redisPc' = redisPc /\ at' = at /\ creator' = creator /\ flushed' = flushed
  BY DEF redisVars
<1>2. Redis!Counted' = Redis!Counted
  BY <1>1 DEF Redis!Counted
<1>3. expiry \in Int
  BY Typed, LimitersAssumption DEF RInv, Redis!RedisAssumption
<1>4. HasTwoLives' /\ Redis!BurstCap' /\ MadeByNow'
  BY <1>1, <1>2, <1>3, LivesStay
<1>5. Redis!TypeOK' /\ CountedOnce' /\ OwesExpiry'
  BY <1>1 DEF RInv, Redis!TypeOK, CountedOnce, OwesExpiry, Redis!Never
<1> QED
  BY <1>4, <1>5 DEF RInv

LEMMA RedisHolds == LimitersSpec => []RInv
<1>1. LimitersInit => RInv
  BY RedisInit DEF LimitersInit
<1>2. RInv /\ [LimitersNext]_<<shared, vars, redisVars>> => RInv'
  <2> SUFFICES ASSUME RInv, [LimitersNext]_<<shared, vars, redisVars>> PROVE RInv'
    OBVIOUS
  <2>1. CASE UNCHANGED redisVars
    BY <2>1, RedisStutter
  <2>2. CASE Redis!Next
    <3>1. CASE Redis!Tick
      BY <3>1, TickKeeps
    <3>2. CASE Redis!Flush
      BY <3>2, FlushKeeps
    <3>3. CASE \E c \in Calls : Redis!Attempt(c)
      BY <3>3, IncrKeeps, OthersKeep DEF Redis!Attempt
    <3> QED
      BY <2>2, <3>1, <3>2, <3>3 DEF Redis!Next
  <2> QED
    BY <2>1, <2>2 DEF LimitersNext
<1> QED
  BY <1>1, <1>2, PTL DEF LimitersSpec

\* Counter, key and attempts keep their types (RateLimiter::Redis).
THEOREM RedisTypeSafe == LimitersSpec => []RedisTypeOK
<1>1. RInv => RedisTypeOK
  BY DEF RInv, RedisTypeOK
<1> QED
  BY <1>1, RedisHolds, PTL

\* Any stretch of one window since Redis last started admits at most twice the
\* quota, though INCR and EXPIRE are two commands that may fail or come late.
THEOREM BurstsAreCapped == LimitersSpec => []BurstCap
<1>1. RInv => BurstCap
  BY DEF RInv, BurstCap
<1> QED
  BY <1>1, RedisHolds, PTL

\* Only the attempt that created a counter can leave it without a time to live: by
\* an EXPIRE still to come or lost, or an INCR whose answer never came (TimeToLive).
THEOREM CreatorGivesTime == LimitersSpec => []TimeToLive
<1>1. RInv => TimeToLive
  BY DEF RInv, OwesExpiry, Owing, TimeToLive, Redis!TimeToLive
<1> QED
  BY <1>1, RedisHolds, PTL
=============================================================================
