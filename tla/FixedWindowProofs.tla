-------------------------- MODULE FixedWindowProofs --------------------------
(***************************************************************************)
(* Theorems about FixedWindow, for every number of keys and callers, every  *)
(* limit, window and stall.  The invariant says where the windows of each   *)
(* generation can start; it is what makes forgetting a generation safe.     *)
(***************************************************************************)
EXTENDS FixedWindow, TLAPS

Readings == \A c \in Callers : asked[c] # None => asked[c].at <= clock

Unstarted == genStart = Never => current = NoBuckets /\ previous = NoBuckets

CurrentStarts ==
    \A k \in Keys : current[k] # None => current[k].start < genStart + Window

PreviousStarts == \A k \in Keys : previous[k] # None => previous[k].start < genStart

Touches ==
    /\ current[watched] # None => touched >= genStart
    /\ previous[watched] # None => touched > genStart - 2 * Window

IInv ==
    /\ TypeOK
    /\ Readings
    /\ genStart <= clock
    /\ Unstarted
    /\ CurrentStarts
    /\ PreviousStarts
    /\ Touches

-----------------------------------------------------------------------------

LEMMA NoneIsNoBucket == /\ None \notin Buckets
                        /\ None \notin Calls
                        /\ \A s, n \in Int : [start |-> s, count |-> n] # None
                        /\ \A b \in Buckets : b.start \in Nat /\ b.count \in 0 .. Limit
BY LimiterAssumption DEF Buckets, Calls

(***************************************************************************)
(* Rolling keeps the types and the places where windows can start, and no   *)
(* key of the current generation outlives a swap by more than one.          *)
(***************************************************************************)
LEMMA Rolling ==
    ASSUME IInv, NEW now \in Nat, now <= clock
    PROVE  /\ RolledCurrent(now) \in [Keys -> Buckets \cup {None}]
           /\ RolledPrevious(now) \in [Keys -> Buckets \cup {None}]
           /\ RolledStart(now) \in Nat
           /\ RolledStart(now) <= clock
           /\ now < RolledStart(now) + Window
           /\ \A k \in Keys : RolledCurrent(now)[k] # None =>
                                RolledCurrent(now)[k].start < RolledStart(now) + Window
           /\ \A k \in Keys : RolledPrevious(now)[k] # None =>
                                RolledPrevious(now)[k].start < RolledStart(now)
           /\ RolledCurrent(now)[watched] # None => touched >= RolledStart(now)
           /\ RolledPrevious(now)[watched] # None => touched > RolledStart(now) - 2 * Window
<1> USE LimiterAssumption
<1>0. /\ NoBuckets \in [Keys -> Buckets \cup {None}]
      /\ \A k \in Keys : NoBuckets[k] = None
  BY DEF NoBuckets
<1>1. \A k \in Keys : /\ current[k] # None => current[k].start \in Nat
                      /\ previous[k] # None => previous[k].start \in Nat
  BY DEF IInv, TypeOK, Buckets
<1>2. watched \in Keys /\ touched \in Int /\ genStart \in Int /\ clock \in Nat
  BY DEF IInv, TypeOK, Times, Never
<1>3. CASE SwapDue(now)
  BY <1>0, <1>1, <1>2, <1>3 DEF IInv, TypeOK, SwapDue, Never, RolledCurrent, RolledPrevious,
       RolledStart, CurrentStarts, PreviousStarts, Touches
<1>4. CASE ~SwapDue(now)
  <2>1. CASE genStart = Never
    BY <1>0, <1>2, <1>4, <2>1 DEF IInv, TypeOK, Unstarted, SwapDue, Never, RolledCurrent,
         RolledPrevious, RolledStart
  <2>2. CASE genStart # Never
    BY <1>1, <1>2, <1>4, <2>2 DEF IInv, TypeOK, SwapDue, Never, RolledCurrent,
         RolledPrevious, RolledStart, CurrentStarts, PreviousStarts, Touches
  <2> QED BY <2>1, <2>2
<1> QED BY <1>3, <1>4

(***************************************************************************)
(* The bucket a call is counted in is one of the limiter's, and it starts    *)
(* within the generation.                                                   *)
(***************************************************************************)
LEMMA BucketUsed ==
    ASSUME IInv, NEW k \in Keys, NEW now \in Nat, now <= clock
    PROVE  LET b == Renewed(Found(k, now), now)
           IN  /\ b \in Buckets
               /\ b.start < RolledStart(now) + Window
               /\ Counted(b) \in Buckets
               /\ Counted(b).start = b.start
               /\ Counted(b) # None
<1> DEFINE b == Renewed(Found(k, now), now)
<1> USE LimiterAssumption
<1>1. Fresh(now) \in Buckets /\ Fresh(now).start = now
  BY DEF Fresh, Buckets
<1>2. Found(k, now) \in Buckets /\ Found(k, now).start < RolledStart(now) + Window
  BY <1>1, Rolling DEF Found, Buckets
<1>3. b \in Buckets /\ b.start < RolledStart(now) + Window
  BY <1>1, <1>2, Rolling DEF Renewed
<1>4. Counted(b) \in Buckets /\ Counted(b).start = b.start
  BY <1>3 DEF Counted, Admits, Buckets
<1> QED BY <1>3, <1>4, NoneIsNoBucket

-----------------------------------------------------------------------------

LEMMA InitIInv == Init => IInv
BY LimiterAssumption DEF Init, IInv, TypeOK, Readings, Unstarted, CurrentStarts,
   PreviousStarts, Touches, NoBuckets, Never, Times

LEMMA NextIInv == IInv /\ [Next]_vars => IInv'
<1> SUFFICES ASSUME IInv, [Next]_vars PROVE IInv'
  OBVIOUS
<1> USE LimiterAssumption
<1>1. CASE Tick
  BY <1>1 DEF Tick, limiterVars, historyVars, IInv, TypeOK, Readings, Unstarted,
     CurrentStarts, PreviousStarts, Touches, Times, Never, Calls
<1>2. ASSUME NEW c \in Callers, NEW k \in Keys, Ask(c, k) PROVE IInv'
  <2>1. [key |-> k, at |-> clock] \in Calls
    BY DEF IInv, TypeOK, Times, Calls
  <2>2. TypeOK'
    BY <1>2, <2>1 DEF Ask, limiterVars, historyVars, IInv, TypeOK
  <2>3. Readings'
    BY <1>2 DEF Ask, IInv, TypeOK, Readings, Times
  <2> QED
    BY <1>2, <2>2, <2>3 DEF Ask, limiterVars, historyVars, IInv, Unstarted,
       CurrentStarts, PreviousStarts, Touches
<1>3. ASSUME NEW c \in Callers, Take(c) PROVE IInv'
  <2> DEFINE k   == asked[c].key
             now == asked[c].at
             b   == Renewed(Found(k, now), now)
  <2>1. k \in Keys /\ now \in Nat /\ now <= clock
    BY <1>3 DEF Take, IInv, TypeOK, Readings, Calls
  <2>2. /\ current' = [RolledCurrent(now) EXCEPT ![k] = Counted(b)]
        /\ previous' = RolledPrevious(now)
        /\ genStart' = RolledStart(now)
        /\ clock' = clock /\ watched' = watched /\ from' = from
        /\ asked' = [asked EXCEPT ![c] = None]
        /\ got' = [got EXCEPT ![c] = IF Admits(b) THEN "allowed" ELSE "refused"]
        /\ passed' \in {passed, passed + 1}
        /\ touched' = IF k = watched THEN clock ELSE touched
    BY <1>3 DEF Take
  <2>3. Counted(b) \in Buckets /\ Counted(b).start < RolledStart(now) + Window
    BY <2>1, BucketUsed
  <2> HIDE DEF k, now, b
  <2>4. TypeOK'
    BY <2>1, <2>2, <2>3, Rolling DEF IInv, TypeOK, Times
  <2>5. Readings' /\ genStart' <= clock' /\ Unstarted'
    BY <2>1, <2>2, Rolling DEF IInv, TypeOK, Readings, Unstarted, Never
  <2>6. CurrentStarts' /\ PreviousStarts'
    BY <2>1, <2>2, <2>3, Rolling DEF CurrentStarts, PreviousStarts
  <2>7. Touches'
    BY <2>1, <2>2, Rolling DEF Touches, IInv, TypeOK, Times
  <2> QED BY <2>4, <2>5, <2>6, <2>7 DEF IInv
<1>4. CASE UNCHANGED vars
  BY <1>4 DEF vars, limiterVars, historyVars, IInv, TypeOK, Readings, Unstarted,
     CurrentStarts, PreviousStarts, Touches
<1> QED BY <1>1, <1>2, <1>3, <1>4 DEF Next

LEMMA AlwaysIInv == Spec => []IInv
BY InitIInv, NextIInv, PTL DEF Spec

(***************************************************************************)
(* Every bucket's count stays within the limit and every variable keeps its *)
(* type, at any rate of calls and with readings of any age.                 *)
(***************************************************************************)
THEOREM TypeCorrect == Spec => []TypeOK
<1>1. IInv => TypeOK BY DEF IInv
<1> QED BY <1>1, AlwaysIInv, PTL

(***************************************************************************)
(* The maps hold only keys for which a Take ran less than two windows       *)
(* before the current generation began.                                     *)
(***************************************************************************)
THEOREM TrackedRecent == Spec => []TrackedAreRecent
<1>1. IInv => TrackedAreRecent
  BY LimiterAssumption DEF IInv, TypeOK, Touches, TrackedAreRecent, Tracked, Times, Never
<1> QED BY <1>1, AlwaysIInv, PTL

-----------------------------------------------------------------------------
(***************************************************************************)
(* The two generations are one window per key.  What a roll takes from the  *)
(* reader's view are exactly windows that are over.                         *)
(***************************************************************************)

\* The window of k as a Take with the reading now finds it.
RolledWindow(k, now) ==
    IF RolledCurrent(now)[k] # None THEN RolledCurrent(now)[k] ELSE RolledPrevious(now)[k]

Gone(now) == {k \in Keys : Effective(k) # None /\ RolledWindow(k, now) = None}

LEMMA GoneAreOver ==
    ASSUME IInv, NEW now \in Nat, now <= clock, NEW k \in Keys
    PROVE  /\ k \in Gone(now) => clock - Effective(k).start >= Window
           /\ RolledWindow(k, now) = IF k \in Gone(now) THEN None ELSE Effective(k)
<1> USE LimiterAssumption
<1>1. /\ current[k] # None => current[k].start \in Nat
      /\ previous[k] # None => previous[k].start \in Nat
      /\ genStart \in Int /\ clock \in Nat
  BY DEF IInv, TypeOK, Buckets, Times, Never
<1>2. NoBuckets[k] = None
  BY DEF NoBuckets
<1>3. CASE SwapDue(now)
  BY <1>1, <1>2, <1>3 DEF IInv, CurrentStarts, PreviousStarts, SwapDue, Never, Gone,
       RolledWindow, RolledCurrent, RolledPrevious, Effective
<1>4. CASE ~SwapDue(now)
  BY <1>4 DEF Gone, RolledWindow, RolledCurrent, RolledPrevious, Effective
<1> QED BY <1>3, <1>4

\* Finding and renewing a bucket comes to counting in the window it stands for.
LEMMA BucketIsWindow ==
    ASSUME IInv, NEW k \in Keys, NEW now \in Nat, now <= clock
    PROVE  Renewed(Found(k, now), now) = Budget!Counting(RolledWindow(k, now), now)
BY LimiterAssumption, Rolling, NoneIsNoBucket
   DEF Renewed, Found, RolledWindow, Live, Fresh, Budget!Counting

LEMMA TakeDecides ==
    ASSUME IInv, NEW c \in Callers, Take(c)
    PROVE  Budget!Decide(c)
<1> DEFINE k   == asked[c].key
           now == asked[c].at
           b   == Renewed(Found(k, now), now)
<1>1. asked[c] # None /\ k \in Keys /\ now \in Nat /\ now <= clock
  BY DEF Take, IInv, TypeOK, Readings, Calls
<1>2. /\ current' = [RolledCurrent(now) EXCEPT ![k] = Counted(b)]
      /\ previous' = RolledPrevious(now)
      /\ asked' = [asked EXCEPT ![c] = None]
      /\ got' = [got EXCEPT ![c] = IF Admits(b) THEN "allowed" ELSE "refused"]
      /\ clock' = clock
  BY DEF Take
<1>3. Counted(b) # None /\ b \in Buckets
  BY <1>1, BucketUsed
<1>4. \A j \in Keys : Effective(j)' = IF j = k THEN Counted(b) ELSE RolledWindow(j, now)
  BY <1>1, <1>2, <1>3, Rolling DEF Effective, RolledWindow
<1>5. \A j \in Keys : RolledWindow(j, now) = IF j \in Gone(now) THEN None ELSE Effective(j)
  BY <1>1, GoneAreOver
<1>6. b = Budget!Counting(IF k \in Gone(now) THEN None ELSE Effective(k), now)
  BY <1>1, <1>5, BucketIsWindow
<1>7. Gone(now) \in SUBSET {j \in Keys : Effective(j) # None /\ clock - Effective(j).start >= Window}
  BY <1>1, GoneAreOver DEF Gone
<1>8. Counted(b) = [b EXCEPT !.count = IF b.count < Limit THEN b.count + 1 ELSE b.count]
  BY <1>3 DEF Counted, Admits, Buckets
<1>9. [j \in Keys |-> Effective(j)]' =
        [j \in Keys |->
            IF j = k THEN [b EXCEPT !.count = IF b.count < Limit THEN b.count + 1 ELSE b.count]
            ELSE IF j \in Gone(now) THEN None ELSE Effective(j)]
  BY <1>4, <1>5, <1>8
<1>10. got' = [got EXCEPT ![c] = IF b.count < Limit THEN "allowed" ELSE "refused"]
  BY <1>2 DEF Admits
<1> HIDE DEF b
<1> QED BY <1>1, <1>2, <1>6, <1>7, <1>9, <1>10 DEF Budget!Decide, Budget!Over

(***************************************************************************)
(* FixedWindow implements WindowBudget: no swap of generations, stale        *)
(* reading or interleaving gives a key a window it is not due.              *)
(***************************************************************************)
THEOREM ImplementsBudget == Spec => KeepsBudget
<1>1. Init => Budget!Init
  BY DEF Init, Budget!Init, Effective, NoBuckets
<1>2. IInv /\ [Next]_vars => [Budget!Next]_Budget!budgetVars
  <2> SUFFICES ASSUME IInv, [Next]_vars PROVE [Budget!Next]_Budget!budgetVars
    OBVIOUS
  <2>1. CASE Tick
    BY <2>1 DEF Tick, limiterVars, Effective, Budget!Next, Budget!Tick
  <2>2. ASSUME NEW c \in Callers, NEW k \in Keys, Ask(c, k) PROVE Budget!Next
    BY <2>2 DEF Ask, limiterVars, Effective, Budget!Next, Budget!Ask
  <2>3. ASSUME NEW c \in Callers, Take(c) PROVE Budget!Next
    BY <2>3, TakeDecides DEF Budget!Next
  <2>4. CASE UNCHANGED vars
    BY <2>4 DEF vars, limiterVars, Effective, Budget!budgetVars
  <2> QED BY <2>1, <2>2, <2>3, <2>4 DEF Next
<1> QED BY <1>1, <1>2, AlwaysIInv, PTL DEF Spec, KeepsBudget, Budget!Spec

-----------------------------------------------------------------------------
(***************************************************************************)
(* The burst.  When a second window is opened for the watched key inside    *)
(* the interval, it starts at most Stall before the interval does, and so   *)
(* it is still open when the interval ends: there is no third.              *)
(***************************************************************************)

Ages == \A c \in Callers : asked[c] # None => clock - asked[c].at <= Stall

Open == clock < from + Window - Stall

OneOrTwo ==
    LET w == Effective(watched)
    IN  IF w = None THEN passed <= Limit
        ELSE \/ passed <= w.count
             \/ (passed <= Limit + w.count /\ w.start >= from - Stall)

BurstInv ==
    /\ Ages
    /\ clock < from => passed = 0
    /\ passed <= 2 * Limit
    /\ Open => OneOrTwo

LEMMA EffectiveType ==
    ASSUME TypeOK
    PROVE  /\ watched \in Keys /\ from \in Nat /\ clock \in Nat /\ passed \in Nat
           /\ \A k \in Keys : Effective(k) \in Buckets \cup {None}
           /\ Effective(watched) # None =>
                Effective(watched).start \in Nat /\ Effective(watched).count \in 0 .. Limit
<1>1. \A k \in Keys : Effective(k) \in Buckets \cup {None}
  BY DEF TypeOK, Effective
<1> QED BY <1>1, LimiterAssumption DEF TypeOK, Times, Buckets

LEMMA BurstTake ==
    ASSUME IInv, BurstInv, NEW c \in Callers, Take(c)
    PROVE  BurstInv'
<1> DEFINE k   == asked[c].key
           now == asked[c].at
           b   == Renewed(Found(k, now), now)
           w   == RolledWindow(k, now)
<1> USE LimiterAssumption
<1>1. /\ asked[c] # None /\ k \in Keys /\ now \in Nat
      /\ now <= clock /\ clock - now <= Stall
  BY DEF Take, IInv, TypeOK, Readings, Calls, BurstInv, Ages
<1>2. /\ current' = [RolledCurrent(now) EXCEPT ![k] = Counted(b)]
      /\ previous' = RolledPrevious(now)
      /\ asked' = [asked EXCEPT ![c] = None]
      /\ clock' = clock /\ watched' = watched /\ from' = from
      /\ passed' = IF k = watched /\ Admits(b) /\ InInterval THEN passed + 1 ELSE passed
  BY DEF Take
<1>3. /\ b \in Buckets /\ Counted(b) # None
      /\ b.start \in Nat /\ b.count \in 0 .. Limit
      /\ Counted(b).start = b.start
      /\ Counted(b).count = IF Admits(b) THEN b.count + 1 ELSE b.count
  BY <1>1, BucketUsed DEF Counted, Admits, Buckets
<1>4. \A j \in Keys : Effective(j)' = IF j = k THEN Counted(b) ELSE RolledWindow(j, now)
  BY <1>1, <1>2, <1>3, Rolling DEF Effective, RolledWindow
<1>5. \A j \in Keys : /\ RolledWindow(j, now) = IF j \in Gone(now) THEN None ELSE Effective(j)
                      /\ j \in Gone(now) => /\ Effective(j) # None
                                            /\ clock - Effective(j).start >= Window
  BY <1>1, GoneAreOver DEF Gone
<1>6. b = IF w # None /\ now - w.start < Window THEN w ELSE [start |-> now, count |-> 0]
  BY <1>1, BucketIsWindow DEF Budget!Counting
<1>7. /\ watched \in Keys /\ from \in Nat /\ clock \in Nat /\ passed \in Nat
      /\ Effective(watched) # None =>
            Effective(watched).start \in Nat /\ Effective(watched).count \in 0 .. Limit
  BY EffectiveType DEF IInv
<1> HIDE DEF k, now, b
<1>8. Ages'
  BY <1>1, <1>2 DEF BurstInv, Ages, IInv, TypeOK
<1>9. (clock < from => passed = 0)'
  BY <1>2, <1>7 DEF BurstInv, InInterval
<1>10. CASE ~Open
  BY <1>2, <1>7, <1>8, <1>9, <1>10 DEF BurstInv, Open, InInterval
<1>11. CASE Open
  \* The window of the watched key survives the roll, or held every call so far.
  <2> DEFINE e == Effective(watched)
             r == RolledWindow(watched, now)
  <2>1. OneOrTwo
    BY <1>11 DEF BurstInv
  <2>2. r = e \/ (r = None /\ e # None /\ passed <= Limit)
    <3>1. CASE watched \notin Gone(now)
      BY <1>5, <1>7, <3>1
    <3>2. CASE watched \in Gone(now)
      <4>1. r = None /\ e # None /\ clock - e.start >= Window
        BY <1>5, <1>7, <3>2
      <4>2. passed <= e.count \/ e.start >= from - Stall
        BY <2>1, <4>1 DEF OneOrTwo
      <4>3. e.start \in Nat /\ e.count \in 0 .. Limit
        BY <1>7, <4>1
      <4> HIDE DEF e, r
      <4> QED BY <1>7, <1>11, <4>1, <4>2, <4>3 DEF Open
    <3> QED BY <3>1, <3>2
  <2>3. IF r = None THEN passed <= Limit
        ELSE /\ r.start \in Nat /\ r.count \in 0 .. Limit
             /\ \/ passed <= r.count
                \/ (passed <= Limit + r.count /\ r.start >= from - Stall)
    BY <1>7, <2>1, <2>2 DEF OneOrTwo
  <2>4. CASE k # watched
    <3>1. Effective(watched)' = r /\ passed' = passed
      BY <1>2, <1>4, <1>7, <2>4
    <3>2. OneOrTwo'
      BY <1>2, <2>3, <3>1 DEF OneOrTwo
    <3> QED BY <1>2, <1>8, <1>9, <3>1, <3>2 DEF BurstInv
  <2>5. CASE k = watched
    <3>1. Effective(watched)' = Counted(b) /\ r = w
      BY <1>2, <1>4, <1>7, <2>5
    <3>2. CASE r # None /\ now - r.start < Window
      <4>1. b = r
        BY <1>6, <3>1, <3>2
      <4>2. OneOrTwo' /\ passed' <= 2 * Limit
        BY <1>2, <1>3, <1>7, <1>11, <2>3, <2>5, <3>1, <3>2, <4>1
           DEF OneOrTwo, BurstInv, InInterval, Open, Admits
      <4> QED BY <1>8, <1>9, <4>2 DEF BurstInv
    <3>3. CASE ~(r # None /\ now - r.start < Window)
      <4>1. b.start = now /\ b.count = 0
        BY <1>6, <3>1, <3>3
      <4>2. passed <= Limit
        BY <1>1, <1>7, <1>11, <2>3, <3>3 DEF Open
      <4>3. OneOrTwo' /\ passed' <= 2 * Limit
        BY <1>1, <1>2, <1>3, <1>7, <1>11, <2>5, <3>1, <4>1, <4>2
           DEF OneOrTwo, BurstInv, InInterval, Open, Admits
      <4> QED BY <1>8, <1>9, <4>3 DEF BurstInv
    <3> QED BY <3>2, <3>3
  <2> QED BY <2>4, <2>5
<1> QED BY <1>10, <1>11

(***************************************************************************)
(* At most 2 * Limit calls with one key are let through in any interval of  *)
(* Window - Stall, for every limit, window and age of the readings.         *)
(***************************************************************************)
THEOREM BurstsAreBounded == Spec => []BurstBounded
<1>1. Init => BurstInv
  <2> SUFFICES ASSUME Init PROVE BurstInv
    OBVIOUS
  <2>1. Effective(watched) = None /\ passed = 0
    BY DEF Init, Effective, NoBuckets
  <2> QED BY <2>1, LimiterAssumption DEF Init, BurstInv, Ages, OneOrTwo, Times
<1>2. IInv /\ BurstInv /\ [Next]_vars => BurstInv'
  <2> SUFFICES ASSUME IInv, BurstInv, [Next]_vars PROVE BurstInv'
    OBVIOUS
  <2>1. CASE Tick
    <3>1. Ages'
      BY <2>1, LimiterAssumption DEF Tick, IInv, TypeOK, Times, Calls, Ages
    <3> QED BY <2>1, <3>1, LimiterAssumption, EffectiveType
          DEF Tick, limiterVars, historyVars, IInv, BurstInv, Open, OneOrTwo, Effective
  <2>2. ASSUME NEW c \in Callers, NEW k \in Keys, Ask(c, k) PROVE BurstInv'
    <3>1. Ages'
      BY <2>2, LimiterAssumption DEF Ask, IInv, TypeOK, Times, BurstInv, Ages
    <3> QED BY <2>2, <3>1
          DEF Ask, limiterVars, historyVars, BurstInv, Open, OneOrTwo, Effective
  <2>3. ASSUME NEW c \in Callers, Take(c) PROVE BurstInv'
    BY <2>3, BurstTake
  <2>4. CASE UNCHANGED vars
    BY <2>4 DEF vars, limiterVars, historyVars, BurstInv, Ages, Open, OneOrTwo, Effective
  <2> QED BY <2>1, <2>2, <2>3, <2>4 DEF Next
<1>3. BurstInv => BurstBounded
  BY DEF BurstInv, BurstBounded
<1> QED BY <1>1, <1>2, <1>3, AlwaysIInv, PTL DEF Spec
=============================================================================
