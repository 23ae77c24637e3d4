---------------------------- MODULE FixedWindow -----------------------------
(***************************************************************************)
(* The in-memory rate limiter (internal/shared/ratelimit).  Every HTTP     *)
(* request is a caller.  Take reads the clock before it asks for the lock,  *)
(* so a caller may be served with an old reading, after callers that read   *)
(* a later time.  Windows are kept in two generations of keys: the current  *)
(* one is demoted about once a window, and what is still in the previous    *)
(* one at the next demotion is forgotten.                                   *)
(***************************************************************************)
EXTENDS Integers

CONSTANTS Keys,         \* "register:ip:..", "formsubmit:key:..", ...
          Callers,      \* requests under way
          Limit,        \* calls a window admits
          Window,       \* length of a window
          Stall,        \* bound: longest wait between reading the clock and the lock
          MaxTime,      \* bound: the clock stops here
          None          \* no call under way, key not in the map

Buckets == [start : Nat, count : 0 .. Limit]
Calls   == [key : Keys, at : Nat]

ASSUME LimiterAssumption ==
    /\ Limit \in Nat
    /\ Window \in Nat \ {0}
    /\ Stall \in Nat
    /\ MaxTime \in Nat
    /\ None \notin [start : Int, count : Int] \cup [key : Keys, at : Int]

VARIABLES clock,        \* wall clock
          asked,        \* asked[c]: key and clock reading of the Take c is in
          got,          \* got[c]: the last answer c was given
          current,      \* current[k]: bucket of k in the current generation
          previous,     \* previous[k]: the same for the previous generation
          genStart,     \* start of the current generation, Never before the first Take
          watched,      \* history: any one key, and any one moment
          from,         \*     from which passed counts
          passed,       \* history: calls for that key let through since then
          touched       \* history: when a Take for that key last ran

limiterVars == <<current, previous, genStart>>
historyVars == <<watched, from, passed, touched>>
vars == <<clock, asked, got, limiterVars, historyVars>>

Never == -1
NoBuckets == [k \in Keys |-> None]
Times == 0 .. MaxTime

TypeOK ==
    /\ clock \in Times
    /\ asked \in [Callers -> Calls \cup {None}]
    /\ got \in [Callers -> {"none", "allowed", "refused"}]
    /\ current \in [Keys -> Buckets \cup {None}]
    /\ previous \in [Keys -> Buckets \cup {None}]
    /\ genStart \in Nat \cup {Never}
    /\ from \in Times
    /\ watched \in Keys
    /\ passed \in Nat
    /\ touched \in Times \cup {Never}

Init ==
    /\ clock = 0
    /\ asked = [c \in Callers |-> None]
    /\ got = [c \in Callers |-> "none"]
    /\ current = NoBuckets
    /\ previous = NoBuckets
    /\ genStart = Never
    /\ from \in Times
    /\ watched \in Keys
    /\ passed = 0
    /\ touched = Never

-----------------------------------------------------------------------------
(***************************************************************************)
(* The clock, and the part of Take before the lock.                         *)
(***************************************************************************)

Tick ==
    /\ clock < MaxTime
    /\ \A c \in Callers : asked[c] # None => clock - asked[c].at < Stall
    /\ clock' = clock + 1
    /\ UNCHANGED <<asked, got, limiterVars, historyVars>>

Ask(c, k) ==
    /\ asked[c] = None
    /\ asked' = [asked EXCEPT ![c] = [key |-> k, at |-> clock]]
    /\ got' = [got EXCEPT ![c] = "none"]
    /\ UNCHANGED <<clock, limiterVars, historyVars>>

-----------------------------------------------------------------------------
(***************************************************************************)
(* rollLocked: the generations as a Take with the reading now leaves them.  *)
(***************************************************************************)

SwapDue(now) == genStart # Never /\ now - genStart >= Window

\* Mutant: a swap does not begin a new generation.
RolledStartStays(now) == IF genStart = Never THEN now ELSE genStart

RolledStart(now)   == IF genStart = Never \/ SwapDue(now) THEN now ELSE genStart
RolledCurrent(now) == IF SwapDue(now) THEN NoBuckets ELSE current
\* Mutant: a generation nobody has used for long is demoted all the same.
RolledPreviousKeeps(now) == IF SwapDue(now) THEN current ELSE previous

RolledPrevious(now) ==
    IF ~SwapDue(now) THEN previous
    ELSE IF now - genStart >= 2 * Window THEN NoBuckets
    ELSE current

(***************************************************************************)
(* The rest of Take, in one critical section: find the bucket or carry it   *)
(* over from the previous generation, renew it when its window is over,     *)
(* and count the call if there is room.                                     *)
(***************************************************************************)

Fresh(now) == [start |-> now, count |-> 0]

Live(b, now) == now - b.start < Window

\* Mutant: no carrying over from the previous generation.
FoundHereOnly(k, now) ==
    IF RolledCurrent(now)[k] # None THEN RolledCurrent(now)[k] ELSE Fresh(now)

Found(k, now) ==
    LET here  == RolledCurrent(now)[k]
        there == RolledPrevious(now)[k]
    IN  IF here # None THEN here
        ELSE IF there # None /\ Live(there, now) THEN there
        ELSE Fresh(now)

Renewed(b, now) == IF Live(b, now) THEN b ELSE Fresh(now)

\* Mutant: > for >=.
AdmitsOneMore(b) == b.count <= Limit

Admits(b) == b.count < Limit

Counted(b) == IF Admits(b) THEN [b EXCEPT !.count = @ + 1] ELSE b

\* The interval passed counts in.
InInterval == from <= clock /\ clock < from + Window - Stall

Take(c) ==
    /\ asked[c] # None
    /\ LET k   == asked[c].key
           now == asked[c].at
           b   == Renewed(Found(k, now), now)
       IN  /\ current' = [RolledCurrent(now) EXCEPT ![k] = Counted(b)]
           /\ previous' = RolledPrevious(now)
           /\ genStart' = RolledStart(now)
           /\ got' = [got EXCEPT ![c] = IF Admits(b) THEN "allowed" ELSE "refused"]
           /\ passed' = IF k = watched /\ Admits(b) /\ InInterval THEN passed + 1 ELSE passed
           /\ touched' = IF k = watched THEN clock ELSE touched
    /\ asked' = [asked EXCEPT ![c] = None]
    /\ UNCHANGED <<clock, watched, from>>

Next ==
    \/ Tick
    \/ \E c \in Callers : Take(c) \/ \E k \in Keys : Ask(c, k)

Spec == Init /\ [][Next]_vars

-----------------------------------------------------------------------------
(***************************************************************************)
(* Properties.                                                              *)
(***************************************************************************)

Tracked == {k \in Keys : current[k] # None \/ previous[k] # None}

(***************************************************************************)
(* Len is bounded by the keys of recent traffic: a key is in one of the     *)
(* maps only if a Take for it ran less than two windows before the current  *)
(* generation began, however long the limiter was idle in between and       *)
(* however late the readings arrive (rollLocked).                           *)
(***************************************************************************)
TrackedAreRecent == watched \in Tracked => touched > genStart - 2 * Window

(***************************************************************************)
(* The burst a fixed window allows is two windows' worth and no more: at    *)
(* most 2 * Limit calls with one key are let through in any Window - Stall  *)
(* units of time, across generation swaps and with readings up to Stall     *)
(* old (Take).                                                              *)
(***************************************************************************)
BurstBounded == passed <= 2 * Limit

(***************************************************************************)
(* The two generations together are one window per key: a key never has     *)
(* calls counted in two windows, loses an open window to a swap, or gets a  *)
(* new one before the old one is over (Take, rollLocked).                   *)
(***************************************************************************)
Effective(k) == IF current[k] # None THEN current[k] ELSE previous[k]

Budget == INSTANCE WindowBudget WITH window <- [k \in Keys |-> Effective(k)]

KeepsBudget == Budget!Spec
=============================================================================
