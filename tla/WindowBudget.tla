---------------------------- MODULE WindowBudget ----------------------------
(***************************************************************************)
(* What the rate limiter promises each key, with generations, locks and    *)
(* map lookups left out: the key has one window at a time, a window admits  *)
(* at most Limit calls, and it is replaced only when it is over.            *)
(***************************************************************************)
EXTENDS Integers

CONSTANTS Keys, Callers,
          Limit,        \* calls a window admits
          Window,       \* length of a window
          None          \* no call under way, no window open

VARIABLES clock,        \* wall clock
          asked,        \* asked[c]: the key c asks for and the time c read
          got,          \* got[c]: the last answer c was given
          window        \* window[k]: its start and the calls it has admitted

budgetVars == <<clock, asked, got, window>>

Init ==
    /\ clock = 0
    /\ asked = [c \in Callers |-> None]
    /\ got = [c \in Callers |-> "none"]
    /\ window = [k \in Keys |-> None]

Tick ==
    /\ clock' = clock + 1
    /\ UNCHANGED <<asked, got, window>>

Ask(c, k) ==
    /\ asked[c] = None
    /\ asked' = [asked EXCEPT ![c] = [key |-> k, at |-> clock]]
    /\ got' = [got EXCEPT ![c] = "none"]
    /\ UNCHANGED <<clock, window>>

\* Windows that are over, and so may be forgotten.
Over == {k \in Keys : window[k] # None /\ clock - window[k].start >= Window}

\* The window a call read at time "at" is counted in.
Counting(w, at) ==
    IF w # None /\ at - w.start < Window THEN w ELSE [start |-> at, count |-> 0]

Decide(c) ==
    /\ asked[c] # None
    /\ \E gone \in SUBSET Over :
         LET k    == asked[c].key
             w    == Counting(IF k \in gone THEN None ELSE window[k], asked[c].at)
             pass == w.count < Limit
         IN  /\ window' = [j \in Keys |->
                    IF j = k THEN [w EXCEPT !.count = IF pass THEN @ + 1 ELSE @]
                    ELSE IF j \in gone THEN None ELSE window[j]]
             /\ got' = [got EXCEPT ![c] = IF pass THEN "allowed" ELSE "refused"]
    /\ asked' = [asked EXCEPT ![c] = None]
    /\ UNCHANGED clock

Next ==
    \/ Tick
    \/ \E c \in Callers : Decide(c) \/ \E k \in Keys : Ask(c, k)

Spec == Init /\ [][Next]_budgetVars
=============================================================================
