--------------------------- MODULE WebhookDelivery ---------------------------
(***************************************************************************)
(* The outbound webhook queue: rows of webhook_deliveries, the worker       *)
(* goroutine of every API instance that drains them                         *)
(* (internal/webhook/worker.go), the statements it runs                     *)
(* (internal/webhook/repository_postgres.go), the lead transaction that     *)
(* enqueues and the user who asks for another try.                          *)
(*                                                                          *)
(* Every statement is one atomic step, as PostgreSQL runs it in an implicit *)
(* transaction; everything between two statements interleaves.  Time is a   *)
(* discrete clock kept as ages and countdowns; the worker's clock and the   *)
(* database's are taken to agree.                                           *)
(***************************************************************************)
EXTENDS Naturals, Sequences, FiniteSets

CONSTANTS
    Workers,        \* API instances, one worker goroutine each
    Deliveries,     \* rows that may come to exist; a row's id is never reused
    NoClaim,        \* stands for "this worker is attempting nothing"
    Batch,          \* WEBHOOK_WORKER_BATCH
    Deadline,       \* WEBHOOK_DELIVERY_TIMEOUT plus the 5s result write
    ReapAfter,      \* reapThreshold
    MaxAttempts,    \* WEBHOOK_MAX_ATTEMPTS: retries after the first send
    RetryDelays,    \* retryDelays
    MaxFaults,      \* bound: crashes, failed statements, abandoned shutdowns
    MaxStops,       \* bound: graceful shutdowns
    MaxRequeues     \* bound: retries asked for by users

ClaimedDelivery == [id : Deliveries, attempt : 0..MaxAttempts]

ASSUME WebhookAssumption ==
    /\ IsFiniteSet(Deliveries)
    /\ NoClaim \notin ClaimedDelivery
    /\ Batch \in Nat \ {0}
    /\ Deadline \in Nat \ {0}
    /\ ReapAfter \in Nat
    /\ MaxAttempts \in Nat \ {0}
    /\ Len(RetryDelays) \in Nat \ {0}
    /\ \A n \in 1..Len(RetryDelays) : RetryDelays[n] \in Nat
    /\ MaxFaults \in Nat /\ MaxStops \in Nat /\ MaxRequeues \in Nat

VARIABLES
    \* the table
    status,     \* none (not inserted), pending, delivering, succeeded, failed, purged
    attempt,    \* retries counted so far
    wait,       \* time left until next_attempt_at; 0 is due
    age,        \* time since delivering_since, counted up to ReapAfter + 1
    \* each worker goroutine
    pc,         \* where in tick the worker is
    stop,       \* its context is cancelled
    todo,       \* claimed rows not yet attempted
    cur,        \* the claimed row being attempted
    outcome,    \* what the attempt came to
    elapsed,    \* time spent on the current attempt
    \* what an observer of the HTTP traffic saw since the row was last queued
    sends,      \* HTTP calls
    heard,      \* their outcomes
    \* budgets, and the stops that cut a claim short
    faults, stops, requeues, cuts

rowVars    == <<status, attempt, wait, age>>
workerVars == <<pc, stop, todo, cur, outcome, elapsed>>
seenVars   == <<sends, heard>>
budgetVars == <<faults, stops, requeues, cuts>>
vars       == <<rowVars, workerVars, seenVars, budgetVars>>

Statuses == {"none", "pending", "delivering", "succeeded", "failed", "purged"}
Stages   == {"down", "reap", "purge", "claim", "loop", "send", "record", "release", "sleep"}
Busy     == {"loop", "send", "record", "release"}
Outcomes == {"ok", "refused", "again", "aborted", "broken"}

RowsTyped ==
    /\ status   \in [Deliveries -> Statuses]
    /\ attempt  \in [Deliveries -> 0..MaxAttempts]
    /\ wait     \in [Deliveries -> Nat]
    /\ age      \in [Deliveries -> 0..(ReapAfter + 1)]

WorkersTyped ==
    /\ pc       \in [Workers -> Stages]
    /\ stop     \in [Workers -> BOOLEAN]
    /\ todo     \in [Workers -> SUBSET ClaimedDelivery]
    /\ cur      \in [Workers -> ClaimedDelivery \cup {NoClaim}]
    /\ outcome  \in [Workers -> Outcomes]
    /\ elapsed  \in [Workers -> 0..Deadline]

SeenTyped ==
    /\ sends    \in [Deliveries -> Nat]
    /\ heard    \in [Deliveries -> SUBSET Outcomes]

BudgetsTyped ==
    /\ faults   \in 0..MaxFaults
    /\ stops    \in 0..MaxStops
    /\ requeues \in 0..MaxRequeues
    /\ cuts     \in Nat

TypeOK == RowsTyped /\ WorkersTyped /\ SeenTyped /\ BudgetsTyped

Init ==
    /\ status   = [d \in Deliveries |-> "none"]
    /\ attempt  = [d \in Deliveries |-> 0]
    /\ wait     = [d \in Deliveries |-> 0]
    /\ age      = [d \in Deliveries |-> 0]
    /\ pc       = [w \in Workers |-> "down"]
    /\ stop     = [w \in Workers |-> FALSE]
    /\ todo     = [w \in Workers |-> {}]
    /\ cur      = [w \in Workers |-> NoClaim]
    /\ outcome  = [w \in Workers |-> "ok"]
    /\ elapsed  = [w \in Workers |-> 0]
    /\ sends    = [d \in Deliveries |-> 0]
    /\ heard    = [d \in Deliveries |-> {}]
    /\ faults = 0 /\ stops = 0 /\ requeues = 0 /\ cuts = 0

-----------------------------------------------------------------------------
(* Helpers *)

\* entity.go backoff: the delay before retry n, clamped to the table's ends.
Backoff(n) ==
    RetryDelays[IF n < 1 THEN 1 ELSE IF n > Len(RetryDelays) THEN Len(RetryDelays) ELSE n]

Due == {d \in Deliveries : status[d] = "pending" /\ wait[d] = 0}

\* Mutant: the threshold set to the delivery timeout.
OverdueAtTimeout == {d \in Deliveries : status[d] = "delivering" /\ age[d] >= Deadline}

Overdue == {d \in Deliveries : status[d] = "delivering" /\ age[d] > ReapAfter}

Terminal == {d \in Deliveries : status[d] \in {"succeeded", "failed"}}

\* The claimed rows a live worker still means to act on.
Held(w) == todo[w] \cup (IF cur[w] = NoClaim THEN {} ELSE {cur[w]})

Goto(w, stage) == pc' = [pc EXCEPT ![w] = stage]

Fault == faults < MaxFaults /\ faults' = faults + 1

NoFault == UNCHANGED faults

\* Rows of S go back to pending, due at once, with the claim's stamp cleared.
Return(S) ==
    /\ status' = [d \in Deliveries |-> IF d \in S THEN "pending" ELSE status[d]]
    /\ wait'   = [d \in Deliveries |-> IF d \in S THEN 0 ELSE wait[d]]
    /\ age'    = [d \in Deliveries |-> IF d \in S THEN 0 ELSE age[d]]
    /\ UNCHANGED attempt

\* The process is gone: its goroutine's memory with it.
Forgotten(w) ==
    /\ pc'      = [pc EXCEPT ![w] = "down"]
    /\ stop'    = [stop EXCEPT ![w] = FALSE]
    /\ todo'    = [todo EXCEPT ![w] = {}]
    /\ cur'     = [cur EXCEPT ![w] = NoClaim]
    /\ outcome' = [outcome EXCEPT ![w] = "ok"]
    /\ elapsed' = [elapsed EXCEPT ![w] = 0]

-----------------------------------------------------------------------------
(* The rest of the product *)

\* Enqueuer.Enqueue inside the lead's transaction: one row per subscribed
\* endpoint, all committed together with the lead or not at all.
Enqueue(S) ==
    /\ S # {}
    /\ \A d \in S : status[d] = "none"
    /\ status' = [d \in Deliveries |-> IF d \in S THEN "pending" ELSE status[d]]
    /\ UNCHANGED <<attempt, wait, age, workerVars, seenVars, budgetVars>>

\* Usecase.RetryDelivery: the pre-check answers 409 and changes nothing, the
\* guard of the UPDATE is what decides.
RetryDelivery(d) ==
    /\ requeues < MaxRequeues
    /\ status[d] = "failed"
    /\ status'   = [status EXCEPT ![d] = "pending"]
    /\ attempt'  = [attempt EXCEPT ![d] = 0]
    /\ wait'     = [wait EXCEPT ![d] = 0]
    /\ age'      = [age EXCEPT ![d] = 0]
    /\ sends'    = [sends EXCEPT ![d] = 0]
    /\ heard'    = [heard EXCEPT ![d] = {}]
    /\ requeues' = requeues + 1
    /\ UNCHANGED <<workerVars, faults, stops, cuts>>

-----------------------------------------------------------------------------
(* The worker's tick: reap, purge, claim, attempt one by one *)

Start(w) ==
    /\ pc[w] = "down"
    /\ Goto(w, "reap")
    /\ UNCHANGED <<rowVars, stop, todo, cur, outcome, elapsed, seenVars, budgetVars>>

\* Mutant: the tick forgets the reaper.
ReapSkipped(w) ==
    /\ pc[w] = "reap"
    /\ Goto(w, "purge")
    /\ UNCHANGED <<rowVars, stop, todo, cur, outcome, elapsed, seenVars, budgetVars>>

\* A cancelled context makes the statement fail; a failure is logged and the
\* tick goes on.
Reap(w) ==
    /\ pc[w] = "reap"
    /\ Goto(w, "purge")
    /\ \/ ~stop[w] /\ Return(Overdue) /\ NoFault
       \/ stop[w] /\ UNCHANGED rowVars /\ NoFault
       \/ ~stop[w] /\ UNCHANGED rowVars /\ Fault
    /\ UNCHANGED <<stop, todo, cur, outcome, elapsed, seenVars, stops, requeues, cuts>>

\* maybePurge: skipped within an hour of the last purge, else terminal rows
\* past retention go.  Which terminal rows those are is left open; the empty
\* choice is also the skipped and the failed purge.
Purge(w) ==
    /\ pc[w] = "purge"
    /\ Goto(w, "claim")
    /\ \E S \in SUBSET Terminal :
          /\ stop[w] => S = {}
          /\ status' = [d \in Deliveries |-> IF d \in S THEN "purged" ELSE status[d]]
    /\ UNCHANGED <<attempt, wait, age, stop, todo, cur, outcome, elapsed, seenVars, budgetVars>>

\* The rows one ClaimDue statement takes: any Batch of the due ones.  ORDER BY
\* only says which go first, and SKIP LOCKED makes concurrent claims disjoint.
Claimable(S) ==
    /\ S \subseteq Due
    /\ Cardinality(S) = (IF Cardinality(Due) < Batch THEN Cardinality(Due) ELSE Batch)

MarkDelivering(S) ==
    /\ status' = [d \in Deliveries |-> IF d \in S THEN "delivering" ELSE status[d]]
    /\ age'    = [d \in Deliveries |-> IF d \in S THEN 0 ELSE age[d]]
    /\ UNCHANGED <<attempt, wait>>

ClaimDue(w) ==
    /\ pc[w] = "claim" /\ ~stop[w]
    /\ \E S \in SUBSET Deliveries :
          /\ Claimable(S)
          /\ MarkDelivering(S)
          /\ todo' = [todo EXCEPT ![w] = {[id |-> d, attempt |-> attempt[d]] : d \in S}]
    /\ elapsed' = [elapsed EXCEPT ![w] = 0]
    /\ Goto(w, "loop")
    /\ UNCHANGED <<stop, cur, outcome, seenVars, budgetVars>>

\* The context is done before the statement is sent, the statement fails, or
\* it commits and its answer is lost on the way back: the tick returns without
\* a batch.  For a stop in the middle of the call see ClaimCut.
ClaimFails(w) ==
    /\ pc[w] = "claim"
    /\ \/ stop[w] /\ UNCHANGED rowVars /\ NoFault
       \/ UNCHANGED rowVars /\ Fault
       \/ (\E S \in SUBSET Deliveries : Claimable(S) /\ MarkDelivering(S)) /\ Fault
    /\ Goto(w, "sleep")
    /\ UNCHANGED <<stop, todo, cur, outcome, elapsed, seenVars, stops, requeues, cuts>>

\* deliver up to client.Do.  A secret that cannot be decrypted or a request
\* that cannot be built is settled without any HTTP call.
Attempt(w) ==
    /\ pc[w] = "loop" /\ ~stop[w]
    /\ \E cd \in todo[w] :
          /\ todo' = [todo EXCEPT ![w] = @ \ {cd}]
          /\ cur'  = [cur EXCEPT ![w] = cd]
          /\ \/ /\ Goto(w, "send")
                /\ sends' = [sends EXCEPT ![cd.id] = @ + 1]
                /\ UNCHANGED <<outcome, heard>>
             \/ /\ Goto(w, "record")
                /\ outcome' = [outcome EXCEPT ![w] = "broken"]
                /\ heard'   = [heard EXCEPT ![cd.id] = @ \cup {"broken"}]
                /\ UNCHANGED sends
    /\ UNCHANGED <<rowVars, stop, elapsed, budgetVars>>

\* client.Do returns.  2xx is ok; 3xx and 4xx but 429 are refused; 429, 5xx
\* and a transport error call for another try.  The request's context is the
\* worker's, so a shutdown cuts the call short.
Respond(w, o) ==
    /\ pc[w] = "send"
    /\ o \in {"ok", "refused", "again"} \/ (o = "aborted" /\ stop[w])
    /\ outcome' = [outcome EXCEPT ![w] = o]
    /\ heard'   = [heard EXCEPT ![cur[w].id] = @ \cup {o}]
    /\ Goto(w, "record")
    /\ UNCHANGED <<rowVars, stop, todo, cur, elapsed, sends, budgetVars>>

\* Mutants of the verdict: gives up one retry early; never gives up; does not
\* count a call cut short by a shutdown.
VerdictOneShort(cd, o) ==
    IF o = "ok" THEN [status |-> "succeeded", attempt |-> cd.attempt, wait |-> 0]
    ELSE IF o \in {"refused", "broken"} \/ cd.attempt + 1 >= MaxAttempts
         THEN [status |-> "failed", attempt |-> cd.attempt, wait |-> 0]
         ELSE [status |-> "pending", attempt |-> cd.attempt + 1, wait |-> Backoff(cd.attempt + 1)]

VerdictEndless(cd, o) ==
    IF o = "ok" THEN [status |-> "succeeded", attempt |-> cd.attempt, wait |-> 0]
    ELSE IF o \in {"refused", "broken"}
         THEN [status |-> "failed", attempt |-> cd.attempt, wait |-> 0]
         ELSE [status |-> "pending", attempt |-> cd.attempt + 1, wait |-> Backoff(cd.attempt + 1)]

VerdictFreeAbort(cd, o) ==
    IF o = "ok" THEN [status |-> "succeeded", attempt |-> cd.attempt, wait |-> 0]
    ELSE IF o = "aborted" THEN [status |-> "pending", attempt |-> cd.attempt, wait |-> 0]
    ELSE IF o \in {"refused", "broken"} \/ cd.attempt + 1 > MaxAttempts
         THEN [status |-> "failed", attempt |-> cd.attempt, wait |-> 0]
         ELSE [status |-> "pending", attempt |-> cd.attempt + 1, wait |-> Backoff(cd.attempt + 1)]

\* What finish and retryOrFail write for a claimed row and an outcome.
Verdict(cd, o) ==
    IF o = "ok" THEN [status |-> "succeeded", attempt |-> cd.attempt, wait |-> 0]
    ELSE IF o \in {"refused", "broken"} \/ cd.attempt + 1 > MaxAttempts
         THEN [status |-> "failed", attempt |-> cd.attempt, wait |-> 0]
         ELSE [status |-> "pending", attempt |-> cd.attempt + 1, wait |-> Backoff(cd.attempt + 1)]

\* MarkResult on a row still delivering, whoever made it so.
MarkResult(cd, o) ==
    /\ status[cd.id] = "delivering"
    /\ status'  = [status EXCEPT ![cd.id] = Verdict(cd, o).status]
    /\ attempt' = [attempt EXCEPT ![cd.id] = Verdict(cd, o).attempt]
    /\ wait'    = [wait EXCEPT ![cd.id] = Verdict(cd, o).wait]
    /\ age'     = [age EXCEPT ![cd.id] = 0]

\* record: write the result; discard it if the row was taken back
\* (ErrDeliveryNotClaimed); lose it if the write fails.
Record(w) ==
    /\ pc[w] = "record"
    /\ \/ MarkResult(cur[w], outcome[w]) /\ NoFault
       \/ status[cur[w].id] # "delivering" /\ UNCHANGED rowVars /\ NoFault
       \/ UNCHANGED rowVars /\ Fault
    /\ cur'     = [cur EXCEPT ![w] = NoClaim]
    /\ outcome' = [outcome EXCEPT ![w] = "ok"]
    /\ elapsed' = [elapsed EXCEPT ![w] = 0]
    /\ Goto(w, "loop")
    /\ UNCHANGED <<stop, todo, seenVars, stops, requeues, cuts>>

BatchDone(w) ==
    /\ pc[w] = "loop" /\ todo[w] = {}
    /\ elapsed' = [elapsed EXCEPT ![w] = 0]
    /\ Goto(w, "sleep")
    /\ UNCHANGED <<rowVars, stop, todo, cur, outcome, seenVars, budgetVars>>

\* Mutant: the rest of the batch is left for the reaper, as the first plan of
\* TD 13 had it.
BeginReleaseLeaves(w) ==
    /\ pc[w] = "loop" /\ todo[w] # {} /\ stop[w]
    /\ Goto(w, "sleep")
    /\ todo' = [todo EXCEPT ![w] = {}]
    /\ UNCHANGED <<rowVars, stop, cur, outcome, elapsed, seenVars, budgetVars>>

\* ctx is cancelled between two deliveries: hand the rest back.
BeginRelease(w) ==
    /\ pc[w] = "loop" /\ todo[w] # {} /\ stop[w]
    /\ Goto(w, "release")
    /\ UNCHANGED <<rowVars, stop, todo, cur, outcome, elapsed, seenVars, budgetVars>>

\* releaseRemaining, one Release statement a step.
Release(w) ==
    /\ pc[w] = "release"
    /\ \E cd \in todo[w] :
          /\ todo' = [todo EXCEPT ![w] = @ \ {cd}]
          /\ \/ Return({cd.id} \ {d \in Deliveries : status[d] # "delivering"}) /\ NoFault
             \/ UNCHANGED rowVars /\ Fault
    /\ UNCHANGED <<pc, stop, cur, outcome, elapsed, seenVars, stops, requeues, cuts>>

ReleaseDone(w) ==
    /\ pc[w] = "release" /\ todo[w] = {}
    /\ elapsed' = [elapsed EXCEPT ![w] = 0]
    /\ Goto(w, "sleep")
    /\ UNCHANGED <<rowVars, stop, todo, cur, outcome, seenVars, budgetVars>>

\* Run's select: the ticker fires (Go picks either branch when the context is
\* done as well), or the cancelled context ends the goroutine.
Wake(w) ==
    /\ pc[w] = "sleep"
    /\ Goto(w, "reap")
    /\ UNCHANGED <<rowVars, stop, todo, cur, outcome, elapsed, seenVars, budgetVars>>

Stopped(w) ==
    /\ pc[w] = "sleep" /\ stop[w]
    /\ Forgotten(w)
    /\ UNCHANGED <<rowVars, seenVars, budgetVars>>

-----------------------------------------------------------------------------
(* Processes and time *)

\* A signal: main drains HTTP, then cancels the worker's context.
Stop(w) ==
    /\ pc[w] # "down" /\ ~stop[w]
    /\ stops < MaxStops
    /\ stops' = stops + 1
    /\ stop' = [stop EXCEPT ![w] = TRUE]
    /\ UNCHANGED <<rowVars, pc, todo, cur, outcome, elapsed, seenVars, faults, requeues, cuts>>

\* The signal comes while ClaimDue runs: its context is the worker's, so the
\* call ends with an error although the database may have committed, and the
\* tick returns without the batch.  A statement of Reap or Purge cut like this
\* is one that committed before the signal, or one that failed.
ClaimCut(w) ==
    /\ pc[w] = "claim" /\ ~stop[w]
    /\ stops < MaxStops
    /\ \E S \in SUBSET Deliveries : Claimable(S) /\ MarkDelivering(S)
    /\ stops' = stops + 1 /\ cuts' = cuts + 1
    /\ stop' = [stop EXCEPT ![w] = TRUE]
    /\ Goto(w, "sleep")
    /\ UNCHANGED <<todo, cur, outcome, elapsed, seenVars, faults, requeues>>

\* The process dies, or main's bounded wait for the worker runs out.
Crash(w) ==
    /\ pc[w] # "down"
    /\ Fault
    /\ Forgotten(w)
    /\ UNCHANGED <<rowVars, seenVars, stops, requeues, cuts>>

\* One unit of time.  The request timeout and the write timeout bound what a
\* worker spends on one claimed row; that bound is the only urgency assumed.
Tick ==
    /\ \A w \in Workers : pc[w] \in Busy => elapsed[w] < Deadline
    /\ elapsed' = [w \in Workers |-> IF pc[w] \in Busy THEN elapsed[w] + 1 ELSE elapsed[w]]
    /\ wait' = [d \in Deliveries |->
                   IF status[d] = "pending" /\ wait[d] > 0 THEN wait[d] - 1 ELSE wait[d]]
    /\ age' = [d \in Deliveries |->
                   IF status[d] = "delivering" /\ age[d] <= ReapAfter THEN age[d] + 1 ELSE age[d]]
    /\ UNCHANGED <<status, attempt, pc, stop, todo, cur, outcome, seenVars, budgetVars>>

Steps(w) ==
    \/ Start(w) \/ Reap(w) \/ Purge(w) \/ ClaimDue(w) \/ ClaimFails(w)
    \/ Attempt(w) \/ (\E o \in Outcomes : Respond(w, o)) \/ Record(w) \/ BatchDone(w)
    \/ BeginRelease(w) \/ Release(w) \/ ReleaseDone(w) \/ Wake(w)

Next ==
    \/ \E S \in SUBSET Deliveries : Enqueue(S)
    \/ \E d \in Deliveries : RetryDelivery(d)
    \/ \E w \in Workers : Steps(w) \/ Stopped(w) \/ Stop(w) \/ ClaimCut(w) \/ Crash(w)
    \/ Tick

Spec == Init /\ [][Next]_vars

\* A goroutine that can run does, time passes, a worker told to stop picks the
\* done branch of its select sooner or later, and a stopped instance is started
\* again.  Users, signals and crashes owe nothing.
Fairness ==
    /\ WF_vars(Tick)
    /\ \A w \in Workers : WF_vars(Steps(w)) /\ SF_vars(Stopped(w))

FairSpec == Spec /\ Fairness
-----------------------------------------------------------------------------
(* Properties *)

\* The reap threshold covers a whole batch attempted row by row.  The
\* defaults satisfy it (20 rows of at most 15s against 10 minutes); the boot
\* checks of config.go do not ask for it.
TimelyBatches == Batch * Deadline <= ReapAfter

\* Every row a live worker holds is still its own: delivering, with the
\* attempt count read at the claim, and held by nobody else.  This is what
\* MarkResult and Release silently rely on, since their guard names the status
\* and not the claimant.
ClaimsExclusive ==
    \A w \in Workers : \A cd \in Held(w) :
        /\ status[cd.id] = "delivering"
        /\ attempt[cd.id] = cd.attempt
        /\ \A v \in Workers \ {w} : \A other \in Held(v) : other.id # cd.id

\* Rows left delivering with no worker that knows of them: only the reaper
\* can bring them back.
Stranded == {d \in Deliveries :
                /\ status[d] = "delivering"
                /\ \A w \in Workers : \A cd \in Held(w) : cd.id # d}

\* A graceful stop hands back all the worker holds (Release's comment: no
\* deploy costs a delivery the reaper's ten minutes), unless it cuts a claim
\* short; that, a crash or a failed statement strands one batch at most.
FewStranded == Cardinality(Stranded) <= Batch * (faults + cuts)

\* A row is sent once more than its retries so far, and each crash or failed
\* statement buys at most one extra call: the "up to 6 HTTP calls" of
\* config.go, and the price of at-least-once.
SendsBounded ==
    \A d \in Deliveries : sends[d] <= attempt[d] + 1 + faults

\* Each row refines the promise of DeliveryPromise: closed only on evidence
\* gathered since it was last opened, reopened only by a user.
Phase(d) == IF status[d] \in {"pending", "delivering"} THEN "open" ELSE status[d]

Promise == INSTANCE DeliveryPromise WITH phase <- [d \in Deliveries |-> Phase(d)],
                                         tries <- sends, heard <- heard

KeepsPromise == Promise!Spec

\* Whatever the crashes, stops and lost writes, a row put in the queue is
\* settled sooner or later: at least one attempt follows from at-least-once.
EverySettled ==
    \A d \in Deliveries :
        status[d] = "pending" ~> status[d] \in {"succeeded", "failed", "purged"}

\* TD 4.2 and worker.go on reapThreshold: with the threshold far above the
\* delivery timeout, the reaper never takes a row whose request is running.
ReaperSparesRunning ==
    \A w \in Workers : pc[w] = "send" => cur[w].id \notin Overdue
=============================================================================
