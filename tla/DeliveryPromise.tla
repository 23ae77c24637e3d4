--------------------------- MODULE DeliveryPromise ---------------------------
(***************************************************************************)
(* What the outbound webhook queue promises about one delivery, with the   *)
(* workers, claims and clocks left out: an accepted delivery stays open     *)
(* until the tries made on its behalf justify closing it, it is closed      *)
(* once, and only a user may open it again.                                 *)
(***************************************************************************)
EXTENDS Naturals

CONSTANTS Deliveries,   \* webhook_deliveries rows that may come to exist
          MaxAttempts   \* retries after the first send

VARIABLES phase,        \* none, open, succeeded, failed or purged
          tries,        \* HTTP calls made since the delivery was last opened
          heard         \* outcomes of tries since then

promiseVars == <<phase, tries, heard>>

Outcomes == {"ok", "refused", "again", "aborted", "broken"}
Phases   == {"none", "open", "succeeded", "failed", "purged"}

Init ==
    /\ phase = [d \in Deliveries |-> "none"]
    /\ tries = [d \in Deliveries |-> 0]
    /\ heard = [d \in Deliveries |-> {}]

\* The lead's transaction commits its events: all of S at once.
Accept(S) ==
    /\ \A d \in S : phase[d] = "none"
    /\ phase' = [d \in Deliveries |-> IF d \in S THEN "open" ELSE phase[d]]
    /\ UNCHANGED <<tries, heard>>

Try(d) ==
    /\ phase[d] = "open"
    /\ tries' = [tries EXCEPT ![d] = @ + 1]
    /\ UNCHANGED <<phase, heard>>

Hear(d, o) ==
    /\ phase[d] = "open"
    /\ heard' = [heard EXCEPT ![d] = @ \cup {o}]
    /\ UNCHANGED <<phase, tries>>

\* Closing as succeeded takes a 2xx answer heard since the last opening.
Succeed(d) ==
    /\ phase[d] = "open"
    /\ "ok" \in heard[d]
    /\ phase' = [phase EXCEPT ![d] = "succeeded"]
    /\ UNCHANGED <<tries, heard>>

\* Closing as failed takes a refusal, a delivery that cannot be sent at all,
\* or a retry budget that is used up.
Fail(d) ==
    /\ phase[d] = "open"
    /\ \/ heard[d] \cap {"refused", "broken"} # {}
       \/ tries[d] > MaxAttempts
    /\ phase' = [phase EXCEPT ![d] = "failed"]
    /\ UNCHANGED <<tries, heard>>

Reopen(d) ==
    /\ phase[d] = "failed"
    /\ phase' = [phase EXCEPT ![d] = "open"]
    /\ tries' = [tries EXCEPT ![d] = 0]
    /\ heard' = [heard EXCEPT ![d] = {}]

Forget(S) ==
    /\ \A d \in S : phase[d] \in {"succeeded", "failed"}
    /\ phase' = [d \in Deliveries |-> IF d \in S THEN "purged" ELSE phase[d]]
    /\ UNCHANGED <<tries, heard>>

Next ==
    \/ \E S \in SUBSET Deliveries : Accept(S) \/ Forget(S)
    \/ \E d \in Deliveries :
          \/ Try(d)
          \/ \E o \in Outcomes : Hear(d, o)
          \/ Succeed(d)
          \/ Fail(d)
          \/ Reopen(d)

Spec == Init /\ [][Next]_promiseVars
=============================================================================
