-------------------------- MODULE MCWebhookDelivery --------------------------
(***************************************************************************)
(* Small instances of WebhookDelivery for TLC.                              *)
(***************************************************************************)
EXTENDS WebhookDelivery, TLC

CONSTANTS d1, d2, w1, w2

TwoDeliveries == {d1, d2}
TwoWorkers    == {w1, w2}
OneWorker     == {w1}

OneDelay == <<1>>

\* Safety only: workers are interchangeable, and so are rows.
Interchangeable == Permutations(TwoWorkers) \cup Permutations(TwoDeliveries)
=============================================================================
