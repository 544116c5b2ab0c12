------------------------------ MODULE MCWarmWorker ------------------------------
(* One archive in two chunks, so that a pass can be interrupted between chunks  *)
(* and between touching and verifying; the theorems of WarmWorkerProofs are for *)
(* every set of archives.  One reader and the loader make two requesters       *)
(* besides the worker.                                                       *)
EXTENDS WarmWorker

(* Every failure, with the interval to try again; and no interval at all, so    *)
(* that a request nobody wakes the worker for is never seen.                  *)
RetryOrWake ==
  {[timer |-> TRUE, fails |-> TRUE, stops |-> FALSE],
   [timer |-> FALSE, fails |-> FALSE, stops |-> TRUE]}
Undisturbed == {[timer |-> FALSE, fails |-> FALSE, stops |-> FALSE]}
=============================================================================
