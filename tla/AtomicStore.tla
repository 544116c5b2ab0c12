------------------------------ MODULE AtomicStore ------------------------------
(* What a cache file promises across crashes: the payloads it safely stores   *)
(* change by whole batches.  A batch in flight is added completely or not at  *)
(* all; while the file is being replaced, exactly that batch takes the place  *)
(* of everything stored; a deletion gives everything up.  Nothing is promised *)
(* while the store is unsafe, or of the step that makes it so.               *)
CONSTANT Entries
VARIABLES stored, inflight, present, replacing, unsafe

Init == /\ stored \in SUBSET Entries /\ inflight = {}
        /\ replacing = FALSE /\ unsafe = FALSE

Take == /\ inflight = {} /\ inflight' \in SUBSET Entries
        /\ UNCHANGED stored

Add == stored' = stored \cup inflight /\ UNCHANGED inflight

Replace == replacing /\ stored' = inflight /\ UNCHANGED inflight

(* The batch is done with, or forgotten in a crash. *)
Release == inflight' = {} /\ UNCHANGED stored

GiveUp == ~present' /\ stored' = {} /\ UNCHANGED inflight

Next == \/ (Take \/ Add \/ Replace \/ Release \/ GiveUp)
        \/ unsafe \/ unsafe'
Spec == Init /\ [][Next]_<<stored, inflight>>
=============================================================================
