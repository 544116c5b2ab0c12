---------------------------- MODULE MCFalloutStreams ----------------------------
(* Two threads, two addresses and two archives.  Streams that share a slot of  *)
(* the stream table, plain and packed ones, those of nested constructions      *)
(* among them; addresses used up to three times while the source table is      *)
(* frozen; seeks and failures; asynchronous streams and streams of packed      *)
(* entries across save loads; a first session, whose cache serves nothing yet, *)
(* with more accumulators than are kept.                                     *)
EXTENDS FalloutStreams, TLC

CONSTANTS plain, packed

Symmetry ==
  Permutations(Threads) \cup Permutations(Addresses) \cup Permutations(Sources)

Quiet == [hook |-> "ctor", mode |-> 1, ready |-> TRUE, async |-> FALSE,
          loads |-> FALSE, shared |-> FALSE, seeks |-> FALSE, fails |-> FALSE,
          entries |-> {plain}, room |-> 2, opens |-> 2]

Surroundings ==
  {[Quiet EXCEPT !.shared = TRUE],
   [Quiet EXCEPT !.entries = {packed}, !.shared = TRUE],
   [Quiet EXCEPT !.hook = "factory", !.mode = 0, !.room = 1, !.opens = 3],
   [Quiet EXCEPT !.seeks = TRUE, !.fails = TRUE],
   [Quiet EXCEPT !.entries = {plain, packed}, !.async = TRUE, !.room = 1, !.opens = 3],
   [Quiet EXCEPT !.entries = {packed}, !.async = TRUE, !.room = 1, !.loads = TRUE,
                 !.seeks = TRUE],
   [Quiet EXCEPT !.entries = {packed}, !.ready = FALSE]}

(* One thread reads packed entries without seeking, and nothing fails.         *)
Plainest == {[Quiet EXCEPT !.entries = {packed}, !.ready = FALSE, !.room = 1]}
=============================================================================
