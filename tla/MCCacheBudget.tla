---------------------------- MODULE MCCacheBudget ----------------------------
(* One archive with two payloads; every slot is one byte, except that the     *)
(* second payload is two.  The theorems of CacheBudgetProofs are for any       *)
(* number of archives that compete for the cap.                              *)
EXTENDS CacheBudget

CONSTANTS a1, e1, e2, o1

OneArchive == [e \in Entries |-> a1]
MCSize == [s \in Slots |-> IF s = e2 THEN 2 ELSE 1]
AtMostOne == {{}, {"startupScan"}, {"allocation"}}
=============================================================================
