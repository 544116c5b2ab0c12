------------------------------ MODULE MCFalloutCache ------------------------------
(* Two archives share the limit, and the files of both with one entry each, or  *)
(* one of them with a file left by an archive that is gone, exceed it.  The     *)
(* features a session turns on are spread over six sessions.                  *)
EXTENDS FalloutCache
CONSTANTS e1, e2

Faults == {"create", "write", "rename", "load", "remove"}
Session ==
  [mode |-> 1, limited |-> TRUE, textures |-> FALSE, walks |-> FALSE,
   substitutes |-> FALSE, entries |-> {e1}, fails |-> {}]

AllSessions ==
  {[Session EXCEPT !.mode = 0, !.entries = {e1, e2}],
   [Session EXCEPT !.mode = 0, !.walks = TRUE, !.substitutes = TRUE],
   [Session EXCEPT !.limited = FALSE],
   [Session EXCEPT !.fails = {"load"}],
   [Session EXCEPT !.substitutes = TRUE, !.fails = Faults \ {"load"}],
   [Session EXCEPT !.textures = TRUE]}
=============================================================================
