--------------------------- MODULE MCCompressedStream ---------------------------
(* Model values for CompressedStream, and the ways its streams are used. *)
EXTENDS CompressedStream, TLC

Symmetric == Permutations(Streams) \cup Permutations(Threads)
One(S) == {{x} : x \in S}

(* One thread on one stream, where capturing comes and goes; one thread on two  *)
(* streams, with clones; both with every failure of a native call.             *)
OneStream ==
  [streams : One(Streams), threads : One(Threads), captures : {BOOLEAN},
   nativeFails : {TRUE}, allocFails : {{"state", "publish"}}, overlapping : {FALSE}]
TwoStreams ==
  [streams : {Streams}, threads : One(Threads), captures : {{TRUE}},
   nativeFails : {TRUE}, allocFails : {{"clone"}}, overlapping : {FALSE}]

(* Two threads on one stream, which close it and replace its side state under   *)
(* each other: they capture what they read, or they run out of memory.           *)
TwoThreads ==
  [streams : One(Streams), threads : {Threads}, captures : {{TRUE}},
   nativeFails : {FALSE}, allocFails : {{}}, overlapping : {TRUE}]
TwoShortOfMemory ==
  [streams : One(Streams), threads : {Threads}, captures : {{FALSE}},
   nativeFails : {FALSE}, allocFails : {{"identity", "publish"}},
   overlapping : {TRUE}]
AllScenarios == OneStream \cup TwoStreams \cup TwoThreads \cup TwoShortOfMemory

(* One thread, one stream, and no memory for the state of a changed identity.  *)
NoMemory ==
  [streams : One(Streams), threads : One(Threads), captures : {{TRUE}},
   nativeFails : {FALSE}, allocFails : {{"identity"}}, overlapping : {FALSE}]
=============================================================================
