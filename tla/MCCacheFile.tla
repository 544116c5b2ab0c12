------------------------------ MODULE MCCacheFile ------------------------------
(* Three payloads for an index of two: enough for an append, for a retry of a  *)
(* commit whose mapping failed with one payload more, and for an archive whose *)
(* index is full, so that a replacement drops an older payload.               *)
EXTENDS CacheFile
=============================================================================
