--------------------------- MODULE FalloutCacheProofs ---------------------------
(***************************************************************************)
(* FalloutCache for any archives, entries, readers, limit and session: whoever  *)
(* reads through a pointer reads from a mapped view, the counts read without a   *)
(* lock are right, the files respect the limit, no lookup misses an entry that   *)
(* was there all along, and none that was learned is forgotten.                *)
(***************************************************************************)
EXTENDS FalloutCache, FiniteSetTheorems, TLAPS

(* A record is given by its fields: their types do not matter here.             *)
FlushShape(f) ==
  f = [pc |-> f.pc, back |-> f.back, todo |-> f.todo, textures |-> f.textures,
       archive |-> f.archive, local |-> f.local, tmp |-> f.tmp, known |-> f.known,
       failures |-> f.failures]
UserShape(r) ==
  r = [pc |-> r.pc, archive |-> r.archive, entry |-> r.entry, viewed |-> r.viewed,
       hasFlushed |-> r.hasFlushed, hasPending |-> r.hasPending, base |-> r.base,
       owner |-> r.owner]

Writing == {"check", "clear", "replace", "load"}
InFlush == Writing \cup {"next", "evict", "end"}
Outside == {"loading", "menu", "sleep", "textures", "texture"}

(* A flush returns to where it was begun, and only the texture build reopens    *)
(* a stable cache.                                                           *)
FlowInv ==
  /\ conditions.textures \in BOOLEAN
  /\ FlushShape(flush) /\ flush.pc \in InFlush \cup Outside
  /\ flush.pc \in InFlush => flush.back \in {"menu", "sleep", "textures"}
  /\ \/ flush.pc \in {"textures", "texture"}
     \/ flush.pc \in InFlush /\ flush.back = "textures"
     => conditions.textures
  /\ StableIsQuiet

(* A user of a view refers to what it owns or, while the cache is stable (s),   *)
(* to the view in force (v) unless a texture build may replace it (x).          *)
Backed(u, s, v, x) ==
  u.base \in {0, u.owner} \/ (s /\ (~x => u.base = v[u.archive]))

Sound(r, s, v, x) ==
  /\ r.pc = "find" => s
  /\ IF r.pc = "using" THEN Backed(r, s, v, x) ELSE r.base = 0
  /\ r.pc # "idle" => r.archive \in Archives

Rightful(u, s, v, x) ==
  u # NoStream => Backed(u, s, v, x) /\ u.archive \in Archives

UserInv ==
  /\ reader = [t \in Readers |-> reader[t]]
  /\ \A t \in Readers :
       UserShape(reader[t]) /\ Sound(reader[t], stable, view, conditions.textures)
  /\ Rightful(substitute, stable, view, conditions.textures)

LEMMA InitInv == Init => FlowInv /\ UserInv
<1> SUFFICES ASSUME Init PROVE FlowInv /\ UserInv
  OBVIOUS
<1>1. conditions.textures \in BOOLEAN
  BY FalloutAssumption DEF Init
<1>2. /\ flush.pc = "loading" /\ FlushShape(flush)
  BY DEF Init, FlushShape
<1>3. StableIsQuiet
  BY <1>2 DEF Init, StableIsQuiet
<1>4. FlowInv
  BY <1>1, <1>2, <1>3 DEF FlowInv, InFlush, Outside, Writing
<1>5. ASSUME NEW t \in Readers
      PROVE  UserShape(reader[t]) /\ Sound(reader[t], stable, view, conditions.textures)
  BY DEF Init, Idle, UserShape, Sound
<1>6. UserInv
  BY <1>5 DEF Init, UserInv, Rightful
<1> QED
  BY <1>4, <1>6

-----------------------------------------------------------------------------
(* Readers and recorders.                                                    *)

(* The reader of a step becomes c, the stream d.                              *)
LEMMA Moved ==
  ASSUME UserInv, NEW t \in Readers, NEW c, NEW d, Goto(t, c), substitute' = d,
         UserShape(c), Sound(c, stable, view, conditions.textures),
         Rightful(d, stable, view, conditions.textures),
         UNCHANGED <<view, stable, conditions>>
  PROVE  UserInv'
<1>1. reader' = [u \in Readers |-> IF u = t THEN c ELSE reader[u]]
  BY DEF UserInv, Goto
<1>2. ASSUME NEW u \in Readers
      PROVE  UserShape(reader'[u]) /\ Sound(reader'[u], stable, view, conditions.textures)
  BY <1>1 DEF UserInv
<1>3. reader' = [u \in Readers |-> reader'[u]]
  BY <1>1
<1> QED
  BY <1>2, <1>3 DEF UserInv

Good(c) == UserShape(c) /\ Sound(c, stable, view, conditions.textures)

LEMMA Begun ==
  ASSUME NEW q, NEW a \in Archives, NEW e, NEW v, NEW c,
         c = [Idle EXCEPT !.pc = q, !.archive = a, !.entry = e, !.viewed = v],
         q = "find" => stable, q # "using"
  PROVE  Good(c)
<1>1. /\ c.pc = q /\ c.archive = a /\ c.base = 0
  BY DEF Idle
<1>2. UserShape(c)
  BY DEF Idle, UserShape
<1> QED
  BY <1>1, <1>2 DEF Good, Sound

LEMMA IdleGood == Good(Idle)
<1>1. PICK c : c = Idle
  OBVIOUS
<1>2. UserShape(c) /\ c.pc = "idle" /\ c.base = 0
  BY <1>1 DEF Idle, UserShape
<1> QED
  BY <1>1, <1>2 DEF Good, Sound

(* A step of Lookup or RecordDecompressed leaves a good record.                 *)
LEMMA Stepped ==
  ASSUME NEW t \in Readers, Good(reader[t]),
         Lookup(t) \/ Finish(t) \/ RecordDecompressed(t)
  PROVE  \E c : Goto(t, c) /\ Good(c)
<1>0. PICK r : r = reader[t]
  OBVIOUS
<1>1. /\ UserShape(r)
      /\ r.pc = "find" => stable
      /\ r.pc \notin {"idle", "using"} => r.archive \in Archives /\ r.base = 0
  BY <1>0 DEF Good, Sound
<1>2. CASE LookupBegin(t)
  <2>1. PICK a \in Archives, e \in conditions.entries, v \in {FALSE, conditions.substitutes} :
          Goto(t, [Idle EXCEPT !.pc = IF stable THEN "find" ELSE "counts",
                               !.archive = a, !.entry = e, !.viewed = v])
    BY <1>2 DEF LookupBegin
  <2>2. PICK q : q = IF stable THEN "find" ELSE "counts"
    OBVIOUS
  <2>3. PICK c : c = [Idle EXCEPT !.pc = q, !.archive = a, !.entry = e, !.viewed = v]
    OBVIOUS
  <2>4. (q = "find" => stable) /\ q # "using"
    BY <2>2
  <2>5. Good(c)
    BY <2>3, <2>4, Begun
  <2> QED
    BY <2>1, <2>2, <2>3, <2>5
<1>3. CASE RecordBegin(t)
  <2>1. PICK a \in Archives, e \in conditions.entries :
          Goto(t, [Idle EXCEPT !.pc = "contains", !.archive = a, !.entry = e])
    BY <1>3 DEF RecordBegin
  <2>2. PICK c : c = [Idle EXCEPT !.pc = "contains", !.archive = a, !.entry = e]
    OBVIOUS
  <2>3. UserShape(c) /\ c.pc = "contains" /\ c.archive = a /\ c.base = 0
    BY <2>2 DEF Idle, UserShape
  <2>4. Good(c)
    BY <2>3 DEF Good, Sound
  <2> QED
    BY <2>1, <2>2, <2>4
<1>4. ASSUME NEW q \in {"flushed", "pendingCount", "pending", "push"}, NEW o, NEW c,
             \/ c = [r EXCEPT !.pc = q]
             \/ c = [r EXCEPT !.pc = q, !.hasFlushed = o]
             \/ c = [r EXCEPT !.pc = q, !.hasPending = o],
             r.pc \notin {"idle", "using"}
      PROVE  Good(c)
  <2>1. UserShape(c) /\ c.pc = q /\ c.archive = r.archive /\ c.base = r.base
    BY <1>1, <1>4 DEF UserShape
  <2> QED
    BY <1>1, <1>4, <2>1 DEF Good, Sound
<1>5. ASSUME NEW b, NEW o, NEW c,
             \/ c = [r EXCEPT !.pc = "using", !.base = b, !.owner = b]
             \/ c = [r EXCEPT !.pc = "using"]
             \/ /\ c = [r EXCEPT !.pc = "using", !.base = b]
                /\ b = view[r.archive] /\ r.pc = "find",
             r.pc \notin {"idle", "using"}
      PROVE  Good(c)
  <2>1. CASE c = [r EXCEPT !.pc = "using", !.base = b, !.owner = b]
    <3>1. /\ UserShape(c) /\ c.pc = "using" /\ c.archive = r.archive /\ c.base = b
          /\ c.owner = b
      BY <1>1, <2>1 DEF UserShape
    <3> QED
      BY <1>1, <1>5, <3>1 DEF Good, Sound, Backed
  <2>2. CASE c = [r EXCEPT !.pc = "using"]
    <3>1. UserShape(c) /\ c.pc = "using" /\ c.archive = r.archive /\ c.base = r.base
      BY <1>1, <2>2 DEF UserShape
    <3> QED
      BY <1>1, <1>5, <3>1 DEF Good, Sound, Backed
  <2>3. CASE /\ c = [r EXCEPT !.pc = "using", !.base = b]
             /\ b = view[r.archive] /\ r.pc = "find"
    <3>1. UserShape(c) /\ c.pc = "using" /\ c.archive = r.archive /\ c.base = b
      BY <1>1, <2>3 DEF UserShape
    <3> QED
      BY <1>1, <1>5, <2>3, <3>1 DEF Good, Sound, Backed
  <2> QED
    BY <1>5, <2>1, <2>2, <2>3
<1>6. CASE ReadCounts(t)
  <2>1. PICK o : o = (entryCount[r.archive] # 0)
    OBVIOUS
  <2>2. PICK c : /\ Goto(t, c)
                 /\ \/ c = Idle \/ c = [r EXCEPT !.pc = "flushed"]
                    \/ c = [r EXCEPT !.pc = "pendingCount", !.hasFlushed = o]
    BY <1>0, <1>6, <2>1 DEF ReadCounts
  <2>3. Good(c)
    BY <1>0, <1>4, <1>6, <2>2, IdleGood DEF ReadCounts
  <2> QED
    BY <2>2, <2>3
<1>7. CASE ReadPendingCount(t)
  <2>1. PICK o : o = (pendingCount[r.archive] # 0)
    OBVIOUS
  <2>2. PICK c : /\ Goto(t, c)
                 /\ \/ c = Idle \/ c = [r EXCEPT !.pc = "pending"]
                    \/ c = [r EXCEPT !.pc = "flushed", !.hasPending = o]
    BY <1>0, <1>7, <2>1 DEF ReadPendingCount
  <2>3. Good(c)
    BY <1>0, <1>4, <1>7, <2>2, IdleGood DEF ReadPendingCount
  <2> QED
    BY <2>2, <2>3
<1>8. CASE FindFlushed(t)
  <2>1. PICK b : b = view[r.archive]
    OBVIOUS
  <2>2. PICK c : /\ Goto(t, c)
                 /\ \/ c = Idle \/ c = [r EXCEPT !.pc = "pending"]
                    \/ c = [r EXCEPT !.pc = "using", !.base = b, !.owner = b]
    BY <1>0, <1>8, <2>1 DEF FindFlushed
  <2>3. Good(c)
    BY <1>0, <1>4, <1>5, <1>8, <2>2, IdleGood DEF FindFlushed
  <2> QED
    BY <2>2, <2>3
<1>9. CASE FindPending(t)
  <2>1. PICK c : Goto(t, c) /\ (c = Idle \/ c = [r EXCEPT !.pc = "using"])
    BY <1>0, <1>9 DEF FindPending
  <2>2. Good(c)
    BY <1>0, <1>5, <1>9, <2>1, IdleGood DEF FindPending
  <2> QED
    BY <2>1, <2>2
<1>10. CASE FindStable(t)
  <2>1. PICK b : b = view[r.archive]
    OBVIOUS
  <2>2. PICK c : /\ Goto(t, c)
                 /\ c = Idle \/ c = [r EXCEPT !.pc = "using", !.base = b]
    BY <1>0, <1>10, <2>1 DEF FindStable
  <2>3. Good(c)
    BY <1>0, <1>5, <1>10, <2>1, <2>2, IdleGood DEF FindStable
  <2> QED
    BY <2>2, <2>3
<1>11. CASE Contains(t)
  <2>1. PICK c : Goto(t, c) /\ (c = Idle \/ c = [r EXCEPT !.pc = "push"])
    BY <1>0, <1>11 DEF Contains
  <2>2. Good(c)
    BY <1>0, <1>4, <1>11, <2>1, IdleGood DEF Contains
  <2> QED
    BY <2>1, <2>2
<1>12. CASE Finish(t) \/ RecordPush(t)
  BY <1>12, IdleGood DEF Finish, RecordPush
<1> QED
  BY <1>2, <1>3, <1>6, <1>7, <1>8, <1>9, <1>10, <1>11, <1>12
  DEF Lookup, RecordDecompressed

(* Engine threads, substituted streams and walkers.                            *)
LEMMA UsersKeep ==
  ASSUME UserInv, UNCHANGED conditions,
         \/ \E t \in Readers : Lookup(t) \/ Finish(t) \/ Substitute(t) \/ RecordDecompressed(t)
         \/ StreamFreed \/ Walk
  PROVE  UserInv'
<1>1. ASSUME NEW t \in Readers, Lookup(t) \/ Finish(t) \/ RecordDecompressed(t)
      PROVE  UserInv'
  <2>1. PICK c : Goto(t, c) /\ Good(c)
    BY <1>1, Stepped DEF UserInv, Good
  <2>2. UNCHANGED <<view, stable, substitute>>
    BY <1>1 DEF Lookup, LookupBegin, ReadCounts, ReadPendingCount, FindFlushed, FindPending,
       FindStable, Finish, RecordDecompressed, RecordBegin, Contains, RecordPush,
       OnlyReaders, cacheVars, flagVars
  <2>3. PICK d : d = substitute
    OBVIOUS
  <2> QED
    BY <2>1, <2>2, <2>3, Moved DEF UserInv, Good
<1>2. ASSUME NEW t \in Readers, Substitute(t)
      PROVE  UserInv'
  <2>1. PICK r : r = reader[t]
    OBVIOUS
  <2>2. Sound(r, stable, view, conditions.textures) /\ r.pc = "using"
    BY <1>2, <2>1 DEF UserInv, Substitute
  <2>3. PICK d : d = [archive |-> r.archive, base |-> r.base, owner |-> r.owner]
    OBVIOUS
  <2>4. d.archive = r.archive /\ d.base = r.base /\ d.owner = r.owner
    BY <2>3
  <2>5. Rightful(d, stable, view, conditions.textures)
    BY <2>2, <2>4 DEF Rightful, Sound, Backed
  <2>6. Goto(t, Idle) /\ substitute' = d /\ UNCHANGED <<view, stable>>
    BY <1>2, <2>1, <2>3 DEF Substitute, OnlyReaders, cacheVars, flagVars
  <2> QED
    BY <2>5, <2>6, Moved, IdleGood DEF Good
<1>3. CASE StreamFreed
  <2>1. substitute' = NoStream /\ UNCHANGED <<view, stable, reader>>
    BY <1>3 DEF StreamFreed, OnlyReaders, cacheVars, flagVars
  <2> QED
    BY <2>1 DEF UserInv, Rightful
<1>4. CASE Walk
  <2>1. UNCHANGED <<view, stable, reader, substitute>>
    BY <1>4 DEF Walk, WalkBegin, WalkSnapshot, WalkEnd, OnlyWalk, cacheVars, flagVars
  <2> QED
    BY <2>1 DEF UserInv
<1> QED
  BY <1>1, <1>2, <1>3, <1>4

LEMMA UsersKeepFlow ==
  ASSUME FlowInv, UNCHANGED <<conditions, flush, stable, building>>
  PROVE  FlowInv'
  BY DEF FlowInv, StableIsQuiet

-----------------------------------------------------------------------------
(* The flushing thread.  A view changes only before the cache is stable, or in  *)
(* a session with the texture build.                                         *)
LEMMA ViewsKept ==
  ASSUME UserInv, conditions.textures \in BOOLEAN, UNCHANGED <<conditions, reader, substitute>>,
         stable => stable',
         stable /\ ~conditions.textures => view' = view
  PROVE  UserInv'
<1>1. ASSUME NEW u, Backed(u, stable, view, conditions.textures)
      PROVE  Backed(u, stable', view', conditions.textures)
  BY <1>1 DEF Backed
<1>2. ASSUME NEW t \in Readers
      PROVE  Sound(reader[t], stable', view', conditions.textures)
  BY <1>1 DEF UserInv, Sound
<1>3. Rightful(substitute, stable', view', conditions.textures)
  BY <1>1 DEF UserInv, Rightful
<1> QED
  BY <1>2, <1>3 DEF UserInv

FlowKept ==
  /\ FlowInv' /\ (stable => stable')
  /\ stable /\ ~conditions.textures => view' = view

LEMMA FileKept ==
  ASSUME FlowInv, UNCHANGED conditions,
         \/ \E a \in Archives : NothingPending(a) \/ TakePending(a)
         \/ WriteCacheFile
  PROVE  FlowKept
<1> USE DEF flagVars, cacheVars, NextFile, Failing
<1>1. ASSUME NEW a \in Archives, NothingPending(a)
      PROVE  FlowKept
  <2>1. /\ FlushShape(flush') /\ flush'.back = flush.back
        /\ flush.pc = "next" /\ flush'.pc = "next" /\ flush'.todo = flush.todo \ {a}
        /\ UNCHANGED <<stable, building, view>>
    BY <1>1 DEF FlowInv, FlushShape, NothingPending
  <2> QED
    BY <2>1 DEF FlowKept, FlowInv, StableIsQuiet, InFlush, Writing, Outside
<1>2. ASSUME NEW a \in Archives, TakePending(a)
      PROVE  FlowKept
  <2>1. /\ FlushShape(flush') /\ flush'.back = flush.back
        /\ flush.pc = "next" /\ flush'.pc = "check" /\ flush.todo # {}
        /\ UNCHANGED <<stable, building, view>>
    BY <1>2 DEF FlowInv, FlushShape, TakePending
  <2> QED
    BY <2>1 DEF FlowKept, FlowInv, StableIsQuiet, InFlush, Writing, Outside
<1>3. CASE WriteTmp
  <2>1. /\ FlushShape(flush') /\ flush'.back = flush.back
        /\ flush.pc = "check" /\ flush'.pc \in {"clear", "next"}
        /\ UNCHANGED <<stable, building, view>>
    BY <1>3 DEF FlowInv, FlushShape, WriteTmp
  <2> QED
    BY <2>1 DEF FlowKept, FlowInv, StableIsQuiet, InFlush, Writing, Outside
<1>4. CASE ClearCache
  <2>1. /\ FlushShape(flush') /\ flush'.back = flush.back
        /\ flush.pc = "clear" /\ flush'.pc = "replace"
        /\ UNCHANGED <<stable, building>>
    BY <1>4 DEF FlowInv, FlushShape, ClearCache
  <2> QED
    BY <2>1 DEF FlowKept, FlowInv, StableIsQuiet, InFlush, Writing, Outside
<1>5. CASE ReplaceFile
  <2>1. /\ FlushShape(flush') /\ flush'.back = flush.back
        /\ flush.pc = "replace" /\ flush'.pc \in {"load", "next"}
        /\ UNCHANGED <<stable, building, view>>
    BY <1>5 DEF FlowInv, FlushShape, ReplaceFile
  <2> QED
    BY <2>1 DEF FlowKept, FlowInv, StableIsQuiet, InFlush, Writing, Outside
<1>6. CASE LoadCacheFile
  <2>1. /\ FlushShape(flush') /\ flush'.back = flush.back
        /\ flush.pc = "load" /\ flush'.pc = "next"
        /\ UNCHANGED <<stable, building>>
    BY <1>6 DEF FlowInv, FlushShape, LoadCacheFile
  <2> QED
    BY <2>1 DEF FlowKept, FlowInv, StableIsQuiet, InFlush, Writing, Outside
<1> QED
  BY <1>1, <1>2, <1>3, <1>4, <1>5, <1>6 DEF WriteCacheFile

LEMMA FlushKept ==
  ASSUME FlowInv, UNCHANGED conditions,
         \/ StopCaching \/ EnforceSizeLimit \/ EvictDone \/ FlushEnds
         \/ \E f \in Files : Evict(f)
  PROVE  FlowKept
<1> USE DEF flagVars, cacheVars, diskVars, NextFile, Failing
<1>1. CASE StopCaching
  <2>1. /\ FlushShape(flush') /\ flush'.back = flush.back
        /\ flush.pc = "check" /\ flush'.pc = "next" /\ flush'.todo = {}
        /\ building' = FALSE /\ stable' = (stable \/ ready) /\ view' = view
    BY <1>1 DEF FlowInv, FlushShape, StopCaching
  <2> QED
    BY <2>1 DEF FlowKept, FlowInv, StableIsQuiet, InFlush, Writing, Outside
<1>2. CASE EnforceSizeLimit
  <2>1. /\ FlushShape(flush') /\ flush'.back = flush.back
        /\ flush.pc = "next" /\ flush'.pc \in {"evict", "end"}
        /\ UNCHANGED <<stable, building, view>>
    BY <1>2 DEF FlowInv, FlushShape, EnforceSizeLimit
  <2> QED
    BY <2>1 DEF FlowKept, FlowInv, StableIsQuiet, InFlush, Writing, Outside
<1>3. CASE EvictDone
  <2>1. /\ FlushShape(flush') /\ flush'.back = flush.back
        /\ flush.pc = "evict" /\ flush'.pc = "end"
        /\ UNCHANGED <<stable, building, view>>
    BY <1>3 DEF FlowInv, FlushShape, EvictDone
  <2> QED
    BY <2>1 DEF FlowKept, FlowInv, StableIsQuiet, InFlush, Writing, Outside
<1>4. CASE FlushEnds
  <2>1. /\ FlushShape(flush') /\ flush.pc = "end" /\ flush'.pc = flush.back
        /\ view' = view
        /\ \/ building' = FALSE /\ stable' = (stable \/ ready)
           \/ UNCHANGED <<stable, building>>
    BY <1>4 DEF FlowInv, FlushShape, FlushEnds
  <2>2. /\ flush'.pc \in {"menu", "sleep", "textures"}
        /\ flush'.pc = "textures" => conditions.textures
    BY <2>1 DEF FlowInv, InFlush
  <2>3. StableIsQuiet'
    BY <2>1, <2>2 DEF FlowInv, StableIsQuiet
  <2>4. stable => stable'
    BY <2>1
  <2>5. FlushShape(flush') /\ flush'.pc \notin InFlush \cup {"texture"}
    BY <2>1, <2>2 DEF InFlush, Writing
  <2> QED
    BY <2>1, <2>2, <2>3, <2>4, <2>5 DEF FlowKept, FlowInv, Outside
<1>5. ASSUME NEW f \in Files, Evict(f)
      PROVE  FlowKept
  <2>1. /\ FlushShape(flush') /\ flush'.back = flush.back
        /\ flush.pc = "evict" /\ flush'.pc = "evict"
        /\ UNCHANGED <<stable, building, view>>
    BY <1>5 DEF FlowInv, FlushShape, Evict
  <2> QED
    BY <2>1 DEF FlowKept, FlowInv, StableIsQuiet, InFlush, Writing, Outside
<1> QED
  BY <1>1, <1>2, <1>3, <1>4, <1>5

LEMMA BetweenFlushes ==
  ASSUME FlowInv, UNCHANGED conditions,
         \/ OnGameDataReady \/ StartBackgroundFlush \/ ChunksDone \/ TexturesDone \/ Wake
         \/ \E a \in Archives : BuildTextures(a)
         \/ \E e \in conditions.entries : BuildChunk(e)
  PROVE  FlowKept
<1> USE DEF flagVars, cacheVars
<1>1. CASE OnGameDataReady
  <2>1. /\ FlushShape(flush') /\ UNCHANGED <<stable, building, view>>
        /\ \/ building /\ flush'.pc = "next" /\ flush'.back = "menu"
           \/ ~building /\ flush'.pc = "menu"
    BY <1>1 DEF FlowInv, FlushShape, OnGameDataReady, Flushing
  <2> QED
    BY <2>1 DEF FlowKept, FlowInv, StableIsQuiet, InFlush, Writing, Outside
<1>2. CASE StartBackgroundFlush
  <2>1. /\ FlushShape(flush') /\ UNCHANGED <<stable, view>>
        /\ \/ conditions.textures /\ flush'.pc = "textures"
           \/ flush'.pc = "sleep" /\ UNCHANGED building
    BY <1>2 DEF FlowInv, FlushShape, StartBackgroundFlush
  <2> QED
    BY <2>1 DEF FlowKept, FlowInv, StableIsQuiet, InFlush, Writing, Outside
<1>3. CASE ChunksDone
  <2>1. /\ flush.pc = "texture"
        /\ FlushShape(flush') /\ UNCHANGED <<stable, building, view>>
        /\ \/ building /\ flush'.pc = "next" /\ flush'.back = "textures"
           \/ ~building /\ flush'.pc = "textures"
    BY <1>3 DEF FlowInv, FlushShape, ChunksDone, Flushing
  <2> QED
    BY <2>1 DEF FlowKept, FlowInv, StableIsQuiet, InFlush, Writing, Outside
<1>4. CASE TexturesDone
  <2>1. /\ FlushShape(flush') /\ UNCHANGED <<stable, building, view>>
        /\ \/ building /\ flush'.pc = "next" /\ flush'.back = "sleep"
           \/ ~building /\ flush'.pc = "sleep"
    BY <1>4 DEF FlowInv, FlushShape, TexturesDone, Flushing
  <2> QED
    BY <2>1 DEF FlowKept, FlowInv, StableIsQuiet, InFlush, Writing, Outside
<1>5. CASE Wake
  <2>1. /\ FlushShape(flush') /\ UNCHANGED <<stable, building, view>>
        /\ \/ building /\ flush'.pc = "next" /\ flush'.back = "sleep"
           \/ ~building /\ flush'.pc = "sleep"
    BY <1>5 DEF FlowInv, FlushShape, Wake, Flushing
  <2> QED
    BY <2>1 DEF FlowKept, FlowInv, StableIsQuiet, InFlush, Writing, Outside
<1>6. ASSUME NEW a \in Archives, BuildTextures(a)
      PROVE  FlowKept
  <2>1. /\ FlushShape(flush') /\ flush.pc = "textures" /\ flush'.pc = "texture"
        /\ UNCHANGED <<stable, building>>
    BY <1>6 DEF FlowInv, FlushShape, BuildTextures
  <2> QED
    BY <2>1 DEF FlowKept, FlowInv, StableIsQuiet, InFlush, Writing, Outside
<1>7. ASSUME NEW e \in conditions.entries, BuildChunk(e)
      PROVE  FlowKept
  <2>1. UNCHANGED <<flush, stable, building, view>>
    BY <1>7 DEF FlowInv, FlushShape, BuildChunk
  <2> QED
    BY <2>1 DEF FlowKept, FlowInv, StableIsQuiet, InFlush, Writing, Outside
<1> QED
  BY <1>1, <1>2, <1>3, <1>4, <1>5, <1>6, <1>7

-----------------------------------------------------------------------------
LEMMA StepInv ==
  FlowInv /\ UserInv /\ [Next]_<<conditions, vars>> => (FlowInv /\ UserInv)'
<1> SUFFICES ASSUME FlowInv, UserInv, [Next]_<<conditions, vars>>
             PROVE  (FlowInv /\ UserInv)'
  OBVIOUS
<1> USE DEF vars, cacheVars, flagVars, userVars
<1>1. CASE UNCHANGED <<conditions, vars>>
  BY <1>1, UsersKeepFlow DEF UserInv
<1>2. CASE Next
  <2>1. UNCHANGED conditions
    BY <1>2 DEF Next
  <2>2. CASE \/ \E t \in Readers : Lookup(t) \/ Finish(t) \/ Substitute(t)
                                 \/ RecordDecompressed(t)
             \/ StreamFreed \/ Walk
    <3>1. UNCHANGED <<flush, stable, building>>
      BY <2>2 DEF Lookup, LookupBegin, ReadCounts, ReadPendingCount, FindFlushed, FindPending,
         FindStable, Finish, Substitute, StreamFreed, RecordDecompressed, RecordBegin, Contains,
         RecordPush, OnlyReaders, Walk, WalkBegin, WalkSnapshot, WalkEnd, OnlyWalk
    <3> QED
      BY <2>1, <2>2, <3>1, UsersKeep, UsersKeepFlow
  <2>3. CASE BackgroundFlush
    <3>1. FlowKept
      BY <2>1, <2>3, FileKept, FlushKept, BetweenFlushes DEF BackgroundFlush, FlushToDisk
    <3>2. UNCHANGED <<reader, substitute>>
      BY <2>3 DEF BackgroundFlush, FlushToDisk, NothingPending, TakePending, StopCaching,
         WriteCacheFile, WriteTmp, ClearCache, ReplaceFile, LoadCacheFile, EnforceSizeLimit,
         Evict, EvictDone, FlushEnds, OnGameDataReady, StartBackgroundFlush, ChunksDone,
         TexturesDone, Wake, BuildTextures, BuildChunk, Quiet
    <3> QED
      BY <2>1, <3>1, <3>2, ViewsKept DEF FlowKept, FlowInv
  <2> QED
    BY <1>2, <2>2, <2>3 DEF Next, Step
<1> QED
  BY <1>1, <1>2

(* No view is unmapped under a reader or under a substituted stream, unless the   *)
(* texture build has met a cache that was stable before.                        *)
THEOREM ViewsOutliveUsers == Spec => []ServedAlive
<1>1. ASSUME FlowInv, UserInv
      PROVE  ServedAlive
  <2> SUFFICES ASSUME ~(conditions.textures /\ stable)
               PROVE  /\ \A t \in Readers :
                           reader[t].pc = "using" /\ reader[t].base # 0 =>
                             reader[t].base \in Held(reader[t].archive)
                      /\ substitute # NoStream /\ substitute.base # 0 =>
                           substitute.base \in Held(substitute.archive)
    BY DEF ServedAlive, Mapped
  <2>1. ASSUME NEW t \in Readers, reader[t].pc = "using", reader[t].base # 0
        PROVE  reader[t].base \in {reader[t].owner, view[reader[t].archive]}
    <3>1. Backed(reader[t], stable, view, conditions.textures)
      BY <1>1, <2>1 DEF UserInv, Sound
    <3> QED
      BY <2>1, <3>1 DEF Backed
  <2>2. substitute # NoStream /\ substitute.base # 0 =>
          substitute.base \in {substitute.owner, view[substitute.archive]}
    <3>1. substitute # NoStream => Backed(substitute, stable, view, conditions.textures)
      BY <1>1 DEF UserInv, Rightful
    <3> QED
      BY <3>1 DEF Backed
  <2> QED
    BY <2>1, <2>2 DEF Held
<1> QED
  BY <1>1, InitInv, StepInv, PTL DEF Spec

-----------------------------------------------------------------------------
(* Sums, counted unit by unit.                                                *)

LEMMA UnitsFinite ==
  ASSUME NEW S, IsFiniteSet(S), NEW size, \A x \in S : size[x] \in Nat
  PROVE  IsFiniteSet(Units(size, S)) /\ Cardinality(Units(size, S)) \in Nat
<1> DEFINE f == [x \in S |-> {x} \X (1 .. size[x])]
           T == {{x} \X (1 .. size[x]) : x \in S}
<1>1. f \in Surjection(S, T)
  BY DEF Surjection
<1>2. IsFiniteSet(T)
  BY <1>1, FS_Surjection
<1>3. ASSUME NEW X \in T PROVE IsFiniteSet(X)
  <2>1. PICK x \in S : X = {x} \X (1 .. size[x])
    OBVIOUS
  <2>2. 1 \in Int /\ size[x] \in Int
    OBVIOUS
  <2>3. IsFiniteSet(1 .. size[x])
    BY <2>2, FS_Interval
  <2>4. IsFiniteSet({x})
    BY FS_Singleton, Zenon
  <2> QED
    BY <2>1, <2>3, <2>4, FS_Product
<1>4. IsFiniteSet(Units(size, S))
  BY <1>2, <1>3, FS_UNION DEF Units
<1> QED
  BY <1>4, FS_CardinalityType

(* A sum is one of its terms and the others.                                   *)
LEMMA UnitsSplit ==
  ASSUME NEW S, IsFiniteSet(S), NEW size, \A x \in S : size[x] \in Nat, NEW y \in S
  PROVE  Cardinality(Units(size, S)) = size[y] + Cardinality(Units(size, S \ {y}))
<1> DEFINE A == {y} \X (1 .. size[y])
           B == Units(size, S \ {y})
<1>1. Units(size, S) = A \cup B
  BY DEF Units
<1>2. A \cap B = {}
  <2> SUFFICES ASSUME NEW c \in A, c \in B PROVE FALSE
    OBVIOUS
  <2>1. PICK x \in S \ {y} : c \in {x} \X (1 .. size[x])
    BY DEF Units
  <2>2. c[1] = y /\ c[1] = x
    BY <2>1
  <2> QED
    BY <2>1, <2>2
<1>3. IsFiniteSet(A) /\ Cardinality(A) = size[y]
  <2>1. 1 \in Int /\ size[y] \in Int /\ size[y] \in Nat
    OBVIOUS
  <2>2. IsFiniteSet(1 .. size[y]) /\ Cardinality(1 .. size[y]) = size[y]
    <3>1. PICK n \in Nat : n = size[y]
      BY <2>1
    <3>2. /\ IsFiniteSet(1 .. n)
          /\ Cardinality(1 .. n) = IF 1 > n THEN 0 ELSE n - 1 + 1
      <4>1. 1 \in Int /\ n \in Int
        OBVIOUS
      <4> QED
        BY <4>1, FS_Interval
    <3> QED
      BY <3>1, <3>2
  <2>3. IsFiniteSet({y}) /\ Cardinality({y}) = 1
    BY FS_Singleton, Zenon
  <2>4. IsFiniteSet(A) /\ Cardinality(A) = Cardinality({y}) * Cardinality(1 .. size[y])
    BY <2>2, <2>3, FS_Product
  <2> QED
    BY <2>1, <2>2, <2>3, <2>4
<1>4. IsFiniteSet(B) /\ Cardinality(B) \in Nat
  <2>1. IsFiniteSet(S \ {y}) /\ \A x \in S \ {y} : size[x] \in Nat
    BY FS_Subset
  <2> QED
    BY <2>1, UnitsFinite
<1>5. Cardinality(A \cap B) = 0
  BY <1>2, FS_EmptySet
<1>6. Cardinality(A \cup B) = Cardinality(A) + Cardinality(B) - Cardinality(A \cap B)
  BY <1>3, <1>4, FS_Union
<1> QED
  BY <1>1, <1>3, <1>4, <1>5, <1>6

(* Of terms that are the same but for one, the sums differ by it.              *)
LEMMA UnitsReplace ==
  ASSUME NEW S, IsFiniteSet(S), NEW size, \A x \in S : size[x] \in Nat,
         NEW next, \A x \in S : next[x] \in Nat, NEW y \in S,
         \A x \in S \ {y} : next[x] = size[x]
  PROVE  /\ Cardinality(Units(next, S)) = Cardinality(Units(size, S)) - size[y] + next[y]
         /\ Cardinality(Units(size, S)) >= size[y]
<1>1. Units(next, S \ {y}) = Units(size, S \ {y})
  BY DEF Units
<1>2. PICK rest : rest = Cardinality(Units(size, S \ {y}))
  OBVIOUS
<1>3. rest \in Nat
  <2>1. IsFiniteSet(S \ {y}) /\ \A x \in S \ {y} : size[x] \in Nat
    BY FS_Subset
  <2> QED
    BY <1>2, <2>1, UnitsFinite
<1>4. Cardinality(Units(size, S)) = size[y] + rest
  BY <1>2, UnitsSplit
<1>5. Cardinality(Units(next, S)) = next[y] + rest
  BY <1>1, <1>2, UnitsSplit
<1>6. size[y] \in Nat /\ next[y] \in Nat
  OBVIOUS
<1> QED
  BY <1>3, <1>4, <1>5, <1>6

LEMMA SizeNat ==
  ASSUME NEW copies \in Copies
  PROVE  Size(copies) \in Nat /\ Bytes(copies) \in Nat
<1>1. IsFiniteSet(Entries) /\ \A e \in Entries : copies[e] \in Nat
  BY FalloutAssumption DEF Copies
<1>2. Size(copies) \in Nat
  BY <1>1, UnitsFinite DEF Size
<1> QED
  BY <1>2 DEF Bytes

LEMMA SizeZero ==
  ASSUME NEW copies \in Copies, Size(copies) = 0, NEW e \in Entries
  PROVE  copies[e] = 0
<1>1. IsFiniteSet(Entries) /\ \A x \in Entries : copies[x] \in Nat
  BY FalloutAssumption DEF Copies
<1>2. Size(copies) = copies[e] + Cardinality(Units(copies, Entries \ {e}))
  BY <1>1, UnitsSplit DEF Size
<1>3. Cardinality(Units(copies, Entries \ {e})) \in Nat
  <2>1. IsFiniteSet(Entries \ {e}) /\ \A x \in Entries \ {e} : copies[x] \in Nat
    BY <1>1, FS_Subset
  <2> QED
    BY <2>1, UnitsFinite
<1> QED
  BY <1>1, <1>2, <1>3

LEMMA FilesFinite == IsFiniteSet(Files)
  BY FalloutAssumption, FS_Union DEF Files

LEMMA NothingIs == Nothing \in Copies /\ NoFile \in File /\ NoFile.bytes = 0
  BY DEF Nothing, Copies, NoFile, File

LEMMA DiskNat ==
  ASSUME disk \in [Files -> File]
  PROVE  DiskBytes \in Nat
<1> DEFINE size == [f \in Files |-> disk[f].bytes]
<1>1. \A f \in Files : size[f] \in Nat
  BY DEF File
<1> QED
  BY <1>1, FilesFinite, UnitsFinite DEF DiskBytes

(* Replacing a file changes what the files occupy by the difference.            *)
LEMMA DiskReplace ==
  ASSUME disk \in [Files -> File], NEW f \in Files, NEW g \in File,
         disk' = [disk EXCEPT ![f] = g]
  PROVE  /\ DiskBytes' = DiskBytes - disk[f].bytes + g.bytes
         /\ DiskBytes >= disk[f].bytes /\ disk[f].bytes \in Nat /\ g.bytes \in Nat
         /\ DiskBytes \in Nat /\ DiskBytes' \in Nat
<1>1. PICK size : size = [x \in Files |-> disk[x].bytes]
  OBVIOUS
<1>2. PICK next : next = [x \in Files |-> disk'[x].bytes]
  OBVIOUS
<1>3. /\ disk' \in [Files -> File] /\ disk'[f] = g
      /\ \A x \in Files \ {f} : disk'[x] = disk[x]
  OBVIOUS
<1>4. /\ \A x \in Files : size[x] \in Nat /\ next[x] \in Nat
      /\ size[f] = disk[f].bytes /\ next[f] = g.bytes
      /\ \A x \in Files \ {f} : next[x] = size[x]
  BY <1>1, <1>2, <1>3 DEF File
<1>5. DiskBytes = Cardinality(Units(size, Files))
  BY <1>1 DEF DiskBytes
<1>6. DiskBytes' = Cardinality(Units(next, Files))
  BY <1>2 DEF DiskBytes, Units, Files
<1>7. /\ Cardinality(Units(next, Files)) = Cardinality(Units(size, Files)) - size[f] + next[f]
      /\ Cardinality(Units(size, Files)) >= size[f]
  BY <1>4, FilesFinite, UnitsReplace
<1>8. Cardinality(Units(next, Files)) \in Nat /\ Cardinality(Units(size, Files)) \in Nat
  BY <1>4, FilesFinite, UnitsFinite
<1> QED
  BY <1>4, <1>5, <1>6, <1>7, <1>8

LEMMA DiskSame ==
  ASSUME disk' = disk
  PROVE  DiskBytes' = DiskBytes
  BY DEF DiskBytes

-----------------------------------------------------------------------------
(* The files, the index, the queue, and the thread that flushes.               *)

(* The running total never falls behind the files.                             *)
DiskInv ==
  /\ disk \in [Files -> File] /\ totalCacheBytes \in Nat
  /\ totalCacheBytes >= DiskBytes

(* What a reader reads without the lock is what the lock guards.                *)
IndexInv ==
  /\ view \in [Archives -> Nat] /\ index \in [Archives -> Copies]
  /\ entryCount = [a \in Archives |-> Size(index[a])]
QueueInv ==
  /\ pending \in [Archives -> SUBSET Entries]
  /\ pendingCount = [a \in Archives |-> Cardinality(pending[a])]

SessionInv ==
  /\ conditions \in Conditions
  /\ ready \in BOOLEAN /\ building \in BOOLEAN /\ stable \in BOOLEAN

UserKinds ==
  /\ reader \in [Readers -> Users]
  /\ \A t \in Readers : reader[t].pc # "idle" => reader[t].entry \in Entries
  /\ substitute \in [archive : Archives \cup {None}, base : Nat, owner : Nat]
  /\ walk \in [todo : SUBSET Archives, held : [Archives -> Nat]]

(* While a file is replaced its index is empty, and the temporary file is there *)
(* from when it is written until it is mapped.                                 *)
FlushKinds ==
  /\ flush.todo \subseteq Files
  /\ flush.pc \in Writing \cup {"next"} => flush.todo \subseteq Archives
  /\ flush.textures \subseteq Archives
  /\ IF flush.pc \in Writing \cup {"texture"}
     THEN flush.archive \in Archives ELSE flush.archive = None
  /\ flush.local \subseteq Entries /\ flush.tmp \in File /\ flush.known \in Int
  /\ flush.pc \notin {"clear", "replace", "load"} => flush.tmp = NoFile
  /\ flush.pc \in {"replace", "load"} => index[flush.archive] = Nothing

(* The flush knows of every unit on the disk until it has replaced a file, and  *)
(* the file it writes fits beside the others.                                  *)
CapInv ==
  conditions.limited /\ "load" \notin conditions.fails =>
    /\ flush.pc \in {"next", "check", "clear", "replace"} => flush.known >= DiskBytes
    /\ flush.pc \in {"clear", "replace"} =>
         flush.known - disk[flush.archive].bytes + flush.tmp.bytes <= Cap

(* The new file holds what was queued and, until the index is dropped, all that  *)
(* is in it.                                                                 *)
CarryInv ==
  conditions.fails = {} /\ ~conditions.textures
    /\ flush.pc \in {"clear", "replace", "load"} =>
      \A e \in Entries :
        \/ e \in flush.local
        \/ flush.pc = "clear" /\ index[flush.archive][e] > 0
        => flush.tmp.copies[e] > 0

(* What a lookup has concluded so far about where its entry was not all along.  *)
Concluded(r, seen) ==
  /\ r.pc = "pendingCount" /\ ~r.hasFlushed => "index" \notin seen
  /\ r.pc = "flushed" /\ ~r.hasPending /\ ~r.viewed => "pending" \notin seen
  /\ r.pc = "pending" => "index" \notin seen
LookInv ==
  \A t \in Readers : covered[t] \subseteq Places(t) /\ Concluded(reader[t], covered[t])

Kinds == DiskInv /\ IndexInv /\ QueueInv /\ SessionInv /\ UserKinds /\ FlushKinds

-----------------------------------------------------------------------------
(* A reader's record keeps its kind under the edits of the lookup.               *)
Stages == {"idle", "counts", "pendingCount", "flushed", "pending", "find",
           "using", "contains", "push"}

Counted(r, o) == [r EXCEPT !.pc = "pendingCount", !.hasFlushed = o]
Queued(r, o) == [r EXCEPT !.pc = "flushed", !.hasPending = o]
Looking(q, a, e, v) == [Idle EXCEPT !.pc = q, !.archive = a, !.entry = e, !.viewed = v]
Recording(a, e) == [Idle EXCEPT !.pc = "contains", !.archive = a, !.entry = e]

LEMMA MovedKind ==
  ASSUME NEW r \in Users, NEW q \in Stages, NEW c, c = [r EXCEPT !.pc = q]
  PROVE  c \in Users /\ c.pc = q /\ c.entry = r.entry /\ c.viewed = r.viewed
<1>1. c \in Users
  BY ZenonT(60) DEF Users, Stages
<1> QED
  BY <1>1 DEF Users

LEMMA CountedKind ==
  ASSUME NEW r \in Users, NEW o \in BOOLEAN, NEW c, c = Counted(r, o)
  PROVE  c \in Users /\ c.pc = "pendingCount" /\ c.entry = r.entry /\ c.hasFlushed = o
<1>1. c \in Users
  BY ZenonT(60) DEF Users, Counted
<1> QED
  BY <1>1 DEF Users, Counted

LEMMA QueuedKind ==
  ASSUME NEW r \in Users, NEW o \in BOOLEAN, NEW c, c = Queued(r, o)
  PROVE  c \in Users /\ c.pc = "flushed" /\ c.entry = r.entry /\ c.hasPending = o
<1>1. c \in Users
  BY ZenonT(60) DEF Users, Queued
<1> QED
  BY <1>1 DEF Users, Queued

LEMMA FoundKind ==
  ASSUME NEW r \in Users, NEW b \in Nat, NEW c,
         \/ c = [r EXCEPT !.pc = "using", !.base = b, !.owner = b]
         \/ c = [r EXCEPT !.pc = "using", !.base = b]
  PROVE  c \in Users /\ c.pc = "using" /\ c.entry = r.entry
<1>1. CASE c = [r EXCEPT !.pc = "using", !.base = b, !.owner = b]
  <2>1. c \in Users
    BY <1>1, ZenonT(60) DEF Users
  <2> QED
    BY <1>1, <2>1 DEF Users
<1>2. CASE c = [r EXCEPT !.pc = "using", !.base = b]
  <2>1. c \in Users
    BY <1>2, ZenonT(60) DEF Users
  <2> QED
    BY <1>2, <2>1 DEF Users
<1> QED
  BY <1>1, <1>2

LEMMA IdleKind == Idle \in Users /\ Idle.pc = "idle"
<1>1. PICK c : c = Idle
  OBVIOUS
<1>2. 0 \in Nat
  OBVIOUS
<1>3. c \in Users
  BY <1>1, <1>2, ZenonT(60) DEF Idle, Users
<1> QED
  BY <1>1, <1>3 DEF Idle

LEMMA BegunKind ==
  ASSUME NEW q \in Stages, NEW a \in Archives, NEW e \in Entries, NEW v \in BOOLEAN,
         NEW c, c = Looking(q, a, e, v)
  PROVE  c \in Users /\ c.pc = q /\ c.entry = e
<1>0. PICK i \in Users : i = Idle
  BY IdleKind
<1>1. c = [i EXCEPT !.pc = q, !.archive = a, !.entry = e, !.viewed = v]
  BY <1>0 DEF Looking
<1>2. c \in Users
  BY <1>1, ZenonT(60) DEF Users, Stages
<1> QED
  BY <1>1, <1>2 DEF Users

LEMMA RecordingKind ==
  ASSUME NEW a \in Archives, NEW e \in Entries, NEW c, c = Recording(a, e)
  PROVE  c \in Users /\ c.pc = "contains" /\ c.entry = e
<1>0. PICK i \in Users : i = Idle
  BY IdleKind
<1>1. c = [i EXCEPT !.pc = "contains", !.archive = a, !.entry = e]
  BY <1>0 DEF Recording
<1>2. c \in Users
  BY <1>1, ZenonT(60) DEF Users
<1> QED
  BY <1>1, <1>2 DEF Users

-----------------------------------------------------------------------------
(* Lookups and recorders.                                                     *)
LEMMA SessionIs ==
  ASSUME SessionInv
  PROVE  /\ conditions.entries \subseteq Entries /\ conditions.substitutes \in BOOLEAN
         /\ conditions.textures \in BOOLEAN /\ conditions.limited \in BOOLEAN
  BY FalloutAssumption DEF SessionInv

LEMMA CountsMean ==
  ASSUME IndexInv, QueueInv, NEW a \in Archives
  PROVE  /\ entryCount[a] = 0 => \A e \in Entries : index[a][e] = 0
         /\ pendingCount[a] = 0 => pending[a] = {}
<1>1. ASSUME entryCount[a] = 0, NEW e \in Entries PROVE index[a][e] = 0
  <2>1. index[a] \in Copies /\ Size(index[a]) = 0
    BY <1>1 DEF IndexInv
  <2> QED
    BY <2>1, SizeZero
<1>2. ASSUME pendingCount[a] = 0 PROVE pending[a] = {}
  <2>1. pending[a] \in SUBSET Entries /\ Cardinality(pending[a]) = 0
    BY <1>2 DEF QueueInv
  <2>2. IsFiniteSet(pending[a])
    BY <2>1, FalloutAssumption, FS_Subset
  <2> QED
    BY <2>1, <2>2, FS_EmptySet
<1> QED
  BY <1>1, <1>2

(* Where an entry is not, it has not been all along.                           *)
LEMMA Gone ==
  ASSUME NEW t \in Readers, NEW r, r = reader[t], covered[t] \subseteq Places(t)
  PROVE  /\ covered[t] \subseteq {"index", "pending"}
         /\ ~(index[r.archive][r.entry] > 0) => "index" \notin covered[t]
         /\ r.entry \notin pending[r.archive] => "pending" \notin covered[t]
         /\ stable => "pending" \notin covered[t]
  BY DEF Places

Before(t) == IF reader[t].pc = "idle" THEN {"index", "pending"} ELSE covered[t]

(* No lookup gives up an entry that was in one place throughout.                *)
Explained(t, c) ==
  reader[t].pc \in {"counts", "pendingCount", "flushed", "pending", "find"}
    /\ c.pc = "idle" /\ ~reader[t].viewed => covered[t] = {}

Advances(t, c) ==
  /\ c \in Users /\ (c.pc # "idle" => c.entry \in Entries)
  /\ Concluded(c, Before(t)) /\ Explained(t, c)

LEMMA Searched ==
  ASSUME Kinds, UserInv, LookInv, NEW t \in Readers,
         Lookup(t) \/ Finish(t) \/ Substitute(t) \/ RecordDecompressed(t)
  PROVE  \E c : Goto(t, c) /\ Advances(t, c)
<1>0. PICK r \in Users : r = reader[t]
  BY DEF Kinds, UserKinds
<1>1. /\ r.pc # "idle" => r.entry \in Entries /\ r.archive \in Archives
      /\ r.pc = "find" => stable
      /\ r.pc \in Stages
  BY <1>0 DEF Kinds, UserKinds, UserInv, Sound, Users, Stages
<1>2. /\ covered[t] \subseteq {"index", "pending"}
      /\ ~(index[r.archive][r.entry] > 0) => "index" \notin covered[t]
      /\ r.entry \notin pending[r.archive] => "pending" \notin covered[t]
      /\ stable => "pending" \notin covered[t]
  BY <1>0, Gone DEF LookInv
<1>3. Concluded(r, covered[t])
  BY <1>0 DEF LookInv
<1>4. r.pc # "idle" =>
        /\ index[r.archive][r.entry] \in Nat /\ view[r.archive] \in Nat
        /\ (entryCount[r.archive] # 0) \in BOOLEAN /\ (pendingCount[r.archive] # 0) \in BOOLEAN
        /\ entryCount[r.archive] = 0 => "index" \notin covered[t]
        /\ pendingCount[r.archive] = 0 => "pending" \notin covered[t]
  <2> SUFFICES ASSUME r.pc # "idle"
               PROVE  /\ index[r.archive][r.entry] \in Nat /\ view[r.archive] \in Nat
                      /\ entryCount[r.archive] = 0 => "index" \notin covered[t]
                      /\ pendingCount[r.archive] = 0 => "pending" \notin covered[t]
    OBVIOUS
  <2>1. r.archive \in Archives /\ r.entry \in Entries /\ IndexInv /\ QueueInv
    BY <1>1 DEF Kinds
  <2>2. index[r.archive][r.entry] \in Nat /\ view[r.archive] \in Nat
    BY <2>1 DEF IndexInv, Copies
  <2>3. /\ entryCount[r.archive] = 0 => index[r.archive][r.entry] = 0
        /\ pendingCount[r.archive] = 0 => pending[r.archive] = {}
    BY <2>1, CountsMean
  <2> QED
    BY <1>2, <2>2, <2>3
<1>5. ASSUME r.pc # "idle" PROVE Before(t) = covered[t]
  BY <1>0, <1>5 DEF Before
<1>6. ASSUME r.pc \notin {"counts", "pendingCount", "flushed", "pending", "find"}
      PROVE  Advances(t, Idle)
  <2>1. Explained(t, Idle)
    BY <1>0, <1>6 DEF Explained
  <2> QED
    BY <2>1, IdleKind DEF Advances, Concluded
<1>7. ASSUME ~r.viewed => covered[t] = {}
      PROVE  Advances(t, Idle)
  <2>1. Explained(t, Idle)
    BY <1>0, <1>7 DEF Explained
  <2> QED
    BY <2>1, IdleKind DEF Advances, Concluded
<1>8. CASE LookupBegin(t)
  <2>1. PICK a \in Archives, e \in conditions.entries, v \in {FALSE, conditions.substitutes} :
          Goto(t, [Idle EXCEPT !.pc = IF stable THEN "find" ELSE "counts",
                               !.archive = a, !.entry = e, !.viewed = v])
    BY <1>8 DEF LookupBegin
  <2>2. PICK q : q = IF stable THEN "find" ELSE "counts"
    OBVIOUS
  <2>3. PICK c : c = Looking(q, a, e, v)
    OBVIOUS
  <2>4. q \in Stages /\ q \in {"find", "counts"} /\ e \in Entries /\ v \in BOOLEAN
    BY <2>2, SessionIs DEF Kinds, Stages
  <2>5. c \in Users /\ c.pc = q /\ c.entry = e
    BY <2>3, <2>4, BegunKind
  <2>6. Advances(t, c)
    BY <2>4, <2>5 DEF Advances, Concluded, Explained
  <2> QED
    BY <2>1, <2>2, <2>3, <2>6 DEF Looking
<1>9. CASE RecordBegin(t)
  <2>1. PICK a \in Archives, e \in conditions.entries :
          Goto(t, [Idle EXCEPT !.pc = "contains", !.archive = a, !.entry = e])
    BY <1>9 DEF RecordBegin
  <2>2. PICK c : c = Recording(a, e)
    OBVIOUS
  <2>3. e \in Entries
    BY SessionIs DEF Kinds
  <2>4. c \in Users /\ c.pc = "contains" /\ c.entry = e
    BY <2>2, <2>3, RecordingKind
  <2>5. Advances(t, c)
    BY <2>3, <2>4 DEF Advances, Concluded, Explained
  <2> QED
    BY <2>1, <2>2, <2>5 DEF Recording
<1>10. CASE ReadCounts(t)
  <2>1. r.pc = "counts"
    BY <1>0, <1>10 DEF ReadCounts
  <2>2. CASE r.viewed
    <3>1. PICK c : Goto(t, c) /\ (c = Idle \/ c = [r EXCEPT !.pc = "flushed"])
      BY <1>0, <1>10, <2>2 DEF ReadCounts
    <3>2. CASE c = [r EXCEPT !.pc = "flushed"]
      <4>1. "flushed" \in Stages
        BY DEF Stages
      <4>2. c \in Users /\ c.pc = "flushed" /\ c.entry = r.entry /\ c.viewed = r.viewed
        BY <3>2, <4>1, MovedKind
      <4>3. Advances(t, c)
        BY <1>1, <2>1, <2>2, <4>2 DEF Advances, Concluded, Explained
      <4> QED
        BY <3>1, <4>3
    <3> QED
      BY <1>7, <2>2, <3>1, <3>2
  <2>3. CASE ~r.viewed
    <3>1. PICK o \in BOOLEAN : o = (entryCount[r.archive] # 0)
      BY <1>4, <2>1
    <3>2. PICK c : c = Counted(r, o)
      OBVIOUS
    <3>3. Goto(t, c)
      BY <1>0, <1>10, <2>3, <3>1, <3>2 DEF ReadCounts, Counted
    <3>5. c \in Users /\ c.pc = "pendingCount" /\ c.entry = r.entry /\ c.hasFlushed = o
      BY <3>2, CountedKind
    <3>6. ~o => "index" \notin Before(t)
      BY <1>4, <1>5, <2>1, <3>1
    <3>7. Advances(t, c)
      BY <1>1, <2>1, <3>5, <3>6 DEF Advances, Concluded, Explained
    <3> QED
      BY <3>3, <3>7
  <2> QED
    BY <2>2, <2>3
<1>11. CASE ReadPendingCount(t)
  <2>1. r.pc = "pendingCount"
    BY <1>0, <1>11 DEF ReadPendingCount
  <2>2. PICK o \in BOOLEAN : o = (pendingCount[r.archive] # 0)
    BY <1>4, <2>1
  <2>3. ~r.hasFlushed => "index" \notin covered[t]
    BY <1>3, <2>1 DEF Concluded
  <2>4. ~o => "pending" \notin covered[t]
    BY <1>4, <2>1, <2>2
  <2>5. Goto(t, CASE r.hasFlushed -> [r EXCEPT !.pc = "flushed", !.hasPending = o]
                  [] ~r.hasFlushed /\ o -> [r EXCEPT !.pc = "pending"]
                  [] OTHER -> Idle)
    BY <1>0, <1>11, <2>2 DEF ReadPendingCount
  <2>6. CASE r.hasFlushed
    <3>1. PICK c : c = Queued(r, o)
      OBVIOUS
    <3>2. Goto(t, c)
      BY <2>5, <2>6, <3>1 DEF Queued
    <3>4. c \in Users /\ c.pc = "flushed" /\ c.entry = r.entry /\ c.hasPending = o
      BY <3>1, QueuedKind
    <3>5. Advances(t, c)
      BY <1>1, <1>5, <2>1, <2>4, <3>4 DEF Advances, Concluded, Explained
    <3> QED
      BY <3>2, <3>5
  <2>7. CASE ~r.hasFlushed /\ o
    <3>1. PICK c : c = [r EXCEPT !.pc = "pending"]
      OBVIOUS
    <3>2. Goto(t, c)
      BY <2>5, <2>7, <3>1
    <3>3. "pending" \in Stages
      BY DEF Stages
    <3>4. c \in Users /\ c.pc = "pending" /\ c.entry = r.entry
      BY <3>1, <3>3, MovedKind
    <3>5. Advances(t, c)
      BY <1>1, <1>5, <2>1, <2>3, <2>7, <3>4 DEF Advances, Concluded, Explained
    <3> QED
      BY <3>2, <3>5
  <2>8. CASE ~r.hasFlushed /\ ~o
    <3>1. Goto(t, Idle)
      BY <2>5, <2>8
    <3>2. covered[t] = {}
      BY <1>2, <2>3, <2>4, <2>8
    <3> QED
      BY <1>7, <3>1, <3>2
  <2> QED
    BY <2>6, <2>7, <2>8
<1>12. CASE FindFlushed(t)
  <2>1. r.pc = "flushed"
    BY <1>0, <1>12 DEF FindFlushed
  <2>2. PICK b \in Nat : b = view[r.archive]
    BY <1>4, <2>1
  <2>3. index[r.archive][r.entry] \in Nat
    BY <1>4, <2>1
  <2>4. Goto(t, CASE index[r.archive][r.entry] > 0 ->
                       [r EXCEPT !.pc = "using", !.base = b, !.owner = b]
                  [] index[r.archive][r.entry] = 0 /\ r.hasPending ->
                       [r EXCEPT !.pc = "pending"]
                  [] OTHER -> Idle)
    BY <1>0, <1>12, <2>2 DEF FindFlushed
  <2>5. CASE index[r.archive][r.entry] > 0
    <3>1. PICK c : c = [r EXCEPT !.pc = "using", !.base = b, !.owner = b]
      OBVIOUS
    <3>2. Goto(t, c)
      BY <2>3, <2>4, <2>5, <3>1
    <3>3. c \in Users /\ c.pc = "using" /\ c.entry = r.entry
      BY <3>1, FoundKind
    <3>4. Advances(t, c)
      BY <1>1, <2>1, <3>3 DEF Advances, Concluded, Explained
    <3> QED
      BY <3>2, <3>4
  <2>6. CASE index[r.archive][r.entry] = 0 /\ r.hasPending
    <3>1. PICK c : c = [r EXCEPT !.pc = "pending"]
      OBVIOUS
    <3>2. Goto(t, c)
      BY <2>4, <2>6, <3>1
    <3>3. "pending" \in Stages
      BY DEF Stages
    <3>4. c \in Users /\ c.pc = "pending" /\ c.entry = r.entry
      BY <3>1, <3>3, MovedKind
    <3>5. "index" \notin Before(t)
      BY <1>2, <1>5, <2>1, <2>6
    <3>6. Advances(t, c)
      BY <1>1, <2>1, <3>4, <3>5 DEF Advances, Concluded, Explained
    <3> QED
      BY <3>2, <3>6
  <2>7. CASE index[r.archive][r.entry] = 0 /\ ~r.hasPending
    <3>1. Goto(t, Idle)
      BY <2>4, <2>7
    <3>2. ~r.viewed => covered[t] = {}
      BY <1>2, <1>3, <2>1, <2>7 DEF Concluded
    <3> QED
      BY <1>7, <3>1, <3>2
  <2> QED
    BY <2>3, <2>5, <2>6, <2>7
<1>13. CASE FindPending(t)
  <2>1. r.pc = "pending"
    BY <1>0, <1>13 DEF FindPending
  <2>2. CASE r.entry \in pending[r.archive]
    <3>1. PICK c : c = [r EXCEPT !.pc = "using"]
      OBVIOUS
    <3>2. Goto(t, c)
      BY <1>0, <1>13, <2>2, <3>1 DEF FindPending
    <3>3. "using" \in Stages
      BY DEF Stages
    <3>4. c \in Users /\ c.pc = "using" /\ c.entry = r.entry
      BY <3>1, <3>3, MovedKind
    <3>5. Advances(t, c)
      BY <1>1, <2>1, <3>4 DEF Advances, Concluded, Explained
    <3> QED
      BY <3>2, <3>5
  <2>3. CASE r.entry \notin pending[r.archive]
    <3>1. Goto(t, Idle)
      BY <1>0, <1>13, <2>3 DEF FindPending
    <3>2. covered[t] = {}
      BY <1>2, <1>3, <2>1, <2>3 DEF Concluded
    <3> QED
      BY <1>7, <3>1, <3>2
  <2> QED
    BY <2>2, <2>3
<1>14. CASE FindStable(t)
  <2>1. r.pc = "find"
    BY <1>0, <1>14 DEF FindStable
  <2>2. PICK b \in Nat : b = view[r.archive]
    BY <1>4, <2>1
  <2>3. index[r.archive][r.entry] \in Nat
    BY <1>4, <2>1
  <2>4. CASE index[r.archive][r.entry] # 0
    <3>1. PICK c : c = [r EXCEPT !.pc = "using", !.base = b]
      OBVIOUS
    <3>2. Goto(t, c)
      BY <1>0, <1>14, <2>2, <2>4, <3>1 DEF FindStable
    <3>3. c \in Users /\ c.pc = "using" /\ c.entry = r.entry
      BY <3>1, FoundKind
    <3>4. Advances(t, c)
      BY <1>1, <2>1, <3>3 DEF Advances, Concluded, Explained
    <3> QED
      BY <3>2, <3>4
  <2>5. CASE index[r.archive][r.entry] = 0
    <3>1. Goto(t, Idle)
      BY <1>0, <1>14, <2>5 DEF FindStable
    <3>2. covered[t] = {}
      BY <1>1, <1>2, <2>1, <2>5
    <3> QED
      BY <1>7, <3>1, <3>2
  <2> QED
    BY <2>4, <2>5
<1>15. CASE Contains(t)
  <2>1. r.pc = "contains"
    BY <1>0, <1>15 DEF Contains
  <2>2. PICK c : Goto(t, c) /\ (c = Idle \/ c = [r EXCEPT !.pc = "push"])
    BY <1>0, <1>15 DEF Contains
  <2>3. CASE c = [r EXCEPT !.pc = "push"]
    <3>1. "push" \in Stages
      BY DEF Stages
    <3>2. c \in Users /\ c.pc = "push" /\ c.entry = r.entry
      BY <2>3, <3>1, MovedKind
    <3>3. Advances(t, c)
      BY <1>1, <2>1, <3>2 DEF Advances, Concluded, Explained
    <3> QED
      BY <2>2, <3>3
  <2> QED
    BY <1>6, <2>1, <2>2, <2>3
<1>16. CASE Finish(t) \/ Substitute(t) \/ RecordPush(t)
  <2>1. r.pc \in {"using", "push"} /\ Goto(t, Idle)
    BY <1>0, <1>16 DEF Finish, Substitute, RecordPush
  <2> QED
    BY <1>6, <2>1
<1> QED
  BY <1>8, <1>9, <1>10, <1>11, <1>12, <1>13, <1>14, <1>15, <1>16
  DEF Lookup, RecordDecompressed

UserStep(t) == Lookup(t) \/ Finish(t) \/ Substitute(t) \/ RecordDecompressed(t)

(* Users change neither the files nor the index, and the queue only by a push.  *)
LEMMA UserFrame ==
  ASSUME (\E t \in Readers : UserStep(t)) \/ StreamFreed \/ Walk
  PROVE  /\ UNCHANGED <<cacheVars, flagVars, diskVars, flush>>
         /\ UNCHANGED queueVars \/ \E t \in Readers : RecordPush(t)
  BY DEF UserStep, Lookup, LookupBegin, ReadCounts, ReadPendingCount, FindFlushed, FindPending,
     FindStable, Finish, Substitute, StreamFreed, RecordDecompressed, RecordBegin, Contains,
     RecordPush, OnlyReaders, Walk, WalkBegin, WalkSnapshot, WalkEnd, OnlyWalk

LEMMA Pushed ==
  ASSUME QueueInv, NEW a \in Archives, NEW e \in Entries, Push(a, e)
  PROVE  QueueInv' /\ \A b \in Archives : pending[b] \subseteq pending'[b]
<1>1. CASE e \in pending[a]
  BY <1>1 DEF Push, queueVars, QueueInv
<1>2. CASE e \notin pending[a]
  <2>1. /\ pending' = [pending EXCEPT ![a] = @ \cup {e}]
        /\ pendingCount' = [pendingCount EXCEPT ![a] = @ + 1]
    BY <1>2 DEF Push
  <2>2. Cardinality(pending[a] \cup {e}) = Cardinality(pending[a]) + 1
    <3>1. IsFiniteSet(pending[a])
      BY FalloutAssumption, FS_Subset DEF QueueInv
    <3> QED
      BY <1>2, <3>1, FS_AddElement
  <2>3. pending' \in [Archives -> SUBSET Entries]
    BY <2>1 DEF QueueInv
  <2>4. ASSUME NEW b \in Archives
        PROVE  /\ pendingCount'[b] = Cardinality(pending'[b])
               /\ pending[b] \subseteq pending'[b]
    BY <2>1, <2>2 DEF QueueInv
  <2>5. pendingCount' = [b \in Archives |-> pendingCount'[b]]
    BY <2>1 DEF QueueInv
  <2> QED
    BY <2>3, <2>4, <2>5 DEF QueueInv
<1> QED
  BY <1>1, <1>2

LEMMA PushedByReader ==
  ASSUME Kinds, UserInv, NEW t \in Readers, RecordPush(t)
  PROVE  QueueInv' /\ \A b \in Archives : pending[b] \subseteq pending'[b]
<1>1. PICK a, e : a = reader[t].archive /\ e = reader[t].entry
  OBVIOUS
<1>2. a \in Archives /\ e \in Entries
  BY <1>1 DEF RecordPush, Kinds, UserKinds, UserInv, Sound
<1>3. Push(a, e)
  BY <1>1 DEF RecordPush
<1> QED
  BY <1>2, <1>3, Pushed DEF Kinds

(* What lookups have concluded stays right when the next steps are observed.     *)
LEMMA Watched ==
  ASSUME Observe, \A t \in Readers : Concluded(reader'[t], Before(t))
  PROVE  LookInv'
<1>1. ASSUME NEW t \in Readers
      PROVE  covered'[t] \subseteq Places(t)' /\ covered'[t] \subseteq Before(t)
  BY DEF Observe, Before
<1>2. ASSUME NEW t \in Readers
      PROVE  Concluded(reader'[t], covered'[t])
  BY <1>1 DEF Concluded
<1> QED
  BY <1>1, <1>2 DEF LookInv

LEMMA Unmoved ==
  ASSUME LookInv, NEW t \in Readers
  PROVE  Concluded(reader[t], Before(t))
<1>1. CASE reader[t].pc = "idle"
  BY <1>1 DEF Concluded
<1>2. CASE reader[t].pc # "idle"
  BY <1>2 DEF Before, LookInv
<1> QED
  BY <1>1, <1>2

LEMMA UsersKeepKinds ==
  ASSUME Kinds, UserInv, LookInv, Observe, NEW t \in Readers, UserStep(t)
  PROVE  /\ UserKinds' /\ LookInv'
         /\ \E c : Goto(t, c) /\ Explained(t, c)
<1>1. PICK c : Goto(t, c) /\ Advances(t, c)
  BY Searched DEF UserStep
<1>2. reader \in [Readers -> Users]
  BY DEF Kinds, UserKinds
<1>3. /\ reader' \in [Readers -> Users] /\ reader'[t] = c
      /\ \A u \in Readers \ {t} : reader'[u] = reader[u]
  BY <1>1, <1>2 DEF Goto, Advances
<1>4. \A u \in Readers : reader'[u].pc # "idle" => reader'[u].entry \in Entries
  BY <1>1, <1>3 DEF Advances, Kinds, UserKinds
<1>5. LookInv'
  <2>1. ASSUME NEW u \in Readers PROVE Concluded(reader'[u], Before(u))
    BY <1>1, <1>3, Unmoved DEF Advances
  <2> QED
    BY <2>1, Watched
<1>6. walk' = walk
  BY DEF UserStep, Lookup, LookupBegin, ReadCounts, ReadPendingCount, FindFlushed, FindPending,
     FindStable, Finish, Substitute, RecordDecompressed, RecordBegin, Contains, RecordPush,
     OnlyReaders
<1>7. substitute' \in [archive : Archives \cup {None}, base : Nat, owner : Nat]
  <2>1. CASE Substitute(t)
    <3>1. PICK r \in Users : r = reader[t]
      BY <1>2
    <3>2. substitute' = [archive |-> r.archive, base |-> r.base, owner |-> r.owner]
      BY <2>1, <3>1 DEF Substitute
    <3>3. r.archive \in Archives \cup {None} /\ r.base \in Nat /\ r.owner \in Nat
      BY DEF Users
    <3> QED
      BY <3>2, <3>3
  <2>2. CASE ~Substitute(t)
    <3>1. substitute' = substitute
      BY <2>2 DEF UserStep, Lookup, LookupBegin, ReadCounts, ReadPendingCount, FindFlushed,
         FindPending, FindStable, Finish, RecordDecompressed, RecordBegin, Contains, RecordPush
    <3> QED
      BY <3>1 DEF Kinds, UserKinds
  <2> QED
    BY <2>1, <2>2
<1>8. UserKinds'
  BY <1>3, <1>4, <1>6, <1>7 DEF Kinds, UserKinds
<1> QED
  BY <1>1, <1>5, <1>8 DEF Advances

LEMMA StreamsAndWalks ==
  ASSUME Kinds, LookInv, Observe, StreamFreed \/ Walk
  PROVE  UserKinds' /\ LookInv' /\ reader' = reader
<1>1. reader' = reader
  BY DEF StreamFreed, Walk, WalkBegin, WalkSnapshot, WalkEnd, OnlyWalk
<1>2. LookInv'
  BY <1>1, Unmoved, Watched
<1>3. ASSUME StreamFreed PROVE UserKinds'
  <2>1. substitute' = NoStream /\ walk' = walk
    BY <1>3 DEF StreamFreed, OnlyReaders
  <2>2. NoStream \in [archive : Archives \cup {None}, base : Nat, owner : Nat]
    BY DEF NoStream
  <2> QED
    BY <1>1, <2>1, <2>2 DEF Kinds, UserKinds
<1>4. ASSUME Walk PROVE UserKinds'
  <2>1. walk \in [todo : SUBSET Archives, held : [Archives -> Nat]]
    BY DEF Kinds, UserKinds
  <2>2. substitute' = substitute
    BY <1>4 DEF Walk, WalkBegin, WalkSnapshot, WalkEnd, OnlyWalk
  <2>3. walk' \in [todo : SUBSET Archives, held : [Archives -> Nat]]
    <3>1. CASE WalkBegin
      BY <2>1, <3>1 DEF WalkBegin
    <3>2. CASE WalkEnd
      BY <3>2 DEF WalkEnd, NotWalking
    <3>3. ASSUME NEW a \in Archives, WalkSnapshot(a)
          PROVE  walk' \in [todo : SUBSET Archives, held : [Archives -> Nat]]
      <4>1. PICK v \in {0, view[a]} :
              walk' = [todo |-> walk.todo \ {a}, held |-> [walk.held EXCEPT ![a] = v]]
        BY <3>3 DEF WalkSnapshot
      <4>2. v \in Nat
        BY DEF Kinds, IndexInv
      <4>3. [walk.held EXCEPT ![a] = v] \in [Archives -> Nat] /\ walk.todo \ {a} \in SUBSET Archives
        BY <2>1, <4>2
      <4> QED
        BY <4>1, <4>3
    <3> QED
      BY <1>4, <3>1, <3>2, <3>3 DEF Walk
  <2> QED
    BY <1>1, <2>2, <2>3 DEF Kinds, UserKinds
<1> QED
  BY <1>1, <1>2, <1>3, <1>4

-----------------------------------------------------------------------------
(* The flushing thread: what is on the disk, in the index and in the queue.      *)

(* Nothing grows past the limit, nothing learned is forgotten.                  *)
CapHolds ==
  conditions.limited /\ "load" \notin conditions.fails =>
    DiskBytes' <= Cap \/ DiskBytes' <= DiskBytes
NoneForgotten ==
  conditions.fails = {} /\ ~conditions.textures /\ building' =>
    \A a \in Archives : Captured(a) \subseteq Captured(a)'

StoreInv == DiskInv /\ IndexInv /\ QueueInv /\ SessionInv /\ FlushKinds /\ CapInv /\ CarryInv
StoreKept == StoreInv' /\ CapHolds /\ NoneForgotten

LEMMA DiskHolds ==
  ASSUME disk \in [Files -> File], NEW f \in Files
  PROVE  DiskBytes \in Nat /\ DiskBytes >= disk[f].bytes /\ disk[f].bytes \in Nat
<1>1. PICK size : size = [x \in Files |-> disk[x].bytes]
  OBVIOUS
<1>2. /\ \A x \in Files : size[x] \in Nat
      /\ size[f] = disk[f].bytes
  BY <1>1 DEF File
<1>3. Cardinality(Units(size, Files)) >= size[f]
  BY <1>2, FilesFinite, UnitsReplace
<1>4. DiskBytes = Cardinality(Units(size, Files))
  BY <1>1 DEF DiskBytes
<1> QED
  BY <1>2, <1>3, <1>4, DiskNat

LEMMA ArchiveIs == Archives \subseteq Files /\ None \notin Archives
  BY FalloutAssumption DEF Files

LEMMA SameStore ==
  ASSUME DiskInv, SessionInv, UNCHANGED <<disk, totalCacheBytes, conditions, ready>>,
         building' \in BOOLEAN, stable' \in BOOLEAN
  PROVE  DiskInv' /\ SessionInv' /\ DiskBytes' = DiskBytes /\ CapHolds
<1>1. DiskBytes' = DiskBytes /\ DiskBytes \in Nat
  BY DiskSame, DiskNat DEF DiskInv
<1> QED
  BY <1>1 DEF DiskInv, SessionInv, CapHolds

(* A step before, between or after the files of a flush.                        *)
LEMMA Calm ==
  ASSUME FlowInv, StoreInv,
         UNCHANGED <<conditions, cacheVars, queueVars, diskVars, ready>>,
         building' \in BOOLEAN, stable' \in BOOLEAN,
         flush.pc \notin Writing, flush'.pc \notin Writing \cup {"texture"},
         flush'.todo \subseteq Files, flush'.known \in Int,
         flush'.pc = "next" => /\ flush'.todo \subseteq Archives
                               /\ \/ flush'.known = totalCacheBytes
                                  \/ flush.pc = "next" /\ flush'.known = flush.known,
         flush'.textures \subseteq Archives, flush'.archive = None,
         UNCHANGED <<flush.local, flush.tmp>>
  PROVE  StoreKept
<1>1. DiskInv' /\ SessionInv' /\ DiskBytes' = DiskBytes /\ CapHolds
  BY SameStore DEF StoreInv, diskVars
<1>2. IndexInv' /\ QueueInv'
  BY DEF StoreInv, IndexInv, QueueInv, cacheVars, queueVars
<1>3. FlushKinds'
  BY DEF StoreInv, FlushKinds, Writing
<1>4. CapInv'
  BY <1>1 DEF StoreInv, CapInv, DiskInv, Writing
<1>5. CarryInv'
  BY DEF CarryInv, Writing
<1>6. NoneForgotten
  <2> SUFFICES ASSUME ~conditions.textures, NEW a \in Archives, NEW e \in Captured(a)
               PROVE  e \in Captured(a)'
    BY DEF NoneForgotten
  <2>1. flush.pc # "texture"
    BY DEF FlowInv
  <2>2. flush.archive = None
    BY <2>1 DEF StoreInv, FlushKinds
  <2> QED
    BY <2>2, ArchiveIs DEF Captured, cacheVars, queueVars
<1> QED
  BY <1>1, <1>2, <1>3, <1>4, <1>5, <1>6 DEF StoreKept, StoreInv

LEMMA CalmSteps ==
  ASSUME FlowInv, StoreInv, UNCHANGED conditions,
         \/ OnGameDataReady \/ StartBackgroundFlush \/ ChunksDone \/ TexturesDone \/ Wake
         \/ EnforceSizeLimit \/ EvictDone \/ FlushEnds
         \/ \E a \in Archives : NothingPending(a)
  PROVE  StoreKept
<1>1. /\ building \in BOOLEAN /\ stable \in BOOLEAN /\ ready \in BOOLEAN
      /\ totalCacheBytes \in Nat /\ DiskBytes \in Nat
  BY DiskNat DEF StoreInv, SessionInv, DiskInv
<1>2. /\ flush.todo \subseteq Files /\ flush.known \in Int /\ flush.textures \subseteq Archives
      /\ flush.pc = "next" => flush.todo \subseteq Archives
      /\ flush.pc \notin Writing \cup {"texture"} => flush.archive = None
      /\ FlushShape(flush)
  BY DEF StoreInv, FlushKinds, FlowInv
<1>3. Textures \subseteq Archives /\ Archives \subseteq Files
  BY FalloutAssumption DEF Files
<1> USE DEF flagVars, Writing
<1>4. CASE OnGameDataReady
  <2>1. /\ UNCHANGED <<cacheVars, queueVars, diskVars, ready, building, stable>>
        /\ flush.pc = "loading" /\ flush'.pc \in {"next", "menu"}
        /\ \/ flush'.todo = Archives /\ flush'.known = totalCacheBytes
           \/ flush'.pc # "next" /\ flush'.todo = flush.todo /\ flush'.known = flush.known
        /\ UNCHANGED <<flush.textures, flush.archive, flush.local, flush.tmp>>
    BY <1>2, <1>4 DEF OnGameDataReady, Flushing, FlushShape
  <2>2. flush'.todo \subseteq Archives \/ flush'.todo = flush.todo
    BY <2>1
  <2> QED
    BY <1>1, <1>2, <1>3, <2>1, <2>2, Calm
<1>5. CASE StartBackgroundFlush
  <2>1. /\ UNCHANGED <<cacheVars, queueVars, diskVars, ready, stable>>
        /\ building' = building \/ building' = TRUE
        /\ flush.pc = "menu" /\ flush'.pc \in {"textures", "sleep"}
        /\ flush'.textures \in {Textures, flush.textures}
        /\ UNCHANGED <<flush.todo, flush.known, flush.archive, flush.local, flush.tmp>>
    BY <1>2, <1>5 DEF StartBackgroundFlush, FlushShape
  <2> QED
    BY <1>1, <1>2, <1>3, <2>1, Calm
<1>6. CASE ChunksDone
  <2>1. /\ UNCHANGED <<cacheVars, queueVars, diskVars, ready, building, stable>>
        /\ flush.pc = "texture" /\ flush'.pc \in {"next", "textures"}
        /\ \/ flush'.todo = Archives /\ flush'.known = totalCacheBytes
           \/ flush'.pc # "next" /\ flush'.todo = flush.todo /\ flush'.known = flush.known
        /\ flush'.archive = None
        /\ UNCHANGED <<flush.textures, flush.local, flush.tmp>>
    BY <1>2, <1>6 DEF ChunksDone, Flushing, FlushShape
  <2> QED
    BY <1>1, <1>2, <1>3, <2>1, Calm
<1>7. CASE TexturesDone
  <2>1. /\ UNCHANGED <<cacheVars, queueVars, diskVars, ready, building, stable>>
        /\ flush.pc = "textures" /\ flush'.pc \in {"next", "sleep"}
        /\ \/ flush'.todo = Archives /\ flush'.known = totalCacheBytes
           \/ flush'.pc # "next" /\ flush'.todo = flush.todo /\ flush'.known = flush.known
        /\ flush'.textures = {}
        /\ UNCHANGED <<flush.archive, flush.local, flush.tmp>>
    BY <1>2, <1>7 DEF TexturesDone, Flushing, FlushShape
  <2> QED
    BY <1>1, <1>2, <1>3, <2>1, Calm
<1>8. CASE Wake
  <2>1. /\ UNCHANGED <<cacheVars, queueVars, diskVars, ready, building, stable>>
        /\ flush.pc = "sleep" /\ flush'.pc \in {"next", "sleep"}
        /\ \/ flush'.todo = Archives /\ flush'.known = totalCacheBytes
           \/ flush'.pc # "next" /\ flush'.todo = flush.todo /\ flush'.known = flush.known
        /\ UNCHANGED <<flush.textures, flush.archive, flush.local, flush.tmp>>
    BY <1>2, <1>8 DEF Wake, Flushing, FlushShape
  <2> QED
    BY <1>1, <1>2, <1>3, <2>1, Calm
<1>9. CASE EnforceSizeLimit
  <2>1. /\ UNCHANGED <<cacheVars, queueVars, diskVars, ready, building, stable>>
        /\ flush.pc = "next" /\ flush'.pc \in {"evict", "end"}
        /\ flush'.todo \subseteq Files
        /\ flush'.known \in {DiskBytes, flush.known}
        /\ UNCHANGED <<flush.textures, flush.archive, flush.local, flush.tmp>>
    BY <1>2, <1>9 DEF EnforceSizeLimit, FlushShape
  <2> QED
    BY <1>1, <1>2, <2>1, Calm
<1>10. CASE EvictDone
  <2>1. /\ UNCHANGED <<cacheVars, queueVars, diskVars, ready, building, stable>>
        /\ flush.pc = "evict" /\ flush'.pc = "end" /\ flush'.todo = {}
        /\ UNCHANGED <<flush.textures, flush.known, flush.archive, flush.local, flush.tmp>>
    BY <1>2, <1>10 DEF EvictDone, FlushShape
  <2> QED
    BY <1>1, <1>2, <2>1, Calm
<1>11. CASE FlushEnds
  <2>1. /\ UNCHANGED <<cacheVars, queueVars, diskVars, ready>>
        /\ building' \in {FALSE, building} /\ stable' \in {stable, stable \/ ready}
        /\ flush.pc = "end" /\ flush'.pc = flush.back /\ flush'.known = 0
        /\ UNCHANGED <<flush.textures, flush.todo, flush.archive, flush.local, flush.tmp>>
    BY <1>2, <1>11 DEF FlushEnds, FlushShape
  <2>2. flush.back \in {"menu", "sleep", "textures"}
    BY <2>1 DEF FlowInv, InFlush
  <2>3. building' \in BOOLEAN /\ stable' \in BOOLEAN
    BY <1>1, <2>1
  <2> QED
    BY <1>2, <2>1, <2>2, <2>3, Calm
<1>12. ASSUME NEW a \in Archives, NothingPending(a)
       PROVE  StoreKept
  <2>1. /\ UNCHANGED <<cacheVars, queueVars, diskVars, ready, building, stable>>
        /\ flush.pc = "next" /\ flush'.pc = "next" /\ flush'.todo = flush.todo \ {a}
        /\ UNCHANGED <<flush.textures, flush.known, flush.archive, flush.local, flush.tmp>>
    BY <1>2, <1>12 DEF NothingPending, FlushShape
  <2>2. flush'.todo \subseteq Archives /\ flush'.todo \subseteq Files
    BY <1>2, <2>1
  <2> QED
    BY <1>1, <1>2, <2>1, <2>2, Calm
<1> QED
  BY <1>4, <1>5, <1>6, <1>7, <1>8, <1>9, <1>10, <1>11, <1>12

LEMMA TakeKeeps ==
  ASSUME FlowInv, StoreInv, UNCHANGED conditions, NEW a \in Archives, TakePending(a)
  PROVE  StoreKept
<1>1. /\ UNCHANGED <<cacheVars, flagVars, diskVars>>
      /\ flush.pc = "next" /\ flush'.pc = "check" /\ flush'.todo = flush.todo \ {a}
      /\ flush'.archive = a /\ flush'.local = pending[a]
      /\ UNCHANGED <<flush.textures, flush.known, flush.tmp>>
      /\ pending' = [pending EXCEPT ![a] = {}]
      /\ pendingCount' = [pendingCount EXCEPT ![a] = 0]
  BY DEF TakePending, FlowInv, FlushShape
<1>2. DiskInv' /\ SessionInv' /\ DiskBytes' = DiskBytes /\ CapHolds
  BY <1>1, SameStore DEF StoreInv, diskVars, flagVars, SessionInv
<1>3. IndexInv'
  BY <1>1 DEF StoreInv, IndexInv, cacheVars
<1>4. QueueInv'
  <2>1. Cardinality({}) = 0
    BY FS_EmptySet
  <2>2. pending' \in [Archives -> SUBSET Entries]
    BY <1>1 DEF StoreInv, QueueInv
  <2>3. pendingCount' = [b \in Archives |-> pendingCount'[b]]
    BY <1>1 DEF StoreInv, QueueInv
  <2>4. ASSUME NEW b \in Archives PROVE pendingCount'[b] = Cardinality(pending'[b])
    BY <1>1, <2>1 DEF StoreInv, QueueInv
  <2> QED
    BY <2>2, <2>3, <2>4 DEF QueueInv
<1>5. FlushKinds'
  BY <1>1 DEF StoreInv, FlushKinds, QueueInv, Writing
<1>6. CapInv'
  BY <1>1, <1>2 DEF StoreInv, CapInv
<1>7. CarryInv'
  BY <1>1 DEF CarryInv
<1>8. NoneForgotten
  <2> SUFFICES ASSUME NEW b \in Archives, NEW e \in Captured(b)
               PROVE  e \in Captured(b)'
    BY DEF NoneForgotten
  <2>1. flush.archive = None /\ None # b
    BY <1>1, ArchiveIs DEF StoreInv, FlushKinds, Writing
  <2>2. \/ e \in Entries /\ index[b][e] > 0
        \/ e \in pending[b]
    BY <2>1 DEF Captured
  <2>3. index' = index
    BY <1>1 DEF cacheVars
  <2>4. CASE b = a
    BY <1>1, <2>2, <2>3, <2>4 DEF Captured
  <2>5. CASE b # a
    <3>1. pending'[b] = pending[b]
      BY <1>1, <2>5 DEF StoreInv, QueueInv
    <3> QED
      BY <2>2, <2>3, <3>1 DEF Captured
  <2> QED
    BY <2>4, <2>5
<1> QED
  BY <1>2, <1>3, <1>4, <1>5, <1>6, <1>7, <1>8 DEF StoreKept, StoreInv

LEMMA StopKeeps ==
  ASSUME FlowInv, StoreInv, UNCHANGED conditions, StopCaching
  PROVE  StoreKept
<1>1. /\ UNCHANGED <<cacheVars, ready, diskVars>>
      /\ building' = FALSE /\ stable' = (stable \/ ready)
      /\ flush.pc = "check" /\ flush'.pc = "next" /\ flush'.todo = {}
      /\ flush'.archive = None /\ flush'.local = {} /\ flush'.tmp = NoFile
      /\ UNCHANGED <<flush.textures, flush.known>>
      /\ pending' = [a \in Archives |-> {}] /\ pendingCount' = [a \in Archives |-> 0]
  BY DEF StopCaching, NextFile, FlowInv, FlushShape
<1>2. building' \in BOOLEAN /\ stable' \in BOOLEAN
  BY <1>1 DEF StoreInv, SessionInv
<1>3. DiskInv' /\ SessionInv' /\ DiskBytes' = DiskBytes /\ CapHolds
  BY <1>1, <1>2, SameStore DEF StoreInv, diskVars
<1>4. IndexInv'
  BY <1>1 DEF StoreInv, IndexInv, cacheVars
<1>5. QueueInv'
  <2>1. Cardinality({}) = 0
    BY FS_EmptySet
  <2> QED
    BY <1>1, <2>1 DEF QueueInv
<1>6. FlushKinds'
  BY <1>1, NothingIs DEF StoreInv, FlushKinds, Writing
<1>7. CapInv' /\ CarryInv'
  BY <1>1, <1>3 DEF StoreInv, CapInv, CarryInv
<1>8. NoneForgotten
  BY <1>1 DEF NoneForgotten
<1> QED
  BY <1>3, <1>4, <1>5, <1>6, <1>7, <1>8 DEF StoreKept, StoreInv

(* What a flush may leave in the temporary file when it loses some entries.      *)
Kept(lost) == [e \in Entries |-> IF e \in lost THEN 0 ELSE Merged(flush.archive)[e]]
TmpFile(lost) == [copies |-> Kept(lost), bytes |-> Bytes(Merged(flush.archive)), usable |-> TRUE]

LEMMA TmpKind ==
  ASSUME StoreInv, flush.archive \in Archives, NEW lost \in SUBSET Entries
  PROVE  /\ TmpFile(lost) \in File /\ Merged(flush.archive) \in Copies
         /\ Bytes(Merged(flush.archive)) \in Nat
<1>1. index[flush.archive] \in Copies
  BY DEF StoreInv, IndexInv
<1>2. \A e \in Entries : index[flush.archive][e] \in Nat
  BY <1>1 DEF Copies
<1>3. \A e \in Entries : (index[flush.archive][e] + IF e \in flush.local THEN 1 ELSE 0) \in Nat
  BY <1>2
<1>4. Merged(flush.archive) \in Copies
  BY <1>3 DEF Merged, Copies
<1>5. Bytes(Merged(flush.archive)) \in Nat
  BY <1>4, SizeNat
<1>6. Kept(lost) \in Copies
  BY <1>4 DEF Kept, Copies
<1> QED
  BY <1>4, <1>5, <1>6 DEF TmpFile, File

LEMMA WriteKeeps ==
  ASSUME FlowInv, StoreInv, UNCHANGED conditions, WriteTmp
  PROVE  StoreKept
<1>1. /\ UNCHANGED <<cacheVars, queueVars, flagVars, diskVars>>
      /\ flush.pc = "check" /\ FitsCap
  BY DEF WriteTmp
<1>2. /\ FlushShape(flush) /\ flush.todo \subseteq Archives /\ flush.archive \in Archives
      /\ flush.known \in Int
  BY <1>1 DEF StoreInv, FlushKinds, FlowInv, Writing
<1>3. \/ \E lost \in SUBSET Entries :
           /\ flush'.pc = "clear" /\ flush'.tmp = TmpFile(lost)
           /\ lost = {} \/ conditions.fails # {}
           /\ UNCHANGED <<flush.todo, flush.textures, flush.archive, flush.local, flush.known>>
      \/ /\ conditions.fails # {}
         /\ flush'.pc = "next" /\ flush'.tmp = NoFile
         /\ flush'.archive = None /\ flush'.local = {}
         /\ UNCHANGED <<flush.todo, flush.textures, flush.known>>
  BY <1>2 DEF WriteTmp, FlushShape, TmpFile, Kept, Failing, NextFile, Fails
<1>4. DiskInv' /\ SessionInv' /\ DiskBytes' = DiskBytes /\ CapHolds
  BY <1>1, SameStore DEF StoreInv, diskVars, flagVars, SessionInv
<1>5. IndexInv' /\ QueueInv'
  BY <1>1 DEF StoreInv, IndexInv, QueueInv, cacheVars, queueVars
<1>6. ASSUME NEW lost \in SUBSET Entries,
             flush'.pc = "clear", flush'.tmp = TmpFile(lost),
             lost = {} \/ conditions.fails # {},
             UNCHANGED <<flush.todo, flush.textures, flush.archive, flush.local, flush.known>>
      PROVE  StoreKept
  <2>1. /\ TmpFile(lost) \in File /\ Merged(flush.archive) \in Copies
        /\ Bytes(Merged(flush.archive)) \in Nat
    BY <1>2, TmpKind
  <2>2. FlushKinds'
    BY <1>1, <1>2, <1>6, <2>1 DEF StoreInv, FlushKinds, Writing
  <2>3. CapInv'
    <3> SUFFICES ASSUME conditions.limited, "load" \notin conditions.fails
                 PROVE  /\ flush.known >= DiskBytes
                        /\ flush.known - disk[flush.archive].bytes + flush'.tmp.bytes <= Cap
      BY <1>1, <1>4, <1>6 DEF CapInv, diskVars
    <3>1. flush.known >= DiskBytes
      BY <1>1 DEF StoreInv, CapInv
    <3>2. PICK old \in Nat : old = disk[flush.archive].bytes
      BY <1>2, ArchiveIs, DiskHolds DEF StoreInv, DiskInv
    <3>3. DiskBytes \in Nat /\ DiskBytes >= old
      BY <1>2, <3>2, ArchiveIs, DiskHolds DEF StoreInv, DiskInv
    <3>4. NewTotal(flush.archive) <= Cap
      BY <1>1 DEF FitsCap
    <3>5. NewTotal(flush.archive) =
            flush.known - (IF old < flush.known THEN old ELSE flush.known)
              + Bytes(Merged(flush.archive))
      BY <3>2 DEF NewTotal
    <3>6. flush'.tmp.bytes = Bytes(Merged(flush.archive))
      BY <1>6 DEF TmpFile
    <3>7. Cap \in Nat
      BY FalloutAssumption
    <3>8. (IF old < flush.known THEN old ELSE flush.known) = old
      BY <1>2, <3>1, <3>3
    <3> QED
      BY <3>1, <3>2, <3>4, <3>5, <3>6, <3>8
  <2>4. CarryInv'
    <3> SUFFICES ASSUME conditions.fails = {}, NEW e \in Entries,
                        e \in flush.local \/ index[flush.archive][e] > 0
                 PROVE  flush'.tmp.copies[e] > 0
      BY <1>1, <1>6 DEF CarryInv, cacheVars
    <3>1. lost = {}
      BY <1>6
    <3>2. flush'.tmp.copies[e] = Merged(flush.archive)[e]
      BY <1>6, <3>1 DEF TmpFile, Kept
    <3>3. index[flush.archive][e] \in Nat
      BY <1>2 DEF StoreInv, IndexInv, Copies
    <3> QED
      BY <3>2, <3>3 DEF Merged
  <2>5. NoneForgotten
    <3> SUFFICES ASSUME NEW b \in Archives, NEW e \in Captured(b)
                 PROVE  e \in Captured(b)'
      BY DEF NoneForgotten
    <3>1. flush.tmp = NoFile
      BY <1>1 DEF StoreInv, FlushKinds
    <3>2. e \notin {x \in Entries : flush.tmp.copies[x] > 0}
      BY <3>1 DEF NoFile, Nothing
    <3> QED
      BY <1>1, <1>6, <3>2 DEF Captured, cacheVars, queueVars
  <2> QED
    BY <1>4, <1>5, <2>2, <2>3, <2>4, <2>5 DEF StoreKept, StoreInv
<1>7. ASSUME conditions.fails # {}, flush'.pc = "next", flush'.tmp = NoFile,
             flush'.archive = None, flush'.local = {},
             UNCHANGED <<flush.todo, flush.textures, flush.known>>
      PROVE  StoreKept
  <2>1. FlushKinds'
    BY <1>2, <1>7, NothingIs DEF StoreInv, FlushKinds, Writing
  <2>2. CapInv' /\ CarryInv'
    BY <1>1, <1>4, <1>7 DEF StoreInv, CapInv, CarryInv
  <2>3. NoneForgotten
    BY <1>7 DEF NoneForgotten
  <2> QED
    BY <1>4, <1>5, <2>1, <2>2, <2>3 DEF StoreKept, StoreInv
<1> QED
  BY <1>3, <1>6, <1>7

LEMMA CachedKeeps ==
  ASSUME IndexInv, NEW a \in Archives, NEW v \in Nat, NEW c \in Copies, Cached(a, v, c)
  PROVE  /\ IndexInv' /\ index'[a] = c
         /\ \A b \in Archives \ {a} : index'[b] = index[b]
<1>1. /\ view' \in [Archives -> Nat] /\ index' \in [Archives -> Copies]
      /\ index'[a] = c /\ \A b \in Archives \ {a} : index'[b] = index[b]
  BY DEF Cached, IndexInv
<1>2. /\ entryCount' = [b \in Archives |-> entryCount'[b]]
      /\ \A b \in Archives : entryCount'[b] = Size(index'[b])
  BY <1>1 DEF Cached, IndexInv
<1>3. entryCount' = [b \in Archives |-> Size(index'[b])]
  BY <1>2
<1> QED
  BY <1>1, <1>3 DEF IndexInv

LEMMA ClearKeeps ==
  ASSUME FlowInv, StoreInv, UNCHANGED conditions, ClearCache
  PROVE  StoreKept
<1>1. /\ UNCHANGED <<queueVars, flagVars, diskVars>>
      /\ flush.pc = "clear" /\ flush'.pc = "replace" /\ Cached(flush.archive, 0, Nothing)
      /\ UNCHANGED <<flush.todo, flush.textures, flush.archive, flush.local, flush.known,
                     flush.tmp>>
  BY DEF ClearCache, FlowInv, FlushShape
<1>2. PICK a \in Archives : a = flush.archive
  BY <1>1 DEF StoreInv, FlushKinds, Writing
<1>3. DiskInv' /\ SessionInv' /\ DiskBytes' = DiskBytes /\ CapHolds
  BY <1>1, SameStore DEF StoreInv, diskVars, flagVars, SessionInv
<1>4. IndexInv' /\ index'[a] = Nothing /\ \A b \in Archives \ {a} : index'[b] = index[b]
  <2>1. Cached(a, 0, Nothing) /\ 0 \in Nat
    BY <1>1, <1>2
  <2> QED
    BY <2>1, NothingIs, CachedKeeps DEF StoreInv
<1>5. QueueInv'
  BY <1>1 DEF StoreInv, QueueInv, queueVars
<1>6. FlushKinds'
  BY <1>1, <1>2, <1>4 DEF StoreInv, FlushKinds, Writing
<1>7. CapInv'
  BY <1>1, <1>3 DEF StoreInv, CapInv, diskVars
<1>8. CarryInv'
  BY <1>1 DEF StoreInv, CarryInv
<1>9. NoneForgotten
  <2> SUFFICES ASSUME conditions.fails = {}, ~conditions.textures,
                      NEW b \in Archives, NEW e \in Captured(b)
               PROVE  e \in Captured(b)'
    BY DEF NoneForgotten
  <2>1. CASE b = a /\ e \in Entries /\ index[b][e] > 0
    <3>1. flush.tmp.copies[e] > 0
      BY <1>1, <1>2, <2>1 DEF StoreInv, CarryInv
    <3> QED
      BY <1>1, <1>2, <2>1, <3>1 DEF Captured
  <2>2. CASE b # a /\ e \in Entries /\ index[b][e] > 0
    BY <1>4, <2>2 DEF Captured
  <2>3. CASE ~(e \in Entries /\ index[b][e] > 0)
    BY <1>1, <2>3 DEF Captured, queueVars
  <2> QED
    BY <2>1, <2>2, <2>3
<1> QED
  BY <1>3, <1>4, <1>5, <1>6, <1>7, <1>8, <1>9 DEF StoreKept, StoreInv

LEMMA ReplaceKeeps ==
  ASSUME FlowInv, StoreInv, UNCHANGED conditions, ReplaceFile
  PROVE  StoreKept
<1>1. /\ UNCHANGED <<cacheVars, queueVars, flagVars, startupFiles>> /\ flush.pc = "replace"
      /\ UNCHANGED <<flush.todo, flush.textures, flush.known>>
  BY DEF ReplaceFile, FlowInv, FlushShape, Failing, NextFile
<1>2. PICK a \in Archives : a = flush.archive
  BY <1>1 DEF StoreInv, FlushKinds, Writing
<1>3. PICK g \in File : g = flush.tmp
  BY DEF StoreInv, FlushKinds
<1>4. /\ disk \in [Files -> File] /\ totalCacheBytes \in Nat /\ totalCacheBytes >= DiskBytes
      /\ flush.known \in Int /\ Cap \in Nat
  BY FalloutAssumption DEF StoreInv, DiskInv, FlushKinds
<1>5. IndexInv' /\ QueueInv' /\ SessionInv'
  BY <1>1 DEF StoreInv, IndexInv, QueueInv, SessionInv, cacheVars, queueVars, flagVars
<1>6. a \in Files /\ NoFile \in File /\ NoFile.bytes = 0
  BY ArchiveIs, NothingIs
<1>7. ASSUME disk' = [disk EXCEPT ![a] = g],
             totalCacheBytes' = totalCacheBytes - disk[a].bytes + g.bytes,
             flush'.pc = "load", UNCHANGED <<flush.archive, flush.local, flush.tmp>>
      PROVE  StoreKept
  <2>1. /\ DiskBytes' = DiskBytes - disk[a].bytes + g.bytes
        /\ DiskBytes >= disk[a].bytes /\ disk[a].bytes \in Nat /\ g.bytes \in Nat
        /\ DiskBytes \in Nat /\ DiskBytes' \in Nat
    BY <1>4, <1>6, <1>7, DiskReplace
  <2>2. DiskInv'
    <3>1. disk' \in [Files -> File]
      BY <1>4, <1>7
    <3>2. totalCacheBytes' \in Nat /\ totalCacheBytes' >= DiskBytes'
      BY <1>4, <1>7, <2>1
    <3> QED
      BY <3>1, <3>2 DEF DiskInv
  <2>3. FlushKinds'
    BY <1>1, <1>7 DEF StoreInv, FlushKinds, Writing, cacheVars
  <2>4. CapInv'
    BY <1>7 DEF CapInv
  <2>5. CapHolds
    <3> SUFFICES ASSUME conditions.limited, "load" \notin conditions.fails
                 PROVE  DiskBytes' <= Cap
      BY DEF CapHolds
    <3>1. flush.known >= DiskBytes /\ flush.known - disk[a].bytes + g.bytes <= Cap
      BY <1>1, <1>2, <1>3 DEF StoreInv, CapInv
    <3> QED
      BY <1>4, <2>1, <3>1
  <2>6. CarryInv'
    BY <1>1, <1>7 DEF StoreInv, CarryInv
  <2>7. NoneForgotten
    BY <1>1, <1>7 DEF NoneForgotten, Captured, cacheVars, queueVars
  <2> QED
    BY <1>5, <2>2, <2>3, <2>4, <2>5, <2>6, <2>7 DEF StoreKept, StoreInv
<1>8. ASSUME disk' = disk \/ disk' = [disk EXCEPT ![a] = NoFile],
             totalCacheBytes' = totalCacheBytes, conditions.fails # {},
             flush'.pc = "next", flush'.archive = None, flush'.local = {},
             flush'.tmp = NoFile
      PROVE  StoreKept
  <2>1. DiskBytes' \in Nat /\ DiskBytes \in Nat /\ DiskBytes' <= DiskBytes
    <3>1. CASE disk' = disk
      BY <1>4, <3>1, DiskSame, DiskNat
    <3>2. CASE disk' = [disk EXCEPT ![a] = NoFile]
      <4>1. /\ DiskBytes' = DiskBytes - disk[a].bytes + NoFile.bytes
            /\ disk[a].bytes \in Nat
            /\ DiskBytes \in Nat /\ DiskBytes' \in Nat
        BY <1>4, <1>6, <3>2, DiskReplace
      <4> QED
        BY <1>6, <4>1
    <3> QED
      BY <1>8, <3>1, <3>2
  <2>2. DiskInv'
    <3>1. disk' \in [Files -> File]
      BY <1>4, <1>6, <1>8
    <3>2. totalCacheBytes' >= DiskBytes'
      BY <1>4, <1>8, <2>1
    <3> QED
      BY <1>4, <1>8, <3>1, <3>2 DEF DiskInv
  <2>3. FlushKinds'
    BY <1>1, <1>8, NothingIs DEF StoreInv, FlushKinds, Writing
  <2>4. CapInv' /\ CapHolds
    BY <1>1, <1>4, <1>8, <2>1 DEF StoreInv, CapInv, CapHolds
  <2>5. CarryInv' /\ NoneForgotten
    BY <1>8 DEF CarryInv, NoneForgotten
  <2> QED
    BY <1>5, <2>2, <2>3, <2>4, <2>5 DEF StoreKept, StoreInv
<1>9. \/ /\ disk' = [disk EXCEPT ![a] = g]
         /\ totalCacheBytes' = totalCacheBytes - disk[a].bytes + g.bytes
         /\ flush'.pc = "load" /\ UNCHANGED <<flush.archive, flush.local, flush.tmp>>
      \/ /\ disk' = disk \/ disk' = [disk EXCEPT ![a] = NoFile]
         /\ totalCacheBytes' = totalCacheBytes /\ conditions.fails # {}
         /\ flush'.pc = "next" /\ flush'.archive = None /\ flush'.local = {}
         /\ flush'.tmp = NoFile
  BY <1>2, <1>3 DEF ReplaceFile, FlowInv, FlushShape, Failing, NextFile, Fails
<1> QED
  BY <1>7, <1>8, <1>9

LEMMA LoadKeeps ==
  ASSUME FlowInv, StoreInv, UNCHANGED conditions, LoadCacheFile
  PROVE  StoreKept
<1>1. /\ UNCHANGED <<queueVars, flagVars, disk, totalCacheBytes>> /\ flush.pc = "load"
      /\ flush'.pc = "next" /\ flush'.archive = None /\ flush'.local = {}
      /\ flush'.tmp = NoFile /\ UNCHANGED <<flush.todo, flush.textures>>
  BY DEF LoadCacheFile, FlowInv, FlushShape, Failing, NextFile
<1>2. PICK a \in Archives : a = flush.archive
  BY <1>1 DEF StoreInv, FlushKinds, Writing
<1>3. PICK g \in File : g = flush.tmp
  BY DEF StoreInv, FlushKinds
<1>4. index[a] = Nothing /\ totalCacheBytes \in Nat
  BY <1>1, <1>2 DEF StoreInv, FlushKinds, DiskInv
<1>5. DiskInv' /\ SessionInv' /\ DiskBytes' = DiskBytes /\ CapHolds
  BY <1>1, SameStore DEF StoreInv, flagVars, SessionInv
<1>6. QueueInv'
  BY <1>1 DEF StoreInv, QueueInv, queueVars
<1>7. \/ /\ \E v \in Nat : Cached(a, v, g.copies)
         /\ flush'.known = totalCacheBytes
      \/ /\ "load" \in conditions.fails /\ UNCHANGED <<cacheVars, flush.known>>
  <2>1. \/ /\ \E v \in Views : Cached(a, v, g.copies)
           /\ flush' = [NextFile EXCEPT !.known = totalCacheBytes]
        \/ /\ Fails("load") /\ flush' = Failing(NextFile) /\ UNCHANGED cacheVars
    BY <1>2, <1>3 DEF LoadCacheFile
  <2>2. Views \subseteq Nat
    BY FalloutAssumption, FS_CardinalityType DEF Views
  <2>3. flush' = [NextFile EXCEPT !.known = totalCacheBytes] => flush'.known = totalCacheBytes
    BY DEF FlowInv, FlushShape, NextFile
  <2>4. flush' = Failing(NextFile) => flush'.known = flush.known
    BY DEF FlowInv, FlushShape, NextFile, Failing
  <2> QED
    BY <2>1, <2>2, <2>3, <2>4 DEF Fails
<1>8. ASSUME NEW v \in Nat, Cached(a, v, g.copies), flush'.known = totalCacheBytes
      PROVE  StoreKept
  <2>1. g.copies \in Copies
    BY DEF File
  <2>2. /\ IndexInv' /\ index'[a] = g.copies
        /\ \A b \in Archives \ {a} : index'[b] = index[b]
    BY <1>8, <2>1, CachedKeeps DEF StoreInv
  <2>3. FlushKinds'
    BY <1>1, <1>4, <1>8, NothingIs DEF StoreInv, FlushKinds, Writing
  <2>4. CapInv'
    BY <1>1, <1>5, <1>8 DEF StoreInv, CapInv, DiskInv
  <2>5. CarryInv'
    BY <1>1 DEF CarryInv
  <2>6. NoneForgotten
    <3> SUFFICES ASSUME conditions.fails = {}, ~conditions.textures,
                        NEW b \in Archives, NEW e \in Captured(b)
                 PROVE  e \in Captured(b)'
      BY DEF NoneForgotten
    <3>1. CASE e \in pending[b]
      BY <1>1, <3>1 DEF Captured, queueVars
    <3>2. CASE e \notin pending[b] /\ b # a
      <4>1. e \in Entries /\ index[b][e] > 0
        BY <1>2, <3>2 DEF Captured
      <4> QED
        BY <2>2, <3>2, <4>1 DEF Captured
    <3>3. CASE e \notin pending[b] /\ b = a
      <4>1. ~(index[a][e] > 0) \/ e \notin Entries
        BY <1>4 DEF Nothing
      <4>2. e \in Entries
        BY <3>3 DEF Captured, StoreInv, FlushKinds
      <4>3. e \in flush.local \/ flush.tmp.copies[e] > 0
        BY <1>2, <3>3, <4>1, <4>2 DEF Captured
      <4>4. g.copies[e] > 0
        BY <1>1, <1>3, <4>2, <4>3 DEF StoreInv, CarryInv
      <4> QED
        BY <2>2, <3>3, <4>2, <4>4 DEF Captured
    <3> QED
      BY <3>1, <3>2, <3>3
  <2> QED
    BY <1>5, <1>6, <2>2, <2>3, <2>4, <2>5, <2>6 DEF StoreKept, StoreInv
<1>9. ASSUME "load" \in conditions.fails, UNCHANGED <<cacheVars, flush.known>>
      PROVE  StoreKept
  <2>1. IndexInv'
    BY <1>9 DEF StoreInv, IndexInv, cacheVars
  <2>2. FlushKinds'
    BY <1>1, <1>9, NothingIs DEF StoreInv, FlushKinds, Writing
  <2>3. CapInv' /\ CarryInv' /\ NoneForgotten
    BY <1>1, <1>9 DEF CapInv, CarryInv, NoneForgotten
  <2> QED
    BY <1>5, <1>6, <2>1, <2>2, <2>3 DEF StoreKept, StoreInv
<1> QED
  BY <1>7, <1>8, <1>9

LEMMA EvictKeeps ==
  ASSUME FlowInv, StoreInv, UNCHANGED conditions, NEW f \in Files, Evict(f)
  PROVE  StoreKept
<1>1. /\ UNCHANGED <<cacheVars, queueVars, flagVars, totalCacheBytes>> /\ flush.pc = "evict"
      /\ flush'.pc = "evict" /\ flush'.todo = flush.todo \ {f}
      /\ flush'.known = flush.known - disk[f].bytes
      /\ UNCHANGED <<flush.textures, flush.archive, flush.local, flush.tmp>>
      /\ disk' = disk \/ disk' = [disk EXCEPT ![f] = NoFile]
  BY DEF Evict, FlowInv, FlushShape, Failing
<1>2. /\ disk \in [Files -> File] /\ totalCacheBytes \in Nat /\ totalCacheBytes >= DiskBytes
      /\ flush.known \in Int
  BY DEF StoreInv, DiskInv, FlushKinds
<1>3. DiskBytes \in Nat /\ disk[f].bytes \in Nat
  BY <1>2, DiskHolds
<1>4. DiskBytes' \in Nat /\ DiskBytes' <= DiskBytes
  <2>1. CASE disk' = disk
    BY <1>3, <2>1, DiskSame
  <2>2. CASE disk' = [disk EXCEPT ![f] = NoFile]
    <3>1. /\ DiskBytes' = DiskBytes - disk[f].bytes + NoFile.bytes /\ DiskBytes' \in Nat
      BY <1>2, <2>2, NothingIs, DiskReplace
    <3> QED
      BY <1>3, <3>1, NothingIs
  <2> QED
    BY <1>1, <2>1, <2>2
<1>5. DiskInv'
  <2>1. disk' \in [Files -> File]
    BY <1>1, <1>2, NothingIs
  <2>2. totalCacheBytes' \in Nat /\ totalCacheBytes' >= DiskBytes'
    BY <1>1, <1>2, <1>3, <1>4
  <2> QED
    BY <2>1, <2>2 DEF DiskInv
<1>6. IndexInv' /\ QueueInv' /\ SessionInv'
  BY <1>1 DEF StoreInv, IndexInv, QueueInv, SessionInv, cacheVars, queueVars, flagVars
<1>7. FlushKinds'
  <2>1. flush'.known \in Int
    BY <1>1, <1>2, <1>3
  <2> QED
    BY <1>1, <2>1 DEF StoreInv, FlushKinds, Writing
<1>8. CapInv' /\ CapHolds /\ CarryInv'
  BY <1>1, <1>4 DEF CapInv, CapHolds, CarryInv
<1>9. NoneForgotten
  BY <1>1 DEF NoneForgotten, Captured, cacheVars, queueVars
<1> QED
  BY <1>5, <1>6, <1>7, <1>8, <1>9 DEF StoreKept, StoreInv

(* The texture build.                                                         *)
LEMMA TexturesKeep ==
  ASSUME FlowInv, StoreInv, UNCHANGED conditions, NEW a \in Archives, BuildTextures(a)
  PROVE  StoreKept
<1>1. /\ UNCHANGED <<queueVars, flagVars, diskVars>>
      /\ flush.pc = "textures" /\ flush'.pc = "texture" /\ flush'.archive = a
      /\ flush'.textures = flush.textures \ {a}
      /\ UNCHANGED <<flush.todo, flush.known, flush.local, flush.tmp>>
      /\ Cached(a, 0, Nothing) \/ UNCHANGED cacheVars
  BY DEF BuildTextures, FlowInv, FlushShape
<1>2. conditions.textures
  BY <1>1 DEF FlowInv
<1>3. DiskInv' /\ SessionInv' /\ DiskBytes' = DiskBytes /\ CapHolds
  BY <1>1, SameStore DEF StoreInv, diskVars, flagVars, SessionInv
<1>4. IndexInv'
  <2>1. CASE Cached(a, 0, Nothing)
    <3>1. 0 \in Nat
      OBVIOUS
    <3> QED
      BY <2>1, <3>1, NothingIs, CachedKeeps DEF StoreInv
  <2>2. CASE UNCHANGED cacheVars
    BY <2>2 DEF StoreInv, IndexInv, cacheVars
  <2> QED
    BY <1>1, <2>1, <2>2
<1>5. QueueInv'
  BY <1>1 DEF StoreInv, QueueInv, queueVars
<1>6. FlushKinds'
  BY <1>1 DEF StoreInv, FlushKinds, Writing
<1>7. CapInv' /\ CarryInv' /\ NoneForgotten
  BY <1>1, <1>2 DEF CapInv, CarryInv, NoneForgotten
<1> QED
  BY <1>3, <1>4, <1>5, <1>6, <1>7 DEF StoreKept, StoreInv

(* A step that pushes to the queue and leaves the rest.                         *)
LEMMA PushKeeps ==
  ASSUME StoreInv, UNCHANGED conditions,
         UNCHANGED <<cacheVars, flagVars, diskVars, flush>>,
         QueueInv', \A b \in Archives : pending[b] \subseteq pending'[b]
  PROVE  StoreKept
<1>1. DiskInv' /\ SessionInv' /\ DiskBytes' = DiskBytes /\ CapHolds
  BY SameStore DEF StoreInv, diskVars, flagVars, SessionInv
<1>2. IndexInv' /\ FlushKinds'
  BY DEF StoreInv, IndexInv, FlushKinds, cacheVars
<1>3. CapInv' /\ CarryInv'
  BY <1>1 DEF StoreInv, CapInv, CarryInv, cacheVars, diskVars
<1>4. NoneForgotten
  BY DEF NoneForgotten, Captured, cacheVars
<1> QED
  BY <1>1, <1>2, <1>3, <1>4 DEF StoreKept, StoreInv

LEMMA ChunkKeeps ==
  ASSUME FlowInv, StoreInv, UNCHANGED conditions, NEW e \in conditions.entries, BuildChunk(e)
  PROVE  StoreKept
<1>1. /\ Push(flush.archive, e) /\ flush.pc = "texture"
      /\ UNCHANGED <<cacheVars, flagVars, diskVars, flush>>
  BY DEF BuildChunk
<1>2. PICK a \in Archives : a = flush.archive
  BY <1>1 DEF StoreInv, FlushKinds
<1>3. e \in Entries
  BY SessionIs DEF StoreInv
<1>4. QueueInv' /\ \A b \in Archives : pending[b] \subseteq pending'[b]
  BY <1>1, <1>2, <1>3, Pushed DEF StoreInv
<1> QED
  BY <1>1, <1>4, PushKeeps

LEMMA BackgroundKeeps ==
  ASSUME FlowInv, StoreInv, UNCHANGED conditions, BackgroundFlush
  PROVE  StoreKept
  BY CalmSteps, TakeKeeps, StopKeeps, WriteKeeps, ClearKeeps, ReplaceKeeps, LoadKeeps,
     EvictKeeps, TexturesKeep, ChunkKeeps
  DEF BackgroundFlush, FlushToDisk, WriteCacheFile

-----------------------------------------------------------------------------
(* All of it, from the start and across every step.                            *)
AllInv == FlowInv /\ UserInv /\ StoreInv /\ UserKinds /\ LookInv

LEMMA InitFiles ==
  ASSUME Init
  PROVE  disk \in [Files -> File]
<1>1. conditions \in Conditions /\ conditions.entries \subseteq Entries
  BY FalloutAssumption DEF Init
<1>2. Outdated \in File
  <2>1. IsFiniteSet(conditions.entries)
    BY <1>1, FalloutAssumption, FS_Subset
  <2>2. Cardinality(conditions.entries) \in Nat
    BY <2>1, FS_CardinalityType
  <2>3. 1 + Cardinality(conditions.entries) \in Nat
    BY <2>2
  <2> QED
    BY <2>3, NothingIs DEF Outdated, File
<1>3. ASSUME NEW f \in Usable PROVE f \in File
  <2>1. PICK c \in {[e \in Entries |-> IF e \in kept THEN 1 ELSE 0] :
                      kept \in SUBSET conditions.entries} :
          f = [copies |-> c, bytes |-> Bytes(c), usable |-> TRUE]
    BY DEF Usable
  <2>2. c \in Copies
    BY DEF Copies
  <2>3. Bytes(c) \in Nat
    BY <2>2, SizeNat
  <2> QED
    BY <2>1, <2>2, <2>3 DEF File
<1>4. NoFile \in File
  BY NothingIs
<1>5. \A f \in Files : disk[f] \in File
  BY <1>2, <1>3, <1>4 DEF Init
<1> QED
  BY <1>5 DEF Init

LEMMA InitAll == Init => AllInv
<1> SUFFICES ASSUME Init PROVE AllInv
  OBVIOUS
<1>1. FlowInv /\ UserInv
  BY InitInv
<1>2. disk \in [Files -> File]
  BY InitFiles
<1>3. DiskInv
  <2>1. totalCacheBytes = DiskBytes
    BY DEF Init
  <2> QED
    BY <1>2, <2>1, DiskNat DEF DiskInv
<1>4. IndexInv
  <2>1. view \in [Archives -> Nat]
    BY DEF Init
  <2>2. \A a \in Archives : disk[a].copies \in Copies
    BY <1>2, ArchiveIs DEF File
  <2>3. index \in [Archives -> Copies]
    BY <2>2, NothingIs DEF Init
  <2> QED
    BY <2>1, <2>3 DEF Init, IndexInv
<1>5. QueueInv
  <2>1. Cardinality({}) = 0
    BY FS_EmptySet
  <2> QED
    BY <2>1 DEF Init, QueueInv
<1>6. SessionInv
  BY DEF Init, SessionInv
<1>7. FlushKinds
  <2>1. /\ flush.pc = "loading" /\ flush.todo = {} /\ flush.textures = {}
        /\ flush.archive = None /\ flush.local = {} /\ flush.tmp = NoFile /\ flush.known = 0
    BY DEF Init
  <2> QED
    BY <2>1, NothingIs DEF FlushKinds, Writing
<1>8. CapInv /\ CarryInv
  <2>1. flush.pc = "loading"
    BY DEF Init
  <2> QED
    BY <2>1 DEF CapInv, CarryInv
<1>9. UserKinds
  <2>1. reader = [t \in Readers |-> Idle] /\ Idle \in Users /\ Idle.pc = "idle"
    BY IdleKind DEF Init
  <2>2. /\ reader \in [Readers -> Users]
        /\ \A t \in Readers : reader[t].pc # "idle" => reader[t].entry \in Entries
    BY <2>1
  <2>3. substitute \in [archive : Archives \cup {None}, base : Nat, owner : Nat]
    BY DEF Init, NoStream
  <2>4. walk \in [todo : SUBSET Archives, held : [Archives -> Nat]]
    BY DEF Init, NotWalking
  <2> QED
    BY <2>2, <2>3, <2>4 DEF UserKinds
<1>10. LookInv
  <2>1. \A t \in Readers : covered[t] = {}
    BY DEF Init
  <2> QED
    BY <2>1 DEF LookInv, Concluded
<1> QED
  BY <1>1, <1>3, <1>4, <1>5, <1>6, <1>7, <1>8, <1>9, <1>10 DEF AllInv, StoreInv

LEMMA KindsOf == AllInv => Kinds /\ FlowInv /\ UserInv /\ LookInv /\ StoreInv
  BY DEF AllInv, StoreInv, Kinds

(* A lookup that has just given up was right to.                               *)
MissOK ==
  \A t \in Readers :
    reader[t].pc \in {"counts", "pendingCount", "flushed", "pending", "find"}
      /\ reader'[t].pc = "idle" /\ ~reader[t].viewed => covered[t] = {}

LEMMA StepAll ==
  ASSUME AllInv, Next
  PROVE  AllInv' /\ CapHolds /\ NoneForgotten /\ MissOK
<1>1. Kinds /\ FlowInv /\ UserInv /\ LookInv /\ StoreInv
  BY KindsOf
<1>2. UNCHANGED conditions /\ Observe
  BY DEF Next
<1>3. FlowInv' /\ UserInv'
  BY <1>1, StepInv
<1>4. CASE (\E t \in Readers : UserStep(t)) \/ StreamFreed \/ Walk
  <2>1. /\ UNCHANGED <<cacheVars, flagVars, diskVars, flush>>
        /\ UNCHANGED queueVars \/ \E t \in Readers : RecordPush(t)
    BY <1>4, UserFrame
  <2>2. QueueInv' /\ \A b \in Archives : pending[b] \subseteq pending'[b]
    <3>1. CASE UNCHANGED queueVars
      BY <1>1, <3>1 DEF Kinds, QueueInv, queueVars
    <3>2. CASE \E t \in Readers : RecordPush(t)
      BY <1>1, <3>2, PushedByReader
    <3> QED
      BY <2>1, <3>1, <3>2
  <2>3. StoreKept
    BY <1>1, <1>2, <2>1, <2>2, PushKeeps
  <2>4. UserKinds' /\ LookInv' /\ MissOK
    <3>1. ASSUME NEW t \in Readers, UserStep(t)
          PROVE  UserKinds' /\ LookInv' /\ MissOK
      <4>1. UserKinds' /\ LookInv'
        BY <1>1, <1>2, <3>1, UsersKeepKinds
      <4>2. PICK c : Goto(t, c) /\ Explained(t, c)
        BY <1>1, <1>2, <3>1, UsersKeepKinds
      <4>3. reader'[t] = c /\ \A u \in Readers \ {t} : reader'[u] = reader[u]
        BY <1>1, <4>2 DEF Goto, Kinds, UserKinds
      <4>4. MissOK
        BY <4>2, <4>3 DEF MissOK, Explained
      <4> QED
        BY <4>1, <4>4
    <3>2. CASE StreamFreed \/ Walk
      <4>1. UserKinds' /\ LookInv' /\ reader' = reader
        BY <1>1, <1>2, <3>2, StreamsAndWalks
      <4> QED
        BY <4>1 DEF MissOK
    <3> QED
      BY <1>4, <3>1, <3>2
  <2> QED
    BY <1>3, <2>3, <2>4 DEF AllInv, StoreKept
<1>5. CASE BackgroundFlush
  <2>1. StoreKept
    BY <1>1, <1>2, <1>5, BackgroundKeeps
  <2>2. UNCHANGED <<reader, substitute, walk>>
    BY <1>5 DEF BackgroundFlush, FlushToDisk, NothingPending, TakePending, StopCaching,
       WriteCacheFile, WriteTmp, ClearCache, ReplaceFile, LoadCacheFile, EnforceSizeLimit,
       Evict, EvictDone, FlushEnds, OnGameDataReady, StartBackgroundFlush, ChunksDone,
       TexturesDone, Wake, BuildTextures, BuildChunk, Quiet, userVars
  <2>3. UserKinds'
    BY <1>1, <2>2 DEF Kinds, UserKinds
  <2>4. LookInv'
    BY <1>1, <1>2, <2>2, Unmoved, Watched
  <2>5. MissOK
    BY <2>2 DEF MissOK
  <2> QED
    BY <1>3, <2>1, <2>3, <2>4, <2>5 DEF AllInv, StoreKept
<1> QED
  BY <1>4, <1>5 DEF Next, Step, UserStep

LEMMA StutterAll ==
  ASSUME AllInv, UNCHANGED <<conditions, vars>>
  PROVE  AllInv'
<1> USE DEF vars, cacheVars, queueVars, flagVars, diskVars, userVars
<1>1. Kinds /\ FlowInv /\ UserInv /\ LookInv /\ StoreInv
  BY KindsOf
<1>2. FlowInv' /\ UserInv'
  BY <1>1, StepInv
<1>3. UserKinds'
  BY <1>1 DEF Kinds, UserKinds
<1>4. LookInv'
  BY <1>1 DEF LookInv, Concluded, Places
<1>5. StoreInv'
  <2>1. QueueInv' /\ \A b \in Archives : pending[b] \subseteq pending'[b]
    BY <1>1 DEF Kinds, QueueInv
  <2> QED
    BY <1>1, <2>1, PushKeeps DEF StoreKept
<1> QED
  BY <1>2, <1>3, <1>4, <1>5 DEF AllInv

LEMMA Always == Spec => []AllInv
<1>1. AllInv /\ [Next]_<<conditions, vars>> => AllInv'
  BY StepAll, StutterAll
<1> QED
  BY <1>1, InitAll, PTL DEF Spec

(* The counts that lookups read without a lock are those of the index and the    *)
(* queue, the running total never undercounts the files, a stable cache is not   *)
(* written, and every pointer in use comes with its reference or was found in a  *)
(* stable cache.                                                             *)
THEOREM CacheCorrect == Spec => []CacheInv
<1>1. ASSUME AllInv
      PROVE  CacheInv
  <2>1. Kinds /\ FlowInv /\ UserInv
    BY <1>1, KindsOf
  <2>2. StableIsQuiet /\ ReferenceInv
    BY <2>1 DEF FlowInv, UserInv, Sound, Rightful, Backed, ReferenceInv, Refers
  <2>3. TypeOK
    <3>1. \A a \in Archives : index[a] \in Copies
      BY <2>1 DEF Kinds, IndexInv
    <3>2. entryCount \in [Archives -> Nat]
      BY <2>1, <3>1, SizeNat DEF Kinds, IndexInv
    <3>3. \A a \in Archives : IsFiniteSet(pending[a])
      BY <2>1, FalloutAssumption, FS_Subset DEF Kinds, QueueInv
    <3>4. pendingCount \in [Archives -> Nat]
      BY <2>1, <3>3, FS_CardinalityType DEF Kinds, QueueInv
    <3> QED
      BY <2>1, <3>2, <3>4
      DEF Kinds, DiskInv, IndexInv, QueueInv, SessionInv, UserKinds, TypeOK
  <2>4. CountsExact
    BY <2>1 DEF Kinds, DiskInv, IndexInv, QueueInv, CountsExact
  <2> QED
    BY <2>2, <2>3, <2>4 DEF CacheInv
<1> QED
  BY <1>1, Always, PTL

(* The files together never grow past the limit, whatever fails while they are   *)
(* rewritten, except where a file that was replaced cannot be loaded.            *)
THEOREM LimitKept == Spec => CapStep
<1>1. AllInv /\ [Next]_<<conditions, vars>> =>
        [conditions.limited /\ "load" \notin conditions.fails =>
           DiskBytes' <= Cap \/ DiskBytes' <= DiskBytes]_vars
  BY StepAll DEF CapHolds
<1> QED
  BY <1>1, Always, PTL DEF Spec, CapStep

(* No lookup misses an entry that stays in the index, or that stays in the queue, *)
(* while it looks.                                                           *)
THEOREM MissesExplained == Spec => MissExplained
<1>1. AllInv /\ [Next]_<<conditions, vars>> =>
        [\A t \in Readers :
           reader[t].pc \in {"counts", "pendingCount", "flushed", "pending", "find"}
             /\ reader'[t].pc = "idle" /\ ~reader[t].viewed => covered[t] = {}]_vars
  BY StepAll DEF MissOK
<1> QED
  BY <1>1, Always, PTL DEF Spec, MissExplained

(* While nothing fails and the limit is not reached, no entry that was learned    *)
(* is forgotten: from the queue through the temporary file back to the index.     *)
(* This is of sessions without the texture build.                               *)
THEOREM NothingLost == Spec => NothingForgotten
<1>1. AllInv /\ [Next]_<<conditions, vars>> =>
        [conditions.fails = {} /\ ~conditions.textures /\ building' =>
           \A a \in Archives : Captured(a) \subseteq Captured(a)']_vars
  BY StepAll DEF NoneForgotten
<1> QED
  BY <1>1, Always, PTL DEF Spec, NothingForgotten
=============================================================================
