------------------------------ MODULE FalloutCache ------------------------------
(***************************************************************************)
(* The decompression cache of the Fallout 4 plugin (Fallout4/src/            *)
(* DecompCache.cpp).  Unlike Skyrim's it rewrites a whole cache file at each  *)
(* flush, and readers stop locking altogether once the cache is "stable".    *)
(*                                                                         *)
(* Engine threads look entries up and record new ones; one thread flushes,   *)
(* at first the main thread when the game data is ready, then the background  *)
(* thread of the first save load; another one walks the mapped views to pin   *)
(* or prefault them.  A file counts one unit for its header and one for each  *)
(* copy of an entry; the order and the offsets of entries are left out.       *)
(***************************************************************************)
EXTENDS Integers, FiniteSets

CONSTANTS
  Archives,      (* open archives                                            *)
  Textures,      (* the DX10 ones                                            *)
  Orphans,       (* cache files of archives that are not open                *)
  Entries,       (* compressed entries of an archive                         *)
  Readers,       (* engine threads                                           *)
  Cap,           (* iDecompCacheMaxMB, in units                              *)
  Conditions,    (* settings, and what may fail, that behaviours run under   *)
  MaxFailures,   (* bound on the failures of one behaviour                   *)
  None

ASSUME FalloutAssumption ==
  /\ IsFiniteSet(Archives) /\ Textures \subseteq Archives
  /\ IsFiniteSet(Orphans) /\ Orphans \cap Archives = {}
  /\ IsFiniteSet(Entries) /\ IsFiniteSet(Readers) /\ Cap \in Nat /\ MaxFailures \in Nat
  /\ None \notin Archives
  /\ Conditions \subseteq
       [mode : {0, 1}, limited : BOOLEAN, textures : BOOLEAN,
        walks : BOOLEAN, substitutes : BOOLEAN, entries : SUBSET Entries,
        fails : SUBSET {"create", "write", "rename", "load", "remove"}]

(* Identities of MappedView objects of one archive: the active one, one per   *)
(* holder and a fresh one.  0 is the empty shared_ptr.                        *)
Views == 1 .. Cardinality(Readers) + 4
Copies == [Entries -> Nat]
Nothing == [e \in Entries |-> 0]
File == [copies : Copies, bytes : Nat, usable : BOOLEAN]
NoFile == [copies |-> Nothing, bytes |-> 0, usable |-> FALSE]

VARIABLES
  conditions,       (* those of this behaviour                               *)
  disk,             (* the .decomp files                                     *)
  totalCacheBytes,
  view,             (* ArchiveCache: its mapped view                         *)
  index,            (* copies of each entry in its index                     *)
  entryCount, pending, pendingCount,
  ready, building, stable,
  startupFiles,     (* archives whose file this session wrote                *)
  reader,           (* what each engine thread is doing                      *)
  covered,          (* history: where its entry has been since it started    *)
  substitute,       (* a stream HookedFactory replaced, reading from a view   *)
  walk,             (* views LockCacheInMemory or PrefaultCachePages holds    *)
  flush             (* the thread that flushes                               *)

cacheVars == <<view, index, entryCount>>
queueVars == <<pending, pendingCount>>
flagVars == <<ready, building, stable>>
diskVars == <<disk, totalCacheBytes, startupFiles>>
userVars == <<reader, substitute, walk>>
vars == <<cacheVars, queueVars, flagVars, diskVars, userVars, covered, flush>>

(* base is the view a result points into, owner the reference that came with  *)
(* it.                                                                      *)
Idle == [pc |-> "idle", archive |-> None, entry |-> None, viewed |-> FALSE,
         hasFlushed |-> FALSE, hasPending |-> FALSE, base |-> 0, owner |-> 0]
NoStream == [archive |-> None, base |-> 0, owner |-> 0]
NotWalking == [todo |-> {}, held |-> [a \in Archives |-> 0]]

(* The units of size[x] for each x, one by one, so that a sum counts them.      *)
Units(size, S) == UNION {{x} \X (1 .. size[x]) : x \in S}
Size(copies) == Cardinality(Units(copies, Entries))
Bytes(copies) == 1 + Size(copies)
Files == Archives \cup Orphans
DiskBytes == Cardinality(Units([f \in Files |-> disk[f].bytes], Files))
Fails(what) == what \in conditions.fails /\ flush.failures > 0
Failing(f) == [f EXCEPT !.failures = @ - 1]

(* Files as an earlier session may have left them: absent, of an older archive  *)
(* or version, or usable, and then with the entries that are not corrupt.      *)
Outdated == [copies |-> Nothing, bytes |-> 1 + Cardinality(conditions.entries),
             usable |-> FALSE]
Usable == {[copies |-> c, bytes |-> Bytes(c), usable |-> TRUE] :
             c \in {[e \in Entries |-> IF e \in kept THEN 1 ELSE 0] :
                     kept \in SUBSET conditions.entries}}

Init ==
  /\ conditions \in Conditions
  /\ disk \in [Files -> {NoFile, Outdated} \cup Usable]
  /\ \A o \in Orphans : ~disk[o].usable
  /\ totalCacheBytes = DiskBytes
  /\ view = [a \in Archives |-> IF disk[a].usable THEN 1 ELSE 0]
  /\ index = [a \in Archives |->
                IF disk[a].usable THEN disk[a].copies ELSE Nothing]
  /\ entryCount = [a \in Archives |-> Size(index[a])]
  /\ pending = [a \in Archives |-> {}] /\ pendingCount = [a \in Archives |-> 0]
  /\ ready = (\E a \in Archives : disk[a].usable)
  /\ building = (\E a \in Archives : ~disk[a].usable)
  /\ stable = (ready /\ ~building)
  /\ startupFiles = {}
  /\ reader = [t \in Readers |-> Idle] /\ covered = [t \in Readers |-> {}]
  /\ substitute = NoStream /\ walk = NotWalking
  /\ flush = [pc |-> "loading", back |-> None, todo |-> {}, textures |-> {},
              archive |-> None, local |-> {}, tmp |-> NoFile, known |-> 0,
              failures |-> MaxFailures]

-----------------------------------------------------------------------------
(* Lookup and LookupViewBacked.                                              *)

(* WriteCacheFile holds rebuildMtx exclusively.                               *)
Rebuilding(a) == flush.archive = a /\ flush.pc \in {"replace", "load"}

Goto(t, r) == reader' = [reader EXCEPT ![t] = r]
OnlyReaders ==
  UNCHANGED <<cacheVars, queueVars, flagVars, diskVars, walk, flush>>

LookupBegin(t) ==
  /\ reader[t].pc = "idle" /\ ready
  /\ \E a \in Archives, e \in conditions.entries, v \in {FALSE, conditions.substitutes} :
       Goto(t, [Idle EXCEPT !.pc = IF stable THEN "find" ELSE "counts",
                            !.archive = a, !.entry = e, !.viewed = v])
  /\ OnlyReaders /\ UNCHANGED substitute

ReadCounts(t) ==
  LET r == reader[t] IN
  /\ r.pc = "counts"
  /\ \/ /\ r.viewed
        /\ Goto(t, IF entryCount[r.archive] = 0 THEN Idle
                   ELSE [r EXCEPT !.pc = "flushed"])
     \/ /\ ~r.viewed
        /\ Goto(t, [r EXCEPT !.pc = "pendingCount",
                             !.hasFlushed = entryCount[r.archive] # 0])
  /\ OnlyReaders /\ UNCHANGED substitute

ReadPendingCount(t) ==
  LET r == reader[t]  has == pendingCount[r.archive] # 0 IN
  /\ r.pc = "pendingCount"
  /\ Goto(t, CASE r.hasFlushed -> [r EXCEPT !.pc = "flushed", !.hasPending = has]
               [] ~r.hasFlushed /\ has -> [r EXCEPT !.pc = "pending"]
               [] OTHER -> Idle)
  /\ OnlyReaders /\ UNCHANGED substitute

(* A slip: an archive with an index is not searched in the queue.              *)
FindFlushedOnly(t) ==
  LET r == reader[t]  v == view[r.archive] IN
  /\ r.pc = "flushed" /\ ~Rebuilding(r.archive)
  /\ Goto(t, IF index[r.archive][r.entry] > 0
             THEN [r EXCEPT !.pc = "using", !.base = v, !.owner = v] ELSE Idle)
  /\ OnlyReaders /\ UNCHANGED substitute

FindFlushed(t) ==
  LET r == reader[t]  v == view[r.archive] IN
  /\ r.pc = "flushed" /\ ~Rebuilding(r.archive)
  /\ Goto(t, CASE index[r.archive][r.entry] > 0 ->
                    [r EXCEPT !.pc = "using", !.base = v, !.owner = v]
               [] index[r.archive][r.entry] = 0 /\ r.hasPending ->
                    [r EXCEPT !.pc = "pending"]
               [] OTHER -> Idle)
  /\ OnlyReaders /\ UNCHANGED substitute

(* The result owns the queued buffer.                                         *)
FindPending(t) ==
  LET r == reader[t] IN
  /\ r.pc = "pending"
  /\ Goto(t, IF r.entry \in pending[r.archive] THEN [r EXCEPT !.pc = "using"]
             ELSE Idle)
  /\ OnlyReaders /\ UNCHANGED substitute

(* No lock, and a result that owns nothing.                                   *)
FindStable(t) ==
  LET r == reader[t] IN
  /\ r.pc = "find"
  /\ Goto(t, IF index[r.archive][r.entry] = 0 THEN Idle
             ELSE [r EXCEPT !.pc = "using", !.base = view[r.archive]])
  /\ OnlyReaders /\ UNCHANGED substitute

Lookup(t) ==
  \/ LookupBegin(t) \/ ReadCounts(t) \/ ReadPendingCount(t)
  \/ FindFlushed(t) \/ FindPending(t) \/ FindStable(t)

(* The caller copies the bytes and drops the result, or hands the view to a   *)
(* stream that replaces the engine's.                                        *)
Finish(t) ==
  /\ reader[t].pc = "using" /\ Goto(t, Idle)
  /\ OnlyReaders /\ UNCHANGED substitute

Substitute(t) ==
  LET r == reader[t] IN
  /\ r.pc = "using" /\ r.viewed /\ substitute = NoStream /\ Goto(t, Idle)
  /\ substitute' = [archive |-> r.archive, base |-> r.base, owner |-> r.owner]
  /\ OnlyReaders

StreamFreed ==
  /\ substitute # NoStream /\ substitute' = NoStream
  /\ OnlyReaders /\ UNCHANGED reader

-----------------------------------------------------------------------------
(* RecordDecompressed.                                                       *)

RecordBegin(t) ==
  /\ reader[t].pc = "idle" /\ building
  /\ \E a \in Archives, e \in conditions.entries :
       Goto(t, [Idle EXCEPT !.pc = "contains", !.archive = a, !.entry = e])
  /\ OnlyReaders /\ UNCHANGED substitute

Contains(t) ==
  LET r == reader[t] IN
  /\ r.pc = "contains" /\ ~Rebuilding(r.archive)
  /\ Goto(t, IF index[r.archive][r.entry] > 0 THEN Idle
             ELSE [r EXCEPT !.pc = "push"])
  /\ OnlyReaders /\ UNCHANGED substitute

Push(a, e) ==
  IF e \in pending[a] THEN UNCHANGED queueVars
  ELSE /\ pending' = [pending EXCEPT ![a] = @ \cup {e}]
       /\ pendingCount' = [pendingCount EXCEPT ![a] = @ + 1]

RecordPush(t) ==
  /\ reader[t].pc = "push" /\ Push(reader[t].archive, reader[t].entry)
  /\ Goto(t, Idle)
  /\ UNCHANGED <<cacheVars, flagVars, diskVars, substitute, walk, flush>>

RecordDecompressed(t) == RecordBegin(t) \/ Contains(t) \/ RecordPush(t)

-----------------------------------------------------------------------------
(* LockCacheInMemory and PrefaultCachePages: hold the views they visit.        *)

OnlyWalk ==
  UNCHANGED <<cacheVars, queueVars, flagVars, diskVars, reader, substitute, flush>>

WalkBegin ==
  /\ walk = NotWalking /\ ready /\ conditions.walks
  /\ walk' = [walk EXCEPT !.todo = Archives] /\ OnlyWalk

(* A view that is pinned already is passed over.                              *)
WalkSnapshot(a) ==
  /\ a \in walk.todo /\ ~Rebuilding(a)
  /\ \E v \in {0, view[a]} :
       walk' = [todo |-> walk.todo \ {a}, held |-> [walk.held EXCEPT ![a] = v]]
  /\ OnlyWalk

(* Touched, locked, cancelled or refused for lack of memory.                  *)
WalkEnd ==
  /\ walk # NotWalking /\ walk.todo = {} /\ walk' = NotWalking /\ OnlyWalk

Walk == WalkBegin \/ WalkEnd \/ \E a \in Archives : WalkSnapshot(a)

-----------------------------------------------------------------------------
(* FlushToDisk and WriteCacheFile.                                           *)

Held(a) ==
  {view[a], walk.held[a]}
  \cup {reader[t].owner : t \in {u \in Readers : reader[u].archive = a}}
  \cup (IF substitute.archive = a THEN {substitute.owner} ELSE {})

Cached(a, v, copies) ==
  /\ view' = [view EXCEPT ![a] = v]
  /\ index' = [index EXCEPT ![a] = copies]
  /\ entryCount' = [entryCount EXCEPT ![a] = Size(copies)]

Quiet == UNCHANGED userVars
NextFile == [flush EXCEPT !.pc = "next", !.archive = None, !.local = {},
                          !.tmp = NoFile]

(* A slip: archives that have a file already are left out.                     *)
FlushingNewFiles(back) ==
  IF building
  THEN [flush EXCEPT !.pc = "next", !.back = back, !.known = totalCacheBytes,
                     !.todo = {a \in Archives : view[a] = 0}]
  ELSE [flush EXCEPT !.pc = back]

Flushing(back) ==
  IF building
  THEN [flush EXCEPT !.pc = "next", !.back = back, !.todo = Archives,
                     !.known = totalCacheBytes]
  ELSE [flush EXCEPT !.pc = back]

(* OnGameDataReady, on the main thread.                                       *)
OnGameDataReady ==
  /\ flush.pc = "loading" /\ flush' = Flushing("menu")
  /\ Quiet /\ UNCHANGED <<cacheVars, queueVars, flagVars, diskVars>>

NothingPending(a) ==
  /\ flush.pc = "next" /\ a \in flush.todo /\ pending[a] = {}
  /\ flush' = [flush EXCEPT !.todo = @ \ {a}]
  /\ Quiet /\ UNCHANGED <<cacheVars, queueVars, flagVars, diskVars>>

(* A slip: the count of the queue survives the swap.                          *)
TakePendingUncounted(a) ==
  /\ flush.pc = "next" /\ a \in flush.todo /\ pending[a] # {}
  /\ pending' = [pending EXCEPT ![a] = {}]
  /\ flush' = [flush EXCEPT !.pc = "check", !.todo = @ \ {a}, !.archive = a,
                            !.local = pending[a]]
  /\ Quiet /\ UNCHANGED <<pendingCount, cacheVars, flagVars, diskVars>>

TakePending(a) ==
  /\ flush.pc = "next" /\ a \in flush.todo /\ pending[a] # {}
  /\ pending' = [pending EXCEPT ![a] = {}]
  /\ pendingCount' = [pendingCount EXCEPT ![a] = 0]
  /\ flush' = [flush EXCEPT !.pc = "check", !.todo = @ \ {a}, !.archive = a,
                            !.local = pending[a]]
  /\ Quiet /\ UNCHANGED <<cacheVars, flagVars, diskVars>>

(* A slip: the rewritten file holds only what was queued.                      *)
MergedQueueOnly(a) == [e \in Entries |-> IF e \in flush.local THEN 1 ELSE 0]

Merged(a) == [e \in Entries |-> index[a][e] + IF e \in flush.local THEN 1 ELSE 0]

(* A slip: the projected size leaves the queued entries out.                   *)
NewTotalOfIndex(a) ==
  flush.known - (IF disk[a].bytes < flush.known THEN disk[a].bytes ELSE flush.known)
    + Bytes(index[a])

(* currentOnDisk, as last refreshed, with the file replaced.                   *)
NewTotal(a) ==
  LET existing == disk[a].bytes
      less == IF existing < flush.known THEN existing ELSE flush.known
  IN flush.known - less + Bytes(Merged(a))

FitsCap ==
  ~conditions.limited \/ NewTotal(flush.archive) <= Cap

StopCaching ==
  /\ flush.pc = "check" /\ ~FitsCap
  /\ building' = FALSE /\ stable' = (stable \/ ready)
  /\ pending' = [a \in Archives |-> {}]
  /\ pendingCount' = [a \in Archives |-> 0]
  /\ flush' = [NextFile EXCEPT !.todo = {}]
  /\ Quiet /\ UNCHANGED <<cacheVars, ready, diskVars>>

(* Results of WriteFile are not checked: entries may turn out damaged.         *)
WriteTmp ==
  LET whole == Merged(flush.archive)
      Written(lost) == [copies |-> [e \in Entries |->
                                      IF e \in lost THEN 0 ELSE whole[e]],
                        bytes |-> Bytes(whole), usable |-> TRUE]
  IN
  /\ flush.pc = "check" /\ FitsCap
  /\ \/ \E lost \in SUBSET Entries :
          IF lost = {}
          THEN flush' = [flush EXCEPT !.pc = "clear", !.tmp = Written(lost)]
          ELSE /\ Fails("write")
               /\ flush' = Failing([flush EXCEPT !.pc = "clear", !.tmp = Written(lost)])
     \/ Fails("create") /\ flush' = Failing(NextFile)
  /\ Quiet /\ UNCHANGED <<cacheVars, queueVars, flagVars, diskVars>>

ClearCache ==
  /\ flush.pc = "clear" /\ Cached(flush.archive, 0, Nothing)
  /\ flush' = [flush EXCEPT !.pc = "replace"]
  /\ Quiet /\ UNCHANGED <<queueVars, flagVars, diskVars>>

(* When the rename fails the old file may have been removed already.           *)
ReplaceFile ==
  LET a == flush.archive IN
  /\ flush.pc = "replace"
  /\ \/ /\ disk' = [disk EXCEPT ![a] = flush.tmp]
        /\ totalCacheBytes' = totalCacheBytes - disk[a].bytes + flush.tmp.bytes
        /\ flush' = [flush EXCEPT !.pc = "load"]
     \/ /\ Fails("rename")
        /\ disk' \in {disk, [disk EXCEPT ![a] = NoFile]}
        /\ flush' = Failing(NextFile) /\ UNCHANGED totalCacheBytes
  /\ Quiet /\ UNCHANGED <<cacheVars, queueVars, flagVars, startupFiles>>

Fresh(a, v) == v \notin Held(a) /\ \A w \in 1 .. v - 1 : w \in Held(a)

LoadCacheFile ==
  LET a == flush.archive IN
  /\ flush.pc = "load"
  /\ \/ /\ \E v \in Views : Fresh(a, v) /\ Cached(a, v, flush.tmp.copies)
        /\ startupFiles' = startupFiles \cup {a}
        /\ flush' = [NextFile EXCEPT !.known = totalCacheBytes]
     \/ /\ Fails("load") /\ flush' = Failing(NextFile)
        /\ UNCHANGED <<cacheVars, startupFiles>>
  /\ Quiet /\ UNCHANGED <<queueVars, flagVars, disk, totalCacheBytes>>

WriteCacheFile == WriteTmp \/ ClearCache \/ ReplaceFile \/ LoadCacheFile

(* EnforceSizeLimit; todo holds the files that may go, known their total.      *)
InUse == {a \in Archives : view[a] # 0}

EnforceSizeLimit ==
  /\ flush.pc = "next" /\ flush.todo = {}
  /\ flush' =
       IF conditions.limited /\ totalCacheBytes > (Cap * 9) \div 10
            /\ DiskBytes > Cap
       THEN [flush EXCEPT !.pc = "evict", !.known = DiskBytes, !.todo =
               {f \in Files : disk[f] # NoFile} \ InUse]
       ELSE [flush EXCEPT !.pc = "end"]
  /\ Quiet /\ UNCHANGED <<cacheVars, queueVars, flagVars, diskVars>>

(* Files this session wrote go last; among the others the age decides.         *)
Evict(f) ==
  /\ flush.pc = "evict" /\ flush.known > Cap /\ f \in flush.todo
  /\ f \in startupFiles => flush.todo \subseteq startupFiles
  /\ LET rest == [flush EXCEPT !.todo = @ \ {f}, !.known = @ - disk[f].bytes] IN
     \/ disk' = [disk EXCEPT ![f] = NoFile] /\ flush' = rest
     \/ Fails("remove") /\ flush' = Failing(rest) /\ UNCHANGED disk
  /\ Quiet
  /\ UNCHANGED <<cacheVars, queueVars, flagVars, totalCacheBytes, startupFiles>>

EvictDone ==
  /\ flush.pc = "evict" /\ (flush.known <= Cap \/ flush.todo = {})
  /\ flush' = [flush EXCEPT !.pc = "end", !.todo = {}]
  /\ Quiet /\ UNCHANGED <<cacheVars, queueVars, flagVars, diskVars>>

(* A slip: the cache is declared stable after every flush, not only in mode 0. *)
FlushEndsStable ==
  /\ flush.pc = "end" /\ stable' = (stable \/ ready)
  /\ flush' = [flush EXCEPT !.pc = flush.back, !.back = None, !.known = 0]
  /\ building' = (building /\ conditions.mode # 0)
  /\ Quiet /\ UNCHANGED <<cacheVars, queueVars, ready, diskVars>>

FlushEnds ==
  /\ flush.pc = "end"
  /\ flush' = [flush EXCEPT !.pc = flush.back, !.back = None, !.known = 0]
  /\ IF conditions.mode = 0
     THEN building' = FALSE /\ stable' = (stable \/ ready)
     ELSE UNCHANGED <<building, stable>>
  /\ Quiet /\ UNCHANGED <<cacheVars, queueVars, ready, diskVars>>

FlushToDisk ==
  \/ \E a \in Archives : NothingPending(a) \/ TakePending(a)
  \/ StopCaching \/ WriteCacheFile
  \/ EnforceSizeLimit \/ EvictDone \/ FlushEnds
  \/ \E f \in Files : Evict(f)

-----------------------------------------------------------------------------
(* StartBackgroundFlush and BuildTextureCache.                                *)

(* OnPreLoadGame, at the first save load.                                     *)
StartBackgroundFlush ==
  /\ flush.pc = "menu" /\ conditions.mode = 1
  /\ IF conditions.textures
     THEN /\ building' = TRUE
          /\ flush' = [flush EXCEPT !.pc = "textures", !.textures = Textures]
     ELSE flush' = [flush EXCEPT !.pc = "sleep"] /\ UNCHANGED building
  /\ Quiet /\ UNCHANGED <<cacheVars, queueVars, ready, stable, diskVars>>

BuildTextures(a) ==
  /\ flush.pc = "textures" /\ a \in flush.textures /\ building
  /\ IF view[a] # 0 THEN Cached(a, 0, Nothing) ELSE UNCHANGED cacheVars
  /\ flush' = [flush EXCEPT !.pc = "texture", !.archive = a,
                            !.textures = @ \ {a}]
  /\ Quiet /\ UNCHANGED <<queueVars, flagVars, diskVars>>

(* A chunk that cannot be decompressed is passed over.                        *)
BuildChunk(e) ==
  /\ flush.pc = "texture" /\ index[flush.archive][e] = 0 /\ building
  /\ e \notin pending[flush.archive] /\ Push(flush.archive, e)
  /\ Quiet /\ UNCHANGED <<cacheVars, flagVars, diskVars, flush>>

ChunksDone ==
  /\ flush.pc = "texture"
  /\ flush' = [Flushing("textures") EXCEPT !.archive = None]
  /\ Quiet /\ UNCHANGED <<cacheVars, queueVars, flagVars, diskVars>>

TexturesDone ==
  /\ flush.pc = "textures" /\ (flush.textures = {} \/ ~building)
  /\ flush' = [Flushing("sleep") EXCEPT !.textures = {}]
  /\ Quiet /\ UNCHANGED <<cacheVars, queueVars, flagVars, diskVars>>

Wake ==
  /\ flush.pc = "sleep" /\ building /\ \E a \in Archives : pending[a] # {}
  /\ flush' = Flushing("sleep")
  /\ Quiet /\ UNCHANGED <<cacheVars, queueVars, flagVars, diskVars>>

BackgroundFlush ==
  \/ OnGameDataReady \/ StartBackgroundFlush \/ FlushToDisk
  \/ ChunksDone \/ TexturesDone \/ Wake
  \/ \E a \in Archives : BuildTextures(a)
  \/ \E e \in conditions.entries : BuildChunk(e)

-----------------------------------------------------------------------------
Step ==
  \/ \E t \in Readers : Lookup(t) \/ Finish(t) \/ Substitute(t)
                          \/ RecordDecompressed(t)
  \/ StreamFreed \/ Walk \/ BackgroundFlush

(* Where a lookup finds its entry: in stable mode in the index alone.          *)
Places(t) ==
  LET r == reader[t] IN
  {p \in {"index", "pending"} :
     /\ r.pc # "idle"
     /\ p = "index" => index[r.archive][r.entry] > 0
     /\ p = "pending" => ~stable /\ r.entry \in pending[r.archive]}

Observe ==
  covered' = [t \in Readers |-> Places(t)' \cap
                (IF reader[t].pc = "idle" THEN {"index", "pending"} ELSE covered[t])]

Next == Step /\ Observe /\ UNCHANGED conditions

Spec == Init /\ [][Next]_<<conditions, vars>>

(* The flushing thread is scheduled, and wakes from its sleep.                *)
FairSpec == Spec /\ WF_<<conditions, vars>>(BackgroundFlush /\ Observe /\ UNCHANGED conditions)

-----------------------------------------------------------------------------
Users == [pc : {"idle", "counts", "pendingCount", "flushed", "pending", "find",
                "using", "contains", "push"},
          archive : Archives \cup {None}, entry : Entries \cup {None},
          viewed : BOOLEAN, hasFlushed : BOOLEAN, hasPending : BOOLEAN,
          base : Nat, owner : Nat]

TypeOK ==
  /\ disk \in [Files -> File] /\ totalCacheBytes \in Nat
  /\ view \in [Archives -> Nat] /\ index \in [Archives -> Copies]
  /\ entryCount \in [Archives -> Nat] /\ pendingCount \in [Archives -> Nat]
  /\ pending \in [Archives -> SUBSET Entries]
  /\ {ready, building, stable} \subseteq BOOLEAN
  /\ reader \in [Readers -> Users]
  /\ substitute \in [archive : Archives \cup {None}, base : Nat, owner : Nat]
  /\ walk \in [todo : SUBSET Archives, held : [Archives -> Nat]]

(* The counts read without a lock are those of the index and of the queue, and *)
(* the running total never undercounts the files.                            *)
CountsExact ==
  /\ \A a \in Archives :
       /\ entryCount[a] = Size(index[a])
       /\ pendingCount[a] = Cardinality(pending[a])
  /\ totalCacheBytes >= DiskBytes

(* Without the texture build a stable cache is not written any more.           *)
StableIsQuiet ==
  stable /\ ~conditions.textures =>
    /\ ~building /\ flush.pc \notin {"check", "clear", "replace", "load"}
    /\ flush.pc = "next" => flush.todo = {}

(* A result or a stream refers to the view it owns, to no view, or was found   *)
(* in stable mode.                                                          *)
Refers(u) ==
  \/ u.base \in {0, u.owner}
  \/ stable /\ (~conditions.textures => u.base = view[u.archive])

ReferenceInv ==
  /\ \A t \in Readers :
       /\ reader[t].pc = "find" => stable
       /\ reader[t].pc = "using" => Refers(reader[t])
       /\ reader[t].pc # "idle" => reader[t].archive \in Archives
  /\ substitute # NoStream =>
       Refers(substitute) /\ substitute.archive \in Archives

CacheInv == TypeOK /\ CountsExact /\ StableIsQuiet /\ ReferenceInv

Mapped(a, v) == v \in Held(a)

(* Whoever reads through a pointer reads from a view that is still mapped,     *)
(* though a result found in stable mode holds no reference to it              *)
(* (DecompCache.cpp:654-659: "every ArchiveCache::view is permanent").  It is  *)
(* not so once the texture build has met a cache that was stable before.      *)
ServedAlive ==
  ~(conditions.textures /\ stable) =>
    /\ \A t \in Readers :
         reader[t].pc = "using" /\ reader[t].base # 0 =>
           Mapped(reader[t].archive, reader[t].base)
    /\ substitute # NoStream /\ substitute.base # 0 =>
         Mapped(substitute.archive, substitute.base)

(* The files together never grow past the limit, whatever fails while they    *)
(* are rewritten, except when a file was replaced and then could not be       *)
(* loaded: the running total of the flush is then not refreshed.              *)
CapStep ==
  [][conditions.limited /\ "load" \notin conditions.fails =>
       DiskBytes' <= Cap \/ DiskBytes' <= DiskBytes]_vars

(* A lookup never misses an entry that stays in the index, or that stays in    *)
(* the queue, while it looks; the counts it reads without a lock do not hide   *)
(* one.  An entry that a flush moves from the queue to a file may be missed.   *)
MissExplained ==
  [][\A t \in Readers :
       reader[t].pc \in {"counts", "pendingCount", "flushed", "pending", "find"}
         /\ reader'[t].pc = "idle" /\ ~reader[t].viewed => covered[t] = {}]_vars

Captured(a) ==
  {e \in Entries : index[a][e] > 0} \cup pending[a]
  \cup IF flush.archive = a
       THEN flush.local \cup {e \in Entries : flush.tmp.copies[e] > 0} ELSE {}

(* While nothing fails and the limit is not reached, no entry that was learned *)
(* is forgotten again.  Sessions with the texture build are left out: it         *)
(* discards what the cache files held (DecompCache.cpp:401-408).               *)
NothingForgotten ==
  [][conditions.fails = {} /\ ~conditions.textures /\ building' =>
       \A a \in Archives : Captured(a) \subseteq Captured(a)']_vars

(* Once the background thread runs, what is queued is written or, when the    *)
(* limit is reached, dropped.                                               *)
EventuallyWritten ==
  \A a \in Archives :
    flush.pc = "sleep" /\ building /\ pending[a] # {} ~>
      pending[a] = {} \/ ~building
=============================================================================
