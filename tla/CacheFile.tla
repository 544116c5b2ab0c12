------------------------------- MODULE CacheFile -------------------------------
(***************************************************************************)
(* The cache file of one archive (Skyrim/src/DecompCache.cpp, AppendFile,   *)
(* WriteFreshFile, LoadCacheFile; CacheFormat.h, Validate): the order of    *)
(* writes and flushes that advances the committed entry count, against      *)
(* loading screens that cancel a writer, I/O failures and power loss.       *)
(*                                                                         *)
(* A file is its header count, its index slots, its contiguous payload      *)
(* blocks and its length in blocks; block i belongs to index slot i.  Each  *)
(* file has the image the program sees (os) and the one on the medium       *)
(* (dur); the system writes any block back at any time.                     *)
(***************************************************************************)
EXTENDS Integers, Sequences, FiniteSets, SequencesExt

CONSTANTS
  Entries,            (* payloads, named by their start offset               *)
  Capacity,           (* indexCapacity = bsaEntryCount                       *)
  LoadMayInterrupt,   (* may a loading screen cancel a writer?               *)
  IoMayFail,          (* may a write, truncation or flush fail?              *)
  None                (* no entry: an empty slot or a block of garbage       *)

ASSUME FileAssumption ==
  /\ IsFiniteSet(Entries)
  /\ Capacity \in Nat \ {0}
  /\ LoadMayInterrupt \in BOOLEAN
  /\ IoMayFail \in BOOLEAN
  /\ None \notin Entries

Slots == 1 .. Capacity
Image == [count : 0 .. Capacity, index : [Slots -> Entries \cup {None}],
          data : [Slots -> Entries \cup {None}], len : 0 .. Capacity]

Blank == [count |-> 0, index |-> [i \in Slots |-> None],
          data |-> [i \in Slots |-> None], len |-> 0]

VARIABLES
  exists,            (* the file is in the folder                            *)
  os,                (* its image in the page cache                          *)
  dur,               (* its image on the medium                              *)
  atRisk,            (* history: the medium may lose what was committed      *)
  view,              (* index of the published mapping, <<>> when none       *)
  replaced,          (* the mapped payloads when the path got a new file     *)
  known,             (* entries of the mapping marked kVerifyValid           *)
  diskInvalidated,   (* the mapping must not be served                       *)
  needsReplacement,  (* an uncommitted tail could not be removed             *)
  pending,           (* queued payloads                                      *)
  batch,             (* payloads of the item being written                   *)
  resetFile,         (* the item must be written to a fresh file             *)
  newEntries,        (* its payloads the file does not have yet              *)
  oldHeader,         (* committed count when the append began                *)
  result,            (* index of the new mapping, <<>> on failure            *)
  resultKnown,       (* its entries that need no checksum                    *)
  loadActive,        (* m_loadActive, the cancel flag of every writer        *)
  pc                 (* where the writer is                                  *)

fileVars == <<exists, os, dur>>
viewVars == <<view, replaced, known, diskInvalidated, needsReplacement>>
itemVars == <<batch, resetFile, newEntries, oldHeader, result, resultKnown>>
vars == <<fileVars, viewVars, itemVars, pending, loadActive, pc, atRisk>>

Elements(s) == { s[i] : i \in DOMAIN s }

-----------------------------------------------------------------------------
(* Images.                                                                  *)

Count(f, n) == [f EXCEPT !.count = n]
Truncated(f, n) ==
  [f EXCEPT !.len = n,
            !.data = [i \in Slots |-> IF i <= n THEN f.data[i] ELSE None]]
WithPayload(f, e) ==
  [f EXCEPT !.len = f.len + 1, !.data[f.len + 1] = e]
WithIndex(f, first, es) ==
  [f EXCEPT !.index = [i \in Slots |-> IF i - first + 1 \in DOMAIN es
                                       THEN es[i - first + 1] ELSE f.index[i]]]
FileOf(es) ==
  [count |-> Len(es), len |-> Len(es),
   index |-> [i \in Slots |-> IF i \in DOMAIN es THEN es[i] ELSE None],
   data |-> [i \in Slots |-> IF i \in DOMAIN es THEN es[i] ELSE None]]

(* The index of the committed prefix. *)
Committed(f) == [i \in 1 .. f.count |-> f.index[i]]

(* Validate: structure only, no payload is read.                             *)
Valid(f, allowTrailing) ==
  /\ f.count \in 1 .. Capacity
  /\ \A i \in 1 .. f.count : f.index[i] # None /\ i <= f.len
  /\ \A i, j \in 1 .. f.count : f.index[i] = f.index[j] => i = j
  /\ allowTrailing \/ f.len = f.count

(* The payload of entry i of the published mapping. *)
Mapped(i) == IF replaced = <<>> THEN os.data[i] ELSE replaced[i]

-----------------------------------------------------------------------------
Init ==
  /\ exists \in BOOLEAN
  /\ \E S \in SUBSET Entries :
       /\ Cardinality(S) <= Capacity /\ (exists => S # {})
       /\ os = IF exists THEN FileOf(SetToSeq(S)) ELSE Blank
  /\ dur = os /\ atRisk = FALSE
  /\ view = <<>> /\ replaced = <<>> /\ known = {}
  /\ diskInvalidated = FALSE /\ needsReplacement = FALSE
  /\ pending = {} /\ batch = {} /\ resetFile = FALSE /\ newEntries = <<>>
  /\ oldHeader = 0 /\ result = <<>> /\ resultKnown = {}
  /\ loadActive = FALSE /\ pc = "load"

-----------------------------------------------------------------------------
(* Initialize: load the file, cut an uncommitted tail off, or reject it.     *)

LoadCacheFile ==
  /\ pc = "load" /\ pc' = "idle"
  /\ exists /\ Valid(os, TRUE)
  /\ view' = Committed(os)
  /\ known' = {} /\ diskInvalidated' = FALSE /\ replaced' = <<>>
  /\ \/ /\ os' = Truncated(os, os.count)
        /\ needsReplacement' = FALSE
        /\ dur' = os' \/ (IoMayFail /\ dur' = dur)
     \/ /\ os.len # os.count /\ IoMayFail
        /\ needsReplacement' = TRUE
        /\ UNCHANGED <<os, dur>>
  /\ UNCHANGED <<exists, itemVars, pending, loadActive>>

(* A rejected file, or one that cannot be mapped, stays in the folder unowned. *)
RejectCacheFile ==
  /\ pc = "load" /\ pc' = "idle"
  /\ IoMayFail \/ ~exists \/ ~Valid(os, TRUE)
  /\ UNCHANGED <<fileVars, viewVars, itemVars, pending, loadActive>>

(* Power loss: what the medium holds is all that is left.                    *)
Crash ==
  /\ os' = dur
  /\ view' = <<>> /\ replaced' = <<>> /\ known' = {}
  /\ diskInvalidated' = FALSE /\ needsReplacement' = FALSE
  /\ pending' = {} /\ batch' = {} /\ resetFile' = FALSE /\ newEntries' = <<>>
  /\ oldHeader' = 0 /\ result' = <<>> /\ resultKnown' = {}
  /\ loadActive' = FALSE /\ pc' = "load"
  /\ UNCHANGED <<exists, dur>>

(* The system writes one block, or the length, back to the medium.           *)
WriteBack ==
  /\ exists
  /\ \/ dur' = Count(dur, os.count)
     \/ dur' = Truncated(dur, os.len)
     \/ \E i \in Slots : \/ dur' = [dur EXCEPT !.index[i] = os.index[i]]
                         \/ i <= dur.len
                            /\ dur' = [dur EXCEPT !.data[i] = os.data[i]]
  /\ dur' # dur
  /\ UNCHANGED <<exists, os, viewVars, itemVars, pending, loadActive, pc>>

SetLoadActive ==
  /\ LoadMayInterrupt /\ pc # "load"
  /\ loadActive' = ~loadActive
  /\ UNCHANGED <<fileVars, viewVars, itemVars, pending, pc>>

-----------------------------------------------------------------------------
(* Recorders and readers.                                                   *)

Record(e) ==
  /\ pc # "load"
  /\ e \notin pending \cup batch
  /\ diskInvalidated \/ e \notin Elements(view)
  /\ pending' = pending \cup {e}
  /\ UNCHANGED <<fileVars, viewVars, itemVars, loadActive, pc>>

(* VerifyEntry on first use: the checksum either marks the entry valid or     *)
(* takes the whole generation out of service.                                *)
VerifyEntry(i) ==
  /\ i \in DOMAIN view /\ ~diskInvalidated /\ view[i] \notin known
  /\ IF Mapped(i) = view[i]
     THEN known' = known \cup {view[i]} /\ UNCHANGED diskInvalidated
     ELSE diskInvalidated' = TRUE /\ UNCHANGED known
  /\ UNCHANGED <<fileVars, view, replaced, needsReplacement, itemVars,
                 pending, loadActive, pc>>

(* An idle file is deleted: evicted, retired because it is invalid, or removed *)
(* because no archive owns it.                                               *)
RemoveFile ==
  /\ pc = "idle" /\ exists /\ ~loadActive
  /\ view # <<>> => pending = {}
  /\ exists' = FALSE
  /\ view' = <<>> /\ replaced' = <<>> /\ known' = {}
  /\ diskInvalidated' = FALSE /\ needsReplacement' = FALSE
  /\ UNCHANGED <<os, dur, itemVars, pending, loadActive, pc>>

-----------------------------------------------------------------------------
(* The writer.  Fail gives up without touching the file, Rollback restores    *)
(* the committed header and length first.                                    *)

Fail ==
  /\ pc' = "install" /\ result' = <<>> /\ resultKnown' = {}

(* FlushToDisk snapshots the queue into an item.                             *)
Begin ==
  /\ pc = "idle" /\ pc' = "open" /\ ~loadActive
  /\ pending # {}
  /\ batch' = pending /\ pending' = {}
  /\ resetFile' = (diskInvalidated \/ needsReplacement \/ view = <<>>)
  /\ resultKnown' = known
  /\ UNCHANGED <<fileVars, viewVars, newEntries, oldHeader, result, loadActive>>

(* Faulty variant: nothing is looked up in the committed index.              *)
MissingAll == batch

(* The payloads of the item the file does not have, in some order; those it   *)
(* has come from a commit whose mapping failed.                              *)
Missing == batch \ Elements(Committed(os))
Intact(e) ==
  \A i \in 1 .. os.count : os.index[i] = e => os.data[i] = e

(* AppendFile up to its first write: append, or write a fresh file.           *)
Open ==
  /\ pc = "open"
  /\ \/ (loadActive \/ IoMayFail) /\ Fail /\ UNCHANGED <<newEntries, oldHeader>>
     \/ /\ IoMayFail /\ pc' = "fresh"
        /\ UNCHANGED <<newEntries, oldHeader, result, resultKnown>>
     \/ /\ ~loadActive
        /\ IF \/ resetFile \/ ~exists \/ ~Valid(os, TRUE)
              \/ \E e \in batch \ Missing : ~Intact(e)
              \/ Cardinality(Missing) > Capacity - os.count
           THEN pc' = "fresh" /\ UNCHANGED <<newEntries, oldHeader>>
           ELSE /\ pc' = "truncate"
                /\ newEntries' = SetToSeq(Missing)
                /\ oldHeader' = os.count
        /\ UNCHANGED <<result, resultKnown>>
  /\ UNCHANGED <<fileVars, viewVars, batch, resetFile, pending, loadActive>>

TruncateTail ==
  /\ pc = "truncate"
  /\ \/ loadActive /\ Fail /\ UNCHANGED os
     \/ ~loadActive /\ pc' = "payload" /\ os' = Truncated(os, oldHeader)
        /\ UNCHANGED <<result, resultKnown>>
     \/ IoMayFail /\ pc' = "restore" /\ UNCHANGED <<os, result, resultKnown>>
  /\ UNCHANGED <<exists, dur, viewVars, batch, resetFile, newEntries,
                 oldHeader, pending, loadActive>>

Written == os.len - oldHeader

WritePayload ==
  /\ pc = "payload"
  /\ IF Written = Len(newEntries)
     THEN pc' = "flushPayload" /\ UNCHANGED os
     ELSE \/ ~loadActive /\ os' = WithPayload(os, newEntries[Written + 1])
             /\ UNCHANGED pc
          \/ (loadActive \/ IoMayFail) /\ pc' = "restore" /\ UNCHANGED os
  /\ UNCHANGED <<exists, dur, viewVars, itemVars, pending, loadActive>>

(* A flush makes the whole file durable.                                     *)
Flush(to) ==
  \/ dur' = os /\ pc' = to
  \/ IoMayFail /\ pc' = "restore" /\ UNCHANGED dur

(* A writer that sees a loading screen skips this flush ...                  *)
FlushPayload ==
  /\ pc = "flushPayload"
  /\ LET to == IF newEntries = <<>> THEN "map" ELSE "index" IN
     \/ ~loadActive /\ Flush(to)
     \/ loadActive /\ pc' = to /\ UNCHANGED dur
  /\ UNCHANGED <<exists, os, viewVars, itemVars, pending, loadActive>>

(* ... and fails at the next write, unless the loading screen is gone again.  *)
WriteIndex ==
  /\ pc = "index"
  /\ \/ ~loadActive /\ pc' = "flushIndex"
        /\ os' = WithIndex(os, oldHeader + 1, newEntries)
     \/ (loadActive \/ IoMayFail) /\ pc' = "restore" /\ UNCHANGED os
  /\ UNCHANGED <<exists, dur, viewVars, itemVars, pending, loadActive>>

(* Faulty variant: the index is not flushed before the header is written.     *)
FlushIndexUnflushed ==
  /\ pc = "flushIndex" /\ pc' = "header"
  /\ UNCHANGED <<fileVars, viewVars, itemVars, pending, loadActive>>

FlushIndex ==
  /\ pc = "flushIndex" /\ Flush("header")
  /\ UNCHANGED <<exists, os, viewVars, itemVars, pending, loadActive>>

WriteHeader ==
  /\ pc = "header"
  /\ \/ ~loadActive /\ pc' = "flushHeader"
        /\ os' = Count(os, oldHeader + Len(newEntries))
     \/ (loadActive \/ IoMayFail) /\ pc' = "restore" /\ UNCHANGED os
  /\ UNCHANGED <<exists, dur, viewVars, itemVars, pending, loadActive>>

FlushHeader ==
  /\ pc = "flushHeader" /\ Flush("map")
  /\ UNCHANGED <<exists, os, viewVars, itemVars, pending, loadActive>>

(* The rollback ignores the outcome of its own writes.                       *)
RestoreHeader ==
  /\ pc = "restore" /\ pc' = "cut"
  /\ os' = Count(os, oldHeader) \/ (IoMayFail /\ os' = os)
  /\ UNCHANGED <<exists, dur, viewVars, itemVars, pending, loadActive>>

(* Faulty variant: the whole file is emptied instead of its tail.            *)
CutAll ==
  /\ pc = "cut" /\ pc' = "flushRollback"
  /\ os' = Truncated(os, 0)
  /\ UNCHANGED <<exists, dur, viewVars, itemVars, pending, loadActive>>

CutTail ==
  /\ pc = "cut" /\ pc' = "flushRollback"
  /\ os' = Truncated(os, oldHeader) \/ (IoMayFail /\ os' = os)
  /\ UNCHANGED <<exists, dur, viewVars, itemVars, pending, loadActive>>

FlushRollback ==
  /\ pc = "flushRollback" /\ Fail
  /\ dur' = os \/ (IoMayFail /\ dur' = dur)
  /\ UNCHANGED <<exists, os, viewVars, batch, resetFile, newEntries,
                 oldHeader, pending, loadActive>>

(* WriteFreshFile: everything goes to a temporary file first.  Its flush is    *)
(* skipped when a loading screen has begun since the last write.             *)
WriteFresh ==
  /\ pc = "fresh"
  /\ \/ ~loadActive /\ Cardinality(batch) <= Capacity /\ pc' = "flushFresh"
        /\ UNCHANGED <<result, resultKnown>>
     \/ (loadActive \/ IoMayFail \/ Cardinality(batch) > Capacity) /\ Fail
  /\ UNCHANGED <<fileVars, viewVars, batch, resetFile, newEntries, oldHeader,
                 pending, loadActive>>

FlushFresh ==
  /\ pc = "flushFresh"
  /\ \/ ~loadActive /\ pc' = "rename" /\ UNCHANGED <<result, resultKnown>>
     \/ loadActive /\ pc' = "renameUnflushed" /\ UNCHANGED <<result, resultKnown>>
     \/ IoMayFail /\ Fail
  /\ UNCHANGED <<fileVars, viewVars, batch, resetFile, newEntries, oldHeader,
                 pending, loadActive>>

(* The replacement is atomic and written through; a published mapping keeps    *)
(* the file it maps.                                                         *)
Rename ==
  /\ pc \in {"rename", "renameUnflushed"}
  /\ \/ /\ exists' = TRUE
        /\ os' = FileOf(SetToSeq(batch))
        /\ dur' = IF pc = "rename" THEN os' ELSE Blank
        /\ replaced' = [i \in DOMAIN view |-> Mapped(i)]
        /\ resultKnown' = batch
        /\ pc' = "map" /\ UNCHANGED result
     \/ IoMayFail /\ Fail /\ UNCHANGED <<fileVars, replaced>>
  /\ UNCHANGED <<view, known, diskInvalidated, needsReplacement, batch,
                 resetFile, newEntries, oldHeader, pending, loadActive>>

(* Faulty variant: every entry of the new mapping counts as verified.         *)
MapTrustingAll ==
  /\ pc = "map" /\ pc' = "install"
  /\ Valid(os, FALSE)
  /\ result' = Committed(os)
  /\ resultKnown' = Elements(result')
  /\ UNCHANGED <<fileVars, viewVars, batch, resetFile, newEntries, oldHeader,
                 pending, loadActive>>

(* MapCommittedFile; entries known to be valid need no checksum.              *)
MapCommittedFile ==
  /\ pc = "map" /\ pc' = "install"
  /\ \/ /\ Valid(os, FALSE)
        /\ result' = Committed(os)
        /\ resultKnown' = (resultKnown \cup batch) \cap Elements(result')
     \/ result' = <<>> /\ resultKnown' = {}
  /\ UNCHANGED <<fileVars, viewVars, batch, resetFile, newEntries, oldHeader,
                 pending, loadActive>>

(* Back in FlushToDisk: publish the mapping, or requeue the item.             *)
Stale == ~resetFile /\ diskInvalidated

(* Faulty variant: the verdicts of the old mapping stay with the new one.     *)
InstallKeepingVerdicts ==
  /\ pc = "install" /\ pc' = "idle"
  /\ IF result # <<>>
     THEN /\ view' = result /\ known' = known \cup resultKnown /\ replaced' = <<>>
          /\ diskInvalidated' = FALSE /\ needsReplacement' = FALSE
          /\ UNCHANGED pending
     ELSE pending' = pending \cup batch /\ UNCHANGED viewVars
  /\ batch' = {} /\ resetFile' = FALSE /\ newEntries' = <<>> /\ oldHeader' = 0
  /\ result' = <<>> /\ resultKnown' = {}
  /\ UNCHANGED <<fileVars, loadActive>>

Install ==
  /\ pc = "install" /\ pc' = "idle"
  /\ IF result # <<>> /\ ~Stale
     THEN /\ view' = result /\ known' = resultKnown /\ replaced' = <<>>
          /\ diskInvalidated' = FALSE /\ needsReplacement' = FALSE
          /\ UNCHANGED pending
     ELSE pending' = pending \cup batch /\ UNCHANGED viewVars
  /\ batch' = {} /\ resetFile' = FALSE /\ newEntries' = <<>> /\ oldHeader' = 0
  /\ result' = <<>> /\ resultKnown' = {}
  /\ UNCHANGED <<fileVars, loadActive>>

-----------------------------------------------------------------------------
AppendFile ==
  \/ Open \/ TruncateTail \/ WritePayload \/ FlushPayload \/ WriteIndex
  \/ FlushIndex \/ WriteHeader \/ FlushHeader
  \/ RestoreHeader \/ CutTail \/ FlushRollback

WriteFreshFile == WriteFresh \/ FlushFresh \/ Rename

Step ==
  \/ LoadCacheFile \/ RejectCacheFile \/ Crash \/ WriteBack \/ SetLoadActive
  \/ \E e \in Entries : Record(e)
  \/ \E i \in Slots : VerifyEntry(i)
  \/ RemoveFile
  \/ Begin \/ AppendFile \/ WriteFreshFile \/ MapCommittedFile \/ Install

(* The medium may lose committed payloads once a file has taken the place of   *)
(* the old one without a flush, and once the flush of an advanced header has   *)
(* failed, so that a rollback undoes a header the medium may already hold;     *)
(* until the file as a whole is flushed, deleted or read back after a crash.   *)
Endangered == \/ pc = "renameUnflushed" /\ pc' = "map"
              \/ pc = "flushHeader" /\ pc' = "restore"
Secured == \/ pc \in {"rename", "flushHeader"} /\ pc' = "map"
           \/ ~exists' \/ pc' = "load"

Next == Step /\ atRisk' = (Endangered \/ (atRisk /\ ~Secured))

Spec == Init /\ [][Next]_vars

-----------------------------------------------------------------------------
(* Type invariant. *)
TypeOK ==
  /\ exists \in BOOLEAN /\ os \in Image /\ dur \in Image
  /\ atRisk \in BOOLEAN
  /\ view \in Seq(Entries) /\ Len(view) <= Capacity
  /\ replaced \in Seq(Entries \cup {None})
  /\ known \subseteq Elements(view)
  /\ diskInvalidated \in BOOLEAN /\ needsReplacement \in BOOLEAN
  /\ pending \subseteq Entries /\ batch \subseteq Entries
  /\ resetFile \in BOOLEAN /\ newEntries \in Seq(Entries)
  /\ oldHeader \in 0 .. Capacity
  /\ result \in Seq(Entries) /\ resultKnown \subseteq Entries
  /\ loadActive \in BOOLEAN
  /\ pc \in {"load", "idle", "open", "truncate", "payload", "flushPayload",
             "index", "flushIndex", "header", "flushHeader", "restore", "cut",
             "flushRollback", "fresh", "flushFresh", "rename",
             "renameUnflushed", "map", "install"}

(* An entry that is served without a checksum has the right payload, whatever *)
(* crashes, rollbacks, replacements and carried-over verdicts lie behind it.  *)
ServedIntact == \A i \in DOMAIN view : view[i] \in known => Mapped(i) = view[i]

(* The file under a published mapping never shrinks or loses the entries of    *)
(* that mapping, in the middle of an append and after its rollback included.  *)
MappedPrefixKept ==
  view # <<>> /\ replaced = <<>> =>
    os.len >= Len(view) /\ SubSeq(Committed(os), 1, Len(view)) = view

(* A file that serves would pass validation at the next start at any moment:   *)
(* no entry is recorded twice and no committed entry is missing.              *)
ServedFileValid == view # <<>> /\ exists /\ ~atRisk => Valid(os, TRUE)

(* What the medium safely holds: a structurally valid prefix, all payloads     *)
(* intact; with anything less the next start rejects or invalidates the file. *)
Durable ==
  /\ exists /\ Valid(dur, TRUE)
  /\ \A i \in 1 .. dur.count : dur.data[i] = dur.index[i]
Stored == IF Durable THEN Elements(Committed(dur)) ELSE {}

(* AUDIT.md: "Payload and index data are flushed before the committed entry    *)
(* count is advanced", so the file in the folder is safe at any moment.       *)
FlushedBeforeCount == exists => Durable

(* Across crashes, cancelled appends and their rollbacks the payloads the       *)
(* medium safely holds change only by whole batches: once stored, an entry is  *)
(* given up only when its file is replaced or deleted.                         *)
Store == INSTANCE AtomicStore
         WITH stored <- Stored, inflight <- batch, present <- exists, unsafe <- atRisk,
              replacing <- pc \in {"rename", "renameUnflushed"}
StoreSpec == Store!Spec
=============================================================================
