------------------------------ MODULE CacheBudget ------------------------------
(***************************************************************************)
(* The byte accounting of the Skyrim decompression cache                   *)
(* (Skyrim/src/DecompCache.cpp): recorder threads admit decompressed       *)
(* payloads against a hard cap, one flush at a time commits them to one    *)
(* cache file per archive, and the size limiter evicts files.  A loading   *)
(* screen may begin or end between any two steps.                          *)
(*                                                                         *)
(* Everything that costs bytes is a slot: a payload is its entry, and the  *)
(* fixed header and index area of an archive's cache file is the archive   *)
(* itself.  A file, a queue or a charge is then a set of slots.            *)
(***************************************************************************)
EXTENDS Integers, FiniteSets

CONSTANTS
  Archives,            (* mapped BSAs that own a cache file                  *)
  Entries,             (* payloads, one per start offset                     *)
  Orphans,             (* temporary, retired or foreign files in the folder  *)
  Owner,               (* the archive of each entry                          *)
  Size,                (* bytes of each slot                                 *)
  Cap,                 (* Settings::uDecompCacheMaxBytes                     *)
  MaxPending,          (* kMaxPendingMemoryBytes                             *)
  StartupOnly,         (* Settings::iDecompCacheMode = 0                     *)
  Failures,            (* the sets of failures a behaviour may suffer from   *)
  None                 (* no archive                                         *)

Slots == Archives \cup Entries \cup Orphans

ASSUME BudgetAssumption ==
  /\ IsFiniteSet(Archives) /\ IsFiniteSet(Entries) /\ IsFiniteSet(Orphans)
  /\ Archives \cap Entries = {}
  /\ Archives \cap Orphans = {}
  /\ Entries \cap Orphans = {}
  /\ Owner \in [Entries -> Archives]
  /\ Size \in [Slots -> Nat]
  /\ Cap \in Nat
  /\ MaxPending \in Nat
  /\ StartupOnly \in BOOLEAN
  /\ Failures \subseteq SUBSET {"startupScan", "allocation"}
  /\ None \notin Archives

(* The bytes a set of slots occupies: one cell per byte. *)
Cells(S) == UNION { {s} \X (1 .. Size[s]) : s \in S }
Bytes(S) == Cardinality(Cells(S))

EntriesOf(a) == { e \in Entries : Owner[e] = a }
SlotsOf(a) == {a} \cup EntriesOf(a)

Larger(m, n) == IF m >= n THEN m ELSE n
Smaller(m, n) == IF m <= n THEN m ELSE n

VARIABLES
  failures,              (* those of this behaviour                          *)
  loadActive,            (* m_loadActive                                     *)
  building,              (* m_building                                       *)
  requiredHeadroom,      (* m_requiredHeadroom                               *)
  totalCacheBytes,       (* m_totalCacheBytes                                *)
  pendingBytes,          (* m_pendingBytes                                   *)
  committedReservations, (* m_committedReservations                          *)
  unowned,               (* m_unownedFiles                                   *)
  disk,                  (* slots of the committed files in the folder       *)
  view,                  (* slots of the published mappings and indexes      *)
  diskInvalidated,       (* archives whose generation is invalid             *)
  needsReplacement,      (* archives mapped with an uncommitted tail         *)
  verifyFailed,          (* bad entries of generations not yet marked invalid *)
  bufferedOffsets,       (* entries marked as captured                       *)
  pending,               (* slots charged to the pending queues              *)
  work,                  (* slots charged to the items a flush has taken     *)
  resetFile,             (* archives whose item must be written fresh        *)
  item,                  (* the item being committed                         *)
  result,                (* the new mapping of that item, {} on failure      *)
  requested,             (* the headroom the running enforcement serves      *)
  estimated,             (* estimatedRemaining                               *)
  candidates,            (* eviction candidates left                         *)
  evicted,               (* has this enforcement deleted a file?             *)
  pc,                    (* where the holder of m_flushMtx is                *)
  ret                    (* where EnforceSizeLimit returns to                *)

acctVars  == <<totalCacheBytes, pendingBytes, committedReservations>>
fileVars  == <<disk, view, diskInvalidated, needsReplacement, verifyFailed>>
queueVars == <<bufferedOffsets, pending, work>>
itemVars  == <<resetFile, item, result>>
evictVars == <<requested, estimated, candidates, evicted>>
ctlVars   == <<loadActive, building, requiredHeadroom>>
vars == <<acctVars, fileVars, queueVars, itemVars, evictVars, ctlVars,
          unowned, pc, ret>>

(* Hooks, and with them recorders, readers and loading screens, exist only  *)
(* once Initialize has returned.                                            *)
Hooked == ret # "startup"

(* The directory scans of Initialize, and the allocations of a flush.       *)
ScanFailsAtStartup == "startupScan" \in failures
AllocationMayFail == "allocation" \in failures
NoFaults == ~ScanFailsAtStartup /\ ~AllocationMayFail

Queued == pending \cup work
ValidView(a) == a \in view /\ a \notin diskInvalidated
Idle(a) == EntriesOf(a) \cap bufferedOffsets = {}
Target == Cap - Smaller(requested, Cap)

-----------------------------------------------------------------------------
(* Initialize loads every cache file that validates; the others stay in the *)
(* folder, unowned.  An uncommitted tail that cannot be truncated leaves    *)
(* needsReplacement set.                                                    *)
Init ==
  /\ failures \in Failures
  /\ disk \in { D \in SUBSET Slots :
                  \A e \in D \cap Entries : Owner[e] \in D }
  /\ \E L \in SUBSET (disk \cap Archives) :
       view = disk \cap UNION { SlotsOf(a) : a \in L }
  /\ needsReplacement \in SUBSET (view \cap Archives)
  /\ loadActive = FALSE /\ building = TRUE
  /\ requiredHeadroom = 0
  /\ totalCacheBytes = 0 /\ pendingBytes = 0 /\ committedReservations = 0
  /\ unowned = {} /\ diskInvalidated = {} /\ verifyFailed = {}
  /\ bufferedOffsets = {} /\ pending = {} /\ work = {}
  /\ resetFile = {} /\ item = None /\ result = {}
  /\ requested = 0 /\ estimated = 0 /\ candidates = {} /\ evicted = FALSE
  /\ pc = "startScan" /\ ret = "startup"

-----------------------------------------------------------------------------
(* RecordDecompressed.                                                      *)

(* Faulty variant: the header of a new file is not paid for.               *)
AdmissionWithoutHeader(e) == {e}

(* The first buffered entry of an archive without a usable file also pays   *)
(* for the header and index of the file it will need.                       *)
Admission(e) ==
  {e} \cup { a \in {Owner[e]} : ~ValidView(a) /\ Idle(a) }

Recordable(e) ==
  /\ Hooked /\ building
  /\ e \in view /\ Owner[e] \notin diskInvalidated => e \in verifyFailed
  /\ e \notin bufferedOffsets

FitsMemory(bytes) == pendingBytes + bytes <= MaxPending
FitsCap(bytes) ==
  totalCacheBytes < Cap /\ totalCacheBytes + pendingBytes + bytes <= Cap

RecordAccept(e) ==
  LET bytes == Bytes(Admission(e)) IN
  /\ Recordable(e) /\ FitsMemory(bytes) /\ FitsCap(bytes)
  /\ pendingBytes' = pendingBytes + bytes
  /\ bufferedOffsets' = bufferedOffsets \cup {e}
  /\ pending' = pending \cup Admission(e)
  /\ UNCHANGED <<totalCacheBytes, committedReservations, fileVars, work,
                 itemVars, evictVars, ctlVars, unowned, pc, ret>>

(* A payload the cap refuses asks for room for all that is buffered and it. *)
RecordReject(e) ==
  LET bytes == Bytes(Admission(e)) IN
  /\ Recordable(e) /\ FitsMemory(bytes) /\ ~FitsCap(bytes)
  /\ Cap > 0 /\ bytes <= Cap
  /\ requiredHeadroom' =
       Larger(requiredHeadroom, Smaller(Cap, pendingBytes + bytes))
  /\ UNCHANGED <<acctVars, fileVars, queueVars, itemVars, evictVars,
                 loadActive, building, unowned, pc, ret>>

-----------------------------------------------------------------------------
(* A reader that finds a bad checksum marks the entry first and then the     *)
(* generation; a recorder may come between.  Mapped I/O errors mark only the *)
(* generation.  Loading screens come and go.                                 *)

VerifyEntryFails(e) ==
  /\ Hooked /\ e \in view /\ Owner[e] \notin diskInvalidated
  /\ verifyFailed' = verifyFailed \cup {e}
  /\ UNCHANGED <<acctVars, disk, view, diskInvalidated, needsReplacement,
                 queueVars, itemVars, evictVars, ctlVars, unowned, pc, ret>>

InvalidateGeneration(a) ==
  /\ Hooked /\ a \in view /\ a \notin diskInvalidated
  /\ diskInvalidated' = diskInvalidated \cup {a}
  /\ verifyFailed' = verifyFailed \ EntriesOf(a)
  /\ UNCHANGED <<acctVars, disk, view, needsReplacement,
                 queueVars, itemVars, evictVars, ctlVars, unowned, pc, ret>>

SetLoadActive ==
  /\ Hooked
  /\ loadActive' = ~loadActive
  /\ UNCHANGED <<acctVars, fileVars, queueVars, itemVars, evictVars, building,
                 requiredHeadroom, unowned, pc, ret>>

-----------------------------------------------------------------------------
(* ReconcileDiskAccounting.  A complete scan moves authority from the       *)
(* committed reservations to the bytes found on disk.  A scan cut short by  *)
(* a loading screen or by a directory error changes neither side.           *)

ScanComplete ==
  /\ ~loadActive
  /\ totalCacheBytes' = Bytes(disk)
  /\ pendingBytes' = pendingBytes - committedReservations
  /\ committedReservations' = 0
  /\ unowned' = { f \in disk \cap (Archives \cup Orphans) : f \notin view }

ScanAbandoned ==
  /\ Hooked \/ ScanFailsAtStartup
  /\ unowned' = {}
  /\ UNCHANGED acctVars

ScanSkipped ==
  /\ loadActive
  /\ UNCHANGED <<acctVars, unowned>>

ReconcileDiskAccounting(from, to) ==
  /\ pc = from /\ pc' = to
  /\ ScanComplete \/ ScanAbandoned \/ ScanSkipped
  /\ UNCHANGED <<fileVars, queueVars, itemVars, evictVars, ctlVars, ret>>

(* Faulty variant: the list of the last scan is not looked at again.       *)
DeletableStale == unowned

(* RemoveUnownedFiles deletes what the last scan listed, unless it has       *)
(* become the active file of an archive meanwhile.  Any deletion may fail.   *)
Deletable == { f \in unowned : f \notin view }

RemoveUnownedFiles(from, to) ==
  /\ pc = from /\ pc' = to
  /\ \/ /\ ~loadActive
        /\ \E F \in SUBSET Deletable :
             disk' = disk \ (F \cup UNION { EntriesOf(a) : a \in F \cap Archives })
        /\ unowned' = {}
     \/ /\ loadActive
        /\ UNCHANGED <<disk, unowned>>
  /\ UNCHANGED <<acctVars, view, diskInvalidated, needsReplacement,
                 verifyFailed, queueVars, itemVars, evictVars, ctlVars, ret>>

(* Initialize, after the cache files are loaded: scan, remove, scan, enforce. *)
Startup ==
  \/ ReconcileDiskAccounting("startScan", "startRemove")
  \/ RemoveUnownedFiles("startRemove", "startRescan")
  \/ ReconcileDiskAccounting("startRescan", "enforce")

-----------------------------------------------------------------------------
(* EnforceSizeLimit.                                                        *)

(* Faulty variant: the request is lost.                                    *)
RestoreNothing == UNCHANGED requiredHeadroom

RestoreHeadroom == requiredHeadroom' = Larger(requiredHeadroom, requested)

(* The common exit: forget the local state and go on after the call. *)
EnforceReturn ==
  /\ pc' = IF ret = "retire" THEN "retire" ELSE "idle"
  /\ ret' = "idle"
  /\ requested' = 0 /\ estimated' = 0 /\ candidates' = {} /\ evicted' = FALSE

EnforceBegin ==
  /\ pc = "enforce"
  /\ IF Cap = 0 \/ loadActive
     THEN EnforceReturn /\ UNCHANGED requiredHeadroom
     ELSE /\ requested' = requiredHeadroom
          /\ requiredHeadroom' = 0
          /\ pc' = "scan"
          /\ UNCHANGED <<estimated, candidates, evicted, ret>>
  /\ UNCHANGED <<acctVars, fileVars, queueVars, itemVars, loadActive, building,
                 unowned>>

EnforceScan == ReconcileDiskAccounting("scan", "scanned")

(* After either scan: give up under a loading screen, stop when the target  *)
(* is met, otherwise remove files nobody owns and then evict.               *)
EnforceCheck ==
  /\ pc \in {"scanned", "rescanned"}
  /\ \/ loadActive /\ RestoreHeadroom /\ EnforceReturn
     \/ /\ ~loadActive /\ totalCacheBytes <= Target
        /\ EnforceReturn /\ UNCHANGED requiredHeadroom
     \/ /\ ~loadActive /\ totalCacheBytes > Target
        /\ IF pc = "scanned"
           THEN pc' = "remove" /\ UNCHANGED <<estimated, candidates>>
           ELSE /\ pc' = "evict"
                /\ estimated' = totalCacheBytes
                /\ candidates' = { a \in Archives \cap view : Idle(a) }
        /\ UNCHANGED <<requested, evicted, requiredHeadroom, ret>>
  /\ UNCHANGED <<acctVars, fileVars, queueVars, itemVars, loadActive, building,
                 unowned>>

EnforceRemove == RemoveUnownedFiles("remove", "removed")

EnforceRescan ==
  \/ ReconcileDiskAccounting("removed", "rescanned")
  \/ /\ pc = "removed" /\ loadActive
     /\ RestoreHeadroom /\ EnforceReturn
     /\ UNCHANGED <<acctVars, fileVars, queueVars, itemVars, loadActive,
                    building, unowned>>

Unpublish(A) ==
  LET gone == UNION { SlotsOf(a) : a \in A } IN
  /\ disk' = disk \ gone
  /\ view' = view \ gone
  /\ diskInvalidated' = diskInvalidated \ A
  /\ needsReplacement' = needsReplacement \ A
  /\ verifyFailed' = verifyFailed \ gone

(* Faulty variant: the candidate may have received a payload.              *)
EvictUnchecked(a) ==
  /\ pc = "evict" /\ ~loadActive /\ estimated > Target
  /\ a \in candidates \cap view
  /\ candidates' = candidates \ {a}
  /\ estimated' = Larger(0, estimated - Bytes(view \cap SlotsOf(a)))
  /\ evicted' = TRUE
  /\ Unpublish({a})
  /\ UNCHANGED <<acctVars, queueVars, itemVars, requested, ctlVars, unowned,
                 pc, ret>>

(* One candidate: re-checked under the exclusive lock, deleted unless the    *)
(* file system refuses.  The order of the candidates is left open.           *)
Evict(a) ==
  /\ pc = "evict" /\ ~loadActive /\ estimated > Target
  /\ a \in candidates
  /\ candidates' = candidates \ {a}
  /\ \/ /\ a \in view /\ Idle(a)
        /\ estimated' = Larger(0, estimated - Bytes(view \cap SlotsOf(a)))
        /\ evicted' = TRUE
        /\ Unpublish({a})
     \/ UNCHANGED <<fileVars, estimated, evicted>>
  /\ UNCHANGED <<acctVars, queueVars, itemVars, requested, ctlVars, unowned,
                 pc, ret>>

EvictDone ==
  /\ pc = "evict"
  /\ loadActive \/ estimated <= Target \/ candidates = {}
  /\ pc' = IF evicted THEN "lastScan" ELSE "settle"
  /\ UNCHANGED <<acctVars, fileVars, queueVars, itemVars, evictVars, ctlVars,
                 unowned, ret>>

EnforceLastScan == ReconcileDiskAccounting("lastScan", "settle")

EnforceEnd ==
  /\ pc = "settle"
  /\ IF totalCacheBytes > Target THEN RestoreHeadroom
                                 ELSE UNCHANGED requiredHeadroom
  /\ EnforceReturn
  /\ UNCHANGED <<acctVars, fileVars, queueVars, itemVars, loadActive, building,
                 unowned>>

EnforceSizeLimit ==
  \/ EnforceBegin \/ EnforceScan \/ EnforceCheck \/ EnforceRemove
  \/ EnforceRescan \/ (\E a \in Archives : Evict(a)) \/ EvictDone
  \/ EnforceLastScan \/ EnforceEnd

-----------------------------------------------------------------------------
(* FlushToDisk, by the one holder of m_flushMtx.                            *)

FlushBegin ==
  /\ pc = "idle" /\ ~loadActive
  /\ StartupOnly \/ building
  /\ building' = (building /\ ~StartupOnly)
  /\ IF Cap > 0 /\ (requiredHeadroom > 0 \/ totalCacheBytes >= Cap)
     THEN pc' = "enforce" /\ ret' = "retire"
     ELSE pc' = "retire" /\ UNCHANGED ret
  /\ UNCHANGED <<acctVars, fileVars, queueVars, itemVars, evictVars,
                 loadActive, requiredHeadroom, unowned>>

(* Invalid generations nobody is about to replace are deleted.  A loading    *)
(* screen or a failed deletion leaves some of them for a later flush.        *)
RetireInvalid ==
  /\ pc = "retire" /\ pc' = "snapshot"
  /\ \E A \in SUBSET { a \in diskInvalidated : Idle(a) } :
       /\ loadActive => A = {}
       /\ Unpublish(A)
  /\ UNCHANGED <<acctVars, queueVars, itemVars, evictVars, ctlVars, unowned,
                 ret>>

(* Move every pending queue into a work item, all of them or none.           *)
SnapshotWork ==
  /\ pc = "snapshot"
  /\ \/ /\ work' = pending
        /\ pending' = {}
        /\ resetFile' = { a \in Archives :
                            /\ pending \cap SlotsOf(a) # {}
                            /\ a \in needsReplacement \/ ~ValidView(a) }
        /\ pc' = "commit"
     \/ /\ AllocationMayFail
        /\ pc' = "idle"
        /\ UNCHANGED <<work, pending, resetFile>>
  /\ UNCHANGED <<acctVars, fileVars, bufferedOffsets, item, result, evictVars,
                 ctlVars, unowned, ret>>

(* AppendFile and WriteFreshFile, off the cache lock: what an item does to   *)
(* the folder and the mapping it yields.  The mapping step may fail after    *)
(* the commit, so a failed result does not mean an unchanged file.           *)
FreshFile(a) == {a} \cup (work \cap EntriesOf(a))

Commit(a, file) ==
  /\ ~loadActive
  /\ disk' = (disk \ SlotsOf(a)) \cup file
  /\ result' \in {file, {}}

AppendFile(a) ==
  /\ pc = "commit" /\ pc' = "install"
  /\ work \cap SlotsOf(a) # {}
  /\ item' = a
  /\ \/ Commit(a, FreshFile(a))
     \/ /\ a \notin resetFile /\ a \in disk
        /\ Commit(a, (disk \cap SlotsOf(a)) \cup FreshFile(a))
     \/ /\ result' = {}
        /\ \/ UNCHANGED disk
           \/ \E o \in Orphans : disk' = disk \cup {o}
  /\ UNCHANGED <<acctVars, view, diskInvalidated, needsReplacement,
                 verifyFailed, queueVars, resetFile, evictVars, ctlVars,
                 unowned, ret>>

(* Back under the lock: publish the mapping and turn the charge of the item  *)
(* into a committed reservation, which only a complete scan releases ...     *)
Stale == item \notin resetFile /\ item \in diskInvalidated
ItemSlots == work \cap SlotsOf(item)

Installed ==
  /\ pc = "install" /\ pc' = "commit"
  /\ result # {} /\ ~Stale
  /\ view' = (view \ SlotsOf(item)) \cup result
  /\ diskInvalidated' = diskInvalidated \ {item}
  /\ needsReplacement' = needsReplacement \ {item}
  /\ verifyFailed' = verifyFailed \ SlotsOf(item)
  /\ work' = work \ SlotsOf(item)
  /\ item' = None /\ result' = {}
  /\ UNCHANGED <<disk, totalCacheBytes, pending, resetFile,
                 evictVars, ctlVars, unowned, ret>>

(* Faulty variant: the charge ends before a scan has seen the bytes.       *)
InstallReleasingAtOnce ==
  /\ Installed
  /\ bufferedOffsets' = bufferedOffsets \ ItemSlots
  /\ pendingBytes' = pendingBytes - Bytes(ItemSlots)
  /\ UNCHANGED committedReservations

(* Faulty variant: the charge ends now and again at the next scan.         *)
InstallReleasingTwice ==
  /\ Installed
  /\ bufferedOffsets' = bufferedOffsets \ ItemSlots
  /\ pendingBytes' = pendingBytes - Bytes(ItemSlots)
  /\ committedReservations' = committedReservations + Bytes(ItemSlots)

(* Faulty variant: the capture markers stay.                               *)
InstallKeepingMarkers ==
  /\ Installed
  /\ committedReservations' = committedReservations + Bytes(ItemSlots)
  /\ UNCHANGED <<bufferedOffsets, pendingBytes>>

InstallCommitted ==
  /\ Installed
  /\ bufferedOffsets' = bufferedOffsets \ ItemSlots
  /\ committedReservations' = committedReservations + Bytes(ItemSlots)
  /\ UNCHANGED pendingBytes

(* Faulty variant: the payloads are lost.                                  *)
RequeueLosing ==
  /\ pc = "install" /\ pc' = "commit"
  /\ result = {} \/ Stale
  /\ bufferedOffsets' = bufferedOffsets \ ItemSlots
  /\ pendingBytes' = pendingBytes - Bytes(ItemSlots)
  /\ work' = work \ SlotsOf(item)
  /\ item' = None /\ result' = {}
  /\ UNCHANGED <<fileVars, totalCacheBytes, committedReservations, pending,
                 resetFile, evictVars, ctlVars, unowned, ret>>

(* ... or give the item back to its queue, charge and markers untouched ...  *)
RequeueFailed ==
  /\ pc = "install" /\ pc' = "commit"
  /\ result = {} \/ Stale
  /\ pending' = pending \cup ItemSlots
  /\ work' = work \ SlotsOf(item)
  /\ item' = None /\ result' = {}
  /\ UNCHANGED <<fileVars, acctVars, bufferedOffsets, resetFile, evictVars,
                 ctlVars, unowned, ret>>

(* ... or, when even the queue cannot grow, drop it: the charge is released, *)
(* except that a header reserved for an absent file passes to a survivor.    *)
Drop(keep) ==
  /\ AllocationMayFail
  /\ pc = "install" /\ pc' = "commit"
  /\ result = {} \/ Stale
  /\ pending' = pending \cup keep
  /\ work' = work \ SlotsOf(item)
  /\ item' = None /\ result' = {}
  /\ UNCHANGED <<fileVars, totalCacheBytes, committedReservations, resetFile,
                 evictVars, ctlVars, unowned, ret>>

Kept == { a \in {item} \cap ItemSlots :
            ~ValidView(a) /\ pending \cap SlotsOf(a) # {} }

(* Faulty variant: the capture markers of lost payloads stay.              *)
DropKeepingMarkers ==
  /\ Drop(Kept)
  /\ pendingBytes' = pendingBytes - Bytes(ItemSlots \ Kept)
  /\ UNCHANGED bufferedOffsets

DropFailed ==
  /\ Drop(Kept)
  /\ bufferedOffsets' = bufferedOffsets \ ItemSlots
  /\ pendingBytes' = pendingBytes - Bytes(ItemSlots \ Kept)

(* All items done: settle the accounts unless a loading screen is up.        *)
CommitsDone ==
  /\ pc = "commit" /\ work = {}
  /\ resetFile' = {}
  /\ pc' = IF loadActive THEN "idle" ELSE "finalScan"
  /\ UNCHANGED <<acctVars, fileVars, queueVars, item, result, evictVars,
                 ctlVars, unowned, ret>>

FlushToDisk ==
  \/ FlushBegin \/ RetireInvalid \/ SnapshotWork
  \/ (\E a \in Archives : AppendFile(a))
  \/ InstallCommitted \/ RequeueFailed \/ DropFailed \/ CommitsDone
  \/ ReconcileDiskAccounting("finalScan", "enforce")

-----------------------------------------------------------------------------
Step ==
  \/ Startup
  \/ \E e \in Entries : RecordAccept(e) \/ RecordReject(e)
                        \/ VerifyEntryFails(e)
  \/ \E a \in Archives : InvalidateGeneration(a)
  \/ SetLoadActive
  \/ EnforceSizeLimit
  \/ FlushToDisk

Next == Step /\ UNCHANGED failures

Spec == Init /\ [][Next]_<<failures, vars>>

-----------------------------------------------------------------------------
(* Type invariant. *)
TypeOK ==
  /\ loadActive \in BOOLEAN /\ building \in BOOLEAN /\ evicted \in BOOLEAN
  /\ requiredHeadroom \in Nat /\ requested \in Nat /\ estimated \in Nat
  /\ totalCacheBytes \in Nat /\ pendingBytes \in Nat
  /\ committedReservations \in Nat
  /\ disk \subseteq Slots
  /\ unowned \subseteq Archives \cup Orphans
  /\ view \subseteq Archives \cup Entries
  /\ diskInvalidated \subseteq view \cap Archives
  /\ needsReplacement \subseteq Archives
  /\ verifyFailed \subseteq Entries
  /\ bufferedOffsets \subseteq Entries
  /\ pending \subseteq Archives \cup Entries
  /\ work \subseteq Archives \cup Entries
  /\ resetFile \subseteq Archives /\ candidates \subseteq Archives
  /\ item \in Archives \cup {None}
  /\ result \subseteq Archives \cup Entries
  /\ pc \in {"startScan", "startRemove", "startRescan", "enforce", "scan",
             "scanned", "remove", "removed", "rescanned", "evict", "lastScan",
             "settle", "idle", "retire", "snapshot", "commit", "install",
             "finalScan"}
  /\ ret \in {"startup", "retire", "idle"}

(* The charge is exact: m_pendingBytes is what is queued or in flight plus   *)
(* what is committed but not yet seen by a scan.  Nothing is charged twice   *)
(* and no failure path leaks or forgets a reservation.                       *)
ChargeExact == pendingBytes = Bytes(Queued) + committedReservations

(* An entry is marked captured exactly while a queue or a flush owns its     *)
(* payload, and only one of them does: no offset is written twice, none is   *)
(* blocked from being learned again.                                         *)
MarkersExact ==
  /\ bufferedOffsets = Queued \cap Entries
  /\ pending \cap work = {}

(* Whatever was dropped, requeued or invalidated on the way, an archive with *)
(* queued payloads and no mapped file has its header and index paid for.     *)
HeaderReserved ==
  \A e \in bufferedOffsets : Owner[e] \in view \cup Queued

(* A charged header always travels with a payload of its archive.            *)
CarrierPresent ==
  \A a \in Archives :
    /\ a \in pending => EntriesOf(a) \cap pending # {}
    /\ a \in work => EntriesOf(a) \cap work # {}

(* What AppendFile hands to the installation.                                *)
InstallSound ==
  pc = "install" =>
    /\ item \in Archives /\ ItemSlots # {} /\ result \subseteq SlotsOf(item)
    /\ result # {} => /\ item \in result \cap disk
                     /\ ItemSlots \cap Entries \subseteq result

(* Until Initialize returns there are no loading screens, and only the       *)
(* commit loop of a flush has items of its own.                              *)
ControlSound == /\ pc = "startScan" => ~Hooked
                /\ ~Hooked => ~loadActive
                /\ work # {} => pc \in {"commit", "install"}

(* The file behind a published mapping is never deleted under it, in         *)
(* particular not through a stale list of unowned files.                     *)
ActiveFileKept == view \cap Archives \subseteq disk

(* The inductive invariant of the accounting.                                *)
AccountingInv ==
  /\ TypeOK /\ ChargeExact /\ MarkersExact /\ HeaderReserved
  /\ CarrierPresent /\ InstallSound /\ ControlSound /\ ActiveFileKept

(* The bytes the cache files will have once all queued data is committed.    *)
Demand == Bytes((disk \ Orphans) \cup Queued)

(* The two counters admission adds up never undercount that demand, also     *)
(* between a commit and the scan that sees it; without faults only.          *)
DemandCovered ==
  NoFaults /\ pc # "startScan" => Demand <= totalCacheBytes + pendingBytes

(* The hard cap: no step takes the demand above the cap; a folder that was   *)
(* inherited above it only shrinks.  A failed startup scan hides the folder, *)
(* and a payload dropped for want of memory takes its header's charge along. *)
CapStep ==
  [][NoFaults => Demand' <= Cap \/ Demand' <= Demand]_vars

(* An accepted payload leaves the queues only into a published mapping, as    *)
(* long as there is memory to queue it again.                                *)
AcceptedNeverLost ==
  [][~AllocationMayFail => bufferedOffsets \ bufferedOffsets' \subseteq view']_vars

(* A request for headroom is forgotten only when the folder leaves that much *)
(* room; loading screens and failed evictions keep it outstanding.           *)
Outstanding == Larger(requiredHeadroom, requested)
HeadroomKept ==
  [][\/ Outstanding' >= Outstanding
     \/ totalCacheBytes <= Cap - Smaller(Outstanding, Cap)]_vars
=============================================================================
