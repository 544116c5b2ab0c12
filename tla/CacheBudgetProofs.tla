-------------------------- MODULE CacheBudgetProofs --------------------------
(***************************************************************************)
(* Proofs about CacheBudget for any archives, entries, sizes and caps: the  *)
(* accounting invariant, from it the hard cap on the cache files, and that  *)
(* a request for headroom is kept until there is room.                      *)
(***************************************************************************)
EXTENDS CacheBudget, FiniteSetTheorems, TLAPS

-----------------------------------------------------------------------------
(* Bytes is a measure: finite, monotone, additive on disjoint sets.          *)

LEMMA CellsMember ==
  ASSUME NEW S, NEW c
  PROVE  c \in Cells(S) <=> \E s \in S : c \in {s} \X (1 .. Size[s])
BY DEF Cells

LEMMA CellsUnion ==
  ASSUME NEW S, NEW T
  PROVE  Cells(S \cup T) = Cells(S) \cup Cells(T)
BY DEF Cells

LEMMA CellsDisjoint ==
  ASSUME NEW S, NEW T, S \cap T = {}
  PROVE  Cells(S) \cap Cells(T) = {}
<1> SUFFICES ASSUME NEW c \in Cells(S), c \in Cells(T) PROVE FALSE
  OBVIOUS
<1>1. PICK s \in S : c \in {s} \X (1 .. Size[s])
  BY CellsMember
<1>2. PICK t \in T : c \in {t} \X (1 .. Size[t])
  BY CellsMember
<1>3. c[1] = s /\ c[1] = t
  BY <1>1, <1>2
<1> QED BY <1>3

LEMMA CellsFinite ==
  ASSUME NEW S \in SUBSET Slots
  PROVE  IsFiniteSet(Cells(S))
<1> DEFINE f == [s \in S |-> {s} \X (1 .. Size[s])]
           T == { {s} \X (1 .. Size[s]) : s \in S }
<1>1. IsFiniteSet(S)
  <2>1. IsFiniteSet(Slots)
    BY BudgetAssumption, FS_Union DEF Slots
  <2> QED BY <2>1, FS_Subset
<1>2. f \in Surjection(S, T)
  BY DEF Surjection
<1>3. IsFiniteSet(T)
  BY <1>1, <1>2, FS_Surjection
<1>4. ASSUME NEW X \in T PROVE IsFiniteSet(X)
  <2>1. PICK s \in S : X = {s} \X (1 .. Size[s])
    OBVIOUS
  <2>2. 1 \in Int /\ Size[s] \in Int
    BY BudgetAssumption
  <2>3. IsFiniteSet(1 .. Size[s])
    BY <2>2, FS_Interval
  <2>4. IsFiniteSet({s})
    BY FS_Singleton, Zenon
  <2> QED BY <2>1, <2>3, <2>4, FS_Product
<1> QED BY <1>3, <1>4, FS_UNION DEF Cells

LEMMA BytesNat ==
  ASSUME NEW S \in SUBSET Slots
  PROVE  Bytes(S) \in Nat
BY CellsFinite, FS_CardinalityType DEF Bytes

LEMMA BytesMonotone ==
  ASSUME NEW T \in SUBSET Slots, NEW S \in SUBSET T
  PROVE  Bytes(S) <= Bytes(T)
<1>1. Cells(S) \subseteq Cells(T)
  <2>1. T = S \cup T
    OBVIOUS
  <2> QED BY <2>1, CellsUnion
<1> QED BY <1>1, CellsFinite, FS_Subset DEF Bytes

LEMMA BytesUnion ==
  ASSUME NEW S \in SUBSET Slots, NEW T \in SUBSET Slots
  PROVE  /\ Bytes(S \cup T) <= Bytes(S) + Bytes(T)
         /\ S \cap T = {} => Bytes(S \cup T) = Bytes(S) + Bytes(T)
<1>1. /\ IsFiniteSet(Cells(S)) /\ IsFiniteSet(Cells(T))
      /\ Cardinality(Cells(S)) \in Nat /\ Cardinality(Cells(T)) \in Nat
  BY CellsFinite, FS_CardinalityType
<1>2. /\ IsFiniteSet(Cells(S) \cap Cells(T))
      /\ Cardinality(Cells(S) \cap Cells(T)) \in Nat
  BY <1>1, FS_Intersection, FS_CardinalityType
<1>3. Cardinality(Cells(S) \cup Cells(T)) =
        Cardinality(Cells(S)) + Cardinality(Cells(T))
          - Cardinality(Cells(S) \cap Cells(T))
  BY <1>1, FS_Union
<1>4. Bytes(S \cup T) = Cardinality(Cells(S) \cup Cells(T))
  BY CellsUnion DEF Bytes
<1>5. Bytes(S \cup T) <= Bytes(S) + Bytes(T)
  BY <1>1, <1>2, <1>3, <1>4 DEF Bytes
<1>6. ASSUME S \cap T = {} PROVE Bytes(S \cup T) = Bytes(S) + Bytes(T)
  <2>1. Cardinality(Cells(S) \cap Cells(T)) = 0
    BY <1>6, CellsDisjoint, FS_EmptySet
  <2> QED BY <2>1, <1>1, <1>3, <1>4 DEF Bytes
<1> QED BY <1>5, <1>6

LEMMA BytesEmpty == Bytes({}) = 0
<1>1. Cells({}) = {}
  BY DEF Cells
<1> QED BY <1>1, FS_EmptySet DEF Bytes

(* Taking a part out of a set takes its bytes out. *)
LEMMA BytesRemove ==
  ASSUME NEW T \in SUBSET Slots, NEW S \in SUBSET T
  PROVE  Bytes(T \ S) = Bytes(T) - Bytes(S)
<1> DEFINE R == T \ S
<1>1. R \in SUBSET Slots /\ S \in SUBSET Slots /\ S \cap R = {}
  OBVIOUS
<1>2. Bytes(S \cup R) = Bytes(S) + Bytes(R)
  BY <1>1, BytesUnion
<1>3. S \cup R = T
  OBVIOUS
<1>4. Bytes(S) \in Nat /\ Bytes(R) \in Nat
  BY <1>1, BytesNat
<1>5. Bytes(T) = Bytes(S) + Bytes(R)
  BY <1>2, <1>3
<1> HIDE DEF R
<1>6. Bytes(R) = Bytes(T) - Bytes(S)
  BY <1>4, <1>5
<1> QED BY <1>6 DEF R

-----------------------------------------------------------------------------
(* AccountingInv is inductive: the initial states and one lemma per action.  *)

(* What the queues hold is bounded by the slots. *)
LEMMA QueuedSlots ==
  ASSUME TypeOK
  PROVE  /\ Queued \in SUBSET Slots
         /\ pending \in SUBSET Slots /\ work \in SUBSET Slots
         /\ disk \in SUBSET Slots /\ view \in SUBSET Slots
         /\ Bytes(Queued) \in Nat
<1>1. /\ Queued \in SUBSET Slots
      /\ pending \in SUBSET Slots /\ work \in SUBSET Slots
      /\ disk \in SUBSET Slots /\ view \in SUBSET Slots
  BY DEF TypeOK, Queued, Slots
<1> QED BY <1>1, BytesNat

LEMMA InitAccounting == Init => AccountingInv
<1> SUFFICES ASSUME Init PROVE AccountingInv
  OBVIOUS
<1> USE BudgetAssumption
<1>1. view \subseteq disk \cap (Archives \cup Entries)
  BY DEF Init, SlotsOf, EntriesOf
<1>2. TypeOK
  BY <1>1 DEF Init, TypeOK, Slots
<1>3. Queued = {}
  BY DEF Init, Queued
<1>4. ChargeExact
  BY <1>3, BytesEmpty DEF Init, ChargeExact
<1>5. MarkersExact /\ HeaderReserved /\ CarrierPresent
  BY <1>3 DEF Init, MarkersExact, HeaderReserved, CarrierPresent
<1>6. InstallSound /\ ControlSound /\ ActiveFileKept
  BY <1>1 DEF Init, InstallSound, ControlSound, ActiveFileKept, Hooked
<1> QED BY <1>2, <1>4, <1>5, <1>6 DEF AccountingInv

(* A step that leaves queues, files and charge alone keeps everything but    *)
(* the types and the program counter's own facts.                            *)
LEMMA QuietStep ==
  ASSUME AccountingInv, TypeOK', UNCHANGED <<acctVars, fileVars, queueVars>>,
         ControlSound', pc' # "install"
  PROVE  AccountingInv'
BY DEF AccountingInv, acctVars, fileVars, queueVars, ChargeExact, MarkersExact,
       HeaderReserved, CarrierPresent, InstallSound, ActiveFileKept, Queued

LEMMA RecordAcceptStep ==
  ASSUME AccountingInv, NEW e \in Entries, RecordAccept(e)
  PROVE  AccountingInv'
<1> USE BudgetAssumption DEF acctVars, fileVars, queueVars, itemVars, evictVars,
                             ctlVars
<1> DEFINE a == Owner[e]
           adm == Admission(e)
<1>1. /\ TypeOK /\ ChargeExact /\ MarkersExact /\ HeaderReserved
      /\ CarrierPresent /\ InstallSound /\ ControlSound /\ ActiveFileKept
  BY DEF AccountingInv
<1>2. /\ a \in Archives /\ e \in EntriesOf(a)
      /\ adm = {e} \/ adm = {e, a}
      /\ e \in adm /\ adm \subseteq {e, a} /\ adm \in SUBSET Slots
  BY DEF Admission, EntriesOf, Slots
<1>3. adm \cap Queued = {}
  <2>1. e \notin Queued
    BY <1>1 DEF RecordAccept, Recordable, MarkersExact
  <2>2. a \in adm => a \notin Queued
    BY <1>1, <1>2 DEF Admission, Idle, CarrierPresent, MarkersExact, EntriesOf, Queued
  <2> QED BY <1>2, <2>1, <2>2
<1>4. Queued' = Queued \cup adm
  BY DEF RecordAccept, Queued
<1>5. Bytes(adm) \in Nat /\ Bytes(Queued) \in Nat /\ Queued \in SUBSET Slots
  BY <1>1, <1>2, BytesNat, QueuedSlots
<1>6. Bytes(Queued \cup adm) = Bytes(Queued) + Bytes(adm)
  BY <1>2, <1>3, <1>5, BytesUnion
<1>7. ChargeExact'
  BY <1>1, <1>4, <1>5, <1>6 DEF RecordAccept, ChargeExact, TypeOK
<1>8. TypeOK'
  <2>1. pendingBytes' \in Nat
    BY <1>1, <1>5 DEF RecordAccept, TypeOK
  <2>2. pending' \subseteq Archives \cup Entries
    BY <1>1, <1>2 DEF RecordAccept, TypeOK
  <2> HIDE DEF adm, a
  <2> QED BY <1>1, <2>1, <2>2 DEF RecordAccept, TypeOK
<1>9. MarkersExact'
  BY <1>1, <1>2, <1>3, <1>4 DEF RecordAccept, MarkersExact, Queued
<1>10. HeaderReserved'
  <2>1. a \in view \cup Queued \cup adm
    <3>1. CASE a \in view
      BY <3>1
    <3>2. CASE a \notin view /\ Idle(a)
      BY <3>2, <1>2 DEF Admission, ValidView
    <3>3. CASE ~Idle(a)
      BY <3>3, <1>1 DEF Idle, EntriesOf, HeaderReserved
    <3> QED BY <3>1, <3>2, <3>3
  <2> QED BY <1>1, <1>4, <2>1 DEF RecordAccept, HeaderReserved
<1>11. CarrierPresent'
  BY <1>1, <1>2 DEF RecordAccept, CarrierPresent
<1>12. InstallSound' /\ ControlSound' /\ ActiveFileKept'
  BY <1>1 DEF RecordAccept, InstallSound, ControlSound, ActiveFileKept, Hooked, ItemSlots
<1> QED BY <1>7, <1>8, <1>9, <1>10, <1>11, <1>12 DEF AccountingInv

(* Bookkeeping of headroom, readers and loading screens. *)
LEMMA ControlStep ==
  ASSUME AccountingInv,
         \/ \E e \in Entries : RecordReject(e) \/ VerifyEntryFails(e)
         \/ \E a \in Archives : InvalidateGeneration(a)
         \/ SetLoadActive
  PROVE  AccountingInv'
<1> USE BudgetAssumption DEF acctVars, fileVars, queueVars, itemVars, evictVars,
                             ctlVars
<1>1. /\ TypeOK /\ ChargeExact /\ MarkersExact /\ HeaderReserved
      /\ CarrierPresent /\ InstallSound /\ ControlSound /\ ActiveFileKept
  BY DEF AccountingInv
<1>2. /\ UNCHANGED <<acctVars, queueVars, disk, view, item, result, pc, ret>>
      /\ Hooked
  BY DEF RecordReject, Recordable, VerifyEntryFails, InvalidateGeneration,
         SetLoadActive
<1>3. TypeOK'
  <2>1. ASSUME NEW e \in Entries, RecordReject(e) PROVE TypeOK'
    <3>1. Bytes(Admission(e)) \in Nat
      BY BytesNat DEF Admission, Slots
    <3> QED BY <2>1, <3>1, <1>1 DEF RecordReject, Larger, Smaller, TypeOK
  <2>2. ASSUME NEW e \in Entries, VerifyEntryFails(e) PROVE TypeOK'
    BY <2>2, <1>1 DEF VerifyEntryFails, TypeOK
  <2>3. ASSUME NEW a \in Archives, InvalidateGeneration(a) PROVE TypeOK'
    BY <2>3, <1>1 DEF InvalidateGeneration, TypeOK
  <2>4. CASE SetLoadActive
    BY <2>4, <1>1 DEF SetLoadActive, TypeOK
  <2> QED BY <2>1, <2>2, <2>3, <2>4
<1>4. ChargeExact' /\ MarkersExact' /\ HeaderReserved' /\ CarrierPresent'
  BY <1>1, <1>2 DEF ChargeExact, MarkersExact, HeaderReserved, CarrierPresent, Queued
<1>5. InstallSound' /\ ControlSound' /\ ActiveFileKept'
  BY <1>1, <1>2 DEF InstallSound, ControlSound, ActiveFileKept, Hooked, ItemSlots
<1> QED BY <1>3, <1>4, <1>5 DEF AccountingInv

LEMMA ReconcileStep ==
  ASSUME AccountingInv, NEW from, NEW to,
         ReconcileDiskAccounting(from, to),
         to \in {"startRemove", "enforce", "scanned", "rescanned", "settle"},
         from \notin {"commit", "install"}
  PROVE  AccountingInv'
<1> USE BudgetAssumption DEF acctVars, fileVars, queueVars, itemVars, evictVars,
                             ctlVars
<1>1. /\ TypeOK /\ ChargeExact /\ MarkersExact /\ HeaderReserved
      /\ CarrierPresent /\ ControlSound /\ ActiveFileKept
  BY DEF AccountingInv
<1>2. /\ UNCHANGED <<fileVars, queueVars, itemVars, evictVars, ctlVars, ret>>
      /\ pc' = to
  BY DEF ReconcileDiskAccounting
<1>3. /\ totalCacheBytes' \in Nat /\ pendingBytes' \in Nat
      /\ committedReservations' \in Nat
      /\ unowned' \subseteq Archives \cup Orphans
      /\ ChargeExact'
  <2>1. Bytes(disk) \in Nat /\ Bytes(Queued) \in Nat
    BY <1>1, QueuedSlots, BytesNat
  <2>2. Queued' = Queued
    BY <1>2 DEF Queued
  <2>3. CASE ScanComplete
    BY <2>1, <2>2, <2>3, <1>1 DEF ScanComplete, ChargeExact, TypeOK
  <2>4. CASE ScanAbandoned \/ ScanSkipped
    BY <2>2, <2>4, <1>1 DEF ScanAbandoned, ScanSkipped, ChargeExact, TypeOK
  <2> QED BY <2>3, <2>4 DEF ReconcileDiskAccounting
<1>4. TypeOK'
  BY <1>1, <1>2, <1>3 DEF TypeOK
<1>5. MarkersExact' /\ HeaderReserved' /\ CarrierPresent' /\ ActiveFileKept'
  BY <1>1, <1>2 DEF MarkersExact, HeaderReserved, CarrierPresent, ActiveFileKept, Queued
<1>6. InstallSound' /\ ControlSound'
  BY <1>1, <1>2 DEF ReconcileDiskAccounting, InstallSound, ControlSound, Hooked
<1> QED BY <1>3, <1>4, <1>5, <1>6 DEF AccountingInv

LEMMA RemoveUnownedStep ==
  ASSUME AccountingInv, NEW from, NEW to, RemoveUnownedFiles(from, to),
         to \in {"startRescan", "removed"}, from \notin {"commit", "install"}
  PROVE  AccountingInv'
<1> USE BudgetAssumption DEF acctVars, fileVars, queueVars, itemVars, evictVars,
                             ctlVars
<1>1. /\ TypeOK /\ ChargeExact /\ MarkersExact /\ HeaderReserved
      /\ CarrierPresent /\ ControlSound /\ ActiveFileKept
  BY DEF AccountingInv
<1>2. /\ UNCHANGED <<acctVars, view, diskInvalidated, needsReplacement,
                     verifyFailed, queueVars, itemVars, evictVars, ctlVars, ret>>
      /\ pc' = to
  BY DEF RemoveUnownedFiles
<1>3. /\ disk' \subseteq disk
      /\ view \cap Archives \subseteq disk'
      /\ unowned' \subseteq unowned
  BY <1>1 DEF RemoveUnownedFiles, Deletable, ActiveFileKept, EntriesOf
<1>4. TypeOK' /\ ActiveFileKept'
  BY <1>1, <1>2, <1>3 DEF TypeOK, ActiveFileKept
<1>5. ChargeExact' /\ MarkersExact' /\ HeaderReserved' /\ CarrierPresent'
  BY <1>1, <1>2 DEF ChargeExact, MarkersExact, HeaderReserved, CarrierPresent, Queued
<1>6. InstallSound' /\ ControlSound'
  BY <1>1, <1>2 DEF RemoveUnownedFiles, InstallSound, ControlSound, Hooked
<1> QED BY <1>4, <1>5, <1>6 DEF AccountingInv

(* Deleting the files of archives without buffered entries. *)
LEMMA UnpublishStep ==
  ASSUME AccountingInv, NEW A \in SUBSET Archives, Unpublish(A),
         \A a \in A : Idle(a),
         UNCHANGED <<acctVars, queueVars>>
  PROVE  /\ ChargeExact' /\ MarkersExact' /\ HeaderReserved'
         /\ CarrierPresent' /\ ActiveFileKept'
         /\ disk' \subseteq disk /\ view' \subseteq view
         /\ diskInvalidated' \subseteq view' \cap Archives
         /\ needsReplacement' \subseteq needsReplacement
         /\ verifyFailed' \subseteq verifyFailed
<1> USE DEF acctVars, queueVars
<1>1. /\ TypeOK /\ ChargeExact /\ MarkersExact /\ HeaderReserved
      /\ CarrierPresent /\ ActiveFileKept
  BY DEF AccountingInv
<1>2. ChargeExact' /\ MarkersExact' /\ CarrierPresent'
  BY <1>1 DEF ChargeExact, MarkersExact, CarrierPresent, Queued
<1>3. HeaderReserved'
  <2> SUFFICES ASSUME NEW e \in bufferedOffsets
               PROVE  Owner[e] \in view' \cup Queued
    BY DEF HeaderReserved, Queued
  <2>1. e \in Entries /\ Owner[e] \notin A /\ Owner[e] \in Archives
    BY <1>1, BudgetAssumption DEF TypeOK, Idle, EntriesOf
  <2>2. Owner[e] \notin UNION { SlotsOf(a) : a \in A }
    BY <2>1, BudgetAssumption DEF SlotsOf, EntriesOf
  <2> QED BY <2>2, <1>1 DEF HeaderReserved, Unpublish
<1>4. ActiveFileKept' /\ disk' \subseteq disk /\ view' \subseteq view
  BY <1>1 DEF ActiveFileKept, Unpublish
<1>5. diskInvalidated' \subseteq view' \cap Archives
  <2> SUFFICES ASSUME NEW b \in diskInvalidated, b \notin A
               PROVE  b \in view' \cap Archives
    BY DEF Unpublish
  <2>1. b \in Archives /\ b \in view
    BY <1>1 DEF TypeOK
  <2>2. b \notin UNION { SlotsOf(a) : a \in A }
    BY <2>1, BudgetAssumption DEF SlotsOf, EntriesOf
  <2> QED BY <2>1, <2>2 DEF Unpublish
<1> QED BY <1>2, <1>3, <1>4, <1>5 DEF Unpublish

LEMMA EvictStep ==
  ASSUME AccountingInv, NEW a \in Archives, Evict(a)
  PROVE  AccountingInv'
<1> USE BudgetAssumption DEF acctVars, fileVars, queueVars, itemVars, evictVars,
                             ctlVars
<1>1. TypeOK /\ ControlSound /\ InstallSound
  BY DEF AccountingInv
<1>2. CASE a \in view /\ Idle(a) /\ Unpublish({a})
           /\ estimated' = Larger(0, estimated - Bytes(view \cap SlotsOf(a)))
           /\ evicted' = TRUE
  <2>1. /\ ChargeExact' /\ MarkersExact' /\ HeaderReserved'
        /\ CarrierPresent' /\ ActiveFileKept'
        /\ disk' \subseteq disk /\ view' \subseteq view
        /\ diskInvalidated' \subseteq view' \cap Archives
        /\ needsReplacement' \subseteq needsReplacement
        /\ verifyFailed' \subseteq verifyFailed
    BY <1>2, UnpublishStep, {a} \in SUBSET Archives, \A b \in {a} : Idle(b)
       DEF Evict
  <2>2. Bytes(view \cap SlotsOf(a)) \in Nat
    BY <1>1, QueuedSlots, BytesNat, view \cap SlotsOf(a) \in SUBSET Slots
  <2>3. estimated' \in Nat
    BY <1>1, <1>2, <2>2 DEF Larger, TypeOK
  <2>4. TypeOK'
    BY <1>1, <1>2, <2>1, <2>3 DEF Evict, TypeOK
  <2>5. InstallSound' /\ ControlSound'
    BY <1>1 DEF Evict, InstallSound, ControlSound, Hooked
  <2> QED BY <2>1, <2>4, <2>5 DEF AccountingInv
<1>3. CASE UNCHANGED <<fileVars, estimated, evicted>>
  <2>1. TypeOK'
    BY <1>1, <1>3 DEF Evict, TypeOK
  <2>2. ControlSound' /\ pc' # "install"
    BY <1>1 DEF Evict, ControlSound, Hooked
  <2> QED BY <1>3, <2>1, <2>2, QuietStep DEF Evict
<1> QED BY <1>2, <1>3 DEF Evict

LEMMA RetireStep ==
  ASSUME AccountingInv, RetireInvalid
  PROVE  AccountingInv'
<1> USE BudgetAssumption DEF acctVars, fileVars, queueVars, itemVars, evictVars,
                             ctlVars
<1>1. TypeOK /\ ControlSound
  BY DEF AccountingInv
<1>2. PICK A \in SUBSET { a \in diskInvalidated : Idle(a) } : Unpublish(A)
  BY DEF RetireInvalid
<1>3. A \in SUBSET Archives /\ \A a \in A : Idle(a)
  BY <1>1, <1>2 DEF TypeOK
<1>4. UNCHANGED <<acctVars, queueVars>>
  BY DEF RetireInvalid
<1>5. /\ ChargeExact' /\ MarkersExact' /\ HeaderReserved'
      /\ CarrierPresent' /\ ActiveFileKept'
      /\ disk' \subseteq disk /\ view' \subseteq view
      /\ diskInvalidated' \subseteq view' \cap Archives
      /\ needsReplacement' \subseteq needsReplacement
      /\ verifyFailed' \subseteq verifyFailed
  BY <1>2, <1>3, <1>4, UnpublishStep
<1>6. TypeOK'
  BY <1>1, <1>5 DEF RetireInvalid, TypeOK
<1>7. InstallSound' /\ ControlSound'
  BY <1>1 DEF RetireInvalid, InstallSound, ControlSound, Hooked
<1> QED BY <1>5, <1>6, <1>7 DEF AccountingInv

(* The common exit keeps the types of what it resets. *)
LEMMA EnforceReturnTypes ==
  ASSUME EnforceReturn
  PROVE  /\ pc' \in {"retire", "idle"} /\ ret' = "idle"
         /\ requested' \in Nat /\ estimated' \in Nat
         /\ candidates' \subseteq Archives /\ evicted' \in BOOLEAN
BY DEF EnforceReturn

LEMMA RestoreTypes ==
  ASSUME TypeOK, RestoreHeadroom \/ UNCHANGED requiredHeadroom
  PROVE  requiredHeadroom' \in Nat
BY DEF RestoreHeadroom, Larger, TypeOK

(* The steps of the limiter and of the flush that only move the control. *)
LEMMA EnforceControlStep ==
  ASSUME AccountingInv,
         \/ EnforceBegin \/ EnforceCheck \/ EvictDone \/ EnforceEnd
         \/ FlushBegin
         \/ /\ pc = "removed" /\ loadActive
            /\ RestoreHeadroom /\ EnforceReturn
            /\ UNCHANGED <<acctVars, fileVars, queueVars, itemVars, loadActive,
                           building, unowned>>
  PROVE  AccountingInv'
<1> USE BudgetAssumption DEF acctVars, fileVars, queueVars, itemVars, evictVars,
                             ctlVars
<1>1. TypeOK /\ ControlSound
  BY DEF AccountingInv
<1>2. UNCHANGED <<acctVars, fileVars, queueVars, itemVars, loadActive>>
  BY DEF EnforceBegin, EnforceCheck, EvictDone, EnforceEnd, FlushBegin
<1>3. pc' # "install" /\ ControlSound'
  BY <1>1, <1>2 DEF EnforceBegin, EnforceCheck, EvictDone, EnforceEnd, FlushBegin,
     EnforceReturn, ControlSound, Hooked, TypeOK
<1>4. TypeOK'
  <2>1. ASSUME EnforceReturn, RestoreHeadroom \/ UNCHANGED requiredHeadroom,
               building' = building, unowned' = unowned
        PROVE  TypeOK'
    <3>1. /\ pc' \in {"retire", "idle"} /\ ret' = "idle"
          /\ requested' \in Nat /\ estimated' \in Nat
          /\ candidates' \subseteq Archives /\ evicted' \in BOOLEAN
      BY <2>1, EnforceReturnTypes
    <3>2. requiredHeadroom' \in Nat
      BY <2>1, <1>1, RestoreTypes
    <3> QED BY <2>1, <3>1, <3>2, <1>1, <1>2 DEF TypeOK
  <2>3. CASE EnforceCheck /\ ~EnforceReturn
    <3>1. /\ UNCHANGED <<requested, evicted, ret, requiredHeadroom, building,
                         unowned>>
          /\ \/ pc' = "remove" /\ UNCHANGED <<estimated, candidates>>
             \/ /\ pc' = "evict"
                /\ estimated' = totalCacheBytes
                /\ candidates' = { a \in Archives \cap view : Idle(a) }
      BY <2>3, Zenon DEF EnforceCheck
    <3>2. /\ estimated' \in Nat /\ candidates' \subseteq Archives
          /\ pc' \in {"remove", "evict"}
      BY <3>1, <1>1 DEF TypeOK
    <3> QED BY <3>1, <3>2, <1>1, <1>2 DEF TypeOK
  <2>4. CASE EvictDone
    BY <2>4, <1>1 DEF EvictDone, TypeOK
  <2>5. CASE FlushBegin
    BY <2>5, <1>1 DEF FlushBegin, TypeOK
  <2>6. CASE EnforceBegin
    <3>1. building' = building /\ unowned' = unowned
      BY <2>6 DEF EnforceBegin
    <3>2. CASE Cap = 0 \/ loadActive
      <4>1. EnforceReturn /\ UNCHANGED requiredHeadroom
        BY <2>6, <3>2, Zenon DEF EnforceBegin
      <4> QED BY <2>1, <3>1, <4>1
    <3>3. CASE ~(Cap = 0 \/ loadActive)
      BY <2>6, <3>3, <1>1 DEF EnforceBegin, TypeOK
    <3> QED BY <3>2, <3>3
  <2>7. CASE EnforceCheck
    <3>1. building' = building /\ unowned' = unowned
      BY <2>7 DEF EnforceCheck
    <3>2. CASE EnforceReturn
      <4>1. RestoreHeadroom \/ UNCHANGED requiredHeadroom
        BY <2>7, Zenon DEF EnforceCheck
      <4> QED BY <2>1, <3>1, <3>2, <4>1
    <3> QED BY <2>3, <2>7, <3>2
  <2>8. CASE EnforceEnd
    <3>1. /\ building' = building /\ unowned' = unowned
          /\ EnforceReturn /\ (RestoreHeadroom \/ UNCHANGED requiredHeadroom)
      BY <2>8, Zenon DEF EnforceEnd
    <3> QED BY <2>1, <3>1
  <2>9. CASE /\ pc = "removed" /\ loadActive
             /\ RestoreHeadroom /\ EnforceReturn
             /\ UNCHANGED <<acctVars, fileVars, queueVars, itemVars, loadActive,
                            building, unowned>>
    BY <2>1, <2>9
  <2> QED BY <2>4, <2>5, <2>6, <2>7, <2>8, <2>9
<1> QED BY <1>2, <1>3, <1>4, QuietStep

LEMMA SnapshotStep ==
  ASSUME AccountingInv, SnapshotWork
  PROVE  AccountingInv'
<1> USE BudgetAssumption DEF acctVars, fileVars, queueVars, itemVars, evictVars,
                             ctlVars
<1>1. /\ TypeOK /\ ChargeExact /\ MarkersExact /\ HeaderReserved
      /\ CarrierPresent /\ ControlSound /\ ActiveFileKept
  BY DEF AccountingInv
<1>2. CASE work' = pending /\ pending' = {} /\ pc' = "commit"
           /\ resetFile' \subseteq Archives
  <2>1. work = {} /\ Queued' = Queued
    BY <1>1, <1>2 DEF Queued, ControlSound, SnapshotWork
  <2>2. TypeOK'
    BY <1>1, <1>2 DEF SnapshotWork, TypeOK
  <2>3. ChargeExact' /\ MarkersExact' /\ HeaderReserved' /\ CarrierPresent'
    BY <1>1, <1>2, <2>1 DEF SnapshotWork, ChargeExact, MarkersExact,
       HeaderReserved, CarrierPresent
  <2>4. InstallSound' /\ ControlSound' /\ ActiveFileKept'
    BY <1>1, <1>2 DEF SnapshotWork, InstallSound, ControlSound, ActiveFileKept, Hooked
  <2> QED BY <2>2, <2>3, <2>4 DEF AccountingInv
<1>3. CASE UNCHANGED <<work, pending, resetFile>> /\ pc' = "idle"
  <2>1. TypeOK' /\ ControlSound'
    BY <1>1, <1>3 DEF SnapshotWork, TypeOK, ControlSound, Hooked
  <2> QED BY <1>3, <2>1, QuietStep DEF SnapshotWork
<1> QED BY <1>2, <1>3 DEF SnapshotWork

(* The file work of a flush: a committed item holds the header and all the   *)
(* payloads of its item.                                                     *)
LEMMA AppendStep ==
  ASSUME AccountingInv, NEW a \in Archives, AppendFile(a)
  PROVE  AccountingInv'
<1> USE BudgetAssumption DEF acctVars, fileVars, queueVars, itemVars, evictVars,
                             ctlVars
<1>1. /\ TypeOK /\ ChargeExact /\ MarkersExact /\ HeaderReserved
      /\ CarrierPresent /\ ControlSound /\ ActiveFileKept
  BY DEF AccountingInv
<1>2. /\ UNCHANGED <<acctVars, view, queueVars, resetFile, ctlVars, ret>>
      /\ item' = a /\ pc' = "install" /\ work \cap SlotsOf(a) # {}
  BY DEF AppendFile
<1>3. /\ disk' \subseteq Slots
      /\ disk \cap Archives \subseteq disk'
      /\ result' \subseteq Archives \cup Entries
      /\ result' # {} => /\ a \in result' \cap disk'
                         /\ work \cap EntriesOf(a) \subseteq result'
      /\ result' \subseteq SlotsOf(a)
  <2>1. /\ FreshFile(a) \subseteq Slots \cap (Archives \cup Entries)
        /\ a \in FreshFile(a) /\ work \cap EntriesOf(a) \subseteq FreshFile(a)
        /\ FreshFile(a) \subseteq SlotsOf(a)
    BY <1>1 DEF FreshFile, SlotsOf, TypeOK, Slots
  <2>2. \A b \in Archives : b \in SlotsOf(a) => b = a
    BY DEF SlotsOf, EntriesOf
  <2>3. CASE Commit(a, FreshFile(a))
    BY <1>1, <2>1, <2>2, <2>3 DEF Commit, TypeOK
  <2>4. CASE Commit(a, (disk \cap SlotsOf(a)) \cup FreshFile(a))
    <3>1. disk \cap SlotsOf(a) \subseteq Archives \cup Entries
      BY DEF SlotsOf, EntriesOf
    <3> QED BY <1>1, <2>1, <2>2, <2>4, <3>1 DEF Commit, TypeOK
  <2>5. CASE result' = {} /\ (UNCHANGED disk \/ \E o \in Orphans : disk' = disk \cup {o})
    BY <1>1, <2>5 DEF TypeOK, Slots
  <2> QED BY <2>3, <2>4, <2>5 DEF AppendFile
<1>4. TypeOK'
  BY <1>1, <1>2, <1>3 DEF AppendFile, TypeOK
<1>5. ChargeExact' /\ MarkersExact' /\ HeaderReserved' /\ CarrierPresent'
  BY <1>1, <1>2 DEF ChargeExact, MarkersExact, HeaderReserved, CarrierPresent, Queued
<1>6. InstallSound'
  <2>1. ItemSlots' = work \cap SlotsOf(a)
    BY <1>2 DEF ItemSlots
  <2>2. ItemSlots' \cap Entries \subseteq work \cap EntriesOf(a)
    BY <2>1 DEF SlotsOf
  <2> QED BY <1>2, <1>3, <2>1, <2>2 DEF InstallSound
<1>7. ControlSound' /\ ActiveFileKept'
  BY <1>1, <1>2, <1>3 DEF ControlSound, ActiveFileKept, Hooked
<1> QED BY <1>4, <1>5, <1>6, <1>7 DEF AccountingInv

LEMMA InstallStep ==
  ASSUME AccountingInv, InstallCommitted
  PROVE  AccountingInv'
<1> USE BudgetAssumption DEF acctVars, fileVars, queueVars, itemVars, evictVars,
                             ctlVars
<1>1. /\ TypeOK /\ ChargeExact /\ MarkersExact /\ HeaderReserved
      /\ CarrierPresent /\ InstallSound /\ ControlSound /\ ActiveFileKept
  BY DEF AccountingInv
<1>2. /\ item \in Archives /\ ItemSlots # {}
      /\ item \in result \cap disk
  BY <1>1 DEF InstallCommitted, Installed, InstallSound
<1>3. /\ work' = work \ ItemSlots /\ pending' = pending
      /\ ItemSlots \subseteq work
  BY DEF InstallCommitted, Installed, ItemSlots
<1>4. /\ ItemSlots \in SUBSET Queued /\ Queued' = Queued \ ItemSlots
      /\ Queued \in SUBSET Slots
  BY <1>1, <1>3, QueuedSlots DEF Queued, MarkersExact
<1>5. /\ Bytes(ItemSlots) \in Nat /\ Bytes(Queued) \in Nat
      /\ Bytes(Queued') \in Nat
      /\ Bytes(Queued') = Bytes(Queued) - Bytes(ItemSlots)
  BY <1>4, BytesRemove, BytesNat
<1>6. ChargeExact'
  BY <1>1, <1>5 DEF InstallCommitted, Installed, ChargeExact, TypeOK
<1>7. TypeOK'
  <2>1. committedReservations' \in Nat
    BY <1>1, <1>5 DEF InstallCommitted, Installed, TypeOK
  <2>2. view' \subseteq Archives \cup Entries
    BY <1>1 DEF InstallCommitted, Installed, TypeOK
  <2>3. diskInvalidated' \subseteq view' \cap Archives
    <3> SUFFICES ASSUME NEW b \in diskInvalidated, b # item
                 PROVE  b \in view' \cap Archives
      BY DEF InstallCommitted, Installed
    <3>1. b \in view /\ b \in Archives /\ b \notin SlotsOf(item)
      BY <1>1, <1>2 DEF TypeOK, SlotsOf, EntriesOf
    <3> QED BY <3>1 DEF InstallCommitted, Installed
  <2> QED BY <1>1, <2>1, <2>2, <2>3 DEF InstallCommitted, Installed, TypeOK
<1>8. MarkersExact'
  BY <1>1, <1>3, <1>4 DEF InstallCommitted, Installed, MarkersExact
<1>9. HeaderReserved'
  <2> SUFFICES ASSUME NEW e \in bufferedOffsets, e \notin ItemSlots
               PROVE  Owner[e] \in view' \cup Queued'
    BY DEF HeaderReserved, InstallCommitted, Installed
  <2>1. CASE Owner[e] = item
    BY <2>1, <1>2 DEF InstallCommitted, Installed
  <2>2. CASE Owner[e] # item
    <3>1. Owner[e] \in Archives /\ Owner[e] \in view \cup Queued
      BY <1>1 DEF HeaderReserved, TypeOK
    <3>2. Owner[e] \notin SlotsOf(item)
      BY <2>2, <3>1, <1>2 DEF SlotsOf, EntriesOf
    <3> QED BY <3>1, <3>2, <1>4 DEF InstallCommitted, Installed, ItemSlots
  <2> QED BY <2>1, <2>2
<1>10. CarrierPresent'
  <2> SUFFICES ASSUME NEW b \in Archives, b \in work, b \notin ItemSlots
               PROVE  EntriesOf(b) \cap work' # {}
    BY <1>1, <1>3 DEF CarrierPresent
  <2>1. b # item
    BY DEF ItemSlots, SlotsOf
  <2>2. EntriesOf(b) \cap SlotsOf(item) = {}
    BY <2>1, <1>2 DEF SlotsOf, EntriesOf
  <2> QED BY <1>1, <1>3, <2>2 DEF CarrierPresent, ItemSlots
<1>11. InstallSound' /\ ControlSound'
  BY <1>1 DEF InstallCommitted, Installed, InstallSound, ControlSound, Hooked
<1>12. ActiveFileKept'
  <2> SUFFICES ASSUME NEW b \in Archives, b \in view' PROVE b \in disk
    BY DEF ActiveFileKept, InstallCommitted, Installed
  <2>1. CASE b \in view
    BY <2>1, <1>1 DEF ActiveFileKept
  <2>2. CASE b \in result
    <3>1. b \in SlotsOf(item)
      BY <2>2, <1>1 DEF InstallSound, InstallCommitted, Installed
    <3> QED BY <3>1, <1>2 DEF SlotsOf, EntriesOf
  <2> QED BY <2>1, <2>2 DEF InstallCommitted, Installed
<1> QED BY <1>6, <1>7, <1>8, <1>9, <1>10, <1>11, <1>12 DEF AccountingInv

LEMMA RequeueStep ==
  ASSUME AccountingInv, RequeueFailed
  PROVE  AccountingInv'
<1> USE BudgetAssumption DEF acctVars, fileVars, queueVars, itemVars, evictVars,
                             ctlVars
<1>1. /\ TypeOK /\ ChargeExact /\ MarkersExact /\ HeaderReserved
      /\ CarrierPresent /\ InstallSound /\ ControlSound /\ ActiveFileKept
  BY DEF AccountingInv
<1>2. /\ work' = work \ ItemSlots /\ pending' = pending \cup ItemSlots
      /\ ItemSlots \subseteq work /\ item \in Archives
  BY <1>1 DEF RequeueFailed, ItemSlots, InstallSound
<1>3. Queued' = Queued
  BY <1>2 DEF Queued
<1>4. TypeOK'
  BY <1>1, <1>2 DEF RequeueFailed, TypeOK
<1>5. ChargeExact' /\ MarkersExact' /\ HeaderReserved'
  BY <1>1, <1>2, <1>3 DEF RequeueFailed, ChargeExact, MarkersExact, HeaderReserved
<1>6. CarrierPresent'
  <2>1. \A b \in Archives : b # item => EntriesOf(b) \cap SlotsOf(item) = {}
    BY <1>2 DEF SlotsOf, EntriesOf
  <2>2. EntriesOf(item) \subseteq SlotsOf(item)
    BY DEF SlotsOf
  <2>3. \A b \in Archives : b \in SlotsOf(item) <=> b = item
    BY <1>2 DEF SlotsOf, EntriesOf
  <2>4. ASSUME NEW b \in Archives, b \in pending'
        PROVE  EntriesOf(b) \cap pending' # {}
    <3>1. CASE b \in pending
      BY <3>1, <1>1, <1>2 DEF CarrierPresent
    <3>2. CASE b \in ItemSlots
      BY <3>2, <2>2, <2>3, <1>1, <1>2 DEF CarrierPresent, ItemSlots
    <3> QED BY <2>4, <3>1, <3>2, <1>2
  <2>5. ASSUME NEW b \in Archives, b \in work'
        PROVE  EntriesOf(b) \cap work' # {}
    <3>1. b # item /\ b \in work
      BY <2>3, <2>5, <1>2 DEF ItemSlots
    <3> QED BY <2>1, <3>1, <1>1, <1>2 DEF CarrierPresent, ItemSlots
  <2> QED BY <2>4, <2>5 DEF CarrierPresent
<1>7. InstallSound' /\ ControlSound' /\ ActiveFileKept'
  BY <1>1 DEF RequeueFailed, InstallSound, ControlSound, ActiveFileKept, Hooked
<1> QED BY <1>4, <1>5, <1>6, <1>7 DEF AccountingInv

LEMMA DropStep ==
  ASSUME AccountingInv, DropFailed
  PROVE  AccountingInv'
<1> USE BudgetAssumption DEF acctVars, fileVars, queueVars, itemVars, evictVars,
                             ctlVars
<1> DEFINE keep == { a \in {item} \cap ItemSlots :
                       ~ValidView(a) /\ pending \cap SlotsOf(a) # {} }
           gone == ItemSlots \ keep
<1>1. /\ TypeOK /\ ChargeExact /\ MarkersExact /\ HeaderReserved
      /\ CarrierPresent /\ InstallSound /\ ControlSound /\ ActiveFileKept
  BY DEF AccountingInv
<1>2. /\ work' = work \ ItemSlots /\ pending' = pending \cup keep
      /\ bufferedOffsets' = bufferedOffsets \ ItemSlots
      /\ pendingBytes' = pendingBytes - Bytes(gone)
      /\ ItemSlots \subseteq work /\ item \in Archives
      /\ keep \subseteq ItemSlots /\ keep \subseteq {item}
  BY <1>1 DEF DropFailed, Drop, Kept, ItemSlots, InstallSound
<1>3. /\ gone \in SUBSET Queued /\ Queued' = Queued \ gone
      /\ Queued \in SUBSET Slots
  BY <1>1, <1>2, QueuedSlots DEF Queued, MarkersExact
<1>4. /\ Bytes(gone) \in Nat /\ Bytes(Queued) \in Nat
      /\ Bytes(Queued') \in Nat
      /\ Bytes(Queued') = Bytes(Queued) - Bytes(gone)
  BY <1>3, BytesRemove, BytesNat
<1> HIDE DEF gone
<1>5. ChargeExact' /\ pendingBytes' \in Nat
  BY <1>1, <1>2, <1>4 DEF DropFailed, Drop, Kept, ChargeExact, TypeOK
<1>6. TypeOK'
  <2>1. pending' \subseteq Archives \cup Entries
    BY <1>1, <1>2 DEF TypeOK
  <2> HIDE DEF keep
  <2> QED BY <1>1, <1>2, <1>5, <2>1 DEF DropFailed, Drop, Kept, TypeOK
<1>7. MarkersExact'
  <2>1. Queued' \cap Entries = bufferedOffsets \ ItemSlots
    BY <1>1, <1>2, <1>3 DEF gone, MarkersExact
  <2> QED BY <1>1, <1>2, <2>1 DEF MarkersExact
<1>8. HeaderReserved'
  <2> SUFFICES ASSUME NEW e \in bufferedOffsets, e \notin ItemSlots
               PROVE  Owner[e] \in view \cup Queued'
    BY <1>2 DEF HeaderReserved, DropFailed, Drop, Kept
  <2>0. e \in Entries /\ Owner[e] \in Archives /\ e \in Queued
    BY <1>1 DEF TypeOK, MarkersExact
  <2>1. CASE Owner[e] = item
    <3>1. e \in pending \cap SlotsOf(item)
      BY <2>0, <2>1 DEF Queued, ItemSlots, SlotsOf, EntriesOf
    <3>2. item \in view \cup Queued
      BY <2>1, <1>1 DEF HeaderReserved
    <3>3. CASE item \in view
      BY <2>1, <3>3
    <3>4. CASE item \in Queued /\ item \notin view
      <4>1. item \in gone => FALSE
        BY <3>1, <3>4 DEF gone, ValidView
      <4> QED BY <2>1, <3>4, <4>1, <1>3
    <3> QED BY <3>2, <3>3, <3>4
  <2>2. CASE Owner[e] # item
    <3>1. Owner[e] \notin ItemSlots
      BY <2>0, <2>2, <1>2 DEF ItemSlots, SlotsOf, EntriesOf
    <3> QED BY <3>1, <1>1, <1>3 DEF HeaderReserved, gone
  <2> QED BY <2>1, <2>2
<1>9. CarrierPresent'
  <2>1. \A b \in Archives : b # item => EntriesOf(b) \cap SlotsOf(item) = {}
    BY <1>2 DEF SlotsOf, EntriesOf
  <2>2. \A b \in Archives : b \in SlotsOf(item) <=> b = item
    BY <1>2 DEF SlotsOf, EntriesOf
  <2>3. ASSUME NEW b \in Archives, b \in pending'
        PROVE  EntriesOf(b) \cap pending' # {}
    <3>1. CASE b \in pending
      BY <3>1, <1>1, <1>2 DEF CarrierPresent
    <3>2. CASE b \in keep /\ b \notin pending
      <4>1. b = item /\ pending \cap SlotsOf(item) # {}
        BY <3>2
      <4>2. pending \cap EntriesOf(item) # {}
        BY <4>1, <3>2 DEF SlotsOf
      <4> QED BY <4>1, <4>2, <1>2
    <3> QED BY <2>3, <3>1, <3>2, <1>2
  <2>4. ASSUME NEW b \in Archives, b \in work'
        PROVE  EntriesOf(b) \cap work' # {}
    <3>1. b # item /\ b \in work
      BY <2>2, <2>4, <1>2 DEF ItemSlots
    <3> QED BY <2>1, <3>1, <1>1, <1>2 DEF CarrierPresent, ItemSlots
  <2> QED BY <2>3, <2>4 DEF CarrierPresent
<1>10. InstallSound' /\ ControlSound' /\ ActiveFileKept'
  BY <1>1 DEF DropFailed, Drop, Kept, InstallSound, ControlSound, ActiveFileKept, Hooked
<1> QED BY <1>5, <1>6, <1>7, <1>8, <1>9, <1>10 DEF AccountingInv

LEMMA CommitsDoneStep ==
  ASSUME AccountingInv, CommitsDone
  PROVE  AccountingInv'
<1> USE BudgetAssumption DEF acctVars, fileVars, queueVars, itemVars, evictVars,
                             ctlVars
<1>1. TypeOK /\ ControlSound
  BY DEF AccountingInv
<1>2. TypeOK' /\ ControlSound' /\ pc' # "install"
  BY <1>1 DEF CommitsDone, TypeOK, ControlSound, Hooked
<1> QED BY <1>2, QuietStep DEF CommitsDone

LEMMA NextAccounting == AccountingInv /\ [Next]_<<failures, vars>> => AccountingInv'
<1> SUFFICES ASSUME AccountingInv, [Next]_<<failures, vars>> PROVE AccountingInv'
  OBVIOUS
<1>1. CASE Startup
  BY <1>1, ReconcileStep, RemoveUnownedStep DEF Startup
<1>2. ASSUME NEW e \in Entries,
             RecordAccept(e) \/ RecordReject(e) \/ VerifyEntryFails(e)
      PROVE  AccountingInv'
  BY <1>2, RecordAcceptStep, ControlStep
<1>3. CASE (\E a \in Archives : InvalidateGeneration(a)) \/ SetLoadActive
  BY <1>3, ControlStep
<1>4. CASE EnforceSizeLimit
  <2>1. CASE EnforceScan \/ EnforceLastScan
    BY <2>1, ReconcileStep DEF EnforceScan, EnforceLastScan
  <2>2. CASE EnforceRemove
    BY <2>2, RemoveUnownedStep DEF EnforceRemove
  <2>3. CASE EnforceRescan
    <3>1. CASE ReconcileDiskAccounting("removed", "rescanned")
      BY <3>1, ReconcileStep
    <3> QED BY <2>3, <3>1, EnforceControlStep, Zenon DEF EnforceRescan
  <2>4. CASE EnforceBegin \/ EnforceCheck \/ EvictDone \/ EnforceEnd
    BY <2>4, EnforceControlStep, Zenon
  <2>5. CASE \E a \in Archives : Evict(a)
    BY <2>5, EvictStep
  <2> QED BY <1>4, <2>1, <2>2, <2>3, <2>4, <2>5, Zenon DEF EnforceSizeLimit
<1>5. CASE FlushToDisk
  <2>1. CASE ReconcileDiskAccounting("finalScan", "enforce")
    BY <2>1, ReconcileStep
  <2>2. CASE \E a \in Archives : AppendFile(a)
    BY <2>2, AppendStep
  <2> QED BY <1>5, <2>1, <2>2, EnforceControlStep, RetireStep, SnapshotStep,
             InstallStep, RequeueStep, DropStep, CommitsDoneStep, Zenon
          DEF FlushToDisk
<1>6. CASE UNCHANGED <<failures, vars>>
  <2>1. TypeOK /\ ControlSound /\ InstallSound
    BY DEF AccountingInv
  <2>2. TypeOK' /\ ControlSound' /\ InstallSound'
    BY <1>6, <2>1 DEF vars, acctVars, fileVars, queueVars, itemVars, evictVars,
       ctlVars, TypeOK, ControlSound, InstallSound, ItemSlots, Hooked
  <2>3. /\ ChargeExact' /\ MarkersExact' /\ HeaderReserved' /\ CarrierPresent'
        /\ ActiveFileKept'
    BY <1>6 DEF vars, acctVars, fileVars, queueVars, AccountingInv, ChargeExact,
       MarkersExact, HeaderReserved, CarrierPresent, ActiveFileKept, Queued
  <2> QED BY <2>2, <2>3 DEF AccountingInv
<1> QED BY <1>1, <1>2, <1>3, <1>4, <1>5, <1>6 DEF Next, Step

(* In every reachable state the accounting invariant holds: the charge is    *)
(* exact through every commit, requeue, drop and eviction, a marked entry is *)
(* owned by exactly one queue, a needed header is paid for, and the file of  *)
(* a published mapping exists.                                               *)
THEOREM AccountingCorrect == Spec => []AccountingInv
BY InitAccounting, NextAccounting, PTL DEF Spec

(* The parts of it that the runs check by name. *)
THEOREM ChargeCorrect ==
  Spec => [](TypeOK /\ ChargeExact /\ MarkersExact /\ HeaderReserved
             /\ ActiveFileKept)
<1>1. AccountingInv => TypeOK /\ ChargeExact /\ MarkersExact /\ HeaderReserved
                       /\ ActiveFileKept
  BY DEF AccountingInv
<1> QED BY <1>1, AccountingCorrect, PTL

-----------------------------------------------------------------------------
(* The hard cap.  It needs two things the code cannot promise by itself:     *)
(* that the scan of Initialize succeeds, and that no allocation of a flush   *)
(* fails between a commit and the requeue of its item.                       *)

(* The slots Demand counts. *)
Demanded == (disk \ Orphans) \cup Queued

LEMMA DemandNat ==
  ASSUME TypeOK
  PROVE  Demanded \in SUBSET Slots /\ Demand \in Nat /\ Demand = Bytes(Demanded)
<1>1. Demanded \in SUBSET Slots
  BY QueuedSlots DEF Demanded
<1>2. Demand = Bytes(Demanded)
  BY DEF Demand, Demanded
<1> QED BY <1>1, <1>2, BytesNat

(* A step that demands no new slot and leaves the counters alone.            *)
LEMMA NoNewDemand ==
  ASSUME AccountingInv, AccountingInv', Demanded' \subseteq Demanded
  PROVE  Demand' <= Demand
<1>1. TypeOK /\ TypeOK'
  BY DEF AccountingInv
<1>2. Demanded \in SUBSET Slots /\ Demanded' \in SUBSET Demanded
      /\ Demand = Bytes(Demanded)
  BY <1>1, DemandNat
<1>3. Demand' = Bytes(Demanded')
  BY DEF Demand, Demanded
<1> QED BY <1>2, <1>3, BytesMonotone

LEMMA RecordDemand ==
  ASSUME NoFaults, AccountingInv, AccountingInv', DemandCovered,
         NEW e \in Entries, RecordAccept(e)
  PROVE  /\ Demand' <= totalCacheBytes' + pendingBytes'
         /\ Demand' <= Cap
<1> USE BudgetAssumption DEF fileVars
<1> DEFINE adm == Admission(e)
<1>1. TypeOK /\ ControlSound
  BY DEF AccountingInv
<1>2. pc # "startScan"
  BY <1>1 DEF RecordAccept, Recordable, ControlSound
<1>3. adm \in SUBSET Slots
  BY DEF Admission, Slots
<1>4. Demanded' = Demanded \cup adm /\ Demand' = Bytes(Demanded')
  BY DEF RecordAccept, Demanded, Demand, Queued
<1>5. /\ Demanded \in SUBSET Slots /\ Demand \in Nat
      /\ Demand = Bytes(Demanded) /\ Bytes(adm) \in Nat
  BY <1>1, <1>3, DemandNat, BytesNat
<1>6. Demand' <= Demand + Bytes(adm)
  BY <1>3, <1>4, <1>5, BytesUnion
<1>7. Demand <= totalCacheBytes + pendingBytes
  BY <1>2 DEF DemandCovered
<1>8. /\ totalCacheBytes' = totalCacheBytes
      /\ pendingBytes' = pendingBytes + Bytes(adm)
      /\ totalCacheBytes + pendingBytes + Bytes(adm) <= Cap
  BY DEF RecordAccept, FitsCap
<1>9. /\ totalCacheBytes \in Nat /\ pendingBytes \in Nat /\ Cap \in Nat
      /\ Demand' \in Nat
  <2>1. TypeOK'
    BY DEF AccountingInv
  <2>2. Demanded' \in SUBSET Slots
    BY <1>3, <1>4, <1>5
  <2> QED BY <1>1, <1>4, <2>2, BytesNat DEF TypeOK
<1> HIDE DEF adm
<1> QED BY <1>5, <1>6, <1>7, <1>8, <1>9

(* A complete scan sees every committed byte, and what is queued stays       *)
(* charged.                                                                  *)
LEMMA ScanDemand ==
  ASSUME AccountingInv, AccountingInv', ScanComplete, UNCHANGED <<disk, Queued>>
  PROVE  Demand' <= totalCacheBytes' + pendingBytes' /\ Demand' = Demand
<1>1. TypeOK /\ TypeOK' /\ ChargeExact
  BY DEF AccountingInv
<1>2. /\ disk \in SUBSET Slots /\ Queued \in SUBSET Slots
      /\ disk \ Orphans \in SUBSET Slots /\ disk \ Orphans \in SUBSET disk
  BY <1>1, QueuedSlots
<1>3. Demand <= Bytes(disk \ Orphans) + Bytes(Queued)
  BY <1>2, BytesUnion DEF Demand
<1>4. Bytes(disk \ Orphans) <= Bytes(disk)
  BY <1>2, BytesMonotone
<1>5. Demand' = Demand
  BY DEF Demand
<1>6. /\ totalCacheBytes' = Bytes(disk)
      /\ pendingBytes' = Bytes(Queued)
  <2>1. Bytes(Queued) \in Nat /\ committedReservations \in Nat
    BY <1>1, <1>2, BytesNat DEF TypeOK
  <2> QED BY <1>1, <2>1 DEF ScanComplete, ChargeExact
<1>7. /\ Bytes(disk \ Orphans) \in Nat /\ Bytes(disk) \in Nat
      /\ Bytes(Queued) \in Nat /\ Demand \in Nat
  BY <1>1, <1>2, BytesNat, DemandNat
<1> QED BY <1>3, <1>4, <1>5, <1>6, <1>7

(* Committing an item needs no byte that was not already charged: the item   *)
(* carries its payloads, and its header is either on disk or reserved.       *)
LEMMA AppendDemand ==
  ASSUME AccountingInv, NEW a \in Archives, AppendFile(a)
  PROVE  Demanded' \subseteq Demanded
<1> USE BudgetAssumption DEF queueVars
<1>1. TypeOK /\ MarkersExact /\ HeaderReserved /\ ActiveFileKept
  BY DEF AccountingInv
<1>2. a \in Demanded
  <2>1. CASE a \in work
    BY <2>1 DEF Demanded, Queued
  <2>2. CASE a \notin work
    <3>1. PICK e \in EntriesOf(a) : e \in work
      BY <2>2 DEF AppendFile, SlotsOf
    <3>2. e \in bufferedOffsets /\ Owner[e] = a
      BY <3>1, <1>1 DEF MarkersExact, Queued, EntriesOf
    <3>3. a \in view \cup Queued
      BY <3>2, <1>1 DEF HeaderReserved
    <3> QED BY <3>3, <1>1 DEF ActiveFileKept, Demanded
  <2> QED BY <2>1, <2>2
<1>3. Queued' = Queued
  BY DEF AppendFile, Queued
<1>4. FreshFile(a) \subseteq Demanded
  BY <1>2 DEF FreshFile, Demanded, Queued
<1>5. disk' \ Orphans \subseteq (disk \ Orphans) \cup FreshFile(a)
  BY DEF AppendFile, Commit
<1> QED BY <1>3, <1>4, <1>5 DEF Demanded

(* Every other step, under NoFaults, demands nothing new and moves neither   *)
(* counter.                                                                  *)
LEMMA QuietDemand ==
  ASSUME AccountingInv,
         \/ \E e \in Entries : RecordReject(e) \/ VerifyEntryFails(e)
         \/ \E a \in Archives : InvalidateGeneration(a) \/ Evict(a)
         \/ SetLoadActive
         \/ RemoveUnownedFiles("startRemove", "startRescan")
         \/ RemoveUnownedFiles("remove", "removed")
         \/ EnforceBegin \/ EnforceCheck \/ EvictDone \/ EnforceEnd
         \/ FlushBegin \/ RetireInvalid \/ InstallCommitted \/ RequeueFailed
         \/ CommitsDone
         \/ /\ pc = "removed" /\ RestoreHeadroom /\ EnforceReturn
            /\ UNCHANGED <<acctVars, fileVars, queueVars, itemVars, loadActive,
                           building, unowned>>
         \/ UNCHANGED vars
  PROVE  /\ Demanded' \subseteq Demanded
         /\ UNCHANGED <<totalCacheBytes, pendingBytes>>
         /\ pc' = "startScan" => pc = "startScan"
<1> USE DEF acctVars, fileVars, queueVars, Demanded, Queued
<1>1. CASE \/ \E e \in Entries : RecordReject(e) \/ VerifyEntryFails(e)
           \/ \E a \in Archives : InvalidateGeneration(a)
           \/ SetLoadActive \/ UNCHANGED vars
  BY <1>1 DEF RecordReject, VerifyEntryFails, InvalidateGeneration, SetLoadActive,
     vars
<1>2. CASE \/ RemoveUnownedFiles("startRemove", "startRescan")
           \/ RemoveUnownedFiles("remove", "removed")
  BY <1>2 DEF RemoveUnownedFiles
<1>3. CASE (\E a \in Archives : Evict(a)) \/ RetireInvalid
  BY <1>3 DEF Evict, RetireInvalid, Unpublish
<1>4. CASE EnforceBegin \/ EnforceCheck \/ EvictDone \/ EnforceEnd \/ FlushBegin
           \/ CommitsDone
           \/ /\ pc = "removed" /\ RestoreHeadroom /\ EnforceReturn
              /\ UNCHANGED <<acctVars, fileVars, queueVars, itemVars, loadActive,
                             building, unowned>>
  BY <1>4 DEF EnforceBegin, EnforceCheck, EvictDone, EnforceEnd, FlushBegin,
     CommitsDone, EnforceReturn
<1>5. CASE InstallCommitted
  BY <1>5 DEF InstallCommitted, Installed
<1>6. CASE RequeueFailed
  BY <1>6 DEF RequeueFailed, ItemSlots
<1> QED BY <1>1, <1>2, <1>3, <1>4, <1>5, <1>6, Zenon

(* One step of the system: the demand stays covered, and it grows only to a  *)
(* value the cap allows.                                                     *)
LEMMA DemandStep ==
  ASSUME NoFaults, AccountingInv, AccountingInv', DemandCovered, [Next]_<<failures, vars>>
  PROVE  /\ DemandCovered'
         /\ Demand' <= Cap \/ Demand' <= Demand
<1>1. /\ TypeOK /\ TypeOK' /\ ControlSound /\ Demand \in Nat /\ Demand' \in Nat
  <2>1. TypeOK /\ TypeOK' /\ ControlSound
    BY DEF AccountingInv
  <2>2. Demanded' \in SUBSET Slots
    BY <2>1 DEF TypeOK, Demanded, Queued, Slots
  <2>3. Demand' \in Nat
    BY <2>2, BytesNat DEF Demand, Demanded
  <2> QED BY <2>1, <2>3, DemandNat
<1>2. ASSUME Demanded' \subseteq Demanded,
             UNCHANGED <<totalCacheBytes, pendingBytes>>,
             pc' = "startScan" \/ pc # "startScan"
      PROVE  DemandCovered' /\ Demand' <= Demand
  <2>1. Demand' <= Demand
    BY <1>2, NoNewDemand
  <2>2. totalCacheBytes \in Nat /\ pendingBytes \in Nat
    BY <1>1 DEF TypeOK
  <2> QED BY <1>1, <1>2, <2>1, <2>2 DEF DemandCovered
<1>3. ASSUME NEW from, NEW to, ReconcileDiskAccounting(from, to),
             to # "startScan"
      PROVE  DemandCovered' /\ Demand' <= Demand
  <2>1. /\ UNCHANGED <<disk, Queued>> /\ Demanded' = Demanded
    BY <1>3 DEF ReconcileDiskAccounting, fileVars, queueVars, Queued, Demanded
  <2>2. CASE ScanComplete
    BY <2>1, <2>2, <1>1, ScanDemand DEF DemandCovered
  <2>3. CASE ScanAbandoned \/ ScanSkipped
    <3>1. UNCHANGED <<totalCacheBytes, pendingBytes>>
      BY <2>3 DEF ScanAbandoned, ScanSkipped, acctVars
    <3>2. pc # "startScan"
      BY <2>3, <1>1 DEF ScanAbandoned, ScanSkipped, ControlSound, NoFaults
    <3> QED BY <1>2, <2>1, <3>1, <3>2
  <2> QED BY <1>3, <2>2, <2>3 DEF ReconcileDiskAccounting
<1>4. ASSUME NEW e \in Entries, RecordAccept(e)
      PROVE  DemandCovered' /\ Demand' <= Cap
  BY <1>4, RecordDemand DEF DemandCovered
<1>5. ASSUME NEW a \in Archives, AppendFile(a)
      PROVE  DemandCovered' /\ Demand' <= Demand
  <2>1. UNCHANGED <<totalCacheBytes, pendingBytes>> /\ pc # "startScan"
    BY <1>5 DEF AppendFile, acctVars
  <2> QED BY <1>2, <1>5, <2>1, AppendDemand
<1>6. CASE SnapshotWork
  <2>1. UNCHANGED <<totalCacheBytes, pendingBytes>> /\ Demanded' \subseteq Demanded
        /\ pc # "startScan"
    BY <1>6 DEF SnapshotWork, acctVars, fileVars, Demanded, Queued
  <2> QED BY <1>2, <2>1
<1>7. CASE DropFailed
  BY <1>7 DEF DropFailed, Drop, Kept, NoFaults
<1>8. CASE \/ \E e \in Entries : RecordReject(e) \/ VerifyEntryFails(e)
           \/ \E a \in Archives : InvalidateGeneration(a) \/ Evict(a)
           \/ SetLoadActive
           \/ RemoveUnownedFiles("startRemove", "startRescan")
           \/ RemoveUnownedFiles("remove", "removed")
           \/ EnforceBegin \/ EnforceCheck \/ EvictDone \/ EnforceEnd
           \/ FlushBegin \/ RetireInvalid \/ InstallCommitted \/ RequeueFailed
           \/ CommitsDone
           \/ /\ pc = "removed" /\ RestoreHeadroom /\ EnforceReturn
              /\ UNCHANGED <<acctVars, fileVars, queueVars, itemVars,
                             loadActive, building, unowned>>
           \/ UNCHANGED vars
  <2>1. /\ Demanded' \subseteq Demanded
        /\ UNCHANGED <<totalCacheBytes, pendingBytes>>
        /\ pc' = "startScan" => pc = "startScan"
    BY <1>8, QuietDemand, Zenon
  <2>2. pc' = "startScan" \/ pc # "startScan"
    <3>1. CASE pc = "startScan"
      <4>1. ~Hooked
        BY <3>1, <1>1 DEF ControlSound
      <4> QED BY <1>8, <3>1, <4>1 DEF RecordReject, Recordable, VerifyEntryFails,
               InvalidateGeneration, SetLoadActive, RemoveUnownedFiles, Evict,
               EnforceBegin, EnforceCheck, EvictDone, EnforceEnd, FlushBegin,
               RetireInvalid, InstallCommitted, Installed, RequeueFailed, CommitsDone, vars
    <3> QED BY <3>1
  <2> QED BY <1>2, <2>1, <2>2
<1>9. CASE EnforceSizeLimit
  BY <1>3, <1>8, <1>9 DEF EnforceSizeLimit, EnforceScan, EnforceRemove,
     EnforceRescan, EnforceLastScan
<1>10. CASE Startup
  BY <1>3, <1>8, <1>10 DEF Startup
<1>11. CASE FlushToDisk
  BY <1>3, <1>5, <1>6, <1>7, <1>8, <1>11 DEF FlushToDisk
<1> QED BY <1>4, <1>8, <1>9, <1>10, <1>11 DEF Next, Step

LEMMA InitDemand == Init => DemandCovered
BY DEF Init, DemandCovered

(* Faults neither come nor go.                                               *)
LEMMA SameFaults == [Next]_<<failures, vars>> => UNCHANGED <<NoFaults, AllocationMayFail>>
BY DEF Next, NoFaults, ScanFailsAtStartup, AllocationMayFail

(* Without those two faults the counters admission reads never undercount    *)
(* what the cache files will occupy ...                                      *)
THEOREM DemandAlwaysCovered == Spec => []DemandCovered
<1>1. ASSUME AccountingInv, AccountingInv', DemandCovered,
             [Next]_<<failures, vars>>
      PROVE  DemandCovered'
  <2>1. CASE NoFaults
    BY <1>1, <2>1, DemandStep
  <2>2. CASE ~NoFaults
    BY <1>1, <2>2, SameFaults DEF DemandCovered
  <2> QED BY <2>1, <2>2
<1> QED BY <1>1, InitDemand, AccountingCorrect, PTL DEF Spec

(* ... so no step, whatever the interleaving of recorders, flush, limiter    *)
(* and loading screens, takes the cache files above the hard cap.            *)
THEOREM HardCap == Spec => CapStep
<1> DEFINE P == NoFaults => Demand' <= Cap \/ Demand' <= Demand
<1>1. ASSUME AccountingInv, AccountingInv', DemandCovered,
             [Next]_<<failures, vars>>
      PROVE  P
  BY <1>1, DemandStep
<1>2. AccountingInv /\ AccountingInv' /\ DemandCovered
        /\ [Next]_<<failures, vars>> => [P]_vars
  BY <1>1
<1> QED BY <1>2, DemandAlwaysCovered, AccountingCorrect, PTL DEF Spec, CapStep

(* An accepted payload is never lost while allocations succeed: it leaves    *)
(* the marked set only when the published mapping of its archive has it.     *)
THEOREM AcceptedKept == Spec => AcceptedNeverLost
<1> DEFINE P == ~AllocationMayFail => bufferedOffsets \ bufferedOffsets' \subseteq view'
<1>1. ASSUME AccountingInv, [Next]_<<failures, vars>>, ~AllocationMayFail
      PROVE  bufferedOffsets \ bufferedOffsets' \subseteq view'
  <2>1. CASE InstallCommitted
    <3>1. ItemSlots \cap Entries \subseteq result /\ bufferedOffsets \subseteq Entries
      BY <1>1, <2>1 DEF AccountingInv, InstallSound, InstallCommitted, Installed, TypeOK
    <3> QED BY <2>1, <3>1 DEF InstallCommitted, Installed
  <2>2. CASE ~InstallCommitted /\ ~DropFailed
    <3>1. bufferedOffsets \subseteq bufferedOffsets'
      <4> USE DEF queueVars
      <4>1. CASE Startup \/ EnforceSizeLimit
        BY <4>1 DEF Startup, EnforceSizeLimit, ReconcileDiskAccounting,
           RemoveUnownedFiles, EnforceBegin, EnforceScan, EnforceCheck,
           EnforceRemove, EnforceRescan, Evict, EvictDone, EnforceLastScan,
           EnforceEnd
      <4>2. CASE FlushToDisk
        BY <2>2, <4>2 DEF FlushToDisk, FlushBegin, RetireInvalid, SnapshotWork,
           AppendFile, RequeueFailed, CommitsDone, ReconcileDiskAccounting
      <4>3. CASE \/ \E e \in Entries : RecordAccept(e) \/ RecordReject(e)
                                       \/ VerifyEntryFails(e)
                 \/ \E a \in Archives : InvalidateGeneration(a)
                 \/ SetLoadActive \/ UNCHANGED vars
        BY <4>3 DEF RecordAccept, RecordReject, VerifyEntryFails,
           InvalidateGeneration, SetLoadActive, vars
      <4> QED BY <1>1, <4>1, <4>2, <4>3, Zenon DEF Next, Step
    <3> QED BY <3>1
  <2>3. ~DropFailed
    BY <1>1 DEF DropFailed, Drop
  <2> QED BY <2>1, <2>2, <2>3
<1>2. AccountingInv /\ [Next]_<<failures, vars>> => [P]_vars
  BY <1>1
<1> QED BY <1>2, AccountingCorrect, PTL DEF Spec, AcceptedNeverLost

-----------------------------------------------------------------------------
(* A request is taken up only by a running enforcement, which answers for it    *)
(* until it returns.                                                         *)
Enforcing == {"scan", "scanned", "remove", "removed", "rescanned", "evict",
              "lastScan", "settle"}
RequestTaken == requested # 0 => pc \in Enforcing

(* The ways a step may treat the request.                                     *)
Waits == UNCHANGED <<requested, requiredHeadroom>> /\ (pc' = pc \/ pc' \in Enforcing
                                                        \/ pc \notin Enforcing)
Grows == UNCHANGED <<requested, pc>> /\ requiredHeadroom' >= requiredHeadroom
Taken == /\ pc = "enforce" /\ pc' = "scan"
         /\ requested' = requiredHeadroom /\ requiredHeadroom' = 0
Returns == /\ requested' = 0
           /\ \/ RestoreHeadroom
              \/ /\ UNCHANGED requiredHeadroom
                 /\ pc = "enforce" \/ totalCacheBytes <= Target

(* Every step of every thread treats it in one of these ways.                   *)
LEMMA RequestWays ==
  ASSUME TypeOK, [Next]_<<failures, vars>>
  PROVE  Waits \/ Grows \/ Taken \/ Returns
<1> USE DEF ctlVars, evictVars
<1>1. CASE UNCHANGED vars
  BY <1>1 DEF vars, Waits
<1>2. ASSUME NEW e \in Entries, RecordReject(e)
      PROVE  Grows
  <2>1. /\ UNCHANGED <<requested, pc>>
        /\ \E m \in {Cap, pendingBytes + Bytes(Admission(e))} :
             requiredHeadroom' = Larger(requiredHeadroom, m)
    BY <1>2 DEF RecordReject, Smaller
  <2>2. PICK m : requiredHeadroom' = Larger(requiredHeadroom, m)
    BY <2>1
  <2>3. requiredHeadroom \in Nat
    BY DEF TypeOK
  <2> QED
    BY <2>1, <2>2, <2>3 DEF Larger, Grows
<1>3. ASSUME NEW e \in Entries, RecordAccept(e) \/ VerifyEntryFails(e)
      PROVE  Waits
  BY <1>3 DEF RecordAccept, VerifyEntryFails, Waits
<1>4. CASE (\E a \in Archives : InvalidateGeneration(a)) \/ SetLoadActive
  BY <1>4 DEF InvalidateGeneration, SetLoadActive, Waits
<1>5. CASE Startup
  BY <1>5 DEF Startup, ReconcileDiskAccounting, RemoveUnownedFiles, Waits, Enforcing
<1>6. CASE EnforceBegin
  BY <1>6 DEF EnforceBegin, EnforceReturn, Taken, Returns
<1>7. CASE EnforceCheck
  BY <1>7 DEF EnforceCheck, EnforceReturn, Waits, Returns, Enforcing
<1>8. CASE EnforceScan \/ EnforceRemove \/ EnforceLastScan \/ EvictDone
  BY <1>8 DEF EnforceScan, EnforceRemove, EnforceLastScan, EvictDone,
     ReconcileDiskAccounting, RemoveUnownedFiles, Waits, Enforcing
<1>9. CASE EnforceRescan
  BY <1>9 DEF EnforceRescan, ReconcileDiskAccounting, EnforceReturn, Waits, Returns, Enforcing
<1>10. ASSUME NEW a \in Archives, Evict(a)
       PROVE  Waits
  BY <1>10 DEF Evict, Waits
<1>11. CASE EnforceEnd
  <2>1. ~(totalCacheBytes > Target) => totalCacheBytes <= Target
    BY BudgetAssumption DEF TypeOK, Target, Smaller
  <2> QED
    BY <1>11, <2>1 DEF EnforceEnd, EnforceReturn, Returns
<1>12. CASE FlushToDisk
  BY <1>12 DEF FlushToDisk, FlushBegin, RetireInvalid, SnapshotWork, AppendFile,
     InstallCommitted, Installed, RequeueFailed, DropFailed, Drop, CommitsDone,
     ReconcileDiskAccounting, Waits, Enforcing
<1>13. CASE EnforceSizeLimit
  BY <1>6, <1>7, <1>8, <1>9, <1>10, <1>11, <1>13 DEF EnforceSizeLimit
<1> QED
  BY <1>1, <1>2, <1>3, <1>4, <1>5, <1>12, <1>13 DEF Next, Step, vars

(* A request for headroom, of which a refused payload left a note, is forgotten  *)
(* only when the folder leaves that much room; enforcements that are given up    *)
(* or fail to evict put it back.                                              *)
THEOREM RequestsKept == Spec => HeadroomKept
<1> DEFINE P == \/ Outstanding' >= Outstanding
                \/ totalCacheBytes <= Cap - Smaller(Outstanding, Cap)
<1>1. Init => RequestTaken
  BY DEF Init, RequestTaken
<1>2. ASSUME AccountingInv, RequestTaken, [Next]_<<failures, vars>>
      PROVE  RequestTaken' /\ P
  <2>1. TypeOK /\ Cap \in Nat
    BY <1>2, BudgetAssumption DEF AccountingInv
  <2>2. requiredHeadroom \in Nat /\ requested \in Nat /\ totalCacheBytes \in Nat
    BY <2>1 DEF TypeOK
  <2>3. CASE Waits
    BY <1>2, <2>2, <2>3 DEF Waits, RequestTaken, Outstanding, Larger
  <2>4. CASE Grows
    <3>1. requiredHeadroom' \in Int
      BY <1>2, NextAccounting DEF AccountingInv, TypeOK
    <3> QED
      BY <1>2, <2>2, <2>4, <3>1 DEF Grows, RequestTaken, Outstanding, Larger
  <2>5. CASE Taken
    <3>1. requested = 0
      BY <1>2, <2>5 DEF Taken, RequestTaken, Enforcing
    <3> QED
      BY <2>2, <2>5, <3>1 DEF Taken, RequestTaken, Enforcing, Outstanding, Larger
  <2>6. CASE Returns
    <3>1. RequestTaken'
      BY <2>6 DEF Returns, RequestTaken
    <3>2. CASE RestoreHeadroom
      BY <2>2, <2>6, <3>1, <3>2 DEF Returns, RestoreHeadroom, Outstanding, Larger
    <3>3. CASE UNCHANGED requiredHeadroom /\ pc = "enforce"
      <4>1. requested = 0
        BY <1>2, <3>3 DEF RequestTaken, Enforcing
      <4> QED
        BY <2>2, <2>6, <3>1, <3>3, <4>1 DEF Returns, Outstanding, Larger
    <3>4. CASE UNCHANGED requiredHeadroom /\ totalCacheBytes <= Target
      BY <2>1, <2>2, <2>6, <3>1, <3>4
      DEF Returns, Outstanding, Larger, Smaller, Target
    <3> QED
      BY <2>6, <3>1, <3>2, <3>3, <3>4 DEF Returns
  <2> QED
    BY <1>2, <2>1, <2>3, <2>4, <2>5, <2>6, RequestWays
<1>3. AccountingInv /\ RequestTaken /\ [Next]_<<failures, vars>> => [P]_vars
  BY <1>2
<1>4. AccountingInv /\ RequestTaken /\ [Next]_<<failures, vars>> => RequestTaken'
  BY <1>2
<1> QED BY <1>1, <1>3, <1>4, AccountingCorrect, PTL DEF Spec, HeadroomKept
=============================================================================
