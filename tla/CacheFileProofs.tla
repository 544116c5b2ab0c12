---------------------------- MODULE CacheFileProofs ----------------------------
(***************************************************************************)
(* The cache file of CacheFile for any payloads and any index capacity: what  *)
(* is served without a checksum is right, and the file under a mapping keeps   *)
(* what the mapping indexes, in spite of crashes, failures and loading screens. *)
(***************************************************************************)
EXTENDS CacheFile, FiniteSetTheorems, SequenceTheorems, TLAPS

Appending == {"truncate", "payload", "flushPayload", "index", "flushIndex", "header",
              "flushHeader", "restore", "cut", "flushRollback"}
IntactAt(f, i) == f.data[i] = f.index[i]

(* The first n payloads of the append are in their blocks, or all in the index. *)
PayloadsWritten(n) ==
  n <= Len(newEntries) /\ \A k \in 1 .. n : os.data[oldHeader + k] = newEntries[k]
IndexWritten ==
  \A k \in 1 .. Len(newEntries) : os.index[oldHeader + k] = newEntries[k]

(* The header counts the new entries, which are there unless they have been cut. *)
Advanced ==
  /\ os.count = oldHeader + Len(newEntries) /\ IndexWritten
  /\ \A k \in 1 .. Len(newEntries) :
       oldHeader + k <= os.len => os.data[oldHeader + k] = newEntries[k]

(* An append leaves the committed prefix alone ...                            *)
PrefixKept ==
  pc \in Appending =>
    /\ view # <<>> /\ resultKnown \subseteq known
    /\ oldHeader + Len(newEntries) <= Capacity /\ oldHeader <= os.len
    /\ \A i \in 1 .. oldHeader : os.index[i] \in batch => IntactAt(os, i)
    /\ replaced = <<>> => Len(view) <= oldHeader

(* ... and writes payloads, index and header in this order.                    *)
InOrder ==
  /\ pc \in Appending \ {"flushHeader", "restore", "cut", "flushRollback"} =>
       os.count = oldHeader
  /\ pc = "payload" => PayloadsWritten(Written)
  /\ pc \in {"flushPayload", "index", "flushIndex", "header", "flushHeader"} =>
       Written = Len(newEntries) /\ PayloadsWritten(Written)
  /\ pc \in {"flushIndex", "header"} => IndexWritten
  /\ pc = "flushHeader" => Advanced
  /\ pc \in {"restore", "cut", "flushRollback"} => os.count = oldHeader \/ Advanced

BeforeWrite ==
  /\ pc = "open" => resultKnown \subseteq known /\ (~resetFile => view # <<>>)
  /\ pc \in {"flushFresh", "rename", "renameUnflushed"} => Cardinality(batch) <= Capacity

(* The mapping is a prefix of the file, or the file has been replaced by one    *)
(* without a wrong block.                                                    *)
MappedIsPrefix ==
  view # <<>> /\ replaced = <<>> =>
    /\ Len(view) <= os.count /\ Len(view) <= os.len
    /\ \A i \in 1 .. Len(view) : os.index[i] = view[i]
ReplacedIntact ==
  replaced # <<>> =>
    /\ DOMAIN replaced = DOMAIN view
    /\ \A i \in 1 .. os.count : i <= os.len => IntactAt(os, i)

(* The writer vouches for the entries it hands over as verified.               *)
Vouched ==
  /\ pc = "map" /\ Valid(os, FALSE) =>
       \A i \in 1 .. os.count : os.index[i] \in resultKnown \cup batch => IntactAt(os, i)
  /\ pc = "install" /\ result # <<>> =>
       /\ Valid(os, FALSE) /\ result = Committed(os)
       /\ resultKnown \subseteq Elements(result)
       /\ \A i \in 1 .. os.count : os.index[i] \in resultKnown => IntactAt(os, i)

Distinct == \A i, j \in DOMAIN view : view[i] = view[j] => i = j
MappingInv == MappedIsPrefix /\ ReplacedIntact /\ Distinct /\ ServedIntact
WriterInv == PrefixKept /\ InOrder /\ BeforeWrite /\ Vouched
FileInv == TypeOK /\ MappingInv /\ WriterInv

-----------------------------------------------------------------------------
(* The operators on images.                                                 *)

LEMMA SetSeq ==
  ASSUME NEW S \in SUBSET Entries
  PROVE  /\ IsFiniteSet(S) /\ Cardinality(S) \in Nat
         /\ SetToSeq(S) \in Seq(S) /\ SetToSeq(S) \in Seq(Entries)
         /\ Len(SetToSeq(S)) = Cardinality(S)
<1>1. IsFiniteSet(S)
  BY FileAssumption, FS_Subset
<1>2. Cardinality(S) \in Nat /\ ExistsBijection(1 .. Cardinality(S), S)
  BY <1>1, FS_CardinalityType
<1>3. \E f \in [1 .. Cardinality(S) -> S] : IsInjective(f)
  BY <1>2 DEF ExistsBijection, Bijection, Injection
<1>4. SetToSeq(S) \in [1 .. Cardinality(S) -> S]
  BY <1>3 DEF SetToSeq
<1>5. SetToSeq(S) \in Seq(S) /\ Len(SetToSeq(S)) = Cardinality(S)
  BY <1>2, <1>4, SeqDef
<1>6. SetToSeq(S) \in Seq(Entries)
  BY <1>5, SeqMonotonic
<1> QED
  BY <1>1, <1>2, <1>5, <1>6

LEMMA ImageFields ==
  ASSUME NEW f \in Image
  PROVE  /\ f.count \in 0 .. Capacity /\ f.len \in 0 .. Capacity
         /\ f.index \in [Slots -> Entries \cup {None}]
         /\ f.data \in [Slots -> Entries \cup {None}]
BY DEF Image

LEMMA CountImage ==
  ASSUME NEW f \in Image, NEW n \in 0 .. Capacity
  PROVE  /\ Count(f, n) \in Image /\ Count(f, n).count = n
         /\ Count(f, n).index = f.index /\ Count(f, n).data = f.data
         /\ Count(f, n).len = f.len
BY DEF Image, Count

LEMMA TruncatedImage ==
  ASSUME NEW f \in Image, NEW n \in 0 .. Capacity
  PROVE  /\ Truncated(f, n) \in Image /\ Truncated(f, n).count = f.count
         /\ Truncated(f, n).index = f.index /\ Truncated(f, n).len = n
         /\ \A i \in Slots : i <= n => Truncated(f, n).data[i] = f.data[i]
<1> DEFINE d == [i \in Slots |-> IF i <= n THEN f.data[i] ELSE None]
<1>1. d \in [Slots -> Entries \cup {None}]
  BY ImageFields
<1>2. Truncated(f, n) = [f EXCEPT !.len = n, !.data = d]
  BY DEF Truncated
<1> HIDE DEF d
<1>3. /\ Truncated(f, n) \in Image /\ Truncated(f, n).count = f.count
      /\ Truncated(f, n).index = f.index /\ Truncated(f, n).len = n
      /\ Truncated(f, n).data = d
  BY <1>1, <1>2 DEF Image
<1> QED
  BY <1>3 DEF d

LEMMA PayloadImage ==
  ASSUME NEW f \in Image, NEW e \in Entries, f.len + 1 <= Capacity
  PROVE  /\ WithPayload(f, e) \in Image /\ WithPayload(f, e).count = f.count
         /\ WithPayload(f, e).index = f.index /\ WithPayload(f, e).len = f.len + 1
         /\ WithPayload(f, e).data = [f.data EXCEPT ![f.len + 1] = e]
         /\ f.len + 1 \in Slots
<1>1. f.len + 1 \in Slots
  BY ImageFields, FileAssumption DEF Slots
<1> DEFINE d == [f.data EXCEPT ![f.len + 1] = e]
<1>2. d \in [Slots -> Entries \cup {None}]
  BY <1>1, ImageFields
<1>3. f.len + 1 \in 0 .. Capacity
  BY ImageFields, FileAssumption
<1>4. WithPayload(f, e) = [f EXCEPT !.len = f.len + 1, !.data = d]
  BY DEF WithPayload, Image
<1> HIDE DEF d
<1>5. /\ WithPayload(f, e) \in Image /\ WithPayload(f, e).count = f.count
      /\ WithPayload(f, e).index = f.index /\ WithPayload(f, e).len = f.len + 1
      /\ WithPayload(f, e).data = d
  BY <1>2, <1>3, <1>4 DEF Image
<1> QED
  BY <1>1, <1>5 DEF d

LEMMA IndexImage ==
  ASSUME NEW f \in Image, NEW h \in 0 .. Capacity, NEW es \in Seq(Entries),
         h + Len(es) <= Capacity
  PROVE  LET g == WithIndex(f, h + 1, es)
         IN  /\ g \in Image /\ g.count = f.count /\ g.data = f.data /\ g.len = f.len
             /\ \A i \in 1 .. h : g.index[i] = f.index[i]
             /\ \A k \in 1 .. Len(es) : g.index[h + k] = es[k]
<1> DEFINE x == [i \in Slots |-> IF i - (h + 1) + 1 \in DOMAIN es
                                 THEN es[i - (h + 1) + 1] ELSE f.index[i]]
<1>1. /\ Len(es) \in Nat /\ DOMAIN es = 1 .. Len(es)
      /\ \A k \in 1 .. Len(es) : es[k] \in Entries
  BY LenProperties, ElementOfSeq
<1>2. x \in [Slots -> Entries \cup {None}]
  BY <1>1, ImageFields
<1>3. \A i \in 1 .. h : x[i] = f.index[i]
  BY <1>1, FileAssumption DEF Slots
<1>4. \A k \in 1 .. Len(es) : x[h + k] = es[k]
  <2> TAKE k \in 1 .. Len(es)
  <2>1. h + k \in Slots /\ (h + k) - (h + 1) + 1 = k
    BY <1>1, FileAssumption DEF Slots
  <2> QED
    BY <2>1, <1>1
<1>5. WithIndex(f, h + 1, es) = [f EXCEPT !.index = x]
  BY DEF WithIndex
<1> HIDE DEF x
<1> QED
  BY <1>2, <1>3, <1>4, <1>5 DEF Image

LEMMA FreshImage ==
  ASSUME NEW es \in Seq(Entries), Len(es) <= Capacity
  PROVE  /\ FileOf(es) \in Image /\ FileOf(es).count = Len(es) /\ FileOf(es).len = Len(es)
         /\ \A i \in Slots : IntactAt(FileOf(es), i)
<1>1. /\ Len(es) \in Nat /\ DOMAIN es = 1 .. Len(es)
      /\ \A k \in 1 .. Len(es) : es[k] \in Entries
  BY LenProperties, ElementOfSeq
<1> DEFINE x == [i \in Slots |-> IF i \in DOMAIN es THEN es[i] ELSE None]
<1>2. x \in [Slots -> Entries \cup {None}]
  BY <1>1
<1>3. FileOf(es) = [count |-> Len(es), len |-> Len(es), index |-> x, data |-> x]
  BY DEF FileOf
<1> HIDE DEF x
<1>4. Len(es) \in 0 .. Capacity
  BY <1>1, FileAssumption
<1> QED
  BY <1>2, <1>3, <1>4 DEF Image, IntactAt

LEMMA BlankImage == Blank \in Image /\ Blank.count = 0 /\ Blank.len = 0
BY FileAssumption DEF Image, Blank

LEMMA CommittedSeq ==
  ASSUME NEW f \in Image, NEW b \in BOOLEAN, Valid(f, b)
  PROVE  /\ f.count \in 1 .. Capacity
         /\ Committed(f) \in Seq(Entries) /\ Len(Committed(f)) = f.count
         /\ \A i \in 1 .. f.count : Committed(f)[i] = f.index[i] /\ i <= f.len
         /\ f.count <= f.len /\ Committed(f) # <<>>
<1>1. f.count \in 1 .. Capacity /\ f.count \in Nat /\ f.len \in Nat
  BY ImageFields, FileAssumption DEF Valid
<1>2. \A i \in 1 .. f.count : f.index[i] \in Entries
  BY <1>1, ImageFields, FileAssumption DEF Valid, Slots
<1>3. Committed(f) \in [1 .. f.count -> Entries]
  BY <1>2 DEF Committed
<1>4. Committed(f) \in Seq(Entries) /\ Len(Committed(f)) = f.count
  BY <1>1, <1>3, SeqDef
<1>5. f.count <= f.len
  BY <1>1 DEF Valid
<1>6. Committed(f) # <<>>
  BY <1>4, <1>1, EmptySeq
<1> QED
  BY <1>1, <1>4, <1>5, <1>6 DEF Committed, Valid

-----------------------------------------------------------------------------
(* Steps that leave the file and the mapping alone.                          *)

LEMMA Held ==
  ASSUME MappingInv, UNCHANGED <<os, view, replaced, known>>
  PROVE  MappingInv'
BY DEF MappingInv, MappedIsPrefix, ReplacedIntact, Distinct, ServedIntact, IntactAt, Mapped

LEMMA AtRest ==
  ASSUME pc' \in {"load", "idle", "fresh"}
  PROVE  WriterInv'
BY DEF WriterInv, PrefixKept, InOrder, BeforeWrite, Vouched, Appending

(* A writer that gives up publishes nothing.                                  *)
LEMMA GivenUp ==
  ASSUME TypeOK, Fail
  PROVE  /\ WriterInv' /\ pc' = "install"
         /\ result' \in Seq(Entries) /\ resultKnown' \subseteq Entries
<1>1. WriterInv'
  BY DEF Fail, WriterInv, PrefixKept, InOrder, BeforeWrite, Vouched, Appending
<1> QED
  BY <1>1, EmptySeq DEF Fail

(* A step that changes neither what the writer does nor the file.             *)
LEMMA Beside ==
  ASSUME FileInv, UNCHANGED <<os, view, replaced, known, itemVars, pc>>
  PROVE  MappingInv' /\ WriterInv'
<1>1. MappingInv'
  BY Held DEF FileInv
<1>2. /\ PrefixKept' /\ BeforeWrite'
  BY DEF FileInv, WriterInv, PrefixKept, BeforeWrite, itemVars, IntactAt
<1>3. InOrder'
  BY DEF FileInv, WriterInv, InOrder, PayloadsWritten, IndexWritten, Advanced, Written,
         itemVars
<1>4. Vouched'
  BY DEF FileInv, WriterInv, Vouched, itemVars, IntactAt, Valid, Committed, Elements
<1> QED
  BY <1>1, <1>2, <1>3, <1>4 DEF WriterInv

LEMMA RiskType ==
  ASSUME TypeOK, Next
  PROVE  atRisk' \in BOOLEAN
<1>1. (Endangered \/ (atRisk /\ ~Secured)) \in BOOLEAN
  OBVIOUS
<1> QED
  BY <1>1 DEF Next

(* A write beyond the committed prefix.                                       *)
LEMMA Beyond ==
  ASSUME FileInv, pc \in Appending, pc' \in Appending, os' \in Image,
         UNCHANGED <<exists, dur, viewVars, itemVars, pending, loadActive>>,
         atRisk' \in BOOLEAN, oldHeader <= os'.len,
         \A i \in 1 .. oldHeader : os'.index[i] = os.index[i] /\ os'.data[i] = os.data[i],
         InOrder'
  PROVE  FileInv'
<1> USE DEF viewVars, itemVars
<1>0. /\ TypeOK /\ MappingInv /\ PrefixKept /\ InOrder
      /\ UNCHANGED <<view, replaced, known, newEntries, oldHeader, batch, resultKnown>>
  BY DEF FileInv, WriterInv
<1>1. /\ oldHeader \in Nat /\ Len(newEntries) \in Nat /\ Len(view) \in Nat
      /\ os.count \in Nat /\ os'.count \in Nat /\ os.len \in Nat /\ os'.len \in Nat
  BY <1>0, ImageFields, FileAssumption DEF TypeOK
<1>2. os.count = oldHeader \/ Advanced
  BY <1>0 DEF InOrder, Appending
<1>3. (os.count = oldHeader \/ Advanced)'
  BY DEF InOrder, Appending
<1>4. oldHeader <= os.count /\ oldHeader <= os'.count
  BY <1>0, <1>1, <1>2, <1>3 DEF Advanced
<1>5. TypeOK'
  BY <1>0 DEF TypeOK, Appending
<1>6. PrefixKept'
  BY <1>0, <1>1 DEF PrefixKept, IntactAt
<1>7. MappedIsPrefix'
  BY <1>0, <1>1, <1>4 DEF MappingInv, MappedIsPrefix, PrefixKept
<1>8. ReplacedIntact'
  <2> SUFFICES ASSUME replaced # <<>>
               PROVE  \A i \in 1 .. os'.count : i <= os'.len => IntactAt(os', i)
    BY <1>0 DEF MappingInv, ReplacedIntact
  <2>1. \A i \in 1 .. oldHeader : IntactAt(os', i)
    BY <1>0, <1>1, <1>4 DEF MappingInv, ReplacedIntact, IntactAt, PrefixKept
  <2>2. CASE os'.count = oldHeader
    BY <2>1, <2>2
  <2>3. CASE Advanced'
    <3> TAKE i \in 1 .. os'.count
    <3> HAVE i <= os'.len
    <3>1. CASE i <= oldHeader
      BY <3>1, <2>1, <1>1
    <3>2. CASE i > oldHeader
      <4> DEFINE k == i - oldHeader
      <4>1. k \in 1 .. Len(newEntries) /\ i = oldHeader + k
        BY <3>2, <2>3, <1>0, <1>1 DEF Advanced
      <4>2. os'.index[i] = newEntries[k] /\ os'.data[i] = newEntries[k]
        BY <4>1, <2>3, <1>0 DEF Advanced, IndexWritten
      <4> QED
        BY <4>2 DEF IntactAt
    <3> QED
      BY <3>1, <3>2, <1>1
  <2> QED
    BY <1>3, <2>2, <2>3, <1>0
<1>9. ServedIntact'
  <2> SUFFICES ASSUME NEW i \in DOMAIN view, view[i] \in known
               PROVE  Mapped(i)' = view[i]
    BY <1>0 DEF ServedIntact
  <2>1. Mapped(i) = view[i]
    BY <1>0 DEF MappingInv, ServedIntact
  <2>2. CASE replaced = <<>>
    <3>1. i \in 1 .. oldHeader
      BY <2>2, <1>0, <1>1, LenProperties DEF PrefixKept, TypeOK
    <3> QED
      BY <3>1, <2>1, <2>2, <1>0 DEF Mapped
  <2>3. CASE replaced # <<>>
    BY <2>1, <2>3, <1>0 DEF Mapped
  <2> QED
    BY <2>2, <2>3
<1>10. BeforeWrite' /\ Vouched'
  BY DEF BeforeWrite, Vouched, Appending
<1>11. Distinct'
  BY <1>0 DEF MappingInv, Distinct
<1> QED
  BY <1>5, <1>6, <1>7, <1>8, <1>9, <1>10, <1>11 DEF FileInv, MappingInv, WriterInv

-----------------------------------------------------------------------------
(* The writes of an append and of its rollback.                               *)

LEMMA TruncateTailKeeps ==
  ASSUME FileInv, atRisk' \in BOOLEAN, TruncateTail
  PROVE  FileInv'
<1>0. /\ TypeOK /\ PrefixKept /\ InOrder /\ pc = "truncate"
      /\ UNCHANGED <<exists, dur, viewVars, batch, resetFile, newEntries, oldHeader,
                     pending, loadActive>>
  BY DEF FileInv, WriterInv, TruncateTail
<1>1. CASE Fail /\ UNCHANGED os
  <2>1. WriterInv' /\ result' \in Seq(Entries) /\ resultKnown' \subseteq Entries
        /\ pc' = "install"
    BY <1>0, <1>1, GivenUp
  <2>2. MappingInv'
    BY <1>0, <1>1, Held DEF FileInv, viewVars
  <2>3. TypeOK'
    BY <1>0, <1>1, <2>1 DEF TypeOK, viewVars
  <2> QED
    BY <2>1, <2>2, <2>3 DEF FileInv
<1>2. CASE /\ pc' = "payload" /\ os' = Truncated(os, oldHeader)
           /\ UNCHANGED <<result, resultKnown>>
  <2>1. /\ os \in Image /\ oldHeader \in 0 .. Capacity /\ Len(newEntries) \in Nat
    BY <1>0 DEF TypeOK
  <2>2. /\ os' \in Image /\ os'.count = os.count /\ os'.index = os.index
        /\ os'.len = oldHeader
        /\ \A i \in Slots : i <= oldHeader => os'.data[i] = os.data[i]
    BY <2>1, <1>2, TruncatedImage
  <2>3. InOrder'
    BY <1>0, <1>2, <2>1, <2>2 DEF InOrder, Appending, PayloadsWritten, Written
  <2> QED
    BY <1>0, <1>2, <2>1, <2>2, <2>3, Beyond, FileAssumption
    DEF Appending, itemVars, Slots
<1>3. CASE pc' = "restore" /\ UNCHANGED <<os, result, resultKnown>>
  <2>1. InOrder'
    BY <1>0, <1>3 DEF InOrder, Appending
  <2>2. oldHeader <= os.len
    BY <1>0 DEF PrefixKept, Appending
  <2> QED
    BY <1>0, <1>3, <2>1, <2>2, Beyond DEF Appending, itemVars, TypeOK
<1> QED
  BY <1>1, <1>2, <1>3 DEF TruncateTail

(* A write that fails or is cancelled leads to the rollback.                   *)
LEMMA ToRollback ==
  ASSUME FileInv, atRisk' \in BOOLEAN, pc \in Appending \ {"cut", "flushRollback"},
         pc' = "restore",
         UNCHANGED <<fileVars, viewVars, itemVars, pending, loadActive>>
  PROVE  FileInv'
<1>0. TypeOK /\ PrefixKept /\ InOrder
  BY DEF FileInv, WriterInv
<1>1. os.count = oldHeader \/ Advanced
  BY <1>0 DEF InOrder, Appending
<1>2. InOrder'
  BY <1>1 DEF InOrder, Appending, Advanced, IndexWritten, fileVars, itemVars
<1>3. oldHeader <= os.len
  BY <1>0 DEF PrefixKept
<1> QED
  BY <1>0, <1>2, <1>3, Beyond DEF Appending, fileVars, TypeOK

LEMMA WritePayloadKeeps ==
  ASSUME FileInv, atRisk' \in BOOLEAN, WritePayload
  PROVE  FileInv'
<1>0. /\ TypeOK /\ PrefixKept /\ InOrder /\ pc = "payload"
      /\ UNCHANGED <<exists, dur, viewVars, itemVars, pending, loadActive>>
  BY DEF FileInv, WriterInv, WritePayload
<1>1. /\ os \in Image /\ oldHeader \in 0 .. Capacity /\ Len(newEntries) \in Nat
      /\ os.len \in 0 .. Capacity /\ oldHeader <= os.len
      /\ oldHeader + Len(newEntries) <= Capacity
      /\ os.count = oldHeader /\ Written <= Len(newEntries)
      /\ \A k \in 1 .. Written : os.data[oldHeader + k] = newEntries[k]
  BY <1>0, ImageFields DEF TypeOK, PrefixKept, InOrder, Appending, PayloadsWritten
<1>2. CASE Written = Len(newEntries) /\ pc' = "flushPayload" /\ UNCHANGED os
  <2>1. InOrder'
    BY <1>0, <1>1, <1>2 DEF InOrder, Appending, PayloadsWritten, Written, itemVars
  <2> QED
    BY <1>0, <1>1, <1>2, <2>1, Beyond DEF Appending
<1>3. CASE /\ Written # Len(newEntries) /\ os' = WithPayload(os, newEntries[Written + 1])
           /\ UNCHANGED pc
  <2>1. Written \in Nat /\ Written + 1 \in 1 .. Len(newEntries) /\ os.len + 1 <= Capacity
    BY <1>1, <1>3, FileAssumption DEF Written
  <2>2. newEntries[Written + 1] \in Entries
    BY <2>1, <1>0, ElementOfSeq DEF TypeOK
  <2>3. /\ os' \in Image /\ os'.count = os.count /\ os'.index = os.index
        /\ os'.len = os.len + 1 /\ os.len + 1 \in Slots
        /\ os'.data = [os.data EXCEPT ![os.len + 1] = newEntries[Written + 1]]
    BY <1>1, <1>3, <2>1, <2>2, PayloadImage
  <2>4. \A i \in 1 .. os.len : os'.data[i] = os.data[i]
    BY <1>1, <2>3, ImageFields, FileAssumption DEF Slots
  <2>5. os'.data[os.len + 1] = newEntries[Written + 1]
    BY <1>1, <2>3, ImageFields
  <2>6. Written' = Written + 1 /\ newEntries' = newEntries /\ oldHeader' = oldHeader
    BY <1>0, <1>1, <2>3 DEF Written, itemVars
  <2>7. \A k \in 1 .. Written + 1 : os'.data[oldHeader + k] = newEntries[k]
    <3>1. ASSUME NEW k \in 1 .. Written PROVE os'.data[oldHeader + k] = newEntries[k]
      <4>1. oldHeader + k \in 1 .. os.len
        BY <1>1, <2>1, FileAssumption DEF Written
      <4> QED
        BY <4>1, <1>1, <2>4
    <3>2. oldHeader + (Written + 1) = os.len + 1
      BY <1>1, FileAssumption DEF Written
    <3>3. 1 .. Written + 1 = 1 .. Written \cup {Written + 1}
      BY <2>1
    <3> QED
      BY <3>1, <3>2, <3>3, <2>5
  <2>8. InOrder'
    BY <1>0, <1>1, <1>3, <2>1, <2>3, <2>6, <2>7 DEF InOrder, Appending, PayloadsWritten
  <2> QED
    BY <1>0, <1>1, <1>3, <2>3, <2>4, <2>8, Beyond, FileAssumption DEF Appending
<1>4. CASE pc' = "restore" /\ UNCHANGED os
  BY <1>0, <1>4, ToRollback DEF Appending, fileVars
<1> QED
  BY <1>2, <1>3, <1>4 DEF WritePayload

LEMMA WriteIndexKeeps ==
  ASSUME FileInv, atRisk' \in BOOLEAN, WriteIndex
  PROVE  FileInv'
<1>0. /\ TypeOK /\ PrefixKept /\ InOrder /\ pc = "index"
      /\ UNCHANGED <<exists, dur, viewVars, itemVars, pending, loadActive>>
  BY DEF FileInv, WriterInv, WriteIndex
<1>1. CASE pc' = "flushIndex" /\ os' = WithIndex(os, oldHeader + 1, newEntries)
  <2>1. /\ os \in Image /\ oldHeader \in 0 .. Capacity /\ newEntries \in Seq(Entries)
        /\ oldHeader + Len(newEntries) <= Capacity /\ oldHeader <= os.len
        /\ os.count = oldHeader
        /\ Written = Len(newEntries) /\ PayloadsWritten(Written)
    BY <1>0 DEF TypeOK, PrefixKept, InOrder, Appending
  <2>2. /\ os' \in Image /\ os'.count = os.count /\ os'.data = os.data
        /\ os'.len = os.len
        /\ \A i \in 1 .. oldHeader : os'.index[i] = os.index[i]
        /\ \A k \in 1 .. Len(newEntries) : os'.index[oldHeader + k] = newEntries[k]
    BY <2>1, <1>1, IndexImage
  <2>3. newEntries' = newEntries /\ oldHeader' = oldHeader
    BY <1>0 DEF itemVars
  <2>4. PayloadsWritten(Written)' /\ Written' = Len(newEntries) /\ IndexWritten'
    BY <2>1, <2>2, <2>3 DEF PayloadsWritten, Written, IndexWritten
  <2>5. InOrder'
    BY <1>1, <2>1, <2>2, <2>3, <2>4 DEF InOrder, Appending
  <2> QED
    BY <1>0, <1>1, <2>1, <2>2, <2>5, Beyond DEF Appending
<1>2. CASE pc' = "restore" /\ UNCHANGED os
  BY <1>0, <1>2, ToRollback DEF Appending, fileVars
<1> QED
  BY <1>1, <1>2 DEF WriteIndex

LEMMA WriteHeaderKeeps ==
  ASSUME FileInv, atRisk' \in BOOLEAN, WriteHeader
  PROVE  FileInv'
<1>0. /\ TypeOK /\ PrefixKept /\ InOrder /\ pc = "header"
      /\ UNCHANGED <<exists, dur, viewVars, itemVars, pending, loadActive>>
  BY DEF FileInv, WriterInv, WriteHeader
<1>1. CASE pc' = "flushHeader" /\ os' = Count(os, oldHeader + Len(newEntries))
  <2>1. /\ os \in Image /\ oldHeader \in 0 .. Capacity /\ Len(newEntries) \in Nat
        /\ oldHeader + Len(newEntries) <= Capacity /\ oldHeader <= os.len
        /\ Written = Len(newEntries) /\ PayloadsWritten(Written) /\ IndexWritten
    BY <1>0 DEF TypeOK, PrefixKept, InOrder, Appending
  <2>2. /\ os' \in Image /\ os'.count = oldHeader + Len(newEntries)
        /\ os'.data = os.data /\ os'.index = os.index /\ os'.len = os.len
    <3>1. oldHeader + Len(newEntries) \in 0 .. Capacity
      BY <2>1, FileAssumption
    <3> QED
      BY <3>1, <2>1, <1>1, CountImage
  <2>3. newEntries' = newEntries /\ oldHeader' = oldHeader
    BY <1>0 DEF itemVars
  <2>4. /\ PayloadsWritten(Written)' /\ Written' = Len(newEntries)
        /\ IndexWritten' /\ Advanced'
    BY <2>1, <2>2, <2>3 DEF PayloadsWritten, Written, IndexWritten, Advanced
  <2>5. InOrder'
    BY <1>1, <2>3, <2>4 DEF InOrder, Appending
  <2> QED
    BY <1>0, <1>1, <2>1, <2>2, <2>5, Beyond DEF Appending
<1>2. CASE pc' = "restore" /\ UNCHANGED os
  BY <1>0, <1>2, ToRollback DEF Appending, fileVars
<1> QED
  BY <1>1, <1>2 DEF WriteHeader

LEMMA RestoreHeaderKeeps ==
  ASSUME FileInv, atRisk' \in BOOLEAN, RestoreHeader
  PROVE  FileInv'
<1>0. /\ TypeOK /\ PrefixKept /\ InOrder /\ pc = "restore" /\ pc' = "cut"
      /\ UNCHANGED <<exists, dur, viewVars, itemVars, pending, loadActive>>
  BY DEF FileInv, WriterInv, RestoreHeader
<1>1. /\ os \in Image /\ oldHeader \in 0 .. Capacity /\ oldHeader <= os.len
      /\ os.count = oldHeader \/ Advanced
  BY <1>0 DEF TypeOK, PrefixKept, InOrder, Appending
<1>2. CASE os' = Count(os, oldHeader)
  <2>1. /\ os' \in Image /\ os'.count = oldHeader
        /\ os'.data = os.data /\ os'.index = os.index /\ os'.len = os.len
    BY <1>1, <1>2, CountImage
  <2>2. InOrder'
    BY <1>0, <2>1 DEF InOrder, Appending, itemVars
  <2> QED
    BY <1>0, <1>1, <2>1, <2>2, Beyond DEF Appending
<1>3. CASE os' = os
  <2>1. InOrder'
    BY <1>0, <1>1, <1>3 DEF InOrder, Appending, itemVars, Advanced, IndexWritten
  <2> QED
    BY <1>0, <1>1, <1>3, <2>1, Beyond DEF Appending
<1> QED
  BY <1>2, <1>3 DEF RestoreHeader

LEMMA CutTailKeeps ==
  ASSUME FileInv, atRisk' \in BOOLEAN, CutTail
  PROVE  FileInv'
<1>0. /\ TypeOK /\ PrefixKept /\ InOrder /\ pc = "cut" /\ pc' = "flushRollback"
      /\ UNCHANGED <<exists, dur, viewVars, itemVars, pending, loadActive>>
  BY DEF FileInv, WriterInv, CutTail
<1>1. /\ os \in Image /\ oldHeader \in 0 .. Capacity /\ oldHeader <= os.len
      /\ os.count = oldHeader \/ Advanced
      /\ Len(newEntries) \in Nat
  BY <1>0 DEF TypeOK, PrefixKept, InOrder, Appending
<1>2. CASE os' = Truncated(os, oldHeader)
  <2>1. /\ os' \in Image /\ os'.count = os.count /\ os'.index = os.index
        /\ os'.len = oldHeader
        /\ \A i \in Slots : i <= oldHeader => os'.data[i] = os.data[i]
    BY <1>1, <1>2, TruncatedImage
  <2>2. InOrder'
    BY <1>0, <1>1, <2>1 DEF InOrder, Appending, itemVars, Advanced, IndexWritten
  <2> QED
    BY <1>0, <1>1, <2>1, <2>2, Beyond, FileAssumption DEF Appending, Slots
<1>3. CASE os' = os
  <2>1. InOrder'
    BY <1>0, <1>1, <1>3 DEF InOrder, Appending, itemVars, Advanced, IndexWritten
  <2> QED
    BY <1>0, <1>1, <1>3, <2>1, Beyond DEF Appending
<1> QED
  BY <1>2, <1>3 DEF CutTail

-----------------------------------------------------------------------------
(* The flushes.                                                             *)

(* A flush that succeeds, or is skipped, changes the medium alone.             *)
LEMMA Flushed ==
  ASSUME FileInv, atRisk' \in BOOLEAN, pc \in Appending,
         UNCHANGED <<exists, os, viewVars, itemVars, pending, loadActive>>,
         dur' \in {dur, os}, pc' \in Appending \cup {"map"}, InOrder', Vouched'
  PROVE  FileInv'
<1>0. TypeOK /\ MappingInv /\ PrefixKept
  BY DEF FileInv, WriterInv
<1>1. MappingInv'
  BY <1>0, Held DEF viewVars
<1>2. PrefixKept'
  BY <1>0 DEF PrefixKept, viewVars, itemVars, IntactAt
<1>3. BeforeWrite'
  BY DEF BeforeWrite, Appending
<1>4. TypeOK'
  BY <1>0 DEF TypeOK, Appending, viewVars, itemVars
<1> QED
  BY <1>1, <1>2, <1>3, <1>4 DEF FileInv, WriterInv

(* What the append leaves under a valid header may be mapped: an entry that is  *)
(* known has been verified, one of the item was found intact or is new.        *)
LEMMA AppendedVouched ==
  ASSUME FileInv, pc \in {"flushPayload", "flushHeader"}, pc' = "map",
         pc = "flushPayload" => newEntries = <<>>,
         UNCHANGED <<os, viewVars, itemVars>>
  PROVE  Vouched'
<1>0. /\ TypeOK /\ MappedIsPrefix /\ ReplacedIntact /\ ServedIntact
      /\ PrefixKept /\ InOrder
  BY DEF FileInv, MappingInv, WriterInv
<1> SUFFICES ASSUME Valid(os, FALSE), NEW i \in 1 .. os.count,
                    os.index[i] \in resultKnown \cup batch
             PROVE  IntactAt(os, i)
  BY DEF Vouched, itemVars, IntactAt, Valid
<1>1. /\ os \in Image /\ os.count \in Nat /\ oldHeader \in Nat /\ Len(view) \in Nat
      /\ Len(newEntries) \in Nat /\ os.len \in Nat /\ i <= os.len
  BY <1>0, ImageFields, FileAssumption DEF TypeOK, Valid
<1>2. CASE replaced # <<>>
  BY <1>0, <1>1, <1>2 DEF ReplacedIntact
<1>3. CASE replaced = <<>> /\ i > oldHeader
  <2>1. Advanced /\ Written = Len(newEntries)
    <3>1. pc = "flushHeader"
      BY <1>0, <1>1, <1>3, EmptySeq DEF InOrder, Appending
    <3> QED
      BY <3>1, <1>0 DEF InOrder
  <2>2. i - oldHeader \in 1 .. Len(newEntries) /\ i = oldHeader + (i - oldHeader)
    BY <1>1, <1>3, <2>1 DEF Advanced
  <2> QED
    BY <2>1, <2>2, <1>1 DEF Advanced, IndexWritten, IntactAt
<1>4. CASE replaced = <<>> /\ i <= oldHeader /\ os.index[i] \in batch
  BY <1>0, <1>1, <1>4 DEF PrefixKept, Appending
<1>5. CASE replaced = <<>> /\ i <= oldHeader /\ os.index[i] \in resultKnown
  <2>1. /\ view # <<>> /\ os.index[i] \in known /\ known \subseteq Elements(view)
        /\ Len(view) <= os.count /\ \A j \in 1 .. Len(view) : os.index[j] = view[j]
    BY <1>0, <1>5 DEF PrefixKept, Appending, TypeOK, MappedIsPrefix
  <2>2. PICK j \in DOMAIN view : view[j] = os.index[i]
    BY <2>1 DEF Elements
  <2>3. j \in 1 .. Len(view) /\ j \in 1 .. os.count
    BY <2>1, <1>0, <1>1, LenProperties DEF TypeOK
  <2>4. j = i
    BY <2>1, <2>2, <2>3 DEF Valid
  <2>5. Mapped(j) = view[j]
    BY <1>0, <2>1, <2>2 DEF ServedIntact
  <2> QED
    BY <2>2, <2>4, <2>5, <1>5 DEF Mapped, IntactAt
<1> QED
  BY <1>1, <1>2, <1>3, <1>4, <1>5

LEMMA FlushPayloadKeeps ==
  ASSUME FileInv, atRisk' \in BOOLEAN, FlushPayload
  PROVE  FileInv'
<1>0. /\ TypeOK /\ PrefixKept /\ InOrder /\ pc = "flushPayload"
      /\ UNCHANGED <<exists, os, viewVars, itemVars, pending, loadActive>>
  BY DEF FileInv, WriterInv, FlushPayload
<1>1. CASE pc' = "index" /\ dur' \in {dur, os}
  <2>1. InOrder'
    BY <1>0, <1>1 DEF InOrder, Appending, PayloadsWritten, Written, itemVars
  <2>2. Vouched'
    BY <1>1 DEF Vouched
  <2> QED
    BY <1>0, <1>1, <2>1, <2>2, Flushed DEF Appending
<1>2. CASE pc' = "map" /\ newEntries = <<>> /\ dur' \in {dur, os}
  <2>1. InOrder'
    BY <1>2 DEF InOrder, Appending
  <2>2. Vouched'
    BY <1>0, <1>2, AppendedVouched
  <2> QED
    BY <1>0, <1>2, <2>1, <2>2, Flushed DEF Appending
<1>3. CASE pc' = "restore" /\ UNCHANGED dur
  BY <1>0, <1>3, ToRollback DEF Appending, fileVars
<1> QED
  BY <1>1, <1>2, <1>3 DEF FlushPayload, Flush

LEMMA FlushIndexKeeps ==
  ASSUME FileInv, atRisk' \in BOOLEAN, FlushIndex
  PROVE  FileInv'
<1>0. /\ TypeOK /\ PrefixKept /\ InOrder /\ pc = "flushIndex"
      /\ UNCHANGED <<exists, os, viewVars, itemVars, pending, loadActive>>
  BY DEF FileInv, WriterInv, FlushIndex
<1>1. CASE pc' = "header" /\ dur' = os
  <2>1. InOrder'
    BY <1>0, <1>1 DEF InOrder, Appending, PayloadsWritten, Written, IndexWritten, itemVars
  <2>2. Vouched'
    BY <1>1 DEF Vouched
  <2> QED
    BY <1>0, <1>1, <2>1, <2>2, Flushed DEF Appending
<1>2. CASE pc' = "restore" /\ UNCHANGED dur
  BY <1>0, <1>2, ToRollback DEF Appending, fileVars
<1> QED
  BY <1>1, <1>2 DEF FlushIndex, Flush

LEMMA FlushHeaderKeeps ==
  ASSUME FileInv, atRisk' \in BOOLEAN, FlushHeader
  PROVE  FileInv'
<1>0. /\ TypeOK /\ PrefixKept /\ InOrder /\ pc = "flushHeader"
      /\ UNCHANGED <<exists, os, viewVars, itemVars, pending, loadActive>>
  BY DEF FileInv, WriterInv, FlushHeader
<1>1. CASE pc' = "map" /\ dur' = os
  <2>1. InOrder'
    BY <1>1 DEF InOrder, Appending
  <2>2. Vouched'
    BY <1>0, <1>1, AppendedVouched
  <2> QED
    BY <1>0, <1>1, <2>1, <2>2, Flushed DEF Appending
<1>2. CASE pc' = "restore" /\ UNCHANGED dur
  BY <1>0, <1>2, ToRollback DEF Appending, fileVars
<1> QED
  BY <1>1, <1>2 DEF FlushHeader, Flush

LEMMA FlushRollbackKeeps ==
  ASSUME FileInv, atRisk' \in BOOLEAN, FlushRollback
  PROVE  FileInv'
<1>0. /\ TypeOK /\ MappingInv /\ Fail /\ dur' \in {dur, os}
      /\ UNCHANGED <<exists, os, viewVars, batch, resetFile, newEntries, oldHeader,
                     pending, loadActive>>
  BY DEF FileInv, FlushRollback
<1>1. WriterInv' /\ result' \in Seq(Entries) /\ resultKnown' \subseteq Entries
      /\ pc' = "install"
  BY <1>0, GivenUp
<1>2. MappingInv'
  BY <1>0, Held DEF viewVars
<1>3. TypeOK'
  BY <1>0, <1>1 DEF TypeOK, viewVars
<1> QED
  BY <1>1, <1>2, <1>3 DEF FileInv

-----------------------------------------------------------------------------
(* Start-up, power loss and what goes on beside the writer.                    *)

LEMMA InitInv == Init => FileInv
<1> SUFFICES ASSUME Init PROVE FileInv
  OBVIOUS
<1>1. os \in Image
  <2>1. PICK S \in SUBSET Entries :
          /\ Cardinality(S) <= Capacity
          /\ os = IF exists THEN FileOf(SetToSeq(S)) ELSE Blank
    BY DEF Init
  <2> QED
    BY <2>1, SetSeq, FreshImage, BlankImage
<1>2. TypeOK
  <2>1. <<>> \in Seq(Entries) /\ <<>> \in Seq(Entries \cup {None}) /\ Len(<<>>) = 0
    BY EmptySeq
  <2>2. Len(<<>>) <= Capacity /\ 0 \in 0 .. Capacity
    BY <2>1, FileAssumption
  <2>3. /\ view = <<>> /\ replaced = <<>> /\ known = {} /\ newEntries = <<>>
        /\ oldHeader = 0 /\ result = <<>> /\ resultKnown = {} /\ dur = os
        /\ pending = {} /\ batch = {} /\ pc = "load" /\ exists \in BOOLEAN
        /\ atRisk = FALSE /\ diskInvalidated = FALSE /\ needsReplacement = FALSE
        /\ resetFile = FALSE /\ loadActive = FALSE
    BY DEF Init
  <2> HIDE DEF Init
  <2> QED
    BY <1>1, <2>1, <2>2, <2>3 DEF TypeOK
<1>3. MappingInv
  BY DEF Init, MappingInv, MappedIsPrefix, ReplacedIntact, Distinct, ServedIntact
<1>4. WriterInv
  BY DEF Init, WriterInv, PrefixKept, InOrder, BeforeWrite, Vouched, Appending
<1> QED
  BY <1>2, <1>3, <1>4 DEF FileInv

(* Nothing is mapped any more.                                               *)
LEMMA Unmapped ==
  ASSUME TypeOK, atRisk' \in BOOLEAN, view' = <<>>, replaced' = <<>>, known' = {},
         diskInvalidated' = FALSE, needsReplacement' = FALSE,
         exists' \in BOOLEAN, os' \in Image, dur' \in Image,
         pending' \subseteq Entries, batch' \subseteq Entries, resetFile' \in BOOLEAN,
         newEntries' \in Seq(Entries), oldHeader' \in 0 .. Capacity,
         result' \in Seq(Entries), resultKnown' \subseteq Entries,
         loadActive' \in BOOLEAN, pc' \in {"load", "idle"}
  PROVE  FileInv'
<1>1. <<>> \in Seq(Entries) /\ <<>> \in Seq(Entries \cup {None}) /\ Len(<<>>) = 0
  BY EmptySeq
<1>2. Len(<<>>) <= Capacity
  BY <1>1, FileAssumption
<1>3. TypeOK'
  BY <1>1, <1>2 DEF TypeOK
<1>4. MappingInv'
  BY DEF MappingInv, MappedIsPrefix, ReplacedIntact, Distinct, ServedIntact
<1> QED
  BY <1>3, <1>4, AtRest DEF FileInv

LEMMA LoadKeeps ==
  ASSUME FileInv, atRisk' \in BOOLEAN, LoadCacheFile
  PROVE  FileInv'
<1>0. /\ TypeOK /\ pc' = "idle" /\ exists /\ Valid(os, TRUE) /\ view' = Committed(os)
      /\ known' = {} /\ diskInvalidated' = FALSE /\ replaced' = <<>>
      /\ needsReplacement' \in BOOLEAN /\ UNCHANGED <<exists, itemVars, pending, loadActive>>
  BY DEF FileInv, LoadCacheFile
<1>1. /\ os \in Image /\ dur \in Image /\ os.count \in 0 .. Capacity
      /\ os.len \in 0 .. Capacity
  BY <1>0, ImageFields DEF TypeOK
<1>2. /\ os.count \in 1 .. Capacity
      /\ view' \in Seq(Entries) /\ Len(view') = os.count
      /\ \A i \in 1 .. os.count : view'[i] = os.index[i] /\ i <= os.len
      /\ os.count <= os.len
  BY <1>0, <1>1, CommittedSeq
<1>3. /\ os' \in Image /\ dur' \in Image /\ os'.count = os.count
      /\ os'.index = os.index /\ os.count <= os'.len
  <2>1. CASE os' = Truncated(os, os.count) /\ dur' \in {dur, os'}
    <3>1. /\ os' \in Image /\ os'.count = os.count /\ os'.index = os.index
          /\ os'.len = os.count
      BY <1>1, <2>1, TruncatedImage
    <3>2. os.count <= os.count
      BY <1>1, FileAssumption
    <3> QED
      BY <1>1, <2>1, <3>1, <3>2
  <2>2. CASE UNCHANGED <<os, dur>>
    BY <1>1, <1>2, <2>2
  <2> QED
    BY <2>1, <2>2 DEF LoadCacheFile
<1>4. TypeOK'
  <2>1. <<>> \in Seq(Entries \cup {None})
    BY EmptySeq
  <2>2. Len(view') <= Capacity
    BY <1>2, FileAssumption
  <2> QED
    BY <1>0, <1>2, <1>3, <2>1, <2>2 DEF TypeOK, itemVars
<1>5. MappingInv'
  <2>1. DOMAIN view' = 1 .. os.count
    BY <1>2, LenProperties
  <2>2. Distinct'
    BY <1>0, <1>2, <2>1 DEF Distinct, Valid
  <2> QED
    BY <1>0, <1>1, <1>2, <1>3, <2>2, FileAssumption
    DEF MappingInv, MappedIsPrefix, ReplacedIntact, ServedIntact
<1> QED
  BY <1>0, <1>4, <1>5, AtRest DEF FileInv

LEMMA RejectKeeps ==
  ASSUME FileInv, atRisk' \in BOOLEAN, RejectCacheFile
  PROVE  FileInv'
<1>0. /\ TypeOK /\ MappingInv /\ pc' = "idle"
      /\ UNCHANGED <<fileVars, viewVars, itemVars, pending, loadActive>>
  BY DEF FileInv, RejectCacheFile
<1>1. MappingInv'
  BY <1>0, Held DEF fileVars, viewVars
<1>2. TypeOK'
  BY <1>0 DEF TypeOK, fileVars, viewVars, itemVars
<1> QED
  BY <1>0, <1>1, <1>2, AtRest DEF FileInv

LEMMA CrashKeeps ==
  ASSUME FileInv, atRisk' \in BOOLEAN, Crash
  PROVE  FileInv'
<1>1. /\ TypeOK /\ view' = <<>> /\ replaced' = <<>> /\ known' = {}
      /\ diskInvalidated' = FALSE /\ needsReplacement' = FALSE
      /\ pending' = {} /\ batch' = {} /\ resetFile' = FALSE /\ newEntries' = <<>>
      /\ oldHeader' = 0 /\ result' = <<>> /\ resultKnown' = {}
      /\ loadActive' = FALSE /\ pc' = "load"
      /\ os' = dur /\ UNCHANGED <<exists, dur>>
  BY DEF FileInv, Crash
<1>2. <<>> \in Seq(Entries)
  BY EmptySeq
<1>3. 0 \in 0 .. Capacity
  BY FileAssumption
<1>4. os' \in Image /\ dur' \in Image /\ exists' \in BOOLEAN
  BY <1>1 DEF TypeOK
<1> QED
  BY <1>1, <1>2, <1>3, <1>4, Unmapped

LEMMA WriteBackKeeps ==
  ASSUME FileInv, atRisk' \in BOOLEAN, WriteBack
  PROVE  FileInv'
<1>0. TypeOK /\ UNCHANGED <<exists, os, viewVars, itemVars, pending, loadActive, pc>>
  BY DEF FileInv, WriteBack
<1>1. /\ os \in Image /\ dur \in Image /\ os.count \in 0 .. Capacity
      /\ os.len \in 0 .. Capacity
      /\ \A i \in Slots : os.index[i] \in Entries \cup {None}
                          /\ os.data[i] \in Entries \cup {None}
  BY <1>0, ImageFields DEF TypeOK
<1>2. dur' \in Image
  <2>1. CASE dur' = Count(dur, os.count)
    BY <1>1, <2>1, CountImage
  <2>2. CASE dur' = Truncated(dur, os.len)
    BY <1>1, <2>2, TruncatedImage
  <2>3. ASSUME NEW i \in Slots, dur' = [dur EXCEPT !.index[i] = os.index[i]]
        PROVE  dur' \in Image
    BY <1>1, <2>3 DEF Image
  <2>4. ASSUME NEW i \in Slots, dur' = [dur EXCEPT !.data[i] = os.data[i]]
        PROVE  dur' \in Image
    BY <1>1, <2>4 DEF Image
  <2> QED
    BY <2>1, <2>2, <2>3, <2>4 DEF WriteBack
<1>3. TypeOK'
  BY <1>0, <1>2 DEF TypeOK, viewVars, itemVars
<1>4. MappingInv' /\ WriterInv'
  BY <1>0, Beside DEF viewVars
<1> QED
  BY <1>3, <1>4 DEF FileInv

LEMMA SetLoadActiveKeeps ==
  ASSUME FileInv, atRisk' \in BOOLEAN, SetLoadActive
  PROVE  FileInv'
<1>0. /\ TypeOK /\ UNCHANGED <<fileVars, viewVars, itemVars, pending, pc>>
      /\ loadActive' = ~loadActive
  BY DEF FileInv, SetLoadActive
<1>1. TypeOK'
  <2>1. loadActive' \in BOOLEAN
    BY <1>0 DEF TypeOK
  <2> QED
    BY <1>0, <2>1 DEF TypeOK, fileVars, viewVars, itemVars
<1>2. MappingInv' /\ WriterInv'
  BY <1>0, Beside DEF fileVars, viewVars
<1> QED
  BY <1>1, <1>2 DEF FileInv

LEMMA RecordKeeps ==
  ASSUME FileInv, atRisk' \in BOOLEAN, NEW e \in Entries, Record(e)
  PROVE  FileInv'
<1>0. /\ TypeOK /\ UNCHANGED <<fileVars, viewVars, itemVars, loadActive, pc>>
      /\ pending' = pending \cup {e}
  BY DEF FileInv, Record
<1>1. TypeOK'
  BY <1>0 DEF TypeOK, fileVars, viewVars, itemVars
<1>2. MappingInv' /\ WriterInv'
  BY <1>0, Beside DEF fileVars, viewVars
<1> QED
  BY <1>1, <1>2 DEF FileInv

LEMMA VerifyEntryKeeps ==
  ASSUME FileInv, atRisk' \in BOOLEAN, NEW i \in Slots, VerifyEntry(i)
  PROVE  FileInv'
<1>0. /\ TypeOK /\ MappingInv /\ WriterInv /\ i \in DOMAIN view
      /\ UNCHANGED <<fileVars, view, replaced, needsReplacement, itemVars,
                     pending, loadActive, pc>>
  BY DEF FileInv, VerifyEntry
<1>1. /\ diskInvalidated' \in BOOLEAN /\ known \subseteq known'
      /\ known' \subseteq Elements(view)
  BY <1>0 DEF VerifyEntry, TypeOK, Elements
<1>2. ServedIntact'
  <2> SUFFICES ASSUME NEW j \in DOMAIN view, view[j] \in known'
               PROVE  Mapped(j) = view[j]
    BY <1>0 DEF ServedIntact, Mapped, fileVars
  <2>1. CASE view[j] \in known
    BY <1>0, <2>1 DEF MappingInv, ServedIntact
  <2>2. CASE view[j] \notin known
    <3>1. view[j] = view[i] /\ Mapped(i) = view[i]
      BY <2>2 DEF VerifyEntry
    <3> QED
      BY <3>1, <1>0 DEF MappingInv, Distinct
  <2> QED
    BY <2>1, <2>2
<1>3. MappingInv'
  BY <1>0, <1>2 DEF MappingInv, MappedIsPrefix, ReplacedIntact, Distinct, IntactAt, fileVars
<1>4. TypeOK'
  BY <1>0, <1>1 DEF TypeOK, fileVars, itemVars, Elements
<1>5. PrefixKept' /\ BeforeWrite'
  BY <1>0, <1>1 DEF WriterInv, PrefixKept, BeforeWrite, fileVars, itemVars, IntactAt
<1>6. InOrder'
  BY <1>0 DEF WriterInv, InOrder, PayloadsWritten, IndexWritten, Advanced, Written,
     fileVars, itemVars
<1>7. Vouched'
  BY <1>0 DEF WriterInv, Vouched, fileVars, itemVars, IntactAt, Valid, Committed, Elements
<1> QED
  BY <1>3, <1>4, <1>5, <1>6, <1>7 DEF FileInv, WriterInv

LEMMA RemoveFileKeeps ==
  ASSUME FileInv, atRisk' \in BOOLEAN, RemoveFile
  PROVE  FileInv'
<1>1. /\ TypeOK /\ view' = <<>> /\ replaced' = <<>> /\ known' = {} /\ exists' = FALSE
      /\ diskInvalidated' = FALSE /\ needsReplacement' = FALSE /\ pc' = "idle"
      /\ UNCHANGED <<os, dur, itemVars, pending, loadActive>>
  BY DEF FileInv, RemoveFile
<1>2. /\ os' \in Image /\ dur' \in Image /\ pending' \subseteq Entries
      /\ batch' \subseteq Entries /\ resetFile' \in BOOLEAN /\ newEntries' \in Seq(Entries)
      /\ oldHeader' \in 0 .. Capacity /\ result' \in Seq(Entries)
      /\ resultKnown' \subseteq Entries /\ loadActive' \in BOOLEAN
  BY <1>1 DEF TypeOK, itemVars
<1> QED
  BY <1>1, <1>2, Unmapped

-----------------------------------------------------------------------------
(* The writer before its first write, and its result.                         *)

LEMMA BeginKeeps ==
  ASSUME FileInv, atRisk' \in BOOLEAN, Begin
  PROVE  FileInv'
<1>0. /\ TypeOK /\ MappingInv /\ pc' = "open" /\ batch' = pending /\ pending' = {}
      /\ resetFile' = (diskInvalidated \/ needsReplacement \/ view = <<>>)
      /\ resultKnown' = known
      /\ UNCHANGED <<fileVars, viewVars, newEntries, oldHeader, result, loadActive>>
  BY DEF FileInv, Begin
<1>1. MappingInv'
  BY <1>0, Held DEF fileVars, viewVars
<1>2. WriterInv'
  BY <1>0 DEF WriterInv, PrefixKept, InOrder, BeforeWrite, Vouched, Appending, viewVars
<1>3. resetFile' \in BOOLEAN /\ known \subseteq Entries
  <2>1. (diskInvalidated \/ needsReplacement \/ view = <<>>) \in BOOLEAN
    OBVIOUS
  <2>2. known \subseteq Entries
    BY <1>0, LenProperties, ElementOfSeq DEF TypeOK, Elements
  <2> QED
    BY <1>0, <2>1, <2>2
<1>4. TypeOK'
  BY <1>0, <1>3 DEF TypeOK, fileVars, viewVars
<1> QED
  BY <1>1, <1>2, <1>4 DEF FileInv

(* An entry of the item that the file already has is intact, or nothing is       *)
(* appended.                                                                 *)
LEMMA AppendBegun ==
  ASSUME FileInv, pc = "open", ~resetFile, Valid(os, TRUE),
         \A e \in batch \ Missing : Intact(e),
         ~(Cardinality(Missing) > Capacity - os.count),
         pc' = "truncate", newEntries' = SetToSeq(Missing), oldHeader' = os.count,
         UNCHANGED <<os, view, replaced, known, batch, resultKnown>>
  PROVE  WriterInv' /\ newEntries' \in Seq(Entries) /\ oldHeader' \in 0 .. Capacity
<1>0. TypeOK /\ MappedIsPrefix /\ BeforeWrite
  BY DEF FileInv, MappingInv, WriterInv
<1>1. /\ os.count \in 1 .. Capacity /\ os.count <= os.len
      /\ os.count \in 0 .. Capacity /\ Capacity \in Nat
      /\ DOMAIN Committed(os) = 1 .. os.count
      /\ \A i \in 1 .. os.count : Committed(os)[i] = os.index[i]
  <2>1. os \in Image
    BY <1>0 DEF TypeOK
  <2> QED
    BY <2>1, CommittedSeq, ImageFields, FileAssumption DEF Committed
<1>2. Missing \in SUBSET Entries
  BY <1>0 DEF TypeOK, Missing
<1>3. /\ newEntries' \in Seq(Entries) /\ Len(newEntries') = Cardinality(Missing)
      /\ Cardinality(Missing) \in Nat
  BY <1>2, SetSeq
<1>4. os.count + Len(newEntries') <= Capacity
  BY <1>1, <1>3
<1>5. ASSUME NEW i \in 1 .. os.count, os.index[i] \in batch
      PROVE  IntactAt(os, i)
  <2>1. os.index[i] \notin Missing
    BY <1>1 DEF Missing, Elements
  <2>2. Intact(os.index[i])
    BY <1>5, <2>1
  <2> QED
    BY <2>2 DEF Intact, IntactAt
<1>6. view # <<>> /\ resultKnown \subseteq known
  BY <1>0 DEF BeforeWrite
<1>7. replaced = <<>> => Len(view) <= os.count
  BY <1>0, <1>6 DEF MappedIsPrefix
<1>8. PrefixKept'
  BY <1>1, <1>4, <1>5, <1>6, <1>7 DEF PrefixKept, Appending, IntactAt
<1>9. InOrder' /\ BeforeWrite' /\ Vouched'
  BY DEF InOrder, BeforeWrite, Vouched, Appending
<1> QED
  BY <1>1, <1>3, <1>8, <1>9 DEF WriterInv

LEMMA OpenKeeps ==
  ASSUME FileInv, atRisk' \in BOOLEAN, Open
  PROVE  FileInv'
<1>0. /\ TypeOK /\ MappingInv /\ pc = "open"
      /\ UNCHANGED <<fileVars, viewVars, batch, resetFile, pending, loadActive>>
  BY DEF FileInv, Open
<1>1. MappingInv'
  BY <1>0, Held DEF fileVars, viewVars
<1>2. CASE Fail /\ UNCHANGED <<newEntries, oldHeader>>
  <2>1. WriterInv' /\ result' \in Seq(Entries) /\ resultKnown' \subseteq Entries
        /\ pc' = "install"
    BY <1>0, <1>2, GivenUp
  <2>2. TypeOK'
    BY <1>0, <1>2, <2>1 DEF TypeOK, fileVars, viewVars
  <2> QED
    BY <1>1, <2>1, <2>2 DEF FileInv
<1>3. CASE pc' = "fresh" /\ UNCHANGED <<newEntries, oldHeader, result, resultKnown>>
  <2>1. TypeOK'
    BY <1>0, <1>3 DEF TypeOK, fileVars, viewVars
  <2> QED
    BY <1>1, <1>3, <2>1, AtRest DEF FileInv
<1>4. CASE /\ ~(\/ resetFile \/ ~exists \/ ~Valid(os, TRUE)
                \/ \E e \in batch \ Missing : ~Intact(e)
                \/ Cardinality(Missing) > Capacity - os.count)
           /\ pc' = "truncate" /\ newEntries' = SetToSeq(Missing) /\ oldHeader' = os.count
           /\ UNCHANGED <<result, resultKnown>>
  <2>1. ~resetFile /\ Valid(os, TRUE) /\ (\A e \in batch \ Missing : Intact(e))
        /\ ~(Cardinality(Missing) > Capacity - os.count)
    BY <1>4
  <2>2. WriterInv' /\ newEntries' \in Seq(Entries) /\ oldHeader' \in 0 .. Capacity
    BY <1>0, <1>4, <2>1, AppendBegun DEF fileVars, viewVars
  <2>3. TypeOK'
    BY <1>0, <1>4, <2>2 DEF TypeOK, fileVars, viewVars
  <2> QED
    BY <1>1, <2>2, <2>3 DEF FileInv
<1> QED
  BY <1>2, <1>3, <1>4 DEF Open

LEMMA FreshKeeps ==
  ASSUME FileInv, atRisk' \in BOOLEAN, WriteFresh \/ FlushFresh
  PROVE  FileInv'
<1>0. /\ TypeOK /\ MappingInv /\ BeforeWrite
      /\ UNCHANGED <<fileVars, viewVars, batch, resetFile, newEntries, oldHeader,
                     pending, loadActive>>
  BY DEF FileInv, WriterInv, WriteFresh, FlushFresh
<1>1. MappingInv'
  BY <1>0, Held DEF fileVars, viewVars
<1>2. CASE Fail
  <2>1. WriterInv' /\ result' \in Seq(Entries) /\ resultKnown' \subseteq Entries
        /\ pc' = "install"
    BY <1>0, <1>2, GivenUp
  <2>2. TypeOK'
    BY <1>0, <2>1 DEF TypeOK, fileVars, viewVars
  <2> QED
    BY <1>1, <2>1, <2>2 DEF FileInv
<1>3. CASE /\ pc' \in {"flushFresh", "rename", "renameUnflushed"}
           /\ Cardinality(batch) <= Capacity /\ UNCHANGED <<result, resultKnown>>
  <2>1. WriterInv'
    BY <1>0, <1>3 DEF WriterInv, PrefixKept, InOrder, BeforeWrite, Vouched, Appending
  <2>2. TypeOK'
    BY <1>0, <1>3 DEF TypeOK, fileVars, viewVars
  <2> QED
    BY <1>1, <2>1, <2>2 DEF FileInv
<1> QED
  BY <1>0, <1>2, <1>3 DEF WriteFresh, FlushFresh, BeforeWrite

LEMMA RenameKeeps ==
  ASSUME FileInv, atRisk' \in BOOLEAN, Rename
  PROVE  FileInv'
<1>0. /\ TypeOK /\ MappingInv /\ BeforeWrite /\ pc \in {"rename", "renameUnflushed"}
      /\ UNCHANGED <<view, known, diskInvalidated, needsReplacement, batch,
                     resetFile, newEntries, oldHeader, pending, loadActive>>
  BY DEF FileInv, WriterInv, Rename
<1>1. CASE Fail /\ UNCHANGED <<fileVars, replaced>>
  <2>1. WriterInv' /\ result' \in Seq(Entries) /\ resultKnown' \subseteq Entries
        /\ pc' = "install"
    BY <1>0, <1>1, GivenUp
  <2>2. MappingInv'
    BY <1>0, <1>1, Held DEF fileVars
  <2>3. TypeOK'
    BY <1>0, <1>1, <2>1 DEF TypeOK, fileVars
  <2> QED
    BY <2>1, <2>2, <2>3 DEF FileInv
<1>2. CASE /\ exists' = TRUE /\ os' = FileOf(SetToSeq(batch))
           /\ dur' = (IF pc = "rename" THEN os' ELSE Blank)
           /\ replaced' = [i \in DOMAIN view |-> Mapped(i)]
           /\ resultKnown' = batch /\ pc' = "map" /\ UNCHANGED result
  <2>1. /\ SetToSeq(batch) \in Seq(Entries) /\ Len(SetToSeq(batch)) <= Capacity
    BY <1>0, SetSeq DEF TypeOK, BeforeWrite
  <2>2. /\ os' \in Image /\ dur' \in Image
        /\ \A i \in Slots : IntactAt(os', i)
        /\ os'.count \in 0 .. Capacity
    BY <1>2, <2>1, FreshImage, BlankImage, ImageFields
  <2>3. \A i \in 1 .. os'.count : IntactAt(os', i)
    BY <2>2, FileAssumption DEF Slots
  <2>4. DOMAIN view = 1 .. Len(view) /\ Len(view) \in Nat
    BY <1>0, LenProperties DEF TypeOK
  <2>5. view # <<>> => replaced' # <<>>
    <3> SUFFICES ASSUME view # <<>> PROVE DOMAIN replaced' # DOMAIN <<>>
      OBVIOUS
    <3>1. Len(view) > 0
      BY <1>0, EmptySeq DEF TypeOK
    <3>2. 1 \in DOMAIN replaced'
      BY <1>2, <2>4, <3>1
    <3> QED
      BY <3>2
  <2>6. replaced' \in Seq(Entries \cup {None})
    <3>1. \A i \in DOMAIN view : Mapped(i) \in Entries \cup {None}
      <4> SUFFICES ASSUME NEW i \in DOMAIN view PROVE Mapped(i) \in Entries \cup {None}
        OBVIOUS
      <4>1. CASE replaced = <<>>
        <5>1. i \in Slots /\ os.data \in [Slots -> Entries \cup {None}]
          BY <1>0, <2>4, ImageFields, FileAssumption DEF TypeOK, Slots
        <5> QED
          BY <5>1, <4>1 DEF Mapped
      <4>2. CASE replaced # <<>>
        <5>1. i \in DOMAIN replaced
          BY <4>2, <1>0 DEF MappingInv, ReplacedIntact
        <5>2. replaced \in Seq(Entries \cup {None})
          BY <1>0 DEF TypeOK
        <5> QED
          BY <4>2, <5>1, <5>2, LenProperties, ElementOfSeq DEF Mapped
      <4> QED
        BY <4>1, <4>2
    <3>2. replaced' \in [1 .. Len(view) -> Entries \cup {None}]
      BY <1>2, <2>4, <3>1
    <3> QED
      BY <3>2, <2>4, SeqDef
  <2>7. TypeOK'
    BY <1>0, <1>2, <2>2, <2>6 DEF TypeOK
  <2>8. MappedIsPrefix' /\ Distinct'
    BY <1>0, <2>5 DEF MappingInv, MappedIsPrefix, Distinct
  <2>9. ReplacedIntact'
    BY <1>0, <1>2, <2>3 DEF ReplacedIntact
  <2>10. ServedIntact'
    <3> SUFFICES ASSUME NEW i \in DOMAIN view, view[i] \in known
                 PROVE  Mapped(i)' = view[i]
      BY <1>0 DEF ServedIntact
    <3>1. view # <<>>
      BY <2>4, EmptySeq
    <3>2. Mapped(i)' = Mapped(i)
      BY <1>2, <2>5, <3>1 DEF Mapped
    <3> QED
      BY <3>2, <1>0 DEF MappingInv, ServedIntact
  <2>11. WriterInv'
    BY <1>2, <2>3 DEF WriterInv, PrefixKept, InOrder, BeforeWrite, Vouched, Appending
  <2> QED
    BY <2>7, <2>8, <2>9, <2>10, <2>11 DEF FileInv, MappingInv
<1> QED
  BY <1>1, <1>2 DEF Rename

LEMMA MapCommittedFileKeeps ==
  ASSUME FileInv, atRisk' \in BOOLEAN, MapCommittedFile
  PROVE  FileInv'
<1>0. /\ TypeOK /\ MappingInv /\ Vouched /\ pc = "map" /\ pc' = "install"
      /\ UNCHANGED <<fileVars, viewVars, batch, resetFile, newEntries, oldHeader,
                     pending, loadActive>>
  BY DEF FileInv, WriterInv, MapCommittedFile
<1>1. MappingInv'
  BY <1>0, Held DEF fileVars, viewVars
<1>2. PrefixKept' /\ InOrder' /\ BeforeWrite'
  BY <1>0 DEF PrefixKept, InOrder, BeforeWrite, Appending
<1>3. CASE /\ Valid(os, FALSE) /\ result' = Committed(os)
           /\ resultKnown' = (resultKnown \cup batch) \cap Elements(result')
  <2>1. result' \in Seq(Entries) /\ resultKnown' \subseteq Entries
    BY <1>0, <1>3, CommittedSeq DEF TypeOK
  <2>2. Vouched'
    BY <1>0, <1>3 DEF Vouched, Valid, Committed, fileVars, IntactAt, Elements
  <2>3. TypeOK'
    BY <1>0, <2>1 DEF TypeOK, fileVars, viewVars
  <2> QED
    BY <1>1, <1>2, <2>2, <2>3 DEF FileInv, WriterInv
<1>4. CASE result' = <<>> /\ resultKnown' = {}
  <2>1. result' \in Seq(Entries) /\ resultKnown' \subseteq Entries
    BY <1>4, EmptySeq
  <2>2. Vouched'
    BY <1>0, <1>4 DEF Vouched
  <2>3. TypeOK'
    BY <1>0, <2>1 DEF TypeOK, fileVars, viewVars
  <2> QED
    BY <1>1, <1>2, <2>2, <2>3 DEF FileInv, WriterInv
<1> QED
  BY <1>3, <1>4 DEF MapCommittedFile

LEMMA InstallKeeps ==
  ASSUME FileInv, atRisk' \in BOOLEAN, Install
  PROVE  FileInv'
<1>0. /\ TypeOK /\ MappingInv /\ Vouched /\ pc = "install" /\ pc' = "idle"
      /\ batch' = {} /\ resetFile' = FALSE /\ newEntries' = <<>> /\ oldHeader' = 0
      /\ result' = <<>> /\ resultKnown' = {}
      /\ UNCHANGED <<fileVars, loadActive>>
  BY DEF FileInv, WriterInv, Install
<1>1. <<>> \in Seq(Entries) /\ <<>> \in Seq(Entries \cup {None}) /\ 0 \in 0 .. Capacity
  BY EmptySeq, FileAssumption
<1>2. CASE pending' = pending \cup batch /\ UNCHANGED viewVars
  <2>1. MappingInv'
    BY <1>0, <1>2, Held DEF fileVars, viewVars
  <2>2. TypeOK'
    BY <1>0, <1>1, <1>2 DEF TypeOK, fileVars, viewVars
  <2> QED
    BY <1>0, <2>1, <2>2, AtRest DEF FileInv
<1>3. CASE /\ result # <<>>
           /\ view' = result /\ known' = resultKnown /\ replaced' = <<>>
           /\ diskInvalidated' = FALSE /\ needsReplacement' = FALSE
           /\ UNCHANGED pending
  <2>1. /\ os \in Image /\ Valid(os, FALSE) /\ view' = Committed(os)
        /\ known' \subseteq Elements(view')
        /\ \A i \in 1 .. os.count : os.index[i] \in known' => os.data[i] = os.index[i]
        /\ os' = os
    BY <1>0, <1>3 DEF Vouched, IntactAt, fileVars, TypeOK
  <2>2. /\ view' \in Seq(Entries) /\ Len(view') = os.count /\ os.count \in 1 .. Capacity
        /\ \A i \in 1 .. os.count : view'[i] = os.index[i]
        /\ os.count <= os.len
    BY <2>1, CommittedSeq
  <2>3. DOMAIN view' = 1 .. os.count /\ Len(view') <= Capacity
    BY <2>2, LenProperties, FileAssumption
  <2>4. TypeOK'
    BY <1>0, <1>1, <1>3, <2>1, <2>2, <2>3 DEF TypeOK, fileVars
  <2>5. Distinct'
    BY <2>1, <2>2, <2>3 DEF Distinct, Valid
  <2>6. MappedIsPrefix' /\ ReplacedIntact'
    BY <1>3, <2>1, <2>2 DEF MappedIsPrefix, ReplacedIntact
  <2>7. ServedIntact'
    BY <1>3, <2>1, <2>2, <2>3 DEF ServedIntact, Mapped
  <2> QED
    BY <1>0, <2>4, <2>5, <2>6, <2>7, AtRest DEF FileInv, MappingInv
<1> QED
  BY <1>2, <1>3 DEF Install

-----------------------------------------------------------------------------
LEMMA StepInv == FileInv /\ [Next]_vars => FileInv'
<1> SUFFICES ASSUME FileInv, [Next]_vars PROVE FileInv'
  OBVIOUS
<1>1. CASE UNCHANGED vars
  <2>1. TypeOK /\ UNCHANGED <<fileVars, viewVars, itemVars, pending, loadActive, pc, atRisk>>
    BY <1>1 DEF FileInv, vars
  <2>2. TypeOK'
    BY <2>1 DEF TypeOK, fileVars, viewVars, itemVars
  <2>3. MappingInv' /\ WriterInv'
    BY <2>1, Beside DEF fileVars, viewVars
  <2> QED
    BY <2>2, <2>3 DEF FileInv
<1>2. CASE Next
  <2>1. atRisk' \in BOOLEAN /\ Step
    BY <1>2, RiskType DEF FileInv, Next
  <2>2. CASE AppendFile
    BY <2>1, <2>2, OpenKeeps, TruncateTailKeeps, WritePayloadKeeps, FlushPayloadKeeps,
       WriteIndexKeeps, FlushIndexKeeps, WriteHeaderKeeps, FlushHeaderKeeps,
       RestoreHeaderKeeps, CutTailKeeps, FlushRollbackKeeps DEF AppendFile
  <2>3. CASE WriteFreshFile
    BY <2>1, <2>3, FreshKeeps, RenameKeeps DEF WriteFreshFile
  <2>4. CASE \/ LoadCacheFile \/ RejectCacheFile \/ Crash \/ WriteBack \/ SetLoadActive
             \/ RemoveFile \/ Begin \/ MapCommittedFile \/ Install
    BY <2>1, <2>4, LoadKeeps, RejectKeeps, CrashKeeps, WriteBackKeeps, SetLoadActiveKeeps,
       RemoveFileKeeps, BeginKeeps, MapCommittedFileKeeps, InstallKeeps
  <2>5. ASSUME NEW e \in Entries, Record(e) PROVE FileInv'
    BY <2>1, <2>5, RecordKeeps
  <2>6. ASSUME NEW i \in Slots, VerifyEntry(i) PROVE FileInv'
    BY <2>1, <2>6, VerifyEntryKeeps
  <2> QED
    BY <2>1, <2>2, <2>3, <2>4, <2>5, <2>6 DEF Step
<1> QED
  BY <1>1, <1>2

(* Every variable stays in its type, and the writer and the mapping in the       *)
(* inductive invariant the others follow from.                                *)
THEOREM FileCorrect == Spec => [](TypeOK /\ MappingInv /\ WriterInv)
<1>1. FileInv => TypeOK /\ MappingInv /\ WriterInv
  BY DEF FileInv
<1> QED
  BY <1>1, InitInv, StepInv, PTL DEF Spec

(* Whatever crashes, cancelled appends, rollbacks, replacements and failed      *)
(* mappings lie behind it, an entry that is served without a checksum has the   *)
(* payload it names.                                                         *)
THEOREM ServedRightly == Spec => []ServedIntact
<1>1. FileInv => ServedIntact
  BY DEF FileInv, MappingInv
<1> QED
  BY <1>1, InitInv, StepInv, PTL DEF Spec

(* No writer takes from the file what a published mapping of it indexes.        *)
THEOREM MappingKept == Spec => []MappedPrefixKept
<1>1. FileInv => MappedPrefixKept
  <2> SUFFICES ASSUME FileInv, view # <<>>, replaced = <<>>
               PROVE  os.len >= Len(view) /\ SubSeq(Committed(os), 1, Len(view)) = view
    BY DEF MappedPrefixKept
  <2>1. /\ os \in Image /\ view \in Seq(Entries) /\ Len(view) \in Nat
        /\ os.len \in Nat /\ os.count \in Nat
        /\ Len(view) <= os.count /\ Len(view) <= os.len
        /\ \A i \in 1 .. Len(view) : os.index[i] = view[i]
    BY ImageFields, FileAssumption DEF FileInv, TypeOK, MappingInv, MappedIsPrefix
  <2>2. \A i \in 1 .. Len(view) : Committed(os)[i] = view[i] /\ view[i] \in Entries
    BY <2>1, ElementOfSeq DEF Committed
  <2>3. /\ SubSeq(Committed(os), 1, Len(view)) \in Seq(Entries)
        /\ Len(SubSeq(Committed(os), 1, Len(view))) = Len(view)
        /\ \A i \in 1 .. Len(view) :
             SubSeq(Committed(os), 1, Len(view))[i] = view[i]
    <3> DEFINE c == Committed(os)
    <3>1. 1 \in Int /\ Len(view) \in Int /\ \A i \in 1 .. Len(view) : c[i] \in Entries
      BY <2>1, <2>2
    <3> HIDE DEF c
    <3>2. /\ SubSeq(c, 1, Len(view)) \in Seq(Entries)
          /\ Len(SubSeq(c, 1, Len(view))) = IF 1 <= Len(view) THEN Len(view) - 1 + 1 ELSE 0
          /\ \A i \in 1 .. Len(view) - 1 + 1 : SubSeq(c, 1, Len(view))[i] = c[1 + i - 1]
      BY <3>1, SubSeqProperties
    <3>3. c = Committed(os)
      BY DEF c
    <3> QED
      BY <3>2, <3>3, <2>1, <2>2
  <2> QED
    BY <2>1, <2>3, SeqEqual
<1> QED
  BY <1>1, InitInv, StepInv, PTL DEF Spec

-----------------------------------------------------------------------------
(* CacheFile implements AtomicStore: across crashes at any point, with the       *)
(* medium written back in any order, the payloads a file safely stores change    *)
(* by whole batches.                                                         *)

Agree(f, g, n) == \A i \in 1 .. n : f.index[i] = g.index[i] /\ f.data[i] = g.data[i]

(* A file a restart would accept, with all payloads intact.                    *)
Good(f) == Valid(f, TRUE) /\ \A i \in 1 .. f.count : IntactAt(f, i)
Indexed(f) == {f.index[i] : i \in 1 .. f.count}

BatchInv ==
  /\ pc \in {"load", "idle"} <=> batch = {}
  /\ pc = "load" => ~atRisk

(* What an append adds to a valid prefix: each payload of the item that the file *)
(* does not have, once.                                                       *)
NewInv ==
  pc \in Appending =>
    /\ oldHeader >= 1 /\ \A i \in 1 .. oldHeader : os.index[i] # None
    /\ \A i, j \in 1 .. oldHeader : os.index[i] = os.index[j] => i = j
    /\ \A j, k \in 1 .. Len(newEntries) : newEntries[j] = newEntries[k] => j = k
    /\ \A k \in 1 .. Len(newEntries) :
         newEntries[k] \in batch /\ \A i \in 1 .. oldHeader : os.index[i] # newEntries[k]
    /\ \A e \in batch : \/ \E k \in 1 .. Len(newEntries) : newEntries[k] = e
                        \/ \E i \in 1 .. oldHeader : os.index[i] = e

(* The medium holds the committed prefix; it holds all of an append before the   *)
(* header is written, and only then may its count be ahead or behind.           *)
Behind ==
  /\ Valid(dur, TRUE) /\ dur.count <= os.len /\ Agree(os, dur, dur.count)
  /\ pc # "flushHeader" => os.count = dur.count
  /\ pc \in Appending \ {"flushHeader"} => os.count = oldHeader
  /\ pc = "flushHeader" => dur.count \in {oldHeader, os.count}
  /\ pc \in {"header", "flushHeader"} =>
       /\ Agree(os, dur, oldHeader + Len(newEntries))
       /\ oldHeader + Len(newEntries) <= dur.len

(* A file that a restart rejects is neither served nor written to.             *)
Rejected ==
  /\ os.count = dur.count /\ os.index = dur.index /\ os.len = dur.len
  /\ ~Valid(os, TRUE) /\ pc \notin Appending /\ view = <<>>

SyncInv == exists /\ ~atRisk => Behind \/ Rejected
StoreInv == FileInv /\ BatchInv /\ NewInv /\ SyncInv

(* One step as AtomicStore allows it, wherever it promises anything.            *)
Simulated ==
  ~atRisk /\ ~atRisk' =>
    \/ Stored' = Stored /\ (batch' = batch \/ batch = {} \/ batch' = {})
    \/ /\ batch' = batch
       /\ \/ Stored' = Stored \cup batch
          \/ pc \in {"rename", "renameUnflushed"} /\ Stored' = batch
          \/ ~exists' /\ Stored' = {}

-----------------------------------------------------------------------------
(* A set in some order has each element once.                                 *)
LEMMA SeqOnto ==
  ASSUME NEW S \in SUBSET Entries
  PROVE  LET s == SetToSeq(S)
             n == Cardinality(S)
         IN  /\ \A j, k \in 1 .. n : s[j] = s[k] => j = k
             /\ \A k \in 1 .. n : s[k] \in S
             /\ \A e \in S : \E k \in 1 .. n : s[k] = e
<1>1. IsFiniteSet(S) /\ Cardinality(S) \in Nat
  BY SetSeq
<1>2. ExistsBijection(1 .. Cardinality(S), S)
  BY <1>1, FS_CardinalityType
<1>3. \E f \in [1 .. Cardinality(S) -> S] : IsInjective(f)
  BY <1>2 DEF ExistsBijection, Bijection, Injection
<1>4. SetToSeq(S) \in [1 .. Cardinality(S) -> S] /\ IsInjective(SetToSeq(S))
  BY <1>3 DEF SetToSeq
<1>5. SetToSeq(S) \in Injection(1 .. Cardinality(S), S)
  BY <1>4 DEF Injection
<1>6. IsFiniteSet(1 .. Cardinality(S)) /\ Cardinality(1 .. Cardinality(S)) = Cardinality(S)
  BY <1>1, FS_Interval
<1>7. SetToSeq(S) \in Surjection(1 .. Cardinality(S), S)
  BY <1>1, <1>5, <1>6, FS_Injection
<1> QED
  BY <1>4, <1>7 DEF IsInjective, Surjection

-----------------------------------------------------------------------------
(* Images with the same committed prefix.                                     *)

LEMMA SamePrefix ==
  ASSUME NEW f \in Image, NEW g \in Image, f.count = g.count, Agree(f, g, f.count),
         f.count <= f.len, f.count <= g.len
  PROVE  /\ Valid(f, TRUE) <=> Valid(g, TRUE)
         /\ Good(f) <=> Good(g)
         /\ Indexed(f) = Indexed(g)
<1>1. /\ f.count \in Nat /\ f.len \in Nat /\ g.len \in Nat
      /\ \A i \in 1 .. f.count : f.index[i] = g.index[i] /\ f.data[i] = g.data[i]
      /\ \A i \in 1 .. f.count : i <= f.len /\ i <= g.len
  BY ImageFields, FileAssumption DEF Agree
<1>2. Valid(f, TRUE) <=> Valid(g, TRUE)
  BY <1>1 DEF Valid
<1>3. Good(f) <=> Good(g)
  BY <1>1, <1>2 DEF Good, IntactAt
<1> QED
  BY <1>1, <1>2, <1>3 DEF Indexed

(* An image whose committed prefix has grown by new payloads.                  *)
LEMMA Grown ==
  ASSUME NEW f \in Image, NEW g \in Image, NEW es \in Seq(Entries), Valid(f, TRUE),
         Agree(f, g, f.count), g.count = f.count + Len(es), g.count <= g.len,
         \A k \in 1 .. Len(es) : g.index[f.count + k] = es[k] /\ g.data[f.count + k] = es[k],
         \A j, k \in 1 .. Len(es) : es[j] = es[k] => j = k,
         \A k \in 1 .. Len(es) : \A i \in 1 .. f.count : f.index[i] # es[k]
  PROVE  /\ Valid(g, TRUE)
         /\ Good(f) <=> Good(g)
         /\ Indexed(g) = Indexed(f) \cup {es[k] : k \in 1 .. Len(es)}
<1> DEFINE h == f.count
           n == Len(es)
<1>1. /\ h \in Nat /\ n \in Nat /\ g.count \in 0 .. Capacity /\ g.len \in Nat
      /\ h \in 1 .. Capacity
      /\ \A k \in 1 .. n : es[k] \in Entries
  BY ImageFields, LenProperties, ElementOfSeq, FileAssumption DEF Valid
<1>2. /\ \A i \in 1 .. h : f.index[i] = g.index[i] /\ f.data[i] = g.data[i]
      /\ \A i \in 1 .. h : f.index[i] # None /\ i <= f.len
      /\ \A i, j \in 1 .. h : f.index[i] = f.index[j] => i = j
  BY DEF Agree, Valid
<1>3. ASSUME NEW i \in 1 .. g.count
      PROVE  \/ i \in 1 .. h
             \/ /\ i - h \in 1 .. n /\ i \notin 1 .. h
                /\ g.index[i] = es[i - h] /\ g.data[i] = es[i - h]
  <2>1. CASE i <= h
    BY <1>1, <2>1
  <2>2. CASE i > h
    <3>1. i - h \in 1 .. n /\ i = h + (i - h)
      BY <1>1, <2>2
    <3> QED
      BY <3>1, <1>1, <2>2
  <2> QED
    BY <1>1, <2>1, <2>2
<1>4. Valid(g, TRUE)
  <2>1. g.count \in 1 .. Capacity
    BY <1>1
  <2>2. \A i \in 1 .. g.count : g.index[i] # None /\ i <= g.len
    <3>1. ASSUME NEW i \in 1 .. g.count PROVE g.index[i] # None
      <4>1. CASE i \in 1 .. h
        BY <4>1, <1>2
      <4>2. CASE i - h \in 1 .. n /\ g.index[i] = es[i - h]
        BY <4>2, <1>1, FileAssumption
      <4> QED
        BY <4>1, <4>2, <1>3
    <3>2. \A i \in 1 .. g.count : i <= g.len
      BY <1>1
    <3> QED
      BY <3>1, <3>2
  <2>3. ASSUME NEW i \in 1 .. g.count, NEW j \in 1 .. g.count, g.index[i] = g.index[j]
        PROVE  i = j
    <3>1. CASE i \in 1 .. h /\ j \in 1 .. h
      BY <3>1, <2>3, <1>2
    <3>2. CASE i \in 1 .. h /\ j \notin 1 .. h
      BY <3>2, <2>3, <1>2, <1>3
    <3>3. CASE i \notin 1 .. h /\ j \in 1 .. h
      BY <3>3, <2>3, <1>2, <1>3
    <3>4. CASE i \notin 1 .. h /\ j \notin 1 .. h
      <4>1. i - h = j - h
        BY <3>4, <2>3, <1>3
      <4> QED
        BY <4>1, <1>1
    <3> QED
      BY <3>1, <3>2, <3>3, <3>4
  <2> QED
    BY <2>1, <2>2, <2>3 DEF Valid
<1>5. Good(f) <=> Good(g)
  <2>1. ASSUME NEW i \in 1 .. g.count, i \notin 1 .. h PROVE IntactAt(g, i)
    BY <2>1, <1>3 DEF IntactAt
  <2>2. \A i \in 1 .. h : i \in 1 .. g.count
    BY <1>1
  <2>3. \A i \in 1 .. h : IntactAt(f, i) <=> IntactAt(g, i)
    BY <1>2 DEF IntactAt
  <2> QED
    BY <1>4, <2>1, <2>2, <2>3 DEF Good
<1>6. Indexed(g) = Indexed(f) \cup {es[k] : k \in 1 .. n}
  <2>1. ASSUME NEW i \in 1 .. g.count
        PROVE  g.index[i] \in Indexed(f) \cup {es[k] : k \in 1 .. n}
    BY <1>2, <1>3 DEF Indexed
  <2>2. ASSUME NEW i \in 1 .. h PROVE f.index[i] \in Indexed(g)
    <3>1. i \in 1 .. g.count
      BY <1>1
    <3> QED
      BY <3>1, <1>2 DEF Indexed
  <2>3. ASSUME NEW k \in 1 .. n PROVE es[k] \in Indexed(g)
    <3>1. h + k \in 1 .. g.count /\ g.index[h + k] = es[k]
      BY <1>1
    <3> QED
      BY <3>1 DEF Indexed
  <2> QED
    BY <2>1, <2>2, <2>3 DEF Indexed
<1> QED
  BY <1>4, <1>5, <1>6

LEMMA StoredIs ==
  Stored = IF exists /\ Good(dur) THEN Indexed(dur) ELSE {}
<1>1. Elements(Committed(dur)) = Indexed(dur)
  BY DEF Elements, Committed, Indexed
<1>2. Durable <=> exists /\ Good(dur)
  BY DEF Durable, Good, IntactAt
<1> QED
  BY <1>1, <1>2 DEF Stored

LEMMA StoredNext ==
  Stored' = IF exists' /\ Good(dur') THEN Indexed(dur') ELSE {}
<1>1. Elements(Committed(dur'))= Indexed(dur')
  BY DEF Elements, Committed, Indexed
<1>2. Durable' <=> exists' /\ Good(dur')
  BY DEF Durable, Good, IntactAt, Valid
<1>3. Stored' = IF Durable' THEN Elements(Committed(dur')) ELSE {}
  BY DEF Stored, Elements, Committed
<1> QED
  BY <1>1, <1>2, <1>3

LEMMA StoredType == FileInv => Stored \in SUBSET Entries
<1> SUFFICES ASSUME FileInv PROVE Stored \in SUBSET Entries
  OBVIOUS
<1>1. ASSUME Good(dur) PROVE Indexed(dur) \subseteq Entries
  <2>1. dur \in Image /\ Valid(dur, TRUE)
    BY <1>1 DEF FileInv, TypeOK, Good
  <2>2. \A i \in 1 .. dur.count : dur.index[i] = Committed(dur)[i]
    BY DEF Committed
  <2>3. Committed(dur) \in Seq(Entries) /\ Len(Committed(dur)) = dur.count
    BY <2>1, CommittedSeq
  <2> QED
    BY <2>2, <2>3, ElementOfSeq DEF Indexed
<1> QED
  BY <1>1, StoredIs

LEMMA StoredSame ==
  ASSUME exists' = exists, dur' = dur
  PROVE  Stored' = Stored
BY StoredIs, StoredNext

LEMMA EqualSynced ==
  ASSUME os' = dur', pc' \notin Appending, Valid(os', TRUE) \/ view' = <<>>
  PROVE  SyncInv'
<1>1. Valid(os', TRUE) => Behind'
  BY DEF Behind, Valid, Agree, Appending
<1>2. ~Valid(os', TRUE) => Rejected'
  BY DEF Rejected, Valid
<1> QED
  BY <1>1, <1>2 DEF SyncInv

(* An unsafe file stays so except by the steps named.                          *)
LEMMA RiskKept ==
  ASSUME StoreInv, Next, exists' = exists, pc' = "load" => pc = "load",
         ~(pc \in {"rename", "flushHeader"} /\ pc' = "map")
  PROVE  exists' /\ ~atRisk' => exists /\ ~atRisk
BY DEF StoreInv, BatchInv, Next, Secured

-----------------------------------------------------------------------------
(* The steps of an append.                                                   *)

AppendStep ==
  \/ TruncateTail \/ WritePayload \/ FlushPayload \/ WriteIndex
  \/ FlushIndex \/ WriteHeader \/ FlushHeader
  \/ RestoreHeader \/ CutTail \/ FlushRollback

LEMMA AppendControl ==
  ASSUME AppendStep
  PROVE  /\ pc \in Appending /\ pc' \in (Appending \ {"truncate"}) \cup {"map", "install"}
         /\ UNCHANGED <<exists, batch, newEntries, oldHeader>>
         /\ dur' \in {dur, os, os'} /\ (dur' # dur => os' = os)
         /\ pc' = "header" => pc = "flushIndex" /\ dur' = os /\ os' = os
         /\ pc' = "flushHeader" => pc = "header" /\ dur' = dur
         /\ pc = "flushHeader" => os' = os /\ ((pc' = "map" /\ dur' = os) \/ pc' = "restore")
         /\ pc' \notin Appending => os' = os
         /\ os' = os \/ (pc' \in Appending /\ dur' = dur)
<1> USE DEF AppendStep, itemVars, Appending
<1>1. CASE TruncateTail
  BY <1>1 DEF TruncateTail, Fail
<1>2. CASE WritePayload
  BY <1>2 DEF WritePayload
<1>3. CASE FlushPayload
  BY <1>3 DEF FlushPayload, Flush
<1>4. CASE WriteIndex
  BY <1>4 DEF WriteIndex
<1>5. CASE FlushIndex
  BY <1>5 DEF FlushIndex, Flush
<1>6. CASE WriteHeader
  BY <1>6 DEF WriteHeader
<1>7. CASE FlushHeader
  BY <1>7 DEF FlushHeader, Flush
<1>8. CASE RestoreHeader
  BY <1>8 DEF RestoreHeader
<1>9. CASE CutTail
  BY <1>9 DEF CutTail
<1>10. CASE FlushRollback
  BY <1>10 DEF FlushRollback, Fail
<1> QED
  BY <1>1, <1>2, <1>3, <1>4, <1>5, <1>6, <1>7, <1>8, <1>9, <1>10

(* What a step of an append does to the file.                                *)
LEMMA AppendData ==
  ASSUME FileInv, AppendStep
  PROVE  /\ Agree(os', os, oldHeader) /\ oldHeader <= os'.len
         /\ pc' = "flushHeader" =>
              /\ os'.count = oldHeader + Len(newEntries)
              /\ os'.index = os.index /\ os'.data = os.data /\ os'.len = os.len
         /\ pc' # "flushHeader" => os'.count \in {os.count, oldHeader}
<1>0. /\ os \in Image /\ oldHeader \in 0 .. Capacity /\ oldHeader <= os.len
      /\ os.len \in 0 .. Capacity /\ oldHeader + Len(newEntries) <= Capacity
      /\ newEntries \in Seq(Entries) /\ Len(newEntries) \in Nat
      /\ \A i \in 1 .. oldHeader : i \in Slots /\ i <= oldHeader
      /\ InOrder
  BY AppendControl, ImageFields, LenProperties, FileAssumption
  DEF FileInv, TypeOK, WriterInv, PrefixKept, Slots
<1>1. CASE os' = os
  <2>1. pc' = "flushHeader" => WriteHeader
    BY AppendControl, <1>1 DEF AppendStep, TruncateTail, WritePayload, FlushPayload, WriteIndex,
       FlushIndex, FlushHeader, RestoreHeader, CutTail, FlushRollback, Flush, Fail
  <2>2. pc' = "flushHeader" => os' = Count(os, oldHeader + Len(newEntries))
    BY <2>1 DEF WriteHeader
  <2>3. oldHeader + Len(newEntries) \in 0 .. Capacity
    BY <1>0, FileAssumption
  <2> QED
    BY <1>0, <1>1, <2>2, <2>3, CountImage DEF Agree
<1>2. CASE pc' # "flushHeader" /\ os' = Truncated(os, oldHeader)
  <2>1. /\ os'.count = os.count /\ os'.index = os.index /\ os'.len = oldHeader
        /\ \A i \in Slots : i <= oldHeader => os'.data[i] = os.data[i]
    BY <1>0, <1>2, TruncatedImage
  <2>2. oldHeader <= os'.len
    BY <1>0, <2>1, FileAssumption
  <2> QED
    BY <1>0, <1>2, <2>1, <2>2 DEF Agree
<1>3. CASE /\ pc = "payload" /\ pc' = pc /\ Written # Len(newEntries)
           /\ os' = WithPayload(os, newEntries[Written + 1])
  <2>1. Written \in Nat /\ Written + 1 \in 1 .. Len(newEntries) /\ os.len + 1 <= Capacity
    BY <1>0, <1>3, FileAssumption DEF Written, InOrder, PayloadsWritten
  <2>2. newEntries[Written + 1] \in Entries
    BY <2>1, <1>0, ElementOfSeq
  <2>3. /\ os'.count = os.count /\ os'.index = os.index
        /\ os'.len = os.len + 1
        /\ os'.data = [os.data EXCEPT ![os.len + 1] = newEntries[Written + 1]]
    BY <1>0, <1>3, <2>1, <2>2, PayloadImage
  <2>4. \A i \in 1 .. oldHeader : os'.data[i] = os.data[i]
    BY <1>0, <2>3, ImageFields, FileAssumption DEF Slots
  <2> QED
    BY <1>0, <1>3, <2>3, <2>4, FileAssumption DEF Agree
<1>4. CASE pc' = "flushIndex" /\ os' = WithIndex(os, oldHeader + 1, newEntries)
  BY <1>0, <1>4, IndexImage DEF Agree
<1>5. CASE pc' = "flushHeader" /\ os' = Count(os, oldHeader + Len(newEntries))
  <2>1. oldHeader + Len(newEntries) \in 0 .. Capacity
    BY <1>0, FileAssumption
  <2> QED
    BY <1>0, <1>5, <2>1, CountImage DEF Agree
<1>6. CASE pc' = "cut" /\ os' = Count(os, oldHeader)
  BY <1>0, <1>6, CountImage DEF Agree
<1>7. CASE TruncateTail
  BY <1>1, <1>2, <1>7 DEF TruncateTail
<1>8. CASE WritePayload
  BY <1>1, <1>3, <1>8 DEF WritePayload
<1>9. CASE WriteIndex
  BY <1>1, <1>4, <1>9 DEF WriteIndex
<1>10. CASE WriteHeader
  BY <1>1, <1>5, <1>10 DEF WriteHeader
<1>11. CASE RestoreHeader
  BY <1>1, <1>6, <1>11 DEF RestoreHeader
<1>12. CASE CutTail
  BY <1>1, <1>2, <1>12 DEF CutTail
<1>13. CASE FlushPayload \/ FlushIndex \/ FlushHeader \/ FlushRollback
  BY <1>1, <1>13 DEF FlushPayload, FlushIndex, FlushHeader, FlushRollback
<1> QED
  BY <1>7, <1>8, <1>9, <1>10, <1>11, <1>12, <1>13 DEF AppendStep

(* Between prefix and new entries, an append never invalidates the file.        *)
LEMMA PrefixValid ==
  ASSUME FileInv, NewInv, pc \in Appending, os.count = oldHeader
  PROVE  Valid(os, TRUE)
<1>1. /\ oldHeader \in 1 .. Capacity /\ oldHeader <= os.len
      /\ oldHeader \in Nat /\ os.len \in Nat
  BY ImageFields, FileAssumption DEF FileInv, TypeOK, WriterInv, PrefixKept, NewInv
<1>2. \A i \in 1 .. oldHeader : i <= os.len
  BY <1>1
<1> QED
  BY <1>1, <1>2 DEF Valid, NewInv

LEMMA HeaderWritten ==
  ASSUME FileInv, NewInv, pc = "flushHeader"
  PROVE  Valid(os, TRUE)
<1> DEFINE f == Count(os, oldHeader)
<1>0. /\ os \in Image /\ newEntries \in Seq(Entries) /\ InOrder
      /\ oldHeader \in 0 .. Capacity /\ oldHeader >= 1 /\ oldHeader <= os.len
      /\ oldHeader \in Nat /\ os.len \in Nat /\ Len(newEntries) \in Nat
  BY ImageFields, FileAssumption
  DEF FileInv, TypeOK, WriterInv, PrefixKept, NewInv, Appending
<1>1. /\ f \in Image /\ f.count = oldHeader
      /\ f.index = os.index /\ f.data = os.data /\ f.len = os.len
  BY <1>0, CountImage
<1> HIDE DEF f
<1>2. Valid(f, TRUE)
  <2>1. oldHeader \in 1 .. Capacity /\ \A i \in 1 .. oldHeader : i <= os.len
    BY <1>0, FileAssumption
  <2> QED
    BY <1>1, <2>1 DEF Valid, NewInv, Appending
<1>3. /\ os.count = oldHeader + Len(newEntries) /\ os.count <= os.len
      /\ \A k \in 1 .. Len(newEntries) :
           os.index[oldHeader + k] = newEntries[k] /\ os.data[oldHeader + k] = newEntries[k]
  BY <1>0 DEF InOrder, Advanced, IndexWritten, PayloadsWritten, Written
<1>4. /\ \A j, k \in 1 .. Len(newEntries) : newEntries[j] = newEntries[k] => j = k
      /\ \A k \in 1 .. Len(newEntries) : \A i \in 1 .. f.count : f.index[i] # newEntries[k]
  BY <1>1 DEF NewInv, Appending
<1>5. Agree(f, os, f.count)
  BY <1>1 DEF Agree
<1> QED
  BY <1>0, <1>1, <1>2, <1>3, <1>4, <1>5, Grown

(* The header counts only what the medium holds, so that wherever the power     *)
(* fails the new payloads are stored together or not at all.                  *)
LEMMA AppendSync ==
  ASSUME StoreInv, FileInv', Next, AppendStep
  PROVE  SyncInv' /\ Simulated
<1>0. /\ pc \in Appending /\ pc' \in (Appending \ {"truncate"}) \cup {"map", "install"}
      /\ UNCHANGED <<exists, batch, newEntries, oldHeader>>
      /\ os \in Image /\ dur \in Image /\ os' \in Image /\ dur' \in Image
      /\ InOrder /\ InOrder' /\ NewInv
      /\ newEntries \in Seq(Entries) /\ Len(newEntries) \in Nat
      /\ oldHeader \in Nat /\ os.len \in Nat /\ os'.len \in Nat
  BY AppendControl, ImageFields, FileAssumption
  DEF StoreInv, FileInv, TypeOK, WriterInv
<1>1. CASE pc = "flushHeader" /\ pc' = "map"
  <2>1. dur' = os /\ os' = os
    BY <1>1, AppendControl
  <2>2. SyncInv'
    <3>1. Valid(os', TRUE)
      BY <1>1, <2>1, HeaderWritten DEF StoreInv
    <3> QED
      BY <1>1, <2>1, <3>1, EqualSynced DEF Appending
  <2>3. Simulated
    <3> SUFFICES ASSUME ~atRisk PROVE Stored' \in {Stored, Stored \cup batch}
      BY <1>0 DEF Simulated
    <3>1. CASE ~exists
      BY <3>1, <1>0, StoredIs, StoredNext
    <3>2. CASE exists
      <4>1. Behind
        BY <3>2, <1>0 DEF StoreInv, SyncInv, Rejected
      <4>2. /\ Valid(dur, TRUE) /\ dur.count <= os.len /\ dur.count <= dur.len
            /\ Agree(dur, os, dur.count) /\ dur.count \in {oldHeader, os.count}
            /\ Agree(os, dur, oldHeader + Len(newEntries))
            /\ dur.count \in Nat
        <5>1. /\ Valid(dur, TRUE) /\ dur.count <= os.len /\ Agree(os, dur, dur.count)
              /\ dur.count \in {oldHeader, os.count}
              /\ Agree(os, dur, oldHeader + Len(newEntries))
          BY <4>1, <1>1 DEF Behind
        <5>2. dur.count <= dur.len /\ dur.count \in Nat
          <6>1. dur \in Image
            BY <1>0
          <6>2. dur.count <= dur.len
            BY <5>1, <6>1, CommittedSeq
          <6>3. dur.count \in 0 .. Capacity
            BY <6>1, ImageFields
          <6> QED
            BY <6>2, <6>3, FileAssumption
        <5>3. Agree(dur, os, dur.count)
          BY <5>1 DEF Agree
        <5> QED
          BY <5>1, <5>2, <5>3
      <4>3. CASE dur.count = os.count
        BY <4>2, <4>3, <3>2, <2>1, <1>0, SamePrefix, StoredIs, StoredNext
      <4>4. CASE dur.count = oldHeader
        <5>1. /\ os.count = dur.count + Len(newEntries) /\ os.count <= os.len
              /\ \A k \in 1 .. Len(newEntries) :
                   os.index[dur.count + k] = newEntries[k]
                   /\ os.data[dur.count + k] = newEntries[k]
          BY <4>4, <1>0, <1>1
          DEF InOrder, Advanced, IndexWritten, PayloadsWritten, Written
        <5>2. /\ \A j, k \in 1 .. Len(newEntries) : newEntries[j] = newEntries[k] => j = k
              /\ \A k \in 1 .. Len(newEntries) : \A i \in 1 .. dur.count :
                   dur.index[i] # newEntries[k]
          BY <4>2, <4>4, <1>0 DEF NewInv, Agree
        <5>3. /\ Good(dur) <=> Good(os)
              /\ Indexed(os) = Indexed(dur) \cup {newEntries[k] : k \in 1 .. Len(newEntries)}
          <6>1. /\ dur \in Image /\ os \in Image /\ newEntries \in Seq(Entries)
                /\ Valid(dur, TRUE) /\ Agree(dur, os, dur.count)
            BY <1>0, <4>2
          <6> QED
            BY <6>1, <5>1, <5>2, Grown
        <5>4. Indexed(os) = Indexed(dur) \cup batch
          <6>1. \A k \in 1 .. Len(newEntries) : newEntries[k] \in batch
            BY <1>0 DEF NewInv
          <6>2. ASSUME NEW e \in batch PROVE e \in Indexed(os)
            <7>1. CASE \E k \in 1 .. Len(newEntries) : newEntries[k] = e
              BY <7>1, <5>3
            <7>2. CASE \E i \in 1 .. oldHeader : os.index[i] = e
              BY <7>2, <4>2, <4>4, <5>3 DEF Agree, Indexed
            <7> QED
              BY <7>1, <7>2, <1>0 DEF NewInv
          <6> QED
            BY <6>1, <6>2, <5>3
        <5> QED
          BY <5>3, <5>4, <3>2, <2>1, <1>0, StoredIs, StoredNext
      <4> QED
        BY <4>2, <4>3, <4>4
    <3> QED
      BY <3>1, <3>2
  <2> QED
    BY <2>2, <2>3
<1>2. CASE pc = "flushHeader" /\ pc' = "restore"
  <2>1. atRisk'
    BY <1>2 DEF Next, Endangered
  <2> QED
    BY <2>1 DEF SyncInv, Simulated
<1>3. CASE pc # "flushHeader"
  <2>0. exists' /\ ~atRisk' => exists /\ ~atRisk
    BY <1>0, <1>3, RiskKept DEF Appending
  <2>1. CASE ~exists
    BY <2>0, <2>1, <1>0, StoredIs, StoredNext DEF SyncInv, Simulated
  <2>2. CASE atRisk
    BY <2>0, <2>2 DEF SyncInv, Simulated
  <2>3. CASE exists /\ ~atRisk
    <3>1. Behind
      BY <2>3, <1>0 DEF StoreInv, SyncInv, Rejected
    <3>2. /\ Valid(dur, TRUE) /\ dur.count <= os.len /\ dur.count <= dur.len
          /\ Agree(os, dur, oldHeader)
          /\ os.count = oldHeader /\ dur.count = oldHeader
      BY <3>1, <1>0, <1>3, CommittedSeq DEF Behind
    <3>3. Agree(dur, os, dur.count)
      BY <3>2 DEF Agree
    <3>4. /\ Valid(dur', TRUE) /\ dur'.count = oldHeader
          /\ Good(dur') <=> Good(dur)
          /\ Indexed(dur') = Indexed(dur) /\ Agree(dur', dur, oldHeader)
      <4>1. CASE dur' = dur
        BY <4>1, <3>2 DEF Agree
      <4>2. CASE dur' = os
        <5>1. /\ Valid(dur, TRUE) <=> Valid(os, TRUE)
              /\ Good(dur) <=> Good(os)
              /\ Indexed(dur) = Indexed(os)
          BY <3>2, <3>3, <1>0, SamePrefix
        <5> QED
          BY <4>2, <5>1, <3>2
      <4> QED
        BY <4>1, <4>2, AppendControl
    <3>5. Simulated
      BY <3>4, <2>3, <1>0, StoredIs, StoredNext DEF Simulated
    <3>6. Agree(os', dur', oldHeader) /\ oldHeader <= os'.len
      <4>1. Agree(os', os, oldHeader) /\ oldHeader <= os'.len
        BY AppendData DEF StoreInv
      <4> QED
        BY <4>1, <3>2, <3>4 DEF Agree
    <3>7. CASE pc' = "flushHeader"
      <4>1. /\ pc = "header" /\ dur' = dur
            /\ os'.count = oldHeader + Len(newEntries)
            /\ os'.index = os.index /\ os'.data = os.data /\ os'.len = os.len
        BY <3>7, AppendControl, AppendData DEF StoreInv
      <4>2. /\ Agree(os', dur', oldHeader + Len(newEntries))
            /\ oldHeader + Len(newEntries) <= dur'.len
        BY <3>1, <4>1 DEF Behind, Agree
      <4> QED
        BY <3>4, <3>5, <3>6, <3>7, <4>2, <1>0 DEF SyncInv, Behind
    <3>8. CASE pc' = "header"
      <4>1. dur' = os /\ os' = os
        BY <3>8, AppendControl
      <4>2. Written' = Len(newEntries)
        BY <3>8, <1>0 DEF InOrder
      <4>3. oldHeader + Len(newEntries) <= dur'.len
        BY <4>1, <4>2, <1>0 DEF Written
      <4>4. Agree(os', dur', oldHeader + Len(newEntries))
        BY <4>1 DEF Agree
      <4> QED
        BY <3>2, <3>4, <3>5, <3>6, <3>8, <4>1, <4>3, <4>4, <1>0 DEF SyncInv, Behind
    <3>9. CASE pc' \notin {"header", "flushHeader"}
      <4>1. os'.count = oldHeader
        BY <3>2, <3>9, AppendData DEF StoreInv
      <4> QED
        BY <3>4, <3>5, <3>6, <3>9, <4>1, <1>0 DEF SyncInv, Behind
    <3> QED
      BY <3>7, <3>8, <3>9
  <2> QED
    BY <2>1, <2>2, <2>3
<1> QED
  BY <1>1, <1>2, <1>3, AppendControl

-----------------------------------------------------------------------------
(* The other steps.                                                          *)

(* A step that writes to no file.                                            *)
LEMMA QuietSync ==
  ASSUME StoreInv, Next, UNCHANGED fileVars,
         pc' = "load" => pc = "load",
         pc \notin Appending,
         pc' \in Appending => Valid(os, TRUE) /\ oldHeader' = os.count /\ pc' = "truncate",
         pc' = "map" => pc = "map",
         view' = view \/ Valid(os, TRUE)
  PROVE  SyncInv' /\ Stored' = Stored
<1>1. UNCHANGED <<exists, os, dur>>
  BY DEF fileVars
<1>2. Stored' = Stored
  BY <1>1, StoredSame
<1>3. SyncInv'
  <2>0. exists' /\ ~atRisk' => exists /\ ~atRisk
    BY <1>1, RiskKept DEF Appending
  <2> SUFFICES ASSUME exists, ~atRisk PROVE Behind' \/ Rejected'
    BY <2>0 DEF SyncInv
  <2>1. Behind \/ Rejected
    BY DEF StoreInv, SyncInv
  <2>2. CASE Behind
    BY <1>1, <2>2 DEF Behind, Appending, Agree, Valid
  <2>3. CASE Rejected
    BY <1>1, <2>3 DEF Rejected, Valid
  <2> QED
    BY <2>1, <2>2, <2>3
<1> QED
  BY <1>2, <1>3

(* A step beside the writer, which may be anywhere.                             *)
LEMMA BesideSync ==
  ASSUME StoreInv, Next, UNCHANGED fileVars, UNCHANGED itemVars, UNCHANGED view, pc' = pc
  PROVE  SyncInv' /\ Simulated
<1>1. UNCHANGED <<exists, os, dur, batch, newEntries, oldHeader>>
  BY DEF fileVars, itemVars
<1>2. Stored' = Stored
  BY <1>1, StoredSame
<1>3. SyncInv'
  <2>0. exists' /\ ~atRisk' => exists /\ ~atRisk
    BY <1>1, RiskKept
  <2> SUFFICES ASSUME exists, ~atRisk PROVE Behind' \/ Rejected'
    BY <2>0 DEF SyncInv
  <2>1. Behind \/ Rejected
    BY DEF StoreInv, SyncInv
  <2>2. CASE Behind
    BY <1>1, <2>2 DEF Behind, Agree, Valid
  <2>3. CASE Rejected
    BY <1>1, <2>3 DEF Rejected, Valid
  <2> QED
    BY <2>1, <2>2, <2>3
<1> QED
  BY <1>1, <1>2, <1>3 DEF Simulated

(* The system may write back any block of the file, or its header, at any time.  *)
LEMMA WrittenBack ==
  ASSUME FileInv, WriteBack
  PROVE  /\ \/ dur' = Count(dur, os.count)
            \/ dur'.count = dur.count
         /\ dur'.len \in {dur.len, os.len}
         /\ \A i \in Slots : dur'.index[i] \in {dur.index[i], os.index[i]}
         /\ \A i \in Slots : i <= os.len => dur'.data[i] \in {dur.data[i], os.data[i]}
         /\ dur' \in Image
<1>0. /\ os \in Image /\ dur \in Image
      /\ os.len \in 0 .. Capacity /\ os.count \in 0 .. Capacity
      /\ os.index \in [Slots -> Entries \cup {None}]
      /\ os.data \in [Slots -> Entries \cup {None}]
      /\ dur.index \in [Slots -> Entries \cup {None}]
      /\ dur.data \in [Slots -> Entries \cup {None}]
  BY ImageFields DEF FileInv, TypeOK
<1>1. CASE dur' = Count(dur, os.count)
  BY <1>0, <1>1, CountImage
<1>2. CASE dur' = Truncated(dur, os.len)
  BY <1>0, <1>2, TruncatedImage
<1>3. ASSUME NEW i \in Slots, dur' = [dur EXCEPT !.index[i] = os.index[i]]
      PROVE  /\ dur'.count = dur.count /\ dur'.len = dur.len /\ dur'.data = dur.data
             /\ dur'.index = [dur.index EXCEPT ![i] = os.index[i]]
             /\ dur' \in Image
  <2> DEFINE x == [dur.index EXCEPT ![i] = os.index[i]]
  <2>1. x \in [Slots -> Entries \cup {None}] /\ dur' = [dur EXCEPT !.index = x]
    BY <1>0, <1>3 DEF Image
  <2> HIDE DEF x
  <2>2. /\ dur'.count = dur.count /\ dur'.len = dur.len /\ dur'.data = dur.data
        /\ dur'.index = x /\ dur' \in Image
    BY <1>0, <2>1 DEF Image
  <2> QED
    BY <2>2 DEF x
<1>4. ASSUME NEW i \in Slots, dur' = [dur EXCEPT !.data[i] = os.data[i]]
      PROVE  /\ dur'.count = dur.count /\ dur'.len = dur.len /\ dur'.index = dur.index
             /\ dur'.data = [dur.data EXCEPT ![i] = os.data[i]]
             /\ dur' \in Image
  <2> DEFINE x == [dur.data EXCEPT ![i] = os.data[i]]
  <2>1. x \in [Slots -> Entries \cup {None}] /\ dur' = [dur EXCEPT !.data = x]
    BY <1>0, <1>4 DEF Image
  <2> HIDE DEF x
  <2>2. /\ dur'.count = dur.count /\ dur'.len = dur.len /\ dur'.index = dur.index
        /\ dur'.data = x /\ dur' \in Image
    BY <1>0, <2>1 DEF Image
  <2> QED
    BY <2>2 DEF x
<1>5. CASE \E i \in Slots : dur' = [dur EXCEPT !.index[i] = os.index[i]]
  <2>1. PICK i \in Slots : dur' = [dur EXCEPT !.index[i] = os.index[i]]
    BY <1>5
  <2> QED
    BY <2>1, <1>0, <1>3
<1>6. CASE \E i \in Slots : dur' = [dur EXCEPT !.data[i] = os.data[i]]
  <2>1. PICK i \in Slots : dur' = [dur EXCEPT !.data[i] = os.data[i]]
    BY <1>6
  <2> QED
    BY <2>1, <1>0, <1>4
<1> QED
  BY <1>1, <1>2, <1>5, <1>6 DEF WriteBack

(* What both images agree on stays as it is.                                  *)
LEMMA AgreedStays ==
  ASSUME FileInv, WriteBack, NEW n \in Nat, Agree(os, dur, n), n <= os.len, n <= dur.len
  PROVE  /\ Agree(os, dur', n) /\ Agree(dur, dur', n) /\ n <= dur'.len
<1>0. /\ os.len \in 0 .. Capacity /\ dur.len \in 0 .. Capacity
  BY ImageFields DEF FileInv, TypeOK
<1>1. n <= dur'.len
  BY WrittenBack
<1>2. ASSUME NEW i \in 1 .. n
      PROVE  /\ dur'.index[i] = os.index[i] /\ dur'.data[i] = os.data[i]
             /\ dur.index[i] = os.index[i] /\ dur.data[i] = os.data[i]
  <2>1. i \in Slots /\ i <= os.len
    BY <1>0, FileAssumption DEF Slots
  <2> QED
    BY <2>1, WrittenBack DEF Agree
<1> QED
  BY <1>1, <1>2 DEF Agree

LEMMA WriteBackSync ==
  ASSUME StoreInv, FileInv', Next, WriteBack
  PROVE  SyncInv' /\ Simulated
<1>0. /\ FileInv /\ UNCHANGED <<exists, os, view, batch, newEntries, oldHeader, pc>> /\ exists
      /\ os \in Image /\ dur \in Image /\ dur' \in Image
      /\ InOrder /\ NewInv
      /\ newEntries \in Seq(Entries) /\ Len(newEntries) \in Nat
      /\ oldHeader \in Nat /\ os.len \in Nat /\ os.count \in Nat
      /\ dur.count \in Nat /\ dur.len \in Nat
      /\ os.count \in 0 .. Capacity
  BY ImageFields, FileAssumption
  DEF StoreInv, FileInv, TypeOK, WriterInv, WriteBack, viewVars, itemVars
<1>1. exists' /\ ~atRisk' => exists /\ ~atRisk
  BY <1>0, RiskKept
<1>2. CASE Rejected /\ ~atRisk
  <2>1. dur'.count = dur.count /\ dur'.len = dur.len
    BY <1>0, <1>2, WrittenBack, CountImage DEF Rejected
  <2>2. dur'.index = dur.index
    <3>1. /\ dur'.index \in [Slots -> Entries \cup {None}]
          /\ dur.index \in [Slots -> Entries \cup {None}]
      BY <1>0, ImageFields
    <3>2. \A i \in Slots : dur'.index[i] = dur.index[i]
      BY <1>2, <1>0, WrittenBack DEF Rejected
    <3> QED
      BY <3>1, <3>2
  <2>3. Rejected'
    BY <1>0, <1>2, <2>1, <2>2 DEF Rejected, Valid
  <2>4. ~Valid(dur, TRUE) /\ ~Valid(dur', TRUE)
    BY <1>0, <1>2, <2>1, <2>2 DEF Rejected, Valid
  <2>5. Stored' = {} /\ Stored = {}
    BY <2>4, StoredIs, StoredNext DEF Good
  <2> QED
    BY <2>3, <2>5, <1>0 DEF SyncInv, Simulated
<1>3. CASE Behind /\ ~atRisk
  <2> DEFINE all == oldHeader + Len(newEntries)
             h == dur.count
  <2>1. /\ Valid(dur, TRUE) /\ h <= os.len /\ Agree(os, dur, h) /\ h <= dur.len
    BY <1>0, <1>3, CommittedSeq DEF Behind
  <2>2. /\ pc # "flushHeader" => os.count = h
        /\ pc \in Appending \ {"flushHeader"} => os.count = oldHeader
        /\ pc = "flushHeader" => h \in {oldHeader, os.count}
        /\ pc \in {"header", "flushHeader"} => Agree(os, dur, all) /\ all <= dur.len
    BY <1>3 DEF Behind
  <2>3. pc \in {"header", "flushHeader"} => all <= os.len
    BY <1>0 DEF InOrder, Written
  <2>4. Agree(os, dur', h) /\ Agree(dur, dur', h) /\ h <= dur'.len
    BY <1>0, <2>1, AgreedStays
  <2>5. pc \in {"header", "flushHeader"} =>
          Agree(os, dur', all) /\ Agree(dur, dur', all) /\ all <= dur'.len
    <3>1. all \in Nat
      BY <1>0
    <3> QED
      BY <3>1, <1>0, <2>2, <2>3, AgreedStays
  <2> HIDE DEF all, h
  <2>6. CASE dur'.count = h
    <3>1. /\ Valid(dur', TRUE)
          /\ Good(dur') <=> Good(dur)
          /\ Indexed(dur') = Indexed(dur)
      BY <2>1, <2>4, <2>6, <1>0, SamePrefix DEF h
    <3>2. Stored' = Stored
      BY <3>1, <1>0, StoredIs, StoredNext
    <3>3. Behind'
      BY <1>0, <2>1, <2>2, <2>4, <2>5, <2>6, <3>1 DEF Behind, all
    <3> QED
      BY <3>2, <3>3, <1>0 DEF SyncInv, Simulated
  <2>7. CASE dur'.count # h
    <3>1. /\ dur'.count = os.count /\ os.count # h
      BY <2>7, <1>0, WrittenBack, CountImage DEF h
    <3>2. pc = "flushHeader" /\ h = oldHeader
      BY <2>2, <3>1
    <3>3. os.count = all /\ Advanced /\ PayloadsWritten(Len(newEntries))
      BY <3>2, <1>0 DEF InOrder, Advanced, all
    <3>4. /\ dur'.count = h + Len(newEntries) /\ dur'.count <= dur'.len
          /\ \A k \in 1 .. Len(newEntries) :
               dur'.index[h + k] = newEntries[k] /\ dur'.data[h + k] = newEntries[k]
      <4>1. ASSUME NEW k \in 1 .. Len(newEntries)
            PROVE  dur'.index[h + k] = newEntries[k] /\ dur'.data[h + k] = newEntries[k]
        <5>1. oldHeader + k \in 1 .. all
          BY <1>0 DEF all
        <5>2. os.index[oldHeader + k] = newEntries[k] /\ os.data[oldHeader + k] = newEntries[k]
          BY <3>3 DEF Advanced, IndexWritten, PayloadsWritten
        <5> QED
          BY <5>1, <5>2, <2>5, <3>2 DEF Agree
      <4> QED
        BY <4>1, <3>1, <3>2, <3>3, <2>5 DEF all
    <3>5. /\ \A j, k \in 1 .. Len(newEntries) : newEntries[j] = newEntries[k] => j = k
          /\ \A k \in 1 .. Len(newEntries) : newEntries[k] \in batch
          /\ \A k \in 1 .. Len(newEntries) : \A i \in 1 .. h : dur.index[i] # newEntries[k]
          /\ \A e \in batch : \/ \E k \in 1 .. Len(newEntries) : newEntries[k] = e
                              \/ \E i \in 1 .. h : dur.index[i] = e
      BY <1>0, <2>1, <3>2 DEF NewInv, Agree, Appending
    <3>6. /\ Valid(dur', TRUE)
          /\ Good(dur) <=> Good(dur')
          /\ Indexed(dur') = Indexed(dur) \cup {newEntries[k] : k \in 1 .. Len(newEntries)}
      <4>1. /\ dur \in Image /\ dur' \in Image /\ newEntries \in Seq(Entries)
            /\ Valid(dur, TRUE) /\ Agree(dur, dur', dur.count)
            /\ dur'.count = dur.count + Len(newEntries)
        BY <1>0, <2>1, <2>4, <3>4 DEF h
      <4>2. /\ dur'.count <= dur'.len
            /\ \A k \in 1 .. Len(newEntries) :
                 dur'.index[dur.count + k] = newEntries[k]
                 /\ dur'.data[dur.count + k] = newEntries[k]
            /\ \A j, k \in 1 .. Len(newEntries) : newEntries[j] = newEntries[k] => j = k
            /\ \A k \in 1 .. Len(newEntries) : \A i \in 1 .. dur.count :
                 dur.index[i] # newEntries[k]
        BY <3>4, <3>5 DEF h
      <4> QED
        BY <4>1, <4>2, Grown
    <3>7. Indexed(dur') = Indexed(dur) \cup batch
      <4>1. ASSUME NEW e \in batch PROVE e \in Indexed(dur')
        <5>1. CASE \E k \in 1 .. Len(newEntries) : newEntries[k] = e
          BY <5>1, <3>6
        <5>2. CASE \E i \in 1 .. h : dur.index[i] = e
          BY <5>2, <3>6 DEF Indexed, h
        <5> QED
          BY <5>1, <5>2, <3>5
      <4> QED
        BY <4>1, <3>5, <3>6
    <3>8. Stored' \in {Stored, Stored \cup batch}
      BY <3>6, <3>7, <1>0, StoredIs, StoredNext
    <3>9. Behind' \/ Rejected'
      <4>1. /\ dur'.count <= os.len /\ Agree(os, dur', dur'.count)
        BY <2>3, <2>5, <3>1, <3>2, <3>3
      <4> QED
        BY <1>0, <2>5, <3>1, <3>2, <3>6, <4>1 DEF Behind, all, Appending
    <3> QED
      BY <3>8, <3>9, <1>0 DEF SyncInv, Simulated
  <2> QED
    BY <2>6, <2>7
<1> QED
  BY <1>1, <1>2, <1>3, <1>0 DEF StoreInv, SyncInv, Simulated

(* A restart reads back what the medium held, and cuts an uncommitted tail off. *)
LEMMA LoadSync ==
  ASSUME StoreInv, FileInv', Next, LoadCacheFile
  PROVE  SyncInv' /\ Simulated
<1>0. /\ pc = "load" /\ pc' = "idle" /\ exists /\ UNCHANGED <<exists, batch>>
      /\ Valid(os, TRUE)
      /\ os \in Image /\ dur \in Image /\ os' \in Image /\ dur' \in Image
      /\ os.count \in Nat /\ os.len \in Nat /\ os.count <= os.len
      /\ \/ os' = Truncated(os, os.count) /\ dur' \in {os', dur}
         \/ os' = os /\ dur' = dur
  <2>1. /\ pc = "load" /\ pc' = "idle" /\ exists /\ UNCHANGED <<exists, batch>>
        /\ Valid(os, TRUE)
        /\ \/ os' = Truncated(os, os.count) /\ dur' \in {os', dur}
           \/ os' = os /\ dur' = dur
    BY DEF LoadCacheFile, itemVars
  <2>2. os \in Image /\ dur \in Image /\ os' \in Image /\ dur' \in Image
    BY DEF StoreInv, FileInv, TypeOK
  <2>3. os.count <= os.len
    BY <2>1, <2>2, CommittedSeq
  <2>4. os.count \in Nat /\ os.len \in Nat
    BY <2>2, ImageFields, FileAssumption
  <2> QED
    BY <2>1, <2>2, <2>3, <2>4
<1>1. exists' /\ ~atRisk' => exists /\ ~atRisk
  BY <1>0, RiskKept DEF Appending
<1>2. ~atRisk /\ Behind
  BY <1>0 DEF StoreInv, BatchInv, SyncInv, Rejected
<1>3. /\ Valid(dur, TRUE) /\ dur.count <= os.len /\ dur.count <= dur.len
      /\ Agree(os, dur, dur.count) /\ os.count = dur.count
  BY <1>0, <1>2, CommittedSeq DEF Behind
<1>4. os'.count = os.count /\ Agree(os', os, os.count) /\ os.count <= os'.len
  <2>1. CASE os' = os
    BY <2>1, <1>0 DEF Agree
  <2>2. CASE os' = Truncated(os, os.count)
    <3>1. os.count \in 0 .. Capacity /\ os.count \in 1 .. Capacity
      BY <1>0, CommittedSeq, ImageFields
    <3>2. /\ os'.count = os.count /\ os'.index = os.index /\ os'.len = os.count
          /\ \A i \in Slots : i <= os.count => os'.data[i] = os.data[i]
      BY <3>1, <2>2, <1>0, TruncatedImage
    <3>3. \A i \in 1 .. os.count : i \in Slots /\ i <= os.count
      BY <3>1, FileAssumption DEF Slots
    <3> QED
      BY <3>2, <3>3, <1>0 DEF Agree
  <2> QED
    BY <2>1, <2>2, <1>0
<1>5. /\ dur'.count = dur.count /\ Agree(dur, dur', dur.count) /\ dur.count <= dur'.len
      /\ Agree(os', dur', dur.count)
  BY <1>0, <1>3, <1>4 DEF Agree
<1>6. /\ Valid(dur', TRUE)
      /\ Good(dur) <=> Good(dur')
      /\ Indexed(dur) = Indexed(dur')
  BY <1>0, <1>3, <1>5, SamePrefix
<1>7. Stored' = Stored
  BY <1>0, <1>6, StoredIs, StoredNext
<1>8. Behind'
  BY <1>0, <1>3, <1>4, <1>5, <1>6 DEF Behind, Appending
<1> QED
  BY <1>0, <1>7, <1>8 DEF SyncInv, Simulated

LEMMA CrashSync ==
  ASSUME StoreInv, Crash
  PROVE  SyncInv' /\ Simulated
<1>1. /\ os' = dur' /\ pc' \notin Appending /\ view' = <<>>
      /\ batch' = {} /\ UNCHANGED <<exists, dur>>
  BY DEF Crash, Appending
<1> QED
  BY <1>1, EqualSynced, StoredSame DEF Simulated

(* A fresh file holds the payloads of the item, and nothing else.               *)
LEMMA RenameSync ==
  ASSUME StoreInv, Next, Rename
  PROVE  SyncInv' /\ Simulated
<1>0. /\ pc \in {"rename", "renameUnflushed"} /\ batch' = batch /\ FileInv
      /\ batch \in SUBSET Entries /\ batch # {} /\ Cardinality(batch) <= Capacity
  BY DEF StoreInv, FileInv, TypeOK, WriterInv, BeforeWrite, BatchInv, Rename
<1>1. CASE Fail /\ UNCHANGED fileVars
  <2>1. SyncInv' /\ Stored' = Stored
    BY <1>0, <1>1, QuietSync DEF Fail, Appending, Rename
  <2> QED
    BY <2>1, <1>0 DEF Simulated
<1>2. CASE pc = "renameUnflushed" /\ pc' = "map"
  <2>1. atRisk'
    BY <1>2 DEF Next, Endangered
  <2> QED
    BY <2>1 DEF SyncInv, Simulated
<1>3. CASE /\ pc = "rename" /\ pc' = "map" /\ exists' = TRUE
           /\ os' = FileOf(SetToSeq(batch)) /\ dur' = os'
  <2> DEFINE es == SetToSeq(batch)
             n == Cardinality(batch)
  <2>2. /\ IsFiniteSet(batch) /\ n \in Nat /\ n # 0 /\ es \in Seq(Entries)
        /\ Len(es) = n /\ DOMAIN es = 1 .. n
    BY <1>0, SetSeq, FS_EmptySet, LenProperties
  <2>3. /\ \A j, k \in 1 .. n : es[j] = es[k] => j = k
        /\ \A k \in 1 .. n : es[k] \in batch
        /\ \A e \in batch : \E k \in 1 .. n : es[k] = e
    BY <1>0, SeqOnto
  <2>4. /\ dur'.count = n /\ dur'.len = n
        /\ \A i \in 1 .. n : dur'.index[i] = es[i] /\ dur'.data[i] = es[i]
    <3>1. \A i \in 1 .. n : i \in Slots /\ i \in DOMAIN es
      BY <1>0, <2>2, FileAssumption DEF Slots
    <3> QED
      BY <1>3, <2>2, <3>1 DEF FileOf
  <2>5. Valid(dur', TRUE)
    <3>1. n \in 1 .. Capacity
      BY <1>0, <2>2, FileAssumption
    <3>2. \A i \in 1 .. n : es[i] # None
      BY <1>0, <2>3, FileAssumption
    <3>3. \A i \in 1 .. n : i <= n
      BY <2>2
    <3> HIDE DEF es, n
    <3> QED
      BY <3>1, <3>2, <3>3, <2>3, <2>4 DEF Valid
  <2>6. Good(dur') /\ Indexed(dur') = batch
    <3> HIDE DEF es, n
    <3>1. Good(dur')
      BY <2>4, <2>5 DEF Good, IntactAt
    <3>2. Indexed(dur') = {es[k] : k \in 1 .. n}
      BY <2>4 DEF Indexed
    <3> QED
      BY <3>1, <3>2, <2>3
  <2>7. Stored' = batch
    BY <1>3, <2>6, StoredNext
  <2>8. SyncInv'
    BY <1>3, <2>5, EqualSynced DEF Appending
  <2> QED
    BY <1>0, <2>7, <2>8 DEF Simulated
<1> QED
  BY <1>0, <1>1, <1>2, <1>3 DEF Rename

-----------------------------------------------------------------------------
(* The item and its new payloads.                                             *)

LEMMA OpenNew ==
  ASSUME StoreInv, Open, pc' = "truncate"
  PROVE  NewInv' /\ Valid(os, TRUE) /\ oldHeader' = os.count
<1>0. /\ Valid(os, TRUE) /\ newEntries' = SetToSeq(Missing) /\ oldHeader' = os.count
      /\ UNCHANGED <<os, batch>>
  BY DEF Open, Fail, fileVars
<1>1. Missing \in SUBSET Entries
  BY DEF Missing, StoreInv, FileInv, TypeOK
<1>2. /\ os.count >= 1 /\ \A i \in 1 .. os.count : os.index[i] # None
      /\ \A i, j \in 1 .. os.count : os.index[i] = os.index[j] => i = j
      /\ \A e \in Missing : e \in batch /\ \A i \in 1 .. os.count : os.index[i] # e
      /\ \A e \in batch : e \in Missing \/ \E i \in 1 .. os.count : os.index[i] = e
  <2>1. os.count >= 1
    BY <1>0, FileAssumption DEF Valid
  <2> QED
    BY <1>0, <2>1 DEF Missing, Elements, Committed, Valid
<1>3. Len(newEntries') = Cardinality(Missing)
  BY <1>0, <1>1, SetSeq
<1>4. /\ \A j, k \in 1 .. Len(newEntries') : newEntries'[j] = newEntries'[k] => j = k
      /\ \A k \in 1 .. Len(newEntries') : newEntries'[k] \in Missing
      /\ \A e \in Missing : \E k \in 1 .. Len(newEntries') : newEntries'[k] = e
  BY <1>0, <1>1, <1>3, SeqOnto
<1>5. /\ \A k \in 1 .. Len(newEntries') :
           newEntries'[k] \in batch /\ \A i \in 1 .. os.count : os.index[i] # newEntries'[k]
      /\ \A e \in batch : \/ \E k \in 1 .. Len(newEntries') : newEntries'[k] = e
                          \/ \E i \in 1 .. os.count : os.index[i] = e
  BY <1>2, <1>4
<1>6. NewInv'
  BY <1>0, <1>2, <1>4, <1>5 DEF NewInv
<1> QED
  BY <1>0, <1>6

LEMMA NewStep ==
  ASSUME StoreInv, Next
  PROVE  NewInv'
<1> SUFFICES ASSUME pc' \in Appending PROVE NewInv'
  BY DEF NewInv
<1>1. CASE AppendStep
  <2>1. /\ pc \in Appending /\ UNCHANGED <<batch, newEntries, oldHeader>>
        /\ Agree(os', os, oldHeader)
    BY <1>1, AppendControl, AppendData DEF StoreInv
  <2>2. \A i \in 1 .. oldHeader : os'.index[i] = os.index[i]
    BY <2>1 DEF Agree
  <2> QED
    BY <2>1, <2>2 DEF StoreInv, NewInv
<1>2. CASE Open
  BY <1>2, OpenNew DEF Open, Fail, Appending
<1>3. CASE UNCHANGED <<os, itemVars, pc>>
  BY <1>3 DEF StoreInv, NewInv, itemVars
<1>4. CASE WriteFreshFile
  BY <1>4 DEF WriteFreshFile, WriteFresh, FlushFresh, Rename, Fail, Appending
<1>5. CASE \/ LoadCacheFile \/ RejectCacheFile \/ Crash \/ RemoveFile \/ Begin
           \/ MapCommittedFile \/ Install
  BY <1>5 DEF LoadCacheFile, RejectCacheFile, Crash, RemoveFile, Begin, MapCommittedFile,
     Install, Appending
<1>6. CASE WriteBack \/ SetLoadActive
  BY <1>3, <1>6 DEF WriteBack, SetLoadActive, fileVars
<1>7. ASSUME NEW e \in Entries, Record(e) PROVE NewInv'
  BY <1>3, <1>7 DEF Record, fileVars
<1>8. ASSUME NEW i \in Slots, VerifyEntry(i) PROVE NewInv'
  BY <1>3, <1>8 DEF VerifyEntry, fileVars
<1> QED
  BY <1>1, <1>2, <1>4, <1>5, <1>6, <1>7, <1>8 DEF Next, Step, AppendFile, AppendStep

LEMMA BatchStep ==
  ASSUME StoreInv, Next
  PROVE  BatchInv'
<1>0. BatchInv
  BY DEF StoreInv
<1>1. CASE AppendStep
  <2>1. pc \in Appending /\ batch' = batch /\ pc' \in Appending \cup {"map", "install"}
    BY <1>1, AppendControl
  <2> QED
    BY <2>1, <1>0 DEF BatchInv, Appending
<1>2. CASE Open
  BY <1>0, <1>2 DEF Open, Fail, BatchInv
<1>3. CASE pc' = pc /\ batch' = batch
  <2>1. pc' = "load" => ~atRisk'
    BY <1>0, <1>3 DEF BatchInv, Next, Endangered
  <2> QED
    BY <1>0, <1>3, <2>1 DEF BatchInv
<1>4. CASE WriteFreshFile
  BY <1>0, <1>4 DEF WriteFreshFile, WriteFresh, FlushFresh, Rename, Fail, BatchInv
<1>5. CASE LoadCacheFile \/ RejectCacheFile
  BY <1>0, <1>5 DEF LoadCacheFile, RejectCacheFile, itemVars, BatchInv
<1>6. CASE Crash
  <2>1. pc' = "load" /\ batch' = {} /\ ~atRisk'
    BY <1>6 DEF Crash, Next, Endangered, Secured
  <2> QED
    BY <2>1 DEF BatchInv
<1>7. CASE RemoveFile \/ Begin \/ MapCommittedFile \/ Install
  BY <1>0, <1>7 DEF RemoveFile, Begin, MapCommittedFile, Install, itemVars, BatchInv
<1>8. CASE WriteBack \/ SetLoadActive
  BY <1>3, <1>8 DEF WriteBack, SetLoadActive, itemVars
<1>9. ASSUME NEW e \in Entries, Record(e) PROVE BatchInv'
  BY <1>3, <1>9 DEF Record, itemVars
<1>10. ASSUME NEW i \in Slots, VerifyEntry(i) PROVE BatchInv'
  BY <1>3, <1>10 DEF VerifyEntry, itemVars
<1> QED
  BY <1>1, <1>2, <1>4, <1>5, <1>6, <1>7, <1>8, <1>9, <1>10
  DEF Next, Step, AppendFile, AppendStep

LEMMA StoreStep ==
  ASSUME StoreInv, Next
  PROVE  StoreInv' /\ Simulated
<1>0. FileInv'
  BY StepInv DEF StoreInv
<1> SUFFICES SyncInv' /\ Simulated
  BY <1>0, NewStep, BatchStep DEF StoreInv
<1>1. CASE AppendStep
  BY <1>0, <1>1, AppendSync
<1>2. CASE Open
  <2>1. /\ batch' = batch /\ UNCHANGED fileVars /\ view' = view /\ pc = "open"
        /\ pc' \in {"install", "fresh", "truncate"}
    BY <1>2 DEF Open, Fail, viewVars
  <2>2. SyncInv' /\ Stored' = Stored
    BY <1>2, <2>1, QuietSync, OpenNew DEF Appending
  <2> QED
    BY <2>1, <2>2 DEF Simulated
<1>3. CASE WriteFresh \/ FlushFresh \/ MapCommittedFile
  <2>1. /\ batch' = batch /\ UNCHANGED fileVars /\ view' = view
        /\ pc \in {"fresh", "flushFresh", "map"}
        /\ pc' \in {"install", "flushFresh", "rename", "renameUnflushed"}
    BY <1>3 DEF WriteFresh, FlushFresh, MapCommittedFile, Fail, viewVars
  <2>2. SyncInv' /\ Stored' = Stored
    BY <2>1, QuietSync DEF Appending
  <2> QED
    BY <2>1, <2>2 DEF Simulated
<1>4. CASE RejectCacheFile \/ Begin \/ Install
  <2>0. pc = "install" /\ result # <<>> => Valid(os, TRUE)
    BY DEF StoreInv, FileInv, WriterInv, Vouched, Valid
  <2>1. /\ UNCHANGED fileVars /\ pc \in {"load", "idle", "install"}
        /\ pc' \in {"idle", "open"} /\ (view' = view \/ Valid(os, TRUE))
    BY <1>4, <2>0 DEF RejectCacheFile, Begin, Install, viewVars
  <2>2. SyncInv' /\ Stored' = Stored
    BY <2>1, QuietSync DEF Appending
  <2>3. batch' = batch \/ batch = {} \/ batch' = {}
    BY <1>4 DEF RejectCacheFile, Begin, Install, itemVars, StoreInv, BatchInv
  <2> QED
    BY <2>2, <2>3 DEF Simulated
<1>5. CASE LoadCacheFile
  BY <1>0, <1>5, LoadSync
<1>6. CASE Crash
  BY <1>6, CrashSync
<1>7. CASE WriteBack
  BY <1>0, <1>7, WriteBackSync
<1>8. CASE SetLoadActive
  BY <1>8, BesideSync DEF SetLoadActive, viewVars
<1>9. CASE RemoveFile
  <2>1. exists' = FALSE /\ batch' = batch
    BY <1>9 DEF RemoveFile, itemVars
  <2>2. Stored' = {}
    BY <2>1, StoredNext
  <2> QED
    BY <2>1, <2>2 DEF SyncInv, Simulated
<1>10. CASE Rename
  BY <1>10, RenameSync
<1>11. ASSUME NEW e \in Entries, Record(e) PROVE SyncInv' /\ Simulated
  BY <1>11, BesideSync DEF Record, viewVars
<1>12. ASSUME NEW i \in Slots, VerifyEntry(i) PROVE SyncInv' /\ Simulated
  BY <1>12, BesideSync DEF VerifyEntry
<1> QED
  BY <1>1, <1>2, <1>3, <1>4, <1>5, <1>6, <1>7, <1>8, <1>9, <1>10, <1>11, <1>12
  DEF Next, Step, AppendFile, AppendStep, WriteFreshFile

LEMMA StoreInit == Init => StoreInv /\ Stored \in SUBSET Entries
<1> SUFFICES ASSUME Init PROVE StoreInv /\ Stored \in SUBSET Entries
  OBVIOUS
<1>1. FileInv
  BY InitInv
<1>2. pc = "load" /\ batch = {} /\ ~atRisk /\ dur = os
  BY DEF Init
<1>3. BatchInv /\ NewInv
  BY <1>2 DEF BatchInv, NewInv, Appending
<1>4. SyncInv
  <2>1. Valid(os, TRUE) => Behind
    BY <1>2 DEF Behind, Valid, Agree, Appending
  <2>2. ~Valid(os, TRUE) => Rejected
    BY <1>2 DEF Rejected, Appending, Init
  <2> QED
    BY <2>1, <2>2 DEF SyncInv
<1>5. Stored \in SUBSET Entries
  BY <1>1, StoredType
<1> QED
  BY <1>1, <1>3, <1>4, <1>5 DEF StoreInv

LEMMA StoreInvStep == StoreInv /\ [Next]_vars => StoreInv'
<1> SUFFICES ASSUME StoreInv, [Next]_vars PROVE StoreInv'
  OBVIOUS
<1>1. CASE UNCHANGED vars
  <2>1. FileInv'
    BY <1>1, StepInv DEF StoreInv
  <2>2. UNCHANGED <<fileVars, view, itemVars, pc, atRisk>>
    BY <1>1 DEF vars, viewVars
  <2>3. BatchInv' /\ NewInv'
    BY <2>2 DEF StoreInv, BatchInv, NewInv, fileVars, itemVars
  <2>4. SyncInv'
    BY <2>2 DEF StoreInv, SyncInv, Behind, Rejected, Agree, Valid, fileVars, itemVars
  <2> QED
    BY <2>1, <2>3, <2>4 DEF StoreInv
<1>2. CASE Next
  BY <1>2, StoreStep
<1> QED
  BY <1>1, <1>2

(* Every behaviour of the file is one of the store it promises to be: whatever   *)
(* is cut off by a crash, the payloads safely stored change by whole batches.    *)
THEOREM FileIsStore == Spec => StoreSpec
<1>1. Init => Store!Init
  BY StoreInit DEF Init, Store!Init
<1>2. StoreInv /\ [Next]_vars => [Store!Next]_<<Stored, batch>>
  <2> SUFFICES ASSUME StoreInv, [Next]_vars
               PROVE  Store!Next \/ UNCHANGED <<Stored, batch>>
    OBVIOUS
  <2>1. CASE UNCHANGED vars
    <3>1. Stored' = Stored /\ batch' = batch
      BY <2>1, StoredSame DEF vars, fileVars, itemVars
    <3> QED
      BY <3>1
  <2>2. CASE Next /\ (atRisk \/ atRisk')
    BY <2>2 DEF Store!Next
  <2>3. CASE Next /\ ~atRisk /\ ~atRisk'
    <3>1. StoreInv' /\ Simulated
      BY <2>3, StoreStep
    <3>2. batch' \in SUBSET Entries
      BY <3>1 DEF StoreInv, FileInv, TypeOK
    <3> QED
      BY <2>3, <3>1, <3>2
      DEF Simulated, Store!Next, Store!Take, Store!Add, Store!Replace, Store!Release,
          Store!GiveUp
  <2> QED
    BY <2>1, <2>2, <2>3
<1> QED
  BY <1>1, <1>2, StoreInit, StoreInvStep, PTL DEF Spec, StoreSpec, Store!Spec

(* A file that serves would pass validation at the next start, in the middle of  *)
(* an append and of its rollback included.                                    *)
THEOREM ServedStaysValid == Spec => []ServedFileValid
<1>1. StoreInv => ServedFileValid
  <2> SUFFICES ASSUME StoreInv, view # <<>>, exists, ~atRisk PROVE Valid(os, TRUE)
    BY DEF ServedFileValid
  <2>1. Behind
    BY DEF StoreInv, SyncInv, Rejected
  <2>2. CASE pc = "flushHeader"
    BY <2>2, HeaderWritten DEF StoreInv
  <2>3. CASE pc # "flushHeader"
    <3>1. /\ os \in Image /\ dur \in Image /\ Valid(dur, TRUE) /\ os.count = dur.count
          /\ dur.count <= os.len /\ Agree(dur, os, dur.count)
      BY <2>1, <2>3 DEF StoreInv, FileInv, TypeOK, Behind, Agree
    <3>2. dur.count <= dur.len
      BY <3>1, CommittedSeq
    <3> QED
      BY <3>1, <3>2, SamePrefix
  <2> QED
    BY <2>2, <2>3
<1> QED
  BY <1>1, StoreInit, StoreInvStep, PTL DEF Spec
===============================================================================
