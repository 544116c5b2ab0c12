-------------------------- MODULE FalloutStreamsProofs --------------------------
(***************************************************************************)
(* FalloutStreams for any threads, addresses, archives, entries and            *)
(* conditions: the invariant of its tables is inductive, and a read delivers    *)
(* the bytes of its stream.                                                  *)
(***************************************************************************)
EXTENDS FalloutStreams, SequenceTheorems, TLAPS

-----------------------------------------------------------------------------
(* Bytes.                                                                    *)

LEMMA WholeFacts ==
  ASSUME NEW p \in Sources, NEW e \in Entries
  PROVE  /\ Whole(p, e) \in Seq(Bytes) /\ Len(Whole(p, e)) = Size /\ Whole(p, e) # << >>
         /\ \A i \in 1 .. Size : Whole(p, e)[i] \in Bytes
<1>1. Whole(p, e) \in [1 .. Size -> Bytes]
  BY DEF Whole, Bytes
<1>2. Size \in Nat \ {0}
  BY FalloutStreamsAssumption
<1>3. Whole(p, e) \in Seq(Bytes)
  BY <1>1, <1>2, SeqDef
<1>4. Len(Whole(p, e)) \in Nat /\ 1 .. Len(Whole(p, e)) = 1 .. Size
  BY <1>1, <1>3, LenProperties
<1>5. Len(Whole(p, e)) = Size
  BY <1>2, <1>4
<1>6. Whole(p, e) # << >>
  BY <1>2, <1>5, EmptySeq
<1> QED
  BY <1>1, <1>3, <1>5, <1>6

LEMMA PartFacts ==
  ASSUME NEW p \in Sources, NEW e \in Entries, NEW from \in Positions, NEW n \in Positions
  PROVE  /\ Part(p, e, from, n) \in Seq(Bytes) /\ Len(Part(p, e, from, n)) \in Nat
         /\ from + Len(Part(p, e, from, n)) \in Positions
<1>1. Size \in Nat \ {0} /\ from \in 0 .. Size /\ n \in 0 .. Size
  BY FalloutStreamsAssumption DEF Positions
<1> DEFINE m == from + 1
           k == IF from + n < Size THEN from + n ELSE Size
<1>2. m \in Int /\ k \in Int /\ m >= 1 /\ k <= Size /\ k >= from
  BY <1>1
<1>3. \A i \in m .. k : Whole(p, e)[i] \in Bytes
  BY <1>1, <1>2, WholeFacts
<1>4. Part(p, e, from, n) = SubSeq(Whole(p, e), m, k)
  BY DEF Part
<1> HIDE DEF m, k
<1>5. /\ SubSeq(Whole(p, e), m, k) \in Seq(Bytes)
      /\ Len(SubSeq(Whole(p, e), m, k)) = IF m <= k THEN k - m + 1 ELSE 0
  BY <1>2, <1>3, SubSeqProperties
<1> QED
  BY <1>1, <1>2, <1>4, <1>5 DEF Positions, m

LEMMA PartWhole ==
  ASSUME NEW p \in Sources, NEW e \in Entries
  PROVE  Part(p, e, 0, Size) = Whole(p, e)
<1>1. Size \in Nat \ {0}
  BY FalloutStreamsAssumption
<1>2. Part(p, e, 0, Size) = SubSeq(Whole(p, e), 1, Size)
  BY <1>1 DEF Part
<1>3. /\ SubSeq(Whole(p, e), 1, Size) \in Seq(Bytes)
      /\ Len(SubSeq(Whole(p, e), 1, Size)) = Size
      /\ \A i \in 1 .. Size : SubSeq(Whole(p, e), 1, Size)[i] = Whole(p, e)[i]
  <2>1. \A i \in 1 .. Size : Whole(p, e)[i] \in Bytes
    BY WholeFacts
  <2>2. /\ SubSeq(Whole(p, e), 1, Size) \in Seq(Bytes)
        /\ Len(SubSeq(Whole(p, e), 1, Size)) = IF 1 <= Size THEN Size - 1 + 1 ELSE 0
        /\ \A i \in 1 .. Size - 1 + 1 : SubSeq(Whole(p, e), 1, Size)[i] = Whole(p, e)[1 + i - 1]
    BY <1>1, <2>1, SubSeqProperties
  <2>3. (Size - 1 + 1 = Size) /\ (1 <= Size) /\ \A i \in 1 .. Size : 1 + i - 1 = i
    BY <1>1
  <2> QED
    BY <2>2, <2>3
<1>4. Whole(p, e) \in Seq(Bytes) /\ Len(Whole(p, e)) = Size
  BY WholeFacts
<1>5. SubSeq(Whole(p, e), 1, Size) = Whole(p, e)
  BY <1>3, <1>4, SeqEqual
<1> QED
  BY <1>2, <1>5

USE DEF Captures

-----------------------------------------------------------------------------
(* The invariant by parts, each of the values it relates.                      *)

Sound(s) ==
  /\ s \in Stream
  /\ s.source = None <=> s.entry = None
  /\ s.source = None => s = NoStream
  /\ s.vtable # "override" => s.cursor = s.position

Correct(r, s, rec) ==
  \/ r.failed \/ r.raced
  \/ r.got = Part(s.source, s.entry, r.from, r.toRead)
  \/ rec[s.source][s.entry] \notin {<< >>, Whole(s.source, s.entry)}

(* Reader r of thread t uses stream s while the cache holds rec.               *)
Phase(t, r, s) ==
  /\ r.stream # None /\ s.user = t
  /\ IF r.opening THEN /\ r.pc \notin {"override", "done"} \cup Looks \cup Serves
                       /\ s.vtable = "reader" /\ s.position = 0
     ELSE /\ r.pc # "install"
          /\ r.pc \notin Captures \cup {"done"} => r.from = s.position
  /\ r.pc # "done" => (r.pc = "override" <=> s.vtable = "override")

Archive(r, s) ==
  /\ r.pc \in Looks \cup Finds => r.archive = None
  /\ r.pc \in Puts \cup {"install"} => r.archive = s.source
  /\ r.pc \in {"sourceTake", "sourceStore"} \/ ~r.raced => r.archive \in {None, s.source}
  /\ r.pc = "append" => r.archive # None

Bridge(r, s, rec) ==
  r.bridge # << >> /\ r.pc # "done" =>
    /\ r.pc \in {"native"} \cup Captures
    /\ r.pc = "native" => r.from = 0
    /\ ~r.raced => r.bridge = rec[s.source][s.entry]

Fits(t, r, s, rec) ==
  /\ r \in Reader
  /\ r.pc # "idle" =>
       /\ Phase(t, r, s) /\ Archive(r, s) /\ Bridge(r, s, rec)
       /\ r.pc \in Captures \cup {"done"} => Correct(r, s, rec)

(* What reader r of stream s knows of a slot.                                  *)
Knows(r, s, slot) ==
  ~r.raced =>
    /\ r.pc = "putSource" => slot.archive = r.archive
    /\ r.pc = "putKey" => slot.archive = slot.source
    /\ r.pc = "lookupArchive" => slot.source = s.source

ReadersInv ==
  /\ reader \in [Threads -> Reader]
  /\ \A t \in Threads : Fits(t, reader[t], stream[reader[t].stream], recorded)

StreamsSound == stream \in [Addresses -> Stream] /\ \A x \in Addresses : Sound(stream[x])

Slot ==
  [key : Addresses \cup {None}, source : Sources \cup {None}, archive : Sources \cup {None}]

Alone ==
  \A t, u \in Threads, s \in Slots :
    t # u /\ Putting(t, s) /\ Putting(u, s) => reader[t].raced

SlotsInv ==
  /\ conditions \in Conditions
  /\ streamHash \in [Slots -> Slot] /\ torn \subseteq Slots
  /\ SlotsMatch /\ Alone
  /\ \A t \in Threads :
       Knows(reader[t], stream[reader[t].stream], streamHash[SlotOf(reader[t].stream)])

OverridesInv ==
  /\ override \in Seq(Override)
  /\ overrides \in [Addresses -> 0 .. Len(override)]
  /\ last \in [Threads -> [stream : Addresses \cup {None}, entry : 0 .. Len(override)]]
  /\ OverridesMatch

CacheInv ==
  /\ recorded \in [Sources -> [Entries -> Seq(Bytes)]]
  /\ accums \in [Addresses -> [entry : Entries \cup {None}, buf : Seq(Bytes)]]
  /\ \A x \in Addresses : Len(accums[x].buf) < Size

PhasesInv ==
  /\ sourceHash \in [Sources -> {"none", "null", "archive"}]
  /\ frozen \in BOOLEAN /\ saveLoad \in BOOLEAN /\ gameplay \in BOOLEAN

Inv ==
  ReadersInv /\ StreamsSound /\ SlotsInv /\ OverridesInv /\ CacheInv /\ PhasesInv

LEMMA Parts == Inv => StreamsInv /\ ServedRight
<1> SUFFICES ASSUME Inv PROVE StreamsInv /\ ServedRight
  OBVIOUS
<1> USE DEF Inv
<1>1. TypeOK
  BY DEF TypeOK, ReadersInv, StreamsSound, SlotsInv, OverridesInv, CacheInv, PhasesInv, Slot
<1>2. OverridesMatch /\ SlotsMatch
  BY DEF OverridesInv, SlotsInv
<1>3. WritersMatch
  BY DEF WritersMatch, SlotsInv, Alone, Knows, On
<1>4. StreamsMatch
  BY DEF StreamsMatch, StreamsSound, Sound
<1>5. ReadersMatch
  BY DEF ReadersMatch, ReadersInv, Fits, Phase, Archive, Bridge, Correct, Right, On
<1>6. ServedRight
  BY DEF ServedRight, ReadersInv, Fits, Correct, Right, On
<1> QED
  BY <1>1, <1>2, <1>3, <1>4, <1>5, <1>6 DEF StreamsInv

LEMMA Zero == 0 \in Positions /\ << >> \in Seq(Bytes)
BY FalloutStreamsAssumption, EmptySeq DEF Positions

LEMMA IdleFits ==
  ASSUME NEW t \in Threads, NEW s, NEW rec
  PROVE  Fits(t, Idle, s, rec)
<1>1. Idle \in Reader
  BY Zero DEF Idle, Reader
<1> QED
  BY <1>1 DEF Fits, Idle

LEMMA NothingSound == Sound(NoStream)
<1>1. NoStream \in Stream
  BY Zero DEF NoStream, Stream
<1> QED
  BY <1>1 DEF Sound, NoStream

LEMMA InitInv == Init => Inv
<1> SUFFICES ASSUME Init PROVE Inv
  OBVIOUS
<1>1. ReadersInv
  <2>1. ASSUME NEW t \in Threads
        PROVE  Fits(t, reader[t], stream[reader[t].stream], recorded)
    BY IdleFits DEF Init
  <2>2. reader \in [Threads -> Reader]
    BY <2>1 DEF Init, Fits
  <2> QED
    BY <2>1, <2>2 DEF ReadersInv
<1>2. StreamsSound
  BY NothingSound DEF Init, StreamsSound, Sound
<1>3. SlotsInv
  <2>1. \A t \in Threads, s \in Slots : ~Putting(t, s)
    BY DEF Init, Putting, Idle
  <2> QED
    BY <2>1 DEF Init, SlotsInv, Slot, Alone, SlotsMatch, Knows, Idle
<1>4. OverridesInv
  <2>1. override = << >> /\ Len(override) = 0 /\ override \in Seq(Override) /\ DOMAIN override = {}
    BY EmptySeq DEF Init
  <2>2. \A x \in Addresses : overrides[x] = 0 /\ stream[x].vtable = "reader"
    BY DEF Init, NoStream
  <2>3. OverridesMatch
    BY <2>1, <2>2 DEF OverridesMatch
  <2> QED
    BY <2>1, <2>3 DEF Init, OverridesInv
<1>5. CacheInv
  <2>1. Len(NoAccum.buf) < Size /\ NoAccum \in [entry : Entries \cup {None}, buf : Seq(Bytes)]
    BY FalloutStreamsAssumption, EmptySeq DEF NoAccum
  <2>2. recorded \in [Sources -> [Entries -> Seq(Bytes)]]
    BY Zero, WholeFacts DEF Init
  <2> QED
    BY <2>1, <2>2 DEF Init, CacheInv
<1>6. PhasesInv
  <2>1. conditions.loads \in BOOLEAN
    BY FalloutStreamsAssumption DEF Init
  <2> QED
    BY <2>1 DEF Init, PhasesInv
<1> QED
  BY <1>1, <1>2, <1>3, <1>4, <1>5, <1>6 DEF Inv

-----------------------------------------------------------------------------
(* What a step of one thread leaves alone.                                   *)

(* The cache only ever fills in what it did not have.                          *)
Fills(rec, new) ==
  \A p \in Sources, e \in Entries : rec[p][e] # << >> => new[p][e] = rec[p][e]

LEMMA FitsStays ==
  ASSUME NEW t \in Threads, NEW r, NEW s, NEW rec, NEW new, Sound(s),
         Fits(t, r, s, rec), Fills(rec, new)
  PROVE  Fits(t, r, s, new)
<1> SUFFICES ASSUME r.pc # "idle" PROVE Fits(t, r, s, new)
  BY DEF Fits
<1>1. s.source \in Sources /\ s.entry \in Entries
  <2>1. s.user = t /\ None \notin Threads
    BY FalloutStreamsAssumption DEF Fits, Phase
  <2> QED
    BY <2>1 DEF Sound, Stream, NoStream
<1>2. Bridge(r, s, new)
  BY <1>1 DEF Fits, Bridge, Fills
<1>3. r.pc \in Captures \cup {"done"} => Correct(r, s, new)
  BY <1>1 DEF Fits, Correct, Fills
<1> QED
  BY <1>2, <1>3 DEF Fits

(* A step of thread t makes its record c, and the stream at x, which is its own  *)
(* or nobody's, d.                                                           *)
Turns(t, x, c, d) ==
  /\ x \in Addresses /\ stream[x].user \in {None, t}
  /\ Goto(t, c) /\ stream' = [stream EXCEPT ![x] = d]
  /\ c.pc # "idle" => c.stream = x
  /\ Sound(d)

LEMMA Others ==
  ASSUME Inv, NEW t \in Threads, NEW x, NEW c, NEW d, Turns(t, x, c, d),
         NEW u \in Threads, u # t
  PROVE  /\ reader'[u] = reader[u]
         /\ reader[u].pc # "idle" =>
              /\ reader[u].stream # x /\ reader[u].stream \in Addresses
              /\ stream'[reader[u].stream] = stream[reader[u].stream]
<1>1. reader'[u] = reader[u]
  BY DEF Turns, Goto, Inv, ReadersInv
<1>2. ASSUME reader[u].pc # "idle"
      PROVE  reader[u].stream # x /\ reader[u].stream \in Addresses
  <2>1. Fits(u, reader[u], stream[reader[u].stream], recorded)
    BY DEF Inv, ReadersInv
  <2>2. stream[reader[u].stream].user = u /\ reader[u].stream # None /\ reader[u] \in Reader
    BY <1>2, <2>1 DEF Fits, Phase
  <2>3. u # None
    BY FalloutStreamsAssumption
  <2> QED
    BY <2>2, <2>3 DEF Turns, Reader
<1> QED
  BY <1>1, <1>2 DEF Turns, Inv, StreamsSound

LEMMA Turned ==
  ASSUME Inv, NEW t \in Threads, NEW x, NEW c, NEW d, Turns(t, x, c, d),
         Fits(t, c, d, recorded'), Fills(recorded, recorded')
  PROVE  ReadersInv' /\ StreamsSound'
<1>1. StreamsSound'
  BY DEF Turns, Inv, StreamsSound, Sound
<1>2. reader' \in [Threads -> Reader]
  BY DEF Turns, Goto, Inv, ReadersInv, Fits
<1>3. ASSUME NEW u \in Threads
      PROVE  Fits(u, reader'[u], stream'[reader'[u].stream], recorded')
  <2>1. CASE u = t
    <3>1. reader'[t] = c
      BY DEF Turns, Goto, Inv, ReadersInv
    <3>2. c.pc # "idle" => stream'[c.stream] = d
      BY DEF Turns, Inv, StreamsSound
    <3> QED
      BY <2>1, <3>1, <3>2 DEF Fits
  <2>2. CASE u # t
    <3>1. Fits(u, reader[u], stream[reader[u].stream], recorded)
      BY DEF Inv, ReadersInv
    <3>2. reader[u].pc # "idle" => Sound(stream[reader[u].stream])
      BY <2>2, Others DEF Inv, StreamsSound
    <3>3. Fits(u, reader[u], stream[reader[u].stream], recorded')
      BY <3>1, <3>2, FitsStays DEF Fits
    <3> QED
      BY <2>2, <3>3, Others DEF Fits
  <2> QED
    BY <2>1, <2>2
<1> QED
  BY <1>1, <1>2, <1>3 DEF ReadersInv

LEMMA SlotsLeft ==
  ASSUME Inv, NEW t \in Threads, NEW x, NEW c, NEW d, Turns(t, x, c, d),
         UNCHANGED <<streamHash, torn, conditions>>,
         reader[t].pc \notin {"putSource", "putKey"}, c.pc \notin {"putSource", "putKey"},
         c.pc = "lookupArchive" /\ ~c.raced => streamHash[SlotOf(x)].source = d.source
  PROVE  SlotsInv'
<1>1. Slots' = Slots /\ \A z : SlotOf(z)' = SlotOf(z)
  BY DEF Slots, SlotOf
<1>2. reader'[t] = c
  BY DEF Turns, Goto, Inv, ReadersInv
<1>3. \A u \in Threads, s \in Slots : Putting(u, s)' <=> Putting(u, s)
  BY <1>1, <1>2, Others DEF Putting
<1>4. SlotsMatch'
  BY <1>1, <1>3 DEF SlotsMatch, Inv, SlotsInv
<1>5. Alone'
  <2> SUFFICES ASSUME NEW u \in Threads, NEW v \in Threads, NEW s \in Slots,
                      u # v, Putting(u, s), Putting(v, s)
               PROVE  reader'[u].raced
    BY <1>1, <1>3 DEF Alone
  <2>1. u # t
    BY DEF Putting
  <2> QED
    BY <2>1, Others DEF Inv, SlotsInv, Alone
<1>6. ASSUME NEW u \in Threads
      PROVE  Knows(reader'[u], stream'[reader'[u].stream], streamHash[SlotOf(reader'[u].stream)])
  <2>1. CASE u = t
    <3>1. c.pc = "lookupArchive" => stream'[c.stream] = d /\ c.stream = x
      BY DEF Turns, Inv, StreamsSound
    <3> QED
      BY <1>2, <2>1, <3>1 DEF Knows
  <2>2. CASE u # t
    BY <2>2, Others DEF Inv, SlotsInv, Knows
  <2> QED
    BY <2>1, <2>2
<1> QED
  BY <1>1, <1>4, <1>5, <1>6 DEF SlotsInv, Inv

LEMMA OverridesLeft ==
  ASSUME Inv, NEW t \in Threads, NEW x, NEW c, NEW d, Turns(t, x, c, d),
         UNCHANGED overrideVars,
         d.vtable = "override" <=> stream[x].vtable = "override",
         d.vtable = "override" =>
           /\ d.source = stream[x].source /\ d.entry = stream[x].entry
           /\ d.position = stream[x].position
  PROVE  OverridesInv'
<1>1. \A y \in Addresses : stream'[y] = IF y = x THEN d ELSE stream[y]
  BY DEF Turns, Inv, StreamsSound
<1>2. override' = override /\ overrides' = overrides /\ OverridesMatch
  BY DEF overrideVars, Inv, OverridesInv
<1>3. ASSUME NEW y \in Addresses
      PROVE  /\ overrides[y] # 0 <=> stream'[y].vtable = "override"
             /\ overrides[y] # 0 =>
                  override[overrides[y]] =
                    [source |-> stream'[y].source, entry |-> stream'[y].entry,
                     cursor |-> stream'[y].position, stream |-> y]
  <2>1. CASE y = x
    <3>1. stream'[y] = d /\ (overrides[y] # 0 <=> stream[y].vtable = "override")
      BY <1>1, <1>2, <2>1 DEF OverridesMatch
    <3>2. overrides[y] # 0 =>
            override[overrides[y]] =
              [source |-> stream[y].source, entry |-> stream[y].entry,
               cursor |-> stream[y].position, stream |-> y]
      BY <1>2, <2>1 DEF OverridesMatch
    <3>3. overrides[y] # 0 => /\ d.source = stream[y].source /\ d.entry = stream[y].entry
                             /\ d.position = stream[y].position
      BY <2>1, <3>1
    <3> QED
      BY <2>1, <3>1, <3>2, <3>3
  <2>2. CASE y # x
    BY <1>1, <1>2, <2>2 DEF OverridesMatch
  <2> QED
    BY <2>1, <2>2
<1>4. OverridesMatch'
  BY <1>2, <1>3 DEF OverridesMatch
<1> QED
  BY <1>4 DEF OverridesInv, Inv, overrideVars

LEMMA CacheLeft == Inv /\ UNCHANGED cacheVars => CacheInv' /\ Fills(recorded, recorded')
BY DEF Inv, CacheInv, cacheVars, Fills

LEMMA PhasesLeft == Inv /\ UNCHANGED <<sourceHash, frozen, phaseVars>> => PhasesInv'
BY DEF Inv, PhasesInv, phaseVars

-----------------------------------------------------------------------------
(* A thread in the middle of a call goes on with its own stream.               *)

LEMMA Mine ==
  ASSUME Inv, NEW t \in Threads, reader[t].pc # "idle"
  PROVE  /\ reader[t].stream \in Addresses /\ On(t).user = t /\ Sound(On(t))
         /\ On(t) = stream[reader[t].stream]
         /\ On(t).source \in Sources /\ On(t).entry \in Entries
         /\ Fits(t, reader[t], On(t), recorded) /\ reader[t] \in Reader
<1>1. On(t) = stream[reader[t].stream]
  BY DEF On
<1>2. Fits(t, reader[t], On(t), recorded) /\ reader[t] \in Reader
  BY <1>1 DEF Inv, ReadersInv, Fits
<1>3. reader[t].stream \in Addresses /\ On(t).user = t
  BY <1>2 DEF Fits, Phase, Reader
<1>4. Sound(On(t))
  BY <1>1, <1>3 DEF Inv, StreamsSound
<1>5. On(t) # NoStream
  BY <1>3, FalloutStreamsAssumption DEF NoStream
<1> QED
  BY <1>1, <1>2, <1>3, <1>4, <1>5 DEF Sound, Stream

(* The tables, entries of replaced vtables and cache stay.                     *)
Local == UNCHANGED <<streamHash, torn, conditions, overrideVars, cacheVars>>

(* d is stream s further on.                                                  *)
Further(s, d) ==
  /\ d.source = s.source /\ d.entry = s.entry /\ d.vtable = s.vtable
  /\ d.vtable = "override" => d.position = s.position

LEMMA Moves ==
  ASSUME Inv, NEW t \in Threads, NEW x, NEW c, NEW d, Turns(t, x, c, d),
         Fits(t, c, d, recorded), Further(stream[x], d), Local, PhasesInv',
         reader[t].pc \notin {"putSource", "putKey"}, c.pc \notin {"putSource", "putKey"},
         c.pc = "lookupArchive" /\ ~c.raced => streamHash[SlotOf(x)].source = d.source
  PROVE  Inv'
<1>1. CacheInv' /\ Fills(recorded, recorded') /\ recorded' = recorded
  BY CacheLeft DEF Local, cacheVars
<1>2. ReadersInv' /\ StreamsSound'
  BY <1>1, Turned
<1>3. SlotsInv'
  BY SlotsLeft DEF Local
<1>4. OverridesInv'
  BY OverridesLeft DEF Local, Further
<1> QED
  BY <1>1, <1>2, <1>3, <1>4 DEF Inv

(* Its stream stays as it is.                                                 *)
LEMMA Thinks ==
  ASSUME Inv, NEW t \in Threads, reader[t].pc # "idle", NEW c, Goto(t, c), UNCHANGED stream,
         Fits(t, c, On(t), recorded), c.stream = reader[t].stream, Local, PhasesInv',
         reader[t].pc \notin {"putSource", "putKey"}, c.pc \notin {"putSource", "putKey"},
         c.pc = "lookupArchive" /\ ~c.raced =>
           streamHash[SlotOf(c.stream)].source = On(t).source
  PROVE  Inv'
<1> DEFINE x == reader[t].stream
<1>1. /\ x \in Addresses /\ stream[x].user = t /\ Sound(stream[x]) /\ On(t) = stream[x]
  BY Mine
<1>2. stream' = [stream EXCEPT ![x] = stream[x]]
  BY <1>1 DEF Inv, StreamsSound
<1>3. Turns(t, x, c, stream[x])
  BY <1>1, <1>2 DEF Turns
<1>4. Further(stream[x], stream[x])
  BY DEF Further
<1> HIDE DEF x
<1>5. streamHash[SlotOf(x)] = streamHash[SlotOf(c.stream)] /\ Fits(t, c, stream[x], recorded)
  BY <1>1 DEF x
<1>6. c.pc = "lookupArchive" /\ ~c.raced => streamHash[SlotOf(x)].source = stream[x].source
  BY <1>1, <1>5
<1> QED
  BY <1>3, <1>4, <1>5, <1>6, Moves

(* It is done with its stream.                                                *)
LEMMA Leaves ==
  ASSUME Inv, NEW t \in Threads, reader[t].pc # "idle", Goto(t, Idle),
         Release(reader[t].stream), Local, PhasesInv',
         reader[t].pc \notin {"putSource", "putKey"}
  PROVE  Inv'
<1> DEFINE x == reader[t].stream
<1>1. /\ x \in Addresses /\ stream[x].user = t /\ Sound(stream[x]) /\ stream[x].source # None
  BY Mine, FalloutStreamsAssumption
<1>2. PICK d : d = [stream[x] EXCEPT !.user = None]
  OBVIOUS
<1>3. Sound(d) /\ Further(stream[x], d)
  BY <1>1, <1>2 DEF Sound, Stream, Further
<1>4. stream' = [stream EXCEPT ![x] = d]
  BY <1>2 DEF Release
<1> HIDE DEF x
<1>5. Turns(t, x, Idle, d)
  BY <1>1, <1>3, <1>4 DEF Turns, Idle
<1>6. Idle.pc = "idle"
  BY DEF Idle
<1> QED
  BY <1>3, <1>5, <1>6, IdleFits, Moves DEF x

-----------------------------------------------------------------------------
(* The look-up and the resolution of the source.                              *)

Pcs == Looks \cup Finds \cup Puts \cup Serves

LEMMA OnlyReaderCalm ==
  Inv /\ OnlyReader /\ UNCHANGED conditions => Local /\ PhasesInv' /\ UNCHANGED stream
BY PhasesLeft DEF OnlyReader, Local, tableVars, phaseVars

(* A look-up goes on to step p, may be with archive a.                          *)
Hit(p, a, b, s) ==
  \/ p \in {"lookupSource", "lookupArchive"} /\ a = None
  \/ p = "serve" /\ a \in Sources /\ (~b => a = s.source)
At(r, b, p, a) == [r EXCEPT !.raced = b, !.pc = p, !.archive = a]

LEMMA HitFits ==
  ASSUME NEW t \in Threads, NEW r, NEW s, NEW rec, Fits(t, r, s, rec), r.pc \in Looks,
         NEW b \in BOOLEAN, r.raced => b,
         NEW p, NEW a, NEW c, c = At(r, b, p, a),
         Hit(p, a, b, s)
  PROVE  Fits(t, c, s, rec) /\ c.stream = r.stream /\ c.pc = p /\ c.raced = b
<1>1. r \in Reader /\ Phase(t, r, s) /\ Bridge(r, s, rec) /\ ~r.opening /\ r.bridge = << >>
  BY DEF Fits, Phase, Bridge, Looks, Reader
<1>2. c \in Reader
  BY <1>1 DEF Hit, At, Reader, Looks, Serves
<1>3. /\ c.stream = r.stream /\ c.pc = p /\ c.raced = b /\ c.archive = a
      /\ c.opening = r.opening /\ c.from = r.from /\ c.bridge = r.bridge
  BY <1>1 DEF At, Reader
<1>4. Phase(t, c, s) /\ Archive(c, s) /\ Bridge(c, s, rec)
  BY <1>1, <1>3 DEF Hit, Phase, Archive, Bridge, Looks, Finds, Puts, Serves
<1>5. p \notin Captures \cup {"done"}
  BY DEF Hit
<1> QED
  BY <1>2, <1>3, <1>4, <1>5 DEF Fits

LEMMA MissFits ==
  ASSUME NEW t \in Threads, NEW r, NEW s, NEW rec, Fits(t, r, s, rec),
         r.pc \in Looks \cup Finds, NEW b \in BOOLEAN, NEW c, c = Missed([r EXCEPT !.raced = b])
  PROVE  Fits(t, c, s, rec) /\ c.stream = r.stream /\ c.pc = "sourceKey"
<1>1. /\ r \in Reader /\ Phase(t, r, s) /\ Bridge(r, s, rec) /\ r.bridge = << >>
      /\ r.archive = None
  BY DEF Fits, Phase, Archive, Bridge, Looks, Finds, Reader
<1>2. c \in Reader
  BY <1>1 DEF Missed, Reader, Finds
<1>3. /\ c.stream = r.stream /\ c.pc = "sourceKey" /\ ~c.raced /\ c.archive = None
      /\ c.opening = r.opening /\ c.from = r.from /\ c.bridge = r.bridge
  BY <1>1 DEF Missed, Reader
<1>4. Phase(t, c, s) /\ Archive(c, s) /\ Bridge(c, s, rec)
  BY <1>1, <1>3 DEF Phase, Archive, Bridge, Looks, Finds, Puts, Serves
<1> QED
  BY <1>2, <1>3, <1>4 DEF Fits

LEMMA LookupKeeps ==
  ASSUME Inv, UNCHANGED conditions, NEW t \in Threads, StreamArchiveLookup(t)
  PROVE  Inv'
<1> DEFINE r == reader[t]
           z == SlotOf(r.stream)
           slot == streamHash[z]
<1>1. r.pc \in Looks /\ OnlyReader
  BY DEF StreamArchiveLookup, LookupStep, Looks
<1>2. Local /\ PhasesInv' /\ UNCHANGED stream
  BY <1>1, OnlyReaderCalm
<1>3. /\ r.pc # "idle" /\ r.pc \notin {"putSource", "putKey"}
      /\ r.stream \in Addresses /\ Fits(t, r, On(t), recorded) /\ r \in Reader
      /\ On(t).source \in Sources /\ r.pc \in Looks \cup Finds
  BY <1>1, Mine DEF Looks
<1>4. z \in Slots /\ slot \in Slot
  BY <1>3 DEF SlotOf, Slots, Inv, SlotsInv
<1>5. PICK b : b = (r.raced \/ Disturbed(t, z) \/ z \in torn)
  OBVIOUS
<1>6. b \in BOOLEAN /\ (r.raced => b)
  BY <1>3, <1>5 DEF Reader
<1>7. PICK q : q = [r EXCEPT !.raced = b]
  OBVIOUS
<1>8. ASSUME NEW p, NEW a, Goto(t, [q EXCEPT !.pc = p, !.archive = a]),
             \/ p = "lookupSource" /\ a = None
             \/ p = "lookupArchive" /\ a = None /\ slot.source = On(t).source
             \/ p = "serve" /\ a \in Sources /\ (~b => a = On(t).source)
      PROVE  Inv'
  <2>1. PICK c : c = At(r, b, p, a)
    OBVIOUS
  <2>5. Hit(p, a, b, On(t))
    BY <1>8 DEF Hit
  <2>6. Fits(t, r, On(t), recorded) /\ r.pc \in Looks /\ (r.raced => b)
    BY <1>1, <1>3, <1>6
  <2>2. Fits(t, c, On(t), recorded) /\ c.stream = r.stream /\ c.pc = p
    <3> HIDE DEF r
    <3> QED
      BY <1>6, <2>5, <2>6, <2>1, HitFits
  <2>3. Goto(t, c)
    BY <1>3, <1>7, <1>8, <2>1 DEF At
  <2>4. p = "lookupArchive" => streamHash[SlotOf(r.stream)].source = On(t).source
    BY <1>8
  <2>7. p \notin {"putSource", "putKey"}
    BY <1>8
  <2> QED
    BY <1>2, <1>3, <2>2, <2>3, <2>4, <2>7, Thinks
<1>9. ASSUME Goto(t, Missed(q)) PROVE Inv'
  <2>1. PICK c : c = Missed(q)
    OBVIOUS
  <2>2. Fits(t, c, On(t), recorded) /\ c.stream = r.stream /\ c.pc = "sourceKey"
    BY <1>1, <1>3, <1>6, <1>7, <2>1, MissFits
  <2> QED
    BY <1>2, <1>3, <1>9, <2>1, <2>2, Thinks
<1>10. CASE LookupStep(t, "lookupKey", slot.key = r.stream,
                       [pc |-> "lookupSource", archive |-> None])
  BY <1>5, <1>7, <1>8, <1>9, <1>10 DEF LookupStep
<1>11. CASE LookupStep(t, "lookupSource", slot.source = On(t).source,
                       [pc |-> "lookupArchive", archive |-> None])
  BY <1>5, <1>7, <1>8, <1>9, <1>11 DEF LookupStep
<1>12. CASE LookupStep(t, "lookupArchive", slot.archive # None,
                       [pc |-> "serve", archive |-> slot.archive])
  <2>1. r.pc = "lookupArchive"
    BY <1>12 DEF LookupStep
  <2>2. ASSUME ~b PROVE slot.archive = On(t).source
    <3>1. ~r.raced /\ z \notin torn /\ ~Disturbed(t, z)
      BY <1>5, <2>2
    <3>2. \A u \in Threads : ~Putting(u, z)
      BY <2>1, <3>1 DEF Disturbed, Putting
    <3>3. slot.archive = slot.source
      BY <1>4, <3>1, <3>2 DEF Inv, SlotsInv, SlotsMatch
    <3>4. slot.source = On(t).source
      BY <2>1, <3>1 DEF Inv, SlotsInv, Knows, On
    <3> QED
      BY <3>3, <3>4
  <2>3. slot.archive # None => slot.archive \in Sources
    BY <1>4 DEF Slot
  <2> QED
    BY <1>5, <1>7, <1>8, <1>9, <1>12, <2>2, <2>3 DEF LookupStep
<1> QED
  BY <1>10, <1>11, <1>12 DEF StreamArchiveLookup

(* The resolution goes on to step p with archive a.                             *)
Resolving == Finds \cup {"sourceTake", "sourceStore"}
Name(r, s, p, a) ==
  \/ p \in Finds /\ a = None
  \/ p \in {"sourceTake", "sourceStore"} /\ a \in {None, s.source}
  \/ p = "putArchive" /\ a = s.source
  \/ p = "serve" /\ a = None /\ ~r.opening

LEMMA NameKeeps ==
  ASSUME Inv, NEW t \in Threads, reader[t].pc \in Resolving, NEW p, NEW a,
         Name(reader[t], On(t), p, a),
         Goto(t, At(reader[t], reader[t].raced, p, a)),
         UNCHANGED stream, Local, PhasesInv'
  PROVE  Inv'
<1>1. PICK r : r = reader[t]
  OBVIOUS
<1>2. PICK s : s = On(t)
  OBVIOUS
<1>3. PICK c : c = At(r, r.raced, p, a)
  OBVIOUS
<1>4. /\ r.pc # "idle" /\ r.pc \notin {"putSource", "putKey"} /\ r \in Reader
      /\ Fits(t, r, s, recorded) /\ s.source \in Sources
  <2>1. r.pc # "idle" /\ r.pc \notin {"putSource", "putKey"}
    BY <1>1 DEF Resolving, Finds
  <2> QED
    BY <1>1, <1>2, <2>1, Mine
<1>5. Phase(t, r, s) /\ r.bridge = << >> /\ r.pc \notin {"override", "done", "install"} \cup Captures
  BY <1>1, <1>4 DEF Fits, Bridge, Resolving, Finds
<1>6. c \in Reader
  <2>1. /\ p \in Finds \cup {"sourceTake", "sourceStore", "putArchive", "serve"}
        /\ a \in Sources \cup {None}
    BY <1>1, <1>2, <1>4 DEF Name
  <2>2. c = [r EXCEPT !.raced = r.raced, !.pc = p, !.archive = a]
    BY <1>3 DEF At
  <2> QED
    BY <1>4, <2>1, <2>2 DEF Reader, Puts, Serves
<1>7. /\ c.stream = r.stream /\ c.pc = p /\ c.raced = r.raced /\ c.archive = a
      /\ c.opening = r.opening /\ c.from = r.from /\ c.bridge = r.bridge
  BY <1>3, <1>4 DEF At, Reader
<1>8. Phase(t, c, s)
  BY <1>1, <1>2, <1>5, <1>7 DEF Phase, Name, Finds, Looks, Serves, Resolving
<1>9. Archive(c, s) /\ Bridge(c, s, recorded)
  BY <1>1, <1>2, <1>4, <1>5, <1>7 DEF Archive, Bridge, Name, Finds, Looks, Puts
<1>10. p \notin {"done", "lookupArchive", "putSource", "putKey"} \cup Captures
  BY DEF Name, Finds
<1>11. Fits(t, c, s, recorded)
  BY <1>6, <1>7, <1>8, <1>9, <1>10 DEF Fits
<1> QED
  BY <1>1, <1>2, <1>3, <1>4, <1>7, <1>10, <1>11, Thinks

LEMMA UnresolvedKeeps ==
  ASSUME Inv, NEW t \in Threads, reader[t].pc \in Resolving, reader[t].archive = None,
         Unresolved(t), Local, PhasesInv'
  PROVE  Inv'
<1>1. /\ reader[t].pc # "idle" /\ reader[t].pc \notin {"putSource", "putKey"}
      /\ reader[t] \in Reader
  <2>1. reader[t].pc # "idle" /\ reader[t].pc \notin {"putSource", "putKey"}
    BY DEF Resolving, Finds
  <2> QED
    BY <2>1, Mine
<1>2. CASE reader[t].opening
  BY <1>1, <1>2, Leaves DEF Unresolved
<1>3. CASE ~reader[t].opening
  <2>1. At(reader[t], reader[t].raced, "serve", None) = [reader[t] EXCEPT !.pc = "serve"]
    BY <1>1 DEF At, Reader
  <2>2. Name(reader[t], On(t), "serve", None)
    BY <1>3 DEF Name
  <2> QED
    BY <1>3, <2>1, <2>2, NameKeeps DEF Unresolved
<1> QED
  BY <1>2, <1>3

LEMMA NotInTableKeeps ==
  ASSUME Inv, NEW t \in Threads, reader[t].pc \in Finds, NotInTable(t), Local, PhasesInv'
  PROVE  Inv'
<1>1. /\ reader[t].pc # "idle" /\ reader[t].pc \notin {"putSource", "putKey"}
      /\ reader[t] \in Reader /\ Fits(t, reader[t], On(t), recorded)
      /\ reader[t].pc \in Resolving /\ reader[t].archive = None
  <2>1. /\ reader[t].pc # "idle" /\ reader[t].pc \notin {"putSource", "putKey"}
        /\ reader[t].pc \in Resolving
    BY DEF Finds, Resolving
  <2>2. reader[t] \in Reader /\ Fits(t, reader[t], On(t), recorded)
    BY <2>1, Mine
  <2> QED
    BY <2>1, <2>2 DEF Fits, Archive
<1>2. CASE Goto(t, [reader[t] EXCEPT !.pc = "resolve"]) /\ UNCHANGED stream
  <2>1. At(reader[t], reader[t].raced, "resolve", None) = [reader[t] EXCEPT !.pc = "resolve"]
    BY <1>1 DEF At, Reader
  <2>2. Name(reader[t], On(t), "resolve", None)
    BY DEF Name, Finds
  <2> QED
    BY <1>1, <1>2, <2>1, <2>2, NameKeeps
<1>3. CASE Goto(t, Missed(reader[t])) /\ UNCHANGED stream
  <2>0. PICK b \in BOOLEAN : ~b
    OBVIOUS
  <2>1. PICK c : c = Missed([reader[t] EXCEPT !.raced = b])
    OBVIOUS
  <2>2. c = Missed(reader[t])
    BY <1>1, <2>1 DEF Missed, Reader
  <2>3. reader[t].pc \in Looks \cup Finds
    OBVIOUS
  <2>4. Fits(t, c, On(t), recorded) /\ c.stream = reader[t].stream /\ c.pc = "sourceKey"
    BY <1>1, <2>1, <2>3, MissFits
  <2> QED
    BY <1>1, <1>3, <2>2, <2>4, Thinks
<1> QED
  BY <1>1, <1>2, <1>3, UnresolvedKeeps DEF NotInTable

LEMMA SourceLookupKeeps ==
  ASSUME Inv, UNCHANGED conditions, NEW t \in Threads, SourceLookup(t)
  PROVE  Inv'
<1>1. Local /\ PhasesInv'
  BY PhasesLeft DEF SourceLookup, Local, tableVars, phaseVars
<1>2. reader[t].pc \in {"sourceKey", "sourceArchive"} /\ reader[t].pc \in Finds
      /\ reader[t].pc \in Resolving /\ reader[t].pc # "idle"
  BY DEF SourceLookup, Finds, Resolving
<1>3. reader[t] \in Reader /\ Fits(t, reader[t], On(t), recorded) /\ reader[t].archive = None
  <2>1. reader[t] \in Reader /\ Fits(t, reader[t], On(t), recorded)
    BY <1>2, Mine
  <2> QED
    BY <1>2, <2>1 DEF Fits, Archive
<1>4. CASE NotInTable(t)
  BY <1>1, <1>2, <1>4, NotInTableKeeps
<1>5. CASE Goto(t, [reader[t] EXCEPT !.pc = "sourceArchive"]) /\ UNCHANGED stream
  <2>1. At(reader[t], reader[t].raced, "sourceArchive", None)
          = [reader[t] EXCEPT !.pc = "sourceArchive"]
    BY <1>3 DEF At, Reader
  <2>2. Name(reader[t], On(t), "sourceArchive", None)
    BY DEF Name, Finds
  <2> QED
    BY <1>1, <1>2, <1>5, <2>1, <2>2, NameKeeps
<1>6. CASE /\ Goto(t, [reader[t] EXCEPT !.pc = "putArchive", !.archive = On(t).source])
           /\ UNCHANGED stream
  <2>1. At(reader[t], reader[t].raced, "putArchive", On(t).source)
          = [reader[t] EXCEPT !.pc = "putArchive", !.archive = On(t).source]
    BY <1>3 DEF At, Reader
  <2>2. Name(reader[t], On(t), "putArchive", On(t).source)
    BY DEF Name
  <2> QED
    BY <1>1, <1>2, <1>6, <2>1, <2>2, NameKeeps
<1> QED
  BY <1>4, <1>5, <1>6 DEF SourceLookup

LEMMA ResolveSourceKeeps ==
  ASSUME Inv, UNCHANGED conditions, NEW t \in Threads, ResolveSource(t)
  PROVE  Inv'
<1>1. Local /\ PhasesInv'
  BY PhasesLeft DEF ResolveSource, Local, tableVars, phaseVars
<1>2. reader[t].pc \in Finds /\ reader[t].pc \in Resolving /\ reader[t].pc # "idle"
  BY DEF ResolveSource, Finds, Resolving
<1>3. reader[t] \in Reader /\ Fits(t, reader[t], On(t), recorded) /\ reader[t].archive = None
  <2>1. reader[t] \in Reader /\ Fits(t, reader[t], On(t), recorded)
    BY <1>2, Mine
  <2> QED
    BY <1>2, <2>1 DEF Fits, Archive
<1>4. CASE frozen
  BY <1>1, <1>2, <1>3, <1>4, UnresolvedKeeps DEF ResolveSource
<1>5. CASE ~frozen
  <2>1. PICK name \in {On(t).source} \cup (IF conditions.fails THEN {None} ELSE {}) :
          Goto(t, [reader[t] EXCEPT !.pc = "sourceTake", !.archive = name])
    BY <1>5 DEF ResolveSource
  <2>2. UNCHANGED stream
    BY <1>5 DEF ResolveSource
  <2>3. At(reader[t], reader[t].raced, "sourceTake", name)
          = [reader[t] EXCEPT !.pc = "sourceTake", !.archive = name]
    BY <1>3 DEF At, Reader
  <2>4. Name(reader[t], On(t), "sourceTake", name)
    BY <2>1 DEF Name
  <2> QED
    BY <1>1, <1>2, <2>1, <2>2, <2>3, <2>4, NameKeeps
<1> QED
  BY <1>4, <1>5

LEMMA SourceInsertKeeps ==
  ASSUME Inv, UNCHANGED conditions, NEW t \in Threads, SourceInsert(t)
  PROVE  Inv'
<1>1. reader[t].pc \in {"sourceTake", "sourceStore"} /\ reader[t].pc \in Resolving
      /\ reader[t].pc # "idle"
  BY DEF SourceInsert, Resolving
<1>2. /\ reader[t] \in Reader /\ Fits(t, reader[t], On(t), recorded)
      /\ reader[t].archive \in {None, On(t).source} /\ On(t).source \in Sources
  <2>1. reader[t] \in Reader /\ Fits(t, reader[t], On(t), recorded) /\ On(t).source \in Sources
    BY <1>1, Mine
  <2> QED
    BY <1>1, <2>1 DEF Fits, Archive
<1>3. Local
  BY DEF SourceInsert, Local
<1>4. PhasesInv'
  BY DEF SourceInsert, Inv, PhasesInv, phaseVars
<1>5. CASE Resolved(t)
  <2>1. CASE reader[t].archive = None
    BY <1>1, <1>3, <1>4, <1>5, <2>1, UnresolvedKeeps DEF Resolved
  <2>2. CASE reader[t].archive # None
    <3>1. At(reader[t], reader[t].raced, "putArchive", reader[t].archive)
            = [reader[t] EXCEPT !.pc = "putArchive"]
      BY <1>2 DEF At, Reader
    <3>2. Name(reader[t], On(t), "putArchive", reader[t].archive)
      BY <1>2, <2>2 DEF Name
    <3> QED
      BY <1>1, <1>3, <1>4, <1>5, <2>2, <3>1, <3>2, NameKeeps DEF Resolved
  <2> QED
    BY <2>1, <2>2
<1>6. CASE Goto(t, [reader[t] EXCEPT !.pc = "sourceStore"]) /\ UNCHANGED stream
  <2>1. At(reader[t], reader[t].raced, "sourceStore", reader[t].archive)
          = [reader[t] EXCEPT !.pc = "sourceStore"]
    BY <1>2 DEF At, Reader
  <2>2. Name(reader[t], On(t), "sourceStore", reader[t].archive)
    BY <1>2 DEF Name
  <2> QED
    BY <1>1, <1>3, <1>4, <1>6, <2>1, <2>2, NameKeeps
<1> QED
  BY <1>5, <1>6 DEF SourceInsert

-----------------------------------------------------------------------------
(* Insertions into the stream table.                                          *)

LEMMA RacedFits ==
  ASSUME NEW u \in Threads, NEW r, NEW s, NEW rec, Fits(u, r, s, rec), NEW b \in BOOLEAN,
         NEW c, c = [r EXCEPT !.raced = @ \/ b]
  PROVE  Fits(u, c, s, rec) /\ c.stream = r.stream /\ c.pc = r.pc
<1>1. r \in Reader
  BY DEF Fits
<1>2. c \in Reader
  BY <1>1 DEF Reader
<1>3. /\ c.stream = r.stream /\ c.pc = r.pc /\ (r.raced => c.raced) /\ c.archive = r.archive
      /\ c.opening = r.opening /\ c.from = r.from /\ c.bridge = r.bridge
      /\ c.got = r.got /\ c.failed = r.failed /\ c.toRead = r.toRead
  BY <1>1 DEF Reader
<1>4. Phase(u, r, s) => Phase(u, c, s)
  BY <1>3 DEF Phase
<1>5. Archive(r, s) => Archive(c, s)
  BY <1>3 DEF Archive
<1>6. (Bridge(r, s, rec) => Bridge(c, s, rec)) /\ (Correct(r, s, rec) => Correct(c, s, rec))
  BY <1>3 DEF Bridge, Correct
<1> QED
  BY <1>2, <1>3, <1>4, <1>5, <1>6 DEF Fits

(* A store that takes the insertion from step pc to next.                        *)
PutFlow(t, pc, slot, next) ==
  LET r == reader[t]  old == streamHash[SlotOf(r.stream)] IN
  \/ pc = "putArchive" /\ next = "putSource" /\ slot = [old EXCEPT !.archive = r.archive]
  \/ pc = "putSource" /\ next = "putKey" /\ slot = [old EXCEPT !.source = On(t).source]
  \/ /\ pc = "putKey" /\ next = IF r.opening THEN "install" ELSE "serve"
     /\ slot = [old EXCEPT !.key = r.stream]

LEMMA PutKeeps ==
  ASSUME Inv, UNCHANGED conditions, NEW t \in Threads, NEW pc, NEW slot, NEW next,
         PutFlow(t, pc, slot, next), PutStep(t, pc, slot, next)
  PROVE  Inv'
<1>1. PICK r : r = reader[t]
  OBVIOUS
<1>2. PICK z : z = SlotOf(r.stream)
  OBVIOUS
<1>3. PICK s : s = On(t)
  OBVIOUS
<1>4. /\ r.pc = pc /\ pc \in Puts /\ r.pc # "idle"
  BY <1>1 DEF PutStep, PutFlow, Puts
<1>5. /\ r.stream \in Addresses /\ Fits(t, r, s, recorded) /\ r \in Reader
      /\ s.source \in Sources /\ s = stream[r.stream]
  BY <1>1, <1>3, <1>4, Mine
<1>6. /\ Phase(t, r, s) /\ r.archive = s.source /\ r.bridge = << >>
  BY <1>4, <1>5 DEF Fits, Archive, Bridge, Puts
<1>7. PICK b \in BOOLEAN : b <=> r.raced \/ Disturbed(t, z)
  OBVIOUS
<1>8. PICK done \in BOOLEAN : done <=> next \in {"serve", "install"}
  OBVIOUS
<1>9. /\ done <=> pc = "putKey"
      /\ next \in {"putSource", "putKey", "serve", "install"}
      /\ next = "install" <=> done /\ r.opening
      /\ next = "putSource" <=> pc = "putArchive"
      /\ next = "putKey" <=> pc = "putSource"
  BY <1>1, <1>8 DEF PutFlow
<1>10. PICK c : c = [r EXCEPT !.pc = next, !.raced = b /\ ~done]
  OBVIOUS
<1>11. /\ streamHash' = [streamHash EXCEPT ![z] = slot]
       /\ torn' = IF ~done THEN torn ELSE IF b THEN torn \cup {z} ELSE torn \ {z}
       /\ UNCHANGED <<stream, overrideVars, cacheVars, sourceHash, frozen, phaseVars>>
  BY <1>1, <1>2, <1>7, <1>8 DEF PutStep
<1>12. reader'[t] = c
  BY <1>1, <1>2, <1>7, <1>8, <1>10 DEF PutStep
<1>13. ASSUME NEW u \in Threads, u # t
       PROVE  /\ reader'[u] = [reader[u] EXCEPT !.raced = @ \/ (Putting(u, z) \/ Looking(u, z))]
              /\ reader[u] \in Reader
  <2>1. reader'[u] = [reader[u] EXCEPT !.raced = @ \/ Putting(u, z) \/ Looking(u, z)]
    BY <1>1, <1>2, <1>13 DEF PutStep
  <2>2. reader[u] \in Reader
    BY DEF Inv, ReadersInv
  <2> QED
    BY <2>1, <2>2
<1>14. Fits(t, c, s, recorded) /\ c.stream = r.stream /\ c.pc = next /\ c.archive = r.archive
       /\ (c.raced <=> b /\ ~done)
  <2>1. c \in Reader
    <3>1. PICK w \in BOOLEAN : w = (b /\ ~done)
      OBVIOUS
    <3>2. next \in Puts \cup Serves \cup {"install"}
      BY <1>9 DEF Puts, Serves
    <3>3. c = [r EXCEPT !.pc = next, !.raced = w]
      BY <1>10, <3>1
    <3>4. PICK q : q = [r EXCEPT !.pc = next]
      OBVIOUS
    <3>5. q \in Reader
      BY <1>5, <3>2, <3>4 DEF Reader
    <3>6. c = [q EXCEPT !.raced = w]
      BY <1>5, <3>3, <3>4 DEF Reader
    <3>7. CASE w = TRUE
      BY <3>5, <3>6, <3>7 DEF Reader
    <3>8. CASE w = FALSE
      BY <3>5, <3>6, <3>8 DEF Reader
    <3> QED
      BY <3>1, <3>7, <3>8
  <2>2. /\ c.stream = r.stream /\ c.pc = next /\ (c.raced <=> b /\ ~done)
        /\ c.archive = r.archive /\ c.opening = r.opening /\ c.from = r.from
        /\ c.bridge = r.bridge
    BY <1>5, <1>10 DEF Reader
  <2>3. Phase(t, c, s)
    BY <1>4, <1>6, <1>9, <2>2 DEF Phase, Puts, Looks, Serves
  <2>4. Archive(c, s) /\ Bridge(c, s, recorded)
    BY <1>6, <1>9, <2>2 DEF Archive, Bridge, Looks, Finds
  <2> QED
    BY <1>9, <2>1, <2>2, <2>3, <2>4 DEF Fits
<1>15. ReadersInv'
  <2>1. ASSUME NEW u \in Threads
        PROVE  Fits(u, reader'[u], stream[reader'[u].stream], recorded)
    <3>1. CASE u = t
      BY <1>3, <1>5, <1>12, <1>14, <3>1
    <3>2. CASE u # t
      <4>1. PICK d \in BOOLEAN : d <=> Putting(u, z) \/ Looking(u, z)
        OBVIOUS
      <4>2. reader'[u] = [reader[u] EXCEPT !.raced = @ \/ d]
        BY <1>13, <3>2, <4>1
      <4>3. Fits(u, reader[u], stream[reader[u].stream], recorded)
        BY DEF Inv, ReadersInv
      <4> QED
        BY <4>2, <4>3, RacedFits
    <3> QED
      BY <3>1, <3>2
  <2>2. reader' \in [Threads -> Reader]
    <3>1. \A u \in Threads : reader'[u] \in Reader
      BY <2>1 DEF Fits
    <3> QED
      BY <3>1 DEF PutStep
  <2> QED
    BY <1>11, <2>1, <2>2 DEF ReadersInv, cacheVars
<1>16. StreamsSound' /\ OverridesInv'
  BY <1>11 DEF StreamsSound, OverridesInv, OverridesMatch, Inv, overrideVars
<1>17. CacheInv' /\ PhasesInv'
  BY <1>11, CacheLeft, PhasesLeft
<1>18. z \in Slots /\ slot \in Slot /\ Slots' = Slots /\ \A x : SlotOf(x)' = SlotOf(x)
  <2>1. z \in Slots /\ Slots' = Slots /\ \A x : SlotOf(x)' = SlotOf(x)
    BY <1>2, <1>5 DEF SlotOf, Slots
  <2>2. streamHash[z] \in Slot
    BY <2>1 DEF Inv, SlotsInv
  <2>3. slot \in Slot
    BY <1>1, <1>2, <1>3, <1>5, <2>2 DEF PutFlow, Slot, Reader
  <2> QED
    BY <2>1, <2>3
<1>19. ASSUME NEW u \in Threads, NEW y \in Slots
       PROVE  /\ u # t => (Putting(u, y)' <=> Putting(u, y))
              /\ Putting(t, y)' <=> ~done /\ y = z
              /\ Putting(t, y) => y = z
  <2>1. u # t => reader'[u].pc = reader[u].pc /\ reader'[u].stream = reader[u].stream
    BY <1>13 DEF Reader
  <2>2. next \in {"putSource", "putKey"} <=> ~done
    BY <1>8, <1>9
  <2> QED
    BY <1>1, <1>2, <1>12, <1>14, <1>18, <2>1, <2>2 DEF Putting
<1>20. SlotsMatch'
  <2> SUFFICES ASSUME NEW y \in Slots, y \notin torn', \A u \in Threads : ~Putting(u, y)'
               PROVE  streamHash'[y].archive = streamHash'[y].source
    BY <1>18 DEF SlotsMatch
  <2>1. CASE y # z
    <3>1. y \notin torn
      BY <1>11, <2>1
    <3>2. \A u \in Threads : ~Putting(u, y)
      BY <1>19, <2>1
    <3>3. streamHash'[y] = streamHash[y]
      BY <1>11, <2>1 DEF Inv, SlotsInv
    <3> QED
      BY <3>1, <3>2, <3>3 DEF Inv, SlotsInv, SlotsMatch
  <2>2. CASE y = z
    <3>1. done /\ ~b
      BY <1>11, <1>19, <2>2
    <3>2. streamHash[z].archive = streamHash[z].source
      BY <1>1, <1>2, <1>4, <1>7, <1>9, <3>1 DEF Inv, SlotsInv, Knows
    <3>3. slot = [streamHash[z] EXCEPT !.key = r.stream]
      BY <1>1, <1>2, <1>9, <3>1 DEF PutFlow
    <3>4. streamHash[z] \in Slot /\ streamHash'[z] = slot
      BY <1>11, <1>18 DEF Inv, SlotsInv
    <3>5. slot.archive = streamHash[z].archive /\ slot.source = streamHash[z].source
      BY <3>3, <3>4 DEF Slot
    <3> QED
      BY <2>2, <3>2, <3>4, <3>5
  <2> QED
    BY <2>1, <2>2
<1>21. Alone'
  <2> SUFFICES ASSUME NEW u \in Threads, NEW v \in Threads, NEW y \in Slots, u # v,
                      Putting(u, y)', Putting(v, y)'
               PROVE  reader'[u].raced
    BY <1>18 DEF Alone
  <2>1. CASE u = t
    <3>1. y = z /\ ~done /\ Putting(v, z)
      BY <1>19, <2>1
    <3>2. b
      BY <1>7, <2>1, <3>1 DEF Disturbed
    <3> QED
      BY <1>12, <1>14, <2>1, <3>1, <3>2
  <2>2. CASE u # t /\ v = t
    <3>1. Putting(u, z)
      BY <1>19, <2>2
    <3>2. reader'[u].raced
      BY <1>13, <2>2, <3>1 DEF Reader
    <3> QED
      BY <3>2
  <2>3. CASE u # t /\ v # t
    <3>1. reader[u].raced
      BY <1>19, <2>3 DEF Inv, SlotsInv, Alone
    <3> QED
      BY <1>13, <2>3, <3>1 DEF Reader
  <2> QED
    BY <2>1, <2>2, <2>3
<1>22. ASSUME NEW u \in Threads
       PROVE  Knows(reader'[u], stream[reader'[u].stream], streamHash'[SlotOf(reader'[u].stream)])
  <2>1. CASE u = t
    <3>1. streamHash'[SlotOf(c.stream)] = slot
      BY <1>2, <1>11, <1>14, <1>18 DEF Inv, SlotsInv
    <3>2. streamHash[z] \in Slot
      BY <1>18 DEF Inv, SlotsInv
    <3>3. next = "putSource" => slot.archive = c.archive
      BY <1>1, <1>2, <1>9, <1>14, <3>2 DEF PutFlow, Slot
    <3>4. next = "putKey" /\ ~c.raced => slot.archive = slot.source
      <4> SUFFICES ASSUME next = "putKey", ~c.raced PROVE slot.archive = slot.source
        OBVIOUS
      <4>1. pc = "putSource" /\ ~r.raced
        BY <1>7, <1>8, <1>9, <1>14
      <4>2. streamHash[z].archive = r.archive
        BY <1>1, <1>2, <1>4, <4>1 DEF Inv, SlotsInv, Knows
      <4>3. slot = [streamHash[z] EXCEPT !.source = s.source]
        BY <1>1, <1>2, <1>3, <4>1 DEF PutFlow
      <4> QED
        BY <1>6, <3>2, <4>2, <4>3 DEF Slot
    <3> QED
      BY <1>9, <1>12, <1>14, <2>1, <3>1, <3>3, <3>4 DEF Knows
  <2>2. CASE u # t
    <3> SUFFICES ASSUME ~reader'[u].raced,
                        reader'[u].pc \in {"putSource", "putKey", "lookupArchive"}
                 PROVE  Knows(reader'[u], stream[reader'[u].stream],
                              streamHash'[SlotOf(reader'[u].stream)])
      BY DEF Knows
    <3>1. /\ ~reader[u].raced /\ ~Putting(u, z) /\ ~Looking(u, z)
          /\ reader'[u].pc = reader[u].pc /\ reader'[u].stream = reader[u].stream
          /\ reader'[u].archive = reader[u].archive
      BY <1>13, <2>2 DEF Reader
    <3>2. reader[u].stream \in Addresses
      BY <3>1, Mine
    <3>3. SlotOf(reader[u].stream) # z /\ SlotOf(reader[u].stream) \in Slots
      BY <3>1, <3>2 DEF Putting, Looking, SlotOf, Slots
    <3>4. streamHash'[SlotOf(reader[u].stream)] = streamHash[SlotOf(reader[u].stream)]
      BY <1>11, <3>3 DEF Inv, SlotsInv
    <3>5. Knows(reader[u], stream[reader[u].stream], streamHash[SlotOf(reader[u].stream)])
      BY DEF Inv, SlotsInv
    <3> QED
      BY <3>1, <3>4, <3>5 DEF Knows
  <2> QED
    BY <2>1, <2>2
<1>23. streamHash' \in [Slots -> Slot] /\ torn' \subseteq Slots
  BY <1>11, <1>18 DEF Inv, SlotsInv
<1>24. SlotsInv'
  BY <1>11, <1>18, <1>20, <1>21, <1>22, <1>23 DEF SlotsInv, Inv
<1> QED
  BY <1>15, <1>16, <1>17, <1>24 DEF Inv

LEMMA InsertKeeps ==
  ASSUME Inv, UNCHANGED conditions, NEW t \in Threads, StreamArchiveInsert(t)
  PROVE  Inv'
<1> DEFINE r == reader[t]
           old == streamHash[SlotOf(r.stream)]
<1>1. PICK pc, slot, next : PutFlow(t, pc, slot, next) /\ PutStep(t, pc, slot, next)
  <2>1. CASE PutStep(t, "putArchive", [old EXCEPT !.archive = r.archive], "putSource")
    <3>1. PutFlow(t, "putArchive", [old EXCEPT !.archive = r.archive], "putSource")
      BY DEF PutFlow
    <3> QED
      BY <2>1, <3>1
  <2>2. CASE PutStep(t, "putSource", [old EXCEPT !.source = On(t).source], "putKey")
    <3>1. PutFlow(t, "putSource", [old EXCEPT !.source = On(t).source], "putKey")
      BY DEF PutFlow
    <3> QED
      BY <2>2, <3>1
  <2>3. CASE PutStep(t, "putKey", [old EXCEPT !.key = r.stream],
                     IF r.opening THEN "install" ELSE "serve")
    <3>1. PutFlow(t, "putKey", [old EXCEPT !.key = r.stream],
                  IF r.opening THEN "install" ELSE "serve")
      BY DEF PutFlow
    <3> QED
      BY <2>3, <3>1
  <2> QED
    BY <2>1, <2>2, <2>3 DEF StreamArchiveInsert
<1> QED
  BY <1>1, PutKeeps

-----------------------------------------------------------------------------
(* Reads.                                                                    *)

LEMMA FrameCalm ==
  Inv /\ Frame /\ UNCHANGED <<conditions, cacheVars>> => Local /\ PhasesInv'
BY PhasesLeft DEF Frame, Local, tableVars, phaseVars

LEMMA BeginKeeps ==
  ASSUME Inv, UNCHANGED conditions, NEW t \in Threads, BeginRead(t)
  PROVE  Inv'
<1>1. PICK x \in Addresses, n \in 1 .. Size :
         /\ stream[x] # NoStream /\ stream[x].user = None
         /\ stream' = [stream EXCEPT ![x].user = t]
         /\ Goto(t, [Idle EXCEPT !.stream = x, !.toRead = n, !.from = stream[x].position,
                      !.pc = CASE stream[x].vtable = "override" -> "override"
                               [] stream[x].vtable # "override" /\ saveLoad -> "native"
                               [] OTHER -> "lookupKey"])
  BY DEF BeginRead
<1>2. PICK s : s = stream[x]
  OBVIOUS
<1>3. PICK d : d = [s EXCEPT !.user = t]
  OBVIOUS
<1>4. PICK q : q = CASE s.vtable = "override" -> "override"
                     [] s.vtable # "override" /\ saveLoad -> "native"
                     [] OTHER -> "lookupKey"
  OBVIOUS
<1>5. q \in {"override", "native", "lookupKey"} /\ (q = "override" <=> s.vtable = "override")
  BY <1>4
<1>6. PICK c : c = [Idle EXCEPT !.stream = x, !.toRead = n, !.from = s.position, !.pc = q]
  OBVIOUS
<1>7. Goto(t, c) /\ stream' = [stream EXCEPT ![x] = d]
  BY <1>1, <1>2, <1>3, <1>4, <1>6
<1>8. Sound(s) /\ s.source # None /\ s.position \in Positions
  BY <1>1, <1>2 DEF Inv, StreamsSound, Sound, Stream
<1>9. Sound(d) /\ Further(s, d) /\ d.user = t /\ d.position = s.position
  BY <1>3, <1>8 DEF Sound, Stream, Further
<1>10. n \in Positions /\ Idle \in Reader
  BY FalloutStreamsAssumption, IdleFits DEF Positions, Fits
<1>11. c \in Reader
  BY <1>5, <1>6, <1>8, <1>10 DEF Reader, Looks, Serves
<1>12. /\ c.stream = x /\ c.pc = q /\ ~c.opening /\ c.archive = None /\ c.from = s.position
       /\ c.bridge = << >>
  BY <1>6 DEF Idle
<1>13. x # None
  BY FalloutStreamsAssumption
<1>14. Fits(t, c, d, recorded)
  <2>1. Phase(t, c, d)
    BY <1>5, <1>9, <1>12, <1>13 DEF Phase, Further
  <2>2. Archive(c, d) /\ Bridge(c, d, recorded)
    BY <1>5, <1>12 DEF Archive, Bridge, Puts
  <2> QED
    BY <1>5, <1>11, <1>12, <2>1, <2>2 DEF Fits
<1>15. Local /\ PhasesInv'
  BY PhasesLeft DEF BeginRead, Local, tableVars, phaseVars
<1>16. Turns(t, x, c, d)
  BY <1>1, <1>2, <1>7, <1>9, <1>12 DEF Turns
<1>17. reader[t].pc \notin {"putSource", "putKey"}
  BY DEF BeginRead
<1>18. c.pc \notin {"putSource", "putKey", "lookupArchive"}
  BY <1>5, <1>12
<1>19. Further(stream[x], d)
  BY <1>2, <1>9
<1> QED
  BY <1>14, <1>15, <1>16, <1>17, <1>18, <1>19, Moves

LEMMA EndKeeps ==
  ASSUME Inv, UNCHANGED conditions, NEW t \in Threads, EndRead(t)
  PROVE  Inv'
BY FrameCalm, Leaves DEF EndRead

(* A read under way has not moved its stream yet.                               *)
LEMMA Reading ==
  ASSUME NEW t \in Threads, NEW r, NEW s, NEW rec, Fits(t, r, s, rec), Sound(s),
         r.pc \in {"serve", "bridge", "native"}
  PROVE  /\ r \in Reader /\ ~r.opening /\ r.from = s.position /\ s.cursor = s.position
         /\ s.vtable # "override" /\ r.stream # None /\ s.user = t
         /\ ~r.raced => r.archive \in {None, s.source}
         /\ r.pc # "native" => r.bridge = << >>
BY DEF Fits, Phase, Archive, Bridge, Sound, Serves

Took(r, p, k) == [r EXCEPT !.pc = p, !.got = k]
Ahead(s, n) == [s EXCEPT !.cursor = @ + n, !.position = @ + n]
Rightly(r, s, rec, k) ==
  ~r.raced => \/ k = Part(s.source, s.entry, r.from, r.toRead)
              \/ rec[s.source][s.entry] \notin {<< >>, Whole(s.source, s.entry)}

LEMMA GotFits ==
  ASSUME NEW t \in Threads, NEW r, NEW s, NEW rec, Fits(t, r, s, rec), Sound(s),
         r.pc \in {"serve", "native"}, NEW p \in {"capture", "done"},
         p = "capture" => r.pc = "native",
         NEW k \in Seq(Bytes), NEW n \in Nat, s.position + n \in Positions,
         Rightly(r, s, rec, k), NEW c, c = Took(r, p, k), NEW d, d = Ahead(s, n)
  PROVE  Fits(t, c, d, rec) /\ Sound(d) /\ Further(s, d) /\ c.stream = r.stream /\ c.pc = p
<1>1. /\ r \in Reader /\ ~r.opening /\ r.from = s.position /\ s.cursor = s.position
      /\ s.vtable # "override" /\ r.stream # None /\ s.user = t
      /\ ~r.raced => r.archive \in {None, s.source}
  BY Reading
<1>2. s \in Stream /\ s.source # None
  BY <1>1, FalloutStreamsAssumption DEF Sound, NoStream
<1>3. d \in Stream
  BY <1>1, <1>2 DEF Ahead, Stream
<1>4. /\ d.source = s.source /\ d.entry = s.entry /\ d.vtable = s.vtable /\ d.user = s.user
      /\ d.cursor = s.cursor + n /\ d.position = s.position + n
  BY <1>2 DEF Ahead, Stream
<1>5. c \in Reader
  BY <1>1 DEF Took, Reader, Serves
<1>6. /\ c.stream = r.stream /\ c.pc = p /\ c.raced = r.raced /\ c.archive = r.archive
      /\ c.opening = r.opening /\ c.from = r.from /\ c.bridge = r.bridge
      /\ c.got = k /\ c.toRead = r.toRead
  BY <1>1 DEF Took, Reader
<1>7. Phase(t, c, d) /\ Archive(c, d)
  BY <1>1, <1>4, <1>6 DEF Phase, Archive, Looks, Finds, Puts
<1>8. Bridge(c, d, rec)
  BY <1>4, <1>6 DEF Fits, Bridge
<1>9. Correct(c, d, rec)
  BY <1>4, <1>6 DEF Correct, Rightly
<1>10. Fits(t, c, d, rec)
  BY <1>5, <1>7, <1>8, <1>9 DEF Fits
<1>11. Sound(d) /\ Further(s, d)
  BY <1>1, <1>2, <1>3, <1>4 DEF Sound, Further
<1> QED
  BY <1>6, <1>10, <1>11

LEMMA GotKeeps ==
  ASSUME Inv, NEW t \in Threads, reader[t].pc \in {"serve", "native"},
         NEW p \in {"capture", "done"}, p = "capture" => reader[t].pc = "native",
         NEW k \in Seq(Bytes), NEW n \in Nat, On(t).position + n \in Positions,
         Rightly(reader[t], On(t), recorded, k), Goto(t, Took(reader[t], p, k)),
         Advance(reader[t].stream, n), Local, PhasesInv'
  PROVE  Inv'
<1>1. PICK r : r = reader[t]
  OBVIOUS
<1>2. PICK s : s = On(t)
  OBVIOUS
<1>3. PICK x : x = r.stream
  OBVIOUS
<1>4. x \in Addresses /\ s = stream[x] /\ Sound(s) /\ s.user = t /\ Fits(t, r, s, recorded)
  BY <1>1, <1>2, <1>3, Mine
<1>5. PICK c : c = Took(r, p, k)
  OBVIOUS
<1>6. PICK d : d = Ahead(s, n)
  OBVIOUS
<1>7. Fits(t, c, d, recorded) /\ Sound(d) /\ Further(s, d) /\ c.stream = r.stream /\ c.pc = p
  BY <1>1, <1>2, <1>4, <1>5, <1>6, GotFits
<1>8. stream' = [stream EXCEPT ![x] = d]
  BY <1>1, <1>3, <1>4, <1>6 DEF Advance, Ahead
<1>9. Turns(t, x, c, d)
  BY <1>1, <1>3, <1>4, <1>5, <1>7, <1>8 DEF Turns
<1>10. /\ Further(stream[x], d) /\ reader[t].pc \notin {"putSource", "putKey"}
       /\ c.pc \notin {"putSource", "putKey", "lookupArchive"}
  BY <1>4, <1>7
<1> QED
  BY <1>7, <1>9, <1>10, Moves

LEMMA MappedKeeps ==
  ASSUME Inv, UNCHANGED conditions, NEW t \in Threads, ServeMapped(t)
  PROVE  Inv'
<1> DEFINE r == reader[t]  s == On(t)
           k == Part(r.archive, s.entry, s.cursor, r.toRead)
<1>1. r.pc = "serve" /\ r.archive # None /\ Done(t, k) /\ Advance(r.stream, Len(k))
  BY DEF ServeMapped, Mapped
<1>2. Local /\ PhasesInv'
  BY FrameCalm DEF ServeMapped
<1>3. Fits(t, r, s, recorded) /\ Sound(s) /\ r \in Reader /\ s.entry \in Entries
  BY <1>1, Mine
<1>4. r.from = s.position /\ s.cursor = s.position /\ (~r.raced => r.archive \in {None, s.source})
  BY <1>1, <1>3, Reading
<1>5. r.archive \in Sources /\ s.cursor \in Positions /\ r.toRead \in Positions
  BY <1>1, <1>3 DEF Reader, Sound, Stream
<1>6. k \in Seq(Bytes) /\ Len(k) \in Nat /\ s.cursor + Len(k) \in Positions
  BY <1>3, <1>5, PartFacts
<1>7. Rightly(r, s, recorded, k)
  BY <1>1, <1>4 DEF Rightly
<1>8. PICK v : v = k
  OBVIOUS
<1> HIDE DEF k
<1>9. Goto(t, Took(reader[t], "done", v)) /\ Advance(reader[t].stream, Len(v))
  BY <1>1, <1>8 DEF Done, Took
<1>10. On(t).position + Len(v) \in Positions /\ v \in Seq(Bytes) /\ Len(v) \in Nat
  BY <1>4, <1>6, <1>8
<1> QED
  BY <1>1, <1>2, <1>7, <1>8, <1>9, <1>10, GotKeeps

(* What the cache holds of an entry is what its reader takes for it.             *)
LEMMA CachedRight ==
  ASSUME NEW r, NEW s, NEW rec, NEW k, s.source \in Sources, s.entry \in Entries,
         r.from = 0, r.toRead \in Positions, Len(k) <= r.toRead, k = rec[s.source][s.entry],
         k # << >>
  PROVE  \/ k = Part(s.source, s.entry, r.from, r.toRead)
         \/ rec[s.source][s.entry] \notin {<< >>, Whole(s.source, s.entry)}
<1> SUFFICES ASSUME k = Whole(s.source, s.entry)
             PROVE  k = Part(s.source, s.entry, r.from, r.toRead)
  OBVIOUS
<1>1. Len(k) = Size /\ Size \in Nat
  BY WholeFacts, FalloutStreamsAssumption
<1>2. r.toRead = Size
  BY <1>1 DEF Positions
<1> QED
  BY <1>2, PartWhole

LEMMA CachedKeeps ==
  ASSUME Inv, UNCHANGED conditions, NEW t \in Threads, ServeCached(t)
  PROVE  Inv'
<1> DEFINE r == reader[t]  s == On(t)
<1>1. /\ r.pc = "serve" /\ r.archive # None /\ s.cursor = 0
      /\ Len(Cached(t)) = Size /\ r.toRead >= Size
      /\ Done(t, Cached(t)) /\ Advance(r.stream, Size)
  BY DEF ServeCached, DirectServes, Fresh
<1>2. Local /\ PhasesInv'
  BY FrameCalm DEF ServeCached
<1>3. /\ Fits(t, r, s, recorded) /\ Sound(s) /\ r \in Reader
      /\ s.entry \in Entries /\ s.source \in Sources
  BY <1>1, Mine
<1>4. r.from = s.position /\ s.cursor = s.position /\ (~r.raced => r.archive \in {None, s.source})
  BY <1>1, <1>3, Reading
<1>5. r.archive \in Sources /\ r.toRead \in Positions
  BY <1>1, <1>3 DEF Reader
<1>6. PICK k : k = Cached(t)
  OBVIOUS
<1>7. k \in Seq(Bytes) /\ k = recorded[r.archive][s.entry]
  BY <1>3, <1>5, <1>6 DEF Cached, Inv, CacheInv
<1>8. Size \in Nat \ {0} /\ s.position + Size \in Positions
  BY <1>1, <1>4, FalloutStreamsAssumption DEF Positions
<1>9. k # << >> /\ Len(k) <= r.toRead
  BY <1>1, <1>5, <1>6, <1>8, EmptySeq DEF Positions
<1>10. Rightly(r, s, recorded, k)
  <2> SUFFICES ASSUME ~r.raced
               PROVE  \/ k = Part(s.source, s.entry, r.from, r.toRead)
                      \/ recorded[s.source][s.entry] \notin {<< >>, Whole(s.source, s.entry)}
    BY DEF Rightly
  <2>1. k = recorded[s.source][s.entry] /\ r.from = 0
    BY <1>1, <1>4, <1>7
  <2> HIDE DEF r, s
  <2> QED
    BY <1>3, <1>5, <1>9, <2>1, CachedRight
<1>11. Goto(t, Took(reader[t], "done", k))
  BY <1>1, <1>6 DEF Done, Took
<1> QED
  BY <1>1, <1>2, <1>7, <1>8, <1>10, <1>11, GotKeeps

LEMMA ServeNotKeeps ==
  ASSUME Inv, UNCHANGED conditions, NEW t \in Threads, ServeNot(t)
  PROVE  Inv'
<1>1. PICK r : r = reader[t]
  OBVIOUS
<1>2. PICK s : s = On(t)
  OBVIOUS
<1>3. /\ r.pc = "serve" /\ Goto(t, [r EXCEPT !.pc = "bridge"]) /\ OnlyReader
  BY <1>1 DEF ServeNot
<1>4. Local /\ PhasesInv' /\ UNCHANGED stream
  BY <1>3, OnlyReaderCalm
<1>5. Fits(t, r, s, recorded) /\ Sound(s) /\ r \in Reader
  BY <1>1, <1>2, <1>3, Mine
<1>6. PICK c : c = [r EXCEPT !.pc = "bridge"]
  OBVIOUS
<1>7. /\ c.stream = r.stream /\ c.pc = "bridge" /\ c.raced = r.raced /\ c.archive = r.archive
      /\ c.opening = r.opening /\ c.from = r.from /\ c.bridge = r.bridge /\ c \in Reader
  BY <1>5, <1>6 DEF Reader, Serves
<1>8. Fits(t, c, s, recorded)
  BY <1>3, <1>5, <1>7, Reading DEF Fits, Phase, Archive, Bridge, Looks, Finds, Puts
<1>9. /\ reader[t].pc # "idle" /\ reader[t].pc \notin {"putSource", "putKey"}
      /\ c.pc \notin {"putSource", "putKey", "lookupArchive"}
  BY <1>1, <1>3, <1>7
<1> QED
  BY <1>1, <1>2, <1>3, <1>4, <1>6, <1>7, <1>8, <1>9, Thinks

LEMMA BridgeKeeps ==
  ASSUME Inv, UNCHANGED conditions, NEW t \in Threads, BridgeSet(t)
  PROVE  Inv'
<1>1. PICK r : r = reader[t]
  OBVIOUS
<1>2. PICK s : s = On(t)
  OBVIOUS
<1>3. PICK b : b = IF Fresh(t) THEN Cached(t) ELSE << >>
  OBVIOUS
<1>4. /\ r.pc = "bridge" /\ Goto(t, [r EXCEPT !.pc = "native", !.bridge = b]) /\ OnlyReader
  BY <1>1, <1>3 DEF BridgeSet
<1>5. Local /\ PhasesInv' /\ UNCHANGED stream
  BY <1>4, OnlyReaderCalm
<1>6. /\ Fits(t, r, s, recorded) /\ Sound(s) /\ r \in Reader
      /\ s.entry \in Entries /\ s.source \in Sources
  BY <1>1, <1>2, <1>4, Mine
<1>7. /\ ~r.opening /\ r.from = s.position /\ s.cursor = s.position /\ s.vtable # "override"
      /\ r.stream # None /\ s.user = t /\ (~r.raced => r.archive \in {None, s.source})
  BY <1>4, <1>6, Reading
<1>8. /\ b \in Seq(Bytes)
      /\ b # << >> => /\ r.from = 0
                      /\ ~r.raced => b = recorded[s.source][s.entry]
  <2>1. CASE Fresh(t)
    <3>1. r.archive \in Sources /\ s.cursor = 0
      BY <1>1, <1>2, <1>6, <2>1 DEF Fresh, Reader
    <3>2. b = recorded[r.archive][s.entry]
      BY <1>1, <1>2, <1>3, <2>1 DEF Cached
    <3> QED
      BY <1>6, <1>7, <3>1, <3>2, FalloutStreamsAssumption DEF Inv, CacheInv
  <2>2. CASE ~Fresh(t)
    BY <1>3, <2>2, Zero
  <2> QED
    BY <2>1, <2>2
<1>9. PICK c : c = [r EXCEPT !.pc = "native", !.bridge = b]
  OBVIOUS
<1>10. /\ c.stream = r.stream /\ c.pc = "native" /\ c.raced = r.raced /\ c.archive = r.archive
       /\ c.opening = r.opening /\ c.from = r.from /\ c.bridge = b /\ c \in Reader
  BY <1>6, <1>8, <1>9 DEF Reader, Serves
<1>11. Phase(t, c, s) /\ Archive(c, s)
  BY <1>7, <1>10 DEF Phase, Archive, Looks, Finds, Puts
<1>12. Fits(t, c, s, recorded)
  BY <1>8, <1>10, <1>11 DEF Fits, Bridge
<1>13. /\ reader[t].pc # "idle" /\ reader[t].pc \notin {"putSource", "putKey"}
       /\ c.pc \notin {"putSource", "putKey", "lookupArchive"}
  BY <1>1, <1>4, <1>10
<1> QED
  BY <1>1, <1>2, <1>4, <1>5, <1>9, <1>10, <1>12, <1>13, Thinks

(* A read that fails, or the end of one that has its bytes.                      *)
Ended(r, f) == [r EXCEPT !.pc = "done", !.failed = f]
MayEnd(r, f) == ~f => r.pc \in Captures /\ ~r.failed

LEMMA DoneFits ==
  ASSUME NEW t \in Threads, NEW r, NEW s, NEW rec, Fits(t, r, s, rec),
         r.pc \in {"native", "override"} \cup Captures, NEW f \in BOOLEAN,
         MayEnd(r, f), NEW c, c = Ended(r, f)
  PROVE  Fits(t, c, s, rec) /\ c.stream = r.stream /\ c.pc = "done"
<1>1. r \in Reader /\ Phase(t, r, s) /\ Archive(r, s)
  BY DEF Fits
<1>2. /\ c.stream = r.stream /\ c.pc = "done" /\ c.raced = r.raced /\ c.archive = r.archive
      /\ c.opening = r.opening /\ c.from = r.from /\ c.failed = f
      /\ c.got = r.got /\ c.toRead = r.toRead /\ c \in Reader
  BY <1>1 DEF Ended, Reader
<1>3. ~r.opening
  BY <1>1 DEF Phase, Serves
<1>4. Phase(t, c, s) /\ Archive(c, s) /\ Bridge(c, s, rec)
  BY <1>1, <1>2, <1>3 DEF Phase, Archive, Bridge, Looks, Finds, Puts
<1>5. Correct(c, s, rec)
  BY <1>2 DEF Fits, Correct, MayEnd
<1> QED
  BY <1>2, <1>4, <1>5 DEF Fits

LEMMA NativeKeeps ==
  ASSUME Inv, UNCHANGED conditions, NEW t \in Threads, Native(t)
  PROVE  Inv'
<1>1. PICK r : r = reader[t]
  OBVIOUS
<1>2. PICK s : s = On(t)
  OBVIOUS
<1>3. PICK k : k = IF Bridged(r) THEN r.bridge ELSE Part(s.source, s.entry, s.cursor, r.toRead)
  OBVIOUS
<1>4. r.pc = "native" /\ Local /\ PhasesInv'
  BY <1>1, FrameCalm DEF Native
<1>5. /\ Fits(t, r, s, recorded) /\ Sound(s) /\ r \in Reader
      /\ s.entry \in Entries /\ s.source \in Sources
  BY <1>1, <1>2, <1>4, Mine
<1>6. /\ ~r.opening /\ r.from = s.position /\ s.cursor = s.position /\ s.vtable # "override"
      /\ r.toRead \in Positions /\ s.position \in Positions
  BY <1>4, <1>5, Reading DEF Reader, Sound, Stream
<1>7. CASE Goto(t, [r EXCEPT !.pc = "capture", !.got = k]) /\ Advance(r.stream, Len(k))
  <2>1. k \in Seq(Bytes) /\ Len(k) \in Nat /\ s.position + Len(k) \in Positions
        /\ Rightly(r, s, recorded, k)
    <3>1. CASE Bridged(r)
      <4>1. /\ k = r.bridge /\ k # << >> /\ Len(k) <= r.toRead /\ r.from = 0
            /\ ~r.raced => k = recorded[s.source][s.entry]
        BY <1>3, <1>4, <1>5, <3>1 DEF Bridged, Fits, Bridge
      <4>2. k \in Seq(Bytes) /\ Len(k) \in Nat
        BY <1>5, <4>1, LenProperties DEF Reader
      <4>3. s.position + Len(k) \in Positions
        BY <1>6, <4>1, <4>2, FalloutStreamsAssumption DEF Positions
      <4>4. ~r.raced => \/ k = Part(s.source, s.entry, r.from, r.toRead)
                        \/ recorded[s.source][s.entry] \notin {<< >>, Whole(s.source, s.entry)}
        BY <1>5, <1>6, <4>1, CachedRight
      <4> QED
        BY <4>2, <4>3, <4>4 DEF Rightly
    <3>2. CASE ~Bridged(r)
      <4>1. k = Part(s.source, s.entry, s.cursor, r.toRead)
        BY <1>3, <3>2
      <4>2. k \in Seq(Bytes) /\ Len(k) \in Nat /\ s.cursor + Len(k) \in Positions
        BY <1>5, <1>6, <4>1, PartFacts
      <4> QED
        BY <1>6, <4>1, <4>2 DEF Rightly
    <3> QED
      BY <3>1, <3>2
  <2>2. Goto(t, Took(r, "capture", k))
    BY <1>7 DEF Took
  <2>3. "capture" \in {"capture", "done"} /\ reader[t].pc = "native"
    BY <1>1, <1>4
  <2> QED
    BY <1>1, <1>2, <1>4, <1>7, <2>1, <2>2, <2>3, GotKeeps
<1>8. CASE UNCHANGED stream /\ Goto(t, [r EXCEPT !.pc = "done", !.failed = TRUE])
  <2>0. PICK f \in BOOLEAN : f
    OBVIOUS
  <2>1. PICK c : c = Ended(r, f)
    OBVIOUS
  <2>5. MayEnd(r, f)
    BY <2>0 DEF MayEnd
  <2>2. Fits(t, c, s, recorded) /\ c.stream = r.stream /\ c.pc = "done"
    BY <1>4, <1>5, <2>1, <2>5, DoneFits
  <2>3. Goto(t, c)
    BY <1>8, <2>0, <2>1 DEF Ended
  <2>4. /\ reader[t].pc # "idle" /\ reader[t].pc \notin {"putSource", "putKey"}
        /\ c.pc \notin {"putSource", "putKey", "lookupArchive"}
    BY <1>1, <1>4, <2>2
  <2> QED
    BY <1>1, <1>2, <1>4, <1>8, <2>2, <2>3, <2>4, Thinks
<1> QED
  BY <1>1, <1>2, <1>3, <1>7, <1>8 DEF Native

(* A step after the engine's read that changes the cache and moves to c.         *)
LEMMA AfterRead ==
  ASSUME Inv, UNCHANGED conditions, NEW t \in Threads, reader[t].pc \in Captures,
         NEW c, Fits(t, c, On(t), recorded), c.stream = reader[t].stream,
         c.pc \in {"append", "done"}, Goto(t, c), Frame, UNCHANGED stream,
         CacheInv', Fills(recorded, recorded')
  PROVE  Inv'
<1>1. PICK s : s = On(t)
  OBVIOUS
<1>2. PICK x : x = reader[t].stream
  OBVIOUS
<1>3. UNCHANGED <<streamHash, torn, overrideVars, sourceHash, frozen, phaseVars>>
  BY DEF Frame, tableVars
<1>4. Sound(s) /\ x \in Addresses /\ s = stream[x] /\ s.user = t
  BY <1>1, <1>2, Mine
<1>5. Fits(t, c, s, recorded')
  BY <1>1, <1>4, FitsStays
<1>6. stream' = [stream EXCEPT ![x] = s]
  BY <1>4 DEF Inv, StreamsSound
<1>7. Turns(t, x, c, s)
  BY <1>2, <1>4, <1>6 DEF Turns
<1>8. ReadersInv' /\ StreamsSound'
  BY <1>5, <1>7, Turned
<1>9. /\ reader[t].pc \notin {"putSource", "putKey"}
      /\ c.pc \notin {"putSource", "putKey", "lookupArchive"}
  OBVIOUS
<1>10. SlotsInv'
  BY <1>3, <1>7, <1>9, SlotsLeft
<1>11. OverridesInv'
  BY <1>3, <1>4, <1>7, OverridesLeft
<1>12. PhasesInv'
  BY <1>3, PhasesLeft
<1> QED
  BY <1>8, <1>10, <1>11, <1>12 DEF Inv

LEMMA ReadEnds ==
  ASSUME Inv, NEW t \in Threads, reader[t].pc \in Captures,
         NEW c, c = [reader[t] EXCEPT !.pc = "done"]
  PROVE  Fits(t, c, On(t), recorded) /\ c.stream = reader[t].stream /\ c.pc = "done"
<1>1. PICK r : r = reader[t]
  OBVIOUS
<1>2. Fits(t, r, On(t), recorded) /\ r \in Reader
  BY <1>1, Mine
<1>3. PICK f \in BOOLEAN : f = r.failed
  BY <1>2 DEF Reader
<1>4. c = Ended(r, f)
  BY <1>1, <1>2, <1>3 DEF Ended, Reader
<1>5. MayEnd(r, f)
  BY <1>1, <1>3 DEF MayEnd
<1> QED
  BY <1>1, <1>2, <1>4, <1>5, DoneFits

LEMMA TrimmedFits ==
  ASSUME Inv, accums' \in Trimmed, UNCHANGED recorded
  PROVE  CacheInv'
<1> DEFINE Accum == [entry : Entries \cup {None}, buf : Seq(Bytes)]
<1>1. NoAccum \in Accum /\ Len(NoAccum.buf) < Size
  BY FalloutStreamsAssumption, EmptySeq DEF NoAccum
<1>2. accums' \in [Addresses -> Accum] /\ \A y \in Addresses : Len(accums'[y].buf) < Size
  <2>1. CASE accums' = accums
    BY <2>1 DEF Inv, CacheInv
  <2>2. CASE \E kept : accums' = [y \in Addresses |-> IF y \in kept THEN accums[y] ELSE NoAccum]
    BY <1>1, <2>2 DEF Inv, CacheInv
  <2> QED
    BY <2>1, <2>2 DEF Trimmed
<1> QED
  BY <1>2 DEF Inv, CacheInv

LEMMA CaptureKeeps ==
  ASSUME Inv, UNCHANGED conditions, NEW t \in Threads, Capture(t)
  PROVE  Inv'
<1>1. PICK r : r = reader[t]
  OBVIOUS
<1>2. PICK s : s = On(t)
  OBVIOUS
<1>3. r.pc = "capture" /\ Frame /\ UNCHANGED stream /\ UNCHANGED recorded
  BY <1>1 DEF Capture
<1>4. Fits(t, r, s, recorded) /\ r \in Reader
  BY <1>1, <1>2, <1>3, Mine
<1>5. Fills(recorded, recorded')
  BY <1>3 DEF Fills
<1>6. CASE r.archive # None /\ Goto(t, [r EXCEPT !.pc = "append"]) /\ accums' \in Trimmed
  <2>1. CacheInv'
    BY <1>3, <1>6, TrimmedFits
  <2>2. PICK c : c = [r EXCEPT !.pc = "append"]
    OBVIOUS
  <2>3. /\ c.stream = r.stream /\ c.pc = "append" /\ c.raced = r.raced
        /\ c.archive = r.archive /\ c.opening = r.opening /\ c.from = r.from
        /\ c.bridge = r.bridge /\ c.failed = r.failed /\ c.got = r.got
        /\ c.toRead = r.toRead /\ c \in Reader
    BY <1>4, <2>2 DEF Reader, Serves
  <2>4. Phase(t, c, s) /\ Archive(c, s) /\ Bridge(c, s, recorded) /\ Correct(c, s, recorded)
    BY <1>3, <1>4, <1>6, <2>3
    DEF Fits, Phase, Archive, Bridge, Correct, Looks, Finds, Puts, Serves
  <2>5. Fits(t, c, s, recorded)
    BY <2>3, <2>4 DEF Fits
  <2> QED
    BY <1>1, <1>2, <1>3, <1>5, <1>6, <2>1, <2>2, <2>3, <2>5, AfterRead
<1>7. CASE Goto(t, [r EXCEPT !.pc = "done"]) /\ UNCHANGED accums
  <2>1. CacheInv'
    BY <1>3, <1>7 DEF Inv, CacheInv
  <2>2. PICK c : c = [r EXCEPT !.pc = "done"]
    OBVIOUS
  <2>3. Fits(t, c, s, recorded) /\ c.stream = r.stream /\ c.pc = "done"
    BY <1>1, <1>2, <1>3, <2>2, ReadEnds
  <2> QED
    BY <1>1, <1>2, <1>3, <1>5, <1>7, <2>1, <2>2, <2>3, AfterRead
<1> QED
  BY <1>1, <1>2, <1>6, <1>7 DEF Capture

LEMMA AppendKeeps ==
  ASSUME Inv, UNCHANGED conditions, NEW t \in Threads, AppendBytes(t)
  PROVE  Inv'
<1>1. PICK r : r = reader[t]
  OBVIOUS
<1>2. PICK s : s = On(t)
  OBVIOUS
<1>3. PICK x : x = r.stream
  OBVIOUS
<1>4. r.pc = "append" /\ Goto(t, [r EXCEPT !.pc = "done"]) /\ Frame /\ UNCHANGED stream
  BY <1>1 DEF AppendBytes
<1>5. /\ Fits(t, r, s, recorded) /\ r \in Reader /\ x \in Addresses
      /\ s.entry \in Entries /\ s.source \in Sources
  BY <1>1, <1>2, <1>3, <1>4, Mine
<1>6. CacheInv' /\ Fills(recorded, recorded')
  <2>1. PICK buf : buf = (IF accums[x].entry = s.entry THEN accums[x].buf ELSE << >>) \o r.got
    OBVIOUS
  <2>2. IF Len(buf) >= Size
        THEN /\ accums' = [accums EXCEPT ![x] = NoAccum]
             /\ recorded' = IF recorded[r.archive][s.entry] # << >> THEN recorded
                            ELSE [recorded EXCEPT ![r.archive][s.entry] = buf]
        ELSE /\ accums' = [accums EXCEPT ![x] = [entry |-> s.entry, buf |-> buf]]
             /\ UNCHANGED recorded
    BY <1>1, <1>2, <1>3, <2>1 DEF AppendBytes
  <2> DEFINE Accum == [entry : Entries \cup {None}, buf : Seq(Bytes)]
  <2>3. NoAccum \in Accum /\ Len(NoAccum.buf) < Size
    BY FalloutStreamsAssumption, EmptySeq DEF NoAccum
  <2>4. accums \in [Addresses -> Accum] /\ \A y \in Addresses : Len(accums[y].buf) < Size
    BY DEF Inv, CacheInv
  <2>5. buf \in Seq(Bytes) /\ Len(buf) \in Nat
    <3>1. (IF accums[x].entry = s.entry THEN accums[x].buf ELSE << >>) \in Seq(Bytes)
      BY <1>5, <2>4, Zero
    <3>2. r.got \in Seq(Bytes)
      BY <1>5 DEF Reader
    <3>3. buf \in Seq(Bytes)
      BY <2>1, <3>1, <3>2, ConcatProperties
    <3> QED
      BY <3>3, LenProperties
  <2>6. r.archive \in Sources
    BY <1>4, <1>5 DEF Fits, Archive, Reader
  <2>7. CASE Len(buf) >= Size
    <3>1. /\ accums' = [accums EXCEPT ![x] = NoAccum]
          /\ recorded' = IF recorded[r.archive][s.entry] # << >> THEN recorded
                         ELSE [recorded EXCEPT ![r.archive][s.entry] = buf]
      BY <2>2, <2>7
    <3>2. accums' \in [Addresses -> Accum] /\ \A y \in Addresses : Len(accums'[y].buf) < Size
      BY <2>3, <2>4, <3>1
    <3>3. recorded' \in [Sources -> [Entries -> Seq(Bytes)]]
      BY <1>5, <2>5, <2>6, <3>1 DEF Inv, CacheInv
    <3>4. Fills(recorded, recorded')
      BY <1>5, <2>6, <3>1 DEF Inv, CacheInv, Fills
    <3> QED
      BY <3>2, <3>3, <3>4 DEF CacheInv
  <2>8. CASE ~(Len(buf) >= Size)
    <3>1. accums' = [accums EXCEPT ![x] = [entry |-> s.entry, buf |-> buf]] /\ UNCHANGED recorded
      BY <2>2, <2>8
    <3>2. Len(buf) < Size
      BY <2>5, <2>8, FalloutStreamsAssumption
    <3>3. accums' \in [Addresses -> Accum] /\ \A y \in Addresses : Len(accums'[y].buf) < Size
      BY <1>5, <2>4, <2>5, <3>1, <3>2
    <3> QED
      BY <3>1, <3>3 DEF Inv, CacheInv, Fills
  <2> QED
    BY <2>7, <2>8
<1>7. PICK c : c = [r EXCEPT !.pc = "done"]
  OBVIOUS
<1>8. Fits(t, c, s, recorded) /\ c.stream = r.stream /\ c.pc = "done"
  BY <1>1, <1>2, <1>4, <1>7, ReadEnds
<1> QED
  BY <1>1, <1>2, <1>4, <1>6, <1>7, <1>8, AfterRead

-----------------------------------------------------------------------------
(* Streams whose vtable is replaced.                                          *)

Entry(s, x) ==
  [source |-> s.source, entry |-> s.entry, cursor |-> s.position, stream |-> x]

LEMMA Replaced ==
  ASSUME Inv, NEW x \in Addresses, stream[x].vtable = "override"
  PROVE  overrides[x] \in 1 .. Len(override) /\ override[overrides[x]] = Entry(stream[x], x)
<1>1. overrides[x] # 0 /\ override[overrides[x]] = Entry(stream[x], x)
  BY DEF Inv, OverridesInv, OverridesMatch, Entry
<1>2. overrides[x] \in 0 .. Len(override) /\ Len(override) \in Nat
  BY LenProperties DEF Inv, OverridesInv
<1> QED
  BY <1>1, <1>2

LEMMA NotedIs ==
  ASSUME Inv, NEW t \in Threads, reader[t].pc = "override"
  PROVE  LET x == reader[t].stream IN
         /\ NotedEntry(t, x) = overrides[x] /\ x \in Addresses
         /\ stream[x].vtable = "override"
<1> DEFINE x == reader[t].stream
<1>1. x \in Addresses /\ On(t) = stream[x] /\ Fits(t, reader[t], On(t), recorded)
  BY Mine
<1>2. stream[x].vtable = "override" /\ x # None
  BY <1>1 DEF Fits, Phase
<1>3. CASE last[t].stream = x /\ last[t].entry # 0 /\ override[last[t].entry].stream = x
  <2>1. last[t].entry \in 1 .. Len(override) /\ DOMAIN override = 1 .. Len(override)
    <3>1. last[t].entry \in 0 .. Len(override) /\ Len(override) \in Nat
          /\ DOMAIN override = 1 .. Len(override)
      BY LenProperties DEF Inv, OverridesInv
    <3> QED
      BY <1>3, <3>1
  <2>2. overrides[x] = last[t].entry
    BY <1>2, <1>3, <2>1 DEF Inv, OverridesInv, OverridesMatch
  <2> QED
    BY <1>1, <1>2, <1>3, <2>2 DEF NotedEntry
<1>4. CASE ~(last[t].stream = x /\ last[t].entry # 0 /\ override[last[t].entry].stream = x)
  BY <1>1, <1>2, <1>4 DEF NotedEntry
<1> QED
  BY <1>3, <1>4

Took2(r, f, k) == [r EXCEPT !.pc = "done", !.from = f, !.got = k]

LEMMA OverrideFits ==
  ASSUME NEW t \in Threads, NEW r, NEW s, NEW rec, Fits(t, r, s, rec), r.pc = "override",
         NEW f \in Positions, NEW k \in Seq(Bytes),
         k = Part(s.source, s.entry, f, r.toRead),
         NEW d, d.source = s.source, d.entry = s.entry, d.user = s.user,
         NEW c, c = Took2(r, f, k)
  PROVE  Fits(t, c, d, rec) /\ c.stream = r.stream /\ c.pc = "done"
<1>1. r \in Reader /\ Phase(t, r, s) /\ Archive(r, s) /\ ~r.opening
  BY DEF Fits, Phase
<1>2. /\ c.stream = r.stream /\ c.pc = "done" /\ c.raced = r.raced /\ c.archive = r.archive
      /\ c.opening = r.opening /\ c.from = f /\ c.got = k /\ c.toRead = r.toRead
      /\ c \in Reader
  BY <1>1 DEF Took2, Reader
<1>3. Phase(t, c, d) /\ Archive(c, d) /\ Bridge(c, d, rec)
  BY <1>1, <1>2 DEF Phase, Archive, Bridge, Looks, Finds, Puts
<1>4. Correct(c, d, rec)
  BY <1>2 DEF Correct
<1> QED
  BY <1>2, <1>3, <1>4 DEF Fits

LEMMA OverrideReadKeeps ==
  ASSUME Inv, UNCHANGED conditions, NEW t \in Threads, OverrideDoRead(t)
  PROVE  Inv'
<1>1. PICK r : r = reader[t]
  OBVIOUS
<1>2. PICK s : s = On(t)
  OBVIOUS
<1>3. PICK x : x = r.stream
  OBVIOUS
<1>4. PICK id : id = overrides[x]
  OBVIOUS
<1>5. r.pc = "override" /\ NotedEntry(t, x) = id
  BY <1>1, <1>3, <1>4, NotedIs DEF OverrideDoRead
<1>6. /\ Fits(t, r, s, recorded) /\ Sound(s) /\ r \in Reader /\ x \in Addresses /\ s = stream[x]
      /\ s.user = t /\ s.entry \in Entries /\ s.source \in Sources
  BY <1>1, <1>2, <1>3, <1>5, Mine
<1>7. s.vtable = "override" /\ r.from = s.position
  BY <1>5, <1>6 DEF Fits, Phase
<1>8. id \in 1 .. Len(override) /\ override[id] = Entry(s, x) /\ id # 0
  <2>1. id \in 1 .. Len(override) /\ override[id] = Entry(s, x)
    BY <1>4, <1>6, <1>7, Replaced
  <2> QED
    BY <2>1
<1>9. PICK k : k = Part(s.source, s.entry, s.position, r.toRead)
  OBVIOUS
<1>10. s.position \in Positions /\ r.toRead \in Positions
  BY <1>6 DEF Sound, Stream, Reader
<1>11. k \in Seq(Bytes) /\ Len(k) \in Nat /\ s.position + Len(k) \in Positions
  BY <1>6, <1>9, <1>10, PartFacts
<1>12. /\ Goto(t, [r EXCEPT !.pc = "done", !.got = k]) /\ Note(t, x, id)
       /\ override' = [override EXCEPT ![id].cursor = @ + Len(k)]
       /\ stream' = [stream EXCEPT ![x].position = @ + Len(k)]
       /\ UNCHANGED <<tableVars, overrides, phaseVars, cacheVars>>
  <2>1. /\ override[id].source = s.source /\ override[id].entry = s.entry
        /\ override[id].cursor = s.position
    BY <1>8 DEF Entry
  <2> QED
    BY <1>1, <1>3, <1>5, <1>8, <1>9, <2>1 DEF OverrideDoRead, Done
<1>13. PICK c : c = Took2(r, s.position, k)
  OBVIOUS
<1>14. Goto(t, c)
  <2>1. c = [r EXCEPT !.pc = "done", !.got = k]
    BY <1>6, <1>7, <1>13 DEF Took2, Reader
  <2> QED
    BY <1>12, <2>1
<1>15. PICK d : d = [s EXCEPT !.position = @ + Len(k)]
  OBVIOUS
<1>16. /\ d.source = s.source /\ d.entry = s.entry /\ d.user = s.user /\ d.vtable = s.vtable
       /\ d.position = s.position + Len(k) /\ d \in Stream
  BY <1>6, <1>11, <1>15 DEF Sound, Stream
<1>17. stream' = [stream EXCEPT ![x] = d]
  BY <1>6, <1>12, <1>15
<1>18. Sound(d)
  BY <1>6, <1>7, <1>16, FalloutStreamsAssumption DEF Sound
<1>19. Fits(t, c, d, recorded) /\ c.stream = r.stream /\ c.pc = "done"
  BY <1>5, <1>6, <1>9, <1>10, <1>11, <1>13, <1>16, OverrideFits
<1>20. Turns(t, x, c, d)
  BY <1>3, <1>6, <1>14, <1>17, <1>18, <1>19 DEF Turns
<1>21. CacheInv' /\ PhasesInv' /\ Fills(recorded, recorded') /\ recorded' = recorded
  BY <1>12, CacheLeft, PhasesLeft DEF tableVars, cacheVars
<1>22. ReadersInv' /\ StreamsSound'
  BY <1>19, <1>20, <1>21, Turned
<1>23. /\ reader[t].pc \notin {"putSource", "putKey"}
       /\ c.pc \notin {"putSource", "putKey", "lookupArchive"}
  BY <1>1, <1>5, <1>19
<1>24. SlotsInv'
  BY <1>12, <1>20, <1>23, SlotsLeft DEF tableVars
<1>25. OverridesInv'
  <2>1. PICK e : e = [override[id] EXCEPT !.cursor = @ + Len(k)]
    OBVIOUS
  <2>2. e = Entry(d, x)
    BY <1>8, <1>16, <2>1 DEF Entry
  <2>3. e \in Override
    BY <1>6, <1>11, <1>16, <2>2 DEF Entry, Override
  <2>4. override' = [override EXCEPT ![id] = e]
    BY <1>12, <2>1
  <2>5. override \in Seq(Override)
    BY DEF Inv, OverridesInv
  <2>6. /\ override' \in Seq(Override) /\ Len(override') = Len(override)
        /\ \A j \in 1 .. Len(override) : override'[j] = IF j = id THEN e ELSE override[j]
    BY <1>8, <2>3, <2>4, <2>5, ExceptSeq
  <2>7. /\ DOMAIN override' = 1 .. Len(override) /\ DOMAIN override = 1 .. Len(override)
        /\ Len(override) \in Nat
    BY <2>5, <2>6, LenProperties
  <2>8. ASSUME NEW y \in Addresses
        PROVE  /\ overrides'[y] # 0 <=> stream'[y].vtable = "override"
               /\ overrides'[y] # 0 => override'[overrides'[y]] = Entry(stream'[y], y)
    <3>1. overrides' = overrides
      BY <1>12
    <3>2. CASE y = x
      BY <1>4, <1>6, <1>7, <1>8, <1>16, <1>17, <2>2, <2>6, <3>1, <3>2 DEF Inv, StreamsSound
    <3>3. CASE y # x
      <4>1. stream'[y] = stream[y]
        BY <1>17, <3>3
      <4>2. overrides[y] # 0 <=> stream[y].vtable = "override"
        BY DEF Inv, OverridesInv, OverridesMatch
      <4>3. ASSUME overrides[y] # 0 PROVE override'[overrides[y]] = Entry(stream[y], y)
        <5>1. overrides[y] \in 1 .. Len(override) /\ override[overrides[y]] = Entry(stream[y], y)
          BY <4>2, <4>3, Replaced
        <5>2. overrides[y] # id
          BY <1>8, <3>3, <5>1 DEF Entry
        <5> QED
          BY <2>6, <5>1, <5>2
      <4> QED
        BY <3>1, <4>1, <4>2, <4>3
    <3> QED
      BY <3>2, <3>3
  <2>9. ASSUME NEW j \in DOMAIN override', override'[j].stream # None
        PROVE  overrides'[override'[j].stream] = j
    <3>1. override'[j].stream = override[j].stream
      BY <1>8, <2>2, <2>6, <2>7 DEF Entry
    <3> QED
      BY <1>12, <2>7, <2>9, <3>1 DEF Inv, OverridesInv, OverridesMatch
  <2>10. OverridesMatch'
    BY <2>8, <2>9 DEF OverridesMatch, Entry
  <2>11. last' \in [Threads -> [stream : Addresses \cup {None}, entry : 0 .. Len(override)]]
    BY <1>6, <1>8, <1>12, <2>7 DEF Note, Inv, OverridesInv
  <2> QED
    BY <1>12, <2>6, <2>10, <2>11 DEF OverridesInv, Inv
<1> QED
  BY <1>21, <1>22, <1>24, <1>25 DEF Inv

LEMMA OverrideReadAtKeeps ==
  ASSUME Inv, UNCHANGED conditions, NEW t \in Threads, OverrideDoReadAt(t)
  PROVE  Inv'
<1>1. PICK r : r = reader[t]
  OBVIOUS
<1>2. PICK s : s = On(t)
  OBVIOUS
<1>3. PICK x : x = r.stream
  OBVIOUS
<1>4. PICK id : id = overrides[x]
  OBVIOUS
<1>5. r.pc = "override" /\ NotedEntry(t, x) = id
  BY <1>1, <1>3, <1>4, NotedIs DEF OverrideDoReadAt
<1>6. /\ Fits(t, r, s, recorded) /\ Sound(s) /\ r \in Reader /\ x \in Addresses /\ s = stream[x]
      /\ s.user = t /\ s.entry \in Entries /\ s.source \in Sources
  BY <1>1, <1>2, <1>3, <1>5, Mine
<1>7. s.vtable = "override"
  BY <1>5, <1>6 DEF Fits, Phase
<1>8. id \in 1 .. Len(override) /\ override[id] = Entry(s, x)
  BY <1>4, <1>6, <1>7, Replaced
<1>9. PICK at \in Positions :
        Goto(t, [r EXCEPT !.pc = "done", !.from = at,
                          !.got = Part(override[id].source, override[id].entry, at, r.toRead)])
  BY <1>1, <1>3, <1>5 DEF OverrideDoReadAt, Positions
<1>10. /\ Note(t, x, id) /\ UNCHANGED stream
       /\ UNCHANGED <<tableVars, overrides, override, phaseVars, cacheVars>>
  BY <1>1, <1>3, <1>5 DEF OverrideDoReadAt
<1>11. PICK k : k = Part(s.source, s.entry, at, r.toRead)
  OBVIOUS
<1>12. k \in Seq(Bytes)
  <2>1. r.toRead \in Positions
    BY <1>6 DEF Reader
  <2> QED
    BY <1>6, <1>11, <2>1, PartFacts
<1>13. PICK c : c = Took2(r, at, k)
  OBVIOUS
<1>14. Goto(t, c)
  <2>1. override[id].source = s.source /\ override[id].entry = s.entry
    BY <1>8 DEF Entry
  <2> QED
    BY <1>9, <1>11, <1>13, <2>1 DEF Took2
<1>15. Fits(t, c, s, recorded) /\ c.stream = r.stream /\ c.pc = "done"
  BY <1>5, <1>6, <1>11, <1>12, <1>13, OverrideFits
<1>16. stream' = [stream EXCEPT ![x] = s]
  BY <1>6, <1>10 DEF Inv, StreamsSound
<1>17. Turns(t, x, c, s)
  BY <1>3, <1>6, <1>14, <1>15, <1>16 DEF Turns
<1>18. CacheInv' /\ PhasesInv' /\ Fills(recorded, recorded') /\ recorded' = recorded
  BY <1>10, CacheLeft, PhasesLeft DEF tableVars, cacheVars
<1>19. ReadersInv' /\ StreamsSound'
  BY <1>15, <1>17, <1>18, Turned
<1>20. /\ reader[t].pc \notin {"putSource", "putKey"}
       /\ c.pc \notin {"putSource", "putKey", "lookupArchive"}
  BY <1>1, <1>5, <1>15
<1>21. SlotsInv'
  BY <1>10, <1>17, <1>20, SlotsLeft DEF tableVars
<1>22. OverridesInv'
  <2>1. id \in 0 .. Len(override)
    BY <1>4, <1>6 DEF Inv, OverridesInv
  <2>2. last' \in [Threads -> [stream : Addresses \cup {None}, entry : 0 .. Len(override)]]
    BY <1>6, <1>10, <2>1 DEF Note, Inv, OverridesInv
  <2>3. OverridesMatch'
    BY <1>10 DEF OverridesMatch, Inv, OverridesInv
  <2> QED
    BY <1>10, <2>2, <2>3 DEF OverridesInv, Inv
<1> QED
  BY <1>18, <1>19, <1>21, <1>22 DEF Inv

-----------------------------------------------------------------------------
(* Streams come and go.                                                      *)

LEMMA OpenKeeps ==
  ASSUME Inv, UNCHANGED conditions, NEW t \in Threads, Open(t)
  PROVE  Inv'
<1>1. /\ reader[t].pc = "idle"
      /\ UNCHANGED <<tableVars, overrideVars, phaseVars, cacheVars>>
  BY DEF Open
<1>0. PICK x \in Addresses, p \in Sources, e \in conditions.entries,
           v \in IF conditions.async THEN {"reader", "async"} ELSE {"reader"} :
         \E left \in LeftAlone(v) :
         /\ stream[x] = NoStream
         /\ stream' = [stream EXCEPT ![x] =
              [NoStream EXCEPT !.source = p, !.entry = e, !.vtable = v,
                               !.user = IF left THEN None ELSE t]]
         /\ IF left THEN UNCHANGED reader
            ELSE Goto(t, [Idle EXCEPT !.pc = "sourceKey", !.stream = x, !.opening = TRUE])
  BY <1>1 DEF Open
<1>2. v \in {"reader", "async"}
  BY <1>0
<1>3. PICK left \in BOOLEAN :
         /\ stream[x] = NoStream /\ (v = "async" => left)
         /\ stream' = [stream EXCEPT ![x] =
              [NoStream EXCEPT !.source = p, !.entry = e, !.vtable = v,
                               !.user = IF left THEN None ELSE t]]
         /\ IF left THEN UNCHANGED reader
            ELSE Goto(t, [Idle EXCEPT !.pc = "sourceKey", !.stream = x, !.opening = TRUE])
  <2>1. saveLoad \in BOOLEAN
    BY DEF Inv, PhasesInv
  <2>2. \A left \in LeftAlone(v) : left \in BOOLEAN /\ (v = "async" => left)
    <3>1. CASE v = "async"
      BY <3>1 DEF LeftAlone
    <3>2. CASE v = "reader"
      <4>1. conditions.hook \in {"factory", "ctor"}
        BY FalloutStreamsAssumption DEF Inv, SlotsInv
      <4>2. CASE conditions.hook = "factory"
        BY <2>1, <3>2, <4>2 DEF LeftAlone
      <4>3. CASE conditions.hook = "ctor"
        BY <3>2, <4>3 DEF LeftAlone
      <4> QED
        BY <4>1, <4>2, <4>3
    <3> QED
      BY <3>1, <3>2
  <2> QED
    BY <1>0, <1>2, <2>2
<1>4. PICK d : d = [NoStream EXCEPT !.source = p, !.entry = e, !.vtable = v,
                                    !.user = IF left THEN None ELSE t]
  OBVIOUS
<1>5. e \in Entries /\ None \notin Entries \cup Sources \cup Addresses \cup Threads
  BY FalloutStreamsAssumption DEF Inv, SlotsInv
<1>6. /\ d.source = p /\ d.entry = e /\ d.vtable = v /\ d.cursor = 0 /\ d.position = 0
      /\ d.user = (IF left THEN None ELSE t)
  BY <1>4 DEF NoStream
<1>7. d \in Stream
  BY <1>4, <1>5, Zero DEF NoStream, Stream
<1>8. Sound(d)
  BY <1>5, <1>6, <1>7 DEF Sound
<1>9. PICK c : c = IF left THEN reader[t]
                   ELSE [Idle EXCEPT !.pc = "sourceKey", !.stream = x, !.opening = TRUE]
  OBVIOUS
<1>10. Goto(t, c)
  BY <1>3, <1>9 DEF Goto, Inv, ReadersInv
<1>11. c.pc # "idle" => c.stream = x
  BY <1>1, <1>9 DEF Idle
<1>12. Turns(t, x, c, d)
  BY <1>3, <1>4, <1>8, <1>10, <1>11 DEF Turns, NoStream
<1>13. Fits(t, c, d, recorded)
  <2>1. CASE left
    BY <1>1, <1>9, <2>1 DEF Fits, Inv, ReadersInv
  <2>2. CASE ~left
    <3>1. c = [Idle EXCEPT !.pc = "sourceKey", !.stream = x, !.opening = TRUE]
      BY <1>9, <2>2
    <3>2. /\ c.pc = "sourceKey" /\ c.stream = x /\ c.opening /\ c.archive = None
          /\ c.bridge = << >>
      BY <3>1 DEF Idle
    <3>3. c \in Reader
      <4>1. Idle \in Reader
        BY IdleFits DEF Fits
      <4> QED
        BY <3>1, <4>1 DEF Reader, Finds
    <3>4. Phase(t, c, d)
      BY <1>3, <1>5, <1>6, <2>2, <3>2 DEF Phase, Looks, Serves
    <3>5. Archive(c, d) /\ Bridge(c, d, recorded)
      BY <3>2 DEF Archive, Bridge, Puts
    <3> QED
      BY <3>2, <3>3, <3>4, <3>5 DEF Fits
  <2> QED
    BY <2>1, <2>2
<1>14. CacheInv' /\ PhasesInv' /\ Fills(recorded, recorded') /\ recorded' = recorded
  BY <1>1, CacheLeft, PhasesLeft DEF tableVars, cacheVars
<1>15. ReadersInv' /\ StreamsSound'
  BY <1>12, <1>13, <1>14, Turned
<1>16. /\ reader[t].pc \notin {"putSource", "putKey"}
       /\ c.pc \notin {"putSource", "putKey", "lookupArchive"}
  BY <1>1, <1>9 DEF Idle
<1>17. SlotsInv'
  BY <1>1, <1>12, <1>16, SlotsLeft DEF tableVars
<1>18. OverridesInv'
  BY <1>1, <1>3, <1>6, <1>12, OverridesLeft DEF NoStream
<1> QED
  BY <1>14, <1>15, <1>17, <1>18 DEF Inv

LEMMA InstallKeeps ==
  ASSUME Inv, UNCHANGED conditions, NEW t \in Threads, InstallStreamOverride(t)
  PROVE  Inv'
<1>1. PICK r : r = reader[t]
  OBVIOUS
<1>2. PICK s : s = On(t)
  OBVIOUS
<1>3. PICK x : x = r.stream
  OBVIOUS
<1>4. /\ r.pc = "install" /\ Goto(t, Idle)
      /\ UNCHANGED <<tableVars, last, phaseVars, cacheVars>>
  BY <1>1 DEF InstallStreamOverride
<1>5. /\ Fits(t, r, s, recorded) /\ Sound(s) /\ r \in Reader /\ x \in Addresses /\ s = stream[x]
      /\ s.user = t /\ s.entry \in Entries /\ s.source \in Sources
  BY <1>1, <1>2, <1>3, <1>4, Mine
<1>6. r.opening /\ s.vtable = "reader" /\ s.position = 0 /\ r.archive = s.source
  BY <1>4, <1>5 DEF Fits, Phase, Archive
<1>7. PICK id : id = Len(override) + 1
  OBVIOUS
<1>8. PICK e : e = [source |-> s.source, entry |-> s.entry, cursor |-> 0, stream |-> x]
  OBVIOUS
<1>9. CASE Release(x) /\ UNCHANGED <<overrides, override>>
  <2>1. Local /\ PhasesInv'
    BY <1>4, <1>9, PhasesLeft DEF Local, tableVars, overrideVars
  <2> QED
    BY <1>1, <1>3, <1>4, <1>9, <2>1, Leaves
<1>10. CASE /\ override' = Append(override, e) /\ overrides' = [overrides EXCEPT ![x] = id]
            /\ stream' = [stream EXCEPT ![x].vtable = "override", ![x].user = None]
  <2>1. PICK d : d = [s EXCEPT !.vtable = "override", !.user = None]
    OBVIOUS
  <2>2. /\ d.source = s.source /\ d.entry = s.entry /\ d.vtable = "override"
        /\ d.position = 0 /\ d \in Stream
    BY <1>5, <1>6, <2>1 DEF Sound, Stream
  <2>3. Sound(d)
    BY <1>5, <2>2, FalloutStreamsAssumption DEF Sound
  <2>4. stream' = [stream EXCEPT ![x] = d]
    BY <1>5, <1>10, <2>1 DEF Inv, StreamsSound
  <2>5. Turns(t, x, Idle, d)
    BY <1>4, <1>5, <2>3, <2>4 DEF Turns, Idle
  <2>6. CacheInv' /\ PhasesInv' /\ Fills(recorded, recorded') /\ recorded' = recorded
    BY <1>4, CacheLeft, PhasesLeft DEF tableVars, cacheVars
  <2>7. ReadersInv' /\ StreamsSound'
    BY <2>5, <2>6, IdleFits, Turned
  <2>8. /\ reader[t].pc \notin {"putSource", "putKey"}
        /\ Idle.pc \notin {"putSource", "putKey", "lookupArchive"}
    BY <1>1, <1>4 DEF Idle
  <2>9. SlotsInv'
    BY <1>4, <2>5, <2>8, SlotsLeft DEF tableVars
  <2>10. OverridesInv'
    <3>1. e \in Override /\ override \in Seq(Override)
      BY <1>5, <1>8, Zero DEF Override, Inv, OverridesInv
    <3>2. /\ override' \in Seq(Override) /\ Len(override') = Len(override) + 1
          /\ \A j \in 1 .. Len(override) : override'[j] = override[j]
          /\ override'[Len(override) + 1] = e
      BY <1>10, <3>1, AppendProperties
    <3>3. /\ Len(override) \in Nat /\ DOMAIN override = 1 .. Len(override)
          /\ DOMAIN override' = 1 .. Len(override')
      BY <3>1, <3>2, LenProperties
    <3>4. overrides[x] = 0
      BY <1>5, <1>6 DEF Inv, OverridesInv, OverridesMatch
    <3>5. id \in 1 .. Len(override') /\ id # 0 /\ override'[id] = e
          /\ id \notin 1 .. Len(override)
      BY <1>7, <3>2, <3>3
    <3>6. overrides \in [Addresses -> 0 .. Len(override)]
      BY DEF Inv, OverridesInv
    <3>7. 0 .. Len(override) \subseteq 0 .. Len(override') /\ id \in 0 .. Len(override')
      BY <1>7, <3>2, <3>3
    <3>8. overrides' \in [Addresses -> 0 .. Len(override')]
      BY <1>10, <3>6, <3>7
    <3>9. last' \in [Threads -> [stream : Addresses \cup {None}, entry : 0 .. Len(override')]]
      BY <1>4, <3>7 DEF Inv, OverridesInv
    <3>10. ASSUME NEW y \in Addresses
           PROVE  /\ overrides'[y] # 0 <=> stream'[y].vtable = "override"
                  /\ overrides'[y] # 0 => override'[overrides'[y]] = Entry(stream'[y], y)
      <4>1. CASE y = x
        <5>1. overrides'[y] = id /\ stream'[y] = d
          BY <1>5, <1>10, <2>4, <3>6, <4>1 DEF Inv, StreamsSound
        <5>2. Entry(d, x) = e
          BY <1>8, <2>2 DEF Entry
        <5> QED
          BY <2>2, <3>5, <4>1, <5>1, <5>2
      <4>2. CASE y # x
        <5>1. overrides'[y] = overrides[y] /\ stream'[y] = stream[y]
          <6>1. stream'[y] = stream[y]
            BY <2>4, <4>2 DEF Inv, StreamsSound
          <6>2. overrides'[y] = overrides[y]
            BY <1>10, <3>6, <4>2
          <6> QED
            BY <6>1, <6>2
        <5>2. overrides[y] # 0 <=> stream[y].vtable = "override"
          BY DEF Inv, OverridesInv, OverridesMatch
        <5>3. overrides[y] # 0 => /\ overrides[y] \in 1 .. Len(override)
                                  /\ override[overrides[y]] = Entry(stream[y], y)
          BY <5>2, Replaced
        <5> QED
          BY <3>2, <5>1, <5>2, <5>3
      <4> QED
        BY <4>1, <4>2
    <3>11. ASSUME NEW j \in DOMAIN override', override'[j].stream # None
           PROVE  overrides'[override'[j].stream] = j
      <4>1. CASE j \in 1 .. Len(override)
        <5>1. override'[j] = override[j] /\ overrides[override[j].stream] = j /\ j # 0
          BY <3>2, <3>3, <3>11, <4>1 DEF Inv, OverridesInv, OverridesMatch
        <5>2. override[j].stream # x
          BY <3>4, <5>1
        <5> QED
          BY <1>10, <5>1, <5>2
      <4>2. CASE j \notin 1 .. Len(override)
        <5>1. j = id
          BY <1>7, <3>2, <3>3, <4>2
        <5> QED
          BY <1>5, <1>8, <1>10, <3>5, <3>6, <5>1
      <4> QED
        BY <4>1, <4>2
    <3>12. OverridesMatch'
      BY <3>10, <3>11 DEF OverridesMatch, Entry
    <3> QED
      BY <3>2, <3>8, <3>9, <3>12 DEF OverridesInv
  <2> QED
    BY <2>6, <2>7, <2>9, <2>10 DEF Inv
<1> QED
  BY <1>1, <1>2, <1>3, <1>6, <1>7, <1>8, <1>9, <1>10 DEF InstallStreamOverride

LEMMA DtorKeeps ==
  ASSUME Inv, UNCHANGED conditions, NEW t \in Threads, NEW x \in Addresses, OverrideDtor(t, x)
  PROVE  Inv'
<1>1. /\ reader[t].pc = "idle" /\ stream[x].user = None
      /\ stream' = [stream EXCEPT ![x] = NoStream]
      /\ UNCHANGED <<tableVars, phaseVars, cacheVars, reader>>
  BY DEF OverrideDtor
<1>2. Goto(t, reader[t])
  BY <1>1 DEF Goto, Inv, ReadersInv
<1>3. Turns(t, x, reader[t], NoStream)
  BY <1>1, <1>2, NothingSound DEF Turns
<1>4. Fits(t, reader[t], NoStream, recorded)
  BY <1>1 DEF Fits, Inv, ReadersInv
<1>5. CacheInv' /\ PhasesInv' /\ Fills(recorded, recorded') /\ recorded' = recorded
  BY <1>1, CacheLeft, PhasesLeft DEF tableVars, cacheVars
<1>6. ReadersInv' /\ StreamsSound'
  BY <1>3, <1>4, <1>5, Turned
<1>7. SlotsInv'
  <2>1. reader[t].pc \notin {"putSource", "putKey", "lookupArchive"}
    BY <1>1
  <2> QED
    BY <1>1, <1>3, <2>1, SlotsLeft DEF tableVars
<1>8. OverridesInv'
  <2>1. CASE stream[x].vtable # "override"
    BY <1>3, <2>1, OverridesLeft DEF OverrideDtor, NoStream
  <2>2. CASE stream[x].vtable = "override"
    <3>1. PICK id : id = overrides[x]
      OBVIOUS
    <3>2. id \in 1 .. Len(override) /\ override[id] = Entry(stream[x], x)
      BY <2>2, <3>1, Replaced
    <3>3. /\ overrides' = [overrides EXCEPT ![x] = 0]
          /\ override' = [override EXCEPT ![id].stream = None]
          /\ last' = IF last[t].stream # x THEN last
                     ELSE [last EXCEPT ![t] = [stream |-> None, entry |-> 0]]
      BY <2>2, <3>1 DEF OverrideDtor
    <3>4. override \in Seq(Override) /\ overrides \in [Addresses -> 0 .. Len(override)]
      BY DEF Inv, OverridesInv
    <3>5. PICK e : e = [override[id] EXCEPT !.stream = None]
      OBVIOUS
    <3>6. e \in Override /\ e.stream = None
      <4>1. override[id] \in Override
        BY <3>2, <3>4, ElementOfSeq
      <4> QED
        BY <3>5, <4>1 DEF Override
    <3>7. override' = [override EXCEPT ![id] = e]
      BY <3>3, <3>5
    <3>8. /\ override' \in Seq(Override) /\ Len(override') = Len(override)
          /\ \A j \in 1 .. Len(override) : override'[j] = IF j = id THEN e ELSE override[j]
      BY <3>2, <3>4, <3>6, <3>7, ExceptSeq
    <3>9. /\ Len(override) \in Nat /\ DOMAIN override = 1 .. Len(override)
          /\ DOMAIN override' = 1 .. Len(override)
      BY <3>4, <3>8, LenProperties
    <3>10. 0 \in 0 .. Len(override)
      BY <3>9
    <3>11. overrides' \in [Addresses -> 0 .. Len(override')]
      BY <3>3, <3>4, <3>8, <3>10
    <3>12. last' \in [Threads -> [stream : Addresses \cup {None}, entry : 0 .. Len(override')]]
      BY <3>3, <3>8, <3>10 DEF Inv, OverridesInv
    <3>13. ASSUME NEW y \in Addresses
           PROVE  /\ overrides'[y] # 0 <=> stream'[y].vtable = "override"
                  /\ overrides'[y] # 0 => override'[overrides'[y]] = Entry(stream'[y], y)
      <4>1. CASE y = x
        BY <1>1, <3>3, <3>4, <4>1 DEF NoStream, Inv, StreamsSound
      <4>2. CASE y # x
        <5>1. overrides'[y] = overrides[y] /\ stream'[y] = stream[y]
          BY <1>1, <3>3, <4>2
        <5>2. overrides[y] # 0 <=> stream[y].vtable = "override"
          BY DEF Inv, OverridesInv, OverridesMatch
        <5>3. overrides[y] # 0 => /\ overrides[y] \in 1 .. Len(override)
                                  /\ override[overrides[y]] = Entry(stream[y], y)
          BY <5>2, Replaced
        <5>4. overrides[y] # 0 => overrides[y] # id
          BY <3>2, <4>2, <5>3 DEF Entry
        <5> QED
          BY <3>8, <5>1, <5>2, <5>3, <5>4
      <4> QED
        BY <4>1, <4>2
    <3>14. ASSUME NEW j \in DOMAIN override', override'[j].stream # None
           PROVE  overrides'[override'[j].stream] = j
      <4>1. j # id /\ override'[j] = override[j]
        BY <3>6, <3>8, <3>9, <3>14
      <4>2. overrides[override[j].stream] = j
        BY <3>9, <3>14, <4>1 DEF Inv, OverridesInv, OverridesMatch
      <4> QED
        BY <3>1, <3>3, <4>1, <4>2
    <3>15. OverridesMatch'
      BY <3>13, <3>14 DEF OverridesMatch, Entry
    <3> QED
      BY <3>8, <3>11, <3>12, <3>15 DEF OverridesInv
  <2> QED
    BY <2>1, <2>2
<1> QED
  BY <1>5, <1>6, <1>7, <1>8 DEF Inv

LEMMA SeekKeeps ==
  ASSUME Inv, UNCHANGED conditions, NEW x \in Addresses, Seek(x)
  PROVE  Inv'
<1>1. PICK to \in Positions :
        stream' = [stream EXCEPT ![x].cursor = to, ![x].position = to]
  BY DEF Seek, Positions
<1>2. /\ stream[x] # NoStream /\ stream[x].user = None /\ stream[x].vtable # "override"
      /\ UNCHANGED <<tableVars, overrideVars, phaseVars, cacheVars, reader>>
  BY DEF Seek
<1>3. PICK d : d = [stream[x] EXCEPT !.cursor = to, !.position = to]
  OBVIOUS
<1>4. stream' = [stream EXCEPT ![x] = d]
  BY <1>1, <1>3 DEF Inv, StreamsSound
<1>5. Sound(stream[x]) /\ stream[x].source # None
  BY <1>2 DEF Inv, StreamsSound, Sound
<1>6. Sound(d) /\ d.vtable # "override"
  BY <1>2, <1>3, <1>5 DEF Sound, Stream
<1>7. StreamsSound'
  BY <1>4, <1>6 DEF StreamsSound, Inv, Sound
<1>8. ASSUME NEW u \in Threads, reader[u].pc # "idle"
      PROVE  stream'[reader[u].stream] = stream[reader[u].stream]
  <2>1. reader[u].stream \in Addresses /\ stream[reader[u].stream].user = u
    BY <1>8, Mine
  <2>2. reader[u].stream # x
    BY <1>2, <2>1, FalloutStreamsAssumption
  <2> QED
    BY <1>4, <2>2
<1>9. ReadersInv'
  <2>1. ASSUME NEW u \in Threads
        PROVE  Fits(u, reader[u], stream'[reader[u].stream], recorded)
    BY <1>8 DEF Inv, ReadersInv, Fits
  <2> QED
    BY <1>2, <2>1 DEF Inv, ReadersInv, cacheVars
<1>10. SlotsInv'
  <2>1. Slots' = Slots /\ (\A z : SlotOf(z)' = SlotOf(z))
        /\ \A u \in Threads, z \in Slots : Putting(u, z)' <=> Putting(u, z)
    BY <1>2 DEF Slots, SlotOf, Putting
  <2>2. ASSUME NEW u \in Threads
        PROVE  Knows(reader[u], stream'[reader[u].stream], streamHash[SlotOf(reader[u].stream)])
    BY <1>8 DEF Inv, SlotsInv, Knows
  <2>3. SlotsMatch' /\ Alone'
    BY <1>2, <2>1 DEF Inv, SlotsInv, SlotsMatch, Alone, tableVars
  <2> QED
    BY <1>2, <2>1, <2>2, <2>3 DEF Inv, SlotsInv, tableVars
<1>11. OverridesInv'
  <2>1. overrides[x] = 0
    BY <1>2 DEF Inv, OverridesInv, OverridesMatch
  <2>2. ASSUME NEW y \in Addresses
        PROVE  /\ overrides[y] # 0 <=> stream'[y].vtable = "override"
               /\ overrides[y] # 0 => override[overrides[y]] = Entry(stream'[y], y)
    <3>1. CASE y = x
      BY <1>4, <1>6, <2>1, <3>1 DEF Inv, StreamsSound
    <3>2. CASE y # x
      <4>1. stream'[y] = stream[y]
        BY <1>4, <3>2
      <4> QED
        BY <4>1 DEF Inv, OverridesInv, OverridesMatch, Entry
    <3> QED
      BY <3>1, <3>2
  <2>3. OverridesMatch'
    BY <1>2, <2>2 DEF OverridesMatch, overrideVars, Entry, Inv, OverridesInv
  <2> QED
    BY <1>2, <2>3 DEF Inv, OverridesInv, overrideVars
<1>12. CacheInv' /\ PhasesInv'
  BY <1>2, CacheLeft, PhasesLeft DEF tableVars
<1> QED
  BY <1>7, <1>9, <1>10, <1>11, <1>12 DEF Inv

(* The rest of the state stands.                                              *)
LEMMA StillKeeps ==
  ASSUME Inv, PhasesInv',
         UNCHANGED <<conditions, stream, reader, streamHash, torn, overrideVars, cacheVars>>
  PROVE  Inv'
<1>1. ReadersInv' /\ StreamsSound'
  BY DEF Inv, ReadersInv, StreamsSound, cacheVars
<1>2. SlotsInv'
  <2>1. Slots' = Slots /\ (\A z : SlotOf(z)' = SlotOf(z))
        /\ \A u \in Threads, z \in Slots : Putting(u, z)' <=> Putting(u, z)
    BY DEF Slots, SlotOf, Putting
  <2>2. SlotsMatch' /\ Alone'
    BY <2>1 DEF Inv, SlotsInv, SlotsMatch, Alone
  <2> QED
    BY <2>1, <2>2 DEF Inv, SlotsInv
<1>3. OverridesInv'
  BY DEF Inv, OverridesInv, OverridesMatch, overrideVars
<1>4. CacheInv'
  BY CacheLeft
<1> QED
  BY <1>1, <1>2, <1>3, <1>4 DEF Inv

-----------------------------------------------------------------------------
LEMMA InvStep == Inv /\ [Next]_<<conditions, vars>> => Inv'
<1> SUFFICES ASSUME Inv, [Next]_<<conditions, vars>> PROVE Inv'
  OBVIOUS
<1>1. CASE UNCHANGED <<conditions, vars>>
  <2>1. UNCHANGED <<conditions, stream, reader, streamHash, torn, overrideVars, cacheVars>>
        /\ UNCHANGED <<sourceHash, frozen, phaseVars>>
    BY <1>1 DEF vars, tableVars
  <2> QED
    BY <2>1, PhasesLeft, StillKeeps
<1>2. CASE Next
  <2> USE <1>2 DEF Next
  <2>1. CASE PreLoadGame \/ PostLoadGame \/ FreezeSourceCache
    <3>1. PhasesInv'
      BY <2>1 DEF Inv, PhasesInv, PreLoadGame, PostLoadGame, FreezeSourceCache, tableVars,
                  phaseVars
    <3> QED
      BY <2>1, <3>1, StillKeeps DEF PreLoadGame, PostLoadGame, FreezeSourceCache, tableVars
  <2>2. CASE \E x \in Addresses : Seek(x)
    BY <2>2, SeekKeeps
  <2>3. ASSUME NEW t \in Threads, Open(t) \/ InstallStreamOverride(t)
        PROVE  Inv'
    BY <2>3, OpenKeeps, InstallKeeps
  <2>4. ASSUME NEW t \in Threads, HookedDoRead(t)
        PROVE  Inv'
    BY <2>4, BeginKeeps, LookupKeeps, MappedKeeps, CachedKeeps, ServeNotKeeps, BridgeKeeps,
       NativeKeeps, CaptureKeeps, AppendKeeps, EndKeeps, OverrideReadKeeps, OverrideReadAtKeeps
    DEF HookedDoRead
  <2>5. ASSUME NEW t \in Threads, SourceLookup(t) \/ ResolveSource(t) \/ SourceInsert(t)
        PROVE  Inv'
    BY <2>5, SourceLookupKeeps, ResolveSourceKeeps, SourceInsertKeeps
  <2>6. ASSUME NEW t \in Threads, StreamArchiveInsert(t)
        PROVE  Inv'
    BY <2>6, InsertKeeps
  <2>7. ASSUME NEW t \in Threads, \E x \in Addresses : OverrideDtor(t, x)
        PROVE  Inv'
    BY <2>7, DtorKeeps
  <2> QED
    BY <2>1, <2>2, <2>3, <2>4, <2>5, <2>6, <2>7 DEF Step
<1> QED
  BY <1>1, <1>2

(* The tables of the streams, the entries of replaced vtables and what each      *)
(* thread has read of them agree in every state (Hooks.cpp: StreamArchiveInsert,  *)
(* InstallStreamOverride, OverrideDtor, HookedDoRead).                           *)
THEOREM StreamsCorrect == Spec => []StreamsInv
<1>1. Init => Inv
  BY InitInv
<1>2. Inv /\ [Next]_<<conditions, vars>> => Inv'
  BY InvStep
<1>3. Inv => StreamsInv
  BY Parts
<1> QED
  BY <1>1, <1>2, <1>3, PTL DEF Spec

(* Every read of every stream delivers the bytes of its entry from where the     *)
(* game is in it, whichever of the four ways serves it (HookedDoRead,             *)
(* OverrideDoRead, OverrideDoReadAt, HookedInflate), unless its look-up raced      *)
(* with an insertion or the cache has recorded something else of the entry.       *)
THEOREM ServedRightly == Spec => []ServedRight
<1>1. Init => Inv
  BY InitInv
<1>2. Inv /\ [Next]_<<conditions, vars>> => Inv'
  BY InvStep
<1>3. Inv => ServedRight
  BY Parts
<1> QED
  BY <1>1, <1>2, <1>3, PTL DEF Spec
=============================================================================
