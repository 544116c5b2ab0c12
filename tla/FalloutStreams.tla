---------------------------- MODULE FalloutStreams -----------------------------
(***************************************************************************)
(* The archive streams of the Fallout 4 plugin (Fallout4/src/Hooks.cpp): the *)
(* tables that tell which archive a stream reads from, the streams whose      *)
(* vtable is replaced when they are created, and HookedDoRead with the        *)
(* delivery from the mapped archive or from the cache and the capture of what  *)
(* the engine decompressed.                                                *)
(*                                                                         *)
(* A source is the engine's stream of one archive and stands for it; sources   *)
(* live as long as the game.  Every archive has the same entries, at the same  *)
(* offsets and of Size bytes; an entry is stored plain or packed.  A stream is  *)
(* used by one thread at a time.                                             *)
(***************************************************************************)
EXTENDS Integers, FiniteSets, Sequences

CONSTANTS
  Threads,
  Addresses,     (* where the engine allocates streams                       *)
  Sources, Entries,
  Packed,        (* the compressed entries                                   *)
  Size,          (* bytes of an entry                                        *)
  MaxAccums,     (* kMaxAccumEntries                                         *)
  Conditions,    (* settings and surroundings behaviours run under: room and   *)
                 (* opens bound the streams that live at once and in all       *)
  None

ASSUME FalloutStreamsAssumption ==
  /\ IsFiniteSet(Addresses) /\ Packed \subseteq Entries
  /\ Size \in Nat \ {0} /\ MaxAccums \in Nat
  /\ None \notin Threads \cup Addresses \cup Sources \cup Entries
  /\ Conditions \subseteq
       [hook : {"factory", "ctor"}, mode : {0, 1}, ready : BOOLEAN,
        async : BOOLEAN, loads : BOOLEAN, shared : BOOLEAN, seeks : BOOLEAN,
        fails : BOOLEAN, entries : SUBSET Entries,
        room : Nat, opens : Nat]

VARIABLES
  conditions,       (* those of this behaviour                               *)
  stream,           (* the ReaderStream at each address                      *)
  opens,
  sourceHash,       (* of each source: no slot, a slot without an archive or  *)
                    (* with the archive                                      *)
  frozen,           (* s_cacheFrozen                                         *)
  streamHash,
  overrides,        (* the shards' maps: entry of each address, 0 for none    *)
  override,         (* ReaderStreamOverrideEntry objects; they are never freed *)
  last,             (* t_lastStream and t_lastEntry of each thread            *)
  saveLoad, gameplay,
  recorded,         (* what the cache holds of each entry                    *)
  accums,           (* s_accums                                              *)
  reader,           (* what each thread is doing                             *)
  torn              (* history: slots last written by two threads at once     *)

tableVars == <<sourceHash, frozen, streamHash, torn>>
overrideVars == <<overrides, override, last>>
phaseVars == <<saveLoad, gameplay>>
cacheVars == <<recorded, accums>>
vars == <<stream, opens, tableVars, overrideVars, phaseVars, cacheVars, reader>>

-----------------------------------------------------------------------------
(* cursor is the field CurrentRelativeOffset; position, history, is where the  *)
(* game's next read begins.                                                  *)
NoStream == [source |-> None, entry |-> None, cursor |-> 0, position |-> 0,
             vtable |-> "reader", user |-> None]
NoAccum == [entry |-> None, buf |-> << >>]
Idle == [pc |-> "idle", stream |-> None, opening |-> FALSE, resolving |-> FALSE,
         archive |-> None, toRead |-> 0, from |-> 0, bridge |-> << >>,
         got |-> << >>, failed |-> FALSE, raced |-> FALSE]

Slots == IF conditions.shared THEN {None} ELSE Addresses
SlotOf(x) == IF conditions.shared THEN None ELSE x

(* Byte i of an entry.                                                       *)
Whole(p, e) == [i \in 1 .. Size |-> <<p, e, i>>]
Part(p, e, from, n) ==
  SubSeq(Whole(p, e), from + 1, IF from + n < Size THEN from + n ELSE Size)

Init ==
  /\ conditions \in Conditions
  /\ stream = [x \in Addresses |-> NoStream] /\ opens = 0
  /\ sourceHash = [p \in Sources |-> "none"] /\ frozen = FALSE
  /\ streamHash = [s \in Slots |-> [key |-> None, source |-> None, archive |-> None]]
  /\ overrides = [x \in Addresses |-> 0] /\ override = << >>
  /\ last = [t \in Threads |-> [stream |-> None, entry |-> 0]]
  /\ saveLoad = FALSE /\ gameplay \in {FALSE, ~conditions.loads}
  /\ \E kept \in SUBSET (Sources \X (Packed \cap conditions.entries)) :
       recorded = [p \in Sources |-> [e \in Entries |->
                     IF conditions.ready /\ <<p, e>> \in kept THEN Whole(p, e) ELSE << >>]]
  /\ accums = [x \in Addresses |-> NoAccum]
  /\ reader = [t \in Threads |-> Idle] /\ torn = {}

Goto(t, r) == reader' = [reader EXCEPT ![t] = r]
On(t) == stream[reader[t].stream]
Release(x) == stream' = [stream EXCEPT ![x].user = None]
OnlyReader == UNCHANGED <<stream, opens, tableVars, overrideVars, phaseVars, cacheVars>>

-----------------------------------------------------------------------------
(* The engine around the hooks.                                              *)

PreLoadGame ==
  /\ conditions.loads /\ ~saveLoad /\ saveLoad' = TRUE
  /\ UNCHANGED <<stream, opens, tableVars, overrideVars, gameplay, cacheVars, reader>>

PostLoadGame ==
  /\ saveLoad /\ saveLoad' = FALSE /\ gameplay' = TRUE
  /\ UNCHANGED <<stream, opens, tableVars, overrideVars, cacheVars, reader>>

FreezeSourceCache ==
  /\ conditions.mode = 0 /\ ~frozen /\ frozen' = TRUE
  /\ UNCHANGED <<stream, opens, sourceHash, streamHash, torn, overrideVars,
                 phaseVars, cacheVars, reader>>

(* Streams with a replaced vtable are not sought: their cursor would not move  *)
(* with the field (Hooks.cpp:3254-3256).                                     *)
Seek(x) ==
  /\ conditions.seeks /\ stream[x] # NoStream /\ stream[x].user = None
  /\ stream[x].vtable # "override"
  /\ \E to \in 0 .. Size :
       stream' = [stream EXCEPT ![x].cursor = to, ![x].position = to]
  /\ UNCHANGED <<opens, tableVars, overrideVars, phaseVars, cacheVars, reader>>

-----------------------------------------------------------------------------
(* StreamArchiveLookup and StreamArchiveInsert.  raced says of a lookup that   *)
(* the slot was being written or had last been written by two threads at once, *)
(* and of an insertion that another one into the slot overlaps it.            *)

Putting(u, s) == reader[u].pc \in {"putSource", "putKey"} /\ SlotOf(reader[u].stream) = s
Looking(u, s) ==
  reader[u].pc \in {"lookupSource", "lookupArchive"} /\ SlotOf(reader[u].stream) = s
Disturbed(t, s) == \E u \in Threads \ {t} : Putting(u, s)

(* A miss: ask the source.                                                    *)
Missed(r) == [r EXCEPT !.pc = "sourceKey", !.resolving = TRUE, !.raced = FALSE]

LookupStep(t, pc, hit, found) ==
  LET r == reader[t]  s == SlotOf(r.stream)
      q == [r EXCEPT !.raced = @ \/ Disturbed(t, s) \/ s \in torn]
  IN
  /\ r.pc = pc /\ OnlyReader
  /\ Goto(t, IF hit THEN [q EXCEPT !.pc = found.pc, !.archive = found.archive]
             ELSE Missed(q))

(* A slip: the slot is believed although the address has been used again.      *)
StreamArchiveLookupUnchecked(t) ==
  LET r == reader[t]  slot == streamHash[SlotOf(r.stream)] IN
  \/ LookupStep(t, "lookupKey", slot.key = r.stream,
                [pc |-> "lookupArchive", archive |-> None])
  \/ LookupStep(t, "lookupArchive", slot.archive # None,
                [pc |-> "serve", archive |-> slot.archive])

StreamArchiveLookup(t) ==
  LET r == reader[t]  slot == streamHash[SlotOf(r.stream)] IN
  \/ LookupStep(t, "lookupKey", slot.key = r.stream,
                [pc |-> "lookupSource", archive |-> None])
  \/ LookupStep(t, "lookupSource", slot.source = On(t).source,
                [pc |-> "lookupArchive", archive |-> None])
  \/ LookupStep(t, "lookupArchive", slot.archive # None,
                [pc |-> "serve", archive |-> slot.archive])

PutStep(t, pc, slot, next) ==
  LET s == SlotOf(reader[t].stream)
      done == next \in {"serve", "install"}
      raced == reader[t].raced \/ Disturbed(t, s)
  IN
  /\ reader[t].pc = pc
  /\ streamHash' = [streamHash EXCEPT ![s] = slot]
  /\ reader' = [u \in Threads |->
       IF u = t THEN [reader[t] EXCEPT !.pc = next, !.raced = raced /\ ~done]
       ELSE [reader[u] EXCEPT !.raced = @ \/ Putting(u, s) \/ Looking(u, s)]]
  /\ torn' = IF ~done THEN torn ELSE IF raced THEN torn \cup {s} ELSE torn \ {s}
  /\ UNCHANGED <<stream, opens, sourceHash, frozen, overrideVars, phaseVars, cacheVars>>

StreamArchiveInsert(t) ==
  LET r == reader[t]  slot == streamHash[SlotOf(r.stream)] IN
  \/ PutStep(t, "putArchive", [slot EXCEPT !.archive = r.archive], "putSource")
  \/ PutStep(t, "putSource", [slot EXCEPT !.source = On(t).source], "putKey")
  \/ PutStep(t, "putKey", [slot EXCEPT !.key = r.stream],
             IF r.opening THEN "install" ELSE "serve")

-----------------------------------------------------------------------------
(* SourceLookup, SourceInsert and ResolveSource.  The table has few slots: an  *)
(* insertion may find none.                                                  *)

Unresolved(t) ==
  LET r == reader[t] IN
  IF r.opening THEN Goto(t, Idle) /\ Release(r.stream)
  ELSE Goto(t, [r EXCEPT !.pc = "serve"]) /\ UNCHANGED stream

(* DoRead and the factory call ResolveSource, the constructor hook does not.    *)
NotInTable(t) ==
  LET r == reader[t] IN
  CASE r.resolving -> Goto(t, [r EXCEPT !.pc = "resolve"]) /\ UNCHANGED stream
    [] ~r.resolving /\ conditions.hook = "factory" -> Goto(t, Missed(r)) /\ UNCHANGED stream
    [] OTHER -> Unresolved(t)

SourceLookup(t) ==
  LET r == reader[t]  found == sourceHash[On(t).source] IN
  /\ \/ /\ r.pc = "sourceKey"
        /\ IF found = "none" THEN NotInTable(t)
           ELSE Goto(t, [r EXCEPT !.pc = "sourceArchive"]) /\ UNCHANGED stream
     \/ /\ r.pc = "sourceArchive"
        /\ IF found = "archive"
           THEN /\ Goto(t, [r EXCEPT !.pc = "putArchive", !.archive = On(t).source])
                /\ UNCHANGED stream
           ELSE NotInTable(t)
  /\ UNCHANGED <<opens, tableVars, overrideVars, phaseVars, cacheVars>>

(* DoGetName and FindByName.                                                  *)
ResolveSource(t) ==
  LET r == reader[t] IN
  /\ r.pc = "resolve"
  /\ IF frozen THEN Unresolved(t)
     ELSE /\ \E name \in {On(t).source} \cup (IF conditions.fails THEN {None} ELSE {}) :
               Goto(t, [r EXCEPT !.pc = "sourceTake", !.archive = name])
          /\ UNCHANGED stream
  /\ UNCHANGED <<opens, tableVars, overrideVars, phaseVars, cacheVars>>

Resolved(t) ==
  IF reader[t].archive = None THEN Unresolved(t)
  ELSE Goto(t, [reader[t] EXCEPT !.pc = "putArchive"]) /\ UNCHANGED stream

SourceInsert(t) ==
  LET r == reader[t]  p == On(t).source IN
  /\ \/ /\ r.pc = "sourceTake" /\ Resolved(t) /\ UNCHANGED sourceHash
     \/ /\ r.pc = "sourceTake" /\ ~frozen /\ sourceHash[p] = "none"
        /\ sourceHash' = [sourceHash EXCEPT ![p] = "null"]
        /\ Goto(t, [r EXCEPT !.pc = "sourceStore"]) /\ UNCHANGED stream
     \/ /\ r.pc = "sourceStore" /\ Resolved(t)
        /\ sourceHash' = [sourceHash EXCEPT ![p] = IF r.archive = None THEN "null" ELSE "archive"]
  /\ UNCHANGED <<opens, frozen, streamHash, torn, overrideVars, phaseVars, cacheVars>>

-----------------------------------------------------------------------------
(* HookedFactory, HookedReaderStreamCtor and InstallStreamOverride.            *)

(* What is left to the engine: an AsyncReaderStream, a nested construction, a   *)
(* stream of the factory during a save load.                                 *)
LeftAlone(v) ==
  CASE v = "async" -> {TRUE}
    [] v = "reader" /\ conditions.hook = "factory" -> {saveLoad}
    [] v = "reader" /\ conditions.hook = "ctor" -> BOOLEAN

Open(t) ==
  /\ reader[t].pc = "idle" /\ opens < conditions.opens /\ opens' = opens + 1
  /\ Cardinality({x \in Addresses : stream[x] # NoStream}) < conditions.room
  /\ \E x \in Addresses, p \in Sources, e \in conditions.entries,
         v \in IF conditions.async THEN {"reader", "async"} ELSE {"reader"} :
       \E left \in LeftAlone(v) :
         /\ stream[x] = NoStream
         /\ stream' = [stream EXCEPT ![x] =
              [NoStream EXCEPT !.source = p, !.entry = e, !.vtable = v,
                               !.user = IF left THEN None ELSE t]]
         /\ IF left THEN UNCHANGED reader
            ELSE Goto(t, [Idle EXCEPT !.pc = "sourceKey", !.stream = x, !.opening = TRUE])
  /\ UNCHANGED <<tableVars, overrideVars, phaseVars, cacheVars>>

(* Another plugin's vtable, or an archive that has no such range, is refused.  *)
InstallStreamOverride(t) ==
  LET r == reader[t]  x == r.stream  id == Len(override) + 1
      entry == [source |-> r.archive, entry |-> On(t).entry, cursor |-> 0, stream |-> x]
  IN
  /\ r.pc = "install" /\ Goto(t, Idle)
  /\ \/ /\ On(t).entry \in Packed \/ conditions.fails
        /\ Release(x) /\ UNCHANGED <<overrides, override>>
     \/ /\ On(t).entry \notin Packed
        /\ override' = Append(override, entry)
        /\ overrides' = [overrides EXCEPT ![x] = id]
        /\ stream' = [stream EXCEPT ![x].vtable = "override", ![x].user = None]
  /\ UNCHANGED <<opens, tableVars, last, phaseVars, cacheVars>>

(* A slip: the entry keeps its back pointer.                                   *)
OverrideDtorUnmarked(t, x) ==
  /\ reader[t].pc = "idle" /\ stream[x] # NoStream /\ stream[x].user = None
  /\ stream' = [stream EXCEPT ![x] = NoStream]
  /\ IF stream[x].vtable = "override"
     THEN /\ overrides' = [overrides EXCEPT ![x] = 0]
          /\ last' = IF last[t].stream # x THEN last
                     ELSE [last EXCEPT ![t] = [stream |-> None, entry |-> 0]]
     ELSE UNCHANGED <<overrides, last>>
  /\ UNCHANGED <<override, opens, tableVars, phaseVars, cacheVars, reader>>

OverrideDtor(t, x) ==
  /\ reader[t].pc = "idle" /\ stream[x] # NoStream /\ stream[x].user = None
  /\ stream' = [stream EXCEPT ![x] = NoStream]
  /\ IF stream[x].vtable = "override"
     THEN /\ overrides' = [overrides EXCEPT ![x] = 0]
          /\ override' = [override EXCEPT ![overrides[x]].stream = None]
          /\ last' = IF last[t].stream # x THEN last
                     ELSE [last EXCEPT ![t] = [stream |-> None, entry |-> 0]]
     ELSE UNCHANGED overrideVars
  /\ UNCHANGED <<opens, tableVars, phaseVars, cacheVars, reader>>

-----------------------------------------------------------------------------
(* HookedDoRead, OverrideDoRead and OverrideDoReadAt.                          *)

(* During a save load the hooks stand aside.                                  *)
BeginRead(t) ==
  /\ reader[t].pc = "idle"
  /\ \E x \in Addresses, n \in 1 .. Size :
       /\ stream[x] # NoStream /\ stream[x].user = None
       /\ stream' = [stream EXCEPT ![x].user = t]
       /\ Goto(t, [Idle EXCEPT !.stream = x, !.toRead = n, !.from = stream[x].position,
                    !.pc = CASE stream[x].vtable = "override" -> "override"
                             [] stream[x].vtable # "override" /\ saveLoad -> "native"
                             [] OTHER -> "lookupKey"])
  /\ UNCHANGED <<opens, tableVars, overrideVars, phaseVars, cacheVars>>

Done(t, got) ==
  Goto(t, [reader[t] EXCEPT !.pc = "done", !.got = got])

(* The entry that OverrideDoRead uses, from the thread's own note or the map.   *)
NotedEntry(t, x) ==
  IF last[t].stream = x /\ last[t].entry # 0 /\ override[last[t].entry].stream = x
  THEN last[t].entry ELSE overrides[x]

Note(t, x, id) == last' = [last EXCEPT ![t] = [stream |-> x, entry |-> id]]

OverrideDoRead(t) ==
  LET r == reader[t]  x == r.stream  id == NotedEntry(t, x) IN
  /\ r.pc = "override"
  /\ IF id = 0
     THEN /\ Goto(t, [r EXCEPT !.pc = "done", !.failed = TRUE])
          /\ UNCHANGED <<stream, override, last>>
     ELSE LET entry == override[id]
              got == Part(entry.source, entry.entry, entry.cursor, r.toRead)
          IN /\ Note(t, x, id) /\ Done(t, got)
             /\ override' = [override EXCEPT ![id].cursor = @ + Len(got)]
             /\ stream' = [stream EXCEPT ![x].position = @ + Len(got)]
  /\ UNCHANGED <<opens, tableVars, overrides, phaseVars, cacheVars>>

OverrideDoReadAt(t) ==
  LET r == reader[t]  x == r.stream  id == NotedEntry(t, x) IN
  /\ r.pc = "override" /\ id # 0
  /\ \E at \in 0 .. Size :
       Goto(t, [r EXCEPT !.pc = "done", !.from = at,
                         !.got = Part(override[id].source, override[id].entry, at, r.toRead)])
  /\ Note(t, x, id)
  /\ UNCHANGED <<stream, opens, tableVars, overrides, override, phaseVars, cacheVars>>

Advance(x, n) ==
  stream' = [stream EXCEPT ![x].cursor = @ + n, ![x].position = @ + n]
Frame == UNCHANGED <<opens, tableVars, overrideVars, phaseVars>>

Mapped(t) == On(t).vtable = "reader" /\ On(t).entry \notin Packed /\ reader[t].archive # None

ServeMapped(t) ==
  LET r == reader[t]  x == r.stream
      got == Part(r.archive, On(t).entry, On(t).cursor, r.toRead)
  IN
  /\ r.pc = "serve" /\ Mapped(t)
  /\ Done(t, got) /\ Advance(x, Len(got)) /\ Frame /\ UNCHANGED cacheVars

Fresh(t) ==
  /\ On(t).entry \in Packed /\ reader[t].archive # None /\ On(t).cursor = 0
  /\ gameplay /\ ~saveLoad /\ conditions.ready
Cached(t) == recorded[reader[t].archive][On(t).entry]

DirectServes(t) ==
  /\ Fresh(t) /\ On(t).vtable = "reader"
  /\ Len(Cached(t)) = Size /\ reader[t].toRead >= Size

ServeCached(t) ==
  /\ reader[t].pc = "serve" /\ DirectServes(t)
  /\ Done(t, Cached(t)) /\ Advance(reader[t].stream, Size)
  /\ Frame /\ UNCHANGED cacheVars

(* At fails for a range outside of the archive.                                 *)
ServeNot(t) ==
  /\ reader[t].pc = "serve" /\ ~DirectServes(t) /\ (Mapped(t) => conditions.fails)
  /\ Goto(t, [reader[t] EXCEPT !.pc = "bridge"]) /\ OnlyReader

(* The inflate hook will find what the bridge holds.                           *)
BridgeSet(t) ==
  /\ reader[t].pc = "bridge" /\ OnlyReader
  /\ Goto(t, [reader[t] EXCEPT !.pc = "native",
                !.bridge = IF Fresh(t) THEN Cached(t) ELSE << >>])

(* HookedInflate takes what the bridge holds if there is room for all of it.    *)
Bridged(r) == r.bridge # << >> /\ Len(r.bridge) <= r.toRead

(* The engine's DoRead, with the inflate hook under it.                        *)
Native(t) ==
  LET r == reader[t]  x == r.stream
      got == IF Bridged(r) THEN r.bridge
             ELSE Part(On(t).source, On(t).entry, On(t).cursor, r.toRead)
  IN
  /\ r.pc = "native"
  /\ \/ Goto(t, [r EXCEPT !.pc = "capture", !.got = got]) /\ Advance(x, Len(got))
     \/ /\ conditions.fails /\ UNCHANGED stream
        /\ Goto(t, [r EXCEPT !.pc = "done", !.failed = TRUE])
  /\ Frame /\ UNCHANGED cacheVars

(* Too many accumulators: half of them go, in the code the oldest ones.         *)
Held == {x \in Addresses : accums[x] # NoAccum}
Trimmed ==
  IF Cardinality(Held) <= MaxAccums THEN {accums}
  ELSE {[x \in Addresses |-> IF x \in kept THEN accums[x] ELSE NoAccum] :
          kept \in {k \in SUBSET Held : Cardinality(k) = MaxAccums \div 2}}

(* The code counts, lists and erases accumulators before it takes their mutex;  *)
(* here that is one step, and what two threads that do so at once, or one that  *)
(* does so while another appends, may do to the container is left out.          *)
Capture(t) ==
  LET r == reader[t] IN
  /\ r.pc = "capture" /\ Frame /\ UNCHANGED <<stream, recorded>>
  /\ IF On(t).entry \in Packed /\ r.archive # None /\ gameplay /\ r.got # << >>
     THEN Goto(t, [r EXCEPT !.pc = "append"]) /\ accums' \in Trimmed
     ELSE Goto(t, [r EXCEPT !.pc = "done"]) /\ UNCHANGED accums

(* Under the mutex.  The bytes are kept by the address of the stream until      *)
(* there are enough.                                                         *)
AppendBytes(t) ==
  LET r == reader[t]  x == r.stream  e == On(t).entry
      buf == (IF accums[x].entry = e THEN accums[x].buf ELSE << >>) \o r.got
  IN
  /\ r.pc = "append" /\ Goto(t, [r EXCEPT !.pc = "done"])
  /\ IF Len(buf) >= Size
     THEN /\ accums' = [accums EXCEPT ![x] = NoAccum]
          /\ recorded' = IF recorded[r.archive][e] # << >> THEN recorded
                         ELSE [recorded EXCEPT ![r.archive][e] = buf]
     ELSE /\ accums' = [accums EXCEPT ![x] = [entry |-> e, buf |-> buf]]
          /\ UNCHANGED recorded
  /\ Frame /\ UNCHANGED stream

EndRead(t) ==
  /\ reader[t].pc = "done" /\ Release(reader[t].stream) /\ Goto(t, Idle)
  /\ Frame /\ UNCHANGED cacheVars

HookedDoRead(t) ==
  \/ BeginRead(t) \/ StreamArchiveLookup(t) \/ ServeMapped(t) \/ ServeCached(t)
  \/ ServeNot(t) \/ BridgeSet(t) \/ Native(t) \/ Capture(t) \/ AppendBytes(t)
  \/ EndRead(t) \/ OverrideDoRead(t) \/ OverrideDoReadAt(t)

Step ==
  \/ PreLoadGame \/ PostLoadGame \/ FreezeSourceCache \/ \E x \in Addresses : Seek(x)
  \/ \E t \in Threads :
       \/ Open(t) \/ InstallStreamOverride(t) \/ HookedDoRead(t)
       \/ SourceLookup(t) \/ ResolveSource(t) \/ SourceInsert(t)
       \/ StreamArchiveInsert(t) \/ \E x \in Addresses : OverrideDtor(t, x)

Next == Step /\ UNCHANGED conditions

Spec == Init /\ [][Next]_<<conditions, vars>>

-----------------------------------------------------------------------------
Positions == 0 .. Size
Bytes == Sources \X Entries \X (1 .. Size)
Looks == {"lookupKey", "lookupSource", "lookupArchive"}
Finds == {"sourceKey", "sourceArchive", "resolve"}
Puts == {"putArchive", "putSource", "putKey"}
Captures == {"capture", "append"}
Serves == {"serve", "bridge", "native"} \cup Captures

Stream ==
  [source : Sources \cup {None}, entry : Entries \cup {None}, cursor : Positions,
   position : Positions, vtable : {"reader", "async", "override"},
   user : Threads \cup {None}]
Override ==
  [source : Sources, entry : Entries, cursor : Positions,
   stream : Addresses \cup {None}]
Reader ==
  [pc : {"idle", "sourceTake", "sourceStore", "install", "override", "done"}
          \cup Looks \cup Finds \cup Puts \cup Serves,
   stream : Addresses \cup {None}, opening : BOOLEAN, resolving : BOOLEAN,
   archive : Sources \cup {None}, toRead : Positions, from : Positions,
   bridge : Seq(Bytes), got : Seq(Bytes), failed : BOOLEAN, raced : BOOLEAN]

TypeOK ==
  /\ conditions \in Conditions
  /\ stream \in [Addresses -> Stream]
  /\ sourceHash \in [Sources -> {"none", "null", "archive"}]
  /\ streamHash \in [Slots -> [key : Addresses \cup {None}, source : Sources \cup {None},
                               archive : Sources \cup {None}]]
  /\ torn \subseteq Slots /\ {frozen, saveLoad, gameplay} \subseteq BOOLEAN
  /\ override \in Seq(Override)
  /\ overrides \in [Addresses -> 0 .. Len(override)]
  /\ last \in [Threads -> [stream : Addresses \cup {None}, entry : 0 .. Len(override)]]
  /\ recorded \in [Sources -> [Entries -> Seq(Bytes)]]
  /\ accums \in [Addresses -> [entry : Entries \cup {None}, buf : Seq(Bytes)]]
  /\ \A x \in Addresses : Len(accums[x].buf) < Size
  /\ reader \in [Threads -> Reader]

(* The vtable of a stream is replaced exactly while the map has an entry for   *)
(* its address; the entry is its own and stands where the game has read to.    *)
(* No entry of a stream that was freed passes for one of a stream that lives.   *)
OverridesMatch ==
  /\ \A x \in Addresses :
       LET id == overrides[x]  s == stream[x] IN
       /\ id # 0 <=> s.vtable = "override"
       /\ id # 0 => override[id] = [source |-> s.source, entry |-> s.entry,
                                    cursor |-> s.position, stream |-> x]
  /\ \A id \in DOMAIN override :
       override[id].stream # None => overrides[override[id].stream] = id

(* A slot that is not being written, and was not by two threads at once, names  *)
(* the archive of the source it names.                                       *)
SlotsMatch ==
  \A s \in Slots :
    s \notin torn /\ (\A t \in Threads : ~Putting(t, s)) =>
      streamHash[s].archive = streamHash[s].source

(* Two threads that write a slot know that they raced; one that writes it       *)
(* alone knows what it has written, one that reads it undisturbed what it has   *)
(* found.                                                                    *)
WritersMatch ==
  /\ \A t, u \in Threads, s \in Slots :
       t # u /\ Putting(t, s) /\ Putting(u, s) => reader[t].raced
  /\ \A t \in Threads :
       LET r == reader[t]  slot == streamHash[SlotOf(r.stream)] IN
       ~r.raced =>
         /\ r.pc = "putSource" => slot.archive = r.archive
         /\ r.pc = "putKey" => slot.archive = slot.source
         /\ r.pc = "lookupArchive" => slot.source = On(t).source

StreamsMatch ==
  \A x \in Addresses : LET s == stream[x] IN
    /\ s.source = None <=> s.entry = None
    /\ s.source = None => s = NoStream
    /\ s.vtable # "override" => s.cursor = s.position

(* What a read got are the bytes of its entry, unless it failed or was          *)
(* disturbed, or the cache has recorded something else of the entry.           *)
Right(t) ==
  LET r == reader[t]  s == On(t) IN
  \/ r.failed \/ r.raced
  \/ r.got = Part(s.source, s.entry, r.from, r.toRead)
  \/ recorded[s.source][s.entry] \notin {<< >>, Whole(s.source, s.entry)}

(* A stream belongs to the thread that opens or reads it.  A read that was not  *)
(* disturbed has the archive of its stream or none, and what the bridge holds   *)
(* is what the cache has of the entry.  One that appends knows the archive it   *)
(* captures for.                                                             *)
ReadersMatch ==
  \A t \in Threads : LET r == reader[t]  s == On(t) IN
    r.pc # "idle" =>
      /\ r.stream # None /\ s.user = t
      /\ IF r.opening THEN /\ r.pc \notin {"override", "done"} \cup Looks \cup Serves
                           /\ s.vtable = "reader" /\ s.position = 0
         ELSE /\ r.pc # "install"
              /\ r.pc \notin Captures \cup {"done"} => r.from = s.position
      /\ r.pc # "done" => (r.pc = "override" <=> s.vtable = "override")
      /\ r.pc \in Looks \cup Finds => r.archive = None
      /\ r.pc \in Puts \cup {"install"} => r.archive = s.source
      /\ r.pc \in {"sourceTake", "sourceStore"} \/ ~r.raced => r.archive \in {None, s.source}
      /\ r.bridge # << >> /\ r.pc # "done" =>
           /\ r.pc \in {"native"} \cup Captures
           /\ r.pc = "native" => r.from = 0
           /\ ~r.raced => r.bridge = recorded[s.source][s.entry]
      /\ r.pc = "append" => r.archive # None
      /\ r.pc \in Captures => Right(t)

StreamsInv ==
  TypeOK /\ OverridesMatch /\ SlotsMatch /\ WritersMatch /\ StreamsMatch /\ ReadersMatch

(* A read delivers the bytes of its stream's entry from where the game is in   *)
(* it, as many as it asked for, whoever serves it: the mapped archive, the     *)
(* entry behind a replaced vtable, the cache or the engine, though addresses   *)
(* are used again and tables keep what they learned.  Not so when two streams   *)
(* share a slot and the look-up overlaps an insertion, nor for an entry of     *)
(* which the cache has recorded something else.                              *)
ServedRight == \A t \in Threads : reader[t].pc = "done" => Right(t)

(* "Persistent decompression cache - stores decompressed BA2 entry data on     *)
(* disk" (DecompCache.h:2): what is recorded of an entry is the entry.         *)
RecordedWhole ==
  \A p \in Sources, e \in Entries : recorded[p][e] \in {<< >>, Whole(p, e)}
=============================================================================
