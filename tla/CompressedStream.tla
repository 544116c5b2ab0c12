---------------------------- MODULE CompressedStream ----------------------------
(***************************************************************************)
(* The side state of CompressedArchiveStream (Skyrim/src/Hooks.cpp): the     *)
(* hooks on open, close, destructor, clone, seek and read that decide, read  *)
(* by read, between the mapped cache and the game's own decompressor, and    *)
(* that record a payload read from its first byte to its last.               *)
(*                                                                         *)
(* Once a stream is served from the cache its native decompressor stands     *)
(* still, so every byte after that must come from the cache.  Byte i of the  *)
(* payload is the number i.  All streams here are of one archive entry.      *)
(***************************************************************************)
EXTENDS Integers, Sequences, FiniteSets, FiniteSetsExt

CONSTANTS
  Streams,         (* addresses of stream objects                            *)
  Threads,         (* engine threads that call the hooks                     *)
  Size,            (* decompressed size of the entry, in bytes               *)
  MaxCursor,       (* the largest cursor a state can hold, 2^32 - 1          *)
  Scenarios,       (* how the engine uses streams, and what may fail         *)
  None

ASSUME StreamAssumption ==
  /\ IsFiniteSet(Streams) /\ IsFiniteSet(Threads)
  /\ Size \in Nat \ {0} /\ MaxCursor \in Nat /\ MaxCursor >= Size
  /\ Scenarios \subseteq
       [streams : SUBSET Streams, threads : SUBSET Threads,
        captures : (SUBSET BOOLEAN) \ {{}}, nativeFails : BOOLEAN,
        allocFails : SUBSET {"state", "clone", "identity", "publish"},
        overlapping : BOOLEAN]

(* One state object is published per stream and each thread may hold one     *)
(* that was retired since.                                                   *)
Ids == 1 .. Cardinality(Streams) + Cardinality(Threads)
Cursors == 0 .. Size
Logical == 0 .. MaxCursor
Status == {"empty", "active", "completed", "invalid"}

(* CompressedStreamState; nextCaptureOffset is Len(buffer) while active.     *)
State == [resolved : BOOLEAN, cursor : Logical, cursorKnown : BOOLEAN,
          lookedUp : BOOLEAN, cached : BOOLEAN, capture : Status,
          buffer : Seq(Cursors)]

NewState(resolved, cursor) ==
  [resolved |-> resolved, cursor |-> cursor, cursorKnown |-> TRUE,
   lookedUp |-> FALSE, cached |-> FALSE, capture |-> "empty", buffer |-> <<>>]

VARIABLES
  scenario,   (* the one of this behaviour                                   *)
  native,     (* the decompressor of a stream: its cursor, None when closed   *)
  caller,     (* position at which the engine believes each stream to be      *)
  published,  (* s_streamStateShards: the state object of a stream, or None   *)
  side,       (* what the published object of a stream holds                  *)
  mutex,      (* ioMutex of a state object: its holder, or None               *)
  call,       (* what each thread is doing                                    *)
  last,       (* the last read: first byte delivered, position it was due     *)
  learned,    (* payloads given to RecordDecompressed                         *)
  parted      (* history: the decompressor of a stream was moved, or left      *)
              (* behind, without its side state knowing                      *)

vars == <<native, caller, published, side, mutex, call, last, learned, parted>>

(* Locals of a hook: op on stream s with argument n, the identity Inspect    *)
(* returned, the state object id, its contents rec while its mutex is held,   *)
(* how the native call is followed up, whether the read is captured, and the  *)
(* state made for a clone.                                                    *)
Idle == [pc |-> "idle", op |-> None, s |-> None, n |-> 0, ident |-> FALSE,
         id |-> None, rec |-> None, mode |-> None, append |-> FALSE,
         clone |-> None]

Ops == {"read", "seek", "clone", "open", "close"}
Modes == {"bare", "unknown", "tracked"}

Calls ==
  [pc : {"idle", "find", "create", "body", "native", "retire", "wait",
         "lifecycle", "publish"},
   op : Ops \cup {None},
   s : Streams \cup {None}, n : Cursors \cup {None}, ident : BOOLEAN,
   id : Ids \cup {None}, rec : State \cup {None},
   mode : Modes \cup {None}, append : BOOLEAN,
   clone : Streams \cup {None}]

ASSUME NoneAssumption ==
  None \notin Streams \cup Threads \cup Ids \cup Logical \cup State \cup Ops \cup Modes

(* May capturing be enabled (TRUE), or disabled (FALSE); may native calls,    *)
(* cursor queries and mappings fail; which allocations may fail: a first      *)
(* "state", one for a "clone" or a new "identity", or a "publish"ed one; may   *)
(* a close overlap the calls it ends?                                        *)
Captures == scenario.captures
NativeFails == scenario.nativeFails
AllocFails == scenario.allocFails
Overlapping == scenario.overlapping

Free == Ids \ ({published[s] : s \in Streams} \cup {call[t].id : t \in Threads})
FreshId == CHOOSE i \in Free : TRUE
Whole == [i \in 1 .. Size |-> i - 1]

-----------------------------------------------------------------------------
(* Streams opened before the hooks were installed have no side state.        *)

Init ==
  /\ scenario \in Scenarios
  /\ native \in [Streams -> Cursors \cup {None}]
  /\ \A s \in Streams \ scenario.streams : native[s] = None
  /\ caller = [s \in Streams |-> IF native[s] = None THEN 0 ELSE native[s]]
  /\ published = [s \in Streams |-> None]
  /\ side = [s \in Streams |-> None]
  /\ mutex = [i \in Ids |-> None]
  /\ call = [t \in Threads |-> Idle]
  /\ last = [from |-> 0, due |-> 0]
  /\ learned = {} /\ parted = FALSE

Users(s) == {t \in Threads : s \in {call[t].s, call[t].clone}}
Lifecycle(t) == call[t].op \in {"open", "close"}

(* A stream is not used while it is opened, closed or made by a clone.       *)
Usable(s) == native[s] # None /\ \A u \in Users(s) : ~Lifecycle(u) /\ call[u].clone # s

(* The engine calls a hook: InspectCompressedStream reads the identity.      *)
Use(t) ==
  /\ call[t].pc = "idle"
  /\ \E s \in Streams, op \in {"read", "seek"}, n \in Cursors, r \in BOOLEAN :
       /\ Usable(s)
       /\ call' = [call EXCEPT ![t] = [Idle EXCEPT !.pc = "find", !.op = op,
                                         !.s = s, !.n = n, !.ident = r]]
  /\ UNCHANGED <<native, caller, published, side, mutex, last, learned>>

UseClone(t) ==
  /\ call[t].pc = "idle"
  /\ \E s, c \in scenario.streams, r \in BOOLEAN :
       /\ Usable(s)
       /\ native[c] = None /\ Users(c) = {}
       /\ call' = [call EXCEPT ![t] = [Idle EXCEPT !.pc = "find", !.op = "clone",
                                         !.s = s, !.clone = c, !.ident = r]]
  /\ UNCHANGED <<native, caller, published, side, mutex, last, learned>>

(* A close may overlap reads and seeks that have looked their state up, but    *)
(* no clone: that would have no position to be at.                           *)
UseLifecycle(t) ==
  /\ call[t].pc = "idle"
  /\ \E s \in scenario.streams :
       /\ \A u \in Users(s) :
            Overlapping /\ call[u].pc \in {"body", "native"} /\ call[u].clone = None
       /\ call' = [call EXCEPT ![t] =
            [Idle EXCEPT !.pc = "retire", !.s = s,
                         !.op = IF native[s] = None THEN "open" ELSE "close"]]
       /\ native[s] = None => Users(s) = {}
  /\ UNCHANGED <<native, caller, published, side, mutex, last, learned>>

Return(t) == call' = [call EXCEPT ![t] = Idle]

Inspected(t, r) == [Idle EXCEPT !.pc = "find", !.op = call[t].op, !.s = call[t].s,
                                !.n = call[t].n, !.clone = call[t].clone, !.ident = r]

(* QueryCompressedLogicalCursor.                                             *)
Query(s) == {native[s]} \cup (IF NativeFails THEN {None} ELSE {})

(* Faulty variant: a cursor that cannot be asked for is taken to be zero.             *)
StateAtZero(resolved, cursor) ==
  NewState(resolved, IF cursor = None THEN 0 ELSE cursor)

StateAt(resolved, cursor) ==
  IF cursor = None THEN [NewState(resolved, 0) EXCEPT !.cursorKnown = FALSE]
  ELSE NewState(resolved, cursor)

(* GetOrCreateCompressedState.  Without memory for a state the hooks make    *)
(* the native call with nothing held.                                        *)
Find(t) ==
  /\ call[t].pc = "find"
  /\ LET s == call[t].s IN
     \/ /\ published[s] # None
        /\ call' = [call EXCEPT ![t].pc = "body", ![t].id = published[s]]
     \/ /\ published[s] = None
        /\ \E q \in Query(s) :
             call' = [call EXCEPT ![t].pc = "create",
                                  ![t].rec = StateAt(call[t].ident, q)]
     \/ /\ published[s] = None /\ "state" \in AllocFails
        /\ call' = [call EXCEPT ![t].pc = "native", ![t].mode = "bare"]
  /\ UNCHANGED <<native, caller, published, side, mutex, last, learned>>

(* PublishCompressedStateIfAbsent.                                           *)
Create(t) ==
  /\ call[t].pc = "create"
  /\ LET s == call[t].s
         absent == published[s] = None
         id == IF absent THEN FreshId ELSE published[s]
     IN /\ published' = [published EXCEPT ![s] = id]
        /\ side' = IF absent THEN [side EXCEPT ![s] = call[t].rec] ELSE side
        /\ call' = [call EXCEPT ![t].pc = "body", ![t].id = id, ![t].rec = None]
  /\ UNCHANGED <<native, caller, mutex, last, learned>>

-----------------------------------------------------------------------------
(* The hooks take ioMutex and look whether the state was retired meanwhile.  *)

Locks(t) == call[t].pc = "body" /\ mutex[call[t].id] = None
Current(t) == published[call[t].s] = call[t].id

(* Calls the original with the mutex held and rec to be stored afterwards.   *)
CallNative(t, mode, rec, append) ==
  /\ call' = [call EXCEPT ![t].pc = "native", ![t].mode = mode,
                          ![t].rec = rec, ![t].append = append]
  /\ mutex' = [mutex EXCEPT ![call[t].id] = t]

Replaced(t) ==
  /\ Locks(t) /\ ~Current(t) /\ published[call[t].s] # None
  /\ \E r \in BOOLEAN : call' = [call EXCEPT ![t] = Inspected(t, r)]
  /\ UNCHANGED <<native, caller, published, side, mutex, last, learned>>

Retired(t) ==
  /\ Locks(t) /\ published[call[t].s] = None
  /\ CallNative(t, "bare", None, FALSE)
  /\ UNCHANGED <<native, caller, published, side, last, learned>>

(* TryAttachCachedEntry: suppressed or not ready, no entry, or attached.      *)
Attached(rec) ==
  IF rec.lookedUp \/ ~rec.cursorKnown \/ ~rec.resolved THEN {rec}
  ELSE {rec, [rec EXCEPT !.lookedUp = TRUE],
        [rec EXCEPT !.lookedUp = TRUE, !.cached = TRUE,
                    !.capture = "invalid", !.buffer = <<>>]}

Mismatch(t) ==
  side[call[t].s].resolved # call[t].ident /\ ~side[call[t].s].cached

(* Faulty variant: the state with the new identity starts at byte zero.               *)
UpgradeAtZero(t) ==
  /\ Locks(t) /\ Current(t) /\ call[t].op = "read" /\ Mismatch(t)
  /\ side' = [side EXCEPT ![call[t].s] = NewState(call[t].ident, 0)]
  /\ published' = [published EXCEPT ![call[t].s] = FreshId]
  /\ \E r \in BOOLEAN : call' = [call EXCEPT ![t] = Inspected(t, r)]
  /\ UNCHANGED <<native, caller, mutex, last, learned>>

(* TryReplaceCompressedState: the state gets the identity just read; the     *)
(* cursor stays, the capture does not.                                       *)
Upgrade(t) ==
  LET s == call[t].s
      old == side[s]
      Capture(q) == IF q = 0 THEN "empty" ELSE "invalid"
  IN /\ Locks(t) /\ Current(t) /\ call[t].op = "read" /\ Mismatch(t)
     /\ \E q \in IF old.cursorKnown THEN {old.cursor} ELSE Query(s) :
          side' = [side EXCEPT ![s] =
            [StateAt(call[t].ident, q) EXCEPT !.capture = Capture(q)]]
     /\ published' = [published EXCEPT ![s] = FreshId]
     /\ \E r \in BOOLEAN : call' = [call EXCEPT ![t] = Inspected(t, r)]
     /\ UNCHANGED <<native, caller, mutex, last, learned>>

UpgradeFails(t) ==
  /\ "identity" \in AllocFails
  /\ Locks(t) /\ Current(t) /\ call[t].op = "read" /\ Mismatch(t)
  /\ CallNative(t, "bare", side[call[t].s], FALSE)
  /\ UNCHANGED <<native, caller, published, side, last, learned>>

-----------------------------------------------------------------------------
(* HookedCompDoRead.                                                         *)

Reads(t) == Locks(t) /\ Current(t) /\ call[t].op = "read" /\ ~Mismatch(t)

ReadUnknown(t) ==
  /\ Reads(t) /\ ~side[call[t].s].cursorKnown
  /\ CallNative(t, "unknown", side[call[t].s], FALSE)
  /\ UNCHANGED <<native, caller, published, side, last, learned>>

(* A read that a close overtakes is not held to its position.                 *)
Ending(s) == native[s] = None \/ \E t \in Users(s) : Lifecycle(t)

Deliver(s, from, k) ==
  /\ last' = IF k = 0 \/ Ending(s) THEN last ELSE [from |-> from, due |-> caller[s]]
  /\ caller' = [caller EXCEPT ![s] = Min({@ + k, Size})]

(* Faulty variant: a copy that faults leaves the claimed bytes skipped.       *)
ReadCachedClaiming(t) ==
  LET s == call[t].s IN
  /\ Reads(t) /\ side[s].cursorKnown
  /\ \E rec \in Attached(side[s]) :
       LET k == Min({call[t].n, Size - rec.cursor}) IN
       /\ rec.cached
       /\ side' = [side EXCEPT ![s] = [rec EXCEPT !.cursor = @ + k]]
       /\ \/ Deliver(s, rec.cursor, k)
          \/ NativeFails /\ UNCHANGED <<caller, last>>
  /\ Return(t)
  /\ UNCHANGED <<native, published, mutex, learned>>

(* ServeCachedRead: ClaimRange and the copy, which rolls the cursor back     *)
(* when it faults; an unusable mapping is an error before the claim, a cursor  *)
(* behind the end an invalid claim.                                          *)
ReadCached(t) ==
  LET s == call[t].s IN
  /\ Reads(t) /\ side[s].cursorKnown
  /\ \E rec \in Attached(side[s]) :
       /\ rec.cached
       /\ \/ LET k == Min({call[t].n, Size - rec.cursor})
             IN /\ rec.cursor <= Size /\ Deliver(s, rec.cursor, k)
                /\ side' = [side EXCEPT ![s] = [rec EXCEPT !.cursor = @ + k]]
          \/ /\ NativeFails \/ rec.cursor > Size
             /\ side' = [side EXCEPT ![s] = rec]
             /\ UNCHANGED <<caller, last>>
  /\ Return(t)
  /\ UNCHANGED <<native, published, mutex, learned>>

(* A native read is captured when it starts a capture at byte zero or        *)
(* continues one; a gap ends the capture.                                    *)
Continues(rec) ==
  \/ rec.capture = "empty" /\ rec.cursor = 0
  \/ rec.capture = "active" /\ rec.cursor = Len(rec.buffer)

ReadNative(t) ==
  LET s == call[t].s IN
  /\ Reads(t) /\ side[s].cursorKnown
  /\ \E rec \in Attached(side[s]), allowed \in Captures :
       LET enabled == /\ allowed /\ rec.resolved
                      /\ rec.capture \notin {"completed", "invalid"}
           broken == enabled /\ ~Continues(rec)
       IN /\ ~rec.cached
          /\ CallNative(t, "tracked",
               IF broken THEN [rec EXCEPT !.capture = "invalid", !.buffer = <<>>]
               ELSE rec,
               enabled /\ ~broken)
  /\ UNCHANGED <<native, caller, published, side, last, learned>>

-----------------------------------------------------------------------------
(* The native call returns, the hook follows it up and unlocks.              *)

(* Faulty variant: a path that returns without unlocking.                             *)
StoresHeld(t, rec) ==
  /\ side' = IF rec # None /\ Current(t) THEN [side EXCEPT ![call[t].s] = rec]
             ELSE side
  /\ Return(t) /\ UNCHANGED mutex

Stores(t, rec) ==
  /\ side' = IF rec # None /\ Current(t) THEN [side EXCEPT ![call[t].s] = rec]
             ELSE side
  /\ mutex' = [i \in Ids |-> IF i = call[t].id THEN None ELSE mutex[i]]
  /\ Return(t)

Uncaptured(rec) == [rec EXCEPT !.capture = "invalid", !.buffer = <<>>]
Unknown(rec) == [Uncaptured(rec) EXCEPT !.cursorKnown = FALSE]
At(rec, cursor) == [rec EXCEPT !.cursor = cursor, !.cursorKnown = TRUE]

(* The cursor after a read whose result cannot be trusted: asked of the       *)
(* native stream, now at cursor c.                                           *)
Requeried(rec, c) ==
  {At(rec, c)} \cup (IF NativeFails THEN {Unknown(rec)} ELSE {})

(* AppendCapture; BeginCapture is refused when the budget is used up.         *)
Appended(rec, bytes) ==
  LET buffer == rec.buffer \o bytes IN
  {CASE Len(buffer) < Size ->
          [rec EXCEPT !.capture = "active", !.buffer = buffer]
     [] Len(buffer) = Size ->
          [rec EXCEPT !.capture = "completed", !.buffer = <<>>]
     [] OTHER -> Uncaptured(rec)}
  \cup (IF rec.capture = "empty" /\ FALSE \in Captures THEN {Uncaptured(rec)}
        ELSE {})

(* A successful read of bytes, ending at native cursor c.  Past the end of    *)
(* the entry, if that is known, or of the word it is not believed.             *)
Progressed(t, rec, bytes, c) ==
  LET moved == At(rec, rec.cursor + Len(bytes)) IN
  CASE rec.cursor + Len(bytes) > (IF rec.resolved THEN Size ELSE MaxCursor) ->
         IF call[t].append THEN {Uncaptured(r) : r \in Requeried(rec, c)}
         ELSE Requeried(rec, c)
    [] OTHER ->
         IF call[t].append /\ bytes # <<>> THEN Appended(moved, bytes)
         ELSE IF call[t].append /\ call[t].n > 0 THEN {Uncaptured(moved)}
         ELSE {moved}

(* A read that failed or returned more than asked, ending at cursor c.        *)
Failed(t, rec, c) ==
  IF call[t].append THEN {Uncaptured(r) : r \in Requeried(rec, c)}
  ELSE Requeried(rec, c)

FollowUp(t, ok, bytes, c) ==
  LET rec == call[t].rec IN
  CASE call[t].mode = "bare" -> {rec}
    [] call[t].mode = "unknown" ->
         {Uncaptured(At(rec, c))}
           \cup (IF NativeFails THEN {Uncaptured(rec)} ELSE {})
    [] call[t].mode = "tracked" ->
         IF ok THEN Progressed(t, rec, bytes, c) ELSE Failed(t, rec, c)

EndRead(t) ==
  LET s == call[t].s
      c == native[s]
      most == Min({call[t].n, Size - c})
      Bytes(k) == [i \in 1 .. k |-> c + i - 1]
  IN /\ call[t].pc = "native" /\ call[t].op = "read" /\ c # None
     /\ \E k \in 0 .. most, ok \in {TRUE, ~NativeFails} :
          /\ NativeFails \/ k = most
          /\ native' = [native EXCEPT ![s] = c + k]
          /\ IF ok THEN Deliver(s, c, k)
             ELSE /\ caller' = [caller EXCEPT ![s] = c + k]
                  /\ UNCHANGED last
          /\ \E rec \in FollowUp(t, ok, Bytes(k), c + k) :
               /\ Stores(t, rec)
               /\ learned' =
                    IF call[t].append /\ rec.capture = "completed"
                    THEN learned \cup {call[t].rec.buffer \o Bytes(k)}
                    ELSE learned
     /\ UNCHANGED published

-----------------------------------------------------------------------------
(* HookedCompDoSeek.                                                         *)

Seeks(t) == Locks(t) /\ Current(t) /\ call[t].op = "seek"

(* ResetCaptureAfterSeek.                                                    *)
Reset(rec) ==
  [rec EXCEPT !.capture = IF rec.cursor = 0 THEN "empty" ELSE "invalid",
              !.buffer = <<>>]

SeekCached(t) ==
  LET s == call[t].s
      n == call[t].n
  IN /\ Seeks(t)
     /\ \E rec \in Attached(side[s]) :
          /\ rec.cached
          /\ side' = [side EXCEPT ![s] = Reset(At(rec, n))]
          /\ caller' = [caller EXCEPT ![s] = n]
     /\ Return(t)
     /\ UNCHANGED <<native, published, mutex, last, learned>>

SeekNative(t) ==
  /\ Seeks(t)
  /\ \E rec \in Attached(side[call[t].s]) :
       ~rec.cached /\ CallNative(t, "tracked", rec, FALSE)
  /\ UNCHANGED <<native, caller, published, side, last, learned>>

(* CompressedReadPolicy SeekMoved: a seek that stays keeps the capture.       *)
Sought(rec, n) == IF n = rec.cursor THEN At(rec, n) ELSE Reset(At(rec, n))

EndSeek(t) ==
  LET s == call[t].s
      rec == call[t].rec
      Lands(c, after) ==
        /\ native' = [native EXCEPT ![s] = c]
        /\ caller' = [caller EXCEPT ![s] = c]
        /\ Stores(t, IF call[t].mode = "bare" THEN rec ELSE after)
  IN /\ call[t].pc = "native" /\ call[t].op = "seek" /\ native[s] # None
     /\ \/ Lands(call[t].n, Sought(rec, call[t].n))
        \/ NativeFails /\ \E c \in Cursors : Lands(c, Unknown(rec))
     /\ UNCHANGED <<published, last, learned>>

(* A native call on a stream that was closed under it.                       *)
EndClosed(t) ==
  /\ call[t].pc = "native" /\ native[call[t].s] = None
  /\ Stores(t, call[t].rec)
  /\ UNCHANGED <<native, caller, published, last, learned>>

-----------------------------------------------------------------------------
(* HookedCompDoClone.  The clone belongs to this thread until it is returned. *)

Cloned(s, c, cursor) ==
  /\ native' = [native EXCEPT ![c] = cursor]
  /\ caller' = [caller EXCEPT ![c] = caller[s]]

(* A clone of a retired or stateless stream gets no state.                    *)
EndCloneBare(t) ==
  LET s == call[t].s
      c == call[t].clone
  IN /\ call[t].pc = "native" /\ call[t].op = "clone" /\ native[s] # None
     /\ Cloned(s, c, native[s])
     /\ published' = [published EXCEPT ![c] = None]
     /\ side' = [side EXCEPT ![c] = None]
     /\ mutex' = [i \in Ids |-> IF i = call[t].id THEN None ELSE mutex[i]]
     /\ Return(t)
     /\ UNCHANGED <<last, learned>>

Clones(t) == Locks(t) /\ Current(t) /\ call[t].op = "clone"

(* States a clone of rec may get: it inherits a cache attachment when the     *)
(* identity is the same; sync tells whether its native cursor is in place.    *)
CloneStates(rec, sync) ==
  {LET new == Reset(NewState(r, rec.cursor)) IN
   IF r = rec.resolved
   THEN [new EXCEPT !.lookedUp = rec.lookedUp, !.cached = rec.cached]
   ELSE IF sync THEN new
   ELSE [new EXCEPT !.cursorKnown = FALSE, !.capture = "invalid"] : r \in BOOLEAN}
  \cup (IF "clone" \in AllocFails THEN {None} ELSE {})

Lost(new) == new = None \/ ~new.cached

Clone(t) ==
  LET s == call[t].s
      c == call[t].clone
      rec == side[s]
      Made(new) == call' = [call EXCEPT ![t].pc = "publish", ![t].id = None,
                                        ![t].rec = new]
  IN /\ Clones(t)
     /\ \/ /\ ~rec.cursorKnown
           /\ Cloned(s, c, native[s]) /\ Made(None)
        \/ /\ rec.cursorKnown
           /\ \E sync \in BOOLEAN :
              /\ IF sync THEN rec.cached => rec.cursor <= Size
                 ELSE rec.cached /\ (NativeFails \/ rec.cursor > Size)
              /\ \E new \in CloneStates(rec, sync) :
                IF rec.cached /\ ~sync /\ Lost(new)
                THEN Return(t) /\ UNCHANGED <<native, caller>>
                ELSE /\ Cloned(s, c, IF rec.cached /\ sync THEN rec.cursor
                                     ELSE native[s])
                     /\ Made(new)
        \/ NativeFails /\ Return(t) /\ UNCHANGED <<native, caller>>
     /\ UNCHANGED <<published, side, mutex, last, learned>>

-----------------------------------------------------------------------------
(* HookedCompDoOpen, HookedCompDoClose and HookedCompDtor.                   *)

(* RetireCompressedState: out of the map, then wait for the mutex.            *)
Retire(t) ==
  LET s == call[t].s IN
  /\ call[t].pc = "retire"
  /\ call' = IF published[s] = None THEN [call EXCEPT ![t].pc = "lifecycle"]
             ELSE [call EXCEPT ![t].pc = "wait", ![t].id = published[s]]
  /\ published' = [published EXCEPT ![s] = None]
  /\ side' = [side EXCEPT ![s] = None]
  /\ UNCHANGED <<native, caller, mutex, last, learned>>

(* Faulty variant: does not wait for the read in flight.                              *)
WaitNot(t) ==
  /\ call[t].pc = "wait"
  /\ call' = [call EXCEPT ![t].pc = "lifecycle"]
  /\ UNCHANGED <<native, caller, published, side, mutex, last, learned>>

Wait(t) ==
  /\ call[t].pc = "wait" /\ mutex[call[t].id] = None
  /\ call' = [call EXCEPT ![t].pc = "lifecycle"]
  /\ UNCHANGED <<native, caller, published, side, mutex, last, learned>>

Close(t) ==
  /\ call[t].pc = "lifecycle" /\ call[t].op = "close"
  /\ native' = [native EXCEPT ![call[t].s] = None]
  /\ caller' = [caller EXCEPT ![call[t].s] = 0]
  /\ Return(t)
  /\ UNCHANGED <<published, side, mutex, last, learned>>

Open(t) ==
  LET s == call[t].s IN
  /\ call[t].pc = "lifecycle" /\ call[t].op = "open"
  /\ \/ /\ native' = [native EXCEPT ![s] = 0]
        /\ caller' = [caller EXCEPT ![s] = 0]
        /\ \E r \in BOOLEAN :
             call' = [call EXCEPT ![t].pc = "publish", ![t].id = None,
                                  ![t].rec = NewState(r, 0)]
     \/ NativeFails /\ Return(t) /\ UNCHANGED <<native, caller>>
  /\ UNCHANGED <<published, side, mutex, last, learned>>

(* PublishCompressedStateIfAbsent after an open, ReplaceCompressedState for a *)
(* clone; a stream without a state is retired.                                *)
Publish(t) ==
  LET s == IF call[t].op = "clone" THEN call[t].clone ELSE call[t].s
      Put(id, rec) == /\ published' = [published EXCEPT ![s] = id]
                      /\ side' = [side EXCEPT ![s] = rec]
  IN /\ call[t].pc = "publish"
     /\ \/ call[t].rec = None /\ Put(None, None)
        \/ /\ call[t].rec # None /\ (call[t].op = "open" => published[s] = None)
           /\ \/ Put(FreshId, call[t].rec)
              \/ "publish" \in AllocFails /\ Put(None, None)
        \/ /\ call[t].rec # None /\ call[t].op = "open" /\ published[s] # None
           /\ UNCHANGED <<published, side>>
     /\ Return(t)
     /\ UNCHANGED <<native, caller, mutex, last, learned>>

-----------------------------------------------------------------------------
Hook(t) ==
  \/ Use(t) \/ UseClone(t) \/ UseLifecycle(t)
  \/ Find(t) \/ Create(t) \/ Replaced(t) \/ Retired(t)
  \/ Upgrade(t)
  \/ ReadUnknown(t) \/ ReadCached(t) \/ ReadNative(t) \/ EndRead(t)
  \/ SeekCached(t) \/ SeekNative(t) \/ EndSeek(t) \/ EndClosed(t)
  \/ EndCloneBare(t) \/ Clone(t)
  \/ Retire(t) \/ Wait(t) \/ Close(t) \/ Open(t) \/ Publish(t)

(* The native call of t ends, and another thread or a state that t does not    *)
(* hold relies on the cursor it found: without memory for a state, or beside   *)
(* a state that was retired, no mutex orders the calls.                       *)
Unguarded(t) ==
  LET s == call[t].s IN
  /\ call[t].pc = "native"
  /\ \/ published[s] \notin {None, call[t].id}
     \/ \E u \in Threads \ {t} :
          /\ call[u].s = s
          /\ \/ call[u].pc = "create" /\ published[s] = None
             \/ call[u].pc = "native" /\ call[u].mode # "bare"

(* A clone that was to be read from the cache, because its decompressor could  *)
(* not be moved, is left without its state (Hooks.cpp:1415-1445).              *)
Bereft(t) ==
  LET c == call[t].clone IN
  /\ call[t].pc = "publish" /\ call[t].rec # None /\ call[t].rec.cached
  /\ native[c] # call[t].rec.cursor /\ published'[c] = None

Next ==
  /\ \E t \in scenario.threads :
       \/ Hook(t) /\ parted' = (parted \/ Unguarded(t) \/ Bereft(t))
       \/ UpgradeFails(t) /\ parted' = TRUE
  /\ UNCHANGED scenario

Spec == Init /\ [][Next]_<<scenario, vars>>

-----------------------------------------------------------------------------
(* Every variable keeps its type: a state object is published exactly while   *)
(* it has contents, and a held mutex belongs to the object its holder uses.   *)
TypeOK ==
  /\ scenario \in Scenarios
  /\ native \in [Streams -> Cursors \cup {None}]
  /\ caller \in [Streams -> Cursors]
  /\ published \in [Streams -> Ids \cup {None}]
  /\ side \in [Streams -> State \cup {None}]
  /\ \A s \in Streams : published[s] = None <=> side[s] = None
  /\ mutex \in [Ids -> Threads \cup {None}]
  /\ \A i \in Ids : mutex[i] # None =>
       call[mutex[i]].pc = "native" /\ call[mutex[i]].id = i
  /\ call \in [Threads -> Calls]
  /\ last \in [from : Cursors, due : Cursors]
  /\ learned \subseteq Seq(Cursors) /\ parted \in BOOLEAN

(* A state that is served from the cache knows its cursor.  Only an active     *)
(* capture has bytes: those of the entry, from its first.                     *)
Prefix(bytes) == \A i \in DOMAIN bytes : bytes[i] = i - 1
Sound(rec) ==
  /\ rec.cached => rec.cursorKnown
  /\ rec.capture # "active" => rec.buffer = <<>>
  /\ ~parted => Prefix(rec.buffer)

(* What the locals of a hook hold where it stands.                            *)
Placed(c) ==
  /\ c.pc = "idle" => c = Idle
  /\ c.pc # "idle" => c.s # None
  /\ c.pc \in {"find", "create", "body", "native"} => c.op \in {"read", "seek", "clone"}
  /\ c.pc \in {"retire", "wait", "lifecycle"} => c.op \in {"open", "close"}
  /\ c.pc = "publish" => c.op \in {"clone", "open"}
  /\ c.op = "clone" <=> c.clone # None
  /\ c.op \in {"read", "seek"} => c.n # None
  /\ c.pc \in {"find", "create", "retire", "publish"} => c.id = None
  /\ c.pc \in {"body", "wait"} => c.id # None
  /\ c.rec # None => c.pc \in {"create", "native", "publish"} /\ Sound(c.rec)
  /\ c.rec # None /\ c.rec.cached => c.op = "clone" /\ c.pc = "publish"
  /\ c.pc = "create" => c.rec # None
  /\ c.pc = "native" =>
       /\ c.mode # None /\ (c.id = None => c.mode = "bare" /\ c.rec = None)
       /\ IF c.mode = "bare" THEN c.rec # None => parted ELSE c.rec # None /\ c.op # "clone"
       /\ c.mode = "unknown" => c.op = "read" /\ ~c.rec.cursorKnown
       /\ c.mode = "tracked" /\ c.op = "read" => c.rec.cursorKnown
  /\ c.append => /\ c.pc = "native" /\ c.op = "read" /\ c.mode = "tracked"
                 /\ c.rec.resolved /\ Continues(c.rec)
  /\ c.op = "open" /\ c.pc = "publish" => c.rec # None /\ c.rec.cursor = 0

(* No two streams share a state object, and no call uses one of another stream. *)
OwnIds ==
  /\ \A s, x \in Streams : published[s] # None /\ published[s] = published[x] => s = x
  /\ \A t \in Threads, s \in Streams : call[t].id # None /\ call[t].id = published[s] =>
       call[t].s = s /\ call[t].pc \in {"body", "native"}
  /\ \A t \in Threads : call[t].pc = "native" /\ call[t].id # None =>
       mutex[call[t].id] = t

(* A stream that is made by a clone belongs to its thread, one that is opened    *)
(* too; a close may find reads and seeks.                                    *)
Apart(t, u) ==
  /\ call[t].op = "clone" => call[t].clone \notin {call[u].s, call[u].clone}
  /\ Lifecycle(t) /\ call[u].s = call[t].s =>
       /\ Overlapping /\ call[t].op = "close" /\ call[u].op \in {"read", "seek"}
       /\ call[t].pc = "retire" =>
            \/ call[u].pc \in {"body", "native"}
            \/ call[u].pc = "find" /\ published[call[t].s] # None

OwnStreams ==
  /\ \A t, u \in Threads : t # u => Apart(t, u)
  /\ \A t \in Threads : LET c == call[t] IN
       /\ c.op = "open" =>
            /\ IF c.pc = "publish" THEN native[c.s] = 0 /\ caller[c.s] = 0
               ELSE native[c.s] = None
            /\ c.pc # "retire" => published[c.s] = None
       /\ c.op = "clone" => c.s # c.clone
       /\ c.op = "clone" /\ c.pc # "publish" => native[c.s] # None /\ native[c.clone] = None

(* Of a state and the cursors of the decompressor and of the engine: what is    *)
(* read from the cache stands where the engine is, anything else where the      *)
(* decompressor and the engine are.                                          *)
Follows(rec, cursor) == rec # None /\ rec.cursorKnown /\ ~rec.cached => rec.cursor = cursor
Agree(rec, cursor, position) ==
  IF rec # None /\ rec.cached THEN rec.cursor = position
  ELSE cursor = position /\ Follows(rec, cursor)

Making(s) == \E t \in Threads : call[t].clone = s

(* The same of the states that hooks are about to store.                       *)
InFlight(t) ==
  LET c == call[t] IN
  /\ c.pc = "native" /\ c.mode # "bare" /\ native[c.s] # None =>
       /\ Follows(c.rec, native[c.s])
       /\ published[c.s] = c.id => ~side[c.s].cached
  /\ c.pc = "native" /\ c.mode = "bare" /\ c.id # None => published[c.s] # c.id
  /\ c.pc = "create" /\ published[c.s] = None /\ native[c.s] # None =>
       Follows(c.rec, native[c.s])
  /\ c.op = "clone" /\ c.pc = "publish" =>
       native[c.clone] # None /\ Agree(c.rec, native[c.clone], caller[c.clone])

(* Without a close that overlaps, every call holds the state in service.        *)
Guarded(t) ==
  LET c == call[t] IN
  ~Overlapping =>
    /\ c.pc = "body" => published[c.s] # None
    /\ c.pc = "native" /\ c.id # None => published[c.s] = c.id
    /\ c.pc = "native" /\ c.id = None => "state" \in AllocFails

PartedExplained ==
  parted => Overlapping \/ AllocFails \cap {"state", "identity", "publish"} # {}

(* Whatever mix of cache and decompressor served a stream, and through every  *)
(* clone, seek, failure and identity change, the first byte a successful read *)
(* delivers is the one the engine's position calls for (HookedCompDoRead,     *)
(* ServeCachedRead: the two data paths are never mixed).                      *)
BytesInOrder == ~parted => last.from = last.due

(* AUDIT.md: "Capture accepts only a complete, contiguous stream from logical *)
(* offset zero".                                                             *)
CompleteCaptures == learned \subseteq {Whole}

(* The cache learns an entry only as its whole payload, in order: no prefix,  *)
(* gap, repetition or suffix is ever recorded (AppendCapture), as long as     *)
(* there is memory for identity changes.                                     *)
LearnsWhole == ~parted => learned \subseteq {Whole}

(* The side cursor of a stream that is not read from the cache is where its    *)
(* decompressor stands, in the midst of other calls too, so that a later        *)
(* attachment to the cache, or a capture, starts at the right byte; and unless   *)
(* the stream is being opened or closed, both stand where the engine is         *)
(* (logicalCursor, cursorKnown).  They part only for want of memory, or when a   *)
(* close overlaps the calls it ends.                                         *)
CursorsAgree ==
  /\ PartedExplained
  /\ ~parted => \A s \in Streams :
       /\ native[s] # None /\ ~Making(s) => Follows(side[s], native[s])
       /\ ~Ending(s) /\ ~Making(s) => Agree(side[s], native[s], caller[s])

(* RetireCompressedState: the close or destructor that retires a state does   *)
(* not reach the native stream while a read or seek that found this state in  *)
(* service is inside it.                                                      *)
CloseWaits ==
  \A t, u \in Threads :
    /\ call[t].pc = "lifecycle" /\ call[u].pc = "native"
    /\ call[t].id # None /\ call[u].id = call[t].id
    => call[u].mode = "bare"

StreamInv ==
  /\ TypeOK /\ OwnIds /\ OwnStreams
  /\ \A s \in Streams : side[s] # None => Sound(side[s])
  /\ \A t \in Threads : Placed(call[t]) /\ Guarded(t) /\ (~parted => InFlight(t))
=============================================================================
