------------------------------- MODULE PlainRead -------------------------------
(***************************************************************************)
(* A read of an uncompressed archive stream (Skyrim/src/Hooks.cpp,           *)
(* HookedDoRead): the cache that tells which mapped archive a source belongs *)
(* to (SourceLookup, ResolveSource, SourceInsert), a table read without a     *)
(* lock under a sequence number with a locked overflow map behind it, and    *)
(* the claim of a range of the stream's cursor (StreamCursor.h, ClaimRange). *)
(*                                                                         *)
(* Each source has one stream, over a whole entry of Size bytes.  The engine *)
(* may free a source and its backing stream (inner) when no read is in it    *)
(* and use the address of the source again; the inner stream of a mapped     *)
(* archive lives as long as the process.                                    *)
(***************************************************************************)
EXTENDS Integers, Sequences, FiniteSets

CONSTANTS
  Sources,      (* addresses of archive sources                              *)
  Inners,       (* addresses of their backing streams                        *)
  Archives,     (* mapped BSAs                                               *)
  Threads,      (* engine threads                                            *)
  SlotCount,    (* kSourceHashSlots, without those of sources not modelled   *)
  Size,         (* bytes of an entry                                         *)
  Lengths,      (* how much a read asks for                                  *)
  Targets,      (* where seeks go; Size + 1 is outside of the entry          *)
  RetryMs,      (* kSourceRetryMs                                            *)
  NegativeMs,   (* kSourceNegativeValidationMs                               *)
  MaxTime,      (* bound: the clock stops here                               *)
  MaxEvents,    (* bound: sources reused, names found, seeks                 *)
  Negative,     (* NegativeSentinel()                                        *)
  None

ASSUME ReadAssumption ==
  /\ IsFiniteSet(Sources) /\ IsFiniteSet(Threads)
  /\ {SlotCount, RetryMs, NegativeMs, MaxTime, MaxEvents} \subseteq Nat
  /\ Size \in Nat \ {0} /\ Lengths \subseteq Nat
  /\ Targets \subseteq 0 .. Size + 1
  /\ Negative \notin Archives /\ None \notin Archives \cup Inners \cup Threads \cup Sources

Never == MaxTime + 1     (* a deadline that does not come *)
Outside == Size + 1      (* a cursor that is not in the entry *)
Smaller(m, n) == IF m <= n THEN m ELSE n

VARIABLES
  inner,     (* the backing stream of each source                            *)
  name,      (* the mapped archive its DoGetName names, or None              *)
  cursor,    (* ArchiveStream::CurrentOffset, relative to the entry          *)
  now,       (* GetTickCount64                                               *)
  room,      (* slots the sources not modelled have left                     *)
  keys,      (* sources with a slot in s_sourceHash                          *)
  slot,      (* that slot                                                    *)
  overflow,  (* s_sourceOverflow: an answer, or None                         *)
  mutex,     (* s_sourceInsertMutex: its holder                              *)
  call,      (* what each thread is doing                                    *)
  events,
  taken,     (* history: bytes handed out since the last seek, in order      *)
  probed     (* history: when a refresh was won that is not yet published    *)

worldVars == <<inner, name, now, events, room>>
tableVars == <<keys, slot, overflow, mutex>>
vars == <<worldVars, cursor, tableVars, call, taken, probed>>

Answers == Archives \cup {Negative}
NoSlot == [gen |-> 0, inner |-> None, archive |-> None, until |-> 0]
Idle == [pc |-> "idle", s |-> None, n |-> 0, inner |-> None, gen |-> 0,
         seen |-> None, archive |-> None, until |-> 0, at |-> 0, obs |-> 0]

Init ==
  /\ inner \in [Sources -> Inners]
  /\ \A s, z \in Sources : inner[s] = inner[z] => s = z
  /\ name \in [Inners -> Archives \cup {None}]
  /\ cursor = [s \in Sources |-> 0]
  /\ now = 0 /\ events = 0
  /\ room \in 0 .. SlotCount
  /\ keys = {} /\ slot = [s \in Sources |-> NoSlot]
  /\ overflow = [s \in Sources |-> None] /\ mutex = None
  /\ call = [t \in Threads |-> Idle]
  /\ taken = [s \in Sources |-> <<>>]
  /\ probed = [s \in Sources |-> 0 - RetryMs]

-----------------------------------------------------------------------------
(* The world outside: time, freed sources, names and seeks.                  *)

InUse(s) == \E t \in Threads : call[t].s = s

Tick ==
  /\ now < MaxTime /\ now' = now + 1
  /\ UNCHANGED <<inner, name, events, room, cursor, tableVars, call, taken, probed>>

Event == events < MaxEvents /\ events' = events + 1

(* A source at the same address with another backing stream.                 *)
Reuse(s, i) ==
  /\ Event /\ ~InUse(s) /\ \A z \in Sources : inner[z] # i
  /\ inner' = [inner EXCEPT ![s] = i]
  /\ cursor' = [cursor EXCEPT ![s] = 0] /\ taken' = [taken EXCEPT ![s] = <<>>]
  /\ UNCHANGED <<name, now, room, tableVars, call, probed>>

(* Both addresses reused, the new pair being of a mapped archive.            *)
Rename(i, a) ==
  /\ Event /\ name[i] = None
  /\ \A s \in Sources : inner[s] = i => ~InUse(s)
  /\ name' = [name EXCEPT ![i] = a]
  /\ UNCHANGED <<inner, now, room, cursor, tableVars, call, taken, probed>>

Seek(s, p) ==
  /\ Event /\ cursor' = [cursor EXCEPT ![s] = p]
  /\ taken' = [taken EXCEPT ![s] = <<>>]
  /\ UNCHANGED <<inner, name, now, room, tableVars, call, probed>>

World ==
  \/ Tick
  \/ \E s \in Sources : \/ \E i \in Inners : Reuse(s, i)
                        \/ \E p \in Targets : Seek(s, p)
  \/ \E i \in Inners, a \in Archives : Rename(i, a)

-----------------------------------------------------------------------------
(* SourceLookup.                                                            *)

At(t, pc) == call[t].pc = pc
Goto(t, pc) == call' = [call EXCEPT ![t].pc = pc]
My(t) == slot[call[t].s]

(* The locals of the lookup are dead once it has led somewhere else.          *)
Fresh(r, pc) == [Idle EXCEPT !.pc = pc, !.s = r.s, !.n = r.n]

(* Hooks off, baseline mode, a suppressed load or no buffer: the stock read.   *)
Begin(t, s, n) ==
  /\ At(t, "idle")
  /\ \E pc \in {"lookup", "native"} :
       call' = [call EXCEPT ![t] = Fresh([s |-> s, n |-> n], pc)]
  /\ UNCHANGED tableVars

(* An answer: the archive to read from, or none.                             *)
Answered(r, a) ==
  IF a \in Archives THEN [Fresh(r, "claim") EXCEPT !.archive = a]
  ELSE Fresh(r, "native")

(* The key is looked for in the table, then, under its lock, in the overflow   *)
(* map.  An unreadable source ends in the stock read.                        *)
Lookup(t) ==
  /\ At(t, "lookup")
  /\ LET r == [call[t] EXCEPT !.inner = inner[call[t].s]]
         o == overflow[r.s]
     IN \/ call' = [call EXCEPT ![t].pc = "native"]
        \/ r.s \in keys /\ call' = [call EXCEPT ![t] = [r EXCEPT !.pc = "gen"]]
        \/ /\ r.s \notin keys
           /\ call' = [call EXCEPT ![t] =
                IF \/ o = None
                   \/ o # None /\ o.inner # r.inner
                   \/ o # None /\ o.archive = Negative /\ now >= o.until
                THEN Fresh(r, "probe") ELSE Answered(r, o.archive)]
  /\ UNCHANGED tableVars

ReadGeneration(t) ==
  /\ At(t, "gen") /\ My(t).gen % 2 = 0
  /\ call' = [call EXCEPT ![t].gen = My(t).gen, ![t].pc = "inner"]
  /\ UNCHANGED tableVars

ReadInner(t) ==
  /\ At(t, "inner")
  /\ call' = [call EXCEPT ![t].seen = My(t).inner, ![t].pc = "archive"]
  /\ UNCHANGED tableVars

ReadArchive(t) ==
  /\ At(t, "archive")
  /\ call' = [call EXCEPT ![t].archive = My(t).archive, ![t].pc = "until"]
  /\ UNCHANGED tableVars

ReadUntil(t) ==
  /\ At(t, "until")
  /\ call' = [call EXCEPT ![t].until = My(t).until, ![t].pc = "again"]
  /\ UNCHANGED tableVars

(* What a coherent reading of the slot leads to.                             *)
Decided(r) ==
  IF r.seen # r.inner THEN Fresh(r, "probe")
  ELSE IF r.archive = Negative /\ now >= r.until
       THEN [Fresh(r, "win") EXCEPT !.until = r.until, !.at = now]
       ELSE Answered(r, r.archive)

(* Faulty variant: the sequence number is not looked at again.               *)
DecideAtOnce(t) ==
  /\ At(t, "again")
  /\ call' = [call EXCEPT ![t] = Decided(@)]
  /\ UNCHANGED tableVars

Decide(t) ==
  /\ At(t, "again")
  /\ IF My(t).gen # call[t].gen
     THEN call' = [call EXCEPT ![t] = [Fresh(@, "gen") EXCEPT !.inner = call[t].inner]]
     ELSE call' = [call EXCEPT ![t] = Decided(@)]
  /\ UNCHANGED tableVars

(* Faulty variant: the new deadline is stored whoever came first.             *)
WinAlways(t) ==
  /\ At(t, "win")
  /\ slot' = [slot EXCEPT ![call[t].s].until = call[t].at + RetryMs]
  /\ call' = [call EXCEPT ![t] = Fresh(@, "probe")]
  /\ UNCHANGED <<keys, overflow, mutex>>

(* An expired negative: the reader whose exchange succeeds probes, the others  *)
(* keep the old answer.                                                     *)
Win(t) ==
  /\ At(t, "win")
  /\ IF My(t).until = call[t].until
     THEN /\ slot' = [slot EXCEPT ![call[t].s].until = call[t].at + RetryMs]
          /\ call' = [call EXCEPT ![t] = Fresh(@, "probe")]
     ELSE call' = [call EXCEPT ![t] = Fresh(@, "native")] /\ UNCHANGED slot
  /\ UNCHANGED <<keys, overflow, mutex>>

-----------------------------------------------------------------------------
(* ResolveSource and SourceInsert.                                          *)

(* The name of the backing stream is asked for; the validation of pointers     *)
(* may fail, of the source itself or of what it points to.                    *)
Probe(t) ==
  /\ At(t, "probe")
  /\ LET r == [call[t] EXCEPT !.inner = inner[call[t].s], !.pc = "insert"]
     IN \/ Goto(t, "native")
        \/ call' = [call EXCEPT ![t] =
             [r EXCEPT !.archive = Negative, !.until = now + RetryMs]]
        \/ call' = [call EXCEPT ![t] =
             IF name[r.inner] = None
             THEN [r EXCEPT !.archive = Negative, !.until = now + NegativeMs]
             ELSE [r EXCEPT !.archive = name[r.inner], !.until = Never]]
  /\ UNCHANGED tableVars

Resolved(t) == call' = [call EXCEPT ![t] = Answered(@, @.archive)]

Positive(e, i) == e.inner = i /\ e.archive \in Archives

(* Faulty variant: a slower negative replaces a positive answer.              *)
KeepsNot(e, i) == FALSE

(* An answer that is never overwritten for the same pair.                     *)
Keeps(e, i) == Positive(e, i)

InsertFull(t) ==
  LET r == call[t] IN
  /\ r.s \notin keys /\ Cardinality(keys) >= room
  /\ \/ UNCHANGED overflow
     \/ /\ ~(overflow[r.s] # None /\ Keeps(overflow[r.s], r.inner))
        /\ overflow' = [overflow EXCEPT ![r.s] =
             [inner |-> r.inner, archive |-> r.archive, until |-> r.until]]
  /\ Resolved(t)
  /\ UNCHANGED <<keys, slot, mutex>>

InsertNew(t) ==
  LET r == call[t] IN
  /\ r.s \notin keys /\ Cardinality(keys) < room
  /\ slot' = [slot EXCEPT ![r.s].inner = r.inner, ![r.s].archive = r.archive,
                          ![r.s].until = r.until]
  /\ mutex' = t /\ Goto(t, "publish")
  /\ UNCHANGED <<keys, overflow>>

InsertKnown(t) ==
  LET r == call[t] IN
  /\ r.s \in keys
  /\ IF Keeps(slot[r.s], r.inner)
     THEN Resolved(t) /\ UNCHANGED <<slot, mutex>>
     ELSE /\ slot' = [slot EXCEPT ![r.s].gen = @ + 1]
          /\ mutex' = t /\ Goto(t, "putInner")
  /\ UNCHANGED <<keys, overflow>>

Insert(t) ==
  /\ At(t, "insert") /\ mutex = None
  /\ InsertFull(t) \/ InsertNew(t) \/ InsertKnown(t)

Publish(t) ==
  /\ At(t, "publish")
  /\ keys' = keys \cup {call[t].s} /\ mutex' = None
  /\ Resolved(t)
  /\ UNCHANGED <<slot, overflow>>

PutInner(t) ==
  /\ At(t, "putInner") /\ Goto(t, "putArchive")
  /\ slot' = [slot EXCEPT ![call[t].s].inner = call[t].inner]
  /\ UNCHANGED <<keys, overflow, mutex>>

PutArchive(t) ==
  /\ At(t, "putArchive") /\ Goto(t, "putUntil")
  /\ slot' = [slot EXCEPT ![call[t].s].archive = call[t].archive]
  /\ UNCHANGED <<keys, overflow, mutex>>

PutUntil(t) ==
  /\ At(t, "putUntil") /\ Goto(t, "putGeneration")
  /\ slot' = [slot EXCEPT ![call[t].s].until = call[t].until]
  /\ UNCHANGED <<keys, overflow, mutex>>

PutGeneration(t) ==
  /\ At(t, "putGeneration")
  /\ slot' = [slot EXCEPT ![call[t].s].gen = @ + 1]
  /\ mutex' = None /\ Resolved(t)
  /\ UNCHANGED <<keys, overflow>>

Wins(t) == At(t, "win") /\ call'[t].pc = "probe"

SourceStep(t) ==
  /\ \/ Lookup(t) \/ ReadGeneration(t) \/ ReadInner(t) \/ ReadArchive(t)
     \/ ReadUntil(t) \/ Decide(t) \/ Win(t) \/ Probe(t) \/ Insert(t) \/ Publish(t)
     \/ PutInner(t) \/ PutArchive(t) \/ PutUntil(t) \/ PutGeneration(t)
  /\ probed' = [s \in Sources |->
       IF call[t].s = s /\ Wins(t) THEN call[t].at
       ELSE IF call[t].s = s /\ At(t, "putUntil") THEN 0 - RetryMs ELSE probed[s]]
  /\ UNCHANGED <<worldVars, cursor, taken>>

-----------------------------------------------------------------------------
(* ClaimRange and the copy.                                                 *)

Give(s, from, n) ==
  /\ cursor' = [cursor EXCEPT ![s] = from + n]
  /\ taken' = [taken EXCEPT ![s] = @ \o [i \in 1 .. n |-> from + i - 1]]

(* The game's own read.                                                     *)
Native(t) ==
  /\ At(t, "native") /\ call' = [call EXCEPT ![t] = Idle]
  /\ LET s == call[t].s
     IN \/ UNCHANGED <<cursor, taken>>
        \/ cursor[s] # Outside /\ Give(s, cursor[s],
                                       Smaller(call[t].n, Size - cursor[s]))

(* The entry must lie in the mapping and the cursor in the entry; nothing left *)
(* is nothing read.                                                         *)
Claim(t) ==
  /\ At(t, "claim")
  /\ LET c == cursor[call[t].s]
     IN \/ call' = [call EXCEPT ![t] = Fresh(@, "native")]
        \/ /\ c # Outside
           /\ call' = [call EXCEPT ![t] =
                IF Smaller(call[t].n, Size - c) = 0 THEN Idle
                ELSE [@ EXCEPT !.obs = c, !.pc = "exchange"]]
  /\ UNCHANGED <<cursor, taken>>

(* Faulty variant: the end of the entry is not looked at.                      *)
PortionUnbounded(t) == call[t].n

Portion(t) == Smaller(call[t].n, Size - call[t].obs)

(* Faulty variant: the cursor is stored, not exchanged.                       *)
ExchangeBlindly(t) ==
  /\ At(t, "exchange")
  /\ Give(call[t].s, call[t].obs, Portion(t)) /\ Goto(t, "copy")

Exchange(t) ==
  /\ At(t, "exchange")
  /\ IF cursor[call[t].s] = call[t].obs
     THEN Give(call[t].s, call[t].obs, Portion(t)) /\ Goto(t, "copy")
     ELSE /\ call' = [call EXCEPT ![t].obs = 0, ![t].pc = "claim"]
          /\ UNCHANGED <<cursor, taken>>

Copy(t) ==
  /\ At(t, "copy") /\ call' = [call EXCEPT ![t] = Idle]
  /\ UNCHANGED <<cursor, taken>>

ClaimStep(t) ==
  /\ Native(t) \/ Claim(t) \/ Exchange(t) \/ Copy(t)
  /\ UNCHANGED <<worldVars, tableVars, probed>>

HookedDoRead(t) == SourceStep(t) \/ ClaimStep(t)

Next ==
  \/ World
  \/ \E t \in Threads :
       \/ HookedDoRead(t)
       \/ \E s \in Sources, n \in Lengths :
            Begin(t, s, n) /\ UNCHANGED <<worldVars, cursor, taken, probed>>

Spec == Init /\ [][Next]_vars

-----------------------------------------------------------------------------
Pcs == {"idle", "lookup", "gen", "inner", "archive", "until", "again", "win", "probe",
        "insert", "publish", "putInner", "putArchive", "putUntil", "putGeneration",
        "claim", "exchange", "copy", "native"}
Slot == [gen : Nat, inner : Inners \cup {None}, archive : Answers \cup {None}, until : Nat]
Call == [pc : Pcs, s : Sources \cup {None}, n : Lengths \cup {0},
         inner : Inners \cup {None}, gen : Nat, seen : Inners \cup {None},
         archive : Answers \cup {None}, until : Nat, at : 0 .. MaxTime,
         obs : 0 .. Outside]

(* Type invariant; no byte behind the entry is handed out. *)
TypeOK ==
  /\ inner \in [Sources -> Inners] /\ name \in [Inners -> Archives \cup {None}]
  /\ cursor \in [Sources -> 0 .. Outside]
  /\ now \in 0 .. MaxTime /\ events \in 0 .. MaxEvents
  /\ room \in 0 .. SlotCount /\ keys \subseteq Sources
  /\ slot \in [Sources -> Slot]
  /\ overflow \in [Sources -> {None} \cup
       [inner : Inners, archive : Answers, until : Nat]]
  /\ mutex \in Threads \cup {None}
  /\ probed \in [Sources -> Int]
  /\ call \in [Threads -> Call]
  /\ taken \in [Sources -> Seq(0 .. Size - 1)]

(* A read copies from the mapping of the archive its source really belongs to, *)
(* whatever sources were freed, reused, probed and published before or        *)
(* meanwhile.                                                               *)
ServedRight ==
  \A t \in Threads : At(t, "copy") => call[t].archive = name[inner[call[t].s]]

(* Reads of one stream by several threads hand out its bytes in order, each    *)
(* once.                                                                    *)
ClaimsInOrder ==
  \A s \in Sources : \A i \in 1 .. Len(taken[s]) - 1 :
    taken[s][i + 1] = taken[s][i] + 1

(* "A slower negative refresh must never overwrite a positive result already   *)
(* published for the same source generation."                                *)
Answer(s) ==
  IF s \in keys /\ slot[s].gen % 2 = 1 THEN [inner |-> None, archive |-> None]
  ELSE IF s \in keys THEN [inner |-> slot[s].inner, archive |-> slot[s].archive]
  ELSE IF overflow[s] = None THEN [inner |-> None, archive |-> None]
  ELSE [inner |-> overflow[s].inner, archive |-> overflow[s].archive]
PositiveKept ==
  [][\A s \in Sources :
       Positive(Answer(s), inner[s]) /\ inner'[s] = inner[s] =>
         Positive(Answer(s)', inner[s])]_vars

(* "Single-flight the refresh": until the answer of a refresh is published no   *)
(* other reader starts one, unless the short backoff is over.                *)
SingleFlight ==
  [][\A t \in Threads :
       Wins(t) => call[t].at >= probed[call[t].s] + RetryMs]_vars

-----------------------------------------------------------------------------
(* What keeps them.  The insert mutex and the keys: who holds the one, and who *)
(* relies on which of the other.                                            *)
Reading == {"gen", "inner", "archive", "until", "again"}
Putting == {"putInner", "putArchive", "putUntil", "putGeneration"}
Finding == {"insert", "publish"} \cup Putting

Placed ==
  \A t \in Threads :
    /\ At(t, "idle") <=> call[t].s = None
    /\ mutex = t <=> call[t].pc \in Putting \cup {"publish"}
    /\ call[t].pc \in Reading \cup Putting \cup {"win"} => call[t].s \in keys
    /\ At(t, "publish") => call[t].s \notin keys

(* An odd sequence number means a writer.                                    *)
OddWhileWritten ==
  \A s \in Sources :
    slot[s].gen % 2 = 1 <=> \E t \in Threads : call[t].pc \in Putting /\ call[t].s = s

(* Nothing pairs a backing stream with another archive than its own.          *)
Right(i, a) == a \in Archives => name[i] = a
Found ==
  \A t \in Threads :
    /\ call[t].pc \in Reading \cup Finding => call[t].inner = inner[call[t].s]
    /\ call[t].pc \in Finding =>
         call[t].archive \in Answers /\ Right(call[t].inner, call[t].archive)
    /\ call[t].pc \in {"claim", "exchange", "copy"} =>
         call[t].archive = name[inner[call[t].s]]
    /\ call[t].pc \in {"publish", "putArchive", "putUntil", "putGeneration"} =>
         slot[call[t].s].inner = call[t].inner
    /\ call[t].pc \in {"publish", "putUntil", "putGeneration"} =>
         slot[call[t].s].archive = call[t].archive
Stored ==
  \A s \in Sources :
    /\ slot[s].gen % 2 = 0 => Right(slot[s].inner, slot[s].archive)
    /\ s \in keys => slot[s].inner \in Inners /\ slot[s].archive \in Answers
    /\ overflow[s] # None => Right(overflow[s].inner, overflow[s].archive)

(* While the sequence number has not moved, the copies are those of the slot.  *)
Seen ==
  \A t \in Threads :
    /\ call[t].pc \in Reading \ {"gen"} =>
         call[t].gen % 2 = 0 /\ call[t].gen <= My(t).gen
    /\ call[t].pc \in Reading \ {"gen", "inner"} /\ call[t].gen = My(t).gen =>
         call[t].seen = My(t).inner
    /\ call[t].pc \in {"until", "again"} /\ call[t].gen = My(t).gen =>
         call[t].archive = My(t).archive

(* The overflow map is used only when the table has no slot left for good.     *)
Full ==
  (\E s \in Sources : overflow[s] # None) =>
    Cardinality(keys) >= room /\ \A t \in Threads : ~At(t, "publish")

(* A claimed range lies in the entry, behind all that was handed out.          *)
Claimed ==
  /\ \A t \in Threads : At(t, "exchange") => call[t].obs <= Size
  /\ \A s \in Sources : taken[s] # <<>> => cursor[s] = taken[s][Len(taken[s])] + 1

(* The deadline of a slot speaks of the refresh under way.                     *)
Deadlines ==
  /\ \A t \in Threads : At(t, "win") => call[t].at >= call[t].until
  /\ \A s \in Sources : probed[s] # 0 - RetryMs =>
       s \in keys /\ slot[s].until = probed[s] + RetryMs

(* The inductive invariant.                                                  *)
ReadInv ==
  /\ TypeOK /\ Placed /\ OddWhileWritten /\ Found /\ Stored /\ Seen /\ Full
  /\ Claimed /\ ClaimsInOrder /\ Deadlines
=============================================================================
