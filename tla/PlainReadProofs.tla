---------------------------- MODULE PlainReadProofs ----------------------------
(***************************************************************************)
(* Proofs about PlainRead for any sources, archives, threads and sizes: the   *)
(* inductive invariant of the source table and of the claims, and from it that *)
(* reads are served from the right archive, in order, that a positive answer  *)
(* is kept and that the refresh of a negative one is single-flighted.         *)
(*                                                                         *)
(* The store of each action is named first (c, the call as it becomes; e, the  *)
(* slot as it becomes), with the fields the invariant looks at as facts; then  *)
(* the parts of ReadInv follow one by one.                                  *)
(***************************************************************************)
EXTENDS PlainRead, FiniteSetTheorems, SequenceTheorems, TLAPS

-----------------------------------------------------------------------------
(* Calls.                                                                   *)

(* A thread that does nothing is a call with no source.                     *)
LEMMA IdleCall == Idle \in Call /\ Idle.pc = "idle" /\ Idle.s = None
<1>1. 0 \in 0 .. MaxTime /\ 0 \in 0 .. Outside /\ "idle" \in Pcs
  BY ReadAssumption DEF Outside, Pcs
<1> QED
  BY <1>1 DEF Idle, Call

(* The locals of the lookup are reset, the source and length kept.          *)
LEMMA FreshCall ==
  ASSUME NEW r \in Call, NEW p \in Pcs
  PROVE  Fresh(r, p) \in Call /\ Fresh(r, p).pc = p /\ Fresh(r, p).s = r.s
<1>2. PICK f \in Call : f = Idle
  BY IdleCall
<1>3. PICK s \in Sources \cup {None}, n \in Lengths \cup {0} : s = r.s /\ n = r.n
  BY DEF Call
<1> DEFINE c == [f EXCEPT !.pc = p, !.s = s, !.n = n]
<1>4. c \in Call /\ c.pc = p /\ c.s = s
  BY DEF Call
<1>5. Fresh(r, p) = c
  BY <1>2, <1>3 DEF Fresh
<1> HIDE DEF c
<1> QED
  BY <1>3, <1>4, <1>5

(* What ReadInv asks of one call that holds no mutex.                       *)
Sound(c) ==
  /\ c.pc = "idle" <=> c.s = None
  /\ c.pc \in Reading \cup {"win"} => c.s \in keys
  /\ c.pc \in Reading \cup {"insert"} => c.inner = inner[c.s]
  /\ c.pc = "insert" => c.archive \in Answers /\ Right(c.inner, c.archive)
  /\ c.pc \in {"claim", "exchange", "copy"} => c.archive = name[inner[c.s]]
  /\ c.pc \in Reading \ {"gen"} => c.gen % 2 = 0 /\ c.gen <= slot[c.s].gen
  /\ c.pc \in Reading \ {"gen", "inner"} /\ c.gen = slot[c.s].gen =>
         c.seen = slot[c.s].inner
  /\ c.pc \in {"until", "again"} /\ c.gen = slot[c.s].gen =>
         c.archive = slot[c.s].archive
  /\ c.pc = "exchange" => c.obs <= Size
  /\ c.pc = "win" => c.at >= c.until

(* What ReadInv asks of the cursors and of what was handed out.             *)
InOrder ==
  /\ cursor \in [Sources -> 0 .. Outside]
  /\ taken \in [Sources -> Seq(0 .. Size - 1)]
  /\ \A s \in Sources : taken[s] # <<>> => cursor[s] = taken[s][Len(taken[s])] + 1
  /\ ClaimsInOrder

(* ReadInv is kept by a step that moves one call, to a sound place outside of *)

(* the writer's sections, and the cursor in order.                          *)
LEMMA Move ==
  ASSUME ReadInv, NEW t \in Threads, NEW c \in Call,
         call' = [call EXCEPT ![t] = c],
         UNCHANGED <<worldVars, tableVars, probed>>,
         {call[t].pc, c.pc} \cap (Putting \cup {"publish"}) = {}, Sound(c), InOrder'
  PROVE  ReadInv'
<1> USE DEF ReadInv, tableVars, worldVars, At, My
<1>0. /\ call \in [Threads -> Call]
      /\ \A u \in Threads : call'[u] = IF u = t THEN c ELSE call[u]
  BY DEF TypeOK
<1>a. c.pc \notin Putting \cup {"publish"} /\ call[t].pc \notin Putting \cup {"publish"}
  OBVIOUS
<1>3. TypeOK'
  BY <1>0 DEF TypeOK, InOrder
<1>4. Placed'
  BY <1>0, <1>a, ReadAssumption DEF Placed, Sound
<1>5. OddWhileWritten'
  BY <1>0, <1>a DEF OddWhileWritten
<1>6. Found'
  <2> SUFFICES ASSUME NEW u \in Threads PROVE Found!(u)'
    BY DEF Found
  <2> QED BY <1>0, <1>a DEF Found, Finding, Putting, Right, Sound
<1>7. Stored'
  BY DEF Stored, Right
<1>8. Seen'
  BY <1>0 DEF Seen, Sound
<1>9. Full'
  BY <1>0, <1>a DEF Full
<1>10. Claimed' /\ ClaimsInOrder'
  BY <1>0 DEF Claimed, Sound, InOrder
<1>11. Deadlines'
  BY <1>0 DEF Deadlines, Sound
<1> QED
  BY <1>3, <1>4, <1>5, <1>6, <1>7, <1>8, <1>9, <1>10, <1>11

(* The same for a step that moves one call and nothing else.                *)
LEMMA CallMove ==
  ASSUME ReadInv, NEW t \in Threads, NEW c \in Call,
         call' = [call EXCEPT ![t] = c],
         UNCHANGED <<worldVars, cursor, taken, tableVars, probed>>,
         {call[t].pc, c.pc} \cap (Putting \cup {"publish"}) = {},
         Sound(c)
  PROVE  ReadInv'
<1>1. InOrder'
  BY DEF ReadInv, TypeOK, Claimed, ClaimsInOrder, InOrder
<1> QED BY <1>1, Move

(* What the steps of ResolveSource leave alone, but for the refreshes.      *)
Frame == UNCHANGED <<worldVars, cursor, taken, probed>>

(* What the table promises a thread that is reading.                        *)
LEMMA Facts ==
  ASSUME ReadInv, NEW t \in Threads
  PROVE  /\ call[t] \in Call /\ call \in [Threads -> Call] /\ call[t].pc \in Pcs
         /\ call[t].pc # "idle" => call[t].s \in Sources /\ call[t].s # None
         /\ call[t].pc \in Reading \cup {"win"} =>
              call[t].s \in keys /\ slot[call[t].s] \in Slot
         /\ call[t].pc \in Reading => call[t].inner = inner[call[t].s]
<1>1. call[t] \in Call /\ call \in [Threads -> Call]
  BY DEF ReadInv, TypeOK
<1>2. call[t].pc # "idle" => call[t].s \in Sources /\ call[t].s # None
  BY <1>1, ReadAssumption DEF ReadInv, Placed, Call, At
<1> QED
  BY <1>1, <1>2 DEF ReadInv, TypeOK, Placed, Found, Call, Reading

-----------------------------------------------------------------------------
(* SourceLookup.                                                            *)

(* The four loads of SourceLookup under the sequence number keep ReadInv.   *)
LEMMA CopiesKeep ==
  ASSUME ReadInv, NEW t \in Threads, Frame,
         ReadGeneration(t) \/ ReadInner(t) \/ ReadArchive(t) \/ ReadUntil(t)
  PROVE  ReadInv'
<1> USE DEF Reading, At, My
<1>0. PICK r \in Call : /\ r = call[t] /\ r.pc \in Reading /\ r.s \in keys
                        /\ r.s \in Sources /\ r.s # None
                        /\ slot[r.s] \in Slot /\ r.inner = inner[r.s]
  BY Facts DEF ReadGeneration, ReadInner, ReadArchive, ReadUntil
<1>1. CASE ReadGeneration(t)
  <2>1. PICK g \in Nat : g = slot[r.s].gen
    BY <1>0 DEF Slot
  <2> DEFINE c == [r EXCEPT !.gen = g, !.pc = "inner"]
  <2>2. c \in Call /\ c.pc = "inner" /\ c.gen = g /\ c.s = r.s /\ c.inner = r.inner
    BY DEF Call, Pcs
  <2>3. call' = [call EXCEPT ![t] = c]
    BY <1>0, <1>1, <2>1, Zenon DEF ReadGeneration
  <2> HIDE DEF c
  <2>4. Sound(c)
    BY <1>0, <1>1, <2>1, <2>2 DEF ReadGeneration, Sound
  <2> QED
    BY <1>1, <2>2, <2>3, <2>4, CallMove DEF ReadGeneration, Frame, Putting
<1>2. CASE ReadInner(t)
  <2>1. PICK i \in Inners \cup {None} : i = slot[r.s].inner
    BY <1>0 DEF Slot
  <2> DEFINE c == [r EXCEPT !.seen = i, !.pc = "archive"]
  <2>2. /\ c \in Call /\ c.pc = "archive" /\ c.s = r.s /\ c.inner = r.inner
        /\ c.gen = r.gen /\ c.seen = i
    BY DEF Call, Pcs
  <2>3. call' = [call EXCEPT ![t] = c]
    BY <1>0, <1>2, <2>1, Zenon DEF ReadInner
  <2> HIDE DEF c
  <2>4. Sound(c)
    BY <1>0, <1>2, <2>1, <2>2 DEF ReadInner, Sound, ReadInv, Seen
  <2> QED
    BY <1>2, <2>2, <2>3, <2>4, CallMove DEF ReadInner, Frame, Putting
<1>3. CASE ReadArchive(t)
  <2>1. PICK a \in Answers \cup {None} : a = slot[r.s].archive
    BY <1>0 DEF Slot
  <2> DEFINE c == [r EXCEPT !.archive = a, !.pc = "until"]
  <2>2. /\ c \in Call /\ c.pc = "until" /\ c.s = r.s /\ c.inner = r.inner
        /\ c.gen = r.gen /\ c.seen = r.seen /\ c.archive = a
    BY DEF Call, Pcs
  <2>3. call' = [call EXCEPT ![t] = c]
    BY <1>0, <1>3, <2>1, Zenon DEF ReadArchive
  <2> HIDE DEF c
  <2>4. Sound(c)
    BY <1>0, <1>3, <2>1, <2>2 DEF ReadArchive, Sound, ReadInv, Seen
  <2> QED
    BY <1>3, <2>2, <2>3, <2>4, CallMove DEF ReadArchive, Frame, Putting
<1>4. CASE ReadUntil(t)
  <2>1. PICK u \in Nat : u = slot[r.s].until
    BY <1>0 DEF Slot
  <2> DEFINE c == [r EXCEPT !.until = u, !.pc = "again"]
  <2>2. /\ c \in Call /\ c.pc = "again" /\ c.s = r.s /\ c.inner = r.inner
        /\ c.gen = r.gen /\ c.seen = r.seen /\ c.archive = r.archive
    BY DEF Call, Pcs
  <2>3. call' = [call EXCEPT ![t] = c]
    BY <1>0, <1>4, <2>1, Zenon DEF ReadUntil
  <2> HIDE DEF c
  <2>4. Sound(c)
    BY <1>0, <1>4, <2>1, <2>2 DEF ReadUntil, Sound, ReadInv, Seen
  <2> QED
    BY <1>4, <2>2, <2>3, <2>4, CallMove DEF ReadUntil, Frame, Putting
<1> QED
  BY <1>1, <1>2, <1>3, <1>4

(* An answer for the source leads to its archive or to the stock read.      *)
LEMMA AnsweredTo ==
  ASSUME NEW r \in Call, NEW a \in Answers \cup {None}, r.s \in Sources,
         a \in Archives => a = name[inner[r.s]]
  PROVE  LET c == Answered(r, a)
         IN c \in Call /\ c.pc \in {"claim", "native"} /\ c.s = r.s /\ Sound(c)
<1>1. CASE a \in Archives
  <2> DEFINE c == [Fresh(r, "claim") EXCEPT !.archive = a]
  <2>1. c \in Call /\ c.pc = "claim" /\ c.s = r.s /\ c.archive = a
    <3>1. PICK f \in Call : f = Fresh(r, "claim") /\ f.pc = "claim" /\ f.s = r.s
      BY FreshCall DEF Pcs
    <3> QED
      BY <3>1 DEF Call
  <2>2. Answered(r, a) = c
    BY <1>1 DEF Answered
  <2> HIDE DEF c
  <2>3. Sound(c)
    BY <1>1, <2>1, ReadAssumption DEF Sound, Reading
  <2> QED
    BY <2>1, <2>2, <2>3
<1>2. CASE a \notin Archives
  <2> DEFINE c == Fresh(r, "native")
  <2>1. c \in Call /\ c.pc = "native" /\ c.s = r.s
    BY FreshCall DEF Pcs
  <2>2. Answered(r, a) = c
    BY <1>2 DEF Answered
  <2> HIDE DEF c
  <2>3. Sound(c)
    BY <2>1, ReadAssumption DEF Sound, Reading
  <2> QED
    BY <2>1, <2>2, <2>3
<1> QED BY <1>1, <1>2

(* The places that promise nothing but a source are sound.                  *)
LEMMA FreshSound ==
  ASSUME NEW r \in Call, r.s \in Sources, NEW p \in {"native", "probe", "lookup"}
  PROVE  LET c == Fresh(r, p) IN c \in Call /\ c.pc = p /\ c.s = r.s /\ Sound(c)
<1> DEFINE c == Fresh(r, p)
<1>1. c \in Call /\ c.pc = p /\ c.s = r.s
  BY FreshCall DEF Pcs
<1> HIDE DEF c
<1>2. Sound(c)
  BY <1>1, ReadAssumption DEF Sound, Reading
<1> QED BY <1>1, <1>2 DEF c

(* The second look at the sequence number, and what a coherent copy leads to. *)
LEMMA DecideKeeps ==
  ASSUME ReadInv, NEW t \in Threads, Frame, Decide(t)
  PROVE  ReadInv'
<1> USE DEF At, My
<1>0. PICK r \in Call : /\ r = call[t] /\ r.pc = "again" /\ r.s \in keys
                        /\ r.s \in Sources /\ r.s # None
                        /\ slot[r.s] \in Slot /\ r.inner = inner[r.s]
  BY Facts DEF Decide, Reading
<1>1. /\ now \in 0 .. MaxTime /\ r.inner \in Inners \cup {None}
      /\ r.until \in Nat /\ r.archive \in Answers \cup {None}
  BY DEF ReadInv, TypeOK, Call
<1>2. SUFFICES ASSUME TRUE
               PROVE  \E c \in Call : /\ call' = [call EXCEPT ![t] = c] /\ Sound(c)
                                      /\ c.pc \notin Putting \cup {"publish"}
  <2>1. PICK c \in Call : /\ call' = [call EXCEPT ![t] = c] /\ Sound(c)
                          /\ c.pc \notin Putting \cup {"publish"}
    BY <1>2
  <2> QED
    BY <1>0, <2>1, CallMove DEF Decide, Frame, Putting
<1>3. CASE slot[r.s].gen # r.gen
  <2> DEFINE c == [Fresh(r, "gen") EXCEPT !.inner = r.inner]
  <2>1. c \in Call /\ c.pc = "gen" /\ c.s = r.s /\ c.inner = r.inner
    <3>1. PICK f \in Call : f = Fresh(r, "gen") /\ f.pc = "gen" /\ f.s = r.s
      BY FreshCall DEF Pcs
    <3> QED
      BY <1>1, <3>1 DEF Call
  <2>2. call' = [call EXCEPT ![t] = c]
    BY <1>0, <1>3, Zenon DEF Decide
  <2> HIDE DEF c
  <2> QED
    BY <1>0, <2>1, <2>2, ReadAssumption DEF Sound, Putting, Reading
<1>4. CASE slot[r.s].gen = r.gen
  <2>1. r.seen = slot[r.s].inner /\ r.archive = slot[r.s].archive /\ r.gen % 2 = 0
    BY <1>0, <1>4 DEF ReadInv, Seen, Reading
  <2>2. Right(r.seen, r.archive)
    BY <1>0, <1>4, <2>1 DEF ReadInv, Stored
  <2>3. call' = [call EXCEPT ![t] = Decided(r)]
    BY <1>0, <1>4, Zenon DEF Decide
  <2>4. CASE r.seen # r.inner
    <3>1. Decided(r) = Fresh(r, "probe")
      BY <2>4 DEF Decided
    <3> QED
      BY <1>0, <2>3, <3>1, FreshSound DEF Putting
  <2>5. CASE r.seen = r.inner /\ r.archive = Negative /\ now >= r.until
    <3> DEFINE c == [Fresh(r, "win") EXCEPT !.until = r.until, !.at = now]
    <3>1. c \in Call /\ c.pc = "win" /\ c.s = r.s /\ c.until = r.until /\ c.at = now
      <4>1. PICK f \in Call : f = Fresh(r, "win") /\ f.pc = "win" /\ f.s = r.s
        BY FreshCall DEF Pcs
      <4> QED
        BY <1>1, <4>1 DEF Call
    <3>2. Decided(r) = c
      BY <2>5 DEF Decided
    <3> HIDE DEF c
    <3> QED
      BY <1>0, <2>3, <2>5, <3>1, <3>2 DEF Sound, Putting, Reading
  <2>6. CASE r.seen = r.inner /\ ~(r.archive = Negative /\ now >= r.until)
    <3>1. Decided(r) = Answered(r, r.archive)
      BY <2>6 DEF Decided
    <3> QED
      <4>1. r.archive \in Archives => r.archive = name[inner[r.s]]
        BY <1>0, <2>2, <2>6 DEF Right
      <4>2. PICK c \in Call : /\ c = Answered(r, r.archive) /\ Sound(c)
                              /\ c.pc \in {"claim", "native"}
        BY <1>0, <1>1, <4>1, AnsweredTo
      <4> QED
        BY <2>3, <3>1, <4>2 DEF Putting
  <2> QED BY <2>4, <2>5, <2>6
<1> QED BY <1>3, <1>4

(* The look into the table and the overflow map.                            *)
LEMMA LookupKeeps ==
  ASSUME ReadInv, NEW t \in Threads, Frame, Lookup(t)
  PROVE  ReadInv'
<1> USE DEF At
<1>0. PICK r \in Call : /\ r = call[t] /\ r.pc = "lookup"
                        /\ r.s \in Sources /\ r.s # None
  BY Facts DEF Lookup
<1>1. PICK i \in Inners : i = inner[r.s]
  BY <1>0 DEF ReadInv, TypeOK
<1>2. SUFFICES ASSUME TRUE
               PROVE  \E c \in Call : /\ call' = [call EXCEPT ![t] = c] /\ Sound(c)
                                      /\ c.pc \notin Putting \cup {"publish"}
  <2>1. PICK c \in Call : /\ call' = [call EXCEPT ![t] = c] /\ Sound(c)
                          /\ c.pc \notin Putting \cup {"publish"}
    BY <1>2
  <2>2. UNCHANGED tableVars /\ call[t].pc = "lookup"
    BY <1>0, Zenon DEF Lookup
  <2> QED
    BY <2>1, <2>2, CallMove DEF Frame, Putting
<1> DEFINE q == [r EXCEPT !.inner = i]
           o == overflow[r.s]
<1>3. q \in Call /\ q.pc = "lookup" /\ q.s = r.s /\ q.inner = i
  BY <1>0 DEF Call
<1>4. q = [call[t] EXCEPT !.inner = inner[call[t].s]]
  BY <1>0, <1>1, Zenon
<1>5. \/ call' = [call EXCEPT ![t].pc = "native"]
      \/ q.s \in keys /\ call' = [call EXCEPT ![t] = [q EXCEPT !.pc = "gen"]]
      \/ call' = [call EXCEPT ![t] = Fresh(q, "probe")]
      \/ /\ o # None /\ o.inner = q.inner
         /\ call' = [call EXCEPT ![t] = Answered(q, o.archive)]
  BY <1>3, <1>0, <1>4, Zenon DEF Lookup
<1> HIDE DEF q
<1>6. CASE call' = [call EXCEPT ![t].pc = "native"]
  <2> DEFINE c == [r EXCEPT !.pc = "native"]
  <2>1. c \in Call /\ c.pc = "native" /\ c.s = r.s
    BY <1>0 DEF Call, Pcs
  <2>2. call' = [call EXCEPT ![t] = c]
    BY <1>0, <1>6, Zenon
  <2> HIDE DEF c
  <2> QED
    BY <1>0, <2>1, <2>2 DEF Sound, Reading, Putting
<1>7. CASE q.s \in keys /\ call' = [call EXCEPT ![t] = [q EXCEPT !.pc = "gen"]]
  <2> DEFINE c == [q EXCEPT !.pc = "gen"]
  <2>1. c \in Call /\ c.pc = "gen" /\ c.s = q.s /\ c.inner = q.inner
    BY <1>3 DEF Call, Pcs
  <2>2. call' = [call EXCEPT ![t] = c]
    BY <1>7
  <2>3. q.s \in keys
    BY <1>7
  <2>4. c.s \in keys /\ c.s # None /\ c.inner = inner[c.s]
    BY <1>0, <1>1, <1>3, <2>1, <2>3
  <2> HIDE DEF c
  <2>5. Sound(c) /\ c.pc \notin Putting \cup {"publish"}
    BY <2>1, <2>4 DEF Sound, Reading, Putting
  <2> QED
    BY <2>1, <2>2, <2>5
<1>8. CASE call' = [call EXCEPT ![t] = Fresh(q, "probe")]
  BY <1>0, <1>3, <1>8, FreshSound DEF Putting
<1>9. CASE /\ o # None /\ o.inner = q.inner
           /\ call' = [call EXCEPT ![t] = Answered(q, o.archive)]
  <2>1. o.archive \in Answers /\ Right(q.inner, o.archive)
    BY <1>0, <1>9 DEF ReadInv, TypeOK, Stored
  <2>2. PICK c \in Call : /\ c = Answered(q, o.archive) /\ Sound(c)
                          /\ c.pc \in {"claim", "native"}
    <3>1. o.archive \in Archives => o.archive = name[inner[q.s]]
      BY <1>1, <1>3, <2>1 DEF Right
    <3> QED
      BY <1>0, <1>3, <2>1, <3>1, AnsweredTo
  <2> QED
    BY <1>9, <2>2 DEF Putting
<1> QED BY <1>5, <1>6, <1>7, <1>8, <1>9

-----------------------------------------------------------------------------
(* ResolveSource and SourceInsert.                                          *)

(* ResolveSource asks for the name of the backing stream, which cannot change *)

(* while the read is in it.                                                 *)
LEMMA ProbeKeeps ==
  ASSUME ReadInv, NEW t \in Threads, Frame, Probe(t)
  PROVE  ReadInv'
<1> USE DEF At
<1>0. PICK r \in Call : /\ r = call[t] /\ r.pc = "probe"
                        /\ r.s \in Sources /\ r.s # None
  BY Facts DEF Probe
<1>1. PICK i \in Inners : i = inner[r.s]
  BY <1>0 DEF ReadInv, TypeOK
<1>2. SUFFICES ASSUME TRUE
               PROVE  \E c \in Call : /\ call' = [call EXCEPT ![t] = c] /\ Sound(c)
                                      /\ c.pc \notin Putting \cup {"publish"}
  <2>1. PICK c \in Call : /\ call' = [call EXCEPT ![t] = c] /\ Sound(c)
                          /\ c.pc \notin Putting \cup {"publish"}
    BY <1>2
  <2>2. UNCHANGED tableVars /\ call[t].pc = "probe"
    BY <1>0, Zenon DEF Probe
  <2> QED
    BY <2>1, <2>2, CallMove DEF Frame, Putting
<1>3. CASE Goto(t, "native")
  <2> DEFINE c == [r EXCEPT !.pc = "native"]
  <2>1. c \in Call /\ c.pc = "native" /\ c.s = r.s
    BY <1>0 DEF Call, Pcs
  <2>2. call' = [call EXCEPT ![t] = c]
    BY <1>0, <1>3, Zenon DEF Goto
  <2> HIDE DEF c
  <2> QED
    BY <1>0, <2>1, <2>2 DEF Sound, Reading, Putting
<1>4. ASSUME NEW a \in Answers, NEW u \in Nat, Right(i, a),
             call' = [call EXCEPT ![t] =
                        [[r EXCEPT !.inner = i, !.pc = "insert"]
                            EXCEPT !.archive = a, !.until = u]]
      PROVE  \E c \in Call : /\ call' = [call EXCEPT ![t] = c] /\ Sound(c)
                             /\ c.pc \notin Putting \cup {"publish"}
  <2> DEFINE d == [r EXCEPT !.inner = i, !.pc = "insert"]
             c == [d EXCEPT !.archive = a, !.until = u]
  <2>1. d \in Call /\ d.pc = "insert" /\ d.s = r.s /\ d.inner = i
    BY DEF Call, Pcs
  <2> HIDE DEF d
  <2>2. c \in Call /\ c.pc = "insert" /\ c.s = r.s /\ c.inner = i /\ c.archive = a
    BY <2>1 DEF Call
  <2>3. call' = [call EXCEPT ![t] = c]
    BY <1>4 DEF d
  <2> HIDE DEF c
  <2> QED
    BY <1>0, <1>1, <1>4, <2>2, <2>3 DEF Sound, Reading, Putting
<1>5. Right(i, Negative) /\ Negative \in Answers
  BY ReadAssumption DEF Right, Answers
<1>6. /\ now + RetryMs \in Nat /\ now + NegativeMs \in Nat /\ Never \in Nat
      /\ name[i] # None => name[i] \in Answers /\ Right(i, name[i])
  BY ReadAssumption DEF ReadInv, TypeOK, Never, Answers, Right
<1>7. \/ Goto(t, "native")
      \/ \E a \in Answers, u \in Nat :
           /\ Right(i, a)
           /\ call' = [call EXCEPT ![t] =
                        [[r EXCEPT !.inner = i, !.pc = "insert"]
                            EXCEPT !.archive = a, !.until = u]]
  <2> DEFINE d == [r EXCEPT !.inner = i, !.pc = "insert"]
  <2>1. d = [call[t] EXCEPT !.inner = inner[call[t].s], !.pc = "insert"]
    BY <1>0, <1>1, Zenon
  <2>2. d.inner = i
    BY DEF Call
  <2>3. \/ Goto(t, "native")
        \/ call' = [call EXCEPT ![t] =
                      [d EXCEPT !.archive = Negative, !.until = now + RetryMs]]
        \/ call' = [call EXCEPT ![t] =
                      IF name[d.inner] = None
                      THEN [d EXCEPT !.archive = Negative, !.until = now + NegativeMs]
                      ELSE [d EXCEPT !.archive = name[d.inner], !.until = Never]]
    BY <2>1, Zenon DEF Probe
  <2> HIDE DEF d
  <2>4. CASE call' = [call EXCEPT ![t] =
                      IF name[d.inner] = None
                      THEN [d EXCEPT !.archive = Negative, !.until = now + NegativeMs]
                      ELSE [d EXCEPT !.archive = name[d.inner], !.until = Never]]
    <3>1. CASE name[i] = None
      BY <1>5, <1>6, <2>2, <2>4, <3>1, Zenon DEF d
    <3>2. CASE name[i] # None
      BY <1>6, <2>2, <2>4, <3>2, Zenon DEF d
    <3> QED BY <3>1, <3>2
  <2>5. CASE call' = [call EXCEPT ![t] =
                      [d EXCEPT !.archive = Negative, !.until = now + RetryMs]]
    BY <1>5, <1>6, <2>5, Zenon DEF d
  <2> QED BY <2>3, <2>4, <2>5
<1> QED BY <1>3, <1>4, <1>7

(* HookedDoRead is entered.                                                 *)
LEMMA BeginKeeps ==
  ASSUME ReadInv, NEW t \in Threads, Frame, NEW s \in Sources, NEW n \in Lengths,
         Begin(t, s, n)
  PROVE  ReadInv'
<1>1. PICK p \in {"lookup", "native"} :
        call' = [call EXCEPT ![t] = Fresh([s |-> s, n |-> n], p)]
  BY Zenon DEF Begin
<1>2. PICK f \in Call : f = Idle
  BY IdleCall
<1> DEFINE c == [f EXCEPT !.pc = p, !.s = s, !.n = n]
<1>3. c \in Call /\ c.pc = p /\ c.s = s
  BY DEF Call, Pcs
<1>4. Fresh([s |-> s, n |-> n], p) = c
  BY <1>2 DEF Fresh
<1> HIDE DEF c
<1>5. Sound(c)
  BY <1>3, ReadAssumption DEF Sound, Reading
<1>6. UNCHANGED tableVars /\ call[t].pc = "idle"
  BY Zenon DEF Begin, At
<1> QED
  BY <1>1, <1>3, <1>4, <1>5, <1>6, CallMove DEF Frame, Putting

(* A thread with an answer of its own goes to its archive or the stock read. *)
LEMMA ResolvedTo ==
  ASSUME ReadInv, NEW t \in Threads, call[t].pc \in Finding, Resolved(t)
  PROVE  \E c \in Call : /\ call' = [call EXCEPT ![t] = c] /\ Sound(c)
                         /\ c.pc \in {"claim", "native"} /\ c.s = call[t].s
<1>0. PICK r \in Call : /\ r = call[t] /\ r.s \in Sources /\ r.inner = inner[r.s]
                        /\ r.archive \in Answers /\ Right(r.inner, r.archive)
  BY Facts DEF Finding, Putting, ReadInv, Found
<1>1. r.archive \in Archives => r.archive = name[inner[r.s]]
  BY <1>0 DEF Right
<1>2. PICK c \in Call : /\ c = Answered(r, r.archive) /\ Sound(c)
                        /\ c.pc \in {"claim", "native"} /\ c.s = r.s
  BY <1>0, <1>1, AnsweredTo
<1>3. call' = [call EXCEPT ![t] = c]
  BY <1>0, <1>2, Zenon DEF Resolved
<1> QED BY <1>0, <1>2, <1>3

(* SourceInsert with no free slot: the overflow map gets a right answer.    *)
LEMMA InsertFullKeeps ==
  ASSUME ReadInv, NEW t \in Threads, Frame, At(t, "insert"), mutex = None, InsertFull(t)
  PROVE  ReadInv'
<1> USE DEF At, My
<1>0. PICK r \in Call : /\ r = call[t] /\ r.s \in Sources /\ r.inner \in Inners
                        /\ r.inner = inner[r.s] /\ r.until \in Nat /\ r.pc = "insert"
                        /\ r.archive \in Answers /\ Right(r.inner, r.archive)
  BY Facts DEF Finding, ReadInv, Found, TypeOK, Call
<1>1. PICK c \in Call : /\ call' = [call EXCEPT ![t] = c] /\ Sound(c)
                        /\ c.pc \in {"claim", "native"} /\ c.s = r.s
  BY <1>0, ResolvedTo DEF InsertFull, Finding
<1>2. CASE UNCHANGED overflow
  BY <1>0, <1>1, <1>2, CallMove DEF InsertFull, Frame, Putting, tableVars
<1>3. CASE overflow' # overflow
  <2> DEFINE o == [inner |-> r.inner, archive |-> r.archive, until |-> r.until]
  <2>1. /\ overflow' = [overflow EXCEPT ![r.s] = o]
        /\ r.s \notin keys /\ Cardinality(keys) >= room
        /\ UNCHANGED <<keys, slot, mutex>>
    BY <1>0, <1>3, Zenon DEF InsertFull
  <2>2. o \in [inner : Inners, archive : Answers, until : Nat]
    BY <1>0
  <2>3. o.inner = r.inner /\ o.archive = r.archive
    OBVIOUS
  <2> HIDE DEF o
  <2>4. /\ call \in [Threads -> Call]
        /\ \A u \in Threads : call'[u] = IF u = t THEN c ELSE call[u]
    BY <1>1 DEF ReadInv, TypeOK
  <2> USE <1>1, <2>1, <2>4 DEF ReadInv, worldVars, Frame
  <2>5. TypeOK'
    BY <2>2 DEF TypeOK
  <2>6. Placed'
    BY <1>0, ReadAssumption DEF Placed, Sound, Putting, Reading
  <2>7. OddWhileWritten'
    BY <1>0 DEF OddWhileWritten, Putting
  <2>8. Found'
    <3> SUFFICES ASSUME NEW u \in Threads PROVE Found!(u)'
      BY DEF Found
    <3> QED BY <1>0 DEF Found, Finding, Putting, Right, Sound, Reading
  <2>9. Stored'
    BY <1>0, <2>3 DEF Stored, Right, TypeOK
  <2>10. Seen'
    BY <1>0 DEF Seen, Reading
  <2>11. Full'
    BY ReadAssumption DEF Full, Placed
  <2>12. Claimed' /\ ClaimsInOrder'
    BY DEF Claimed, ClaimsInOrder, Sound
  <2>13. Deadlines'
    BY DEF Deadlines, Sound
  <2> QED BY <2>5, <2>6, <2>7, <2>8, <2>9, <2>10, <2>11, <2>12, <2>13
<1> QED BY <1>2, <1>3

(* SourceInsert takes a free slot, which no reader can reach before its key. *)
LEMMA InsertNewKeeps ==
  ASSUME ReadInv, NEW t \in Threads, Frame, At(t, "insert"), mutex = None, InsertNew(t)
  PROVE  ReadInv'
<1> USE DEF At, My
<1>0. PICK r \in Call : /\ r = call[t] /\ r.s \in Sources /\ r.inner \in Inners
                        /\ r.inner = inner[r.s] /\ r.until \in Nat /\ r.pc = "insert"
                        /\ r.archive \in Answers /\ Right(r.inner, r.archive)
  BY Facts DEF Finding, ReadInv, Found, TypeOK, Call
<1> DEFINE c == [r EXCEPT !.pc = "publish"]
<1>1. /\ c \in Call /\ c.pc = "publish" /\ c.s = r.s /\ c.inner = r.inner
      /\ c.archive = r.archive
  BY DEF Call, Pcs
<1>2. call' = [call EXCEPT ![t] = c]
  BY <1>0, Zenon DEF InsertNew, Goto
<1>3. PICK x \in Slot : x = slot[r.s]
  BY <1>0 DEF ReadInv, TypeOK
<1> DEFINE e == [x EXCEPT !.inner = r.inner, !.archive = r.archive, !.until = r.until]
<1>4. e \in Slot /\ e.gen = x.gen /\ e.inner = r.inner /\ e.archive = r.archive
  BY <1>0 DEF Slot
<1>5. slot' = [slot EXCEPT ![r.s] = e]
  BY <1>0, <1>3, Zenon DEF InsertNew
<1>6. /\ r.s \notin keys /\ Cardinality(keys) < room
      /\ mutex' = t /\ UNCHANGED <<keys, overflow>>
  BY <1>0, Zenon DEF InsertNew
<1> HIDE DEF c, e
<1>7. /\ call \in [Threads -> Call]
      /\ \A u \in Threads : call'[u] = IF u = t THEN c ELSE call[u]
  BY <1>1, <1>2 DEF ReadInv, TypeOK
<1>8. /\ slot \in [Sources -> Slot]
      /\ \A s \in Sources : slot'[s] = IF s = r.s THEN e ELSE slot[s]
  BY <1>4, <1>5 DEF ReadInv, TypeOK
<1>9. \A u \in Threads : call[u].pc \notin Putting \cup {"publish"}
  BY ReadAssumption DEF ReadInv, Placed
<1>10. \A u \in Threads : call[u].s = r.s => call[u].pc \notin Reading \cup {"win"}
  BY <1>6 DEF ReadInv, Placed
<1>11. slot[r.s].gen % 2 # 1 /\ e.gen % 2 = 0
  BY <1>0, <1>3, <1>4, <1>9 DEF ReadInv, OddWhileWritten, Slot
<1> USE <1>1, <1>6, <1>7 DEF ReadInv, worldVars, Frame
<1>12. TypeOK'
  BY <1>0, <1>2, <1>4, <1>5 DEF TypeOK
<1>13. Placed'
  BY <1>0, <1>9, ReadAssumption DEF Placed, Putting, Reading
<1>14. OddWhileWritten'
  BY <1>8, <1>9, <1>11, <1>3, <1>4 DEF OddWhileWritten, Putting
<1>15. Found'
  <2> SUFFICES ASSUME NEW u \in Threads PROVE Found!(u)'
    BY DEF Found
  <2>1. CASE u = t
    BY <2>1, <1>0, <1>4, <1>8 DEF Finding, Putting, Right, Reading
  <2>2. CASE u # t
    <3>1. call'[u] = call[u] /\ call[u].pc \notin Putting \cup {"publish"}
      BY <2>2, <1>9
    <3> QED BY <3>1 DEF Found, Finding, Putting, Right
  <2> QED BY <2>1, <2>2
<1>16. Stored'
  <2> SUFFICES ASSUME NEW s \in Sources PROVE Stored!(s)'
    BY DEF Stored
  <2>1. CASE s = r.s
    <3>1. slot'[s].inner = r.inner /\ slot'[s].archive = r.archive /\ s \notin keys'
      BY <2>1, <1>4, <1>8
    <3> QED BY <3>1, <1>0 DEF Stored, Right
  <2>2. CASE s # r.s
    <3>1. slot'[s] = slot[s]
      BY <2>2, <1>8
    <3> QED BY <3>1 DEF Stored, Right
  <2> QED BY <2>1, <2>2
<1>17. Seen'
  <2> SUFFICES ASSUME NEW u \in Threads PROVE Seen!(u)'
    BY DEF Seen
  <2>1. CASE u = t
    BY <2>1 DEF Reading
  <2>2. CASE u # t /\ call[u].pc \in Reading
    <3>1. call[u].s \in Sources /\ call[u].s # r.s
      BY <2>2, <1>10, Facts DEF Reading
    <3> QED BY <2>2, <3>1, <1>8 DEF Seen, Reading
  <2> QED BY <2>1, <2>2 DEF Reading
<1>18. Full'
  <2>1. Cardinality(keys) \in Nat /\ room \in Nat
    BY ReadAssumption, FS_Subset, FS_CardinalityType DEF TypeOK
  <2> QED BY <2>1, <1>6 DEF Full
<1>19. Claimed' /\ ClaimsInOrder'
  BY DEF Claimed, ClaimsInOrder
<1>20. Deadlines'
  BY <1>8 DEF Deadlines
<1> QED BY <1>12, <1>13, <1>14, <1>15, <1>16, <1>17, <1>18, <1>19, <1>20

(* SourceInsert keeps a positive answer, or makes the sequence number odd.  *)
LEMMA InsertKnownKeeps ==
  ASSUME ReadInv, NEW t \in Threads, Frame, At(t, "insert"), mutex = None, InsertKnown(t)
  PROVE  ReadInv'
<1> USE DEF At, My
<1>0. PICK r \in Call : /\ r = call[t] /\ r.s \in Sources /\ r.inner \in Inners
                        /\ r.inner = inner[r.s] /\ r.until \in Nat /\ r.pc = "insert"
                        /\ r.archive \in Answers /\ Right(r.inner, r.archive)
  BY Facts DEF Finding, ReadInv, Found, TypeOK, Call
<1>1. CASE Resolved(t) /\ UNCHANGED <<slot, mutex>>
  <2>1. PICK c \in Call : /\ call' = [call EXCEPT ![t] = c] /\ Sound(c)
                          /\ c.pc \in {"claim", "native"} /\ c.s = r.s
    BY <1>0, <1>1, ResolvedTo DEF Finding
  <2>2. UNCHANGED tableVars
    BY <1>1, Zenon DEF InsertKnown, tableVars
  <2> QED BY <1>0, <2>1, <2>2, CallMove DEF Frame, Putting
<1>2. CASE ~(Resolved(t) /\ UNCHANGED <<slot, mutex>>)
  <2> DEFINE c == [r EXCEPT !.pc = "putInner"]
  <2>1. /\ c \in Call /\ c.pc = "putInner" /\ c.s = r.s /\ c.inner = r.inner
        /\ c.archive = r.archive
    BY DEF Call, Pcs
  <2>2. call' = [call EXCEPT ![t] = c]
    BY <1>0, <1>2, Zenon DEF InsertKnown, Goto
  <2>3. PICK x \in Slot : x = slot[r.s]
    BY <1>0 DEF ReadInv, TypeOK
  <2> DEFINE e == [x EXCEPT !.gen = @ + 1]
  <2>4. /\ e \in Slot /\ x.gen \in Nat /\ e.gen = x.gen + 1
        /\ e.inner = x.inner /\ e.archive = x.archive /\ e.until = x.until
    BY DEF Slot
  <2>5. slot' = [slot EXCEPT ![r.s] = e]
    BY <1>0, <1>2, <2>3, Zenon DEF InsertKnown
  <2>6. r.s \in keys /\ mutex' = t /\ UNCHANGED <<keys, overflow>>
    BY <1>0, <1>2, Zenon DEF InsertKnown
  <2> HIDE DEF c, e
  <2>7. /\ call \in [Threads -> Call]
        /\ \A u \in Threads : call'[u] = IF u = t THEN c ELSE call[u]
    BY <2>1, <2>2 DEF ReadInv, TypeOK
  <2>8. /\ slot \in [Sources -> Slot]
        /\ \A s \in Sources : slot'[s] = IF s = r.s THEN e ELSE slot[s]
    BY <2>4, <2>5 DEF ReadInv, TypeOK
  <2>9. \A u \in Threads : call[u].pc \notin Putting \cup {"publish"}
    BY ReadAssumption DEF ReadInv, Placed
  <2>10. x.gen % 2 = 0 /\ e.gen % 2 = 1
    BY <1>0, <2>3, <2>4, <2>9 DEF ReadInv, OddWhileWritten
  <2> USE <2>1, <2>6, <2>7 DEF ReadInv, worldVars, Frame
  <2>12. TypeOK'
    BY <1>0, <2>2, <2>4, <2>5 DEF TypeOK
  <2>13. Placed'
    BY <1>0, <2>9, ReadAssumption DEF Placed, Putting, Reading
  <2>14. OddWhileWritten'
    BY <2>8, <2>9, <2>10, <2>3, <2>4 DEF OddWhileWritten, Putting
  <2>15. Found'
    <3> SUFFICES ASSUME NEW u \in Threads PROVE Found!(u)'
      BY DEF Found
    <3> QED BY <1>0, <2>4, <2>8, <2>9 DEF Found, Finding, Putting, Right, Reading
  <2>16. Stored'
    <3> SUFFICES ASSUME NEW s \in Sources PROVE Stored!(s)'
      BY DEF Stored
    <3>1. CASE s = r.s
      <4>1. slot'[s].gen % 2 = 1 /\ slot'[s].inner = slot[s].inner
            /\ slot'[s].archive = slot[s].archive
        BY <3>1, <2>3, <2>4, <2>8, <2>10
      <4> QED BY <4>1 DEF Stored, Right
    <3>2. CASE s # r.s
      BY <3>2, <2>8 DEF Stored, Right
    <3> QED BY <3>1, <3>2
  <2>17. Seen'
    <3> SUFFICES ASSUME NEW u \in Threads PROVE Seen!(u)'
      BY DEF Seen
    <3>1. CASE u = t
      BY <3>1 DEF Reading
    <3>2. CASE u # t /\ call[u].pc \in Reading
      <4>1. call[u].s \in Sources /\ call[u].gen \in Nat
        BY <3>2, Facts DEF Reading, Call
      <4>2. CASE call[u].s = r.s
        <5>1. slot'[call[u].s] = e /\ slot[call[u].s] = x
          BY <4>2, <2>3, <2>8, <1>0
        <5> QED BY <3>2, <4>1, <5>1, <2>4, <2>10 DEF Seen, Reading
      <4>3. CASE call[u].s # r.s
        BY <3>2, <4>1, <4>3, <2>8 DEF Seen, Reading
      <4> QED BY <4>2, <4>3
    <3> QED BY <3>1, <3>2 DEF Reading
  <2>18. Full'
    BY DEF Full
  <2>19. Claimed' /\ ClaimsInOrder'
    BY DEF Claimed, ClaimsInOrder
  <2>20. Deadlines'
    BY <2>3, <2>4, <2>8 DEF Deadlines
  <2> QED BY <2>12, <2>13, <2>14, <2>15, <2>16, <2>17, <2>18, <2>19, <2>20
<1> QED BY <1>1, <1>2

(* SourceInsert stores the key: the slot behind it is complete.             *)
LEMMA PublishKeeps ==
  ASSUME ReadInv, NEW t \in Threads, Frame, Publish(t)
  PROVE  ReadInv'
<1> USE DEF At, My
<1>0. PICK r \in Call : /\ r = call[t] /\ r.s \in Sources /\ r.inner \in Inners
                        /\ r.inner = inner[r.s] /\ r.until \in Nat /\ r.pc = "publish"
                        /\ r.archive \in Answers /\ Right(r.inner, r.archive)
  <2>1. call[t].pc = "publish"
    BY Zenon DEF Publish
  <2>2. /\ call[t] \in Call /\ call[t].s \in Sources
        /\ call[t].archive \in Answers /\ call[t].inner = inner[call[t].s]
        /\ Right(call[t].inner, call[t].archive)
    BY <2>1, Facts DEF Finding, ReadInv, Found
  <2>3. call[t].until \in Nat /\ inner[call[t].s] \in Inners
    BY <2>2 DEF ReadInv, TypeOK, Call
  <2> QED BY <2>1, <2>2, <2>3
<1>1. PICK c \in Call : /\ call' = [call EXCEPT ![t] = c] /\ Sound(c)
                        /\ c.pc \in {"claim", "native"} /\ c.s = r.s
  BY <1>0, ResolvedTo DEF Publish, Finding
<1>2. /\ keys' = keys \cup {r.s} /\ mutex' = None /\ UNCHANGED <<slot, overflow>>
  BY <1>0, Zenon DEF Publish
<1>3. /\ call \in [Threads -> Call]
      /\ \A u \in Threads : call'[u] = IF u = t THEN c ELSE call[u]
  BY <1>1 DEF ReadInv, TypeOK
<1>4. \A u \in Threads : u # t => call[u].pc \notin Putting \cup {"publish"}
  BY <1>0 DEF ReadInv, Placed
<1>5. slot[r.s].inner = r.inner /\ slot[r.s].archive = r.archive
  BY <1>0 DEF ReadInv, Found
<1> USE <1>1, <1>2, <1>3 DEF ReadInv, worldVars, Frame
<1>6. TypeOK'
  BY <1>0 DEF TypeOK
<1>7. Placed'
  BY <1>0, <1>4, ReadAssumption DEF Placed, Putting, Reading, Sound
<1>8. OddWhileWritten'
  BY <1>0 DEF OddWhileWritten, Putting
<1>9. Found'
  <2> SUFFICES ASSUME NEW u \in Threads PROVE Found!(u)'
    BY DEF Found
  <2> QED BY <1>0 DEF Found, Finding, Putting, Right, Sound, Reading
<1>10. Stored'
  BY <1>0, <1>5 DEF Stored, Right
<1>11. Seen'
  BY DEF Seen, Reading
<1>12. Full'
  BY <1>0 DEF Full
<1>13. Claimed' /\ ClaimsInOrder'
  BY DEF Claimed, ClaimsInOrder, Sound
<1>14. Deadlines'
  BY DEF Deadlines, Sound
<1> QED BY <1>6, <1>7, <1>8, <1>9, <1>10, <1>11, <1>12, <1>13, <1>14

(* Stores into a slot under an odd sequence number: no copy that was begun  *)

(* before can be accepted, and no other writer is there.                    *)
LEMMA PutMove ==
  ASSUME ReadInv, NEW t \in Threads, NEW c \in Call, NEW e \in Slot,
         NEW s \in Sources, s = call[t].s, c.s = s,
         call[t].pc \in Putting, c.pc \in Putting,
         c.inner = call[t].inner, c.archive = call[t].archive,
         e.gen = slot[s].gen, e.inner \in Inners, e.archive \in Answers,
         c.pc \in {"putArchive", "putUntil", "putGeneration"} => e.inner = c.inner,
         c.pc \in {"putUntil", "putGeneration"} => e.archive = c.archive,
         call' = [call EXCEPT ![t] = c], slot' = [slot EXCEPT ![s] = e],
         UNCHANGED <<worldVars, cursor, taken, keys, overflow, mutex>>,
         probed' \in [Sources -> Int],
         \A z \in Sources : probed'[z] # 0 - RetryMs =>
           probed'[z] = probed[z] /\ slot'[z].until = slot[z].until
  PROVE  ReadInv'
<1> USE DEF At, My
<1>1. /\ call \in [Threads -> Call]
      /\ \A u \in Threads : call'[u] = IF u = t THEN c ELSE call[u]
  BY DEF ReadInv, TypeOK
<1>2. /\ slot \in [Sources -> Slot]
      /\ \A z \in Sources : slot'[z] = IF z = s THEN e ELSE slot[z]
  BY DEF ReadInv, TypeOK
<1>3. /\ mutex = t /\ s \in keys
      /\ \A u \in Threads : u # t => call[u].pc \notin Putting \cup {"publish"}
  BY DEF ReadInv, Placed
<1>4. e.gen \in Nat /\ e.gen % 2 = 1 /\ slot[s].gen % 2 = 1
  BY DEF ReadInv, OddWhileWritten, Slot
<1> USE <1>1 DEF ReadInv, worldVars
<1>6. TypeOK'
  BY DEF TypeOK
<1>7. Placed'
  BY <1>3, ReadAssumption DEF Placed, Putting, Reading
<1>8. OddWhileWritten'
  BY <1>2 DEF OddWhileWritten
<1>9. Found'
  <2> SUFFICES ASSUME NEW u \in Threads PROVE Found!(u)'
    BY DEF Found
  <2> QED BY <1>2, <1>3 DEF Found, Finding, Putting, Right, Reading
<1>10. Stored'
  <2> SUFFICES ASSUME NEW z \in Sources PROVE Stored!(z)'
    BY DEF Stored
  <2>1. CASE z = s
    BY <2>1, <1>2, <1>4 DEF Stored, Right
  <2>2. CASE z # s
    BY <2>2, <1>2 DEF Stored, Right
  <2> QED BY <2>1, <2>2
<1>11. Seen'
  <2> SUFFICES ASSUME NEW u \in Threads PROVE Seen!(u)'
    BY DEF Seen
  <2>1. CASE u = t
    BY <2>1 DEF Reading, Putting
  <2>2. CASE u # t /\ call[u].pc \in Reading
    <3>1. call[u].s \in Sources /\ call[u].gen \in Nat
      BY <2>2, Facts DEF Reading, Call
    <3>2. CASE call[u].s = s
      <4>1. slot'[call[u].s] = e
        BY <3>2, <1>2
      <4> QED BY <2>2, <3>1, <3>2, <4>1, <1>4 DEF Seen, Reading
    <3>3. CASE call[u].s # s
      BY <2>2, <3>1, <3>3, <1>2 DEF Seen, Reading
    <3> QED BY <3>2, <3>3
  <2> QED BY <2>1, <2>2 DEF Reading
<1>12. Full'
  BY DEF Full, Putting
<1>13. Claimed' /\ ClaimsInOrder'
  BY DEF Claimed, ClaimsInOrder, Putting
<1>14. Deadlines'
  BY DEF Deadlines, Putting
<1> QED BY <1>6, <1>7, <1>8, <1>9, <1>10, <1>11, <1>12, <1>13, <1>14

(* How such a step records refreshes, as in SourceStep.                     *)
Recorded(t) ==
  probed' = [s \in Sources |->
       IF call[t].s = s /\ Wins(t) THEN call[t].at
       ELSE IF call[t].s = s /\ At(t, "putUntil") THEN 0 - RetryMs ELSE probed[s]]

(* The three stores of SourceInsert into a known slot.                      *)
LEMMA PutsKeep ==
  ASSUME ReadInv, NEW t \in Threads, UNCHANGED <<worldVars, cursor, taken>>, Recorded(t),
         PutInner(t) \/ PutArchive(t) \/ PutUntil(t)
  PROVE  ReadInv'
<1> USE DEF At, My
<1>0. PICK r \in Call : /\ r = call[t] /\ r.s \in Sources /\ r.inner \in Inners
                        /\ r.until \in Nat /\ r.pc \in Putting /\ r.archive \in Answers
                        /\ r.s \in keys
  <2>1. call[t].pc \in Putting
    BY Zenon DEF Putting, PutInner, PutArchive, PutUntil
  <2>2. /\ call[t] \in Call /\ call[t].s \in keys /\ call[t].s \in Sources
        /\ call[t].archive \in Answers /\ call[t].inner = inner[call[t].s]
    BY <2>1, Facts DEF Finding, Putting, ReadInv, Found, Placed
  <2> QED BY <2>1, <2>2 DEF ReadInv, TypeOK, Call
<1>1. PICK x \in Slot : x = slot[r.s] /\ x.inner \in Inners /\ x.archive \in Answers
  BY <1>0 DEF ReadInv, TypeOK, Stored
<1>2. /\ RetryMs \in Nat /\ probed \in [Sources -> Int]
      /\ slot \in [Sources -> Slot]
  BY ReadAssumption DEF ReadInv, TypeOK
<1>3. CASE PutInner(t)
  <2> DEFINE c == [r EXCEPT !.pc = "putArchive"]
             e == [x EXCEPT !.inner = r.inner]
  <2>1. /\ c \in Call /\ c.pc = "putArchive" /\ c.s = r.s /\ c.inner = r.inner
        /\ c.archive = r.archive
    BY DEF Call, Pcs
  <2>2. /\ e \in Slot /\ e.gen = x.gen /\ e.inner = r.inner /\ e.archive = x.archive
        /\ e.until = x.until
    BY <1>0 DEF Slot
  <2>3. call' = [call EXCEPT ![t] = c] /\ slot' = [slot EXCEPT ![r.s] = e]
    BY <1>0, <1>1, <1>3, Zenon DEF PutInner, Goto
  <2>4. UNCHANGED <<keys, overflow, mutex>> /\ r.pc = "putInner"
    BY <1>0, <1>3, Zenon DEF PutInner
  <2> HIDE DEF c, e
  <2>5. probed' = probed
    BY <1>0, <1>2, <2>4 DEF Recorded, Wins
  <2>6. \A z \in Sources : slot'[z].until = slot[z].until
    BY <1>0, <1>1, <1>2, <2>2, <2>3
  <2> QED BY <1>0, <1>1, <1>2, <2>1, <2>2, <2>3, <2>4, <2>5, <2>6, PutMove DEF Putting
<1>4. CASE PutArchive(t)
  <2> DEFINE c == [r EXCEPT !.pc = "putUntil"]
             e == [x EXCEPT !.archive = r.archive]
  <2>1. /\ c \in Call /\ c.pc = "putUntil" /\ c.s = r.s /\ c.inner = r.inner
        /\ c.archive = r.archive
    BY DEF Call, Pcs
  <2>2. /\ e \in Slot /\ e.gen = x.gen /\ e.inner = x.inner /\ e.archive = r.archive
        /\ e.until = x.until
    BY <1>0 DEF Slot
  <2>3. call' = [call EXCEPT ![t] = c] /\ slot' = [slot EXCEPT ![r.s] = e]
    BY <1>0, <1>1, <1>4, Zenon DEF PutArchive, Goto
  <2>4. UNCHANGED <<keys, overflow, mutex>> /\ r.pc = "putArchive"
    BY <1>0, <1>4, Zenon DEF PutArchive
  <2> HIDE DEF c, e
  <2>5. probed' = probed
    BY <1>0, <1>2, <2>4 DEF Recorded, Wins
  <2>6. \A z \in Sources : slot'[z].until = slot[z].until
    BY <1>0, <1>1, <1>2, <2>2, <2>3
  <2>7. x.inner = r.inner
    BY <1>0, <1>1, <2>4 DEF ReadInv, Found
  <2> QED BY <1>0, <1>1, <1>2, <2>1, <2>2, <2>3, <2>4, <2>5, <2>6, <2>7, PutMove DEF Putting
<1>5. CASE PutUntil(t)
  <2> DEFINE c == [r EXCEPT !.pc = "putGeneration"]
             e == [x EXCEPT !.until = r.until]
  <2>1. /\ c \in Call /\ c.pc = "putGeneration" /\ c.s = r.s /\ c.inner = r.inner
        /\ c.archive = r.archive
    BY DEF Call, Pcs
  <2>2. e \in Slot /\ e.gen = x.gen /\ e.inner = x.inner /\ e.archive = x.archive
    BY <1>0 DEF Slot
  <2>3. call' = [call EXCEPT ![t] = c] /\ slot' = [slot EXCEPT ![r.s] = e]
    BY <1>0, <1>1, <1>5, Zenon DEF PutUntil, Goto
  <2>4. UNCHANGED <<keys, overflow, mutex>> /\ r.pc = "putUntil"
    BY <1>0, <1>5, Zenon DEF PutUntil
  <2> HIDE DEF c, e
  <2>5. /\ probed' \in [Sources -> Int]
        /\ \A z \in Sources : probed'[z] = IF z = r.s THEN 0 - RetryMs ELSE probed[z]
    BY <1>0, <1>2, <2>4 DEF Recorded, Wins
  <2>6. \A z \in Sources : z # r.s => slot'[z].until = slot[z].until
    BY <1>0, <1>1, <1>2, <2>2, <2>3
  <2>7. x.inner = r.inner /\ x.archive = r.archive
    BY <1>0, <1>1, <2>4 DEF ReadInv, Found
  <2>8. \A z \in Sources : probed'[z] # 0 - RetryMs =>
          probed'[z] = probed[z] /\ slot'[z].until = slot[z].until
    BY <2>5, <2>6
  <2>9. /\ r.pc \in Putting /\ c.pc \in Putting /\ c.pc = "putGeneration"
        /\ e.inner = c.inner /\ e.archive = c.archive
    BY <2>1, <2>2, <2>4, <2>7 DEF Putting
  <2> QED BY <1>0, <1>1, <2>1, <2>2, <2>3, <2>4, <2>5, <2>8, <2>9, PutMove
<1> QED BY <1>3, <1>4, <1>5

(* SourceInsert makes the sequence number even again: the pair in the slot is *)

(* right, and copies begun before do not match the number.                  *)
LEMMA PutGenerationKeeps ==
  ASSUME ReadInv, NEW t \in Threads, Frame, PutGeneration(t)
  PROVE  ReadInv'
<1> USE DEF At, My
<1>0. PICK r \in Call : /\ r = call[t] /\ r.s \in Sources /\ r.inner \in Inners
                        /\ r.inner = inner[r.s] /\ r.pc = "putGeneration"
                        /\ r.archive \in Answers /\ Right(r.inner, r.archive)
                        /\ r.s \in keys
  BY Facts DEF Finding, ReadInv, Found, TypeOK, Call, Putting, PutGeneration, Placed
<1>1. PICK c \in Call : /\ call' = [call EXCEPT ![t] = c] /\ Sound(c)
                        /\ c.pc \in {"claim", "native"} /\ c.s = r.s
  BY <1>0, ResolvedTo DEF PutGeneration, Finding, Putting
<1>2. PICK x \in Slot : x = slot[r.s]
  BY <1>0 DEF ReadInv, TypeOK
<1> DEFINE e == [x EXCEPT !.gen = @ + 1]
<1>3. /\ e \in Slot /\ x.gen \in Nat /\ e.gen = x.gen + 1
      /\ e.inner = x.inner /\ e.archive = x.archive /\ e.until = x.until
  BY DEF Slot
<1>4. slot' = [slot EXCEPT ![r.s] = e]
  BY <1>0, <1>2, Zenon DEF PutGeneration
<1>5. mutex' = None /\ UNCHANGED <<keys, overflow>>
  BY Zenon DEF PutGeneration
<1> HIDE DEF e
<1>6. /\ call \in [Threads -> Call]
      /\ \A u \in Threads : call'[u] = IF u = t THEN c ELSE call[u]
  BY <1>1 DEF ReadInv, TypeOK
<1>7. /\ slot \in [Sources -> Slot]
      /\ \A s \in Sources : slot'[s] = IF s = r.s THEN e ELSE slot[s]
  BY <1>3, <1>4 DEF ReadInv, TypeOK
<1>8. mutex = t /\ \A u \in Threads : u # t => call[u].pc \notin Putting \cup {"publish"}
  BY <1>0 DEF ReadInv, Placed, Putting
<1>9. x.gen % 2 = 1 /\ e.gen % 2 = 0
  BY <1>0, <1>2, <1>3 DEF ReadInv, OddWhileWritten, Putting
<1>10. x.inner = r.inner /\ x.archive = r.archive
  BY <1>0, <1>2 DEF ReadInv, Found
<1> USE <1>1, <1>5, <1>6 DEF ReadInv, worldVars, Frame
<1>12. TypeOK'
  BY <1>0, <1>3, <1>4 DEF TypeOK
<1>13. Placed'
  BY <1>0, <1>8, ReadAssumption DEF Placed, Putting, Reading, Sound
<1>14. OddWhileWritten'
  BY <1>2, <1>7, <1>8, <1>9, <1>0 DEF OddWhileWritten, Putting
<1>15. Found'
  <2> SUFFICES ASSUME NEW u \in Threads PROVE Found!(u)'
    BY DEF Found
  <2> QED BY <1>0, <1>7, <1>8 DEF Found, Finding, Putting, Right, Reading, Sound
<1>16. Stored'
  <2> SUFFICES ASSUME NEW s \in Sources PROVE Stored!(s)'
    BY DEF Stored
  <2>1. CASE s = r.s
    BY <2>1, <1>0, <1>2, <1>3, <1>7, <1>10 DEF Stored, Right
  <2>2. CASE s # r.s
    BY <2>2, <1>7 DEF Stored, Right
  <2> QED BY <2>1, <2>2
<1>17. Seen'
  <2> SUFFICES ASSUME NEW u \in Threads PROVE Seen!(u)'
    BY DEF Seen
  <2>1. CASE u = t
    BY <2>1 DEF Reading
  <2>2. CASE u # t /\ call[u].pc \in Reading
    <3>1. call[u].s \in Sources /\ call[u].gen \in Nat
      BY <2>2, Facts DEF Reading, Call
    <3>2. CASE call[u].s = r.s
      <4>1. slot'[call[u].s] = e /\ slot[call[u].s] = x
        BY <3>2, <1>2, <1>7, <1>0
      <4> QED BY <2>2, <3>1, <4>1, <1>3, <1>9 DEF Seen, Reading
    <3>3. CASE call[u].s # r.s
      BY <2>2, <3>1, <3>3, <1>7 DEF Seen, Reading
    <3> QED BY <3>2, <3>3
  <2> QED BY <2>1, <2>2 DEF Reading
<1>18. Full'
  BY DEF Full
<1>19. Claimed' /\ ClaimsInOrder'
  BY DEF Claimed, ClaimsInOrder, Sound
<1>20. Deadlines'
  BY <1>2, <1>3, <1>7 DEF Deadlines, Sound
<1> QED BY <1>12, <1>13, <1>14, <1>15, <1>16, <1>17, <1>18, <1>19, <1>20

(* The exchange of the deadline of an expired negative answer.              *)
LEMMA WinKeeps ==
  ASSUME ReadInv, NEW t \in Threads, UNCHANGED <<worldVars, cursor, taken>>, Recorded(t),
         Win(t)
  PROVE  ReadInv'
<1> USE DEF At, My
<1>0. PICK r \in Call : /\ r = call[t] /\ r.s \in Sources /\ r.s \in keys
                        /\ r.pc = "win" /\ r.until \in Nat /\ r.at \in 0 .. MaxTime
  BY Facts DEF Call, Win
<1>1. PICK x \in Slot : x = slot[r.s] /\ slot \in [Sources -> Slot]
  BY <1>0 DEF ReadInv, TypeOK
<1>2. RetryMs \in Nat /\ MaxTime \in Nat /\ probed \in [Sources -> Int]
  BY ReadAssumption DEF ReadInv, TypeOK
<1>3. PICK p \in {"native", "probe"} :
        /\ call' = [call EXCEPT ![t] = Fresh(r, p)]
        /\ p = "probe" => slot' = [slot EXCEPT ![r.s].until = r.at + RetryMs]
        /\ p = "native" => slot' = slot
        /\ UNCHANGED <<keys, overflow, mutex>>
  BY <1>0, Zenon DEF Win
<1>4. PICK c \in Call : /\ c = Fresh(r, p) /\ c.pc = p /\ c.s = r.s /\ Sound(c)
  BY <1>0, FreshSound
<1>5. call' = [call EXCEPT ![t] = c] /\ call'[t].pc = p
  BY <1>3, <1>4 DEF ReadInv, TypeOK
<1>6. CASE p = "native"
  <2>1. probed' = probed
    BY <1>0, <1>2, <1>5, <1>6 DEF Recorded, Wins
  <2>2. UNCHANGED tableVars
    BY <1>3, <1>6, Zenon DEF tableVars
  <2> QED BY <1>0, <1>4, <1>5, <1>6, <2>1, <2>2, CallMove DEF Putting
<1>7. CASE p = "probe"
  <2> DEFINE n == r.at + RetryMs
             e == [x EXCEPT !.until = n]
  <2>1. /\ e \in Slot /\ e.gen = x.gen /\ e.inner = x.inner /\ e.archive = x.archive
        /\ e.until = n
    BY <1>0, <1>2 DEF Slot
  <2>2. slot' = [slot EXCEPT ![r.s] = e]
    BY <1>1, <1>3, <1>7, Zenon
  <2> HIDE DEF e
  <2>3. /\ probed' \in [Sources -> Int]
        /\ \A z \in Sources : probed'[z] = IF z = r.s THEN r.at ELSE probed[z]
    BY <1>0, <1>2, <1>5, <1>7 DEF Recorded, Wins
  <2>4. /\ call \in [Threads -> Call]
        /\ \A u \in Threads : call'[u] = IF u = t THEN c ELSE call[u]
    BY <1>5 DEF ReadInv, TypeOK
  <2>5. \A z \in Sources : /\ slot'[z].gen = slot[z].gen /\ slot'[z].inner = slot[z].inner
                           /\ slot'[z].archive = slot[z].archive
                           /\ slot'[z].until = IF z = r.s THEN n ELSE slot[z].until
    BY <1>1, <2>1, <2>2
  <2> USE <1>3, <1>4, <1>7, <2>4 DEF ReadInv, worldVars
  <2>6. TypeOK'
    <3>1. call' \in [Threads -> Call] /\ slot' \in [Sources -> Slot]
      BY <1>1, <1>5, <2>1, <2>2
    <3> QED BY <2>3, <3>1 DEF TypeOK
  <2>7. Placed'
    BY <1>0, ReadAssumption DEF Placed, Putting, Reading, Sound
  <2>8. OddWhileWritten'
    BY <1>0, <2>5 DEF OddWhileWritten, Putting
  <2>9. Found'
    <3> SUFFICES ASSUME NEW u \in Threads PROVE Found!(u)'
      BY DEF Found
    <3>1. CASE u = t
      BY <3>1 DEF Finding, Putting, Reading
    <3>2. CASE u # t /\ call[u].pc # "idle"
      <4>1. call[u].s \in Sources
        BY <3>2, Facts
      <4> QED BY <3>2, <4>1, <2>5 DEF Found, Right
    <3>3. CASE u # t /\ call[u].pc = "idle"
      BY <3>3 DEF Finding, Putting, Reading
    <3> QED BY <3>1, <3>2, <3>3
  <2>10. Stored'
    BY <2>5 DEF Stored, Right
  <2>11. Seen'
    <3> SUFFICES ASSUME NEW u \in Threads PROVE Seen!(u)'
      BY DEF Seen
    <3>1. CASE u = t
      BY <3>1 DEF Reading
    <3>2. CASE u # t /\ call[u].pc \in Reading
      <4>1. call[u].s \in Sources
        BY <3>2, Facts DEF Reading
      <4> QED BY <3>2, <4>1, <2>5 DEF Seen
    <3> QED BY <3>1, <3>2 DEF Reading
  <2>12. Full'
    BY <1>0 DEF Full
  <2>13. Claimed' /\ ClaimsInOrder'
    BY DEF Claimed, ClaimsInOrder, Sound
  <2>14. Deadlines'
    BY <1>0, <2>3, <2>5 DEF Deadlines
  <2> QED BY <2>6, <2>7, <2>8, <2>9, <2>10, <2>11, <2>12, <2>13, <2>14
<1> QED BY <1>6, <1>7

(* Every step of ResolveSource keeps ReadInv.                               *)
LEMMA SourceStepKeeps ==
  ASSUME ReadInv, NEW t \in Threads, SourceStep(t)
  PROVE  ReadInv'
<1>1. UNCHANGED <<worldVars, cursor, taken>> /\ Recorded(t)
  BY Zenon DEF SourceStep, Recorded
<1>2. ~At(t, "win") /\ ~At(t, "putUntil") => Frame
  <2>1. ~At(t, "win") /\ ~At(t, "putUntil") => probed' = probed
    BY <1>1 DEF Recorded, Wins, ReadInv, TypeOK
  <2> QED BY <1>1, <2>1 DEF Frame
<1>3. CASE Lookup(t)
  BY <1>2, <1>3, LookupKeeps DEF Lookup, At
<1>4. CASE ReadGeneration(t) \/ ReadInner(t) \/ ReadArchive(t) \/ ReadUntil(t)
  <2>1. Frame
    BY <1>2, <1>4 DEF ReadGeneration, ReadInner, ReadArchive, ReadUntil, At
  <2> QED BY <1>4, <2>1, CopiesKeep
<1>5. CASE Decide(t)
  BY <1>2, <1>5, DecideKeeps DEF Decide, At
<1>6. CASE Win(t)
  BY <1>1, <1>6, WinKeeps
<1>7. CASE Probe(t)
  BY <1>2, <1>7, ProbeKeeps DEF Probe, At
<1>8. CASE Insert(t)
  <2>1. Frame /\ At(t, "insert") /\ mutex = None
    BY <1>2, <1>8 DEF Insert, At
  <2> QED BY <1>8, <2>1, InsertFullKeeps, InsertNewKeeps, InsertKnownKeeps DEF Insert
<1>9. CASE Publish(t)
  BY <1>2, <1>9, PublishKeeps DEF Publish, At
<1>10. CASE PutInner(t) \/ PutArchive(t) \/ PutUntil(t)
  BY <1>1, <1>10, PutsKeep
<1>11. CASE PutGeneration(t)
  BY <1>2, <1>11, PutGenerationKeeps DEF PutGeneration, At
<1> QED
  BY <1>3, <1>4, <1>5, <1>6, <1>7, <1>8, <1>9, <1>10, <1>11 DEF SourceStep

-----------------------------------------------------------------------------
(* ClaimRange and the copy.                                                 *)

(* A claim at the cursor, inside of the entry, hands out the next bytes.    *)
LEMMA GiveInOrder ==
  ASSUME ReadInv, NEW s \in Sources, NEW n \in 0 .. Size,
         cursor[s] + n <= Size, Give(s, cursor[s], n)
  PROVE  InOrder'
<1>1. PICK k \in 0 .. Outside : k = cursor[s] /\ k + n <= Size
  BY DEF ReadInv, TypeOK
<1>2. Size \in Nat
  BY ReadAssumption
<1>3. PICK old \in Seq(0 .. Size - 1) : old = taken[s]
  BY DEF ReadInv, TypeOK
<1> DEFINE new == [i \in 1 .. n |-> k + i - 1]
           both == old \o new
<1>4. new \in Seq(0 .. Size - 1) /\ Len(new) = n /\ \A i \in 1 .. n : new[i] = k + i - 1
  <2>1. \A i \in 1 .. n : k + i - 1 \in 0 .. Size - 1
    BY <1>1, <1>2
  <2> QED BY <1>2, <2>1
<1>5. /\ cursor' = [cursor EXCEPT ![s] = k + n]
      /\ taken' = [taken EXCEPT ![s] = both]
  <2>1. /\ cursor' = [cursor EXCEPT ![s] = cursor[s] + n]
        /\ taken' = [taken EXCEPT ![s] = taken[s] \o [i \in 1 .. n |-> cursor[s] + i - 1]]
    BY Zenon DEF Give
  <2> QED BY <2>1, <1>1, <1>3, Zenon
<1> HIDE DEF new
<1>6. /\ both \in Seq(0 .. Size - 1) /\ Len(both) = Len(old) + n
      /\ \A i \in 1 .. Len(old) : both[i] = old[i]
      /\ \A i \in 1 .. n : both[Len(old) + i] = new[i]
  <2>1. both \in Seq(0 .. Size - 1) /\ Len(both) = Len(old) + n
    BY <1>3, <1>4, ConcatProperties, Zenon
  <2>2. \A i \in 1 .. Len(old) : both[i] = old[i]
    BY <1>3, <1>4
  <2>3. \A i \in 1 .. n : both[Len(old) + i] = new[i]
    <3> SUFFICES ASSUME NEW i \in 1 .. n PROVE both[Len(old) + i] = new[i]
      OBVIOUS
    <3>1. Len(old) \in Nat
      BY <1>3
    <3>2. Len(old) + i \in 1 .. Len(old) + Len(new) /\ Len(old) + i > Len(old)
      BY <1>4, <3>1
    <3>3. (Len(old) + i) - Len(old) = i
      BY <3>1
    <3> QED BY <1>3, <1>4, <3>2, <3>3, ConcatProperties
  <2> QED BY <2>1, <2>2, <2>3
<1> HIDE DEF both
<1>7. /\ old # <<>> => k = old[Len(old)] + 1
      /\ \A i \in 1 .. Len(old) - 1 : old[i + 1] = old[i] + 1
  BY <1>1, <1>3 DEF ReadInv, Claimed, ClaimsInOrder
<1>8. Len(old) \in Nat /\ (Len(old) = 0 <=> old = <<>>) /\ (Len(both) = 0 <=> both = <<>>)
  BY <1>3, <1>6
<1>9. both # <<>> => k + n = both[Len(both)] + 1
  <2>1. CASE n = 0
    <3>1. Len(both) = Len(old) /\ (both # <<>> => old # <<>> /\ Len(old) \in 1 .. Len(old))
      BY <2>1, <1>6, <1>8
    <3> QED BY <2>1, <3>1, <1>1, <1>6, <1>7
  <2>2. CASE n > 0
    <3>1. n \in 1 .. n /\ new[n] = k + n - 1 /\ both[Len(old) + n] = new[n]
      BY <2>2, <1>4, <1>6
    <3> QED BY <3>1, <1>1, <1>6
  <2> QED BY <2>1, <2>2
<1>10. \A i \in 1 .. Len(both) - 1 : both[i + 1] = both[i] + 1
  <2> SUFFICES ASSUME NEW i \in 1 .. Len(both) - 1 PROVE both[i + 1] = both[i] + 1
    OBVIOUS
  <2>1. CASE i < Len(old)
    <3>1. i \in 1 .. Len(old) - 1 /\ i \in 1 .. Len(old) /\ i + 1 \in 1 .. Len(old)
      BY <2>1, <1>8
    <3>2. both[i] = old[i] /\ both[i + 1] = old[i + 1]
      BY <3>1, <1>6
    <3> QED BY <3>1, <3>2, <1>7
  <2>2. CASE i = Len(old)
    <3>1. both[i] = old[Len(old)] /\ both[i + 1] = new[1] /\ n >= 1 /\ old # <<>>
      BY <2>2, <1>6, <1>8
    <3> QED BY <3>1, <1>1, <1>4, <1>7
  <2>3. CASE i > Len(old)
    <3> DEFINE j == i - Len(old)
    <3>1. j \in 1 .. n /\ i = Len(old) + j /\ i + 1 = Len(old) + (j + 1) /\ j + 1 \in 1 .. n
      BY <2>3, <1>6, <1>8
    <3> HIDE DEF j
    <3>2. both[i] = new[j] /\ both[i + 1] = new[j + 1]
      BY <3>1, <1>6, <1>8
    <3> QED BY <3>1, <3>2, <1>1, <1>4
  <2> QED BY <2>1, <2>2, <2>3, <1>8
<1>11. /\ k + n \in 0 .. Outside
       /\ cursor \in [Sources -> 0 .. Outside] /\ taken \in [Sources -> Seq(0 .. Size - 1)]
  BY <1>1, <1>2 DEF ReadInv, TypeOK, Outside
<1>12. \A z \in Sources : z # s => cursor'[z] = cursor[z] /\ taken'[z] = taken[z]
  BY <1>5, <1>11
<1>13. cursor'[s] = k + n /\ taken'[s] = both
  BY <1>5, <1>11
<1>14. cursor' \in [Sources -> 0 .. Outside] /\ taken' \in [Sources -> Seq(0 .. Size - 1)]
  BY <1>5, <1>6, <1>11
<1>15. \A z \in Sources : taken'[z] # <<>> => cursor'[z] = taken'[z][Len(taken'[z])] + 1
  <2>1. \A z \in Sources : taken[z] # <<>> => cursor[z] = taken[z][Len(taken[z])] + 1
    BY DEF ReadInv, Claimed
  <2> QED BY <2>1, <1>9, <1>12, <1>13
<1>16. ClaimsInOrder'
  <2> SUFFICES ASSUME NEW z \in Sources PROVE ClaimsInOrder!(z)'
    BY DEF ClaimsInOrder
  <2>1. CASE z = s
    BY <2>1, <1>10, <1>13
  <2>2. CASE z # s
    <3>1. taken'[z] = taken[z] /\ ClaimsInOrder!(z)
      BY <2>2, <1>12 DEF ReadInv, ClaimsInOrder
    <3> QED BY <3>1
  <2> QED BY <2>1, <2>2
<1> QED BY <1>14, <1>15, <1>16 DEF InOrder

(* A read that has returned is in a sound place.                            *)
LEMMA IdleSound == Sound(Idle)
  BY IdleCall DEF Sound, Reading

(* Every step of a claim, a copy and the stock read keeps ReadInv.          *)
LEMMA ClaimStepKeeps ==
  ASSUME ReadInv, NEW t \in Threads, ClaimStep(t)
  PROVE  ReadInv'
<1> USE DEF At
<1>0. PICK r \in Call : /\ r = call[t] /\ r.s \in Sources /\ r.n \in Nat
                        /\ r.pc \in {"native", "claim", "exchange", "copy"}
  BY Facts, ReadAssumption DEF ClaimStep, Native, Claim, Exchange, Copy, Call
<1>1. /\ Size \in Nat \ {0} /\ cursor[r.s] \in 0 .. Outside /\ Outside = Size + 1
  BY <1>0, ReadAssumption DEF ReadInv, TypeOK, Outside
<1>2. UNCHANGED <<worldVars, tableVars, probed>>
  BY Zenon DEF ClaimStep
<1>3. CASE call' = [call EXCEPT ![t] = Idle] /\ UNCHANGED <<cursor, taken>>
  BY <1>0, <1>2, <1>3, IdleCall, IdleSound, CallMove DEF Putting
<1>4. CASE Native(t) /\ ~UNCHANGED <<cursor, taken>>
  <2> DEFINE n == Smaller(r.n, Size - cursor[r.s])
  <2>1. /\ call' = [call EXCEPT ![t] = Idle] /\ cursor[r.s] # Outside
        /\ Give(r.s, cursor[r.s], n) /\ r.pc = "native"
    BY <1>0, <1>4, Zenon DEF Native
  <2>2. n \in 0 .. Size /\ cursor[r.s] + n <= Size
    BY <1>0, <1>1, <2>1 DEF Smaller
  <2> HIDE DEF n
  <2> QED BY <1>0, <1>2, <2>1, <2>2, IdleCall, IdleSound, GiveInOrder, Move DEF Putting
<1>5. CASE Claim(t)
  <2>1. \/ call' = [call EXCEPT ![t] = Fresh(r, "native")]
        \/ call' = [call EXCEPT ![t] = Idle]
        \/ /\ cursor[r.s] # Outside
           /\ call' = [call EXCEPT ![t] = [r EXCEPT !.obs = cursor[r.s], !.pc = "exchange"]]
    BY <1>0, <1>5, Zenon DEF Claim
  <2>2. UNCHANGED <<cursor, taken>> /\ r.pc = "claim"
    BY <1>0, <1>5, Zenon DEF Claim
  <2>3. CASE call' = [call EXCEPT ![t] = Fresh(r, "native")]
    <3>1. PICK c \in Call : c = Fresh(r, "native") /\ c.pc = "native" /\ Sound(c)
      BY <1>0, FreshSound
    <3> QED BY <1>0, <1>2, <2>2, <2>3, <3>1, CallMove DEF Putting
  <2>4. CASE /\ cursor[r.s] # Outside
             /\ call' = [call EXCEPT ![t] = [r EXCEPT !.obs = cursor[r.s], !.pc = "exchange"]]
    <3>1. PICK k \in 0 .. Outside : k = cursor[r.s] /\ k <= Size
      BY <1>1, <2>4
    <3> DEFINE c == [r EXCEPT !.obs = k, !.pc = "exchange"]
    <3>2. /\ c \in Call /\ c.pc = "exchange" /\ c.s = r.s /\ c.obs = k
          /\ c.archive = r.archive
      BY DEF Call, Pcs
    <3>3. call' = [call EXCEPT ![t] = c]
      BY <2>4, <3>1
    <3> HIDE DEF c
    <3>4. Sound(c)
      BY <1>0, <2>2, <3>1, <3>2, ReadAssumption DEF Sound, Reading, ReadInv, Found
    <3> QED BY <1>0, <1>2, <2>2, <3>2, <3>3, <3>4, CallMove DEF Putting
  <2> QED BY <2>1, <2>2, <2>3, <2>4, <1>3
<1>6. CASE Exchange(t)
  <2>1. \/ /\ cursor[r.s] = r.obs /\ Give(r.s, r.obs, Portion(t))
           /\ call' = [call EXCEPT ![t].pc = "copy"]
        \/ /\ call' = [call EXCEPT ![t].obs = 0, ![t].pc = "claim"]
           /\ UNCHANGED <<cursor, taken>>
    BY <1>0, <1>6, Zenon DEF Exchange, Goto
  <2>2. r.pc = "exchange" /\ r.archive = name[inner[r.s]] /\ r.obs <= Size
    BY <1>0, <1>6 DEF Exchange, ReadInv, Found, Claimed
  <2>3. CASE /\ cursor[r.s] = r.obs /\ Give(r.s, r.obs, Portion(t))
             /\ call' = [call EXCEPT ![t].pc = "copy"]
    <3> DEFINE c == [r EXCEPT !.pc = "copy"]
    <3>1. c \in Call /\ c.pc = "copy" /\ c.s = r.s /\ c.archive = r.archive
      BY DEF Call, Pcs
    <3>2. call' = [call EXCEPT ![t] = c]
      BY <1>0, <2>3, Zenon
    <3> HIDE DEF c
    <3>3. Sound(c)
      BY <1>0, <2>2, <3>1, ReadAssumption DEF Sound, Reading
    <3>4. PICK n \in 0 .. Size : n = Portion(t) /\ cursor[r.s] + n <= Size
      BY <1>0, <1>1, <2>2, <2>3 DEF Portion, Smaller
    <3>5. Give(r.s, cursor[r.s], n)
      BY <2>3, <3>4
    <3> QED BY <1>0, <1>2, <2>2, <3>1, <3>2, <3>3, <3>4, <3>5, GiveInOrder, Move DEF Putting
  <2>4. CASE /\ call' = [call EXCEPT ![t].obs = 0, ![t].pc = "claim"]
             /\ UNCHANGED <<cursor, taken>>
    <3> DEFINE c == [r EXCEPT !.obs = 0, !.pc = "claim"]
    <3>1. c \in Call /\ c.pc = "claim" /\ c.s = r.s /\ c.archive = r.archive
      <4>1. 0 \in 0 .. Outside
        BY <1>1
      <4> QED BY <4>1 DEF Call, Pcs
    <3>2. call' = [call EXCEPT ![t] = c]
      BY <1>0, <2>4, Zenon
    <3> HIDE DEF c
    <3>3. Sound(c)
      BY <1>0, <2>2, <3>1, ReadAssumption DEF Sound, Reading
    <3> QED BY <1>0, <1>2, <2>2, <2>4, <3>1, <3>2, <3>3, CallMove DEF Putting
  <2> QED BY <2>1, <2>3, <2>4
<1>7. CASE Copy(t) \/ (Native(t) /\ UNCHANGED <<cursor, taken>>)
  BY <1>3, <1>7, Zenon DEF Copy, Native
<1> QED BY <1>4, <1>5, <1>6, <1>7 DEF ClaimStep

-----------------------------------------------------------------------------
(* The world, and the invariant.                                            *)

(* Time, freed sources, names and seeks keep ReadInv: a source in use is not *)

(* freed, and a backing stream with a name keeps it.                        *)
LEMMA WorldKeeps ==
  ASSUME ReadInv, World
  PROVE  ReadInv'
<1> USE DEF At, My
<1>1. CASE Tick
  <2> USE <1>1 DEF Tick, ReadInv, tableVars
  <2>1. TypeOK'
    BY ReadAssumption DEF TypeOK
  <2>2. Placed' /\ OddWhileWritten' /\ Full'
    BY DEF Placed, OddWhileWritten, Full
  <2>3. Found' /\ Stored' /\ Seen'
    BY DEF Found, Stored, Seen, Right
  <2>4. Claimed' /\ ClaimsInOrder' /\ Deadlines'
    BY DEF Claimed, ClaimsInOrder, Deadlines
  <2> QED BY <2>1, <2>2, <2>3, <2>4
<1>2. ASSUME NEW s \in Sources, NEW i \in Inners, Reuse(s, i) PROVE ReadInv'
  <2> USE <1>2 DEF Reuse, Event, ReadInv, tableVars
  <2>0. /\ \A u \in Threads : call[u].s # s
        /\ \A z \in Sources : inner'[z] = IF z = s THEN i ELSE inner[z]
        /\ \A z \in Sources : taken'[z] = IF z = s THEN <<>> ELSE taken[z]
        /\ \A z \in Sources : z # s => cursor'[z] = cursor[z]
    <3>1. \A u \in Threads : call[u].s # s
      BY Zenon DEF InUse
    <3>2. /\ inner \in [Sources -> Inners] /\ cursor \in [Sources -> 0 .. Outside]
          /\ taken \in [Sources -> Seq(0 .. Size - 1)]
      BY DEF TypeOK
    <3>3. /\ inner' = [inner EXCEPT ![s] = i] /\ cursor' = [cursor EXCEPT ![s] = 0]
          /\ taken' = [taken EXCEPT ![s] = <<>>]
      BY Zenon
    <3> HIDE <1>2 DEF ReadInv
    <3> QED BY <3>1, <3>2, <3>3
  <2>1. TypeOK'
    <3>1. /\ inner' \in [Sources -> Inners] /\ cursor' \in [Sources -> 0 .. Outside]
          /\ taken' \in [Sources -> Seq(0 .. Size - 1)]
      <4>1. 0 \in 0 .. Outside
        BY ReadAssumption DEF Outside
      <4> QED BY <4>1 DEF TypeOK
    <3>2. events' \in 0 .. MaxEvents
      BY ReadAssumption DEF TypeOK
    <3> QED BY <3>1, <3>2 DEF TypeOK
  <2>2. Placed' /\ OddWhileWritten' /\ Full'
    BY DEF Placed, OddWhileWritten, Full
  <2>3. Found'
    <3> SUFFICES ASSUME NEW u \in Threads PROVE Found!(u)'
      BY DEF Found
    <3>1. CASE call[u].pc = "idle"
      BY <3>1 DEF Finding, Putting, Reading
    <3>2. CASE call[u].pc # "idle"
      <4>1. call[u].s \in Sources /\ inner'[call[u].s] = inner[call[u].s]
        BY <2>0, <3>2, Facts
      <4> QED BY <4>1 DEF Found, Right
    <3> QED BY <3>1, <3>2
  <2>4. Stored' /\ Seen'
    BY DEF Stored, Seen, Right
  <2>5. Claimed' /\ ClaimsInOrder' /\ Deadlines'
    <3>1. Claimed'
      BY <2>0 DEF Claimed
    <3>2. ClaimsInOrder'
      <4> SUFFICES ASSUME NEW z \in Sources PROVE ClaimsInOrder!(z)'
        BY DEF ClaimsInOrder
      <4>1. CASE z = s
        BY <2>0, <4>1
      <4>2. CASE z # s
        BY <2>0, <4>2 DEF ClaimsInOrder
      <4> QED BY <4>1, <4>2
    <3>3. Deadlines'
      BY DEF Deadlines
    <3> QED BY <3>1, <3>2, <3>3
  <2> QED BY <2>1, <2>2, <2>3, <2>4, <2>5
<1>3. ASSUME NEW i \in Inners, NEW a \in Archives, Rename(i, a) PROVE ReadInv'
  <2> USE <1>3 DEF Rename, Event, ReadInv, tableVars
  <2>0. /\ name[i] = None /\ None \notin Archives
        /\ \A j \in Inners : j # i => name'[j] = name[j]
        /\ \A u \in Threads : call[u].s \in Sources => inner[call[u].s] \in Inners \ {i}
    BY ReadAssumption DEF InUse, TypeOK
  <2>1. TypeOK'
    BY ReadAssumption DEF TypeOK
  <2>2. Placed' /\ OddWhileWritten' /\ Full'
    BY DEF Placed, OddWhileWritten, Full
  <2>3. Found'
    <3> SUFFICES ASSUME NEW u \in Threads PROVE Found!(u)'
      BY DEF Found
    <3>1. CASE call[u].pc = "idle"
      BY <3>1 DEF Finding, Putting, Reading
    <3>2. CASE call[u].pc # "idle"
      <4>1. call[u].s \in Sources /\ name'[inner[call[u].s]] = name[inner[call[u].s]]
        BY <2>0, <3>2, Facts
      <4>2. call[u].pc \in Finding => call[u].inner = inner[call[u].s]
        BY DEF Found
      <4> QED BY <4>1, <4>2 DEF Found, Right
    <3> QED BY <3>1, <3>2
  <2>4. Stored'
    <3> SUFFICES ASSUME NEW s \in Sources PROVE Stored!(s)'
      BY DEF Stored
    <3>1. \A j \in Inners \cup {None}, b \in Answers \cup {None} : Right(j, b) => Right(j, b)'
      <4>1. \A j \in Inners \cup {None} : j # i => name'[j] = name[j]
        BY <2>0 DEF TypeOK
      <4> QED BY <2>0, <4>1 DEF Right
    <3>2. /\ slot[s] \in Slot /\ slot[s].inner \in Inners \cup {None}
          /\ slot[s].archive \in Answers \cup {None}
      BY DEF TypeOK, Slot
    <3>3. overflow[s] # None => overflow[s].inner \in Inners /\ overflow[s].archive \in Answers
      BY DEF TypeOK
    <3> QED BY <3>1, <3>2, <3>3 DEF Stored
  <2>5. Seen' /\ Claimed' /\ ClaimsInOrder' /\ Deadlines'
    <3>1. Seen'
      BY DEF Seen
    <3>2. Claimed' /\ ClaimsInOrder'
      BY DEF Claimed, ClaimsInOrder
    <3>3. Deadlines'
      BY DEF Deadlines
    <3> QED BY <3>1, <3>2, <3>3
  <2> QED BY <2>1, <2>2, <2>3, <2>4, <2>5
<1>4. ASSUME NEW s \in Sources, NEW p \in Targets, Seek(s, p) PROVE ReadInv'
  <2> USE <1>4 DEF Seek, Event, ReadInv, tableVars
  <2>0. /\ \A z \in Sources : taken'[z] = IF z = s THEN <<>> ELSE taken[z]
        /\ \A z \in Sources : z # s => cursor'[z] = cursor[z]
    BY DEF TypeOK
  <2>1. TypeOK'
    <3>1. /\ cursor' \in [Sources -> 0 .. Outside]
          /\ taken' \in [Sources -> Seq(0 .. Size - 1)]
      <4>1. p \in 0 .. Outside
        BY ReadAssumption DEF Outside
      <4> QED BY <4>1 DEF TypeOK
    <3>2. events' \in 0 .. MaxEvents
      BY ReadAssumption DEF TypeOK
    <3> QED BY <3>1, <3>2 DEF TypeOK
  <2>2. Placed' /\ OddWhileWritten' /\ Full'
    BY DEF Placed, OddWhileWritten, Full
  <2>3. Found' /\ Stored' /\ Seen'
    BY DEF Found, Stored, Seen, Right
  <2>4. Claimed'
    BY <2>0 DEF Claimed
  <2>5. ClaimsInOrder'
    <3> SUFFICES ASSUME NEW z \in Sources PROVE ClaimsInOrder!(z)'
      BY DEF ClaimsInOrder
    <3>1. CASE z = s
      BY <2>0, <3>1
    <3>2. CASE z # s
      BY <2>0, <3>2 DEF ClaimsInOrder
    <3> QED BY <3>1, <3>2
  <2>6. Deadlines'
    BY DEF Deadlines
  <2> QED BY <2>1, <2>2, <2>3, <2>4, <2>5, <2>6
<1> QED BY <1>1, <1>2, <1>3, <1>4 DEF World

(* The empty table satisfies ReadInv.                                       *)
LEMMA InitHolds == Init => ReadInv
<1> SUFFICES ASSUME Init PROVE ReadInv
  OBVIOUS
<1> USE DEF Init, At, My
<1>0. /\ {SlotCount, RetryMs, MaxTime, MaxEvents} \subseteq Nat /\ Size \in Nat \ {0}
      /\ None \notin Threads \cup Archives
  BY ReadAssumption
<1>1. NoSlot \in Slot /\ NoSlot.gen = 0 /\ NoSlot.archive = None
  BY DEF NoSlot, Slot
<1>2. TypeOK
  BY <1>0, <1>1, IdleCall DEF TypeOK, Outside
<1>3. \A t \in Threads : call[t].pc = "idle" /\ call[t].s = None
  BY IdleCall
<1>4. Placed /\ OddWhileWritten /\ Full
  BY <1>0, <1>1, <1>3 DEF Placed, OddWhileWritten, Full, Reading, Putting
<1>5. Found /\ Stored /\ Seen
  BY <1>0, <1>1, <1>3 DEF Found, Stored, Seen, Right, Reading, Putting, Finding
<1>6. Claimed /\ ClaimsInOrder /\ Deadlines
  BY <1>0, <1>3 DEF Claimed, ClaimsInOrder, Deadlines
<1> QED BY <1>2, <1>4, <1>5, <1>6 DEF ReadInv

(* Every step keeps ReadInv.                                                *)
LEMMA NextKeeps == ReadInv /\ [Next]_vars => ReadInv'
<1> SUFFICES ASSUME ReadInv, [Next]_vars PROVE ReadInv'
  OBVIOUS
<1>1. CASE World
  BY <1>1, WorldKeeps
<1>2. ASSUME NEW t \in Threads, HookedDoRead(t) PROVE ReadInv'
  BY <1>2, SourceStepKeeps, ClaimStepKeeps DEF HookedDoRead
<1>3. ASSUME NEW t \in Threads, NEW s \in Sources, NEW n \in Lengths, Begin(t, s, n),
             UNCHANGED <<worldVars, cursor, taken, probed>>
      PROVE  ReadInv'
  BY <1>3, BeginKeeps DEF Frame
<1>4. CASE UNCHANGED vars
  BY <1>4 DEF vars, worldVars, tableVars, ReadInv, TypeOK, Placed, OddWhileWritten, Found,
     Right, Stored, Seen, Full, Claimed, ClaimsInOrder, Deadlines, At, My
<1> QED BY <1>1, <1>2, <1>3, <1>4 DEF Next

(* The invariant of the source table and of the claims holds always.        *)
THEOREM ReadCorrect == Spec => []ReadInv
<1> QED BY InitHolds, NextKeeps, PTL DEF Spec

(* HookedDoRead copies from the mapping of the archive its source belongs to, *)

(* whatever sources were freed, reused, probed and published meanwhile.     *)
THEOREM ServedCorrectly == Spec => []ServedRight
<1>1. ReadInv => ServedRight
  BY DEF ReadInv, Found, ServedRight, At
<1> QED BY <1>1, ReadCorrect, PTL

(* ClaimRange: reads of one stream by any number of threads, and the game's *)

(* own, hand out its bytes in order and without a gap since the last seek.  *)
THEOREM ClaimedInOrder == Spec => []ClaimsInOrder
<1>1. ReadInv => ClaimsInOrder
  BY DEF ReadInv
<1> QED BY <1>1, ReadCorrect, PTL

-----------------------------------------------------------------------------
(* Action properties.                                                       *)

(* A step of one thread leaves the calls of the others alone.               *)
LEMMA OthersStay ==
  ASSUME ReadInv, NEW t \in Threads, NEW u \in Threads, t # u,
         \/ HookedDoRead(t)
         \/ \E s \in Sources, n \in Lengths : Begin(t, s, n)
  PROVE  call'[u] = call[u]
<1>0. call \in [Threads -> Call]
  BY DEF ReadInv, TypeOK
<1> USE <1>0
<1>1. CASE SourceStep(t)
  <2>1. CASE Lookup(t)
    BY <2>1 DEF Lookup
  <2>2. CASE ReadGeneration(t) \/ ReadInner(t) \/ ReadArchive(t) \/ ReadUntil(t)
    BY <2>2 DEF ReadGeneration, ReadInner, ReadArchive, ReadUntil
  <2>3. CASE Decide(t)
    BY <2>3 DEF Decide
  <2>4. CASE Win(t)
    BY <2>4 DEF Win
  <2>5. CASE Probe(t)
    BY <2>5 DEF Probe, Goto
  <2>6. CASE Insert(t)
    BY <2>6 DEF Insert, InsertFull, InsertNew, InsertKnown, Resolved, Goto
  <2>7. CASE Publish(t) \/ PutGeneration(t)
    BY <2>7 DEF Publish, PutGeneration, Resolved
  <2>8. CASE PutInner(t) \/ PutArchive(t) \/ PutUntil(t)
    BY <2>8 DEF PutInner, PutArchive, PutUntil, Goto
  <2> QED BY <1>1, <2>1, <2>2, <2>3, <2>4, <2>5, <2>6, <2>7, <2>8 DEF SourceStep
<1>2. CASE ClaimStep(t)
  BY <1>2 DEF ClaimStep, Native, Claim, Exchange, Copy, Goto
<1>3. ASSUME NEW s \in Sources, NEW n \in Lengths, Begin(t, s, n) PROVE call'[u] = call[u]
  BY <1>3 DEF Begin
<1> QED BY <1>1, <1>2, <1>3 DEF HookedDoRead

(* SourceLookup: until the answer of a refresh is published no other reader *)

(* starts one before the backoff is over.                                   *)
THEOREM FlightsSingle == Spec => SingleFlight
<1>1. ReadInv /\ [Next]_vars =>
        \A t \in Threads : Wins(t) => call[t].at >= probed[call[t].s] + RetryMs
  <2> SUFFICES ASSUME ReadInv, [Next]_vars, NEW t \in Threads, Wins(t)
               PROVE  call[t].at >= probed[call[t].s] + RetryMs
    OBVIOUS
  <2>0. call[t].pc = "win" /\ call'[t].pc = "probe" /\ call'[t] # call[t]
    BY DEF Wins, At
  <2>1. Win(t)
    <3>1. \E u \in Threads : \/ HookedDoRead(u)
                             \/ \E s \in Sources, n \in Lengths : Begin(u, s, n)
      <4>1. ~World /\ ~UNCHANGED vars
        BY <2>0 DEF World, Tick, Reuse, Rename, Seek, vars
      <4> QED BY <4>1 DEF Next
    <3>2. HookedDoRead(t) \/ \E s \in Sources, n \in Lengths : Begin(t, s, n)
      BY <2>0, <3>1, OthersStay
    <3> QED
      BY <2>0, <3>2 DEF HookedDoRead, SourceStep, ClaimStep, Begin, Lookup, ReadGeneration,
         ReadInner, ReadArchive, ReadUntil, Decide, Probe, Insert, Publish, PutInner,
         PutArchive, PutUntil, PutGeneration, Native, Claim, Exchange, Copy, At
  <2>2. PICK r \in Call : /\ r = call[t] /\ r.s \in Sources /\ r.until \in Nat
                          /\ r.at \in 0 .. MaxTime /\ r.at >= r.until
    BY <2>0, Facts DEF Call, ReadInv, Deadlines, At
  <2>3. slot[r.s].until = r.until
    <3>1. CASE slot[r.s].until # r.until
      <4>1. call' = [call EXCEPT ![t] = Fresh(r, "native")]
        BY <2>1, <2>2, <3>1, Zenon DEF Win, My
      <4>2. call'[t].pc = "native"
        <5>1. PICK c \in Call : c = Fresh(r, "native") /\ c.pc = "native"
          BY <2>2, FreshSound
        <5> QED BY <4>1, <5>1 DEF ReadInv, TypeOK
      <4> QED BY <2>0, <4>2
    <3> QED BY <3>1
  <2> QED
    <3>1. RetryMs \in Nat /\ MaxTime \in Nat /\ probed[r.s] \in Int
      BY <2>2, ReadAssumption DEF ReadInv, TypeOK
    <3>2. probed[r.s] # 0 - RetryMs => r.until = probed[r.s] + RetryMs
      BY <2>2, <2>3 DEF ReadInv, Deadlines
    <3> QED BY <2>2, <3>1, <3>2
<1> QED BY <1>1, ReadCorrect, PTL DEF Spec, SingleFlight

(* The slot of a source, its key and its overflow answer stay, but for deadlines. *)
Same(s) ==
  /\ slot'[s].gen = slot[s].gen /\ slot'[s].inner = slot[s].inner
  /\ slot'[s].archive = slot[s].archive
  /\ s \in keys' <=> s \in keys
  /\ overflow'[s] = overflow[s]

(* The answer for a source depends on what Same names alone.                *)
LEMMA SameAnswer ==
  ASSUME NEW s \in Sources, Same(s)
  PROVE  Answer(s)' = Answer(s)
  BY DEF Same, Answer

(* A step of ResolveSource does not touch the slot, nor the overflow answer, of *)

(* a source with a positive answer for its present backing stream.          *)
LEMMA AnswersMove ==
  ASSUME ReadInv, NEW t \in Threads, SourceStep(t), NEW s \in Sources,
         Positive(Answer(s), inner[s])
  PROVE  Same(s)
<1> USE DEF At, My
<1>1. /\ slot \in [Sources -> Slot] /\ None \notin Archives
      /\ inner[s] \in Inners /\ None \notin Inners
      /\ call[t].s \in Sources
  BY Facts, ReadAssumption DEF ReadInv, TypeOK, SourceStep, Lookup, ReadGeneration, ReadInner,
     ReadArchive, ReadUntil, Decide, Win, Probe, Insert, Publish, PutInner, PutArchive,
     PutUntil, PutGeneration
<1>2. /\ s \in keys => /\ slot[s].gen % 2 # 1 /\ Positive(slot[s], inner[s])
      /\ s \notin keys => /\ overflow[s] # None /\ Positive(overflow[s], inner[s])
  BY <1>1 DEF Positive, Answer
<1>3. CASE Lookup(t) \/ ReadGeneration(t) \/ ReadInner(t) \/ ReadArchive(t) \/ ReadUntil(t)
           \/ Decide(t) \/ Probe(t)
  <2>1. UNCHANGED tableVars
    BY <1>3, Zenon DEF Lookup, ReadGeneration, ReadInner, ReadArchive, ReadUntil, Decide, Probe
  <2> QED BY <2>1 DEF tableVars, Same
<1>4. CASE Win(t)
  <2>1. PICK n : /\ slot' = slot \/ slot' = [slot EXCEPT ![call[t].s].until = n]
                 /\ UNCHANGED <<keys, overflow>>
    BY <1>4, Zenon DEF Win
  <2>2. CASE slot' = [slot EXCEPT ![call[t].s].until = n]
    <3>1. PICK x \in Slot : x = slot[call[t].s]
      BY <1>1
    <3> DEFINE e == [x EXCEPT !.until = n]
    <3>2. e.gen = x.gen /\ e.inner = x.inner /\ e.archive = x.archive
      BY DEF Slot
    <3>3. slot' = [slot EXCEPT ![call[t].s] = e]
      BY <2>2, <3>1, Zenon
    <3> HIDE DEF e
    <3> QED BY <1>1, <2>1, <3>1, <3>2, <3>3 DEF Same
  <2> QED BY <2>1, <2>2 DEF Same
<1>5. CASE Insert(t)
  <2>1. call[t].pc = "insert" /\ call[t].inner = inner[call[t].s]
    BY <1>5 DEF Insert, ReadInv, Found, Finding
  <2>2. CASE InsertFull(t)
    <3>1. /\ UNCHANGED <<keys, slot>> /\ call[t].s \notin keys
          /\ \/ UNCHANGED overflow
             \/ /\ ~(overflow[call[t].s] # None /\ Positive(overflow[call[t].s], call[t].inner))
                /\ \E o : overflow' = [overflow EXCEPT ![call[t].s] = o]
      BY <2>2, Zenon DEF InsertFull, Keeps
    <3>2. overflow'[s] = overflow[s]
      BY <1>1, <1>2, <2>1, <3>1 DEF ReadInv, TypeOK
    <3> QED BY <3>1, <3>2 DEF Same
  <2>3. CASE InsertNew(t)
    <3>1. /\ UNCHANGED <<keys, overflow>> /\ call[t].s \notin keys
          /\ Cardinality(keys) < room
      BY <2>3, Zenon DEF InsertNew
    <3>2. Cardinality(keys) \in Nat /\ room \in Nat
      BY ReadAssumption, FS_Subset, FS_CardinalityType DEF ReadInv, TypeOK
    <3>3. s \in keys
      BY <1>2, <3>1, <3>2 DEF ReadInv, Full
    <3>4. slot'[s] = slot[s]
      BY <1>1, <2>3, <3>1, <3>3 DEF InsertNew
    <3> QED BY <3>1, <3>4 DEF Same
  <2>4. CASE InsertKnown(t)
    <3>1. /\ UNCHANGED <<keys, overflow>> /\ call[t].s \in keys
          /\ \/ UNCHANGED slot
             \/ ~Positive(slot[call[t].s], call[t].inner)
      BY <2>4, Zenon DEF InsertKnown, Keeps
    <3>2. slot'[s] = slot[s]
      <4>1. CASE s = call[t].s
        BY <1>2, <2>1, <3>1, <4>1
      <4>2. CASE s # call[t].s
        BY <1>1, <2>4, <4>2 DEF InsertKnown
      <4> QED BY <4>1, <4>2
    <3> QED BY <3>1, <3>2 DEF Same
  <2> QED BY <1>5, <2>2, <2>3, <2>4 DEF Insert
<1>6. CASE Publish(t)
  <2>1. keys' = keys \cup {call[t].s} /\ UNCHANGED <<slot, overflow>> /\ call[t].pc = "publish"
    BY <1>6, Zenon DEF Publish
  <2>2. s \in keys
    BY <1>2, <2>1 DEF ReadInv, Full
  <2> QED BY <2>1, <2>2 DEF Same
<1>7. CASE PutInner(t) \/ PutArchive(t) \/ PutUntil(t) \/ PutGeneration(t)
  <2>1. UNCHANGED <<keys, overflow>> /\ call[t].pc \in Putting
    BY <1>7 DEF PutInner, PutArchive, PutUntil, PutGeneration, Putting
  <2>2. call[t].s \in keys /\ slot[call[t].s].gen % 2 = 1
    BY <1>1, <2>1 DEF ReadInv, Placed, OddWhileWritten
  <2>3. s # call[t].s
    BY <1>2, <2>2
  <2>4. slot'[s] = slot[s]
    BY <1>1, <1>7, <2>3 DEF PutInner, PutArchive, PutUntil, PutGeneration
  <2> QED BY <2>1, <2>4 DEF Same
<1> QED BY <1>3, <1>4, <1>5, <1>6, <1>7 DEF SourceStep

(* SourceInsert: a published positive answer for the same pair of a source and *)

(* a backing stream is never replaced, by however late a negative.          *)
THEOREM PositivesKept == Spec => PositiveKept
<1>1. ReadInv /\ [Next]_vars =>
        \A s \in Sources :
          Positive(Answer(s), inner[s]) /\ inner'[s] = inner[s] =>
            Positive(Answer(s)', inner[s])
  <2> SUFFICES ASSUME ReadInv, [Next]_vars, NEW s \in Sources,
                      Positive(Answer(s), inner[s])
               PROVE  Positive(Answer(s)', inner[s])
    OBVIOUS
  <2>1. CASE UNCHANGED tableVars
    <3>1. Same(s)
      BY <2>1 DEF Same, tableVars
    <3> QED BY <3>1, SameAnswer
  <2>2. ASSUME NEW t \in Threads, SourceStep(t) PROVE Positive(Answer(s)', inner[s])
    BY <2>2, AnswersMove, SameAnswer
  <2>3. World => UNCHANGED tableVars
    BY Zenon DEF World, Tick, Reuse, Rename, Seek
  <2>4. \A t \in Threads : ClaimStep(t) => UNCHANGED tableVars
    BY Zenon DEF ClaimStep
  <2>5. \A t \in Threads, z \in Sources, n \in Lengths : Begin(t, z, n) => UNCHANGED tableVars
    BY Zenon DEF Begin
  <2>6. UNCHANGED vars => UNCHANGED tableVars
    BY DEF vars
  <2> QED BY <2>1, <2>2, <2>3, <2>4, <2>5, <2>6 DEF Next, HookedDoRead
<1> QED BY <1>1, ReadCorrect, PTL DEF Spec, PositiveKept
=============================================================================
