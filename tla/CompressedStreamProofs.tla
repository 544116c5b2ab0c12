-------------------------- MODULE CompressedStreamProofs --------------------------
(***************************************************************************)
(* CompressedStream for any streams, threads, sizes and scenarios: its        *)
(* invariant is inductive, what a read delivers and what a capture records is   *)
(* right, and a close waits for the calls it must wait for.                  *)
(*                                                                         *)
(* Every step but the first of a call changes that call and the stream x it     *)
(* works on: Turn.  Each part of the invariant has a lemma that says what such  *)
(* a step must keep to, and an action's lemma shows that it does.            *)
(***************************************************************************)
EXTENDS CompressedStream, FiniteSetTheorems, SequenceTheorems, TLAPS

-----------------------------------------------------------------------------
(* The invariant.                                                            *)

Learnt == LearnsWhole /\ BytesInOrder

Inv == StreamInv /\ CursorsAgree /\ Learnt /\ CloseWaits

(* CursorsAgree and OwnStreams, of one stream and one thread.                  *)
Level(s) ==
  /\ native[s] # None /\ ~Making(s) => Follows(side[s], native[s])
  /\ ~Ending(s) /\ ~Making(s) => Agree(side[s], native[s], caller[s])

Setting(t) ==
  LET c == call[t] IN
  /\ c.op = "open" =>
       /\ IF c.pc = "publish" THEN native[c.s] = 0 /\ caller[c.s] = 0
          ELSE native[c.s] = None
       /\ c.pc # "retire" => published[c.s] = None
  /\ c.op = "clone" => c.s # c.clone
  /\ c.op = "clone" /\ c.pc # "publish" => native[c.s] # None /\ native[c.clone] = None

Typed ==
  /\ scenario \in Scenarios /\ parted \in BOOLEAN
  /\ native \in [Streams -> Cursors \cup {None}] /\ caller \in [Streams -> Cursors]
  /\ published \in [Streams -> Ids \cup {None}] /\ side \in [Streams -> State \cup {None}]
  /\ \A s \in Streams : published[s] = None <=> side[s] = None
  /\ call \in [Threads -> Calls]

LEMMA NoneFacts ==
  /\ None \notin Streams /\ None \notin Threads /\ None \notin Ids /\ None \notin Cursors
  /\ None \notin Logical /\ None \notin State /\ None \notin Ops /\ None \notin Modes
<1>1. Cursors \subseteq Logical
  BY StreamAssumption DEF Cursors, Logical
<1> QED
  BY <1>1, NoneAssumption

LEMMA IdleCall ==
  /\ Idle \in Calls /\ Idle.pc = "idle" /\ Idle.op = None /\ Idle.s = None /\ Idle.clone = None
  /\ Idle.id = None /\ Idle.rec = None /\ Idle.mode = None /\ Idle.append = FALSE
<1>1. 0 \in Cursors
  BY StreamAssumption DEF Cursors
<1> QED
  BY <1>1 DEF Idle, Calls

(* What the invariant says of one thread, and of one stream.                   *)
LEMMA Own ==
  ASSUME Inv, NEW t \in Threads
  PROVE  /\ call[t] \in Calls /\ Placed(call[t]) /\ Guarded(t) /\ (~parted => InFlight(t))
         /\ Setting(t)
         /\ call[t].pc # "idle" => call[t].s \in Streams
         /\ call[t].op = "clone" => call[t].clone \in Streams
         /\ call[t].op # "clone" => call[t].clone = None
         /\ Lifecycle(t) => call[t].pc # "idle" /\ call[t].clone = None
<1>1. call[t] \in Calls /\ Placed(call[t]) /\ Guarded(t) /\ (~parted => InFlight(t))
  BY DEF Inv, StreamInv, TypeOK
<1>2. call[t].s \in Streams \cup {None} /\ call[t].clone \in Streams \cup {None}
  BY <1>1 DEF Calls
<1>3. Lifecycle(t) => call[t].pc # "idle" /\ call[t].clone = None
  BY <1>1, NoneFacts, IdleCall DEF Placed, Lifecycle, Ops
<1>4. Setting(t)
  BY DEF Inv, StreamInv, OwnStreams, Setting
<1> QED
  BY <1>1, <1>2, <1>3, <1>4 DEF Placed

LEMMA Each ==
  ASSUME Inv
  PROVE  /\ Typed
         /\ \A s \in Streams : side[s] # None => Sound(side[s])
         /\ ~parted => \A s \in Streams : Level(s)
         /\ \A t, u \in Threads : t # u => Apart(t, u)
<1>1. Typed
  BY DEF Inv, StreamInv, TypeOK, Typed
<1>2. ~parted => \A s \in Streams : Level(s)
  BY DEF Inv, CursorsAgree, Level
<1> QED
  BY <1>1, <1>2 DEF Inv, StreamInv, OwnStreams

-----------------------------------------------------------------------------
(* A step of thread t, which is in a call, on stream x.                        *)

(* Without memory for an identity change, cursors part; else when a call ends    *)
(* that nothing guards, or a clone is left behind.                            *)
Parts(t) ==
  /\ scenario' = scenario
  /\ \/ parted' = (parted \/ Unguarded(t) \/ Bereft(t))
     \/ parted' = TRUE /\ "identity" \in AllocFails

Turn(t, x) ==
  /\ call[t].pc # "idle" /\ x \in Streams /\ x \in {call[t].s, call[t].clone}
  /\ Typed' /\ Parts(t)
  /\ \A u \in Threads \ {t} : call'[u] = call[u]
  /\ \A s \in Streams \ {x} :
       /\ published'[s] = published[s] /\ side'[s] = side[s]
       /\ native'[s] = native[s] /\ caller'[s] = caller[s]

(* The call goes on, or it returns from the stream it worked on.               *)
Steady(t, x) ==
  LET c == call'[t] IN
  /\ \/ c = Idle /\ (call[t].op = "clone" => x = call[t].clone)
     \/ c.pc # "idle" /\ c.op = call[t].op /\ c.s = call[t].s /\ c.clone = call[t].clone
  /\ c.pc # "retire"
  /\ c.pc = "find" => x = c.s /\ published'[x] # None
  /\ c.pc = "create" => call[t].pc = "find" /\ published[c.s] = None

(* A published object goes away with its stream, or while nobody uses it; one    *)
(* that comes is new.                                                        *)
Renewed(t, x) ==
  published'[x] # published[x] =>
    /\ published'[x] = None => call[t].pc = "retire" \/ x = call[t].clone
    /\ \/ published[x] = None \/ mutex[published[x]] = None
       \/ Lifecycle(t) \/ x = call[t].clone
    /\ published'[x] # None =>
         /\ \A s \in Streams : published[s] # published'[x]
         /\ \A u \in Threads : call[u].id # published'[x]

(* A decompressor moves in a native call, and a state while its mutex is free    *)
(* or held.                                                                  *)
Held(t, x) ==
  /\ native'[x] # native[x] =>
       \/ call[t].pc = "native" /\ native'[x] # None /\ x = call[t].s
       \/ call[t].op = "close" /\ native'[x] = None
       \/ call[t].op = "open"
       \/ x = call[t].clone
  /\ side'[x] # side[x] /\ published'[x] # None =>
       published'[x] # published[x] \/ mutex[published[x]] \in {None, t}

(* The state object that the call uses.                                        *)
Keyed(t, x) ==
  LET c == call'[t] IN
  c.id # None =>
    \/ /\ c.id = call[t].id /\ c.s = call[t].s
       /\ call[t].pc \in {"body", "native"} => c.pc \in {"body", "native"}
    \/ c.id = published'[x] /\ c.s = x /\ c.pc = "body"
    \/ c.id = published[x] /\ c.s = x /\ published'[x] = None

Locked(t) ==
  LET c == call'[t] IN
  \/ /\ mutex' = mutex /\ call[t].pc # "native"
     /\ c.pc = "native" => c.id = None
     /\ c.pc = "lifecycle" /\ c.id # None => mutex[c.id] = None
  \/ /\ call[t].pc = "body" /\ c.pc = "native" /\ c.id = call[t].id /\ c.id # None
     /\ mutex[c.id] = None /\ mutex' = [mutex EXCEPT ![c.id] = t]
     /\ c.mode = "bare" \/ published[call[t].s] = c.id
  \/ /\ call[t].pc = "native" /\ c = Idle
     /\ mutex' = [i \in Ids |-> IF i = call[t].id THEN None ELSE mutex[i]]

(* The parts of the invariant that speak of t and x.                           *)
Local(t, x) ==
  /\ Placed(call[t])' /\ Guarded(t)' /\ (~parted => InFlight(t))' /\ Setting(t)'
  /\ (side[x] # None => Sound(side[x]))' /\ (~parted => Level(x))'

-----------------------------------------------------------------------------
LEMMA ApartTurn ==
  ASSUME Inv, NEW t \in Threads, NEW x, Turn(t, x), Steady(t, x), Renewed(t, x),
         Placed(call[t])'
  PROVE  \A u, v \in Threads : u # v => Apart(u, v)'
<1>1. SUFFICES ASSUME NEW u \in Threads, NEW v \in Threads, u # v
               PROVE  Apart(u, v)'
  OBVIOUS
<1>3. Apart(u, v)
  BY <1>1, Each
<1>4. Overlapping' = Overlapping
  BY DEF Turn, Parts, Overlapping
<1>5. CASE u = t
  <2>1. call'[v] = call[v]
    BY <1>1, <1>5 DEF Turn
  <2>2. call'[t] = Idle => ~Lifecycle(t)' /\ call'[t].op # "clone"
    BY NoneFacts, IdleCall DEF Lifecycle, Ops
  <2> QED
    BY <1>3, <1>4, <1>5, <2>1, <2>2 DEF Apart, Lifecycle, Steady
<1>6. CASE v = t
  <2>1. call'[u] = call[u]
    BY <1>1, <1>6 DEF Turn
  <2>2. /\ call[u].op = "clone" => call[u].clone # None
        /\ Lifecycle(u) => call[u].s # None
    BY Own, NoneFacts
  <2>4. CASE call'[t] = Idle
    <3>1. call'[v].s = None /\ call'[v].clone = None
      BY <1>6, <2>4, IdleCall
    <3> QED
      BY <2>1, <2>2, <3>1 DEF Apart, Lifecycle
  <2>5. CASE call'[t].pc # "idle" /\ call'[t].op = call[t].op /\ call'[t].s = call[t].s
             /\ call'[t].clone = call[t].clone
    <3>1. call'[u].op = "clone" => call'[u].clone \notin {call'[v].s, call'[v].clone}
      BY <1>3, <1>6, <2>1, <2>5 DEF Apart
    <3>2. ASSUME Lifecycle(u), call[t].s = call[u].s, call[u].pc = "retire"
          PROVE  \/ call'[t].pc \in {"body", "native"}
                 \/ call'[t].pc = "find" /\ published'[call[u].s] # None
      <4>1. /\ call'[t].op \in {"read", "seek"}
            /\ \/ call[t].pc \in {"body", "native"}
               \/ call[t].pc = "find" /\ published[call[u].s] # None
        BY <1>3, <1>6, <2>5, <3>2 DEF Apart
      <4>2. call'[t].pc \in {"idle", "find", "create", "body", "native", "retire", "wait",
                             "lifecycle", "publish"}
        BY DEF Turn, Typed, Calls
      <4>3. call'[t].pc \in {"find", "create", "body", "native"}
        BY <2>5, <4>1, <4>2 DEF Placed
      <4>4. call'[t].pc # "create"
        BY <2>5, <3>2, <4>1 DEF Steady
      <4>5. call'[t].pc = "find" => published'[call[u].s] # None
        BY <2>5, <3>2 DEF Steady
      <4> QED
        BY <4>3, <4>4, <4>5
    <3> QED
      BY <1>3, <1>4, <1>6, <2>1, <2>5, <3>1, <3>2 DEF Apart, Lifecycle
  <2> QED
    BY <2>4, <2>5 DEF Steady
<1>7. CASE u # t /\ v # t
  <2>1. call'[u] = call[u] /\ call'[v] = call[v]
    BY <1>7 DEF Turn
  <2>2. Apart(t, u) /\ Apart(t, v)
    BY <1>7, Each
  <2>3. ASSUME Lifecycle(u), call[v].s = call[u].s, published[call[u].s] # None
        PROVE  published'[call[u].s] # None
    <3>1. call[u].s \in Streams
      BY <2>3, Own
    <3>2. CASE call[u].s # x
      BY <2>3, <3>1, <3>2 DEF Turn
    <3>3. CASE call[u].s = x /\ published'[x] = None
      <4>1. call[t].pc = "retire" \/ x = call[t].clone
        BY <2>3, <3>3 DEF Renewed
      <4>2. CASE call[t].pc = "retire"
        <5>1. Lifecycle(t) /\ call[t].op # "clone" /\ call[t].clone = None
          BY <4>2, Own DEF Placed, Lifecycle
        <5>2. call[t].s = call[u].s
          BY <3>1, <3>3, <5>1, NoneFacts DEF Turn
        <5> QED
          BY <2>2, <2>3, <5>1, <5>2 DEF Apart, Lifecycle
      <4>3. CASE x = call[t].clone
        BY <2>2, <3>1, <3>3, <4>3, NoneFacts, Own DEF Apart, Placed
      <4> QED
        BY <4>1, <4>2, <4>3
    <3> QED
      BY <3>2, <3>3
  <2> QED
    BY <1>3, <1>4, <2>1, <2>3 DEF Apart, Lifecycle
<1> QED
  BY <1>5, <1>6, <1>7

LEMMA SettingTurn ==
  ASSUME Inv, NEW t \in Threads, NEW x, Turn(t, x), Renewed(t, x), Held(t, x), Setting(t)'
  PROVE  \A u \in Threads : Setting(u)'
<1>1. SUFFICES ASSUME NEW u \in Threads \ {t}
               PROVE  Setting(u)'
  OBVIOUS
<1>2. call'[u] = call[u] /\ Setting(u) /\ Apart(t, u) /\ Apart(u, t)
  BY Own, Each DEF Turn
<1>3. CASE call[u].op = "open"
  <2>1. call[u].s \in Streams /\ call[u].op # "clone"
    BY <1>3, Own DEF Lifecycle
  <2>2. call[t].s # call[u].s
    BY <1>2, <1>3 DEF Apart, Lifecycle
  <2>3. x # call[u].s
    <3>1. CASE call[t].op = "clone"
      BY <1>2, <2>2, <3>1 DEF Apart, Turn
    <3>2. CASE call[t].op # "clone"
      BY <2>2, <2>1, <3>2, Own, NoneFacts DEF Turn
    <3> QED
      BY <3>1, <3>2
  <2> QED
    BY <1>2, <1>3, <2>1, <2>3 DEF Setting, Turn
<1>4. CASE call[u].op = "clone"
  <2>1. call[u].s \in Streams /\ call[u].clone \in Streams
    BY <1>4, Own, NoneFacts, IdleCall DEF Placed
  <2>2. x # call[u].clone
    BY <1>2, <1>4 DEF Apart, Turn
  <2>3. CASE x # call[u].s
    BY <1>2, <1>4, <2>1, <2>2, <2>3 DEF Setting, Turn
  <2>4. CASE x = call[u].s
    <3>1. x = call[t].s /\ ~Lifecycle(t)
      <4>1. call[t].op # "clone" \/ x # call[t].clone
        BY <1>2, <2>4 DEF Apart
      <4>2. x = call[t].s
        BY <2>1, <2>4, <4>1, Own, NoneFacts DEF Turn
      <4>3. call[u].op \notin {"read", "seek"}
        BY <1>4
      <4> QED
        BY <1>2, <2>4, <4>2, <4>3 DEF Apart
    <3>2. native[x] # None /\ call[u].pc # "publish" => native'[x] # None
      <4>1. x # call[t].clone
        BY <1>2, <2>1, <2>4, Own, NoneFacts DEF Apart
      <4> QED
        BY <3>1, <4>1 DEF Held, Lifecycle
    <3> QED
      BY <1>2, <1>4, <2>1, <2>2, <2>4, <3>2 DEF Setting, Turn
  <2> QED
    BY <2>3, <2>4
<1>5. CASE call[u].op \notin {"open", "clone"}
  BY <1>2, <1>5 DEF Setting
<1> QED
  BY <1>3, <1>4, <1>5

LEMMA PlacedTurn ==
  ASSUME Inv, NEW t \in Threads, NEW x, Turn(t, x), Local(t, x)
  PROVE  /\ \A u \in Threads : Placed(call[u])'
         /\ \A s \in Streams : (side[s] # None => Sound(side[s]))'
<1>1. parted => parted'
  BY DEF Turn, Parts
<1>2. ASSUME NEW u \in Threads PROVE Placed(call[u])'
  <2>1. CASE u = t
    BY <2>1 DEF Local
  <2>2. CASE u # t
    <3>1. call'[u] = call[u] /\ Placed(call[u])
      BY <2>2, Own DEF Turn
    <3>2. Sound(call[u].rec) => Sound(call[u].rec)'
      BY <1>1, <3>1 DEF Sound
    <3> QED
      BY <1>1, <3>1, <3>2 DEF Placed
  <2> QED
    BY <2>1, <2>2
<1>3. ASSUME NEW s \in Streams PROVE (side[s] # None => Sound(side[s]))'
  <2>1. CASE s = x
    BY <2>1 DEF Local
  <2>2. CASE s # x
    <3>1. side'[s] = side[s] /\ (side[s] # None => Sound(side[s]))
      BY <2>2, Each DEF Turn
    <3> QED
      BY <1>1, <3>1 DEF Sound
  <2> QED
    BY <2>1, <2>2
<1> QED
  BY <1>2, <1>3

LEMMA LockTurn ==
  ASSUME Inv, NEW t \in Threads, NEW x, Turn(t, x), Locked(t)
  PROVE  /\ mutex' \in [Ids -> Threads \cup {None}]
         /\ \A i \in Ids : mutex'[i] # None =>
              call'[mutex'[i]].pc = "native" /\ call'[mutex'[i]].id = i
         /\ \A u \in Threads : call'[u].pc = "native" /\ call'[u].id # None =>
              mutex'[call'[u].id] = u
<1>1. /\ mutex \in [Ids -> Threads \cup {None}]
      /\ \A i \in Ids : mutex[i] # None =>
           call[mutex[i]].pc = "native" /\ call[mutex[i]].id = i
      /\ \A u \in Threads : call[u].pc = "native" /\ call[u].id # None =>
           mutex[call[u].id] = u
  BY DEF Inv, StreamInv, TypeOK, OwnIds
<1>2. /\ \A u \in Threads : call[u].id \in Ids \cup {None}
      /\ \A u \in Threads : call'[u].id \in Ids \cup {None}
  BY Each DEF Turn, Typed, Calls
<1>3. \A u \in Threads \ {t} : call'[u] = call[u]
  BY DEF Turn
<1>4. CASE mutex' = mutex /\ call[t].pc # "native" /\ (call'[t].pc = "native" => call'[t].id = None)
  BY <1>1, <1>3, <1>4
<1>5. CASE /\ call[t].pc = "body" /\ call'[t].pc = "native" /\ call'[t].id = call[t].id
           /\ call'[t].id # None /\ mutex[call'[t].id] = None
           /\ mutex' = [mutex EXCEPT ![call'[t].id] = t]
  <2>1. PICK i \in Ids : i = call'[t].id
    BY <1>2, <1>5
  <2>2. mutex[i] = None /\ mutex' = [mutex EXCEPT ![i] = t]
    BY <1>5, <2>1
  <2>3. mutex' \in [Ids -> Threads \cup {None}] /\ mutex'[i] = t
        /\ \A j \in Ids \ {i} : mutex'[j] = mutex[j]
    BY <1>1, <2>2
  <2>4. \A j \in Ids : mutex[j] # t
    BY <1>1, <1>5, NoneFacts
  <2>5. ASSUME NEW j \in Ids, mutex'[j] # None
        PROVE  call'[mutex'[j]].pc = "native" /\ call'[mutex'[j]].id = j
    <3>1. CASE j = i
      BY <1>5, <2>1, <2>3, <3>1
    <3>2. CASE j # i
      BY <1>1, <1>3, <2>3, <2>4, <2>5, <3>2
    <3> QED
      BY <3>1, <3>2
  <2>6. ASSUME NEW u \in Threads, call'[u].pc = "native", call'[u].id # None
        PROVE  mutex'[call'[u].id] = u
    <3>1. CASE u = t
      BY <2>1, <2>3, <3>1
    <3>2. CASE u # t
      <4>1. call'[u] = call[u] /\ mutex[call[u].id] = u /\ call[u].id \in Ids
        BY <1>1, <1>2, <1>3, <2>6, <3>2
      <4> QED
        BY <2>2, <2>3, <4>1, NoneFacts
    <3> QED
      BY <3>1, <3>2
  <2> QED
    BY <2>3, <2>5, <2>6
<1>6. CASE /\ call[t].pc = "native" /\ call'[t] = Idle
           /\ mutex' = [i \in Ids |-> IF i = call[t].id THEN None ELSE mutex[i]]
  <2>1. mutex' \in [Ids -> Threads \cup {None}]
    BY <1>1, <1>6
  <2>2. ASSUME NEW j \in Ids, mutex'[j] # None
        PROVE  call'[mutex'[j]].pc = "native" /\ call'[mutex'[j]].id = j
    <3>1. mutex'[j] = mutex[j] /\ j # call[t].id
      BY <1>6, <2>2
    <3>2. mutex[j] # t /\ mutex[j] \in Threads
      BY <1>1, <2>2, <3>1
    <3> QED
      BY <1>1, <1>3, <2>2, <3>1, <3>2
  <2>3. ASSUME NEW u \in Threads, call'[u].pc = "native", call'[u].id # None
        PROVE  mutex'[call'[u].id] = u
    <3>1. u # t
      BY <1>6, <2>3, IdleCall
    <3>2. call'[u] = call[u] /\ mutex[call[u].id] = u /\ call[u].id \in Ids
      BY <1>1, <1>2, <1>3, <2>3, <3>1
    <3>3. call[u].id # call[t].id
      BY <1>1, <1>6, <3>1, <3>2, NoneFacts
    <3> QED
      BY <1>6, <3>2, <3>3
  <2> QED
    BY <2>1, <2>2, <2>3
<1> QED
  BY <1>4, <1>5, <1>6 DEF Locked

LEMMA IdTurn ==
  ASSUME Inv, NEW t \in Threads, NEW x, Turn(t, x), Renewed(t, x), Keyed(t, x)
  PROVE  /\ \A s, y \in Streams : published'[s] # None /\ published'[s] = published'[y] => s = y
         /\ \A u \in Threads, s \in Streams :
              call'[u].id # None /\ call'[u].id = published'[s] =>
                call'[u].s = s /\ call'[u].pc \in {"body", "native"}
<1>1. /\ \A s, y \in Streams : published[s] # None /\ published[s] = published[y] => s = y
      /\ \A u \in Threads, s \in Streams : call[u].id # None /\ call[u].id = published[s] =>
           call[u].s = s /\ call[u].pc \in {"body", "native"}
  BY DEF Inv, StreamInv, OwnIds
<1>2. /\ x \in Streams /\ \A s \in Streams \ {x} : published'[s] = published[s]
      /\ \A u \in Threads \ {t} : call'[u] = call[u]
  BY DEF Turn
<1>3. \/ published'[x] = published[x]
      \/ published'[x] = None
      \/ /\ \A s \in Streams : published[s] # published'[x]
         /\ \A u \in Threads : call[u].id # published'[x]
  BY DEF Renewed
<1>4. \A s, y \in Streams : published'[s] # None /\ published'[s] = published'[y] => s = y
  BY <1>1, <1>2, <1>3
<1>5. ASSUME NEW u \in Threads, NEW s \in Streams,
             call'[u].id # None, call'[u].id = published'[s], call'[u].id = call[u].id
      PROVE  call[u].s = s /\ call[u].pc \in {"body", "native"}
  <2>1. published'[s] = published[s] \/ s = x
    BY <1>2
  <2>2. s = x => published'[x] = published[x]
    BY <1>3, <1>5
  <2> QED
    BY <1>1, <1>5, <2>1, <2>2
<1>6. ASSUME NEW u \in Threads, NEW s \in Streams,
             call'[u].id # None, call'[u].id = published'[s]
      PROVE  call'[u].s = s /\ call'[u].pc \in {"body", "native"}
  <2>1. CASE u # t
    BY <1>2, <1>5, <1>6, <2>1
  <2>2. CASE u = t
    <3>1. CASE /\ call'[t].id = call[t].id /\ call'[t].s = call[t].s
               /\ call[t].pc \in {"body", "native"} => call'[t].pc \in {"body", "native"}
      BY <1>5, <1>6, <2>2, <3>1
    <3>2. CASE call'[t].id = published'[x] /\ call'[t].s = x /\ call'[t].pc = "body"
      BY <1>2, <1>4, <1>6, <2>2, <3>2
    <3>3. CASE call'[t].id = published[x] /\ call'[t].s = x /\ published'[x] = None
      BY <1>1, <1>2, <1>6, <2>2, <3>3
    <3> QED
      BY <1>6, <2>2, <3>1, <3>2, <3>3 DEF Keyed
  <2> QED
    BY <2>1, <2>2
<1> QED
  BY <1>4, <1>6

(* A state that another call holds stays published, with what it holds.         *)
LEMMA KeptTurn ==
  ASSUME Inv, NEW t \in Threads, NEW x, Turn(t, x), Renewed(t, x), Held(t, x),
         NEW u \in Threads \ {t}, call[u].s = x
  PROVE  /\ ~Overlapping => ~Lifecycle(t)
         /\ x # call[t].clone
         /\ Lifecycle(t) => /\ call[t].op = "close"
                            /\ call[t].pc = "retire" => call[u].pc # "create"
         /\ call[u].pc = "native" /\ call[u].id # None /\ published[x] = call[u].id
              /\ ~Lifecycle(t) =>
                published'[x] = published[x] /\ side'[x] = side[x]
         /\ call[u].id # None /\ published'[x] = call[u].id => published[x] = call[u].id
<1>1. Apart(t, u) /\ x \in Streams
  BY Each DEF Turn
<1>2. x # call[t].clone
  BY <1>1, Own, NoneFacts DEF Apart
<1>3. x = call[t].s
  BY <1>2 DEF Turn
<1>4. /\ ~Overlapping => ~Lifecycle(t)
      /\ Lifecycle(t) => /\ call[t].op = "close"
                         /\ call[t].pc = "retire" => call[u].pc # "create"
  BY <1>1, <1>3 DEF Apart
<1>5. call[u].id # None /\ published'[x] = call[u].id => published[x] = call[u].id
  BY DEF Renewed
<1>6. ASSUME call[u].pc = "native", call[u].id # None, published[x] = call[u].id, ~Lifecycle(t)
      PROVE  published'[x] = published[x] /\ side'[x] = side[x]
  <2>1. mutex[published[x]] = u
    BY <1>6 DEF Inv, StreamInv, OwnIds
  <2>2. u # None /\ u # t
    BY NoneFacts
  <2>3. published'[x] = published[x]
    BY <1>2, <1>6, <2>1, <2>2 DEF Renewed
  <2> QED
    BY <1>6, <2>1, <2>2, <2>3 DEF Held
<1> QED
  BY <1>2, <1>4, <1>5, <1>6

LEMMA GuardedTurn ==
  ASSUME Inv, NEW t \in Threads, NEW x, Turn(t, x), Renewed(t, x), Held(t, x), Guarded(t)'
  PROVE  \A u \in Threads : Guarded(u)'
<1>1. SUFFICES ASSUME NEW u \in Threads \ {t}
               PROVE  Guarded(u)'
  OBVIOUS
<1>2. Overlapping' = Overlapping /\ AllocFails' = AllocFails
  BY DEF Turn, Parts, Overlapping, AllocFails
<1>3. call'[u] = call[u] /\ Guarded(u)
  BY Own DEF Turn
<1>4. CASE call[u].s # x
  <2>1. call[u].pc # "idle" => published'[call[u].s] = published[call[u].s]
    BY <1>4, Own DEF Turn
  <2> QED
    BY <1>2, <1>3, <2>1 DEF Guarded
<1>5. CASE call[u].s = x
  <2>1. ASSUME ~Overlapping PROVE ~Lifecycle(t) /\ x # call[t].clone
    BY <1>5, <2>1, KeptTurn
  <2>2. ASSUME ~Overlapping, call[u].pc = "body" PROVE published'[x] # None
    <3>1. published[x] # None /\ call[t].pc # "retire"
      BY <1>3, <1>5, <2>1, <2>2, Own DEF Guarded, Placed, Lifecycle
    <3> QED
      BY <2>1, <2>2, <3>1 DEF Renewed
  <2>3. ASSUME ~Overlapping, call[u].pc = "native", call[u].id # None
        PROVE  published'[x] = call[u].id
    BY <1>3, <1>5, <2>1, <2>3, KeptTurn DEF Guarded
  <2> QED
    BY <1>2, <1>3, <1>5, <2>2, <2>3 DEF Guarded
<1> QED
  BY <1>4, <1>5

LEMMA InFlightTurn ==
  ASSUME Inv, NEW t \in Threads, NEW x, Turn(t, x), Renewed(t, x), Held(t, x),
         ~parted', InFlight(t)'
  PROVE  \A u \in Threads : InFlight(u)'
<1>1. SUFFICES ASSUME NEW u \in Threads \ {t}
               PROVE  InFlight(u)'
  OBVIOUS
<1>2. ~parted /\ ~Unguarded(t)
  BY DEF Turn, Parts
<1>3. call'[u] = call[u] /\ InFlight(u) /\ Placed(call[u])
  BY <1>2, Own DEF Turn
<1>4. ASSUME call[u].op = "clone", call[u].pc = "publish"
      PROVE  /\ native'[call[u].clone] = native[call[u].clone]
             /\ caller'[call[u].clone] = caller[call[u].clone]
  <2>1. Apart(u, t) /\ call[u].clone \in Streams
    BY <1>4, Each, Own
  <2>2. x # call[u].clone
    BY <1>4, <2>1 DEF Apart, Turn
  <2> QED
    BY <2>1, <2>2 DEF Turn
<1>5. CASE call[u].s # x
  <2>1. call[u].pc # "idle" =>
          /\ published'[call[u].s] = published[call[u].s] /\ side'[call[u].s] = side[call[u].s]
          /\ native'[call[u].s] = native[call[u].s]
    BY <1>5, Own DEF Turn
  <2> QED
    BY <1>3, <1>4, <2>1 DEF InFlight
<1>6. CASE call[u].s = x
  <2>1. /\ x # call[t].clone
        /\ Lifecycle(t) => call[t].op = "close"
        /\ Lifecycle(t) /\ call[t].pc = "retire" => call[u].pc # "create"
        /\ call[u].id # None /\ published'[x] = call[u].id => published[x] = call[u].id
    BY <1>6, KeptTurn
  <2>2. /\ call[t].op = "open" => Lifecycle(t) /\ call[t].op # "close"
        /\ call[t].pc = "retire" => Lifecycle(t)
    BY Own DEF Placed, Lifecycle
  <2>3. native'[x] # native[x] /\ native'[x] # None => call[t].pc = "native" /\ call[t].s = x
    BY <2>1, <2>2 DEF Held
  <2>4. ASSUME call[u].pc = "native", call[u].mode # "bare", native'[x] # None
        PROVE  /\ Follows(call[u].rec, native'[x])
               /\ published'[x] = call[u].id => ~side'[x].cached
    <3>1. native'[x] = native[x]
      BY <1>2, <1>6, <2>3, <2>4 DEF Unguarded
    <3>2. Follows(call[u].rec, native[x]) /\ (published[x] = call[u].id => ~side[x].cached)
      BY <1>3, <1>6, <2>4, <3>1 DEF InFlight
    <3>3. call[u].id # None
      BY <1>3, <2>4 DEF Placed
    <3>4. ASSUME published'[x] = call[u].id PROVE side'[x] = side[x]
      <4>1. mutex[call[u].id] = u /\ u # None /\ u # t
        BY <2>4, <3>3, NoneFacts DEF Inv, StreamInv, OwnIds
      <4> QED
        BY <2>1, <3>3, <3>4, <4>1 DEF Held
    <3> QED
      BY <2>1, <3>1, <3>2, <3>3, <3>4
  <2>5. call[u].pc = "native" /\ call[u].mode = "bare" /\ call[u].id # None =>
          published'[x] # call[u].id
    BY <1>3, <1>6, <2>1 DEF InFlight
  <2>6. ASSUME call[u].pc = "create", published'[x] = None, native'[x] # None
        PROVE  Follows(call[u].rec, native'[x])
    <3>1. published[x] = None
      BY <2>1, <2>2, <2>6 DEF Renewed
    <3>2. native'[x] = native[x]
      BY <1>2, <1>6, <2>3, <2>6, <3>1 DEF Unguarded
    <3> QED
      BY <1>3, <1>6, <2>6, <3>1, <3>2 DEF InFlight
  <2> QED
    BY <1>3, <1>4, <1>6, <2>4, <2>5, <2>6 DEF InFlight
<1> QED
  BY <1>5, <1>6

LEMMA LevelTurn ==
  ASSUME Inv, NEW t \in Threads, NEW x, Turn(t, x), Steady(t, x), ~parted', Level(x)'
  PROVE  \A s \in Streams : Level(s)'
<1>1. SUFFICES ASSUME NEW s \in Streams \ {x}
               PROVE  Level(s)'
  OBVIOUS
<1>2. Level(s)
  BY Each DEF Turn, Parts
<1>3. native'[s] = native[s] /\ side'[s] = side[s] /\ caller'[s] = caller[s]
  BY DEF Turn
<1>4. \A u \in Threads \ {t} : call'[u] = call[u]
  BY DEF Turn
<1>5. Making(s) => Making(s)'
  <2>1. SUFFICES ASSUME call[t].clone = s
                 PROVE  call'[t].clone = s
    BY <1>4 DEF Making
  <2>2. call[t].op = "clone"
    BY <2>1, Own, NoneFacts
  <2> QED
    BY <2>1, <2>2 DEF Steady
<1>6. Ending(s) => Ending(s)'
  <2>1. SUFFICES ASSUME s \in {call[t].s, call[t].clone}, Lifecycle(t)
                 PROVE  s \in {call'[t].s, call'[t].clone} /\ Lifecycle(t)'
    BY <1>3, <1>4 DEF Ending, Users, Lifecycle
  <2>2. call'[t] # Idle
    BY <2>1, Own, NoneFacts DEF Turn
  <2> QED
    BY <2>1, <2>2 DEF Steady, Lifecycle
<1> QED
  BY <1>2, <1>3, <1>5, <1>6 DEF Level

LEMMA PartedTurn ==
  ASSUME Inv, NEW t \in Threads, NEW x, Turn(t, x), Bereft(t) => "publish" \in AllocFails
  PROVE  PartedExplained'
<1>1. Overlapping' = Overlapping /\ AllocFails' = AllocFails
  BY DEF Turn, Parts, Overlapping, AllocFails
<1>2. PartedExplained
  BY DEF Inv, CursorsAgree
<1>3. ASSUME Unguarded(t), ~Overlapping, "state" \notin AllocFails PROVE FALSE
  <2>1. call[t].id # None /\ published[call[t].s] = call[t].id /\ mutex[call[t].id] = t
    BY <1>3, Own DEF Unguarded, Guarded, Inv, StreamInv, OwnIds
  <2>2. PICK u \in Threads \ {t} : call[u].s = call[t].s /\ call[u].pc = "native" /\ call[u].mode # "bare"
    BY <1>3, <2>1 DEF Unguarded
  <2>3. call[u].id # None /\ published[call[u].s] = call[u].id /\ mutex[call[u].id] = u
    BY <1>3, <2>2, Own DEF Guarded, Inv, StreamInv, OwnIds
  <2> QED
    BY <2>1, <2>2, <2>3
<1>4. parted' => parted \/ Unguarded(t) \/ Bereft(t) \/ "identity" \in AllocFails
  BY DEF Turn, Parts
<1> QED
  BY <1>1, <1>2, <1>3, <1>4 DEF PartedExplained

LEMMA CloseTurn ==
  ASSUME Inv, NEW t \in Threads, NEW x, Turn(t, x), Steady(t, x), Locked(t)
  PROVE  CloseWaits'
<1>1. SUFFICES ASSUME NEW u \in Threads, NEW v \in Threads,
                      call'[u].pc = "lifecycle", call'[v].pc = "native",
                      call'[u].id # None, call'[v].id = call'[u].id
               PROVE  call'[v].mode = "bare"
  BY DEF CloseWaits
<1>2. \A w \in Threads \ {t} : call'[w] = call[w]
  BY DEF Turn
<1>3. u # v
  BY <1>1
<1>4. CASE u # t /\ v # t
  BY <1>1, <1>2, <1>4 DEF Inv, CloseWaits
<1>5. CASE u = t
  <2>1. mutex[call'[t].id] = None
    BY <1>1, <1>5, IdleCall DEF Locked
  <2>2. call[v].pc = "native" /\ call[v].id = call'[t].id
    BY <1>1, <1>2, <1>3, <1>5
  <2>3. mutex[call[v].id] = v
    BY <1>1, <1>5, <2>2 DEF Inv, StreamInv, OwnIds
  <2> QED
    BY <2>1, <2>2, <2>3, NoneFacts
<1>6. CASE v = t
  <2>1. call[u].pc = "lifecycle" /\ call[u].id = call'[t].id
    BY <1>1, <1>2, <1>3, <1>6
  <2>2. call'[t].mode = "bare" \/ published[call[t].s] = call'[t].id
    BY <1>1, <1>6, IdleCall DEF Locked
  <2>3. call[t].s \in Streams
    BY Own DEF Turn
  <2>4. published[call[t].s] # call[u].id
    BY <1>1, <1>6, <2>1, <2>3 DEF Inv, StreamInv, OwnIds
  <2> QED
    BY <1>6, <2>1, <2>2, <2>4
<1> QED
  BY <1>4, <1>5, <1>6

(* What a capture records, and what a read delivers.                           *)
Recorded ==
  /\ last' \in [from : Cursors, due : Cursors] /\ learned' \subseteq Seq(Cursors)
  /\ ~parted' => /\ last' = last \/ last'.from = last'.due
                 /\ learned' \subseteq learned \cup {Whole}

LEMMA Turned ==
  ASSUME Inv, NEW t \in Threads, NEW x, Turn(t, x), Steady(t, x), Renewed(t, x), Held(t, x),
         Keyed(t, x), Locked(t), Local(t, x), Recorded, Bereft(t) => "publish" \in AllocFails
  PROVE  Inv'
<1>1. Typed' /\ Placed(call[t])' /\ Guarded(t)' /\ Setting(t)'
  BY DEF Turn, Local
<1>2. TypeOK'
  BY <1>1, LockTurn DEF TypeOK, Typed, Recorded
<1>3. OwnIds'
  BY LockTurn, IdTurn DEF OwnIds
<1>4. OwnStreams'
  <2>1. \A u \in Threads : Setting(u)'
    BY <1>1, SettingTurn
  <2>2. \A u, v \in Threads : u # v => Apart(u, v)'
    BY <1>1, ApartTurn
  <2> QED
    BY <2>1, <2>2 DEF OwnStreams, Setting
<1>5. ASSUME ~parted' PROVE \A u \in Threads : InFlight(u)'
  BY <1>5, InFlightTurn DEF Local
<1>6. StreamInv'
  BY <1>1, <1>2, <1>3, <1>4, <1>5, PlacedTurn, GuardedTurn DEF StreamInv
<1>7. CursorsAgree'
  <2>1. ASSUME ~parted' PROVE \A s \in Streams : Level(s)'
    BY <2>1, LevelTurn DEF Local
  <2> QED
    BY <2>1, PartedTurn DEF CursorsAgree, Level
<1>8. Learnt'
  <2>1. parted => parted'
    BY DEF Turn, Parts
  <2>2. Whole' = Whole
    BY DEF Whole
  <2> QED
    BY <2>1, <2>2 DEF Inv, Learnt, LearnsWhole, BytesInOrder, Recorded
<1> QED
  BY <1>6, <1>7, <1>8, CloseTurn DEF Inv

-----------------------------------------------------------------------------
(* There is a state object that no stream publishes and no call holds.         *)
LEMMA Fresh ==
  ASSUME Inv, NEW t \in Threads, call[t].id \in {None} \cup {published[s] : s \in Streams}
  PROVE  /\ FreshId \in Ids
         /\ \A s \in Streams : published[s] # FreshId
         /\ \A u \in Threads : call[u].id # FreshId
<1> DEFINE P == {published[s] : s \in Streams}
           O == Threads \ {t}
           C == {call[u].id : u \in O}
           pf == [s \in Streams |-> published[s]]
           cf == [u \in O |-> call[u].id]
<1>1. /\ IsFiniteSet(Streams) /\ IsFiniteSet(Threads)
      /\ Cardinality(Streams) \in Nat /\ Cardinality(Threads) \in Nat
  BY StreamAssumption, FS_CardinalityType
<1>2. IsFiniteSet(O) /\ Cardinality(O) = Cardinality(Threads) - 1
  BY <1>1, FS_RemoveElement
<1>3. IsFiniteSet(P) /\ Cardinality(P) <= Cardinality(Streams)
  <2>1. pf \in Surjection(Streams, P)
    BY DEF Surjection
  <2> QED
    BY <1>1, <2>1, FS_Surjection
<1>4. IsFiniteSet(C) /\ Cardinality(C) <= Cardinality(O)
  <2>1. cf \in Surjection(O, C)
    BY DEF Surjection
  <2> QED
    BY <1>2, <2>1, FS_Surjection
<1>5. /\ IsFiniteSet(P \cup C)
      /\ Cardinality(P \cup C) <= Cardinality(Streams) + Cardinality(Threads) - 1
  <2>1. IsFiniteSet(P \cap C) /\ IsFiniteSet(P \cup C)
        /\ Cardinality(P \cup C) = Cardinality(P) + Cardinality(C) - Cardinality(P \cap C)
    BY <1>3, <1>4, FS_Union, FS_Intersection
  <2>2. Cardinality(P \cap C) \in Nat /\ Cardinality(P) \in Nat /\ Cardinality(C) \in Nat
    BY <1>3, <1>4, <2>1, FS_CardinalityType
  <2> QED
    BY <1>1, <1>2, <1>3, <1>4, <2>1, <2>2
<1>6. IsFiniteSet(Ids) /\ Cardinality(Ids) = Cardinality(Streams) + Cardinality(Threads)
  <2>1. Cardinality(Threads) # 0
    BY <1>1, <1>2, FS_CardinalityType
  <2>2. Cardinality(Streams) + Cardinality(Threads) \in Int /\ Cardinality(Streams) + Cardinality(Threads) > 0
    BY <1>1, <2>1
  <2> QED
    BY <2>2, FS_Interval DEF Ids
<1>7. Free # {}
  <2>1. SUFFICES ASSUME Ids \subseteq P \cup {call[u].id : u \in Threads} PROVE FALSE
    BY DEF Free
  <2>2. Ids \subseteq P \cup C
    <3>1. SUFFICES ASSUME NEW i \in Ids PROVE i \in P \cup C
      OBVIOUS
    <3>2. CASE i \in P
      BY <3>2
    <3>3. CASE i \notin P
      <4>1. PICK u \in Threads : i = call[u].id
        BY <2>1, <3>3
      <4>2. u # t
        BY <3>3, <4>1, NoneFacts
      <4> QED
        BY <4>1, <4>2
    <3> QED
      BY <3>2, <3>3
  <2>3. Cardinality(Ids) <= Cardinality(P \cup C)
    BY <1>5, <2>2, FS_Subset
  <2>4. Cardinality(P \cup C) \in Nat
    BY <1>5, FS_CardinalityType
  <2> QED
    BY <1>1, <1>5, <1>6, <2>3, <2>4
<1>8. FreshId \in Free
  BY <1>7 DEF FreshId
<1> QED
  BY <1>8 DEF Free

-----------------------------------------------------------------------------
(* A step that changes no stream: the call goes on as c.                       *)
Quiet(t, c) ==
  /\ UNCHANGED <<native, caller, published, side, last, learned>>
  /\ Parts(t) /\ call' = [call EXCEPT ![t] = c] /\ c \in Calls
  /\ call[t].pc \in {"find", "body", "wait"}
  /\ c.op = call[t].op /\ c.s = call[t].s /\ c.clone = call[t].clone
  /\ c.pc \notin {"idle", "publish", "retire"}
  /\ c.pc = "find" => published[c.s] # None
  /\ c.pc = "create" => call[t].pc = "find" /\ published[c.s] = None

LEMMA QuietTurn ==
  ASSUME Inv, NEW t \in Threads, NEW c, Quiet(t, c), Keyed(t, call[t].s), Locked(t),
         Placed(call[t])', Guarded(t)', (~parted => InFlight(t))'
  PROVE  Inv'
<1>1. PICK x \in Streams : x = call[t].s
  BY Own DEF Quiet
<1>2. call'[t] = c /\ \A u \in Threads \ {t} : call'[u] = call[u]
  BY Each DEF Quiet, Typed
<1>3. /\ native' = native /\ caller' = caller /\ published' = published /\ side' = side
      /\ last' = last /\ learned' = learned
  BY DEF Quiet
<1>4. Parts(t)
  BY DEF Quiet
<1>5. Typed'
  <2>1. Typed
    BY Each
  <2>2. call' \in [Threads -> Calls]
    BY <2>1 DEF Quiet, Typed
  <2>3. parted' \in BOOLEAN
    BY <1>4, <2>1 DEF Parts, Typed
  <2>4. scenario' = scenario
    BY <1>4 DEF Parts
  <2> QED
    BY <1>3, <2>1, <2>2, <2>3, <2>4 DEF Typed
<1>6. Turn(t, x)
  BY <1>1, <1>2, <1>3, <1>4, <1>5 DEF Turn, Quiet
<1>7. Steady(t, x) /\ Renewed(t, x) /\ Held(t, x)
  BY <1>1, <1>2, <1>3 DEF Quiet, Steady, Renewed, Held
<1>8. Recorded
  BY <1>3 DEF Recorded, Inv, StreamInv, TypeOK
<1>9. Setting(t)'
  BY <1>2, <1>3, Own DEF Setting, Quiet
<1>10. (~parted => Level(x))' /\ (side[x] # None => Sound(side[x]))'
  <2>1. /\ \A u \in Threads : call'[u].op = call[u].op /\ call'[u].s = call[u].s
                              /\ call'[u].clone = call[u].clone
        /\ parted => parted'
    BY <1>2, <1>4 DEF Quiet, Parts
  <2>2. (Making(x) <=> Making(x)') /\ (Ending(x) <=> Ending(x)')
    BY <1>3, <2>1 DEF Making, Ending, Users, Lifecycle
  <2> QED
    BY <1>3, <2>1, <2>2, Each DEF Level, Sound
<1>11. ~Bereft(t)
  BY DEF Quiet, Bereft
<1> QED
  BY <1>1, <1>6, <1>7, <1>8, <1>9, <1>10, <1>11, Turned DEF Local

-----------------------------------------------------------------------------
(* GetOrCreateCompressedState.                                                *)

LEMMA NewStates ==
  ASSUME NEW resolved \in BOOLEAN, NEW cursor \in Logical \cup {None}
  PROVE  /\ StateAt(resolved, cursor) \in State
         /\ ~StateAt(resolved, cursor).cached /\ StateAt(resolved, cursor).buffer = <<>>
         /\ StateAt(resolved, cursor).cursorKnown => StateAt(resolved, cursor).cursor = cursor
         /\ StateAt(resolved, cursor).cursorKnown <=> cursor # None
         /\ Sound(StateAt(resolved, cursor))'
<1>1. 0 \in Logical
  BY StreamAssumption DEF Logical
<1>2. <<>> \in Seq(Cursors)
  OBVIOUS
<1>3. \A n \in Logical : NewState(resolved, n) \in State
  BY <1>2 DEF NewState, State, Status
<1>4. StateAt(resolved, cursor) \in State
  <2>1. CASE cursor = None
    <3>1. PICK new \in State : new = NewState(resolved, 0)
      BY <1>1, <1>3
    <3>2. [new EXCEPT !.cursorKnown = FALSE] \in State
      BY DEF State
    <3> QED
      BY <2>1, <3>1, <3>2 DEF StateAt
  <2>2. CASE cursor # None
    BY <1>1, <1>3, <2>2 DEF StateAt
  <2> QED
    BY <2>1, <2>2
<1>5. /\ ~StateAt(resolved, cursor).cached /\ StateAt(resolved, cursor).buffer = <<>>
      /\ StateAt(resolved, cursor).cursorKnown => StateAt(resolved, cursor).cursor = cursor
  BY DEF StateAt, NewState
<1>6. StateAt(resolved, cursor).cursorKnown <=> cursor # None
  BY DEF StateAt, NewState
<1> QED
  BY <1>4, <1>5, <1>6 DEF Sound, Prefix

LEMMA FindKeeps ==
  ASSUME Inv, NEW t \in Threads, Find(t), Parts(t)
  PROVE  Inv'
<1>1. call \in [Threads -> Calls] /\ published \in [Streams -> Ids \cup {None}]
      /\ native \in [Streams -> Cursors \cup {None}]
  BY Each DEF Typed
<1>2. PICK s \in Streams : s = call[t].s
  BY Own DEF Find
<1>3. /\ call[t].pc = "find" /\ call[t].id = None /\ call[t].rec = None /\ ~call[t].append
      /\ call[t].op \in {"read", "seek", "clone"}
  BY <1>1, Own DEF Find, Placed, Calls
<1>4. mutex' = mutex /\ UNCHANGED <<native, caller, published, side, last, learned>>
  BY DEF Find
<1>5. Overlapping' = Overlapping /\ AllocFails' = AllocFails
  BY DEF Parts, Overlapping, AllocFails
<1>6. CASE published[s] # None /\ call' = [call EXCEPT ![t].pc = "body", ![t].id = published[s]]
  <2> DEFINE c == [call[t] EXCEPT !.pc = "body", !.id = published[s]]
  <2>1. c \in Calls
    BY <1>1, <1>6, ZenonT(60) DEF Calls
  <2>2. call' = [call EXCEPT ![t] = c]
    BY <1>1, <1>6
  <2>3. call'[t] = c
    BY <1>1, <2>2
  <2>4. Quiet(t, c)
    BY <1>1, <1>3, <1>4, <2>1, <2>2 DEF Quiet, Calls
  <2>5. Keyed(t, call[t].s) /\ Locked(t)
    BY <1>1, <1>2, <1>3, <1>4, <2>3 DEF Keyed, Locked, Calls
  <2>6. Placed(call[t])'
    BY <1>1, <1>2, <1>3, <1>6, <2>3, Own DEF Placed, Calls
  <2>7. Guarded(t)' /\ InFlight(t)'
    BY <1>1, <1>2, <1>3, <1>4, <1>6, <2>3 DEF Guarded, InFlight, Calls
  <2> QED
    BY <2>4, <2>5, <2>6, <2>7, QuietTurn
<1>7. CASE /\ published[s] = None
           /\ \E q \in Query(s) :
                call' = [call EXCEPT ![t].pc = "create", ![t].rec = StateAt(call[t].ident, q)]
  <2>1. PICK q \in Query(s) :
          call' = [call EXCEPT ![t].pc = "create", ![t].rec = StateAt(call[t].ident, q)]
    BY <1>7
  <2>2. q \in {native[s], None} /\ q \in Logical \cup {None}
    <3>1. Cursors \subseteq Logical
      BY StreamAssumption DEF Cursors, Logical
    <3> QED
      BY <1>1, <3>1 DEF Query
  <2>3. call[t].ident \in BOOLEAN
    BY <1>1 DEF Calls
  <2>4. PICK rec \in State : /\ rec = StateAt(call[t].ident, q)
                             /\ rec.cursorKnown => rec.cursor = q
                             /\ ~rec.cached /\ Sound(rec)'
    BY <2>2, <2>3, NewStates
  <2>13. [call[t] EXCEPT !.pc = "create", !.rec = rec] \in Calls
    BY <1>1, ZenonT(60) DEF Calls
  <2>5. PICK c \in Calls : c = [call[t] EXCEPT !.pc = "create", !.rec = rec]
    BY <2>13
  <2>6. call' = [call EXCEPT ![t] = c]
    BY <1>1, <2>1, <2>4, <2>5
  <2>7. call'[t] = c /\ call'[t].rec = rec /\ c.pc = "create" /\ c.id = None /\ c.op = call[t].op /\ c.s = s
        /\ c.clone = call[t].clone /\ ~c.append /\ c.n = call[t].n
    BY <1>1, <1>2, <1>3, <2>5, <2>6 DEF Calls
  <2>8. Quiet(t, c)
    BY <1>2, <1>3, <1>4, <1>7, <2>6, <2>7 DEF Quiet
  <2>9. Keyed(t, call[t].s) /\ Locked(t)
    BY <1>3, <1>4, <2>7 DEF Keyed, Locked
  <2>10. Placed(call[t])'
    BY <1>2, <1>3, <2>4, <2>7, NoneFacts, Own DEF Placed
  <2>11. Guarded(t)'
    BY <2>7 DEF Guarded
  <2>12. InFlight(t)'
    <3>1. q = native[s] \/ ~rec.cursorKnown
      BY <2>2, <2>4 DEF StateAt, NewState
    <3> QED
      BY <1>3, <1>4, <2>4, <2>7, <3>1 DEF InFlight, Follows
  <2> QED
    BY <2>8, <2>9, <2>10, <2>11, <2>12, QuietTurn
<1>8. CASE /\ published[s] = None /\ "state" \in AllocFails
           /\ call' = [call EXCEPT ![t].pc = "native", ![t].mode = "bare"]
  <2> DEFINE c == [call[t] EXCEPT !.pc = "native", !.mode = "bare"]
  <2>1. c \in Calls
    BY <1>1, ZenonT(60) DEF Calls, Modes
  <2>2. call' = [call EXCEPT ![t] = c]
    BY <1>1, <1>8
  <2>3. call'[t] = c
    BY <1>1, <2>2
  <2>4. Quiet(t, c)
    BY <1>1, <1>3, <1>4, <2>1, <2>2 DEF Quiet, Calls
  <2>5. Keyed(t, call[t].s) /\ Locked(t)
    BY <1>1, <1>2, <1>3, <1>4, <2>3 DEF Keyed, Locked, Calls
  <2>6. Placed(call[t])'
    BY <1>1, <1>2, <1>3, <2>3, NoneFacts, Own DEF Placed, Calls, Modes
  <2>7. Guarded(t)' /\ InFlight(t)'
    BY <1>1, <1>2, <1>3, <1>5, <1>8, <2>3 DEF Guarded, InFlight, Calls
  <2> QED
    BY <2>4, <2>5, <2>6, <2>7, QuietTurn
<1> QED
  BY <1>2, <1>6, <1>7, <1>8 DEF Find

-----------------------------------------------------------------------------
(* A step that changes stream x: its object becomes p with contents d, its      *)
(* decompressor stands at n and the engine at m, and the call goes on as c.   *)
Moves(t, c, x, p, d, n, m) ==
  /\ Parts(t) /\ call[t].pc # "idle" /\ x \in {call[t].s, call[t].clone}
  /\ call' = [call EXCEPT ![t] = c]
  /\ published' = [published EXCEPT ![x] = p] /\ side' = [side EXCEPT ![x] = d]
  /\ native' = [native EXCEPT ![x] = n] /\ caller' = [caller EXCEPT ![x] = m]
  /\ x \in Streams /\ c \in Calls /\ p \in Ids \cup {None} /\ d \in State \cup {None}
  /\ n \in Cursors \cup {None} /\ m \in Cursors
  /\ p = None <=> d = None

LEMMA MovesTurn ==
  ASSUME Inv, NEW t \in Threads, NEW c, NEW x, NEW p, NEW d, NEW n, NEW m,
         Moves(t, c, x, p, d, n, m)
  PROVE  /\ Turn(t, x)
         /\ call'[t] = c /\ published'[x] = p /\ side'[x] = d /\ native'[x] = n /\ caller'[x] = m
<1>1. Typed /\ x \in Streams
  BY Each DEF Moves
<1>2. /\ call' \in [Threads -> Calls] /\ call'[t] = c
      /\ \A u \in Threads \ {t} : call'[u] = call[u]
  BY <1>1 DEF Moves, Typed
<1>3. /\ native' \in [Streams -> Cursors \cup {None}] /\ native'[x] = n
      /\ \A s \in Streams \ {x} : native'[s] = native[s]
  BY <1>1 DEF Moves, Typed
<1>4. /\ caller' \in [Streams -> Cursors] /\ caller'[x] = m
      /\ \A s \in Streams \ {x} : caller'[s] = caller[s]
  BY <1>1 DEF Moves, Typed
<1>5. /\ published' \in [Streams -> Ids \cup {None}] /\ published'[x] = p
      /\ \A s \in Streams \ {x} : published'[s] = published[s]
  BY <1>1 DEF Moves, Typed
<1>6. /\ side' \in [Streams -> State \cup {None}] /\ side'[x] = d
      /\ \A s \in Streams \ {x} : side'[s] = side[s]
  BY <1>1 DEF Moves, Typed
<1>7. \A s \in Streams : published'[s] = None <=> side'[s] = None
  <2>1. TAKE s \in Streams
  <2>2. CASE s = x
    BY <1>5, <1>6, <2>2 DEF Moves
  <2>3. CASE s # x
    BY <1>1, <1>5, <1>6, <2>3 DEF Typed
  <2> QED
    BY <2>2, <2>3
<1>8. scenario' \in Scenarios /\ parted' \in BOOLEAN
  BY <1>1 DEF Moves, Parts, Typed
<1>9. Typed'
  BY <1>2, <1>3, <1>4, <1>5, <1>6, <1>7, <1>8 DEF Typed
<1> QED
  BY <1>1, <1>2, <1>3, <1>4, <1>5, <1>6, <1>9 DEF Turn, Moves

(* Nothing else relates to a stream that a call has and that is not a clone's.   *)
LEMMA Lone ==
  ASSUME Inv, NEW t \in Threads, call[t].pc # "idle"
  PROVE  ~Making(call[t].s)
<1>1. SUFFICES ASSUME NEW u \in Threads, call[u].clone = call[t].s PROVE FALSE
  BY DEF Making
<1>2. call[t].s \in Streams /\ call[u].op = "clone"
  BY <1>1, Own, NoneFacts
<1>3. u # t
  BY <1>1, <1>2, Own DEF Setting
<1> QED
  BY <1>1, <1>2, <1>3, Each DEF Apart

(* What Level said of such a stream before the step.                          *)
LEMMA Was ==
  ASSUME Inv, NEW t \in Threads, NEW x, Turn(t, x), x = call[t].s, native[x] # None, ~parted
  PROVE  /\ Follows(side[x], native[x])
         /\ ~Lifecycle(t) /\ ~Ending(x)' => ~Ending(x) /\ Agree(side[x], native[x], caller[x])
<1>1. Level(x) /\ ~Making(x)
  BY Lone, Each DEF Turn
<1>2. ASSUME ~Lifecycle(t), Ending(x) PROVE Ending(x)'
  <2>1. PICK u \in Threads : x \in {call[u].s, call[u].clone} /\ Lifecycle(u)
    BY <1>2 DEF Ending, Users
  <2>2. call'[u] = call[u]
    BY <1>2, <2>1 DEF Turn
  <2> QED
    BY <2>1, <2>2 DEF Ending, Users, Lifecycle
<1> QED
  BY <1>1, <1>2 DEF Level

(* PublishCompressedStateIfAbsent.                                            *)
LEMMA CreateKeeps ==
  ASSUME Inv, NEW t \in Threads, Create(t), Parts(t)
  PROVE  Inv'
<1>1. /\ call \in [Threads -> Calls] /\ published \in [Streams -> Ids \cup {None}]
      /\ native \in [Streams -> Cursors \cup {None}] /\ caller \in [Streams -> Cursors]
      /\ side \in [Streams -> State \cup {None}]
      /\ \A s \in Streams : published[s] = None <=> side[s] = None
  BY Each DEF Typed
<1>2. PICK s \in Streams : s = call[t].s
  BY Own DEF Create
<1>3. /\ call[t].pc = "create" /\ call[t].id = None /\ call[t].rec \in State /\ ~call[t].append
      /\ call[t].op \in {"read", "seek", "clone"} /\ ~call[t].rec.cached /\ Sound(call[t].rec)
  BY <1>1, Own DEF Create, Placed, Calls
<1>4. /\ FreshId \in Ids
      /\ \A y \in Streams : published[y] # FreshId
      /\ \A u \in Threads : call[u].id # FreshId
  BY <1>3, Fresh
<1>5. PICK id, d :
        /\ IF published[s] = None THEN id = FreshId /\ d = call[t].rec
           ELSE id = published[s] /\ d = side[s]
        /\ id \in Ids /\ d \in State
  BY <1>1, <1>3, <1>4, NoneFacts
<1>6. [call[t] EXCEPT !.pc = "body", !.id = id, !.rec = None] \in Calls
  BY <1>1, <1>5, ZenonT(60) DEF Calls
<1>7. PICK c \in Calls : c = [call[t] EXCEPT !.pc = "body", !.id = id, !.rec = None]
  BY <1>6
<1>8. /\ c.pc = "body" /\ c.id = id /\ c.rec = None /\ c.op = call[t].op /\ c.s = s
      /\ c.clone = call[t].clone /\ ~c.append /\ c.n = call[t].n
  BY <1>1, <1>2, <1>3, <1>7 DEF Calls
<1>9. Moves(t, c, s, id, d, native[s], caller[s])
  <2>1. call' = [call EXCEPT ![t] = c]
    BY <1>1, <1>2, <1>5, <1>7 DEF Create
  <2>2. published' = [published EXCEPT ![s] = id] /\ side' = [side EXCEPT ![s] = d]
    BY <1>1, <1>2, <1>5 DEF Create
  <2>3. native' = [native EXCEPT ![s] = native[s]] /\ caller' = [caller EXCEPT ![s] = caller[s]]
    BY <1>1 DEF Create
  <2> QED
    BY <1>1, <1>2, <1>3, <1>5, <2>1, <2>2, <2>3, NoneFacts DEF Moves
<1>10. Turn(t, s) /\ call'[t] = c /\ published'[s] = id /\ side'[s] = d /\ native'[s] = native[s]
       /\ caller'[s] = caller[s]
  BY <1>9, MovesTurn
<1>11. Steady(t, s) /\ Renewed(t, s) /\ Held(t, s) /\ Keyed(t, s)
  <2>1. Steady(t, s)
    BY <1>2, <1>8, <1>10 DEF Steady
  <2>2. Renewed(t, s) /\ Held(t, s)
    BY <1>1, <1>4, <1>5, <1>10, NoneFacts DEF Renewed, Held
  <2> QED
    BY <1>8, <1>10, <2>1, <2>2 DEF Keyed
<1>12. Locked(t) /\ Recorded /\ ~Bereft(t)
  BY <1>3, <1>8, <1>10 DEF Locked, Recorded, Bereft, Create, Inv, StreamInv, TypeOK
<1>13. Placed(call[t])'
  BY <1>2, <1>3, <1>5, <1>8, <1>10, NoneFacts, Own DEF Placed
<1>14. Guarded(t)' /\ Setting(t)' /\ (~parted => InFlight(t))'
  <2>1. Guarded(t)' /\ InFlight(t)'
    BY <1>5, <1>8, <1>10, NoneFacts DEF Guarded, InFlight
  <2>2. Setting(t)'
    BY <1>2, <1>3, <1>8, <1>10, Own DEF Setting, Turn
  <2> QED
    BY <2>1, <2>2
<1>15. (side[s] # None => Sound(side[s]))'
  <2>1. Sound(d)
    BY <1>1, <1>3, <1>5, NoneFacts, Each
  <2>2. parted => parted'
    BY DEF Parts
  <2> QED
    BY <1>10, <2>1, <2>2 DEF Sound
<1>16. (~parted => Level(s))'
  <2>1. SUFFICES ASSUME ~parted' PROVE Level(s)'
    OBVIOUS
  <2>2. ~parted
    BY <2>1 DEF Parts
  <2>3. CASE native[s] = None
    BY <1>10, <2>3 DEF Level, Ending
  <2>4. CASE native[s] # None
    <3>1. /\ Follows(side[s], native[s])
          /\ ~Ending(s)' => Agree(side[s], native[s], caller[s])
      BY <1>2, <1>3, <1>10, <2>2, <2>4, Was DEF Lifecycle
    <3>2. published[s] = None => Follows(call[t].rec, native[s])
      BY <1>2, <1>3, <2>2, <2>4, Own DEF InFlight
    <3>3. published[s] = None => side[s] = None
      BY <1>1
    <3> QED
      BY <1>3, <1>5, <1>10, <3>1, <3>2, <3>3 DEF Level, Agree
  <2> QED
    BY <2>3, <2>4
<1> QED
  BY <1>10, <1>11, <1>12, <1>13, <1>14, <1>15, <1>16, Turned DEF Local

(* GetOrCreateCompressedState is asked again.                                  *)
LEMMA AskedAgain ==
  ASSUME NEW t \in Threads, NEW r \in BOOLEAN, Inv, call[t].pc = "body"
  PROVE  /\ Inspected(t, r) \in Calls
         /\ Inspected(t, r).pc = "find" /\ Inspected(t, r).op = call[t].op
         /\ Inspected(t, r).s = call[t].s /\ Inspected(t, r).clone = call[t].clone
         /\ Inspected(t, r).n = call[t].n /\ Inspected(t, r).id = None
         /\ Inspected(t, r).rec = None /\ ~Inspected(t, r).append
<1>1. call[t] \in Calls
  BY Own
<1> QED
  BY <1>1, IdleCall, ZenonT(60) DEF Inspected, Idle, Calls

LEMMA ReplacedKeeps ==
  ASSUME Inv, NEW t \in Threads, Replaced(t), Parts(t)
  PROVE  Inv'
<1>1. call \in [Threads -> Calls]
  BY Each DEF Typed
<1>2. PICK r \in BOOLEAN : call' = [call EXCEPT ![t] = Inspected(t, r)]
  BY DEF Replaced
<1>3. call[t].pc = "body"
  BY DEF Replaced, Locks
<1>4. PICK c \in Calls : /\ c = Inspected(t, r) /\ c.pc = "find" /\ c.op = call[t].op
                         /\ c.s = call[t].s /\ c.clone = call[t].clone /\ c.n = call[t].n
                         /\ c.id = None /\ c.rec = None /\ ~c.append
  BY <1>3, AskedAgain
<1>5. call' = [call EXCEPT ![t] = c] /\ call'[t] = c
  BY <1>1, <1>2, <1>4
<1>6. Quiet(t, c)
  BY <1>3, <1>4, <1>5 DEF Quiet, Replaced
<1>7. Keyed(t, call[t].s) /\ Locked(t)
  BY <1>3, <1>4, <1>5 DEF Keyed, Locked, Replaced
<1>8. Placed(call[t])'
  BY <1>3, <1>4, <1>5, Own DEF Placed
<1>9. Guarded(t)' /\ InFlight(t)'
  BY <1>4, <1>5 DEF Guarded, InFlight
<1> QED
  BY <1>6, <1>7, <1>8, <1>9, QuietTurn

-----------------------------------------------------------------------------
(* A native call begins.  With nothing to follow up, the state is no longer      *)
(* published, or parts from its stream; else what it is to become stands where  *)
(* the published one does, which is not read from the cache.                  *)
Begins(t, mode, rec, append) ==
  LET s == call[t].s IN
  /\ Locks(t) /\ CallNative(t, mode, rec, append)
  /\ UNCHANGED <<native, caller, published, side, last, learned>>
  /\ mode \in Modes /\ rec \in State \cup {None} /\ append \in BOOLEAN
  /\ Parts(t)
  /\ rec # None => ~rec.cached /\ Sound(rec)'
  /\ IF mode = "bare"
     THEN IF rec = None THEN published[s] = None ELSE Current(t) /\ parted' = TRUE
     ELSE /\ Current(t) /\ rec # None /\ call[t].op # "clone" /\ ~side[s].cached
          /\ rec.cursorKnown => side[s].cursorKnown /\ rec.cursor = side[s].cursor
  /\ mode = "unknown" => call[t].op = "read" /\ ~rec.cursorKnown
  /\ mode = "tracked" /\ call[t].op = "read" => rec.cursorKnown
  /\ append => call[t].op = "read" /\ mode = "tracked" /\ rec.resolved /\ Continues(rec)

LEMMA BeginsKeeps ==
  ASSUME Inv, NEW t \in Threads, NEW mode, NEW rec, NEW append, Begins(t, mode, rec, append)
  PROVE  Inv'
<1>1. /\ call \in [Threads -> Calls] /\ published \in [Streams -> Ids \cup {None}]
      /\ side \in [Streams -> State \cup {None}]
      /\ \A s \in Streams : published[s] = None <=> side[s] = None
  BY Each DEF Typed
<1>2. PICK s \in Streams : s = call[t].s
  BY Own DEF Begins, Locks
<1>3. /\ call[t].pc = "body" /\ call[t].id \in Ids /\ mutex[call[t].id] = None
      /\ call[t].op \in {"read", "seek", "clone"}
  BY <1>1, Own DEF Begins, Locks, Placed, Calls
<1>4. mode \in Modes /\ rec \in State \cup {None} /\ append \in BOOLEAN
  BY DEF Begins
<1>5. [call[t] EXCEPT !.pc = "native", !.mode = mode, !.rec = rec, !.append = append] \in Calls
  BY <1>1, <1>4, ZenonT(60) DEF Calls
<1>6. PICK c \in Calls :
        c = [call[t] EXCEPT !.pc = "native", !.mode = mode, !.rec = rec, !.append = append]
  BY <1>5
<1>7. /\ c.pc = "native" /\ c.mode = mode /\ c.rec = rec /\ c.append = append
      /\ c.id = call[t].id /\ c.op = call[t].op /\ c.s = s /\ c.clone = call[t].clone
      /\ c.n = call[t].n
  BY <1>1, <1>2, <1>6 DEF Calls
<1>8. /\ call' = [call EXCEPT ![t] = c] /\ call'[t] = c
      /\ mutex' = [mutex EXCEPT ![call[t].id] = t]
  BY <1>1, <1>6 DEF Begins, CallNative
<1>9. /\ native' = native /\ caller' = caller /\ published' = published /\ side' = side
      /\ last' = last /\ learned' = learned
  BY DEF Begins
<1>10. Quiet(t, c)
  BY <1>2, <1>3, <1>7, <1>8 DEF Quiet, Begins
<1>11. Keyed(t, call[t].s)
  BY <1>2, <1>3, <1>7, <1>8 DEF Keyed
<1>12. mode = "bare" \/ published[s] = call[t].id
  BY <1>2 DEF Begins, Current
<1>13. Locked(t)
  BY <1>2, <1>3, <1>7, <1>8, <1>12, NoneFacts DEF Locked
<1>14. Placed(call[t])'
  <2>1. mode # None /\ c.id # None
    BY <1>3, <1>4, <1>7, NoneFacts
  <2>2. /\ rec # None => ~rec.cached /\ Sound(rec)'
        /\ IF mode = "bare" THEN rec # None => parted'
           ELSE rec # None /\ call[t].op # "clone"
        /\ mode = "unknown" => call[t].op = "read" /\ ~rec.cursorKnown
        /\ mode = "tracked" /\ call[t].op = "read" => rec.cursorKnown
        /\ append => call[t].op = "read" /\ mode = "tracked" /\ rec.resolved /\ Continues(rec)
    BY DEF Begins
  <2> QED
    BY <1>2, <1>3, <1>7, <1>8, <2>1, <2>2, NoneFacts, Own DEF Placed
<1>15. Guarded(t)'
  <2>1. Overlapping' = Overlapping
    BY DEF Begins, Parts, Overlapping
  <2>2. ~Overlapping => published[s] = call[t].id
    <3>1. ~Overlapping => published[s] # None
      BY <1>2, <1>3, Own DEF Guarded
    <3> QED
      BY <1>2, <3>1 DEF Begins, Current
  <2> QED
    BY <1>3, <1>7, <1>8, <1>9, <2>1, <2>2, NoneFacts DEF Guarded
<1>16. (~parted => InFlight(t))'
  <2>1. SUFFICES ASSUME ~parted' PROVE InFlight(t)'
    OBVIOUS
  <2>2. ~parted
    BY <2>1 DEF Begins, Parts
  <2>3. mode = "bare" => published[s] # call[t].id
    BY <1>2, <1>3, <2>1, NoneFacts DEF Begins
  <2>4. ASSUME mode # "bare", native[s] # None
        PROVE  Follows(rec, native[s]) /\ ~side[s].cached
    <3>1. Level(s) /\ ~Making(s)
      BY <1>2, <1>3, <2>2, Lone, Each
    <3>2. Follows(side[s], native[s])
      BY <2>4, <3>1 DEF Level
    <3>3. side[s] # None
      BY <1>1, <1>2, <1>3, <1>12, <2>4, NoneFacts
    <3> QED
      BY <1>2, <2>4, <3>2, <3>3 DEF Begins, Follows
  <2> QED
    BY <1>7, <1>8, <1>9, <2>3, <2>4 DEF InFlight
<1> QED
  BY <1>10, <1>11, <1>13, <1>14, <1>15, <1>16, QuietTurn

LEMMA RetiredKeeps ==
  ASSUME Inv, NEW t \in Threads, Retired(t), Parts(t)
  PROVE  Inv'
<1>1. Begins(t, "bare", None, FALSE)
  BY NoneFacts DEF Retired, Begins, Modes
<1> QED
  BY <1>1, BeginsKeeps

(* The state in service, where a call finds it.                                *)
LEMMA InService ==
  ASSUME Inv, NEW t \in Threads, Locks(t), Current(t)
  PROVE  /\ call[t].s \in Streams /\ side[call[t].s] \in State
         /\ published[call[t].s] # None
         /\ side[call[t].s] # None /\ Sound(side[call[t].s])
<1>1. call[t].s \in Streams /\ call[t].id # None
  BY Own DEF Locks, Placed
<1> QED
  BY <1>1, Each DEF Current, Typed

LEMMA UpgradeFailsKeeps ==
  ASSUME Inv, NEW t \in Threads, UpgradeFails(t), parted' = TRUE, scenario' = scenario
  PROVE  Inv'
<1>1. Locks(t) /\ Current(t)
  BY DEF UpgradeFails
<1>2. /\ side[call[t].s] \in State /\ Sound(side[call[t].s]) /\ ~side[call[t].s].cached
  BY <1>1, InService DEF UpgradeFails, Mismatch
<1>3. PICK rec \in State : rec = side[call[t].s] /\ ~rec.cached /\ Sound(rec)
  BY <1>2
<1>4. Sound(rec)'
  BY <1>3 DEF Sound
<1>5. Parts(t)
  BY DEF Parts, UpgradeFails
<1>6. Begins(t, "bare", rec, FALSE)
  BY <1>1, <1>3, <1>4, <1>5, NoneFacts DEF Begins, UpgradeFails, Modes
<1> QED
  BY <1>6, BeginsKeeps

LEMMA ReadUnknownKeeps ==
  ASSUME Inv, NEW t \in Threads, ReadUnknown(t), Parts(t)
  PROVE  Inv'
<1>1. /\ Locks(t) /\ Current(t) /\ call[t].op = "read"
      /\ ~side[call[t].s].cursorKnown
  BY DEF ReadUnknown, Reads
<1>2. /\ side[call[t].s] \in State /\ Sound(side[call[t].s]) /\ ~side[call[t].s].cached
  BY <1>1, InService DEF Sound
<1>3. parted => parted'
  BY DEF Parts
<1>4. PICK rec \in State : rec = side[call[t].s] /\ ~rec.cached /\ Sound(rec)'
  BY <1>2, <1>3 DEF Sound
<1>5. Begins(t, "unknown", rec, FALSE)
  BY <1>1, <1>4, NoneFacts DEF Begins, ReadUnknown, Modes
<1> QED
  BY <1>5, BeginsKeeps

(* TryAttachCachedEntry.                                                      *)
LEMMA AttachedStates ==
  ASSUME NEW old \in State, Sound(old), NEW rec \in Attached(old)
  PROVE  /\ rec \in State /\ Sound(rec) /\ rec.resolved = old.resolved
         /\ rec.cursor = old.cursor /\ rec.cursorKnown = old.cursorKnown
         /\ old.cached => rec.cached
         /\ rec.cached => rec.cursorKnown
         /\ rec.cached /\ ~old.cached => rec.cursorKnown
<1>1. \/ rec = old
      \/ rec = [old EXCEPT !.lookedUp = TRUE]
      \/ old.cursorKnown /\ rec = [old EXCEPT !.lookedUp = TRUE, !.cached = TRUE,
                                              !.capture = "invalid", !.buffer = <<>>]
  BY DEF Attached
<1>2. CASE rec = old
  BY <1>2 DEF Sound
<1>3. CASE rec = [old EXCEPT !.lookedUp = TRUE]
  BY <1>3 DEF Sound, State
<1>4. CASE old.cursorKnown /\ rec = [old EXCEPT !.lookedUp = TRUE, !.cached = TRUE,
                                                !.capture = "invalid", !.buffer = <<>>]
  <2>1. <<>> \in Seq(Cursors) /\ "invalid" \in Status
    BY DEF Status
  <2>2. /\ rec \in State /\ rec.resolved = old.resolved /\ rec.cursor = old.cursor
        /\ rec.cursorKnown = old.cursorKnown /\ rec.cached /\ rec.buffer = <<>>
    BY <1>4, <2>1 DEF State
  <2>3. Prefix(<<>>)
    BY DEF Prefix
  <2> QED
    BY <1>4, <2>2, <2>3 DEF Sound
<1> QED
  BY <1>1, <1>2, <1>3, <1>4

LEMMA SeekNativeKeeps ==
  ASSUME Inv, NEW t \in Threads, SeekNative(t), Parts(t)
  PROVE  Inv'
<1>1. Locks(t) /\ Current(t) /\ call[t].op = "seek"
  BY DEF SeekNative, Seeks
<1>2. PICK rec \in Attached(side[call[t].s]) :
        ~rec.cached /\ CallNative(t, "tracked", rec, FALSE)
  BY DEF SeekNative
<1>3. side[call[t].s] \in State /\ Sound(side[call[t].s])
  BY <1>1, InService
<1>4. /\ rec \in State /\ Sound(rec) /\ rec.cursor = side[call[t].s].cursor
      /\ rec.cursorKnown = side[call[t].s].cursorKnown
      /\ ~side[call[t].s].cached
  BY <1>2, <1>3, AttachedStates
<1>5. Sound(rec)'
  <2>1. parted => parted'
    BY DEF Parts
  <2> QED
    BY <1>4, <2>1 DEF Sound
<1>6. Begins(t, "tracked", rec, FALSE)
  BY <1>1, <1>2, <1>4, <1>5, NoneFacts DEF Begins, SeekNative, Modes
<1> QED
  BY <1>6, BeginsKeeps

LEMMA ReadNativeKeeps ==
  ASSUME Inv, NEW t \in Threads, ReadNative(t), Parts(t)
  PROVE  Inv'
<1>1. /\ Locks(t) /\ Current(t) /\ call[t].op = "read"
      /\ side[call[t].s].cursorKnown
  BY DEF ReadNative, Reads
<1>2. PICK rec \in Attached(side[call[t].s]), allowed \in Captures :
        LET enabled == /\ allowed /\ rec.resolved
                       /\ rec.capture \notin {"completed", "invalid"}
            broken == enabled /\ ~Continues(rec)
        IN /\ ~rec.cached
           /\ CallNative(t, "tracked",
                IF broken THEN [rec EXCEPT !.capture = "invalid", !.buffer = <<>>] ELSE rec,
                enabled /\ ~broken)
  BY DEF ReadNative
<1>3. side[call[t].s] \in State /\ Sound(side[call[t].s])
  BY <1>1, InService
<1>4. /\ rec \in State /\ Sound(rec) /\ rec.cursor = side[call[t].s].cursor
      /\ rec.cursorKnown /\ ~rec.cached /\ ~side[call[t].s].cached
  BY <1>1, <1>2, <1>3, AttachedStates
<1>5. PICK append, kept :
        /\ append \in BOOLEAN /\ CallNative(t, "tracked", kept, append)
        /\ kept = rec \/ kept = [rec EXCEPT !.capture = "invalid", !.buffer = <<>>]
        /\ append => kept = rec /\ rec.resolved /\ Continues(rec)
  BY <1>2
<1>6. kept \in State /\ Sound(kept) /\ kept.cursor = rec.cursor /\ kept.cursorKnown /\ ~kept.cached
  <2>1. <<>> \in Seq(Cursors) /\ "invalid" \in Status
    BY DEF Status
  <2>2. CASE kept = rec
    BY <1>4, <2>2
  <2>3. CASE kept = [rec EXCEPT !.capture = "invalid", !.buffer = <<>>]
    <3>1. /\ kept \in State /\ kept.cursor = rec.cursor /\ kept.cursorKnown = rec.cursorKnown
          /\ kept.cached = rec.cached /\ kept.buffer = <<>> /\ kept.capture = "invalid"
      BY <1>4, <2>1, <2>3 DEF State
    <3>2. Prefix(<<>>)
      BY DEF Prefix
    <3> QED
      BY <1>4, <3>1, <3>2 DEF Sound
  <2> QED
    BY <1>5, <2>2, <2>3
<1>7. Sound(kept)'
  <2>1. parted => parted'
    BY DEF Parts
  <2> QED
    BY <1>6, <2>1 DEF Sound
<1>8. Begins(t, "tracked", kept, append)
  BY <1>1, <1>4, <1>5, <1>6, <1>7, NoneFacts DEF Begins, ReadNative, Modes
<1> QED
  BY <1>8, BeginsKeeps

LEMMA WaitKeeps ==
  ASSUME Inv, NEW t \in Threads, Wait(t), Parts(t)
  PROVE  Inv'
<1>1. call \in [Threads -> Calls]
  BY Each DEF Typed
<1>2. /\ call[t].pc = "wait" /\ call[t].rec = None /\ ~call[t].append
      /\ call[t].op \in {"open", "close"} /\ mutex[call[t].id] = None
  BY <1>1, Own DEF Wait, Placed, Calls
<1>3. [call[t] EXCEPT !.pc = "lifecycle"] \in Calls
  BY <1>1 DEF Calls
<1>4. PICK c \in Calls : c = [call[t] EXCEPT !.pc = "lifecycle"]
  BY <1>3
<1>5. /\ c.pc = "lifecycle" /\ c.rec = None /\ ~c.append /\ c.op = call[t].op
      /\ c.id = call[t].id /\ c.s = call[t].s /\ c.clone = call[t].clone /\ c.n = call[t].n
  BY <1>1, <1>2, <1>4 DEF Calls
<1>6. call' = [call EXCEPT ![t] = c] /\ call'[t] = c
  BY <1>1, <1>4 DEF Wait
<1>7. Quiet(t, c)
  BY <1>2, <1>5, <1>6 DEF Quiet, Wait
<1>8. Keyed(t, call[t].s) /\ Locked(t)
  BY <1>2, <1>5, <1>6 DEF Keyed, Locked, Wait
<1>9. Placed(call[t])'
  BY <1>2, <1>5, <1>6, Own DEF Placed
<1>10. Guarded(t)' /\ InFlight(t)'
  BY <1>2, <1>5, <1>6 DEF Guarded, InFlight
<1> QED
  BY <1>7, <1>8, <1>9, <1>10, QuietTurn

-----------------------------------------------------------------------------
(* A call returns.                                                           *)
LEMMA Returned ==
  ASSUME NEW t \in Threads, call'[t] = Idle
  PROVE  Placed(call[t])' /\ Guarded(t)' /\ InFlight(t)' /\ Setting(t)'
<1>1. Placed(call[t])'
  BY IdleCall, NoneFacts DEF Placed, Ops
<1> QED
  BY <1>1, IdleCall, NoneFacts DEF Guarded, InFlight, Setting, Ops

LEMMA Least ==
  ASSUME NEW a \in Int, NEW b \in Int
  PROVE  Min({a, b}) = IF a <= b THEN a ELSE b
<1>1. \A x, y \in {a, b} : (\A z \in {a, b} : x <= z) /\ (\A z \in {a, b} : y <= z) => x = y
  OBVIOUS
<1>2. \E x \in {a, b} : \A z \in {a, b} : x <= z
  OBVIOUS
<1>3. Min({a, b}) \in {a, b} /\ \A z \in {a, b} : Min({a, b}) <= z
  BY <1>2 DEF Min
<1> QED
  BY <1>3

(* A call is served from the cache: its state becomes d, the engine stands at m. *)
Serves(t, d, m) ==
  LET s == call[t].s IN
  /\ Locks(t) /\ Current(t) /\ call[t].op \in {"read", "seek"} /\ Parts(t)
  /\ Return(t) /\ side' = [side EXCEPT ![s] = d] /\ caller' = [caller EXCEPT ![s] = m]
  /\ UNCHANGED <<native, published, mutex>>
  /\ d \in State /\ d.cached /\ Sound(d) /\ m \in Cursors

LEMMA ServesKeeps ==
  ASSUME Inv, NEW t \in Threads, NEW d, NEW m, Serves(t, d, m), Recorded,
         Agree(side[call[t].s], native[call[t].s], caller[call[t].s]) => d.cursor = m
  PROVE  Inv'
<1>1. /\ native \in [Streams -> Cursors \cup {None}]
      /\ published \in [Streams -> Ids \cup {None}]
  BY Each DEF Typed
<1>2. PICK s \in Streams : s = call[t].s /\ published[s] = call[t].id /\ published[s] # None
  BY InService DEF Serves, Current
<1>3. call[t].pc = "body" /\ mutex[published[s]] = None /\ ~Lifecycle(t) /\ call[t].op # "clone"
  BY <1>2 DEF Serves, Locks, Lifecycle
<1>4. Moves(t, Idle, s, published[s], d, native[s], m)
  <2>1. /\ published' = [published EXCEPT ![s] = published[s]]
        /\ native' = [native EXCEPT ![s] = native[s]]
    BY <1>1 DEF Serves
  <2> QED
    BY <1>1, <1>2, <1>3, <2>1, IdleCall, NoneFacts DEF Serves, Moves, Return
<1>5. Turn(t, s) /\ call'[t] = Idle /\ published'[s] = published[s] /\ side'[s] = d
      /\ native'[s] = native[s] /\ caller'[s] = m
  BY <1>4, MovesTurn
<1>6. Steady(t, s) /\ Renewed(t, s) /\ Held(t, s) /\ Keyed(t, s) /\ Locked(t) /\ ~Bereft(t)
  BY <1>3, <1>5, IdleCall DEF Steady, Renewed, Held, Keyed, Locked, Bereft, Serves
<1>7. (side[s] # None => Sound(side[s]))'
  <2>1. parted => parted'
    BY DEF Serves, Parts
  <2> QED
    BY <1>5, <2>1 DEF Serves, Sound
<1>8. (~parted => Level(s))'
  <2>1. SUFFICES ASSUME ~parted' PROVE Level(s)'
    OBVIOUS
  <2>2. ~parted
    BY <2>1 DEF Serves, Parts
  <2>3. Follows(d, native[s])
    BY DEF Follows, Serves
  <2>4. ASSUME ~Ending(s)' PROVE Agree(d, native[s], m)
    <3>1. native[s] # None
      BY <1>5, <2>4 DEF Ending
    <3>2. Agree(side[s], native[s], caller[s])
      BY <1>2, <1>3, <1>5, <2>2, <2>4, <3>1, Was
    <3> QED
      BY <1>2, <3>2, NoneFacts DEF Agree, Serves
  <2> QED
    BY <1>5, <2>3, <2>4 DEF Level
<1> QED
  BY <1>5, <1>6, <1>7, <1>8, Returned, Turned DEF Local

(* What is attached, or is read from the cache already, stands where the engine  *)
(* does.                                                                     *)
LEMMA CachedAt ==
  ASSUME Inv, NEW t \in Threads, Locks(t), Current(t),
         NEW rec \in Attached(side[call[t].s]), rec.cached,
         Agree(side[call[t].s], native[call[t].s], caller[call[t].s])
  PROVE  rec.cursor = caller[call[t].s]
<1>1. side[call[t].s] \in State /\ Sound(side[call[t].s]) /\ side[call[t].s] # None
  BY InService
<1> QED
  BY <1>1, AttachedStates DEF Agree, Follows

LEMMA SeekCachedKeeps ==
  ASSUME Inv, NEW t \in Threads, SeekCached(t), Parts(t)
  PROVE  Inv'
<1>1. Locks(t) /\ Current(t) /\ call[t].op = "seek"
  BY DEF SeekCached, Seeks
<1>2. PICK rec \in Attached(side[call[t].s]) :
        /\ rec.cached
        /\ side' = [side EXCEPT ![call[t].s] = Reset(At(rec, call[t].n))]
        /\ caller' = [caller EXCEPT ![call[t].s] = call[t].n]
  BY DEF SeekCached
<1>3. rec \in State
  BY <1>1, <1>2, InService, AttachedStates
<1>4. call[t].n \in Cursors /\ Cursors \subseteq Logical
  <2>1. call[t].n \in Cursors \cup {None} /\ call[t].n # None
    BY <1>1, Own DEF Placed, Calls
  <2> QED
    BY <2>1, StreamAssumption DEF Cursors, Logical
<1>5. PICK d : d = Reset(At(rec, call[t].n))
  OBVIOUS
<1>6. d \in State /\ d.cached /\ d.cursor = call[t].n /\ d.cursorKnown /\ d.buffer = <<>>
  <2>1. <<>> \in Seq(Cursors) /\ {"empty", "invalid"} \subseteq Status
    BY DEF Status
  <2>3. At(rec, call[t].n) \in State
    BY <1>3, <1>4 DEF At, State
  <2>2. PICK at \in State : at = At(rec, call[t].n) /\ at.cached /\ at.cursor = call[t].n /\ at.cursorKnown
    BY <1>2, <1>3, <2>3 DEF At, State
  <2> QED
    BY <1>5, <2>1, <2>2 DEF Reset, State
<1>7. Sound(d)
  BY <1>6 DEF Sound, Prefix
<1>8. Serves(t, d, call[t].n)
  BY <1>1, <1>2, <1>4, <1>5, <1>6, <1>7 DEF Serves, SeekCached
<1>9. Recorded
  BY DEF Recorded, SeekCached, Inv, StreamInv, TypeOK
<1> QED
  BY <1>6, <1>8, <1>9, ServesKeeps

LEMMA ReadCachedKeeps ==
  ASSUME Inv, NEW t \in Threads, ReadCached(t), Parts(t)
  PROVE  Inv'
<1>1. Locks(t) /\ Current(t) /\ call[t].op = "read"
  BY DEF ReadCached, Reads
<1>2. PICK s \in Streams : s = call[t].s
  BY <1>1, InService
<1>3. caller \in [Streams -> Cursors]
  BY Each DEF Typed
<1>4. PICK rec \in Attached(side[s]) :
        /\ rec.cached
        /\ \/ LET k == Min({call[t].n, Size - rec.cursor})
              IN /\ rec.cursor <= Size /\ Deliver(s, rec.cursor, k)
                 /\ side' = [side EXCEPT ![s] = [rec EXCEPT !.cursor = @ + k]]
           \/ /\ NativeFails \/ rec.cursor > Size
              /\ side' = [side EXCEPT ![s] = rec]
              /\ UNCHANGED <<caller, last>>
  BY <1>2 DEF ReadCached
<1>5. rec \in State /\ Sound(rec)
  BY <1>1, <1>2, <1>4, InService, AttachedStates
<1>6. Agree(side[s], native[s], caller[s]) => rec.cursor = caller[s]
  BY <1>1, <1>2, <1>4, CachedAt
<1>7. learned' = learned /\ learned \subseteq Seq(Cursors) /\ last \in [from : Cursors, due : Cursors]
  BY DEF ReadCached, Inv, StreamInv, TypeOK
<1>8. CASE /\ side' = [side EXCEPT ![s] = rec]
           /\ UNCHANGED <<caller, last>>
  <2>1. caller' = [caller EXCEPT ![s] = caller[s]]
    BY <1>3, <1>8
  <2>2. Serves(t, rec, caller[s])
    BY <1>1, <1>2, <1>3, <1>4, <1>5, <1>8, <2>1 DEF Serves, ReadCached
  <2>3. Recorded
    BY <1>7, <1>8 DEF Recorded
  <2> QED
    BY <1>2, <1>6, <2>2, <2>3, ServesKeeps
<1>9. CASE LET k == Min({call[t].n, Size - rec.cursor})
           IN /\ rec.cursor <= Size /\ Deliver(s, rec.cursor, k)
              /\ side' = [side EXCEPT ![s] = [rec EXCEPT !.cursor = @ + k]]
  <2>1. PICK k : /\ k = Min({call[t].n, Size - rec.cursor})
                 /\ rec.cursor <= Size /\ Deliver(s, rec.cursor, k)
                 /\ side' = [side EXCEPT ![s] = [rec EXCEPT !.cursor = @ + k]]
    BY <1>9
  <2>2. call[t].n \in Cursors
    BY <1>1, Own DEF Placed, Calls
  <2>3. rec.cursor \in Cursors /\ Size \in Nat
    BY <1>5, <2>1, StreamAssumption DEF State, Logical, Cursors
  <2>4. k \in Nat /\ rec.cursor + k <= Size
    <3>1. PICK a \in Nat, b \in Nat : a = call[t].n /\ b = Size - rec.cursor
      BY <2>2, <2>3 DEF Cursors
    <3>2. k = IF a <= b THEN a ELSE b
      BY <2>1, <3>1, Least
    <3>3. rec.cursor \in Nat
      BY <2>3 DEF Cursors
    <3> QED
      BY <2>3, <3>1, <3>2, <3>3
  <2>5. caller[s] \in Cursors
    BY <1>3
  <2>6. PICK m \in Cursors : m = Min({caller[s] + k, Size}) /\ (rec.cursor = caller[s] => m = rec.cursor + k)
    BY <2>3, <2>4, <2>5, Least DEF Cursors
  <2>7. caller' = [caller EXCEPT ![s] = m]
    BY <1>3, <2>1, <2>6 DEF Deliver
  <2>8. PICK d \in State : /\ d = [rec EXCEPT !.cursor = @ + k]
                           /\ d.cursor = rec.cursor + k /\ d.cached /\ Sound(d)
    <3>1. rec.cursor + k \in Logical
      BY <2>3, <2>4, StreamAssumption DEF Logical, Cursors
    <3>2. [rec EXCEPT !.cursor = @ + k] \in State
      BY <1>5, <3>1 DEF State
    <3>3. PICK d \in State : d = [rec EXCEPT !.cursor = @ + k]
      BY <3>2
    <3>4. /\ d.cursor = rec.cursor + k /\ d.cached = rec.cached /\ d.cursorKnown = rec.cursorKnown
          /\ d.capture = rec.capture /\ d.buffer = rec.buffer
      BY <1>5, <3>3 DEF State
    <3> QED
      BY <1>4, <1>5, <3>3, <3>4 DEF Sound
  <2>9. Serves(t, d, m)
    BY <1>1, <1>2, <2>1, <2>7, <2>8 DEF Serves, ReadCached
  <2>10. Recorded
    <3>1. last' = last \/ (~Ending(s) /\ last' = [from |-> rec.cursor, due |-> caller[s]])
      BY <2>1 DEF Deliver
    <3>2. ASSUME ~parted', ~Ending(s) PROVE rec.cursor = caller[s]
      <4>1. ~parted
        BY <3>2 DEF Parts
      <4>2. Level(s) /\ ~Making(s)
        BY <1>1, <1>2, <4>1, Lone, Each DEF Locks
      <4> QED
        BY <1>6, <3>2, <4>2 DEF Level
    <3> QED
      BY <1>7, <2>3, <2>5, <3>1, <3>2 DEF Recorded
  <2> QED
    BY <1>2, <1>6, <2>6, <2>8, <2>9, <2>10, ServesKeeps
<1> QED
  BY <1>4, <1>8, <1>9

(* TryReplaceCompressedState.                                                *)
LEMMA UpgradeKeeps ==
  ASSUME Inv, NEW t \in Threads, Upgrade(t), Parts(t)
  PROVE  Inv'
<1>1. /\ call \in [Threads -> Calls] /\ published \in [Streams -> Ids \cup {None}]
      /\ native \in [Streams -> Cursors \cup {None}] /\ caller \in [Streams -> Cursors]
      /\ side \in [Streams -> State \cup {None}]
  BY Each DEF Typed
<1>2. Locks(t) /\ Current(t) /\ call[t].op = "read" /\ Mismatch(t)
  BY DEF Upgrade
<1>3. PICK s \in Streams : /\ s = call[t].s /\ side[s] \in State /\ side[s] # None
                           /\ published[s] = call[t].id /\ published[s] # None
  BY <1>2, InService DEF Current
<1>4. /\ call[t].pc = "body" /\ mutex[published[s]] = None /\ ~Lifecycle(t)
      /\ call[t].op # "clone" /\ ~side[s].cached
  BY <1>2, <1>3 DEF Locks, Lifecycle, Mismatch
<1>5. /\ FreshId \in Ids
      /\ \A y \in Streams : published[y] # FreshId
      /\ \A u \in Threads : call[u].id # FreshId
  BY <1>3, Fresh
<1>6. PICK q \in IF side[s].cursorKnown THEN {side[s].cursor} ELSE Query(s) :
        side' = [side EXCEPT ![s] =
          [StateAt(call[t].ident, q) EXCEPT !.capture = IF q = 0 THEN "empty" ELSE "invalid"]]
  BY <1>3 DEF Upgrade
<1>7. /\ q \in Logical \cup {None}
      /\ IF side[s].cursorKnown THEN q = side[s].cursor ELSE q \in {native[s], None}
  <2>1. Cursors \subseteq Logical
    BY StreamAssumption DEF Cursors, Logical
  <2> QED
    BY <1>1, <1>3, <1>6, <2>1 DEF Query, State
<1>8. call[t].ident \in BOOLEAN
  BY <1>1 DEF Calls
<1>9. PICK new \in State : /\ new = StateAt(call[t].ident, q) /\ ~new.cached /\ new.buffer = <<>>
                           /\ new.cursorKnown => new.cursor = q /\ q # None
  BY <1>7, <1>8, NewStates
<1>10. [new EXCEPT !.capture = IF q = 0 THEN "empty" ELSE "invalid"] \in State
  BY DEF State, Status
<1>11. PICK d \in State : d = [new EXCEPT !.capture = IF q = 0 THEN "empty" ELSE "invalid"]
  BY <1>10
<1>12. /\ ~d.cached /\ d.buffer = <<>>
       /\ d.cursorKnown => d.cursor = q /\ q # None
  BY <1>9, <1>11 DEF State
<1>13. Sound(d)'
  BY <1>12 DEF Sound, Prefix
<1>14. PICK r \in BOOLEAN : call' = [call EXCEPT ![t] = Inspected(t, r)]
  BY DEF Upgrade
<1>15. PICK c \in Calls : /\ c = Inspected(t, r) /\ c.pc = "find" /\ c.op = call[t].op
                          /\ c.s = call[t].s /\ c.clone = call[t].clone /\ c.n = call[t].n
                          /\ c.id = None /\ c.rec = None /\ ~c.append
  BY <1>4, AskedAgain
<1>16. Moves(t, c, s, FreshId, d, native[s], caller[s])
  <2>1. call' = [call EXCEPT ![t] = c]
    BY <1>14, <1>15
  <2>2. published' = [published EXCEPT ![s] = FreshId] /\ side' = [side EXCEPT ![s] = d]
    BY <1>3, <1>6, <1>9, <1>11 DEF Upgrade
  <2>3. native' = [native EXCEPT ![s] = native[s]] /\ caller' = [caller EXCEPT ![s] = caller[s]]
    BY <1>1 DEF Upgrade
  <2> QED
    BY <1>1, <1>3, <1>4, <1>5, <2>1, <2>2, <2>3, NoneFacts DEF Moves
<1>17. Turn(t, s) /\ call'[t] = c /\ published'[s] = FreshId /\ side'[s] = d
       /\ native'[s] = native[s] /\ caller'[s] = caller[s]
  BY <1>16, MovesTurn
<1>18. Steady(t, s) /\ Renewed(t, s) /\ Held(t, s) /\ Keyed(t, s)
  <2>1. Steady(t, s)
    BY <1>3, <1>5, <1>15, <1>17, NoneFacts DEF Steady
  <2>2. Renewed(t, s) /\ Held(t, s)
    BY <1>3, <1>4, <1>5, <1>17, NoneFacts DEF Renewed, Held
  <2> QED
    BY <1>15, <1>17, <2>1, <2>2 DEF Keyed
<1>19. Locked(t) /\ Recorded /\ ~Bereft(t)
  BY <1>4, <1>15, <1>17 DEF Locked, Recorded, Bereft, Upgrade, Inv, StreamInv, TypeOK
<1>20. Placed(call[t])'
  BY <1>4, <1>15, <1>17, Own DEF Placed
<1>21. Guarded(t)' /\ InFlight(t)' /\ Setting(t)'
  <2>1. Guarded(t)' /\ InFlight(t)'
    BY <1>15, <1>17 DEF Guarded, InFlight
  <2>2. Setting(t)'
    BY <1>2, <1>15, <1>17 DEF Setting
  <2> QED
    BY <2>1, <2>2
<1>22. (side[s] # None => Sound(side[s]))'
  BY <1>13, <1>17 DEF Sound
<1>23. (~parted => Level(s))'
  <2>1. SUFFICES ASSUME ~parted' PROVE Level(s)'
    OBVIOUS
  <2>2. ~parted
    BY <2>1 DEF Parts
  <2>3. CASE native[s] = None
    BY <1>17, <2>3 DEF Level, Ending
  <2>4. CASE native[s] # None
    <3>1. /\ Follows(side[s], native[s])
          /\ ~Ending(s)' => Agree(side[s], native[s], caller[s])
      BY <1>3, <1>4, <1>17, <2>2, <2>4, Was
    <3>2. Follows(d, native[s])
      BY <1>3, <1>4, <1>7, <1>12, <3>1 DEF Follows
    <3> QED
      BY <1>4, <1>12, <1>17, <3>1, <3>2 DEF Level, Agree
  <2> QED
    BY <2>3, <2>4
<1> QED
  BY <1>17, <1>18, <1>19, <1>20, <1>21, <1>22, <1>23, Turned DEF Local

-----------------------------------------------------------------------------
(* A native call ends: its state becomes rec where it is still published, the    *)
(* decompressor stands at n and the engine at m.                              *)
Ends(t, rec, n, m) ==
  LET s == call[t].s IN
  /\ call[t].pc = "native" /\ call[t].op # "clone" /\ Stores(t, rec) /\ Parts(t)
  /\ native' = [native EXCEPT ![s] = n] /\ caller' = [caller EXCEPT ![s] = m]
  /\ published' = published
  /\ n \in Cursors \cup {None} /\ m \in Cursors /\ (n = None <=> native[s] = None)
  /\ rec \in State \cup {None} /\ (call[t].id = None => rec = None)
  /\ rec # None => ~rec.cached /\ Sound(rec)'
  /\ call[t].mode # "bare" => rec # None /\ (~parted' /\ n # None => Follows(rec, n))
  /\ ~parted' /\ n # None /\ native[s] = caller[s] => n = m

(* A call that still may store its state, or that nothing is published for,      *)
(* finds the engine where the decompressor is.                               *)
LEMMA Even ==
  ASSUME Inv, NEW t \in Threads, call[t].pc = "native", ~parted, ~Unguarded(t),
         native[call[t].s] # None
  PROVE  LET s == call[t].s IN
         /\ call[t].mode = "bare" => published[s] = None
         /\ ~Ending(s) => native[s] = caller[s]
<1>1. PICK s \in Streams : s = call[t].s
  BY Own
<1>2. published[s] \in {None, call[t].id}
  BY <1>1 DEF Unguarded
<1>3. call[t].mode = "bare" => published[s] = None
  BY <1>1, <1>2, Own DEF InFlight
<1>4. Level(s) /\ ~Making(s)
  BY <1>1, Lone, Each
<1>5. published[s] = None <=> side[s] = None
  BY Each DEF Typed
<1>6. side[s] # None => ~side[s].cached
  BY <1>1, <1>2, <1>3, <1>5, Own DEF InFlight
<1> QED
  BY <1>1, <1>3, <1>4, <1>6 DEF Level, Agree

LEMMA EndsKeeps ==
  ASSUME Inv, NEW t \in Threads, NEW rec, NEW n, NEW m, Ends(t, rec, n, m), Recorded
  PROVE  Inv'
<1>1. /\ call \in [Threads -> Calls] /\ published \in [Streams -> Ids \cup {None}]
      /\ side \in [Streams -> State \cup {None}]
      /\ \A s \in Streams : published[s] = None <=> side[s] = None
  BY Each DEF Typed
<1>2. PICK s \in Streams : s = call[t].s
  BY Own DEF Ends
<1>3. /\ call[t].pc = "native" /\ call[t].op # "clone" /\ ~Lifecycle(t)
      /\ call[t].op \in {"read", "seek", "clone"}
  BY Own DEF Ends, Placed, Lifecycle
<1>4. PICK d : /\ d = IF rec # None /\ Current(t) THEN rec ELSE side[s]
               /\ d \in State \cup {None} /\ (published[s] = None <=> d = None)
  <2>1. rec \in State \cup {None} /\ (call[t].id = None => rec = None)
    BY DEF Ends
  <2>2. rec # None /\ Current(t) => published[s] # None
    BY <1>2, <2>1 DEF Current
  <2> QED
    BY <1>1, <2>1, <2>2
<1>5. Moves(t, Idle, s, published[s], d, n, m)
  <2>1. call' = [call EXCEPT ![t] = Idle] /\ side' = [side EXCEPT ![s] = d]
    BY <1>1, <1>2, <1>4 DEF Ends, Stores, Return
  <2>2. published' = [published EXCEPT ![s] = published[s]]
    BY <1>1 DEF Ends
  <2> QED
    BY <1>1, <1>2, <1>3, <1>4, <2>1, <2>2, IdleCall DEF Moves, Ends
<1>6. Turn(t, s) /\ call'[t] = Idle /\ published'[s] = published[s] /\ side'[s] = d
      /\ native'[s] = n /\ caller'[s] = m
  BY <1>5, MovesTurn
<1>7. Held(t, s)
  <2>1. d # side[s] => rec # None /\ Current(t)
    BY <1>4
  <2>2. rec # None /\ Current(t) => mutex[published[s]] = t
    BY <1>2, <1>3 DEF Ends, Current, Inv, StreamInv, OwnIds
  <2> QED
    BY <1>2, <1>3, <1>6, <2>1, <2>2 DEF Held, Ends
<1>8. Steady(t, s) /\ Renewed(t, s) /\ Keyed(t, s) /\ Locked(t) /\ ~Bereft(t)
  BY <1>3, <1>6, IdleCall DEF Steady, Renewed, Keyed, Locked, Bereft, Ends, Stores
<1>9. (side[s] # None => Sound(side[s]))'
  <2>1. parted => parted'
    BY DEF Ends, Parts
  <2>2. CASE d = rec
    BY <1>6, <2>2 DEF Ends, Sound
  <2>3. CASE d = side[s]
    BY <1>6, <2>1, <2>3, Each DEF Sound
  <2> QED
    BY <1>4, <2>2, <2>3
<1>10. (~parted => Level(s))'
  <2>1. SUFFICES ASSUME ~parted' PROVE Level(s)'
    OBVIOUS
  <2>2. ~parted /\ ~Unguarded(t)
    BY <2>1 DEF Ends, Parts
  <2>3. CASE n = None
    BY <1>6, <2>3 DEF Level, Ending
  <2>4. CASE n # None
    <3>2. native[s] # None
      BY <1>2, <2>4 DEF Ends
    <3>3. /\ call[t].mode = "bare" => published[s] = None
          /\ ~Ending(s) => native[s] = caller[s]
      BY <1>2, <1>3, <2>2, <3>2, Even
    <3>4. Follows(d, n) /\ (d # None => ~d.cached)
      <4>1. CASE published[s] = None
        BY <1>4, <4>1 DEF Follows
      <4>2. CASE published[s] # None
        <5>1. call[t].mode # "bare" /\ Current(t)
          BY <1>2, <1>3, <2>2, <3>3, <4>2 DEF Unguarded, Current
        <5>2. rec # None /\ Follows(rec, n) /\ ~rec.cached
          BY <2>1, <2>4, <5>1 DEF Ends
        <5> QED
          BY <1>4, <5>1, <5>2
      <4> QED
        BY <4>1, <4>2
    <3>5. ~Ending(s)' => n = m
      <4>1. ~Ending(s)' => ~Ending(s)
        BY <1>2, <1>3, <1>6, <2>2, <3>2, Was
      <4> QED
        BY <1>2, <2>1, <2>4, <3>3, <4>1 DEF Ends
    <3> QED
      BY <1>6, <3>4, <3>5 DEF Level, Agree
  <2> QED
    BY <2>3, <2>4
<1> QED
  BY <1>6, <1>7, <1>8, <1>9, <1>10, Returned, Turned DEF Local

(* What the follow-ups make of a state.                                        *)
LEMMA Kept ==
  ASSUME NEW rec \in State
  PROVE  /\ Uncaptured(rec) \in State /\ Uncaptured(rec).cached = rec.cached
         /\ Uncaptured(rec).cursorKnown = rec.cursorKnown
         /\ Uncaptured(rec).cursor = rec.cursor
         /\ Uncaptured(rec).buffer = <<>> /\ Uncaptured(rec).capture = "invalid"
<1>1. <<>> \in Seq(Cursors) /\ "invalid" \in Status
  BY DEF Status
<1> QED
  BY <1>1 DEF Uncaptured, State

LEMMA Forgotten ==
  ASSUME NEW rec \in State
  PROVE  /\ Unknown(rec) \in State /\ Unknown(rec).cached = rec.cached
         /\ ~Unknown(rec).cursorKnown
         /\ Unknown(rec).buffer = <<>> /\ Unknown(rec).capture = "invalid"
<1>1. PICK new \in State : /\ new = Uncaptured(rec) /\ new.cached = rec.cached
                           /\ new.buffer = <<>> /\ new.capture = "invalid"
  BY Kept
<1> QED
  BY <1>1 DEF Unknown, State

LEMMA Placing ==
  ASSUME NEW rec \in State, NEW c \in Logical
  PROVE  /\ At(rec, c) \in State /\ At(rec, c).cached = rec.cached
         /\ At(rec, c).cursorKnown /\ At(rec, c).cursor = c
         /\ At(rec, c).buffer = rec.buffer /\ At(rec, c).capture = rec.capture
         /\ At(rec, c).resolved = rec.resolved
<1>1. At(rec, c) \in State
  BY DEF At, State
<1> QED
  BY <1>1 DEF At, State

LEMMA Resetting ==
  ASSUME NEW rec \in State
  PROVE  /\ Reset(rec) \in State /\ Reset(rec).cached = rec.cached
         /\ Reset(rec).cursorKnown = rec.cursorKnown /\ Reset(rec).cursor = rec.cursor
         /\ Reset(rec).buffer = <<>> /\ Reset(rec).lookedUp = rec.lookedUp
         /\ Reset(rec).resolved = rec.resolved /\ Reset(rec).capture # "active"
<1>1. <<>> \in Seq(Cursors) /\ {"empty", "invalid"} \subseteq Status
  BY DEF Status
<1> QED
  BY <1>1 DEF Reset, State

LEMMA SmallCursors == Cursors \subseteq Logical /\ 0 \in Cursors
BY StreamAssumption DEF Cursors, Logical

(* A state that may be stored when the decompressor stands at n.               *)
Storable(new, n) ==
  /\ new \in State /\ ~new.cached /\ Sound(new)'
  /\ ~parted' => Follows(new, n)

LEMMA Storing ==
  ASSUME NEW rec \in State, ~rec.cached, NEW n \in Cursors
  PROVE  /\ Storable(Uncaptured(At(rec, n)), n) /\ Storable(Unknown(rec), n)
         /\ Storable(Uncaptured(Unknown(rec)), n)
         /\ ~rec.cursorKnown => Storable(Uncaptured(rec), n)
         /\ Sound(rec)' => Storable(At(rec, n), n)
         /\ Storable(Reset(At(rec, n)), n)
<1>1. n \in Logical
  BY SmallCursors
<1>2. \A new \in State : new.buffer = <<>> /\ ~new.cached => Sound(new)'
  BY DEF Sound, Prefix
<1>3. PICK at \in State : /\ at = At(rec, n) /\ at.cached = rec.cached /\ at.cursorKnown
                          /\ at.cursor = n /\ at.buffer = rec.buffer /\ at.capture = rec.capture
  BY <1>1, Placing
<1>4. PICK un \in State : /\ un = Unknown(rec) /\ un.cached = rec.cached /\ ~un.cursorKnown
                          /\ un.buffer = <<>> /\ un.capture = "invalid"
  BY Forgotten
<1>5. Storable(Uncaptured(at), n)
  BY <1>2, <1>3, Kept DEF Storable, Follows
<1>6. Storable(un, n) /\ Storable(Uncaptured(un), n)
  BY <1>2, <1>4, Kept DEF Storable, Follows
<1>7. ~rec.cursorKnown => Storable(Uncaptured(rec), n)
  BY <1>2, Kept DEF Storable, Follows
<1>8. Sound(rec)' => Storable(at, n)
  BY <1>3 DEF Storable, Follows, Sound
<1>9. Storable(Reset(at), n)
  BY <1>2, <1>3, Resetting DEF Storable, Follows
<1> QED
  BY <1>3, <1>4, <1>5, <1>6, <1>7, <1>8, <1>9

(* The state that a native call holds.                                         *)
LEMMA Carried ==
  ASSUME Inv, NEW t \in Threads, NEW s, NEW rec, s = call[t].s, rec = call[t].rec,
         call[t].pc = "native", Parts(t)
  PROVE  /\ s \in Streams /\ native[s] \in Cursors \cup {None} /\ caller[s] \in Cursors
         /\ rec \in State \cup {None} /\ (call[t].id = None => rec = None)
         /\ rec # None => ~rec.cached /\ Sound(rec) /\ Sound(rec)'
         /\ call[t].mode # "bare" => rec \in State /\ call[t].op # "clone"
         /\ call[t].mode \in Modes
         /\ ~parted' => ~parted /\ ~Unguarded(t)
<1>1. s \in Streams /\ rec \in State \cup {None} /\ call[t].mode \in Modes \cup {None}
  BY Own DEF Calls
<1>2. /\ rec # None => ~rec.cached /\ Sound(rec)
      /\ call[t].mode # "bare" => rec # None /\ call[t].op # "clone"
      /\ call[t].mode # None /\ (call[t].id = None => rec = None)
  BY Own DEF Placed
<1>3. native[s] \in Cursors \cup {None} /\ caller[s] \in Cursors
  BY <1>1, Each DEF Typed
<1>4. (parted => parted') /\ (~parted' => ~parted /\ ~Unguarded(t))
  BY DEF Parts
<1>5. Sound(rec) => Sound(rec)'
  BY <1>4 DEF Sound
<1> QED
  BY <1>1, <1>2, <1>3, <1>4, <1>5

LEMMA EndClosedKeeps ==
  ASSUME Inv, NEW t \in Threads, EndClosed(t), Parts(t)
  PROVE  Inv'
<1>1. PICK s : s = call[t].s
  OBVIOUS
<1>2. PICK rec : rec = call[t].rec
  OBVIOUS
<1>3. call[t].pc = "native" /\ native[s] = None /\ Stores(t, rec)
  BY <1>1, <1>2 DEF EndClosed
<1>4. call[t].op # "clone"
  BY <1>1, <1>3, Own DEF Setting
<1>5. s \in Streams /\ native \in [Streams -> Cursors \cup {None}] /\ caller \in [Streams -> Cursors]
  BY <1>1, <1>2, <1>3, Carried, Each DEF Typed
<1>6. /\ native' = [native EXCEPT ![s] = None] /\ caller' = [caller EXCEPT ![s] = caller[s]]
  BY <1>3, <1>5 DEF EndClosed
<1>7. /\ rec \in State \cup {None} /\ (call[t].id = None => rec = None)
      /\ rec # None => ~rec.cached /\ Sound(rec)'
      /\ call[t].mode # "bare" => rec # None
  BY <1>1, <1>2, <1>3, Carried, NoneFacts
<1>8. Ends(t, rec, None, caller[s])
  BY <1>1, <1>3, <1>4, <1>5, <1>6, <1>7 DEF Ends, EndClosed
<1>9. Recorded
  BY DEF Recorded, EndClosed, Inv, StreamInv, TypeOK
<1> QED
  BY <1>8, <1>9, EndsKeeps

LEMMA EndSeekKeeps ==
  ASSUME Inv, NEW t \in Threads, EndSeek(t), Parts(t)
  PROVE  Inv'
<1>1. PICK s : s = call[t].s
  OBVIOUS
<1>2. PICK rec : rec = call[t].rec
  OBVIOUS
<1>3. call[t].pc = "native" /\ call[t].op = "seek" /\ native[s] # None
  BY <1>1 DEF EndSeek
<1>4. call[t].n \in Cursors
  BY <1>3, Own DEF Placed, Calls
<1>5. PICK c, after :
        /\ c \in Cursors /\ native' = [native EXCEPT ![s] = c] /\ caller' = [caller EXCEPT ![s] = c]
        /\ Stores(t, IF call[t].mode = "bare" THEN rec ELSE after)
        /\ after \in {Sought(rec, c), Unknown(rec)}
  BY <1>1, <1>2, <1>4 DEF EndSeek
<1>6. /\ rec \in State \cup {None} /\ (call[t].id = None => rec = None)
      /\ rec # None => ~rec.cached /\ Sound(rec)'
      /\ call[t].mode # "bare" => rec \in State
      /\ call[t].id = None => call[t].mode = "bare"
  BY <1>1, <1>2, <1>3, Carried, NoneFacts, Own DEF Placed
<1>7. rec \in State => Storable(after, c)
  BY <1>5, <1>6, Storing, NoneFacts DEF Sought
<1>8. PICK new : /\ new = IF call[t].mode = "bare" THEN rec ELSE after
                 /\ new \in State \cup {None} /\ (call[t].id = None => new = None)
                 /\ new # None => ~new.cached /\ Sound(new)'
                 /\ call[t].mode # "bare" => new # None /\ (~parted' => Follows(new, c))
  BY <1>6, <1>7, NoneFacts DEF Storable
<1>9. Ends(t, new, c, c)
  BY <1>1, <1>3, <1>5, <1>8, NoneFacts DEF Ends, EndSeek
<1>10. Recorded
  BY DEF Recorded, EndSeek, Inv, StreamInv, TypeOK
<1> QED
  BY <1>9, <1>10, EndsKeeps

-----------------------------------------------------------------------------
(* The k bytes from cursor c on.                                               *)
Run(bytes, c, k) == bytes = [i \in 1 .. k |-> c + i - 1]

Joins(rec, bytes, c) ==
  /\ rec.buffer \o bytes \in Seq(Cursors)
  /\ rec.cursor = c /\ Prefix(rec.buffer) => Prefix(rec.buffer \o bytes)
  /\ Prefix(rec.buffer \o bytes) /\ Len(rec.buffer \o bytes) = Size =>
       rec.buffer \o bytes = Whole

(* They may follow those that were captured so far.                            *)
LEMMA Joined ==
  ASSUME NEW rec \in State, Sound(rec), Continues(rec), NEW c \in Cursors, NEW k \in Nat,
         c + k <= Size, NEW bytes, Run(bytes, c, k)
  PROVE  Joins(rec, bytes, c)
<1>1. /\ rec.buffer \in Seq(Cursors) /\ rec.cursor \in Nat /\ c \in Nat /\ Size \in Nat
      /\ rec.capture = "active" \/ rec.capture = "empty"
  BY StreamAssumption DEF State, Logical, Cursors, Continues
<1>2. rec.cursor = Len(rec.buffer)
  <2>1. Len(<<>>) = 0
    OBVIOUS
  <2> QED
    BY <1>1, <2>1 DEF Continues, Sound
<1>3. bytes \in Seq(Cursors) /\ Len(bytes) = k
  <2>1. \A i \in 1 .. k : c + i - 1 \in Cursors
    BY <1>1 DEF Cursors
  <2>2. [i \in 1 .. k |-> c + i - 1] \in Seq(Cursors)
    BY <2>1
  <2> QED
    BY <2>2 DEF Run
<1>4. PICK b \in Seq(Cursors) : b = rec.buffer
  BY <1>1
<1>5. Len(b) \in Nat /\ DOMAIN b = 1 .. Len(b)
  BY LenProperties
<1>6. /\ b \o bytes \in Seq(Cursors) /\ Len(b \o bytes) = Len(b) + k
      /\ \A i \in 1 .. Len(b) + k : (b \o bytes)[i] = IF i <= Len(b) THEN b[i] ELSE bytes[i - Len(b)]
  BY <1>3, ConcatProperties
<1>7. PICK w \in Seq(Cursors) : w = b \o bytes
  BY <1>6
<1>8. Len(w) = Len(b) + k /\ DOMAIN w = 1 .. Len(b) + k
  BY <1>6, <1>7, LenProperties
<1>9. ASSUME Len(b) = c, Prefix(b) PROVE Prefix(w)
  <2>1. SUFFICES ASSUME NEW i \in 1 .. Len(b) + k PROVE w[i] = i - 1
    BY <1>8 DEF Prefix
  <2>2. CASE i <= Len(b)
    <3>1. i \in DOMAIN b
      BY <1>5, <2>2
    <3> QED
      BY <1>6, <1>7, <1>9, <2>2, <3>1 DEF Prefix
  <2>3. CASE i > Len(b)
    <3>1. i - Len(b) \in 1 .. k
      BY <1>5, <2>3
    <3>2. bytes[i - Len(b)] = c + (i - Len(b)) - 1
      BY <3>1 DEF Run
    <3>3. w[i] = bytes[i - Len(b)]
      BY <1>5, <1>6, <1>7, <2>3
    <3> QED
      BY <1>1, <1>5, <1>9, <3>2, <3>3
  <2> QED
    BY <1>5, <2>2, <2>3
<1>10. ASSUME Prefix(w), Len(w) = Size PROVE w = Whole
  <2>1. Whole \in Seq(Cursors) /\ Len(Whole) = Size /\ \A i \in 1 .. Size : Whole[i] = i - 1
    <3>1. \A i \in 1 .. Size : i - 1 \in Cursors
      BY <1>1 DEF Cursors
    <3>2. Whole \in [1 .. Size -> Cursors]
      BY <3>1 DEF Whole
    <3> QED
      BY <1>1, <3>2 DEF Whole
  <2>2. \A i \in 1 .. Len(w) : w[i] = Whole[i]
    BY <1>8, <1>10, <2>1, <1>6, <1>7 DEF Prefix
  <2> QED
    BY <1>10, <2>1, <2>2, SeqEqual
<1> QED
  BY <1>2, <1>4, <1>7, <1>9, <1>10 DEF Joins

(* AppendCapture.                                                            *)
LEMMA Appending ==
  ASSUME NEW rec \in State, NEW c \in Cursors, ~rec.cached, rec.cursorKnown,
         ~parted' => rec.cursor = c,
         NEW bytes, rec.buffer \o bytes \in Seq(Cursors),
         ~parted' => Prefix(rec.buffer \o bytes),
         NEW new \in Appended(rec, bytes)
  PROVE  /\ Storable(new, c)
         /\ new.capture = "completed" => Len(rec.buffer \o bytes) = Size
<1>1. PICK b \in Seq(Cursors) : b = rec.buffer \o bytes
  OBVIOUS
<1>2. \/ Len(b) < Size /\ new = [rec EXCEPT !.capture = "active", !.buffer = b]
      \/ Len(b) = Size /\ new = [rec EXCEPT !.capture = "completed", !.buffer = <<>>]
      \/ new = Uncaptured(rec)
  BY <1>1 DEF Appended
<1>3. <<>> \in Seq(Cursors) /\ {"active", "completed"} \subseteq Status /\ Prefix(<<>>)
  BY DEF Status, Prefix
<1>4. CASE Len(b) < Size /\ new = [rec EXCEPT !.capture = "active", !.buffer = b]
  <2>1. /\ new \in State /\ new.cached = rec.cached /\ new.cursorKnown = rec.cursorKnown
        /\ new.cursor = rec.cursor /\ new.buffer = b /\ new.capture = "active"
    BY <1>3, <1>4 DEF State
  <2> QED
    BY <1>1, <2>1 DEF Storable, Sound, Follows
<1>5. CASE Len(b) = Size /\ new = [rec EXCEPT !.capture = "completed", !.buffer = <<>>]
  <2>1. /\ new \in State /\ new.cached = rec.cached /\ new.cursorKnown = rec.cursorKnown
        /\ new.cursor = rec.cursor /\ new.buffer = <<>> /\ new.capture = "completed"
    BY <1>3, <1>5 DEF State
  <2> QED
    BY <1>1, <1>3, <1>5, <2>1 DEF Storable, Sound, Follows
<1>6. CASE new = Uncaptured(rec)
  <2>1. /\ new \in State /\ new.cached = rec.cached /\ new.cursorKnown = rec.cursorKnown
        /\ new.cursor = rec.cursor /\ new.buffer = <<>> /\ new.capture = "invalid"
    BY <1>6, Kept
  <2> QED
    BY <1>3, <2>1 DEF Storable, Sound, Follows
<1> QED
  BY <1>2, <1>4, <1>5, <1>6

Followed(t, rec, bytes, new, n) ==
  /\ call[t].mode = "bare" => new = rec
  /\ call[t].mode # "bare" => Storable(new, n)
  /\ call[t].append /\ new.capture = "completed" =>
       /\ rec.buffer \o bytes \in Seq(Cursors)
       /\ ~parted' => rec.buffer \o bytes = Whole

(* A read that is followed up leaves a state that may be stored, and completes     *)
(* only a capture of the whole payload.                                      *)
LEMMA Following ==
  ASSUME Inv, NEW t \in Threads, NEW s, NEW rec, s = call[t].s, rec = call[t].rec,
         call[t].pc = "native", call[t].op = "read", Parts(t),
         NEW c \in Cursors, c = native[s], NEW k \in Nat, c + k <= Size,
         NEW bytes, Run(bytes, c, k),
         NEW ok \in BOOLEAN, NEW new \in FollowUp(t, ok, bytes, c + k)
  PROVE  Followed(t, rec, bytes, new, c + k)
<1>1. PICK n \in Cursors : n = c + k
  BY StreamAssumption DEF Cursors
<1>6. SUFFICES /\ call[t].mode = "bare" => new = rec
               /\ call[t].mode # "bare" => Storable(new, c + k)
               /\ call[t].append /\ new.capture = "completed" =>
                    /\ rec.buffer \o bytes \in Seq(Cursors)
                    /\ ~parted' => rec.buffer \o bytes = Whole
  BY DEF Followed
<1>2. CASE call[t].mode = "bare"
  <2>1. ~call[t].append
    BY <1>2, Own DEF Placed
  <2> QED
    BY <1>2, <2>1 DEF FollowUp
<1>3. ASSUME call[t].mode # "bare"
      PROVE  /\ rec \in State /\ ~rec.cached /\ Sound(rec) /\ Sound(rec)'
             /\ ~parted' => ~parted /\ Follows(rec, c)
  <2>1. /\ rec \in State /\ rec # None /\ ~rec.cached /\ Sound(rec) /\ Sound(rec)'
        /\ ~parted' => ~parted
    BY <1>3, Carried, NoneFacts
  <2>2. ~parted => Follows(rec, c)
    BY <1>3, NoneFacts, Own DEF InFlight
  <2> QED
    BY <2>1, <2>2
<1>4. CASE call[t].mode = "unknown"
  <2>1. ~rec.cursorKnown /\ ~call[t].append
    BY <1>4, Own DEF Placed
  <2>2. new = Uncaptured(At(rec, n)) \/ new = Uncaptured(rec)
    BY <1>1, <1>4 DEF FollowUp
  <2>3. Storable(new, n)
    BY <1>3, <1>4, <2>1, <2>2, Storing
  <2> QED
    BY <1>1, <1>4, <2>1, <2>3
<1>5. CASE call[t].mode \notin {"bare", "unknown"}
  <2>1. /\ rec \in State /\ ~rec.cached /\ Sound(rec) /\ Sound(rec)' /\ rec.cursorKnown
        /\ ~parted' => ~parted /\ rec.cursor = c
        /\ call[t].mode = "tracked"
        /\ rec.cursor \in Nat /\ MaxCursor \in Nat /\ Size \in Nat /\ Size <= MaxCursor
    <3>1. rec \in State /\ ~rec.cached /\ Sound(rec) /\ Sound(rec)'
      BY <1>3, <1>5
    <3>2. call[t].mode = "tracked"
      BY <1>5, Carried DEF Modes
    <3>3. rec.cursorKnown
      BY <3>2, Own DEF Placed
    <3>4. ~parted' => ~parted /\ rec.cursor = c
      BY <1>3, <1>5, <3>1, <3>3, NoneFacts DEF Follows
    <3>5. rec.cursor \in Nat /\ MaxCursor \in Nat /\ Size \in Nat /\ Size <= MaxCursor
      BY <3>1, StreamAssumption DEF State, Logical
    <3> QED
      BY <3>1, <3>2, <3>3, <3>4, <3>5
  <2>2. bytes \in Seq(Nat) /\ Len(bytes) = k
    <3>1. \A i \in 1 .. k : c + i - 1 \in Nat
      BY DEF Cursors
    <3>2. bytes \in [1 .. k -> Nat]
      BY <3>1 DEF Run
    <3> QED
      BY <3>2
  <2>3. call[t].append => Continues(rec)
    BY Own DEF Placed
  <2>4. call[t].append => rec.capture # "completed"
    BY <2>3 DEF Continues
  <2>5. \A r \in Requeried(rec, n) : Storable(r, n) /\ Storable(Uncaptured(r), n)
    BY <2>1, Storing DEF Requeried
  <2>6. \A r \in State : Uncaptured(r).capture # "completed"
    BY Kept
  <2>7. \A r \in Requeried(rec, n) : r \in State
    BY <2>5 DEF Storable
  <2>8. CASE \/ new \in {Uncaptured(r) : r \in Requeried(rec, n)}
             \/ ~call[t].append /\ new \in Requeried(rec, n)
    BY <1>1, <1>5, <2>5, <2>6, <2>7, <2>8
  <2>9. CASE /\ ok /\ new \in Progressed(t, rec, bytes, n)
             /\ rec.cursor + k <= IF rec.resolved THEN Size ELSE MaxCursor
    <3>1. rec.cursor + k \in Logical
      BY <2>1, <2>9 DEF Logical
    <3>9. At(rec, rec.cursor + k) \in State
      BY <2>1, <3>1, Placing
    <3>2. PICK moved \in State :
            /\ moved = At(rec, rec.cursor + k) /\ moved.cached = rec.cached
            /\ moved.cursorKnown /\ moved.cursor = rec.cursor + k
            /\ moved.buffer = rec.buffer /\ moved.capture = rec.capture
      BY <2>1, <3>1, <3>9, Placing
    <3>3. ~parted' => moved.cursor = n
      BY <1>1, <2>1, <3>2
    <3>4. Storable(moved, n) /\ Storable(Uncaptured(moved), n)
      <4>1. PICK un \in State : /\ un = Uncaptured(moved) /\ un.cached = moved.cached
                                /\ un.cursor = moved.cursor /\ un.buffer = <<>>
        BY Kept
      <4>2. Sound(un)' /\ Sound(moved)'
        BY <2>1, <3>2, <4>1 DEF Sound, Prefix
      <4> QED
        BY <2>1, <3>2, <3>3, <4>1, <4>2 DEF Storable, Follows
    <3>5. \/ call[t].append /\ new \in Appended(moved, bytes)
          \/ new = Uncaptured(moved)
          \/ new = moved
      BY <2>1, <2>2, <2>9, <3>2 DEF Progressed
    <3>6. CASE call[t].append /\ new \in Appended(moved, bytes)
      <4>1. /\ rec.buffer \o bytes \in Seq(Cursors)
            /\ ~parted' => Prefix(rec.buffer \o bytes)
            /\ ~parted' /\ Len(rec.buffer \o bytes) = Size => rec.buffer \o bytes = Whole
        <5>1. Joins(rec, bytes, c)
          BY <2>1, <2>3, <3>6, Joined
        <5>2. ~parted' => Prefix(rec.buffer)
          BY <2>1 DEF Sound
        <5> QED
          BY <2>1, <5>1, <5>2 DEF Joins
      <4>2. Storable(new, n) /\ (new.capture = "completed" => Len(moved.buffer \o bytes) = Size)
        BY <2>1, <3>2, <3>3, <3>6, <4>1, Appending
      <4> QED
        BY <1>1, <1>5, <3>2, <4>1, <4>2
    <3>7. CASE new = Uncaptured(moved)
      BY <1>1, <1>5, <2>6, <3>4, <3>7
    <3>8. CASE new = moved
      BY <1>1, <1>5, <2>4, <3>2, <3>4, <3>8
    <3> QED
      BY <3>5, <3>6, <3>7, <3>8
  <2>10. \/ ok /\ new \in Progressed(t, rec, bytes, n)
         \/ ~ok /\ new \in Failed(t, rec, n)
    BY <1>1, <2>1 DEF FollowUp
  <2>11. ASSUME ok, ~(rec.cursor + k <= IF rec.resolved THEN Size ELSE MaxCursor)
         PROVE  new \in IF call[t].append THEN {Uncaptured(r) : r \in Requeried(rec, n)}
                        ELSE Requeried(rec, n)
    BY <2>1, <2>2, <2>10, <2>11 DEF Progressed
  <2> QED
    BY <2>8, <2>9, <2>10, <2>11 DEF Failed
<1> QED
  BY <1>2, <1>4, <1>5

LEMMA EndReadKeeps ==
  ASSUME Inv, NEW t \in Threads, EndRead(t), Parts(t)
  PROVE  Inv'
<1>1. PICK s : s = call[t].s
  OBVIOUS
<1>2. PICK rec : rec = call[t].rec
  OBVIOUS
<1>3. call[t].pc = "native" /\ call[t].op = "read" /\ native[s] # None
  BY <1>1 DEF EndRead
<1>4. /\ s \in Streams /\ native[s] \in Cursors /\ caller[s] \in Cursors
      /\ rec \in State \cup {None} /\ (call[t].id = None => rec = None)
      /\ rec # None => ~rec.cached /\ Sound(rec)'
      /\ ~parted' => ~parted /\ ~Unguarded(t)
  BY <1>1, <1>2, <1>3, Carried
<1>5. PICK c \in Cursors : c = native[s]
  BY <1>4
<1>6. call[t].n \in Cursors
  BY <1>3, Own DEF Placed, Calls
<1>7. PICK k \in 0 .. Min({call[t].n, Size - native[call[t].s]}), ok \in {TRUE, ~NativeFails} :
        /\ native' = [native EXCEPT ![call[t].s] = native[call[t].s] + k]
        /\ IF ok THEN Deliver(call[t].s, native[call[t].s], k)
           ELSE /\ caller' = [caller EXCEPT ![call[t].s] = native[call[t].s] + k]
                /\ UNCHANGED last
        /\ \E new \in FollowUp(t, ok, [i \in 1 .. k |-> native[call[t].s] + i - 1],
                               native[call[t].s] + k) :
             /\ Stores(t, new)
             /\ learned' = IF call[t].append /\ new.capture = "completed"
                           THEN learned \cup
                                  {call[t].rec.buffer \o [i \in 1 .. k |-> native[call[t].s] + i - 1]}
                           ELSE learned
  BY DEF EndRead
<1>8. PICK bytes : bytes = [i \in 1 .. k |-> native[call[t].s] + i - 1]
  OBVIOUS
<1>17. Run(bytes, c, k)
  BY <1>1, <1>5, <1>8 DEF Run
<1>9. PICK new \in FollowUp(t, ok, bytes, c + k) :
        /\ Stores(t, new)
        /\ learned' = IF call[t].append /\ new.capture = "completed"
                      THEN learned \cup {rec.buffer \o bytes} ELSE learned
  BY <1>1, <1>2, <1>5, <1>7, <1>8
<1>10. k \in Nat /\ c + k <= Size /\ c + k \in Cursors /\ Size \in Nat
  <2>1. PICK a \in Nat, b \in Nat : a = call[t].n /\ b = Size - c
    BY <1>6, StreamAssumption DEF Cursors
  <2>2. Min({call[t].n, Size - c}) = IF a <= b THEN a ELSE b
    BY <2>1, Least
  <2>3. k \in Nat /\ k <= b
    BY <1>1, <1>5, <1>7, <2>2
  <2> QED
    BY <2>1, <2>3, StreamAssumption DEF Cursors
<1>11. ok \in BOOLEAN
  BY <1>7
<1>18. Followed(t, rec, bytes, new, c + k)
  BY <1>1, <1>2, <1>3, <1>5, <1>9, <1>10, <1>11, <1>17, Following
<1>12. /\ call[t].mode = "bare" => new = rec
       /\ call[t].mode # "bare" => Storable(new, c + k)
       /\ call[t].append /\ new.capture = "completed" =>
            /\ rec.buffer \o bytes \in Seq(Cursors)
            /\ ~parted' => rec.buffer \o bytes = Whole
  BY <1>18 DEF Followed
<1>13. PICK m \in Cursors : /\ caller' = [caller EXCEPT ![s] = m]
                            /\ native[s] = caller[s] => m = c + k
  <2>1. CASE ok
    <3>1. caller' = [caller EXCEPT ![s] = Min({caller[s] + k, Size})]
      BY <1>1, <1>4, <1>5, <1>7, <2>1, Each DEF Deliver, Typed
    <3>2. caller[s] + k \in Int /\ Size \in Int /\ caller[s] \in Nat
      BY <1>4, <1>10 DEF Cursors
    <3>3. Min({caller[s] + k, Size}) = IF caller[s] + k <= Size THEN caller[s] + k ELSE Size
      BY <3>2, Least
    <3>4. Min({caller[s] + k, Size}) \in Cursors
      BY <1>10, <3>2, <3>3 DEF Cursors
    <3> QED
      BY <1>5, <1>10, <3>1, <3>3, <3>4
  <2>2. CASE ~ok
    BY <1>1, <1>5, <1>7, <1>10, <2>2
  <2> QED
    BY <2>1, <2>2
<1>14. /\ new \in State \cup {None} /\ (call[t].id = None => new = None)
       /\ new # None => ~new.cached /\ Sound(new)'
       /\ call[t].mode # "bare" => new # None /\ (~parted' => Follows(new, c + k))
  <2>1. call[t].mode # "bare" => call[t].id # None
    BY <1>3, Own DEF Placed
  <2> QED
    BY <1>4, <1>12, <2>1, NoneFacts DEF Storable
<1>15. Ends(t, new, c + k, m)
  <2>1. c + k # None /\ native[s] # None
    BY <1>3, <1>10, NoneFacts
  <2>2. native' = [native EXCEPT ![s] = c + k] /\ published' = published
    BY <1>1, <1>5, <1>7 DEF EndRead
  <2>3. ~parted' /\ c + k # None /\ native[s] = caller[s] => c + k = m
    BY <1>13
  <2> QED
    BY <1>1, <1>3, <1>9, <1>10, <1>13, <1>14, <2>1, <2>2, <2>3 DEF Ends
<1>16. Recorded
  <2>1. last \in [from : Cursors, due : Cursors] /\ learned \subseteq Seq(Cursors)
    BY DEF Inv, StreamInv, TypeOK
  <2>2. learned' \subseteq Seq(Cursors) /\ (~parted' => learned' \subseteq learned \cup {Whole})
    BY <1>9, <1>12, <2>1
  <2>3. last' = last \/ (~Ending(s) /\ last' = [from |-> c, due |-> caller[s]])
    BY <1>1, <1>5, <1>7 DEF Deliver
  <2>4. ~parted' /\ ~Ending(s) => c = caller[s]
    BY <1>1, <1>3, <1>4, <1>5, Even
  <2> QED
    BY <1>4, <2>1, <2>2, <2>3, <2>4 DEF Recorded
<1> QED
  BY <1>15, <1>16, EndsKeeps

-----------------------------------------------------------------------------
(* HookedCompDoClone.                                                        *)

(* The stream that a call clones is neither made nor ended meanwhile.          *)
LEMMA Source ==
  ASSUME Inv, NEW t \in Threads, call[t].op = "clone"
  PROVE  /\ call[t].s \in Streams /\ call[t].clone \in Streams /\ call[t].s # call[t].clone
         /\ call[t].pc # "publish" =>
              /\ native[call[t].s] # None /\ native[call[t].clone] = None
              /\ ~Ending(call[t].s) /\ ~Making(call[t].s)
<1>1. call[t].pc # "idle"
  BY IdleCall, Own, NoneFacts DEF Placed, Ops
<1>2. call[t].s \in Streams /\ call[t].clone \in Streams /\ call[t].s # call[t].clone
  BY <1>1, Own DEF Setting
<1>3. call[t].pc # "publish" => native[call[t].s] # None /\ native[call[t].clone] = None
  BY Own DEF Setting
<1>4. ASSUME call[t].pc # "publish" PROVE ~Ending(call[t].s)
  <2>1. SUFFICES ASSUME NEW u \in Threads, call[t].s \in {call[u].s, call[u].clone}, Lifecycle(u)
                 PROVE  FALSE
    BY <1>3, <1>4 DEF Ending, Users
  <2>2. u # t
    BY <2>1 DEF Lifecycle
  <2>3. call[u].s = call[t].s
    BY <1>2, <2>1, Own, NoneFacts
  <2> QED
    BY <2>1, <2>2, <2>3, Each DEF Apart
<1> QED
  BY <1>1, <1>2, <1>3, <1>4, Lone

LEMMA EndCloneBareKeeps ==
  ASSUME Inv, NEW t \in Threads, EndCloneBare(t), Parts(t)
  PROVE  Inv'
<1>1. /\ call \in [Threads -> Calls] /\ published \in [Streams -> Ids \cup {None}]
      /\ native \in [Streams -> Cursors \cup {None}] /\ caller \in [Streams -> Cursors]
      /\ \A y \in Streams : published[y] = None <=> side[y] = None
  BY Each DEF Typed
<1>2. call[t].pc = "native" /\ call[t].op = "clone"
  BY DEF EndCloneBare
<1>3. PICK s \in Streams, x \in Streams : /\ s = call[t].s /\ x = call[t].clone /\ s # x
                                          /\ native[s] # None /\ ~Ending(s) /\ ~Making(s)
  BY <1>2, Source
<1>4. Moves(t, Idle, x, None, None, native[s], caller[s])
  BY <1>1, <1>2, <1>3, IdleCall DEF Moves, EndCloneBare, Cloned, Return
<1>5. Turn(t, x) /\ call'[t] = Idle /\ published'[x] = None /\ side'[x] = None
      /\ native'[x] = native[s] /\ caller'[x] = caller[s]
  BY <1>4, MovesTurn
<1>6. Steady(t, x) /\ Renewed(t, x) /\ Held(t, x) /\ Keyed(t, x)
  BY <1>2, <1>3, <1>5, IdleCall DEF Steady, Renewed, Held, Keyed
<1>7. Locked(t) /\ Recorded /\ ~Bereft(t)
  BY <1>2, <1>5 DEF Locked, Recorded, Bereft, EndCloneBare, Inv, StreamInv, TypeOK
<1>8. (side[x] # None => Sound(side[x]))'
  BY <1>5
<1>9. (~parted => Level(x))'
  <2>1. SUFFICES ASSUME ~parted' PROVE Level(x)'
    OBVIOUS
  <2>2. ~parted /\ ~Unguarded(t)
    BY <2>1 DEF Parts
  <2>3. native[s] = caller[s]
    BY <1>2, <1>3, <2>2, Even
  <2> QED
    BY <1>5, <2>3 DEF Level, Agree, Follows
<1> QED
  BY <1>5, <1>6, <1>7, <1>8, <1>9, Returned, Turned DEF Local

(* A clone gets a state that agrees with where it stands.                      *)
LEMMA CloneStatesAgree ==
  ASSUME NEW rec \in State, rec.cursorKnown, NEW sync \in BOOLEAN, ~rec.cached => sync,
         NEW new \in CloneStates(rec, sync), ~(rec.cached /\ ~sync /\ Lost(new))
  PROVE  /\ new \in State \cup {None}
         /\ new # None => Sound(new)'
         /\ new # None /\ new.cached => rec.cached /\ new.cursor = rec.cursor
         /\ new # None /\ ~new.cached => sync /\ new.cursor = rec.cursor
         /\ new = None => (rec.cached => sync)
<1>1. CASE new = None
  BY <1>1 DEF Lost
<1>2. CASE new # None
  <2>1. PICK r \in BOOLEAN :
          new = LET fresh == Reset(NewState(r, rec.cursor)) IN
                IF r = rec.resolved
                THEN [fresh EXCEPT !.lookedUp = rec.lookedUp, !.cached = rec.cached]
                ELSE IF sync THEN fresh
                ELSE [fresh EXCEPT !.cursorKnown = FALSE, !.capture = "invalid"]
    BY <1>2 DEF CloneStates
  <2>2. NewState(r, rec.cursor) \in State
    <3>1. <<>> \in Seq(Cursors) /\ "empty" \in Status /\ rec.cursor \in Logical
      BY DEF Status, State
    <3> QED
      BY <3>1 DEF NewState, State
  <2>3. PICK start \in State : /\ start = NewState(r, rec.cursor) /\ start.cursor = rec.cursor
                               /\ start.cursorKnown /\ ~start.cached /\ start.resolved = r
    BY <2>2 DEF NewState
  <2>4. PICK fresh \in State : /\ fresh = Reset(NewState(r, rec.cursor))
                               /\ fresh.cursor = rec.cursor /\ fresh.cursorKnown /\ ~fresh.cached
                               /\ fresh.buffer = <<>>
    BY <2>3, Resetting
  <2>5. "invalid" \in Status /\ rec.lookedUp \in BOOLEAN /\ rec.cached \in BOOLEAN
    BY DEF Status, State
  <2>6. CASE new = [fresh EXCEPT !.lookedUp = rec.lookedUp, !.cached = rec.cached]
    <3>1. /\ new \in State /\ new.cursor = rec.cursor /\ new.cursorKnown /\ new.cached = rec.cached
          /\ new.buffer = <<>>
      BY <2>4, <2>5, <2>6 DEF State
    <3> QED
      BY <1>2, <3>1 DEF Sound, Prefix
  <2>7. CASE new = fresh /\ sync
    BY <1>2, <2>4, <2>7 DEF Sound, Prefix
  <2>8. CASE ~sync /\ new = [fresh EXCEPT !.cursorKnown = FALSE, !.capture = "invalid"]
    <3>1. ~new.cached
      BY <2>4, <2>5, <2>8 DEF State
    <3> QED
      BY <2>8, <3>1 DEF Lost
  <2> QED
    BY <2>1, <2>4, <2>6, <2>7, <2>8
<1> QED
  BY <1>1, <1>2

LEMMA CloneKeeps ==
  ASSUME Inv, NEW t \in Threads, Clone(t), Parts(t)
  PROVE  Inv'
<1>1. /\ call \in [Threads -> Calls] /\ published \in [Streams -> Ids \cup {None}]
      /\ native \in [Streams -> Cursors \cup {None}] /\ caller \in [Streams -> Cursors]
      /\ side \in [Streams -> State \cup {None}]
      /\ \A y \in Streams : published[y] = None <=> side[y] = None
  BY Each DEF Typed
<1>2. Locks(t) /\ Current(t) /\ call[t].op = "clone" /\ call[t].pc = "body"
  BY DEF Clone, Clones, Locks
<1>3. PICK s \in Streams, x \in Streams : /\ s = call[t].s /\ x = call[t].clone /\ s # x
                                          /\ native[s] # None /\ native[x] = None
                                          /\ ~Ending(s) /\ ~Making(s)
  BY <1>2, Source
<1>4. PICK rec \in State : rec = side[s] /\ rec # None /\ Sound(rec)
  BY <1>2, <1>3, InService
<1>5. ~parted' => Agree(rec, native[s], caller[s])
  <2>1. ~parted' => ~parted
    BY DEF Parts
  <2> QED
    BY <1>3, <1>4, <2>1, Each DEF Level
<1>6. UNCHANGED <<published, side, mutex, last, learned>>
  BY DEF Clone
<1>7. CASE Return(t) /\ UNCHANGED <<native, caller>>
  <2>1. Moves(t, Idle, x, published[x], side[x], native[x], caller[x])
    BY <1>1, <1>2, <1>3, <1>6, <1>7, IdleCall DEF Moves, Return
  <2>2. Turn(t, x) /\ call'[t] = Idle /\ published'[x] = published[x] /\ side'[x] = side[x]
        /\ native'[x] = native[x] /\ caller'[x] = caller[x]
    BY <2>1, MovesTurn
  <2>3. Steady(t, x) /\ Renewed(t, x) /\ Held(t, x) /\ Keyed(t, x)
    BY <1>2, <1>3, <2>2, IdleCall DEF Steady, Renewed, Held, Keyed
  <2>4. Locked(t) /\ Recorded /\ ~Bereft(t)
    BY <1>2, <1>6, <2>2, IdleCall DEF Locked, Recorded, Bereft, Inv, StreamInv, TypeOK
  <2>5. (side[x] # None => Sound(side[x]))'
    <3>1. parted => parted'
      BY DEF Parts
    <3> QED
      BY <2>2, <3>1, Each DEF Sound
  <2>6. Level(x)'
    BY <1>3, <2>2 DEF Level, Ending
  <2> QED
    BY <2>2, <2>3, <2>4, <2>5, <2>6, Returned, Turned DEF Local
<1>8. CASE \E new, n : /\ call' = [call EXCEPT ![t].pc = "publish", ![t].id = None, ![t].rec = new]
                       /\ Cloned(s, x, n) /\ n \in Cursors
                       /\ new \in State \cup {None} /\ (new # None => Sound(new)')
                       /\ ~parted' => Agree(new, n, caller[s])
  <2>1. PICK new, n :
          /\ call' = [call EXCEPT ![t].pc = "publish", ![t].id = None, ![t].rec = new]
          /\ Cloned(s, x, n) /\ n \in Cursors
          /\ new \in State \cup {None} /\ (new # None => Sound(new)')
          /\ ~parted' => Agree(new, n, caller[s])
    BY <1>8
  <2>2. [call[t] EXCEPT !.pc = "publish", !.id = None, !.rec = new] \in Calls
    BY <1>1, <2>1, ZenonT(60) DEF Calls
  <2>3. PICK c \in Calls : c = [call[t] EXCEPT !.pc = "publish", !.id = None, !.rec = new]
    BY <2>2
  <2>4. /\ c.pc = "publish" /\ c.id = None /\ c.rec = new /\ c.op = "clone" /\ c.s = s
        /\ c.clone = x /\ c.append = call[t].append /\ c.n = call[t].n
    BY <1>1, <1>2, <1>3, <2>3 DEF Calls
  <2>5. ~call[t].append
    BY <1>1, <1>2, Own DEF Placed, Calls
  <2>6. Moves(t, c, x, published[x], side[x], n, caller[s])
    <3>1. call' = [call EXCEPT ![t] = c]
      BY <1>1, <2>1, <2>3
    <3> QED
      BY <1>1, <1>2, <1>3, <1>6, <2>1, <3>1 DEF Moves, Cloned
  <2>7. Turn(t, x) /\ call'[t] = c /\ published'[x] = published[x] /\ side'[x] = side[x]
        /\ native'[x] = n /\ caller'[x] = caller[s]
    BY <2>6, MovesTurn
  <2>8. Steady(t, x) /\ Renewed(t, x) /\ Held(t, x) /\ Keyed(t, x)
    BY <1>2, <1>3, <2>4, <2>7 DEF Steady, Renewed, Held, Keyed
  <2>9. Locked(t) /\ Recorded /\ ~Bereft(t)
    BY <1>2, <1>6, <2>4, <2>7 DEF Locked, Recorded, Bereft, Inv, StreamInv, TypeOK
  <2>10. Placed(call[t])'
    BY <1>2, <1>3, <2>1, <2>4, <2>5, <2>7, NoneFacts, Own DEF Placed
  <2>11. Guarded(t)' /\ Setting(t)' /\ (~parted => InFlight(t))'
    BY <1>3, <2>1, <2>4, <2>7, NoneFacts DEF Guarded, Setting, InFlight
  <2>12. (side[x] # None => Sound(side[x]))'
    <3>1. parted => parted'
      BY DEF Parts
    <3> QED
      BY <2>7, <3>1, Each DEF Sound
  <2>13. Level(x)'
    BY <2>4, <2>7 DEF Level, Making
  <2> QED
    BY <2>7, <2>8, <2>9, <2>10, <2>11, <2>12, <2>13, Turned DEF Local
<1>9. CASE /\ ~rec.cursorKnown /\ Cloned(s, x, native[s])
           /\ call' = [call EXCEPT ![t].pc = "publish", ![t].id = None, ![t].rec = None]
  <2>1. ~parted' => Agree(None, native[s], caller[s])
    BY <1>4, <1>5, <1>9 DEF Agree, Follows, Sound
  <2> QED
    BY <1>1, <1>3, <1>8, <1>9, <2>1
<1>10. CASE /\ rec.cursorKnown
            /\ \E sync \in BOOLEAN :
               /\ IF sync THEN rec.cached => rec.cursor <= Size
                  ELSE rec.cached /\ (NativeFails \/ rec.cursor > Size)
               /\ \E new \in CloneStates(rec, sync) :
                 IF rec.cached /\ ~sync /\ Lost(new)
                 THEN Return(t) /\ UNCHANGED <<native, caller>>
                 ELSE /\ Cloned(s, x, IF rec.cached /\ sync THEN rec.cursor ELSE native[s])
                      /\ call' = [call EXCEPT ![t].pc = "publish", ![t].id = None, ![t].rec = new]
  <2>1. PICK sync \in BOOLEAN :
          /\ IF sync THEN rec.cached => rec.cursor <= Size
             ELSE rec.cached /\ (NativeFails \/ rec.cursor > Size)
          /\ \E new \in CloneStates(rec, sync) :
            IF rec.cached /\ ~sync /\ Lost(new)
            THEN Return(t) /\ UNCHANGED <<native, caller>>
            ELSE /\ Cloned(s, x, IF rec.cached /\ sync THEN rec.cursor ELSE native[s])
                 /\ call' = [call EXCEPT ![t].pc = "publish", ![t].id = None, ![t].rec = new]
    BY <1>10
  <2>2. PICK new \in CloneStates(rec, sync) :
          IF rec.cached /\ ~sync /\ Lost(new)
          THEN Return(t) /\ UNCHANGED <<native, caller>>
          ELSE /\ Cloned(s, x, IF rec.cached /\ sync THEN rec.cursor ELSE native[s])
               /\ call' = [call EXCEPT ![t].pc = "publish", ![t].id = None, ![t].rec = new]
    BY <2>1
  <2>3. CASE rec.cached /\ ~sync /\ Lost(new)
    BY <1>7, <2>2, <2>3
  <2>4. CASE ~(rec.cached /\ ~sync /\ Lost(new))
    <3>1. PICK n : n = IF rec.cached /\ sync THEN rec.cursor ELSE native[s]
      OBVIOUS
    <3>2. n \in Cursors
      <4>1. rec.cursor \in Logical /\ native[s] \in Cursors
        BY <1>1, <1>3 DEF State
      <4>2. rec.cursor <= Size => rec.cursor \in Cursors
        BY <4>1, StreamAssumption DEF Logical, Cursors
      <4> QED
        BY <2>1, <3>1, <4>1, <4>2
    <3>3. /\ new \in State \cup {None}
          /\ new # None => Sound(new)'
          /\ new # None /\ new.cached => rec.cached /\ new.cursor = rec.cursor
          /\ new # None /\ ~new.cached => sync /\ new.cursor = rec.cursor
          /\ new = None => (rec.cached => sync)
      BY <1>10, <2>1, <2>2, <2>4, CloneStatesAgree
    <3>4. ~parted' => Agree(new, n, caller[s])
      BY <1>4, <1>5, <1>10, <3>1, <3>3 DEF Agree, Follows
    <3> QED
      BY <1>8, <2>2, <2>4, <3>1, <3>2, <3>3, <3>4
  <2> QED
    BY <2>3, <2>4
<1> QED
  <2>1. \/ Return(t) /\ UNCHANGED <<native, caller>>
        \/ /\ ~side[call[t].s].cursorKnown /\ Cloned(call[t].s, call[t].clone, native[call[t].s])
           /\ call' = [call EXCEPT ![t].pc = "publish", ![t].id = None, ![t].rec = None]
        \/ /\ side[call[t].s].cursorKnown
           /\ \E sync \in BOOLEAN :
              /\ IF sync THEN side[call[t].s].cached => side[call[t].s].cursor <= Size
                 ELSE side[call[t].s].cached /\ (NativeFails \/ side[call[t].s].cursor > Size)
              /\ \E new \in CloneStates(side[call[t].s], sync) :
                IF side[call[t].s].cached /\ ~sync /\ Lost(new)
                THEN Return(t) /\ UNCHANGED <<native, caller>>
                ELSE /\ Cloned(call[t].s, call[t].clone,
                               IF side[call[t].s].cached /\ sync THEN side[call[t].s].cursor
                               ELSE native[call[t].s])
                     /\ call' = [call EXCEPT ![t].pc = "publish", ![t].id = None, ![t].rec = new]
    BY DEF Clone
  <2> QED
    BY <1>3, <1>4, <1>7, <1>9, <1>10, <2>1

-----------------------------------------------------------------------------
(* HookedCompDoOpen, HookedCompDoClose and HookedCompDtor.                      *)

LEMMA RetireKeeps ==
  ASSUME Inv, NEW t \in Threads, Retire(t), Parts(t)
  PROVE  Inv'
<1>1. /\ call \in [Threads -> Calls] /\ published \in [Streams -> Ids \cup {None}]
      /\ native \in [Streams -> Cursors \cup {None}] /\ caller \in [Streams -> Cursors]
  BY Each DEF Typed
<1>2. /\ call[t].pc = "retire" /\ call[t].op \in {"open", "close"} /\ Lifecycle(t)
      /\ call[t].op # "clone" /\ call[t].id = None /\ call[t].rec = None /\ ~call[t].append
  BY <1>1, Own DEF Retire, Placed, Lifecycle, Calls
<1>3. PICK s \in Streams : s = call[t].s
  BY <1>2, Own
<1>4. PICK c :
        /\ c = IF published[s] = None THEN [call[t] EXCEPT !.pc = "lifecycle"]
               ELSE [call[t] EXCEPT !.pc = "wait", !.id = published[s]]
        /\ c \in Calls
  <2>1. /\ [call[t] EXCEPT !.pc = "lifecycle"] \in Calls
        /\ published[s] # None => [call[t] EXCEPT !.pc = "wait", !.id = published[s]] \in Calls
    BY <1>1, ZenonT(60) DEF Calls
  <2> QED
    BY <2>1
<1>5. /\ c.op = call[t].op /\ c.s = s /\ c.clone = call[t].clone /\ c.rec = None /\ ~c.append
      /\ c.n = call[t].n
      /\ IF published[s] = None THEN c.pc = "lifecycle" /\ c.id = None
         ELSE c.pc = "wait" /\ c.id = published[s]
  BY <1>1, <1>2, <1>3, <1>4 DEF Calls
<1>6. Moves(t, c, s, None, None, native[s], caller[s])
  <2>1. call' = [call EXCEPT ![t] = c]
    BY <1>1, <1>3, <1>4 DEF Retire
  <2> QED
    BY <1>1, <1>2, <1>3, <1>4, <2>1 DEF Moves, Retire
<1>7. Turn(t, s) /\ call'[t] = c /\ published'[s] = None /\ side'[s] = None
      /\ native'[s] = native[s] /\ caller'[s] = caller[s]
  BY <1>6, MovesTurn
<1>8. Steady(t, s) /\ Renewed(t, s) /\ Held(t, s) /\ Keyed(t, s)
  BY <1>2, <1>3, <1>5, <1>7 DEF Steady, Renewed, Held, Keyed
<1>9. Locked(t) /\ Recorded /\ ~Bereft(t)
  BY <1>2, <1>5, <1>7 DEF Locked, Recorded, Bereft, Retire, Inv, StreamInv, TypeOK
<1>10. Placed(call[t])'
  BY <1>2, <1>3, <1>5, <1>7, Own DEF Placed
<1>11. Guarded(t)' /\ InFlight(t)' /\ Setting(t)'
  <2>1. Guarded(t)' /\ InFlight(t)'
    BY <1>2, <1>5, <1>7 DEF Guarded, InFlight
  <2>2. Setting(t)'
    BY <1>2, <1>3, <1>5, <1>7, Own DEF Setting
  <2> QED
    BY <2>1, <2>2
<1>12. Level(s)'
  <2>1. Ending(s)'
    BY <1>2, <1>5, <1>7 DEF Ending, Users, Lifecycle
  <2> QED
    BY <1>7, <2>1 DEF Level, Follows
<1> QED
  BY <1>7, <1>8, <1>9, <1>10, <1>11, <1>12, Turned DEF Local

LEMMA CloseKeeps ==
  ASSUME Inv, NEW t \in Threads, Close(t), Parts(t)
  PROVE  Inv'
<1>1. /\ published \in [Streams -> Ids \cup {None}] /\ side \in [Streams -> State \cup {None}]
      /\ \A y \in Streams : published[y] = None <=> side[y] = None
  BY Each DEF Typed
<1>2. call[t].pc = "lifecycle" /\ call[t].op = "close" /\ call[t].op # "clone"
  BY DEF Close
<1>3. PICK s \in Streams : s = call[t].s
  BY <1>2, Own
<1>4. Moves(t, Idle, s, published[s], side[s], None, 0)
  BY <1>1, <1>2, <1>3, IdleCall, SmallCursors DEF Moves, Close, Return
<1>5. Turn(t, s) /\ call'[t] = Idle /\ published'[s] = published[s] /\ side'[s] = side[s]
      /\ native'[s] = None /\ caller'[s] = 0
  BY <1>4, MovesTurn
<1>6. Steady(t, s) /\ Renewed(t, s) /\ Held(t, s) /\ Keyed(t, s)
  BY <1>2, <1>5, IdleCall DEF Steady, Renewed, Held, Keyed
<1>7. Locked(t) /\ Recorded /\ ~Bereft(t)
  BY <1>2, <1>5, IdleCall DEF Locked, Recorded, Bereft, Close, Inv, StreamInv, TypeOK
<1>8. (side[s] # None => Sound(side[s]))'
  <2>1. parted => parted'
    BY DEF Parts
  <2> QED
    BY <1>5, <2>1, Each DEF Sound
<1>9. Level(s)'
  BY <1>5 DEF Level, Ending
<1> QED
  BY <1>5, <1>6, <1>7, <1>8, <1>9, Returned, Turned DEF Local

LEMMA OpenKeeps ==
  ASSUME Inv, NEW t \in Threads, Open(t), Parts(t)
  PROVE  Inv'
<1>1. /\ call \in [Threads -> Calls] /\ published \in [Streams -> Ids \cup {None}]
      /\ native \in [Streams -> Cursors \cup {None}] /\ caller \in [Streams -> Cursors]
      /\ side \in [Streams -> State \cup {None}]
      /\ \A y \in Streams : published[y] = None <=> side[y] = None
  BY Each DEF Typed
<1>2. call[t].pc = "lifecycle" /\ call[t].op = "open" /\ call[t].op # "clone" /\ Lifecycle(t)
  BY DEF Open, Lifecycle
<1>3. PICK s \in Streams : s = call[t].s
  BY <1>2, Own
<1>4. native[s] = None /\ published[s] = None /\ side[s] = None
  BY <1>1, <1>2, <1>3, Own DEF Setting
<1>5. UNCHANGED <<published, side, mutex, last, learned>>
  BY DEF Open
<1>6. CASE Return(t) /\ UNCHANGED <<native, caller>>
  <2>1. Moves(t, Idle, s, None, None, None, caller[s])
    BY <1>1, <1>2, <1>3, <1>4, <1>5, <1>6, IdleCall DEF Moves, Return
  <2>2. Turn(t, s) /\ call'[t] = Idle /\ published'[s] = None /\ side'[s] = None
        /\ native'[s] = None /\ caller'[s] = caller[s]
    BY <2>1, MovesTurn
  <2>3. Steady(t, s) /\ Renewed(t, s) /\ Held(t, s) /\ Keyed(t, s)
    BY <1>2, <1>4, <2>2, IdleCall DEF Steady, Renewed, Held, Keyed
  <2>4. Locked(t) /\ Recorded /\ ~Bereft(t)
    BY <1>2, <1>5, <2>2, IdleCall DEF Locked, Recorded, Bereft, Inv, StreamInv, TypeOK
  <2>5. Level(s)'
    BY <2>2 DEF Level, Ending
  <2> QED
    BY <2>2, <2>3, <2>4, <2>5, Returned, Turned DEF Local
<1>7. CASE /\ native' = [native EXCEPT ![s] = 0] /\ caller' = [caller EXCEPT ![s] = 0]
           /\ \E r \in BOOLEAN :
                call' = [call EXCEPT ![t].pc = "publish", ![t].id = None, ![t].rec = NewState(r, 0)]
  <2>1. PICK r \in BOOLEAN :
          call' = [call EXCEPT ![t].pc = "publish", ![t].id = None, ![t].rec = NewState(r, 0)]
    BY <1>7
  <2>2. 0 \in Logical \cup {None} /\ 0 # None
    BY SmallCursors, NoneFacts
  <2>3. PICK new \in State : /\ new = NewState(r, 0) /\ ~new.cached /\ new.cursor = 0 /\ Sound(new)'
    BY <2>2, NewStates DEF StateAt, NewState
  <2>4. [call[t] EXCEPT !.pc = "publish", !.id = None, !.rec = new] \in Calls
    BY <1>1, ZenonT(60) DEF Calls
  <2>5. PICK c \in Calls : c = [call[t] EXCEPT !.pc = "publish", !.id = None, !.rec = new]
    BY <2>4
  <2>6. /\ c.pc = "publish" /\ c.id = None /\ c.rec = new /\ c.op = "open" /\ c.s = s
        /\ c.clone = call[t].clone /\ c.append = call[t].append /\ c.n = call[t].n
    BY <1>1, <1>2, <1>3, <2>5 DEF Calls
  <2>7. ~call[t].append
    BY <1>1, <1>2, Own DEF Placed, Calls
  <2>8. Moves(t, c, s, None, None, 0, 0)
    <3>1. call' = [call EXCEPT ![t] = c]
      BY <1>1, <2>1, <2>3, <2>5
    <3>2. published' = [published EXCEPT ![s] = None] /\ side' = [side EXCEPT ![s] = None]
      BY <1>1, <1>4, <1>5
    <3> QED
      BY <1>2, <1>3, <1>7, <3>1, <3>2, SmallCursors DEF Moves
  <2>9. Turn(t, s) /\ call'[t] = c /\ published'[s] = None /\ side'[s] = None
        /\ native'[s] = 0 /\ caller'[s] = 0
    BY <2>8, MovesTurn
  <2>10. Steady(t, s) /\ Renewed(t, s) /\ Held(t, s) /\ Keyed(t, s)
    BY <1>2, <1>3, <1>4, <2>6, <2>9 DEF Steady, Renewed, Held, Keyed
  <2>11. Locked(t) /\ Recorded /\ ~Bereft(t)
    BY <1>2, <1>5, <2>6, <2>9 DEF Locked, Recorded, Bereft, Inv, StreamInv, TypeOK
  <2>12. Placed(call[t])'
    BY <1>2, <1>3, <2>3, <2>6, <2>7, <2>9, NoneFacts, Own DEF Placed
  <2>13. Guarded(t)' /\ Setting(t)' /\ InFlight(t)'
    BY <1>3, <2>6, <2>9 DEF Guarded, Setting, InFlight
  <2>14. Level(s)'
    <3>1. Ending(s)'
      BY <2>6, <2>9 DEF Ending, Users, Lifecycle
    <3> QED
      BY <2>9, <3>1 DEF Level, Follows
  <2> QED
    BY <2>9, <2>10, <2>11, <2>12, <2>13, <2>14, Turned DEF Local
<1> QED
  BY <1>3, <1>6, <1>7 DEF Open

LEMMA PublishKeeps ==
  ASSUME Inv, NEW t \in Threads, Publish(t), Parts(t)
  PROVE  Inv'
<1>1. /\ call \in [Threads -> Calls] /\ published \in [Streams -> Ids \cup {None}]
      /\ native \in [Streams -> Cursors \cup {None}] /\ caller \in [Streams -> Cursors]
      /\ side \in [Streams -> State \cup {None}]
      /\ \A y \in Streams : published[y] = None <=> side[y] = None
  BY Each DEF Typed
<1>2. /\ call[t].pc = "publish" /\ call[t].op \in {"clone", "open"} /\ call[t].id = None
      /\ call[t].rec \in State \cup {None}
      /\ call[t].rec # None => Sound(call[t].rec)
      /\ call[t].rec # None /\ call[t].rec.cached => call[t].op = "clone"
      /\ call[t].op = "open" => call[t].rec # None /\ call[t].rec.cursor = 0
  BY <1>1, Own DEF Publish, Placed, Calls
<1>3. PICK x \in Streams : /\ x = IF call[t].op = "clone" THEN call[t].clone ELSE call[t].s
                           /\ x \in {call[t].s, call[t].clone}
  BY <1>2, Own
<1>4. PICK rec : rec = call[t].rec
  OBVIOUS
<1>5. call[t].op = "open" => published[x] = None /\ native[x] = 0 /\ caller[x] = 0
  BY <1>2, <1>3, Own DEF Setting
<1>6. /\ FreshId \in Ids
      /\ \A y \in Streams : published[y] # FreshId
      /\ \A u \in Threads : call[u].id # FreshId
  BY <1>2, Fresh
<1>7. PICK p, d :
        /\ published' = [published EXCEPT ![x] = p] /\ side' = [side EXCEPT ![x] = d]
        /\ \/ rec # None /\ p = FreshId /\ d = rec
           \/ p = None /\ d = None /\ (rec = None \/ "publish" \in AllocFails)
  <2>1. \/ rec = None /\ published' = [published EXCEPT ![x] = None]
                      /\ side' = [side EXCEPT ![x] = None]
        \/ rec # None /\ published' = [published EXCEPT ![x] = FreshId]
                      /\ side' = [side EXCEPT ![x] = rec]
        \/ "publish" \in AllocFails /\ published' = [published EXCEPT ![x] = None]
                                    /\ side' = [side EXCEPT ![x] = None]
    BY <1>3, <1>4, <1>5 DEF Publish
  <2> QED
    BY <2>1
<1>8. /\ p \in Ids \cup {None} /\ d \in State \cup {None} /\ (p = None <=> d = None)
      /\ d # None => Sound(d)
  BY <1>2, <1>4, <1>6, <1>7, NoneFacts
<1>9. Moves(t, Idle, x, p, d, native[x], caller[x])
  BY <1>1, <1>2, <1>3, <1>7, <1>8, IdleCall DEF Moves, Publish, Return
<1>10. Turn(t, x) /\ call'[t] = Idle /\ published'[x] = p /\ side'[x] = d
       /\ native'[x] = native[x] /\ caller'[x] = caller[x]
  BY <1>9, MovesTurn
<1>11. Steady(t, x) /\ Renewed(t, x) /\ Held(t, x) /\ Keyed(t, x)
  <2>1. x = call[t].clone \/ published[x] = None
    BY <1>2, <1>3, <1>5
  <2>2. Steady(t, x) /\ Keyed(t, x)
    BY <1>3, <1>10, IdleCall DEF Steady, Keyed
  <2>3. Renewed(t, x)
    BY <1>6, <1>7, <1>10, <2>1 DEF Renewed
  <2>4. Held(t, x)
    BY <1>6, <1>7, <1>10 DEF Held
  <2> QED
    BY <2>2, <2>3, <2>4
<1>12. Locked(t) /\ Recorded
  BY <1>2, <1>10, IdleCall DEF Locked, Recorded, Publish, Inv, StreamInv, TypeOK
<1>13. Bereft(t) => "publish" \in AllocFails
  <2>1. SUFFICES ASSUME Bereft(t), p = FreshId PROVE FALSE
    BY <1>4, <1>7 DEF Bereft
  <2>2. x = call[t].clone
    BY <1>2, <1>3, <2>1 DEF Bereft
  <2> QED
    BY <1>6, <1>10, <2>1, <2>2, NoneFacts DEF Bereft
<1>14. (side[x] # None => Sound(side[x]))'
  <2>1. parted => parted'
    BY DEF Parts
  <2> QED
    BY <1>8, <1>10, <2>1 DEF Sound
<1>15. (~parted => Level(x))'
  <2>1. SUFFICES ASSUME ~parted' PROVE Level(x)'
    OBVIOUS
  <2>2. ~parted /\ ~Bereft(t)
    BY <2>1 DEF Parts
  <2>3. CASE call[t].op = "clone"
    <3>1. native[x] # None /\ Agree(rec, native[x], caller[x])
      BY <1>2, <1>3, <1>4, <2>2, <2>3, Own DEF InFlight
    <3>2. CASE d = rec
      BY <1>10, <3>1, <3>2 DEF Level, Agree, Follows
    <3>3. CASE p = None /\ d = None /\ rec # None
      <4>1. ~rec.cached \/ native[x] = rec.cursor
        BY <1>2, <1>3, <1>4, <1>10, <2>2, <2>3, <3>3 DEF Bereft
      <4> QED
        BY <1>10, <3>1, <3>3, <4>1 DEF Level, Agree, Follows
    <3> QED
      BY <1>7, <3>2, <3>3
  <2>4. CASE call[t].op = "open"
    <3>1. native[x] = 0 /\ caller[x] = 0 /\ rec # None /\ rec.cursor = 0 /\ ~rec.cached
      BY <1>2, <1>4, <1>5, <2>4
    <3>2. d = rec \/ d = None
      BY <1>7
    <3> QED
      BY <1>10, <3>1, <3>2 DEF Level, Agree, Follows
  <2> QED
    BY <1>2, <2>3, <2>4
<1> QED
  BY <1>10, <1>11, <1>12, <1>13, <1>14, <1>15, Returned, Turned DEF Local

-----------------------------------------------------------------------------
(* A call begins: only the thread changes.                                     *)
Starts(t, c) ==
  /\ call[t].pc = "idle" /\ c \in Calls /\ call' = [call EXCEPT ![t] = c]
  /\ c.s \in Streams /\ c.id = None /\ c.rec = None /\ c.mode = None /\ c.append = FALSE
  /\ IF c.pc = "find"
     THEN /\ c.op \in {"read", "seek", "clone"} /\ c.n # None /\ native[c.s] # None
          /\ \A u \in Threads : c.s \in {call[u].s, call[u].clone} =>
               ~Lifecycle(u) /\ call[u].clone # c.s
     ELSE /\ c.pc = "retire" /\ c.op \in {"open", "close"}
          /\ \A u \in Threads : c.s \in {call[u].s, call[u].clone} =>
               /\ Overlapping /\ c.op = "close"
               /\ call[u].pc \in {"body", "native"} /\ call[u].clone = None
  /\ IF c.op = "clone"
     THEN /\ c.clone \in Streams /\ c.clone # c.s /\ native[c.clone] = None
          /\ \A u \in Threads : c.clone \notin {call[u].s, call[u].clone}
     ELSE c.clone = None
  /\ c.op = "open" => native[c.s] = None
  /\ native' = native /\ caller' = caller /\ published' = published /\ side' = side
  /\ mutex' = mutex /\ last' = last /\ learned' = learned /\ scenario' = scenario
  /\ parted' = (parted \/ Unguarded(t) \/ Bereft(t))

LEMMA StartKeeps ==
  ASSUME Inv, NEW t \in Threads, NEW c, Starts(t, c)
  PROVE  Inv'
<1>1. /\ call[t] = Idle /\ call'[t] = c /\ \A u \in Threads \ {t} : call'[u] = call[u]
      /\ call \in [Threads -> Calls] /\ call' \in [Threads -> Calls]
  BY Own, Each DEF Starts, Typed, Placed
<1>2. parted' = parted
  <2>1. ~Unguarded(t) /\ ~Bereft(t)
    BY DEF Starts, Unguarded, Bereft
  <2> QED
    BY <2>1 DEF Starts, Inv, StreamInv, TypeOK
<1>3. /\ native' = native /\ caller' = caller /\ published' = published /\ side' = side
      /\ mutex' = mutex /\ last' = last /\ learned' = learned /\ scenario' = scenario
      /\ Overlapping' = Overlapping /\ AllocFails' = AllocFails
  BY DEF Starts, Overlapping, AllocFails
<1>4. c.pc \in {"find", "retire"} /\ (Lifecycle(t)' <=> c.pc = "retire")
  BY <1>1 DEF Starts, Lifecycle
<1>5. TypeOK'
  <2>1. \A i \in Ids : mutex[i] # None => mutex[i] # t
    BY <1>1, IdleCall DEF Inv, StreamInv, TypeOK
  <2>2. \A i \in Ids : mutex'[i] # None =>
          call'[mutex'[i]].pc = "native" /\ call'[mutex'[i]].id = i
    BY <1>1, <1>3, <2>1 DEF Inv, StreamInv, TypeOK
  <2> QED
    BY <1>1, <1>2, <1>3, <2>2 DEF Inv, StreamInv, TypeOK
<1>6. OwnIds'
  <2>1. c.id = None
    BY DEF Starts
  <2> QED
    BY <1>1, <1>3, <2>1 DEF Inv, StreamInv, OwnIds
<1>7. ASSUME NEW u \in Threads, NEW v \in Threads, u # v
      PROVE  Apart(u, v)'
  <2>1. CASE u # t /\ v # t
    BY <1>1, <1>3, <1>7, <2>1, Each DEF Apart, Lifecycle
  <2>2. CASE u = t
    <3>1. call'[u] = c /\ call'[v] = call[v] /\ Placed(call[v])
      BY <1>1, <1>7, <2>2, Own
    <3>2. c.op = "clone" => c.clone \notin {call[v].s, call[v].clone}
      BY DEF Starts
    <3>3. ASSUME c.pc = "retire", call[v].s = c.s
          PROVE  /\ Overlapping /\ c.op = "close" /\ call[v].op \in {"read", "seek"}
                 /\ call[v].pc \in {"body", "native"}
      <4>1. /\ Overlapping /\ c.op = "close"
            /\ call[v].pc \in {"body", "native"} /\ call[v].clone = None
        BY <3>3 DEF Starts
      <4> QED
        BY <3>1, <4>1 DEF Placed
    <3> QED
      BY <1>3, <1>4, <2>2, <3>1, <3>2, <3>3 DEF Apart
  <2>3. CASE v = t
    <3>1. call'[v] = c /\ call'[u] = call[u] /\ Placed(call[u])
      BY <1>1, <1>7, <2>3, Own
    <3>2. call[u].op = "clone" => call[u].clone # c.s
      BY <1>4, Own, NoneFacts, <3>1 DEF Starts, Placed
    <3>3. call[u].op = "clone" => call[u].clone # c.clone
      BY <3>1, NoneFacts DEF Starts, Placed
    <3>4. Lifecycle(u) => call[u].s # c.s
      <4>1. SUFFICES ASSUME Lifecycle(u), call[u].s = c.s PROVE FALSE
        OBVIOUS
      <4>2. call[u].pc \in {"body", "native"}
        BY <4>1 DEF Starts
      <4> QED
        BY <3>1, <4>1, <4>2 DEF Placed, Lifecycle
    <3> QED
      BY <3>1, <3>2, <3>3, <3>4 DEF Apart, Lifecycle
  <2> QED
    BY <2>1, <2>2, <2>3
<1>8. ASSUME NEW u \in Threads
      PROVE  Setting(u)' /\ Placed(call[u])' /\ Guarded(u)' /\ (~parted => InFlight(u))'
  <2>1. CASE u # t
    <3>1. call'[u] = call[u]
      BY <1>1, <2>1
    <3>2. Setting(u)' /\ Guarded(u)' /\ (~parted => InFlight(u))'
      BY <1>2, <1>3, <3>1, Own DEF Setting, Guarded, InFlight
    <3>3. Placed(call[u])'
      BY <1>2, <3>1, Own DEF Placed, Sound
    <3> QED
      BY <3>2, <3>3
  <2>2. CASE u = t
    <3>1. call'[u] = c
      BY <1>1, <2>2
    <3>2. Setting(u)' /\ Guarded(u)' /\ (~parted => InFlight(u))'
      BY <1>3, <1>4, <3>1 DEF Setting, Guarded, InFlight, Starts
    <3>3. Placed(call[u])'
      BY <1>4, <3>1, NoneFacts DEF Placed, Starts
    <3> QED
      BY <3>2, <3>3
  <2> QED
    BY <2>1, <2>2
<1>9. OwnStreams'
  BY <1>7, <1>8 DEF OwnStreams, Setting
<1>10. ASSUME NEW s \in Streams PROVE (side[s] # None => Sound(side[s]))'
  BY <1>2, <1>3, Each DEF Sound
<1>11. ASSUME ~parted, NEW s \in Streams PROVE Level(s)'
  <2>1. Making(s) => Making(s)'
    BY <1>1, IdleCall, NoneFacts DEF Making
  <2>2. Ending(s) => Ending(s)'
    <3>1. ASSUME NEW u \in Users(s), Lifecycle(u) PROVE Ending(s)'
      <4>1. u \in Threads /\ u # t
        BY <1>1, <3>1, IdleCall, NoneFacts DEF Users, Lifecycle
      <4>2. call'[u] = call[u]
        BY <1>1, <4>1
      <4>3. u \in Users(s)' /\ Lifecycle(u)'
        BY <3>1, <4>1, <4>2 DEF Users, Lifecycle
      <4> QED
        BY <4>3 DEF Ending
    <3> QED
      BY <1>3, <3>1 DEF Ending
  <2> QED
    BY <1>3, <1>11, <2>1, <2>2, Each DEF Level
<1>12. CursorsAgree'
  <2>1. PartedExplained'
    BY <1>2, <1>3 DEF Inv, CursorsAgree, PartedExplained
  <2>2. (~parted => \A s \in Streams : Level(s))'
    BY <1>2, <1>11
  <2> QED
    BY <2>1, <2>2 DEF CursorsAgree, Level
<1>13. StreamInv'
  BY <1>5, <1>6, <1>8, <1>9, <1>10 DEF StreamInv
<1>14. Learnt'
  BY <1>2, <1>3 DEF Inv, Learnt, LearnsWhole, BytesInOrder, Whole
<1>15. CloseWaits'
  BY <1>1, <1>4 DEF Inv, CloseWaits
<1> QED
  BY <1>12, <1>13, <1>14, <1>15 DEF Inv

LEMMA UseKeeps ==
  ASSUME Inv, NEW t \in Threads, Use(t), scenario' = scenario,
         parted' = (parted \/ Unguarded(t) \/ Bereft(t))
  PROVE  Inv'
<1>1. PICK s \in Streams, op \in {"read", "seek"}, n \in Cursors, r \in BOOLEAN :
        /\ Usable(s)
        /\ call' = [call EXCEPT ![t] = [Idle EXCEPT !.pc = "find", !.op = op,
                                         !.s = s, !.n = n, !.ident = r]]
  BY DEF Use
<1>2. [Idle EXCEPT !.pc = "find", !.op = op, !.s = s, !.n = n, !.ident = r] \in Calls
  BY DEF Calls, Ops, Idle
<1>3. PICK c \in Calls :
        c = [Idle EXCEPT !.pc = "find", !.op = op, !.s = s, !.n = n, !.ident = r]
  BY <1>2
<1>4. /\ c.pc = "find" /\ c.op = op /\ c.s = s /\ c.n = n /\ c.id = None /\ c.rec = None
      /\ c.mode = None /\ c.append = FALSE /\ c.clone = None
      /\ call' = [call EXCEPT ![t] = c]
  BY <1>1, <1>3 DEF Idle
<1>5. /\ n # None /\ native[s] # None
      /\ \A u \in Threads : s \in {call[u].s, call[u].clone} =>
           ~Lifecycle(u) /\ call[u].clone # s
  BY <1>1, NoneFacts DEF Usable, Users
<1>6. Starts(t, c)
  BY <1>4, <1>5 DEF Starts, Use
<1> QED
  BY <1>6, StartKeeps

LEMMA UseCloneKeeps ==
  ASSUME Inv, NEW t \in Threads, UseClone(t), scenario' = scenario,
         parted' = (parted \/ Unguarded(t) \/ Bereft(t))
  PROVE  Inv'
<1>1. PICK s \in scenario.streams, d \in scenario.streams, r \in BOOLEAN :
        /\ Usable(s) /\ native[d] = None /\ Users(d) = {}
        /\ call' = [call EXCEPT ![t] = [Idle EXCEPT !.pc = "find", !.op = "clone",
                                         !.s = s, !.clone = d, !.ident = r]]
  BY DEF UseClone
<1>2. s \in Streams /\ d \in Streams
  BY StreamAssumption DEF Inv, StreamInv, TypeOK
<1>3. 0 \in Cursors /\ None \notin Cursors
  BY StreamAssumption, NoneFacts DEF Cursors
<1>4. [Idle EXCEPT !.pc = "find", !.op = "clone", !.s = s, !.clone = d, !.ident = r] \in Calls
  BY <1>2, <1>3 DEF Calls, Ops, Idle
<1>5. PICK c \in Calls :
        c = [Idle EXCEPT !.pc = "find", !.op = "clone", !.s = s, !.clone = d, !.ident = r]
  BY <1>4
<1>6. /\ c.pc = "find" /\ c.op = "clone" /\ c.s = s /\ c.n = 0 /\ c.id = None /\ c.rec = None
      /\ c.mode = None /\ c.append = FALSE /\ c.clone = d
      /\ call' = [call EXCEPT ![t] = c]
  BY <1>1, <1>5 DEF Idle
<1>7. /\ native[s] # None
      /\ \A u \in Threads : s \in {call[u].s, call[u].clone} =>
           ~Lifecycle(u) /\ call[u].clone # s
  BY <1>1 DEF Usable, Users
<1>8. d # s /\ \A u \in Threads : d \notin {call[u].s, call[u].clone}
  BY <1>1, <1>7 DEF Users
<1>9. Starts(t, c)
  BY <1>1, <1>2, <1>3, <1>6, <1>7, <1>8 DEF Starts, UseClone
<1> QED
  BY <1>9, StartKeeps

LEMMA UseLifecycleKeeps ==
  ASSUME Inv, NEW t \in Threads, UseLifecycle(t), scenario' = scenario,
         parted' = (parted \/ Unguarded(t) \/ Bereft(t))
  PROVE  Inv'
<1>1. PICK s \in scenario.streams :
        /\ \A u \in Users(s) :
             Overlapping /\ call[u].pc \in {"body", "native"} /\ call[u].clone = None
        /\ call' = [call EXCEPT ![t] =
             [Idle EXCEPT !.pc = "retire", !.s = s,
                          !.op = IF native[s] = None THEN "open" ELSE "close"]]
        /\ native[s] = None => Users(s) = {}
  BY DEF UseLifecycle
<1>2. s \in Streams
  BY StreamAssumption DEF Inv, StreamInv, TypeOK
<1>3. PICK op \in {"open", "close"} : op = IF native[s] = None THEN "open" ELSE "close"
  OBVIOUS
<1>4. 0 \in Cursors
  BY StreamAssumption DEF Cursors
<1>5. [Idle EXCEPT !.pc = "retire", !.s = s, !.op = op] \in Calls
  BY <1>2, <1>4 DEF Calls, Ops, Idle
<1>6. PICK c \in Calls : c = [Idle EXCEPT !.pc = "retire", !.s = s, !.op = op]
  BY <1>5
<1>7. /\ c.pc = "retire" /\ c.op = op /\ c.s = s /\ c.id = None /\ c.rec = None
      /\ c.mode = None /\ c.append = FALSE /\ c.clone = None
      /\ call' = [call EXCEPT ![t] = c]
  BY <1>1, <1>3, <1>6 DEF Idle
<1>8. \A u \in Threads : s \in {call[u].s, call[u].clone} =>
        /\ Overlapping /\ op = "close"
        /\ call[u].pc \in {"body", "native"} /\ call[u].clone = None
  BY <1>1, <1>3 DEF Users
<1>9. op = "open" => native[s] = None
  BY <1>3
<1>10. Starts(t, c)
  BY <1>2, <1>7, <1>8, <1>9 DEF Starts, UseLifecycle
<1> QED
  BY <1>10, StartKeeps

-----------------------------------------------------------------------------
(* The invariant is inductive.                                                 *)

LEMMA InitInv ==
  ASSUME Init
  PROVE  Inv
<1>1. /\ scenario \in Scenarios /\ parted = FALSE /\ learned = {}
      /\ native \in [Streams -> Cursors \cup {None}]
      /\ caller = [s \in Streams |-> IF native[s] = None THEN 0 ELSE native[s]]
      /\ published = [s \in Streams |-> None] /\ side = [s \in Streams |-> None]
      /\ mutex = [i \in Ids |-> None] /\ call = [t \in Threads |-> Idle]
      /\ last = [from |-> 0, due |-> 0]
  BY DEF Init
<1>2. 0 \in Cursors
  BY StreamAssumption DEF Cursors
<1>3. \A t \in Threads : call[t] = Idle
  BY <1>1
<1>4. TypeOK
  <2>1. caller \in [Streams -> Cursors]
    BY <1>1, <1>2
  <2>2. call \in [Threads -> Calls]
    BY <1>1, IdleCall
  <2>3. last \in [from : Cursors, due : Cursors]
    BY <1>1, <1>2
  <2> QED
    BY <1>1, <2>1, <2>2, <2>3 DEF TypeOK
<1>5. OwnIds
  BY <1>1, <1>3, IdleCall DEF OwnIds
<1>6. OwnStreams
  <2>1. \A t, u \in Threads : Apart(t, u)
    BY <1>3, IdleCall, NoneFacts DEF Apart, Lifecycle, Ops
  <2>2. \A t \in Threads : Setting(t)
    BY <1>3, IdleCall, NoneFacts DEF Setting, Ops
  <2> QED
    BY <2>1, <2>2 DEF OwnStreams, Setting
<1>7. ASSUME NEW t \in Threads
      PROVE  Placed(call[t]) /\ Guarded(t) /\ InFlight(t)
  <2>1. Placed(call[t])
    BY <1>3, IdleCall, NoneFacts DEF Placed, Ops
  <2> QED
    BY <1>3, <2>1, IdleCall DEF Guarded, InFlight
<1>8. \A s \in Streams : side[s] = None
  BY <1>1
<1>9. StreamInv
  BY <1>4, <1>5, <1>6, <1>7, <1>8 DEF StreamInv
<1>10. CursorsAgree
  BY <1>1, <1>8 DEF CursorsAgree, PartedExplained, Follows, Agree, Ending
<1>11. Learnt
  BY <1>1 DEF Learnt, LearnsWhole, BytesInOrder
<1>12. CloseWaits
  BY <1>3, IdleCall DEF CloseWaits
<1> QED
  BY <1>9, <1>10, <1>11, <1>12 DEF Inv

LEMMA HookKeeps ==
  ASSUME Inv, NEW t \in Threads, Hook(t), scenario' = scenario,
         parted' = (parted \/ Unguarded(t) \/ Bereft(t))
  PROVE  Inv'
<1>1. Parts(t)
  BY DEF Parts
<1>2. CASE Use(t) \/ UseClone(t) \/ UseLifecycle(t)
  BY <1>2, UseKeeps, UseCloneKeeps, UseLifecycleKeeps
<1>3. CASE Find(t) \/ Create(t) \/ Replaced(t) \/ Retired(t) \/ Upgrade(t)
  BY <1>1, <1>3, FindKeeps, CreateKeeps, ReplacedKeeps, RetiredKeeps, UpgradeKeeps
<1>4. CASE ReadUnknown(t) \/ ReadCached(t) \/ ReadNative(t) \/ EndRead(t)
  BY <1>1, <1>4, ReadUnknownKeeps, ReadCachedKeeps, ReadNativeKeeps, EndReadKeeps
<1>5. CASE SeekCached(t) \/ SeekNative(t) \/ EndSeek(t) \/ EndClosed(t)
  BY <1>1, <1>5, SeekCachedKeeps, SeekNativeKeeps, EndSeekKeeps, EndClosedKeeps
<1>6. CASE EndCloneBare(t) \/ Clone(t)
  BY <1>1, <1>6, EndCloneBareKeeps, CloneKeeps
<1>7. CASE Retire(t) \/ Wait(t) \/ Close(t) \/ Open(t) \/ Publish(t)
  BY <1>1, <1>7, RetireKeeps, WaitKeeps, CloseKeeps, OpenKeeps, PublishKeeps
<1> QED
  BY <1>2, <1>3, <1>4, <1>5, <1>6, <1>7 DEF Hook

LEMMA NextInv ==
  ASSUME Inv, [Next]_<<scenario, vars>>
  PROVE  Inv'
<1>1. CASE Next
  <2>1. PICK t \in scenario.threads :
          \/ Hook(t) /\ parted' = (parted \/ Unguarded(t) \/ Bereft(t))
          \/ UpgradeFails(t) /\ parted' = TRUE
    BY <1>1 DEF Next
  <2>2. t \in Threads
    BY <2>1, StreamAssumption DEF Inv, StreamInv, TypeOK
  <2>3. scenario' = scenario
    BY <1>1 DEF Next
  <2> QED
    BY <2>1, <2>2, <2>3, HookKeeps, UpgradeFailsKeeps
<1>2. CASE UNCHANGED <<scenario, vars>>
  <2>1. /\ native' = native /\ caller' = caller /\ published' = published /\ side' = side
        /\ mutex' = mutex /\ call' = call /\ last' = last /\ learned' = learned
        /\ scenario' = scenario /\ parted' = parted
    BY <1>2 DEF vars
  <2>2. TypeOK' /\ OwnIds' /\ OwnStreams'
    BY <2>1 DEF Inv, StreamInv, TypeOK, OwnIds, OwnStreams, Apart, Lifecycle, Overlapping
  <2>3. (\A s \in Streams : side[s] # None => Sound(side[s]))'
    BY <2>1, Each DEF Sound
  <2>4. ASSUME NEW t \in Threads
        PROVE  (Placed(call[t]) /\ Guarded(t) /\ (~parted => InFlight(t)))'
    BY <2>1, Own DEF Placed, Sound, Guarded, InFlight, Overlapping, AllocFails
  <2>5. StreamInv'
    BY <2>2, <2>3, <2>4 DEF StreamInv
  <2>6. CursorsAgree'
    BY <2>1 DEF Inv, CursorsAgree, PartedExplained, Overlapping, AllocFails, Making, Ending,
                Users, Lifecycle
  <2>7. Learnt' /\ CloseWaits'
    BY <2>1 DEF Inv, Learnt, LearnsWhole, BytesInOrder, CloseWaits, Whole
  <2> QED
    BY <2>5, <2>6, <2>7 DEF Inv
<1> QED
  BY <1>1, <1>2

LEMMA Inductive == Spec => []Inv
<1>1. Init => Inv
  BY InitInv
<1>2. Inv /\ [Next]_<<scenario, vars>> => Inv'
  BY NextInv
<1> QED
  BY <1>1, <1>2, PTL DEF Spec

-----------------------------------------------------------------------------
(* The state objects, mutexes and locals of every hook stay in order: no two   *)
(* streams share an object, a held mutex belongs to the object its holder uses,  *)
(* a capture holds the entry's first bytes, and a call in the decompressor will   *)
(* store a cursor that is where it stands (HookedCompDoRead, HookedCompDoSeek,   *)
(* HookedCompDoClone and the registry of their states).                        *)
THEOREM StreamCorrect == Spec => []StreamInv
<1>1. Inv => StreamInv
  BY DEF Inv
<1> QED
  BY <1>1, Inductive, PTL

(* However reads are split between the cache and the decompressor, through every *)
(* clone, seek, failure and change of identity, each delivers the bytes that the *)
(* engine's position calls for (HookedCompDoRead, ServeCachedRead).             *)
THEOREM ServedInOrder == Spec => []BytesInOrder
<1>1. Inv => BytesInOrder
  BY DEF Inv, Learnt
<1> QED
  BY <1>1, Inductive, PTL

(* RecordDecompressed only ever gets whole payloads (AppendCapture).            *)
THEOREM LearntWhole == Spec => []LearnsWhole
<1>1. Inv => LearnsWhole
  BY DEF Inv, Learnt
<1> QED
  BY <1>1, Inductive, PTL

(* logicalCursor is where the decompressor and the engine stand, unless memory   *)
(* ran out or a close overlapped the calls it ends.                            *)
THEOREM CursorsCorrect == Spec => []CursorsAgree
<1>1. Inv => CursorsAgree
  BY DEF Inv
<1> QED
  BY <1>1, Inductive, PTL

(* A close or destructor waits for the call that holds the state it retired     *)
(* (RetireCompressedState).                                                  *)
THEOREM CloseWaitsForCalls == Spec => []CloseWaits
<1>1. Inv => CloseWaits
  BY DEF Inv
<1> QED
  BY <1>1, Inductive, PTL
=============================================================================
