--------------------------- MODULE WarmWorkerProofs ---------------------------
(***************************************************************************)
(* WarmWorker keeps its invariants for every set of archives and threads,   *)
(* any number of chunks and events and every choice of failures, timer and  *)
(* shutdown.                                                               *)
(***************************************************************************)
EXTENDS WarmWorker, TLAPS

LEMMA InitInv == Init => WorkerInv
<1> SUFFICES ASSUME Init PROVE WorkerInv
  OBVIOUS
<1>1. Chunks \in Nat
  BY WorkerAssumption
<1>2. TypeOK
  <2>1. prefaulted \in [Archives -> 0 .. Chunks]
    BY <1>1 DEF Init
  <2>2. late \in 0 .. 2
    BY DEF Init
  <2> QED
    BY <2>1, <2>2 DEF Init, TypeOK
<1>3. Announced /\ Passing /\ AtWork /\ Gated
  BY DEF Init, Announced, Passing, AtWork, Gated
<1> QED
  BY <1>2, <1>3 DEF WorkerInv

(* A step that leaves the mappings, the pass and the gate alone.             *)
LEMMA OthersKeep ==
  ASSUME WorkerInv, NEW t \in Threads,
         MoveEpoch(t) \/ RequestFlush(t) \/ RequestWarmup(t) \/ Notify(t)
  PROVE  WorkerInv'
<1> USE DEF WorkerInv, TypeOK, Announced, Passing, AtWork, Gated, Committing,
            AllTouched, Usable, mapVars, reqVars, gateVars, runVars
<1>1. CASE MoveEpoch(t)
  BY <1>1 DEF MoveEpoch
<1>2. CASE RequestFlush(t)
  BY <1>2 DEF RequestFlush
<1>3. CASE RequestWarmup(t)
  <2>1. /\ warmRequested' = TRUE /\ warmComplete' = FALSE /\ Then(t, ~warmRequested)
        /\ UNCHANGED <<mapVars, pending, flushRequested, gateVars,
                       epochMoved, pc, runVars, events, late>>
    BY <1>3, Zenon DEF RequestWarmup
  <2>2. TypeOK'
    BY <1>3 DEF RequestWarmup
  <2>3. (Announced /\ Passing /\ AtWork /\ Gated)'
    BY <2>1
  <2> QED BY <2>2, <2>3
<1>4. CASE Notify(t)
  BY <1>4 DEF Notify
<1> QED
  BY <1>1, <1>2, <1>3, <1>4

LEMMA EventsKeep ==
  ASSUME WorkerInv,
         \/ LoadOpens \/ LoadCloses \/ Destroy
         \/ \E t \in Readers, a \in Archives :
              \/ ReportMappingIoFailure(t, a)
              \/ \E urgent \in BOOLEAN : RecordDecompressed(t, a, urgent)
  PROVE  WorkerInv'
<1> USE DEF WorkerInv, TypeOK, Announced, Passing, AtWork, Gated, Committing,
            AllTouched, Usable, mapVars, reqVars, gateVars, runVars
<1>1. CASE LoadOpens
  BY <1>1 DEF LoadOpens
<1>2. CASE LoadCloses
  <2>1. ~loadActive' /\ loadActive' \in BOOLEAN
    BY <1>2 DEF LoadCloses
  <2>2. late' = 0
    BY <1>2 DEF LoadCloses
  <2>3. UNCHANGED <<mapVars, pending, reqVars, pc, runVars>>
    BY <1>2 DEF LoadCloses
  <2>4. TypeOK'
    BY <2>1, <2>2, <2>3
  <2>5. Announced' /\ Passing' /\ AtWork'
    BY <2>3
  <2> QED
    BY <2>1, <2>4, <2>5
<1>3. CASE Destroy
  BY <1>3 DEF Destroy
<1>4. ASSUME NEW t \in Readers, NEW a \in Archives, ReportMappingIoFailure(t, a)
      PROVE  WorkerInv'
  BY <1>4 DEF ReportMappingIoFailure
<1>5. ASSUME NEW t \in Readers, NEW a \in Archives, NEW urgent \in BOOLEAN,
             RecordDecompressed(t, a, urgent)
      PROVE  WorkerInv'
  BY <1>5 DEF RecordDecompressed
<1> QED
  BY <1>1, <1>2, <1>3, <1>4, <1>5

LEMMA LoopKeeps ==
  ASSUME WorkerInv,
         \/ Lock \/ Check \/ Sleep \/ Timeout \/ SpuriousWakeup \/ Decide
         \/ ExchangeWarm \/ Gate
  PROVE  WorkerInv'
<1> USE DEF WorkerInv, TypeOK, Announced, Passing, AtWork, Gated, Committing,
            AllTouched, Usable, mapVars, reqVars, gateVars, runVars, Hit, Goto
<1>1. CASE Lock
  BY <1>1 DEF Lock
<1>2. CASE Check
  BY <1>2 DEF Check
<1>3. CASE Sleep
  BY <1>3 DEF Sleep
<1>4. CASE Timeout \/ SpuriousWakeup
  BY <1>4 DEF Timeout, SpuriousWakeup
<1>5. CASE Decide
  BY <1>5 DEF Decide
<1>6. CASE ExchangeWarm
  BY <1>6 DEF ExchangeWarm
<1>7. CASE Gate
  BY <1>7 DEF Gate, Again
<1> QED
  BY <1>1, <1>2, <1>3, <1>4, <1>5, <1>6, <1>7

LEMMA FlushKeeps ==
  ASSUME WorkerInv, Flush
  PROVE  WorkerInv'
<1> USE DEF WorkerInv, TypeOK, Announced, Passing, AtWork, Gated, Committing,
            AllTouched, Usable, mapVars, reqVars, gateVars, runVars
<1>1. CASE FlushToDisk
  BY <1>1 DEF FlushToDisk, Hit, Goto
<1>2. CASE \E a \in Archives : RetireGeneration(a)
  BY <1>2 DEF RetireGeneration
<1>3. CASE Plan
  BY <1>3 DEF Plan, AskWarm
<1>4. CASE \E a \in Archives : StartAppend(a)
  BY <1>4 DEF StartAppend, Hit, Goto
<1>5. CASE Write
  BY <1>5 DEF Write, Worked, Hit, Miss, Goto
<1>6. CASE Install
  BY <1>6, WorkerAssumption DEF Install, Stale
<1>7. CASE Requeue
  BY <1>7 DEF Requeue
<1>8. CASE FinishFlush
  BY <1>8 DEF FinishFlush, AskWarm, Hit, Goto
<1> QED
  BY <1>1, <1>2, <1>3, <1>4, <1>5, <1>6, <1>7, <1>8 DEF Flush

LEMMA PassKeeps ==
  ASSUME WorkerInv, WarmMappedCaches \/ WarmFails
  PROVE  WorkerInv'
<1> USE DEF WorkerInv, TypeOK, Announced, Passing, AtWork, Gated, Committing,
            AllTouched, Usable, mapVars, reqVars, gateVars, runVars
<1>1. CASE Snapshot
  BY <1>1 DEF Snapshot, Hit, Miss, Goto
<1>2. CASE Interrupt
  BY <1>2 DEF Interrupt, AskWarm, Again, Hit, Goto
<1>3. CASE TouchChunk
  BY <1>3, WorkerAssumption DEF TouchChunk, Worked
<1>4. CASE StartVerify
  BY <1>4, WorkerAssumption DEF StartVerify, Cold, Hit, Goto
<1>5. CASE VerifyEntries
  BY <1>5 DEF VerifyEntries, Worked, Interrupted
<1>6. CASE VerifyDone
  <2>1. CASE Interrupted
    <3>1. /\ pc' = "lock" /\ ~warmComplete' /\ ~changed' /\ changed' \in BOOLEAN
          /\ items' = {} /\ item' = NoArchive /\ warmComplete' \in BOOLEAN
      BY <1>6, <2>1 DEF VerifyDone, AskWarm, Again, Hit, Goto
    <3>2. UNCHANGED <<mapVars, pending, gateVars, late>>
      BY <1>6, <2>1 DEF VerifyDone, Hit, Goto
    <3> QED
      BY <1>6, <3>1, <3>2 DEF VerifyDone
  <2>2. CASE ~Interrupted
    BY <1>6, <2>2 DEF VerifyDone, Hit, Goto
  <2> QED
    BY <2>1, <2>2
<1>7. CASE LastLook
  BY <1>7 DEF LastLook, AskWarm, Again, Hit, Goto
<1>8. CASE PublishComplete
  BY <1>8 DEF PublishComplete, AskWarm, Again, Hit, Goto
<1>9. CASE \E a \in Archives : PickChunk(a)
  BY <1>9 DEF PickChunk, Cold, Interrupted, Hit, Goto
<1>10. CASE \E a \in Archives : PickItem(a)
  BY <1>10 DEF PickItem, Interrupted, AskWarm, Again, Hit, Goto
<1>11. CASE WarmFails
  <2>1. item \in view /\ diskInvalidated' \subseteq view /\ Usable' \subseteq Usable
    BY <1>11 DEF WarmFails
  <2>2. TypeOK'
    BY <1>11, <2>1 DEF WarmFails, Again
  <2>3. Announced' /\ Passing' /\ AtWork'
    <3>1. warmComplete' => warmComplete
      BY <1>11 DEF WarmFails
    <3> QED
      BY <1>11, <2>1, <3>1 DEF WarmFails
  <2>4. Gated'
    BY <1>11 DEF WarmFails
  <2> QED
    BY <2>2, <2>3, <2>4
<1> QED
  BY <1>1, <1>2, <1>3, <1>4, <1>5, <1>6, <1>7, <1>8, <1>9, <1>10, <1>11
  DEF WarmMappedCaches

LEMMA StepKeepsInv == WorkerInv /\ [Next]_<<conditions, vars>> => WorkerInv'
<1> SUFFICES ASSUME WorkerInv, [Next]_<<conditions, vars>> PROVE WorkerInv'
  OBVIOUS
<1>1. CASE UNCHANGED <<conditions, vars>>
  BY <1>1 DEF vars, mapVars, gateVars, runVars, reqVars, WorkerInv, TypeOK,
              Announced, Passing, AtWork, Gated, Committing, AllTouched, Usable
<1>2. CASE Next
  BY <1>2, OthersKeep, EventsKeep, LoopKeeps, FlushKeeps, PassKeeps
  DEF Next, Step, Worker, Serve
<1> QED
  BY <1>1, <1>2

(* The strengthened invariant: completion is true unless a commit is under way, *)
(* a pass accounts for every mapping in service, the gate holds.              *)
THEOREM WorkerCorrect == Spec => []WorkerInv
  BY InitInv, StepKeepsInv, PTL DEF Spec

(* IsRamWarm speaks of every mapping in service outside a flush's commits.     *)
THEOREM CompletionTrue == Spec => []CompleteMeansTouched
<1>1. WorkerInv => CompleteMeansTouched
  BY DEF WorkerInv, Announced, CompleteMeansTouched
<1> QED
  BY <1>1, WorkerCorrect, PTL

(* After SetLoadActive(true) at most one chunk is written, touched or summed.  *)
THEOREM LoadGateHolds == Spec => []LoadGate
<1>1. WorkerInv => LoadGate
  BY DEF WorkerInv, TypeOK, Gated, LoadGate
<1> QED
  BY <1>1, WorkerCorrect, PTL

(* publishComplete announces only what is true and not already outdated.      *)
THEOREM AnnouncedCalmly == Spec => AnnouncedWhenCalm
<1> DEFINE Calm == ~warmComplete /\ warmComplete' =>
                     AllTouched /\ ~loadActive /\ ~flushRequested /\ ~warmRequested
<1>1. ASSUME WorkerInv, Next PROVE Calm
  <2> SUFFICES ASSUME ~warmComplete, warmComplete'
               PROVE  AllTouched /\ ~loadActive /\ ~flushRequested /\ ~warmRequested
    OBVIOUS
  <2>1. PublishComplete
    BY <1>1 DEF Next, Step, Worker, Flush, WarmMappedCaches, Serve, reqVars,
       Lock, Check, Sleep, Decide, FlushToDisk, Plan, Write, Install, Requeue,
       FinishFlush, RetireGeneration, StartAppend, ExchangeWarm, Gate, Snapshot,
       Interrupt, TouchChunk, StartVerify, VerifyEntries, VerifyDone, LastLook,
       PickChunk, PickItem, WarmFails, Timeout, SpuriousWakeup, LoadOpens,
       LoadCloses, Destroy, MoveEpoch, RequestFlush, RequestWarmup, Notify,
       ReportMappingIoFailure, RecordDecompressed, AskWarm
  <2> QED
    BY <2>1, <1>1 DEF PublishComplete, Interrupted, AskWarm, WorkerInv, Passing
<1>2. ASSUME WorkerInv, [Next]_<<conditions, vars>> PROVE [Calm]_vars
  BY <1>1, <1>2
<1> QED
  BY <1>2, WorkerCorrect, PTL DEF Spec, AnnouncedWhenCalm
=============================================================================
