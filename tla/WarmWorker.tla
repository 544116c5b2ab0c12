------------------------------ MODULE WarmWorker ------------------------------
(***************************************************************************)
(* The background worker of the decompression cache (Skyrim/src/            *)
(* DecompCache.cpp: StartBackgroundFlush, FlushToDisk, WarmMappedCaches,    *)
(* RequestFlush, RequestWarmup, SetLoadActive and the destructor): one      *)
(* thread that sleeps on a condition variable, commits learned payloads and *)
(* then faults the mappings into memory, against readers that record and    *)
(* invalidate, loading screens that pause it, and shutdown.                 *)
(*                                                                         *)
(* The store under m_workerMtx and the notify after it are separate steps   *)
(* of a requester; the worker holds the mutex from its check of the          *)
(* predicate until it sleeps.                                              *)
(***************************************************************************)
EXTENDS Integers, Sequences, FiniteSets

CONSTANTS
  Archives,
  NoArchive,    (* the worker is not at an archive                           *)
  Readers,      (* threads that record payloads and find damaged ones        *)
  Loader,       (* the thread that opens and closes loading screens          *)
  Chunks,       (* 8 MiB warm chunks of a mapping                            *)
  Conditions,   (* the circumstances a behaviour may run under               *)
  MaxEvents     (* bound on records, loading screens and failures            *)

ASSUME WorkerAssumption ==
  /\ IsFiniteSet(Archives) /\ NoArchive \notin Archives
  /\ IsFiniteSet(Readers) /\ Loader \notin Readers
  /\ Chunks \in Nat \ {0} /\ MaxEvents \in Nat
  /\ Conditions \subseteq [timer : BOOLEAN, fails : BOOLEAN, stops : BOOLEAN]

Threads == Readers \cup {Loader}
Requests == {"epoch", "flush", "warm", "notify"}

VARIABLES
  conditions,       (* those of this behaviour                               *)
  view,             (* archives with a mapping                               *)
  diskInvalidated,  (* mappings taken out of service                         *)
  prefaulted,       (* chunks of the mapping touched, prefaultedThrough      *)
  verified,         (* archives whose mapped entries are all kVerifyValid    *)
  pending,          (* archives with queued payloads                         *)
  flushRequested, warmRequested, warmComplete, loadActive, stopRequested,
  epochMoved,       (* m_cacheEpoch has moved since the pass read it         *)
  todo,             (* what each thread still has to request and notify      *)
  pc,               (* where the worker is                                   *)
  timedOut,         (* its wait ended by the interval                        *)
  flushSignal, warmSignal,
  items,            (* archives of the running flush or pass still to do     *)
  item,             (* the one being worked on                               *)
  fromView,         (* the append builds on the mapping (~item.resetFile)    *)
  changed,          (* the flush committed or retired a generation           *)
  events,           (* events left                                           *)
  late              (* chunks done since the loading screen opened           *)

mapVars == <<view, diskInvalidated, prefaulted, verified>>
reqVars == <<flushRequested, warmRequested, warmComplete>>
gateVars == <<loadActive, stopRequested>>
runVars == <<timedOut, flushSignal, warmSignal, items, item, fromView, changed>>
vars == <<mapVars, pending, reqVars, gateVars, epochMoved, todo, pc,
          runVars, events, late>>

(* Does the 60 second interval of the worker elapse; may commits, snapshots,  *)
(* pages and checksums fail; may the cache be destroyed?                     *)
Timer == conditions.timer
MayFail == conditions.fails
MayStop == conditions.stops

Usable == view \ diskInvalidated

Init ==
  /\ conditions \in Conditions
  /\ view \in SUBSET Archives /\ diskInvalidated = {}
  /\ prefaulted = [a \in Archives |-> 0] /\ verified = {} /\ pending = {}
  /\ flushRequested = TRUE /\ warmRequested = TRUE /\ warmComplete = FALSE
  /\ loadActive = FALSE /\ stopRequested = FALSE
  /\ epochMoved = FALSE
  /\ todo = [t \in Threads |-> <<>>]
  /\ pc = "lock" /\ timedOut = FALSE /\ flushSignal = FALSE /\ warmSignal = FALSE
  /\ items = {} /\ item = NoArchive /\ fromView = FALSE /\ changed = FALSE
  /\ events = MaxEvents /\ late = 0

(* The worker holds m_workerMtx from its wakeup until it sleeps or leaves.     *)
MutexHeld == pc \in {"check", "doze"}

-----------------------------------------------------------------------------
(* Requests of the other threads.                                           *)

Begin(t, reqs) == todo[t] = <<>> /\ todo' = [todo EXCEPT ![t] = reqs]
Spend == events > 0 /\ events' = events - 1

(* A request notifies only when it changed the flag.                         *)
Then(t, changes) ==
  todo' = [todo EXCEPT ![t] = (IF changes THEN <<"notify">> ELSE <<>>) \o Tail(@)]

(* Faulty variant: the request is stored without the mutex.                  *)
RequestFlushUnlocked(t) ==
  /\ todo[t] # <<>> /\ Head(todo[t]) = "flush"
  /\ flushRequested' = TRUE /\ Then(t, ~flushRequested)
  /\ UNCHANGED <<mapVars, pending, warmRequested, warmComplete, gateVars,
                 epochMoved, pc, runVars, events, late>>

(* RequestFlush and RequestWarmup store under the mutex.                      *)
RequestFlush(t) ==
  /\ todo[t] # <<>> /\ Head(todo[t]) = "flush" /\ ~MutexHeld
  /\ flushRequested' = TRUE /\ Then(t, ~flushRequested)
  /\ UNCHANGED <<mapVars, pending, warmRequested, warmComplete, gateVars,
                 epochMoved, pc, runVars, events, late>>

RequestWarmup(t) ==
  /\ todo[t] # <<>> /\ Head(todo[t]) = "warm" /\ ~MutexHeld
  /\ warmRequested' = TRUE /\ warmComplete' = FALSE /\ Then(t, ~warmRequested)
  /\ UNCHANGED <<mapVars, pending, flushRequested, gateVars,
                 epochMoved, pc, runVars, events, late>>

(* notify_all wakes a sleeping worker and is lost on any other.              *)
Notify(t) ==
  /\ todo[t] # <<>> /\ Head(todo[t]) = "notify"
  /\ todo' = [todo EXCEPT ![t] = Tail(@)]
  /\ pc' = IF pc = "sleep" THEN "lock" ELSE pc
  /\ UNCHANGED <<mapVars, pending, reqVars, gateVars, epochMoved, runVars, events, late>>

(* A payload is queued; at 32 MiB of them the recorder asks for a flush.      *)
RecordDecompressed(t, a, urgent) ==
  /\ Spend /\ pending' = pending \cup {a}
  /\ Begin(t, IF urgent THEN <<"flush">> ELSE <<>>)
  /\ UNCHANGED <<mapVars, reqVars, gateVars, epochMoved, pc, runVars, late>>

(* A lookup or a mapped read finds the mapping damaged; the epoch moves and   *)
(* the worker is asked later.                                                *)
ReportMappingIoFailure(t, a) ==
  /\ MayFail /\ Spend /\ a \in Usable
  /\ diskInvalidated' = diskInvalidated \cup {a}
  /\ Begin(t, <<"epoch", "flush", "warm">>)
  /\ UNCHANGED <<view, prefaulted, verified, pending, reqVars, gateVars,
                 epochMoved, pc, runVars, late>>

MoveEpoch(t) ==
  /\ todo[t] # <<>> /\ Head(todo[t]) = "epoch"
  /\ epochMoved' = TRUE /\ todo' = [todo EXCEPT ![t] = Tail(@)]
  /\ UNCHANGED <<mapVars, pending, reqVars, gateVars, pc, runVars,
                 events, late>>

LoadOpens ==
  /\ Spend /\ ~loadActive /\ ~MutexHeld
  /\ loadActive' = TRUE /\ late' = 0 /\ Begin(Loader, <<"notify">>)
  /\ UNCHANGED <<mapVars, pending, reqVars, stopRequested, epochMoved,
                 pc, runVars>>

LoadCloses ==
  /\ loadActive /\ ~stopRequested /\ ~MutexHeld
  /\ loadActive' = FALSE /\ late' = 0
  /\ Begin(Loader, <<"notify", "flush", "warm">>)
  /\ UNCHANGED <<mapVars, pending, reqVars, stopRequested, epochMoved,
                 pc, runVars, events>>

(* Faulty variant: stop is published without the mutex.                      *)
DestroyUnlocked ==
  /\ MayStop /\ ~stopRequested
  /\ loadActive' = TRUE /\ stopRequested' = TRUE
  /\ late' = IF loadActive THEN late ELSE 0
  /\ Begin(Loader, <<"notify">>)
  /\ UNCHANGED <<mapVars, pending, reqVars, epochMoved, pc,
                 runVars, events>>

(* The destructor stops the worker through the cancel flag of its writes.     *)
Destroy ==
  /\ MayStop /\ ~stopRequested /\ ~MutexHeld
  /\ loadActive' = TRUE /\ stopRequested' = TRUE
  /\ late' = IF loadActive THEN late ELSE 0
  /\ Begin(Loader, <<"notify">>)
  /\ UNCHANGED <<mapVars, pending, reqVars, epochMoved, pc,
                 runVars, events>>

-----------------------------------------------------------------------------
(* The wait of the worker.                                                  *)

Goto(next) == pc' = next /\ UNCHANGED <<mapVars, pending, gateVars, todo>>
Hit(next) == Goto(next) /\ UNCHANGED events
Miss(next) == MayFail /\ Spend /\ Goto(next)

(* A turn of the loop begins and its locals are gone.                        *)
Again ==
  /\ timedOut' = FALSE /\ flushSignal' = FALSE /\ warmSignal' = FALSE
  /\ items' = {} /\ item' = NoArchive /\ fromView' = FALSE /\ changed' = FALSE

Lock ==
  /\ pc = "lock" /\ Hit("check")
  /\ UNCHANGED <<reqVars, epochMoved, runVars, late>>

Requested == flushRequested \/ warmRequested

(* With the mutex held: leave, decide to wait, or take both requests.        *)
Check ==
  /\ pc = "check"
  /\ \/ stopRequested /\ Hit("exit") /\ UNCHANGED <<reqVars, runVars>>
     \/ /\ ~stopRequested /\ (loadActive \/ ~(Requested \/ timedOut))
        /\ Hit("doze") /\ timedOut' = FALSE
        /\ UNCHANGED <<reqVars, flushSignal, warmSignal, items, item, fromView, changed>>
     \/ /\ ~stopRequested /\ ~loadActive /\ (Requested \/ timedOut)
        /\ Hit("decide") /\ timedOut' = FALSE
        /\ flushSignal' = flushRequested /\ warmSignal' = warmRequested
        /\ flushRequested' = FALSE /\ warmRequested' = FALSE
        /\ UNCHANGED <<warmComplete, items, item, fromView, changed>>
  /\ UNCHANGED <<epochMoved, late>>

(* Waiting gives the mutex up: only now can the worker be notified.            *)
Sleep ==
  /\ pc = "doze" /\ Hit("sleep")
  /\ UNCHANGED <<reqVars, epochMoved, runVars, late>>

(* The interval elapses, or the wait ends for no reason.                     *)
Timeout ==
  /\ pc = "sleep" /\ Timer /\ Hit("lock") /\ timedOut' = TRUE
  /\ UNCHANGED <<reqVars, epochMoved, flushSignal, warmSignal, items,
                 item, fromView, changed, late>>

SpuriousWakeup ==
  /\ pc = "sleep" /\ Hit("lock")
  /\ UNCHANGED <<reqVars, epochMoved, runVars, late>>

(* Faulty variant: what a failed flush left behind does not start another.     *)
DecideOnSignal ==
  /\ pc = "decide" /\ Hit(IF flushSignal THEN "flush" ELSE "exchange")
  /\ UNCHANGED <<reqVars, epochMoved, runVars, late>>

(* HasPending and HasInvalidGeneration also start a flush.                   *)
Decide ==
  /\ pc = "decide"
  /\ Hit(IF flushSignal \/ pending # {} \/ diskInvalidated # {}
          THEN "flush" ELSE "exchange")
  /\ UNCHANGED <<reqVars, epochMoved, runVars, late>>

-----------------------------------------------------------------------------
(* FlushToDisk.                                                             *)

Worked == late' = IF loadActive /\ late < 2 THEN late + 1 ELSE late

(* RequestWarmup by the worker itself: nobody to wake.                       *)
AskWarm == warmRequested' = TRUE /\ warmComplete' = FALSE /\ UNCHANGED flushRequested

FlushToDisk ==
  /\ pc = "flush" /\ Hit(IF loadActive THEN "exchange" ELSE "retire")
  /\ UNCHANGED <<reqVars, epochMoved, runVars, late>>

(* An invalid generation with nothing queued is deleted, as is any idle one    *)
(* that EnforceSizeLimit chooses.                                            *)
RetireGeneration(a) ==
  /\ pc = "retire" /\ ~loadActive
  /\ a \in view \ pending
  /\ view' = view \ {a} /\ diskInvalidated' = diskInvalidated \ {a}
  /\ epochMoved' = TRUE /\ changed' = TRUE
  /\ UNCHANGED <<prefaulted, verified, pending, reqVars, gateVars, todo,
                 pc, timedOut, flushSignal, warmSignal, items, item, fromView,
                 events, late>>

(* The queues are snapshot into items; a retirement asks for a warm pass.  An  *)
(* invalid generation that cannot be deleted waits for the next flush.        *)
Plan ==
  /\ pc = "retire"
  /\ \/ (loadActive \/ diskInvalidated \subseteq pending) /\ UNCHANGED events
     \/ MayFail /\ Spend
  /\ items' = pending /\ pending' = {}
  /\ pc' = "append"
  /\ IF changed THEN AskWarm ELSE UNCHANGED reqVars
  /\ changed' = FALSE
  /\ UNCHANGED <<mapVars, gateVars, epochMoved, todo, timedOut,
                 flushSignal, warmSignal, item, fromView, late>>

(* AppendFile writes in chunks, each after a look at the cancel flag.        *)
StartAppend(a) ==
  /\ pc = "append" /\ a \in items
  /\ items' = items \ {a} /\ item' = a
  /\ fromView' = (a \in Usable)
  /\ Hit(IF loadActive THEN "requeue" ELSE "write")
  /\ UNCHANGED <<reqVars, epochMoved, timedOut, flushSignal,
                 warmSignal, changed, late>>

Write ==
  /\ pc = "write" /\ Worked
  /\ Hit("install") \/ Miss("requeue")
  /\ UNCHANGED <<reqVars, epochMoved, runVars>>

Stale == fromView /\ item \notin Usable

(* A new mapping starts cold; its unread entries are not verified.           *)
Install ==
  /\ pc = "install" /\ ~Stale /\ pc' = "append"
  /\ view' = view \cup {item} /\ diskInvalidated' = diskInvalidated \ {item}
  /\ prefaulted' = [prefaulted EXCEPT ![item] = 0]
  /\ verified' = verified \ {item}
  /\ epochMoved' = TRUE /\ changed' = TRUE
  /\ UNCHANGED <<pending, reqVars, gateVars, todo, timedOut,
                 flushSignal, warmSignal, items, item, fromView, events, late>>

Requeue ==
  /\ pc = "requeue" \/ (pc = "install" /\ Stale)
  /\ pc' = "append" /\ pending' = pending \cup {item}
  /\ UNCHANGED <<mapVars, reqVars, gateVars, epochMoved, todo, runVars,
                 events, late>>

(* Faulty variant: a commit does not ask for a warm pass.                    *)
FinishFlushQuietly ==
  /\ pc = "append" /\ items = {} /\ Hit("exchange")
  /\ UNCHANGED <<reqVars, epochMoved, runVars, late>>

FinishFlush ==
  /\ pc = "append" /\ items = {} /\ Hit("exchange")
  /\ IF changed THEN AskWarm ELSE UNCHANGED reqVars
  /\ item' = NoArchive /\ fromView' = FALSE /\ changed' = FALSE
  /\ UNCHANGED <<epochMoved, timedOut, flushSignal, warmSignal, items, late>>

-----------------------------------------------------------------------------
(* Back in the loop, then WarmMappedCaches.                                 *)

ExchangeWarm ==
  /\ pc = "exchange" /\ Hit("gate")
  /\ warmSignal' = (warmSignal \/ warmRequested) /\ warmRequested' = FALSE
  /\ UNCHANGED <<flushRequested, warmComplete, epochMoved, timedOut,
                 flushSignal, items, item, fromView, changed, late>>

Gate ==
  /\ pc = "gate"
  /\ Hit(IF ~loadActive /\ (warmSignal \/ ~warmComplete)
          THEN "snapshot" ELSE "lock")
  /\ epochMoved' = FALSE /\ Again
  /\ UNCHANGED <<reqVars, late>>

(* A failed snapshot takes completion back unless something newer happened.   *)
Snapshot ==
  /\ pc = "snapshot"
  /\ \/ items' = Usable /\ Hit("touch") /\ UNCHANGED reqVars
     \/ /\ Miss("lock") /\ items' = {}
        /\ warmComplete' =
             (warmComplete /\ (epochMoved \/ Requested \/ loadActive \/ stopRequested))
        /\ UNCHANGED <<flushRequested, warmRequested>>
  /\ UNCHANGED <<epochMoved, timedOut, flushSignal, warmSignal, item,
                 fromView, changed, late>>

Interrupted == stopRequested \/ loadActive \/ flushRequested \/ epochMoved
Cold == { a \in items : prefaulted[a] < Chunks }

(* An interrupted pass asks to be run again, unless the worker stops.         *)
Interrupt ==
  /\ \/ pc = "touch" /\ Cold # {}
     \/ pc = "verify" /\ items # {}
  /\ Interrupted /\ Hit("lock")
  /\ IF stopRequested THEN UNCHANGED reqVars ELSE AskWarm
  /\ Again /\ UNCHANGED <<epochMoved, late>>

(* Faulty variant: a pass does not look at the loading screen.               *)
PickChunkInLoad(a) ==
  /\ pc = "touch" /\ a \in Cold
  /\ item' = a /\ Hit("chunk")
  /\ UNCHANGED <<reqVars, epochMoved, timedOut, flushSignal,
                 warmSignal, items, fromView, changed, late>>

PickChunk(a) ==
  /\ pc = "touch" /\ a \in Cold /\ ~Interrupted
  /\ item' = a /\ Hit("chunk")
  /\ UNCHANGED <<reqVars, epochMoved, timedOut, flushSignal,
                 warmSignal, items, fromView, changed, late>>

TouchChunk ==
  /\ pc = "chunk" /\ pc' = "touch" /\ Worked
  /\ prefaulted' = [prefaulted EXCEPT ![item] = @ + 1]
  /\ UNCHANGED <<view, diskInvalidated, verified, pending, reqVars, gateVars,
                 epochMoved, todo, runVars, events>>

(* A page or a checksum fails: ReportMappingIoFailure by the worker.          *)
WarmFails ==
  /\ pc \in {"chunk", "checksum"} /\ MayFail /\ Spend /\ pc' = "lock"
  /\ diskInvalidated' = diskInvalidated \cup {item}
  /\ IF item \in diskInvalidated
     THEN UNCHANGED <<reqVars, epochMoved>>
     ELSE /\ epochMoved' = TRUE /\ flushRequested' = TRUE
          /\ warmRequested' = TRUE /\ warmComplete' = FALSE
  /\ Again
  /\ UNCHANGED <<view, prefaulted, verified, pending, gateVars, todo, late>>

StartVerify ==
  /\ pc = "touch" /\ Cold = {} /\ Hit("verify")
  /\ UNCHANGED <<reqVars, epochMoved, runVars, late>>

(* A mapping that was invalidated meanwhile ends the pass.                   *)
PickItem(a) ==
  /\ pc = "verify" /\ a \in items /\ ~Interrupted
  /\ IF a \in Usable
     THEN /\ items' = items \ {a} /\ item' = a /\ Hit("checksum")
          /\ UNCHANGED <<reqVars, timedOut, flushSignal, warmSignal, fromView, changed>>
     ELSE Hit("lock") /\ AskWarm /\ Again
  /\ UNCHANGED <<epochMoved, late>>

(* The entries of one mapping; an interruption between them ends the loop ...  *)
VerifyEntries ==
  /\ pc = "checksum" /\ pc' = "verifyDone"
  /\ \/ ~Interrupted /\ verified' = verified \cup {item} /\ Worked
     \/ Interrupted /\ UNCHANGED <<verified, late>>
  /\ UNCHANGED <<view, diskInvalidated, prefaulted, pending, reqVars, gateVars,
                 epochMoved, todo, runVars, events>>

(* ... and is looked for once more after it.                                 *)
VerifyDone ==
  /\ pc = "verifyDone"
  /\ \/ ~Interrupted /\ Hit("verify") /\ UNCHANGED <<reqVars, runVars>>
     \/ Interrupted /\ Hit("lock") /\ AskWarm /\ Again
  /\ UNCHANGED <<epochMoved, late>>

LastLook ==
  /\ pc = "verify" /\ items = {}
  /\ IF epochMoved \/ warmRequested
     THEN Hit("lock") /\ AskWarm /\ Again
     ELSE Hit("publish") /\ UNCHANGED <<reqVars, runVars>>
  /\ UNCHANGED <<epochMoved, late>>

(* Faulty variant: completion is published whatever was requested meanwhile.  *)
PublishAnyway ==
  /\ pc = "publish" /\ Hit("lock")
  /\ warmComplete' = TRUE
  /\ Again /\ UNCHANGED <<flushRequested, warmRequested, epochMoved, late>>

PublishComplete ==
  /\ pc = "publish" /\ Hit("lock")
  /\ IF Interrupted \/ warmRequested THEN AskWarm
     ELSE warmComplete' = TRUE /\ UNCHANGED <<flushRequested, warmRequested>>
  /\ Again /\ UNCHANGED <<epochMoved, late>>

-----------------------------------------------------------------------------
WarmMappedCaches ==
  \/ Snapshot \/ Interrupt \/ TouchChunk \/ StartVerify
  \/ VerifyEntries \/ VerifyDone \/ LastLook \/ PublishComplete
  \/ \E a \in Archives : PickChunk(a) \/ PickItem(a)

Flush ==
  \/ FlushToDisk \/ Plan \/ Write \/ Install \/ Requeue \/ FinishFlush
  \/ \E a \in Archives : RetireGeneration(a) \/ StartAppend(a)

Worker ==
  \/ Lock \/ Check \/ Sleep \/ Decide \/ Flush \/ ExchangeWarm \/ Gate \/ WarmMappedCaches

Serve(t) == MoveEpoch(t) \/ RequestFlush(t) \/ RequestWarmup(t) \/ Notify(t)

Step ==
  \/ Worker \/ WarmFails \/ Timeout \/ SpuriousWakeup
  \/ LoadOpens \/ LoadCloses \/ Destroy
  \/ \E t \in Threads : Serve(t)
  \/ \E t \in Readers, a \in Archives :
       \/ ReportMappingIoFailure(t, a)
       \/ \E urgent \in BOOLEAN : RecordDecompressed(t, a, urgent)

Next == Step /\ UNCHANGED conditions

Spec == Init /\ [][Next]_<<conditions, vars>>

(* Threads run and get the mutex, every loading screen closes, the interval    *)
(* elapses if there is one.                                                  *)
Fairness ==
  /\ WF_vars(Worker) /\ SF_vars(Timeout) /\ SF_vars(LoadCloses)
  /\ \A t \in Threads : SF_vars(Serve(t))

FairSpec == Spec /\ Fairness

-----------------------------------------------------------------------------
(* The types of the state the invariants below speak of.                     *)
TypeOK ==
  /\ view \subseteq Archives /\ diskInvalidated \subseteq view
  /\ prefaulted \in [Archives -> 0 .. Chunks] /\ verified \subseteq Archives
  /\ pending \subseteq Archives
  /\ warmComplete \in BOOLEAN /\ loadActive \in BOOLEAN /\ changed \in BOOLEAN
  /\ items \subseteq Archives /\ item \in Archives \cup {NoArchive}
  /\ late \in 0 .. 2
  /\ pc \in {"lock", "check", "doze", "sleep", "exit", "decide", "flush",
             "retire", "append", "write", "install", "requeue", "exchange",
             "gate", "snapshot", "touch", "chunk", "verify", "checksum",
             "verifyDone", "publish"}

AllTouched == \A a \in Usable : prefaulted[a] = Chunks

(* Completion speaks of every mapping in service, except while the worker is   *)
(* between a commit and the end of its flush.                                *)
Committing == pc \in {"append", "write", "install", "requeue"}
CompleteMeansTouched == warmComplete /\ ~Committing => AllTouched

(* README.md: "the plugin waits for both the main menu and generation-specific *)
(* warm completion", so the flag should never speak of an untouched mapping.   *)
GenerationSpecific == warmComplete => AllTouched

(* Completion is announced only when no request, loading screen or shutdown    *)
(* is outstanding that would make it void.                                   *)
AnnouncedWhenCalm ==
  [][~warmComplete /\ warmComplete' =>
       AllTouched /\ ~loadActive /\ ~flushRequested /\ ~warmRequested]_vars

(* After a loading screen opens the worker finishes at most one chunk.        *)
LoadGate == loadActive => late <= 1

(* What keeps the two above: a pass accounts for every mapping in service, and  *)
(* a chunk is started only while no loading screen is open.                  *)
Announced ==
  warmComplete /\ (Committing => ~changed) => AllTouched
Passing ==
  /\ pc \in {"touch", "chunk"} => Usable \subseteq items
  /\ pc \in {"touch", "chunk", "verify", "checksum", "verifyDone"} => items \subseteq view
  /\ pc \in {"verify", "checksum", "verifyDone", "publish"} => AllTouched
AtWork ==
  /\ pc \in {"write", "install", "requeue"} => item \in Archives
  /\ pc = "chunk" => item \in items /\ prefaulted[item] < Chunks
  /\ pc = "checksum" => item \in view
Gated ==
  loadActive => IF pc \in {"write", "chunk", "checksum"} THEN late = 0 ELSE late <= 1
WorkerInv == TypeOK /\ Announced /\ Passing /\ AtWork /\ Gated

(* Without failures the worker ends up with everything warm and announced and   *)
(* no request left, by its wakeups alone: no request waits for the interval.  *)
EventuallyWarm ==
  ~MayFail =>
    <>[]\/ stopRequested
        \/ warmComplete /\ AllTouched /\ ~flushRequested /\ ~warmRequested

(* With the interval, however often commits, pages and deletions fail, every   *)
(* payload is committed, no damaged mapping is left and all else is warm.     *)
EventuallyCommitted ==
  Timer /\ ~MayStop =>
    <>[](pending = {} /\ diskInvalidated = {} /\ warmComplete /\ AllTouched)

(* The destructor is never left waiting for the worker.                      *)
StopEndsWorker == stopRequested ~> pc = "exit"
=============================================================================
