-------------------------------- MODULE LoadGate --------------------------------
(***************************************************************************)
(* The load gate of Skyrim/src/main.cpp: the producers that close it (save    *)
(* messages, the loading menu, the benchmark dispatch), the SKSE messages and *)
(* menu events the engine thread delivers, the benchmark auto-loader thread,  *)
(* and the managed thread that takes the gameplay statistics.                *)
(*                                                                         *)
(* Time is not modelled: an interval may elapse at any moment.               *)
(***************************************************************************)
EXTENDS Naturals, FiniteSets

CONSTANTS
  MaxEvents,       (* bound: loads begun and menus opened or closed           *)
  None

Producers == {"save", "menu", "dispatch"}
Agents == {"engine", "loader"}
Changes == [producer : Producers, on : BOOLEAN, step : {"mask", "hooks", "cache"}]

ASSUME GateAssumption ==
  MaxEvents \in Nat /\ None \notin Agents /\ None \notin Changes

VARIABLES
  measure,         (* bMeasureStats                                          *)
  autoLoad,        (* sBenchmarkAutoLoadSave is not empty                    *)
  tagged,          (* sBenchmarkRunTag is not empty                          *)
  mask,            (* s_loadProducerMask                                     *)
  hooksActive,     (* s_engineLoadActive, read by the hooks without a lock    *)
  cacheActive,     (* m_loadActive, read by the cache worker without a lock   *)
  mutex,           (* s_loadGateMutex: its holder                            *)
  setting,         (* per agent, the SetLoadProducer under way, or None       *)
  menuOpen,        (* the engine shows the loading menu                      *)
  mainMenu,        (* the engine shows the main menu                         *)
  sinkInstalled,   (* LoadMenuSink is registered                             *)
  mainMenuReady,   (* s_mainMenuReady                                        *)
  timed,           (* s_saveLoadTimed                                        *)
  detailed,        (* s_saveLoadMeasured                                     *)
  loading,         (* the engine is between kPreLoadGame and kPostLoadGame    *)
  engine,          (* where the engine thread is in our handlers             *)
  loader,          (* where the auto-loader thread is                        *)
  task,            (* its task waits for the engine thread                   *)
  deadline,        (* GameplaySnapshotScheduler::deadline_ is set             *)
  due,             (* it is still the one the scheduler thread waits for      *)
  summaryPending,  (* GameplaySnapshotScheduler::summaryPending_              *)
  scheduler,       (* where the scheduler thread is                          *)
  events,          (* engine events so far                                   *)
  promised,        (* history: an armed dispatch has not yet become its load   *)
  leaked           (* history: a load left its producer set for good          *)

settings == <<measure, autoLoad, tagged>>
gateVars == <<mask, hooksActive, cacheActive, mutex, setting>>
uiVars == <<menuOpen, mainMenu, sinkInstalled, mainMenuReady>>
saveVars == <<timed, detailed, loading>>
schedVars == <<deadline, due, summaryPending, scheduler>>
history == <<promised, leaked>>
vars == <<settings, gateVars, uiVars, saveVars, engine, loader, task, schedVars,
          events, history>>

Init ==
  /\ measure \in BOOLEAN /\ autoLoad \in BOOLEAN /\ tagged \in BOOLEAN
  /\ mask = {} /\ hooksActive = FALSE /\ cacheActive = FALSE /\ mutex = None
  /\ setting = [a \in Agents |-> None]
  /\ menuOpen \in BOOLEAN /\ mainMenu \in BOOLEAN
  /\ sinkInstalled = FALSE /\ mainMenuReady = FALSE
  /\ timed = FALSE /\ detailed = FALSE /\ loading = FALSE
  /\ engine = "startup" /\ loader = "off" /\ task = FALSE
  /\ deadline = FALSE /\ due = FALSE /\ summaryPending = FALSE
  /\ scheduler = "off"
  /\ events = 0 /\ promised = FALSE /\ leaked = FALSE

-----------------------------------------------------------------------------
(* SetLoadProducer: under the mutex, the mask and, when the gate opens or      *)
(* closes, the flag of the hooks and then the flag of the cache.             *)

Calls(a, p, on) ==
  setting' = [setting EXCEPT ![a] = [producer |-> p, on |-> on, step |-> "mask"]]
Free(a) == setting[a] = None
At(a, step) == setting[a] # None /\ setting[a].step = step

(* Faulty variant: the mutex is not taken.                                   *)
SetMaskUnlocked(a) ==
  /\ At(a, "mask")
  /\ mask' = IF setting[a].on THEN mask \cup {setting[a].producer}
             ELSE mask \ {setting[a].producer}
  /\ IF (mask = {}) = (mask' = {})
     THEN setting' = [setting EXCEPT ![a] = None]
     ELSE setting' = [setting EXCEPT ![a].step = "hooks"]
  /\ UNCHANGED <<hooksActive, cacheActive, mutex>>

SetMask(a) ==
  /\ At(a, "mask") /\ mutex = None
  /\ mask' = IF setting[a].on THEN mask \cup {setting[a].producer}
             ELSE mask \ {setting[a].producer}
  /\ IF (mask = {}) = (mask' = {})
     THEN setting' = [setting EXCEPT ![a] = None] /\ UNCHANGED mutex
     ELSE setting' = [setting EXCEPT ![a].step = "hooks"] /\ mutex' = a
  /\ UNCHANGED <<hooksActive, cacheActive>>

SetHooks(a) ==
  /\ At(a, "hooks")
  /\ hooksActive' = setting[a].on
  /\ setting' = [setting EXCEPT ![a].step = "cache"]
  /\ UNCHANGED <<mask, cacheActive, mutex>>

SetCache(a) ==
  /\ At(a, "cache")
  /\ cacheActive' = setting[a].on
  /\ setting' = [setting EXCEPT ![a] = None] /\ mutex' = None
  /\ UNCHANGED <<mask, hooksActive>>

SetLoadProducer(a) ==
  /\ SetMask(a) \/ SetHooks(a) \/ SetCache(a)
  /\ UNCHANGED <<settings, uiVars, saveVars, engine, loader, task, schedVars,
                 events, history>>

-----------------------------------------------------------------------------
(* GameplaySnapshotScheduler.                                               *)

Schedule ==
  /\ deadline' = TRUE /\ due' = FALSE /\ summaryPending' = FALSE
  /\ scheduler' = IF scheduler = "off" THEN "top" ELSE scheduler

(* Faulty variant: the deadline is left to elapse.                           *)
CancelPending ==
  /\ summaryPending' = FALSE
  /\ scheduler' = IF scheduler = "off" THEN "top" ELSE scheduler
  /\ UNCHANGED <<deadline, due>>

Cancel ==
  /\ deadline' = FALSE /\ due' = FALSE /\ summaryPending' = FALSE
  /\ scheduler' = IF scheduler = "off" THEN "top" ELSE scheduler

RunWait ==
  /\ \/ scheduler = "top"
     \/ scheduler \in {"idle", "timed"} /\ deadline /\ ~due
     \/ scheduler = "timed" /\ ~deadline
  /\ scheduler' = IF deadline THEN "timed" ELSE "idle"
  /\ due' = deadline
  /\ UNCHANGED <<deadline, summaryPending>>

(* The deadline is reached and still the same: decide what to take, unlock.   *)
RunDue ==
  /\ scheduler = "timed" /\ deadline /\ due
  /\ due' = FALSE
  /\ IF summaryPending
     THEN /\ scheduler' = "summary"
          /\ deadline' = FALSE /\ summaryPending' = FALSE
     ELSE /\ scheduler' = "start"
          /\ summaryPending' = TRUE /\ UNCHANGED deadline

RunTaken ==
  /\ scheduler \in {"start", "summary"} /\ scheduler' = "top"
  /\ UNCHANGED <<deadline, due, summaryPending>>

Run ==
  /\ RunWait \/ RunDue \/ RunTaken
  /\ UNCHANGED <<settings, gateVars, uiVars, saveVars, engine, loader, task,
                 events, history>>

-----------------------------------------------------------------------------
(* The engine thread: menu events and SKSE messages.                         *)

EngineFree == engine \in {"startup", "play"} /\ Free("engine")
EngineEvent == EngineFree /\ events < MaxEvents /\ events' = events + 1

(* LoadMenuSink::ProcessEvent. *)
LoadingMenuEvent(opening) ==
  /\ menuOpen # opening /\ menuOpen' = opening
  /\ IF opening THEN EngineEvent ELSE EngineFree /\ UNCHANGED events
  /\ IF sinkInstalled THEN Calls("engine", "menu", opening)
     ELSE UNCHANGED setting
  /\ UNCHANGED <<settings, mask, hooksActive, cacheActive, mutex, mainMenu,
                 sinkInstalled, mainMenuReady, saveVars, engine, loader, task,
                 schedVars, history>>

MainMenuEvent ==
  /\ EngineEvent
  /\ mainMenu' = ~mainMenu
  /\ mainMenuReady' = IF sinkInstalled THEN mainMenu' ELSE mainMenuReady
  /\ UNCHANGED <<settings, gateVars, menuOpen, sinkInstalled, saveVars, engine,
                 loader, task, schedVars, history>>

(* Faulty variant: the loading menu is taken to be closed.                     *)
DataLoadedUnasked ==
  /\ engine = "startup" /\ Free("engine")
  /\ \/ sinkInstalled' = TRUE /\ Calls("engine", "menu", FALSE)
        /\ engine' = "sink"
     \/ engine' = "scheduling" /\ UNCHANGED <<sinkInstalled, setting>>
  /\ UNCHANGED <<settings, mask, hooksActive, cacheActive, mutex, menuOpen,
                 mainMenu, mainMenuReady, saveVars, loader, task, schedVars,
                 events, history>>

(* kDataLoaded: the sink is installed first, then the menus are looked at;     *)
(* without the UI there is no sink.  Then the auto-loader is scheduled.       *)
DataLoaded ==
  /\ engine = "startup" /\ Free("engine")
  /\ \/ sinkInstalled' = TRUE /\ Calls("engine", "menu", menuOpen)
        /\ engine' = "sink"
     \/ engine' = "scheduling" /\ UNCHANGED <<sinkInstalled, setting>>
  /\ UNCHANGED <<settings, mask, hooksActive, cacheActive, mutex, menuOpen,
                 mainMenu, mainMenuReady, saveVars, loader, task, schedVars,
                 events, history>>

PublishMainMenu ==
  /\ engine = "sink" /\ Free("engine") /\ engine' = "scheduling"
  /\ mainMenuReady' = mainMenu
  /\ UNCHANGED <<settings, gateVars, menuOpen, mainMenu, sinkInstalled, saveVars,
                 loader, task, schedVars, events, history>>

ScheduleAutoLoad ==
  /\ engine = "scheduling" /\ engine' = "play"
  /\ loader' = IF autoLoad THEN "poll" ELSE loader
  /\ UNCHANGED <<settings, gateVars, uiVars, saveVars, task, schedVars, events,
                 history>>

(* Faulty variant: the dispatch is released first.                           *)
HandOverReleasing == [pre1 |-> [producer |-> "dispatch", on |-> FALSE],
                      pre2 |-> [producer |-> "save", on |-> TRUE]]

(* kPreLoadGame takes the dispatched load over without opening the gate.      *)
HandOver == [pre1 |-> [producer |-> "save", on |-> TRUE],
             pre2 |-> [producer |-> "dispatch", on |-> FALSE]]

BeginLoad ==
  /\ ~loading /\ loading' = TRUE /\ engine' = "pre1"
  /\ UNCHANGED <<timed, detailed>>

(* The player loads a game. *)
PlayerLoads ==
  /\ engine = "play" /\ EngineEvent /\ BeginLoad
  /\ promised' = FALSE
  /\ UNCHANGED <<settings, gateVars, uiVars, loader, task, schedVars, leaked>>

(* The dispatched task: cancelled outside the main menu or without a manager,  *)
(* or it calls Load, which announces itself with kPreLoadGame unless the       *)
(* engine refuses it silently.                                               *)
RunTask ==
  /\ engine = "play" /\ Free("engine") /\ ~loading
  /\ task /\ task' = FALSE
  /\ \/ /\ Calls("engine", "dispatch", FALSE) /\ promised' = FALSE
        /\ UNCHANGED <<saveVars, engine, leaked>>
     \/ /\ mainMenuReady /\ BeginLoad
        /\ UNCHANGED <<setting, history>>
     \/ /\ mainMenuReady /\ leaked' = TRUE /\ promised' = FALSE
        /\ UNCHANGED <<setting, saveVars, engine>>
  /\ UNCHANGED <<settings, mask, hooksActive, cacheActive, mutex, uiVars, loader,
                 schedVars, events>>

PreLoadGame ==
  /\ engine \in {"pre1", "pre2"} /\ Free("engine")
  /\ Calls("engine", HandOver[engine].producer, HandOver[engine].on)
  /\ engine' = IF engine = "pre1" THEN "pre2" ELSE "pre3"
  /\ UNCHANGED <<settings, mask, hooksActive, cacheActive, mutex, uiVars, saveVars,
                 loader, task, schedVars, events, history>>

(* ... and silences the statistics of the last load.                         *)
LoadTimed ==
  /\ engine = "pre3" /\ Free("engine") /\ engine' = "play"
  /\ detailed' = measure /\ timed' = (measure \/ tagged \/ autoLoad)
  /\ IF timed' THEN Cancel ELSE UNCHANGED schedVars
  /\ promised' = FALSE
  /\ UNCHANGED <<settings, gateVars, uiVars, loading, loader, task, events, leaked>>

(* kPostLoadGame: the producer is released when the statistics are taken,      *)
(* which an exception prevents; the next ones are scheduled after it.         *)
PostLoadGame ==
  /\ engine = "play" /\ Free("engine") /\ loading
  /\ loading' = FALSE /\ timed' = FALSE /\ detailed' = (detailed /\ ~timed)
  /\ \/ /\ Calls("engine", "save", FALSE)
        /\ engine' = IF timed /\ detailed THEN "post" ELSE "play"
        /\ UNCHANGED leaked
     \/ /\ timed /\ leaked' = TRUE
        /\ UNCHANGED <<setting, engine>>
  /\ UNCHANGED <<settings, mask, hooksActive, cacheActive, mutex, uiVars, loader,
                 task, schedVars, events, promised>>

ScheduleSnapshot ==
  /\ engine = "post" /\ Free("engine") /\ engine' = "play"
  /\ Schedule
  /\ UNCHANGED <<settings, gateVars, uiVars, saveVars, loader, task, events, history>>

-----------------------------------------------------------------------------
(* BenchmarkAutoLoader.                                                     *)

(* Main menu and cache are ready.                                            *)
Poll ==
  /\ loader = "poll" /\ mainMenuReady /\ loader' = "settle"
  /\ UNCHANGED <<settings, gateVars, uiVars, saveVars, engine, task, schedVars,
                 events, history>>

GiveUp ==
  /\ loader \in {"poll", "settle"} /\ loader' = "done"
  /\ UNCHANGED <<settings, gateVars, uiVars, saveVars, engine, task, schedVars,
                 events, history>>

(* Still the main menu after the settle interval: the gate is closed for the  *)
(* checkpoint.  A load of the player's that is just now taking over a dispatch *)
(* takes this one over too.                                                  *)
Arm ==
  /\ loader = "settle" /\ mainMenuReady /\ loader' = "checkpoint"
  /\ Calls("loader", "dispatch", TRUE)
  /\ promised' = (engine \notin {"pre1", "pre2", "pre3"})
  /\ UNCHANGED <<settings, mask, hooksActive, cacheActive, mutex, uiVars, saveVars,
                 engine, task, schedVars, events, leaked>>

Checkpoint ==
  /\ loader = "checkpoint" /\ Free("loader") /\ loader' = "quiet"
  /\ UNCHANGED <<settings, gateVars, uiVars, saveVars, engine, task, schedVars,
                 events, history>>

(* Faulty variant: a cancelled dispatch keeps its producer.                   *)
CancelDispatchSilently ==
  /\ loader = "quiet" /\ loader' = "done"
  /\ promised' = FALSE
  /\ UNCHANGED <<settings, gateVars, uiVars, saveVars, engine, task, schedVars,
                 events, leaked>>

(* The main menu is gone, the deadline has passed, the plugin stops, there is  *)
(* no task interface, or an exception was thrown.                            *)
CancelDispatch ==
  /\ loader = "quiet" /\ loader' = "done"
  /\ promised' = FALSE
  /\ Calls("loader", "dispatch", FALSE)
  /\ UNCHANGED <<settings, mask, hooksActive, cacheActive, mutex, uiVars, saveVars,
                 engine, task, schedVars, events, leaked>>

AddTask ==
  /\ loader = "quiet" /\ loader' = "done"
  /\ task' = TRUE
  /\ UNCHANGED <<settings, gateVars, uiVars, saveVars, engine, schedVars, events,
                 history>>

-----------------------------------------------------------------------------
Engine ==
  \/ DataLoaded \/ PublishMainMenu \/ ScheduleAutoLoad
  \/ RunTask \/ PreLoadGame \/ LoadTimed \/ PostLoadGame \/ ScheduleSnapshot
  \/ LoadingMenuEvent(FALSE)

Loader == Poll \/ GiveUp \/ Arm \/ Checkpoint \/ CancelDispatch \/ AddTask

Next ==
  \/ Engine \/ Loader \/ Run
  \/ LoadingMenuEvent(TRUE) \/ MainMenuEvent \/ PlayerLoads
  \/ \E a \in Agents : SetLoadProducer(a)

Spec == Init /\ [][Next]_vars

(* Threads run; the engine finishes its loads, closes its loading menus and    *)
(* runs the tasks it was given.                                              *)
FairSpec ==
  /\ Spec
  /\ WF_vars(Loader) /\ SF_vars(LoadingMenuEvent(FALSE)) /\ SF_vars(PostLoadGame)
  /\ SF_vars(RunTask) /\ WF_vars(Engine)
  /\ \A a \in Agents : SF_vars(SetLoadProducer(a))

-----------------------------------------------------------------------------
(* Type invariant, and the discipline of the mutex: only its holder is inside. *)
TypeOK ==
  /\ measure \in BOOLEAN /\ autoLoad \in BOOLEAN /\ tagged \in BOOLEAN
  /\ mask \subseteq Producers
  /\ hooksActive \in BOOLEAN /\ cacheActive \in BOOLEAN
  /\ mutex \in Agents \cup {None}
  /\ setting \in [Agents -> Changes \cup {None}]
  /\ menuOpen \in BOOLEAN /\ mainMenu \in BOOLEAN
  /\ sinkInstalled \in BOOLEAN /\ mainMenuReady \in BOOLEAN
  /\ timed \in BOOLEAN /\ detailed \in BOOLEAN /\ loading \in BOOLEAN
  /\ engine \in {"startup", "sink", "scheduling", "play", "pre1", "pre2", "pre3",
                 "post"}
  /\ loader \in {"off", "poll", "settle", "checkpoint", "quiet", "done"}
  /\ task \in BOOLEAN
  /\ deadline \in BOOLEAN /\ due \in BOOLEAN /\ summaryPending \in BOOLEAN
  /\ scheduler \in {"off", "top", "idle", "timed", "start", "summary"}
  /\ \A a \in Agents : At(a, "hooks") \/ At(a, "cache") => mutex = a
  /\ events \in 0 .. MaxEvents
  /\ promised \in BOOLEAN /\ leaked \in BOOLEAN

Shut == mask # {} /\ hooksActive /\ cacheActive

(* Outside SetLoadProducer the two flags say what the mask says.              *)
FlagsAgree ==
  (\A a \in Agents : Free(a) \/ At(a, "mask")) =>
    (mask # {}) = hooksActive /\ (mask # {}) = cacheActive

(* The state is well formed and the three stores of a change agree.            *)
GateInv == TypeOK /\ FlagsAgree

(* Between kPreLoadGame and kPostLoadGame hooks and cache see the gate closed, *)
(* whatever menus and the auto-loader do: "one close event cannot incorrectly *)
(* clear another active load gate" (AUDIT.md).                               *)
LoadGated == loading /\ engine = "play" => "save" \in mask /\ Shut

(* While a loading menu is up they see it closed, also when the menu opened    *)
(* before the sink was installed.                                            *)
MenuGated ==
  sinkInstalled /\ menuOpen /\ EngineFree => "menu" \in mask /\ Shut

(* The gate is closed for as long as a load runs or a loading menu is up.      *)
Gated == LoadGated /\ MenuGated

(* Once the auto-loader has closed the gate for its checkpoint, the gate does   *)
(* not open before the load it dispatches has taken it over, unless a load of *)
(* the player's comes between: kPreLoadGame "hands this producer off without  *)
(* exposing an ungated window".                                              *)
GapClosed == promised /\ Free("loader") => Shut

(* No statistics are begun while a timed load runs.                          *)
QuietDuringLoad ==
  [][scheduler = "timed" /\ scheduler' \in {"start", "summary"} =>
       ~(loading /\ timed)]_vars

(* The gate does not stay closed, unless the statistics of a load threw or     *)
(* the engine refused a dispatched load without a message.                   *)
Reopens == <>[](mask = {} /\ ~hooksActive /\ ~cacheActive) \/ <>leaked
=============================================================================
