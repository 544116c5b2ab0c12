----------------------------- MODULE LoadGateProofs -----------------------------
(***************************************************************************)
(* The gate of LoadGate for any number of engine events: the inductive        *)
(* invariant of the mutex, of the three producers and of the timed load.      *)
(***************************************************************************)
EXTENDS LoadGate, TLAPS

(* The mutex and the three stores it covers: the mask has changed, the flags    *)
(* follow in their order.                                                    *)
MutexInv ==
  /\ \A a \in Agents :
       /\ (mutex = a) <=> (At(a, "hooks") \/ At(a, "cache"))
       /\ At(a, "hooks") \/ At(a, "cache") =>
            /\ setting[a].on => mask = {setting[a].producer}
            /\ ~setting[a].on => mask = {}
            /\ cacheActive = ~setting[a].on
       /\ At(a, "hooks") => hooksActive = ~setting[a].on
       /\ At(a, "cache") => hooksActive = setting[a].on
  /\ mutex = None => (hooksActive <=> mask # {}) /\ (cacheActive <=> mask # {})

(* Agent a is in the middle of setting or releasing producer p.                *)
Changing(a, p) == setting[a] # None /\ setting[a].producer = p

(* A load keeps its producer from the first call of kPreLoadGame on.            *)
SaveInv ==
  /\ engine \in {"startup", "sink", "scheduling", "post"} => ~loading
  /\ engine \in {"pre1", "pre2", "pre3"} => loading
  /\ engine = "pre1" => Free("engine")
  /\ engine = "pre2" /\ ~Free("engine") =>
       setting["engine"].producer = "save" /\ setting["engine"].on
  /\ loading /\ Changing("engine", "save") => engine = "pre2"
  /\ loading /\ engine # "pre1" =>
       "save" \in mask \/ Changing("engine", "save")

(* The producer of the menu is set while the menu is up.                       *)
MenuInv ==
  /\ Changing("engine", "menu") => setting["engine"].on = menuOpen
  /\ sinkInstalled /\ menuOpen =>
       "menu" \in mask \/ Changing("engine", "menu")

(* An armed dispatch keeps its producer until its load has its own.            *)
DispatchInv ==
  /\ engine \in {"startup", "sink", "scheduling"} => loader = "off"
  /\ setting["loader"] # None =>
       /\ setting["loader"].producer = "dispatch"
       /\ loader \in {"checkpoint", "done"}
  /\ Changing("engine", "dispatch") =>
       /\ ~setting["engine"].on
       /\ engine # "pre3" => loader = "done" /\ ~promised
  /\ task => loader = "done"
  /\ promised =>
       /\ loader \in {"checkpoint", "quiet", "done"}
       /\ setting["loader"] # None => setting["loader"].on
       /\ "dispatch" \in mask \/ setting["loader"] # None \/ engine = "pre3"

(* A timed load has cancelled the statistics of the one before.               *)
TimedInv == timed => loading /\ engine = "play" /\ ~deadline

IInv == TypeOK /\ MutexInv /\ SaveInv /\ MenuInv /\ DispatchInv /\ TimedInv

-----------------------------------------------------------------------------
LEMMA InitInv == Init => IInv
<1> SUFFICES ASSUME Init PROVE IInv
  OBVIOUS
<1>1. TypeOK
  <2>1. setting \in [Agents -> Changes \cup {None}] /\ \A a \in Agents : setting[a] = None
    BY DEF Init
  <2>2. 0 \in 0 .. MaxEvents
    BY GateAssumption
  <2> QED
    BY <2>1, <2>2 DEF Init, TypeOK, At
<1>2. MutexInv
  BY GateAssumption DEF Init, MutexInv, Agents, At
<1>3. SaveInv /\ MenuInv /\ DispatchInv /\ TimedInv
  BY DEF Init, SaveInv, MenuInv, DispatchInv, TimedInv, Changing, Free, Agents
<1> QED
  BY <1>1, <1>2, <1>3 DEF IInv

(* SetLoadProducer.                                                          *)
LEMMA MaskSet ==
  ASSUME IInv, NEW a \in Agents, SetMask(a),
         UNCHANGED <<settings, uiVars, saveVars, engine, loader, task, schedVars,
                     events, history>>
  PROVE  IInv'
<1> DEFINE c == setting[a]
           d == [c EXCEPT !.step = "hooks"]
<1>1. /\ c \in Changes /\ c # None /\ c.step = "mask" /\ mutex = None
      /\ mask' = IF c.on THEN mask \cup {c.producer} ELSE mask \ {c.producer}
  BY GateAssumption DEF SetMask, At, IInv, TypeOK
<1>2. \/ /\ (mask = {}) = (mask' = {})
         /\ setting' = [setting EXCEPT ![a] = None] /\ mutex' = None
      \/ /\ (mask = {}) # (mask' = {}) /\ mutex' = a
         /\ setting' = [setting EXCEPT ![a] = d]
  BY <1>1 DEF SetMask
<1>3. UNCHANGED <<hooksActive, cacheActive>>
  BY DEF SetMask
<1>0. /\ d \in Changes /\ d # None
      /\ d.producer = c.producer /\ d.on = c.on /\ d.step = "hooks"
  BY <1>1, GateAssumption DEF Changes
<1> HIDE DEF c, d
<1>4. TypeOK'
  <2>1. mask' \subseteq Producers /\ mutex' \in Agents \cup {None}
        /\ setting' \in [Agents -> Changes \cup {None}]
    BY <1>1, <1>2, <1>0 DEF IInv, TypeOK, Changes
  <2>2. ASSUME NEW b \in Agents, At(b, "hooks")' \/ At(b, "cache")'
        PROVE  mutex' = b
    BY <1>1, <1>2, <1>0, <2>2 DEF IInv, TypeOK, MutexInv, At, c
  <2> QED
    BY <2>1, <2>2, <1>3 DEF IInv, TypeOK, settings, uiVars, saveVars, schedVars, history
<1>5. MutexInv'
  BY <1>1, <1>2, <1>0, <1>3, GateAssumption DEF IInv, TypeOK, Changes, MutexInv, Agents, At, c
<1>6. SaveInv'
  BY <1>1, <1>2, <1>0, GateAssumption DEF IInv, TypeOK, Changes, SaveInv, DispatchInv, Agents,
    Changing, Free, c, uiVars, saveVars
<1>7. MenuInv'
  BY <1>1, <1>2, <1>0, GateAssumption DEF IInv, TypeOK, Changes, MenuInv, DispatchInv, Agents,
    Changing, Free, c, uiVars, saveVars
<1>8. DispatchInv'
  BY <1>1, <1>2, <1>0, GateAssumption DEF IInv, TypeOK, Changes, DispatchInv, Agents,
    Changing, Free, c, uiVars, saveVars, history
<1>9. TimedInv'
  BY DEF IInv, TimedInv, saveVars, schedVars
<1> QED
  BY <1>4, <1>5, <1>6, <1>7, <1>8, <1>9 DEF IInv

LEMMA FlagsSet ==
  ASSUME IInv, NEW a \in Agents, SetHooks(a) \/ SetCache(a),
         UNCHANGED <<settings, uiVars, saveVars, engine, loader, task, schedVars,
                     events, history>>
  PROVE  IInv'
<1> DEFINE c == setting[a]
           d == [c EXCEPT !.step = "cache"]
<1>1. /\ c \in Changes /\ c # None /\ c.step \in {"hooks", "cache"} /\ mutex = a
      /\ c.on => mask = {c.producer}
      /\ ~c.on => mask = {}
  BY GateAssumption DEF SetHooks, SetCache, At, IInv, TypeOK, MutexInv
<1>2. \/ /\ c.step = "hooks" /\ hooksActive' = c.on
         /\ setting' = [setting EXCEPT ![a] = d] /\ UNCHANGED <<cacheActive, mutex>>
      \/ /\ c.step = "cache" /\ cacheActive' = c.on
         /\ setting' = [setting EXCEPT ![a] = None] /\ mutex' = None
         /\ UNCHANGED hooksActive
  BY DEF SetHooks, SetCache, At
<1>3. mask' = mask
  BY DEF SetHooks, SetCache
<1>4. /\ d \in Changes /\ d # None
      /\ d.producer = c.producer /\ d.on = c.on /\ d.step = "cache"
  BY <1>1, GateAssumption DEF Changes
<1> HIDE DEF c, d
<1>5. TypeOK'
  <2>1. setting' \in [Agents -> Changes \cup {None}]
    BY <1>1, <1>2, <1>4 DEF IInv, TypeOK, Changes
  <2>2. /\ mutex' \in Agents \cup {None}
        /\ hooksActive' \in BOOLEAN /\ cacheActive' \in BOOLEAN
    BY <1>1, <1>2 DEF IInv, TypeOK, Changes
  <2>3. ASSUME NEW b \in Agents, At(b, "hooks")' \/ At(b, "cache")'
        PROVE  mutex' = b
    BY <1>1, <1>2, <1>4, <2>3 DEF IInv, TypeOK, MutexInv, At, c
  <2> QED
    BY <2>1, <2>2, <2>3, <1>3
    DEF IInv, TypeOK, settings, uiVars, saveVars, schedVars, history
<1>6. MutexInv'
  BY <1>1, <1>2, <1>3, <1>4, GateAssumption
  DEF IInv, TypeOK, Changes, MutexInv, Agents, At, c
<1>7. SaveInv'
  BY <1>1, <1>2, <1>3, <1>4, GateAssumption
  DEF IInv, TypeOK, Changes, SaveInv, DispatchInv, Agents, Changing, Free, c, uiVars, saveVars
<1>8. MenuInv'
  BY <1>1, <1>2, <1>3, <1>4, GateAssumption
  DEF IInv, TypeOK, Changes, MenuInv, DispatchInv, Agents, Changing, Free, c, uiVars, saveVars
<1>9. DispatchInv' /\ TimedInv'
  BY <1>1, <1>2, <1>3, <1>4, GateAssumption
  DEF IInv, TypeOK, Changes, DispatchInv, TimedInv, Agents, Changing, Free, c, uiVars, saveVars,
      schedVars, history
<1> QED
  BY <1>5, <1>6, <1>7, <1>8, <1>9 DEF IInv

-----------------------------------------------------------------------------
(* Everybody else leaves the mask, the flags and the mutex alone and at most    *)
(* begins a call of an agent that has none.                                  *)
Begins ==
  \E a \in Agents, p \in Producers, on \in BOOLEAN : Free(a) /\ Calls(a, p, on)

LEMMA GateKept ==
  ASSUME TypeOK, MutexInv, UNCHANGED <<mask, hooksActive, cacheActive, mutex>>,
         setting' = setting \/ Begins
  PROVE  /\ MutexInv' /\ setting' \in [Agents -> Changes \cup {None}]
         /\ \A a \in Agents : At(a, "hooks")' \/ At(a, "cache")' => mutex' = a
<1>1. CASE setting' = setting
  BY <1>1 DEF TypeOK, MutexInv, At
<1>2. CASE Begins
  <2>1. PICK a \in Agents, p \in Producers, on \in BOOLEAN : Free(a) /\ Calls(a, p, on)
    BY <1>2 DEF Begins
  <2> DEFINE d == [producer |-> p, on |-> on, step |-> "mask"]
  <2>2. d \in Changes /\ d # None /\ d.step = "mask"
    BY GateAssumption DEF Changes
  <2>3. setting[a] = None /\ setting' = [setting EXCEPT ![a] = d]
    BY <2>1 DEF Free, Calls
  <2> HIDE DEF d
  <2>4. setting' \in [Agents -> Changes \cup {None}]
    BY <2>2, <2>3 DEF TypeOK
  <2>5. \A b \in Agents : (At(b, "hooks")' <=> At(b, "hooks"))
                          /\ (At(b, "cache")' <=> At(b, "cache"))
                          /\ (At(b, "hooks") \/ At(b, "cache") => setting'[b] = setting[b])
    BY <2>2, <2>3 DEF TypeOK, At
  <2> QED
    BY <2>4, <2>5 DEF TypeOK, MutexInv
<1> QED
  BY <1>1, <1>2

LEMMA Called ==
  ASSUME TypeOK, NEW a \in Agents, NEW p \in Producers, NEW on \in BOOLEAN,
         Free(a), Calls(a, p, on)
  PROVE  /\ Begins
         /\ setting'[a] # None /\ setting'[a].producer = p /\ setting'[a].on = on
         /\ \A b \in Agents \ {a} : setting'[b] = setting[b]
<1> DEFINE d == [producer |-> p, on |-> on, step |-> "mask"]
<1>1. d # None /\ d.producer = p /\ d.on = on
  BY GateAssumption DEF Changes
<1>2. setting' = [setting EXCEPT ![a] = d]
  BY DEF Calls
<1>3. Begins
  BY DEF Begins
<1> HIDE DEF d
<1> QED
  BY <1>1, <1>2, <1>3 DEF TypeOK

(* The types of what is not the gate's. *)
OtherTypes ==
  /\ measure \in BOOLEAN /\ autoLoad \in BOOLEAN /\ tagged \in BOOLEAN
  /\ menuOpen \in BOOLEAN /\ mainMenu \in BOOLEAN
  /\ sinkInstalled \in BOOLEAN /\ mainMenuReady \in BOOLEAN
  /\ timed \in BOOLEAN /\ detailed \in BOOLEAN /\ loading \in BOOLEAN
  /\ engine \in {"startup", "sink", "scheduling", "play", "pre1", "pre2", "pre3",
                 "post"}
  /\ loader \in {"off", "poll", "settle", "checkpoint", "quiet", "done"}
  /\ task \in BOOLEAN
  /\ deadline \in BOOLEAN /\ due \in BOOLEAN /\ summaryPending \in BOOLEAN
  /\ scheduler \in {"off", "top", "idle", "timed", "start", "summary"}
  /\ events \in 0 .. MaxEvents
  /\ promised \in BOOLEAN /\ leaked \in BOOLEAN

LEMMA Rest ==
  ASSUME IInv, UNCHANGED <<mask, hooksActive, cacheActive, mutex>>,
         setting' = setting \/ Begins,
         OtherTypes', (SaveInv /\ MenuInv /\ DispatchInv /\ TimedInv)'
  PROVE  IInv'
<1>1. /\ MutexInv' /\ setting' \in [Agents -> Changes \cup {None}]
      /\ \A a \in Agents : At(a, "hooks")' \/ At(a, "cache")' => mutex' = a
  BY GateKept DEF IInv
<1>2. TypeOK'
  BY <1>1 DEF IInv, TypeOK, OtherTypes
<1> QED
  BY <1>1, <1>2 DEF IInv

(* The menus and the start of the game.                                      *)
LEMMA MenusKeep ==
  ASSUME IInv, LoadingMenuEvent(TRUE) \/ LoadingMenuEvent(FALSE) \/ MainMenuEvent
  PROVE  IInv'
<1> USE DEF EngineEvent, EngineFree, settings, saveVars, schedVars, history
<1>1. CASE MainMenuEvent
  <2>0. /\ mainMenu' \in BOOLEAN /\ mainMenuReady' \in {mainMenu', mainMenuReady}
        /\ events' \in 0 .. MaxEvents
    <3>1. mainMenu' = ~mainMenu
      BY <1>1 DEF MainMenuEvent
    <3>2. mainMenuReady' \in {mainMenu', mainMenuReady}
      BY <1>1, Zenon DEF MainMenuEvent
    <3>3. events' \in 0 .. MaxEvents
      BY <1>1, GateAssumption, SMT DEF MainMenuEvent, IInv, TypeOK
    <3> QED
      BY <3>1, <3>2, <3>3
  <2>1. OtherTypes'
    <3>1. mainMenuReady' \in BOOLEAN
      BY <2>0 DEF IInv, TypeOK
    <3>2. UNCHANGED <<settings, menuOpen, sinkInstalled, saveVars, engine, loader, task,
                      schedVars, history>>
      BY <1>1 DEF MainMenuEvent
    <3> QED
      BY <2>0, <3>1, <3>2 DEF IInv, TypeOK, OtherTypes
  <2>2. (SaveInv /\ MenuInv /\ DispatchInv /\ TimedInv)'
    BY <1>1 DEF MainMenuEvent, gateVars, IInv, SaveInv, MenuInv, DispatchInv, TimedInv,
                Changing, Free
  <2> QED
    BY <1>1, <2>1, <2>2, Rest DEF MainMenuEvent, gateVars
<1>2. ASSUME NEW opening \in BOOLEAN, LoadingMenuEvent(opening)
      PROVE  IInv'
  <2>1. OtherTypes'
    BY <1>2, GateAssumption DEF LoadingMenuEvent, IInv, TypeOK, OtherTypes
  <2>2. Free("engine") /\ "engine" \in Agents /\ "menu" \in Producers /\ TypeOK
    BY <1>2 DEF LoadingMenuEvent, Agents, Producers, IInv
  <2>3. CASE sinkInstalled
    <3>1. Calls("engine", "menu", opening)
      BY <1>2, <2>3 DEF LoadingMenuEvent
    <3>2. /\ Begins /\ setting'["engine"] # None
          /\ setting'["engine"].producer = "menu" /\ setting'["engine"].on = opening
          /\ setting'["loader"] = setting["loader"]
      BY <2>2, <3>1, Called DEF Agents
    <3>3. (SaveInv /\ MenuInv /\ DispatchInv /\ TimedInv)'
      BY <1>2, <2>2, <3>2 DEF LoadingMenuEvent, IInv, SaveInv, MenuInv, DispatchInv,
         TimedInv, Changing, Free
    <3> QED
      BY <1>2, <2>1, <3>2, <3>3, Rest DEF LoadingMenuEvent
  <2>4. CASE ~sinkInstalled
    <3>1. (SaveInv /\ MenuInv /\ DispatchInv /\ TimedInv)'
      BY <1>2, <2>2, <2>4 DEF LoadingMenuEvent, IInv, SaveInv, MenuInv, DispatchInv,
         TimedInv, Changing, Free
    <3> QED
      BY <1>2, <2>1, <2>4, <3>1, Rest DEF LoadingMenuEvent
  <2> QED
    BY <2>3, <2>4 DEF IInv, TypeOK
<1> QED
  BY <1>1, <1>2

(* Steps that call nobody.                                                   *)
LEMMA SilentKeep ==
  ASSUME IInv,
         \/ PublishMainMenu \/ ScheduleAutoLoad \/ PlayerLoads \/ LoadTimed
         \/ ScheduleSnapshot \/ Poll \/ GiveUp \/ Checkpoint \/ AddTask \/ Run
  PROVE  IInv'
<1> USE DEF settings, gateVars, uiVars, saveVars, schedVars, history
<1>1. CASE PublishMainMenu
  <2>1. OtherTypes'
    BY <1>1 DEF PublishMainMenu, IInv, TypeOK, OtherTypes
  <2>2. (SaveInv /\ MenuInv /\ DispatchInv /\ TimedInv)'
    BY <1>1 DEF PublishMainMenu, IInv, SaveInv, MenuInv, DispatchInv,
       TimedInv, Changing, Free
  <2> QED
    BY <1>1, <2>1, <2>2, Rest DEF PublishMainMenu
<1>2. CASE ScheduleAutoLoad
  <2>1. OtherTypes'
    BY <1>2 DEF ScheduleAutoLoad, IInv, TypeOK, OtherTypes
  <2>2. (SaveInv /\ MenuInv /\ DispatchInv /\ TimedInv)'
    BY <1>2 DEF ScheduleAutoLoad, IInv, SaveInv, MenuInv, DispatchInv,
       TimedInv, Changing, Free
  <2> QED
    BY <1>2, <2>1, <2>2, Rest DEF ScheduleAutoLoad
<1>3. CASE PlayerLoads
  <2>1. OtherTypes'
    <3>1. events' \in 0 .. MaxEvents
      BY <1>3, GateAssumption DEF PlayerLoads, EngineEvent, IInv, TypeOK
    <3>2. /\ loading' \in BOOLEAN /\ engine' = "pre1" /\ promised' \in BOOLEAN
          /\ UNCHANGED <<settings, uiVars, timed, detailed, loader, task, schedVars, leaked>>
      BY <1>3 DEF PlayerLoads, BeginLoad
    <3> QED
      BY <3>1, <3>2 DEF IInv, TypeOK, OtherTypes
  <2>2. (SaveInv /\ MenuInv /\ DispatchInv /\ TimedInv)'
    BY <1>3 DEF PlayerLoads, EngineEvent, EngineFree, BeginLoad, IInv, SaveInv, MenuInv, DispatchInv,
       TimedInv, Changing, Free
  <2> QED
    BY <1>3, <2>1, <2>2, Rest DEF PlayerLoads
<1>4. CASE LoadTimed
  <2>1. OtherTypes'
    <3>1. /\ deadline' \in BOOLEAN /\ due' \in BOOLEAN /\ summaryPending' \in BOOLEAN
          /\ scheduler' \in {"top", scheduler}
      BY <1>4 DEF LoadTimed, Cancel, IInv, TypeOK
    <3>2. /\ engine' = "play" /\ detailed' \in BOOLEAN /\ timed' \in BOOLEAN
          /\ promised' \in BOOLEAN
      BY <1>4 DEF LoadTimed, IInv, TypeOK
    <3>3. UNCHANGED <<settings, uiVars, loading, loader, task, events, leaked>>
      BY <1>4 DEF LoadTimed
    <3>4. scheduler' \in {"off", "top", "idle", "timed", "start", "summary"}
      BY <3>1 DEF IInv, TypeOK
    <3> QED
      BY <3>1, <3>2, <3>3, <3>4 DEF IInv, TypeOK, OtherTypes
  <2>2. (SaveInv /\ MenuInv /\ DispatchInv /\ TimedInv)'
    BY <1>4 DEF LoadTimed, Cancel, IInv, SaveInv, MenuInv, DispatchInv,
       TimedInv, Changing, Free
  <2> QED
    BY <1>4, <2>1, <2>2, Rest DEF LoadTimed
<1>5. CASE ScheduleSnapshot
  <2>1. OtherTypes'
    <3>1. /\ deadline' \in BOOLEAN /\ due' \in BOOLEAN /\ summaryPending' \in BOOLEAN
          /\ scheduler' \in {"top", scheduler} /\ engine' = "play"
      BY <1>5 DEF ScheduleSnapshot, Schedule
    <3>2. UNCHANGED <<settings, uiVars, saveVars, loader, task, events, history>>
      BY <1>5 DEF ScheduleSnapshot
    <3>3. scheduler' \in {"off", "top", "idle", "timed", "start", "summary"}
      BY <3>1 DEF IInv, TypeOK
    <3> QED
      BY <3>1, <3>2, <3>3 DEF IInv, TypeOK, OtherTypes
  <2>2. (SaveInv /\ MenuInv /\ DispatchInv /\ TimedInv)'
    BY <1>5 DEF ScheduleSnapshot, Schedule, IInv, SaveInv, MenuInv, DispatchInv,
       TimedInv, Changing, Free
  <2> QED
    BY <1>5, <2>1, <2>2, Rest DEF ScheduleSnapshot
<1>6. CASE Poll
  <2>1. OtherTypes'
    BY <1>6 DEF Poll, IInv, TypeOK, OtherTypes
  <2>2. (SaveInv /\ MenuInv /\ DispatchInv /\ TimedInv)'
    BY <1>6 DEF Poll, IInv, SaveInv, MenuInv, DispatchInv,
       TimedInv, Changing, Free
  <2> QED
    BY <1>6, <2>1, <2>2, Rest DEF Poll
<1>7. CASE GiveUp
  <2>1. OtherTypes'
    BY <1>7 DEF GiveUp, IInv, TypeOK, OtherTypes
  <2>2. (SaveInv /\ MenuInv /\ DispatchInv /\ TimedInv)'
    BY <1>7 DEF GiveUp, IInv, SaveInv, MenuInv, DispatchInv,
       TimedInv, Changing, Free
  <2> QED
    BY <1>7, <2>1, <2>2, Rest DEF GiveUp
<1>8. CASE Checkpoint
  <2>1. OtherTypes'
    BY <1>8 DEF Checkpoint, IInv, TypeOK, OtherTypes
  <2>2. (SaveInv /\ MenuInv /\ DispatchInv /\ TimedInv)'
    BY <1>8 DEF Checkpoint, IInv, SaveInv, MenuInv, DispatchInv,
       TimedInv, Changing, Free
  <2> QED
    BY <1>8, <2>1, <2>2, Rest DEF Checkpoint
<1>9. CASE AddTask
  <2>1. OtherTypes'
    BY <1>9 DEF AddTask, IInv, TypeOK, OtherTypes
  <2>2. (SaveInv /\ MenuInv /\ DispatchInv /\ TimedInv)'
    BY <1>9 DEF AddTask, IInv, SaveInv, MenuInv, DispatchInv,
       TimedInv, Changing, Free
  <2> QED
    BY <1>9, <2>1, <2>2, Rest DEF AddTask
<1>10. CASE Run
  <2>1. OtherTypes'
    <3>1. /\ deadline' \in BOOLEAN /\ due' \in BOOLEAN /\ summaryPending' \in BOOLEAN
          /\ scheduler' \in {"off", "top", "idle", "timed", "start", "summary"}
      <4>1. CASE RunWait
        BY <4>1 DEF RunWait, IInv, TypeOK
      <4>2. CASE RunDue
        BY <4>2 DEF RunDue, IInv, TypeOK
      <4>3. CASE RunTaken
        BY <4>3 DEF RunTaken, IInv, TypeOK
      <4> QED
        BY <1>10, <4>1, <4>2, <4>3 DEF Run
    <3> QED
      BY <1>10, <3>1 DEF Run, IInv, TypeOK, OtherTypes
  <2>2. (SaveInv /\ MenuInv /\ DispatchInv /\ TimedInv)'
    BY <1>10 DEF Run, RunWait, RunDue, RunTaken, IInv, SaveInv, MenuInv, DispatchInv,
       TimedInv, Changing, Free
  <2> QED
    BY <1>10, <2>1, <2>2, Rest DEF Run
<1> QED
  BY <1>1, <1>2, <1>3, <1>4, <1>5, <1>6, <1>7, <1>8, <1>9, <1>10

(* Steps that call SetLoadProducer.                                          *)
LEMMA CallersKeep ==
  ASSUME IInv,
         DataLoaded \/ RunTask \/ PreLoadGame \/ PostLoadGame \/ Arm \/ CancelDispatch
  PROVE  IInv'
<1> USE DEF settings, gateVars, uiVars, saveVars, schedVars, history
<1>0. /\ TypeOK /\ "engine" \in Agents /\ "loader" \in Agents
      /\ {"save", "menu", "dispatch"} \subseteq Producers
      /\ TRUE \in BOOLEAN /\ FALSE \in BOOLEAN
  BY DEF IInv, Agents, Producers
<1>1. CASE DataLoaded
  <2>1. OtherTypes'
    <3>1. sinkInstalled' \in BOOLEAN /\ engine' \in {"sink", "scheduling"}
      BY <1>0, <1>1 DEF DataLoaded, TypeOK
    <3>2. UNCHANGED <<settings, menuOpen, mainMenu, mainMenuReady, saveVars, loader, task,
                      schedVars, events, history>>
      BY <1>1 DEF DataLoaded
    <3> QED
      BY <1>0, <3>1, <3>2 DEF TypeOK, OtherTypes
  <2>2. CASE /\ sinkInstalled' = TRUE /\ Calls("engine", "menu", menuOpen)
             /\ engine' = "sink"
    <3>1. /\ Begins /\ setting'["engine"] # None
          /\ setting'["engine"].producer = "menu" /\ setting'["engine"].on = menuOpen
          /\ setting'["loader"] = setting["loader"]
      BY <1>0, <1>1, <2>2, Called DEF DataLoaded, TypeOK, Agents
    <3>2. (SaveInv /\ MenuInv /\ DispatchInv /\ TimedInv)'
      BY <1>1, <2>2, <3>1 DEF DataLoaded, IInv, SaveInv, MenuInv, DispatchInv, TimedInv,
      Changing, Free
    <3> QED
      BY <1>1, <2>1, <3>1, <3>2, Rest DEF DataLoaded
  <2>3. CASE engine' = "scheduling" /\ UNCHANGED <<sinkInstalled, setting>>
    <3>1. (SaveInv /\ MenuInv /\ DispatchInv /\ TimedInv)'
      BY <1>1, <2>3 DEF DataLoaded, IInv, SaveInv, MenuInv, DispatchInv, TimedInv,
      Changing, Free
    <3> QED
      BY <1>1, <2>1, <2>3, <3>1, Rest DEF DataLoaded
  <2> QED
    BY <1>1, <2>2, <2>3 DEF DataLoaded
<1>2. CASE RunTask
  <2>1. OtherTypes'
    <3>1. /\ engine' \in {"pre1", engine} /\ loading' \in BOOLEAN
          /\ timed' = timed /\ detailed' = detailed
          /\ promised' \in BOOLEAN /\ leaked' \in BOOLEAN /\ task' \in BOOLEAN
      BY <1>0, <1>2 DEF RunTask, BeginLoad, TypeOK
    <3>2. UNCHANGED <<settings, uiVars, loader, schedVars, events>>
      BY <1>2 DEF RunTask
    <3> QED
      BY <1>0, <3>1, <3>2 DEF TypeOK, OtherTypes
  <2>2. CASE /\ Calls("engine", "dispatch", FALSE) /\ promised' = FALSE
             /\ UNCHANGED <<saveVars, engine, leaked>>
    <3>1. /\ Begins /\ setting'["engine"] # None
          /\ setting'["engine"].producer = "dispatch" /\ setting'["engine"].on = FALSE
          /\ setting'["loader"] = setting["loader"]
      BY <1>0, <1>2, <2>2, Called DEF RunTask, Agents
    <3>2. (SaveInv /\ MenuInv /\ DispatchInv /\ TimedInv)'
      BY <1>2, <2>2, <3>1 DEF RunTask, IInv, SaveInv, MenuInv, DispatchInv, TimedInv,
      Changing, Free
    <3> QED
      BY <1>2, <2>1, <3>1, <3>2, Rest DEF RunTask
  <2>3. CASE mainMenuReady /\ BeginLoad /\ UNCHANGED <<setting, history>>
    <3>1. (SaveInv /\ MenuInv /\ DispatchInv /\ TimedInv)'
      BY <1>2, <2>3 DEF RunTask, BeginLoad, IInv, SaveInv, MenuInv, DispatchInv, TimedInv,
      Changing, Free
    <3> QED
      BY <1>2, <2>1, <2>3, <3>1, Rest DEF RunTask
  <2>4. CASE /\ mainMenuReady /\ leaked' = TRUE /\ promised' = FALSE
             /\ UNCHANGED <<setting, saveVars, engine>>
    <3>1. (SaveInv /\ MenuInv /\ DispatchInv /\ TimedInv)'
      BY <1>2, <2>4 DEF RunTask, IInv, SaveInv, MenuInv, DispatchInv, TimedInv,
      Changing, Free
    <3> QED
      BY <1>2, <2>1, <2>4, <3>1, Rest DEF RunTask
  <2> QED
    BY <1>2, <2>2, <2>3, <2>4 DEF RunTask
<1>3. CASE PreLoadGame
  <2>1. OtherTypes'
    <3>1. engine' \in {"pre2", "pre3"}
      BY <1>3 DEF PreLoadGame
    <3>2. UNCHANGED <<settings, uiVars, saveVars, loader, task, schedVars, events, history>>
      BY <1>3 DEF PreLoadGame
    <3> QED
      BY <1>0, <3>1, <3>2 DEF TypeOK, OtherTypes
  <2>2. CASE engine = "pre1"
    <3>1. Calls("engine", "save", TRUE) /\ Free("engine") /\ engine' = "pre2"
      BY <1>3, <2>2 DEF PreLoadGame, HandOver
    <3>2. /\ Begins /\ setting'["engine"] # None
          /\ setting'["engine"].producer = "save" /\ setting'["engine"].on = TRUE
          /\ setting'["loader"] = setting["loader"]
      BY <1>0, <3>1, Called DEF Agents
    <3>3. (SaveInv /\ MenuInv /\ DispatchInv /\ TimedInv)'
      BY <1>3, <2>2, <3>1, <3>2 DEF PreLoadGame, IInv, SaveInv, MenuInv, DispatchInv, TimedInv,
      Changing, Free
    <3> QED
      BY <1>3, <2>1, <3>2, <3>3, Rest DEF PreLoadGame
  <2>3. CASE engine = "pre2"
    <3>1. Calls("engine", "dispatch", FALSE) /\ Free("engine") /\ engine' = "pre3"
      BY <1>3, <2>3 DEF PreLoadGame, HandOver
    <3>2. /\ Begins /\ setting'["engine"] # None
          /\ setting'["engine"].producer = "dispatch" /\ setting'["engine"].on = FALSE
          /\ setting'["loader"] = setting["loader"]
      BY <1>0, <3>1, Called DEF Agents
    <3>3. (SaveInv /\ MenuInv /\ DispatchInv /\ TimedInv)'
      BY <1>3, <2>3, <3>1, <3>2 DEF PreLoadGame, IInv, SaveInv, MenuInv, DispatchInv, TimedInv,
      Changing, Free
    <3> QED
      BY <1>3, <2>1, <3>2, <3>3, Rest DEF PreLoadGame
  <2> QED
    BY <1>3, <2>2, <2>3 DEF PreLoadGame
<1>4. CASE PostLoadGame
  <2>1. OtherTypes'
    <3>1. /\ engine' \in {"post", "play", engine} /\ loading' \in BOOLEAN
          /\ timed' \in BOOLEAN /\ detailed' \in BOOLEAN /\ leaked' \in BOOLEAN
      BY <1>0, <1>4 DEF PostLoadGame, TypeOK
    <3>2. UNCHANGED <<settings, uiVars, loader, task, schedVars, events, promised>>
      BY <1>4 DEF PostLoadGame
    <3> QED
      BY <1>0, <3>1, <3>2 DEF TypeOK, OtherTypes
  <2>2. CASE /\ Calls("engine", "save", FALSE) /\ engine' \in {"post", "play"}
    <3>1. /\ Begins /\ setting'["engine"] # None
          /\ setting'["engine"].producer = "save" /\ setting'["engine"].on = FALSE
          /\ setting'["loader"] = setting["loader"]
      BY <1>0, <1>4, <2>2, Called DEF PostLoadGame, Agents
    <3>2. (SaveInv /\ MenuInv /\ DispatchInv /\ TimedInv)'
      BY <1>4, <2>2, <3>1 DEF PostLoadGame, IInv, SaveInv, MenuInv, DispatchInv, TimedInv,
      Changing, Free
    <3> QED
      BY <1>4, <2>1, <3>1, <3>2, Rest DEF PostLoadGame
  <2>3. CASE UNCHANGED <<setting, engine>>
    <3>1. (SaveInv /\ MenuInv /\ DispatchInv /\ TimedInv)'
      BY <1>4, <2>3 DEF PostLoadGame, IInv, SaveInv, MenuInv, DispatchInv, TimedInv,
      Changing, Free
    <3> QED
      BY <1>4, <2>1, <2>3, <3>1, Rest DEF PostLoadGame
  <2> QED
    BY <1>4, <2>2, <2>3 DEF PostLoadGame
<1>5. CASE Arm
  <2>1. OtherTypes'
    <3>1. loader' = "checkpoint" /\ promised' \in BOOLEAN
      BY <1>5 DEF Arm
    <3>2. UNCHANGED <<settings, uiVars, saveVars, engine, task, schedVars, events, leaked>>
      BY <1>5 DEF Arm
    <3> QED
      BY <1>0, <3>1, <3>2 DEF TypeOK, OtherTypes
  <2>2. Free("loader")
    BY <1>5 DEF Arm, IInv, DispatchInv, Free
  <2>3. /\ Begins /\ setting'["loader"] # None
          /\ setting'["loader"].producer = "dispatch" /\ setting'["loader"].on = TRUE
          /\ setting'["engine"] = setting["engine"]
    BY <1>0, <1>5, <2>2, Called DEF Arm, Agents
  <2>4. (SaveInv /\ MenuInv /\ DispatchInv /\ TimedInv)'
    BY <1>5, <2>2, <2>3 DEF Arm, IInv, SaveInv, MenuInv, DispatchInv, TimedInv,
      Changing, Free
  <2> QED
    BY <1>5, <2>1, <2>3, <2>4, Rest DEF Arm
<1>6. CASE CancelDispatch
  <2>1. OtherTypes'
    <3>1. loader' = "done" /\ promised' \in BOOLEAN
      BY <1>6 DEF CancelDispatch
    <3>2. UNCHANGED <<settings, uiVars, saveVars, engine, task, schedVars, events, leaked>>
      BY <1>6 DEF CancelDispatch
    <3> QED
      BY <1>0, <3>1, <3>2 DEF TypeOK, OtherTypes
  <2>2. Free("loader")
    BY <1>6 DEF CancelDispatch, IInv, DispatchInv, Free
  <2>3. /\ Begins /\ setting'["loader"] # None
          /\ setting'["loader"].producer = "dispatch" /\ setting'["loader"].on = FALSE
          /\ setting'["engine"] = setting["engine"]
    BY <1>0, <1>6, <2>2, Called DEF CancelDispatch, Agents
  <2>4. (SaveInv /\ MenuInv /\ DispatchInv /\ TimedInv)'
    BY <1>6, <2>2, <2>3 DEF CancelDispatch, IInv, SaveInv, MenuInv, DispatchInv, TimedInv,
      Changing, Free
  <2> QED
    BY <1>6, <2>1, <2>3, <2>4, Rest DEF CancelDispatch
<1> QED
  BY <1>1, <1>2, <1>3, <1>4, <1>5, <1>6

LEMMA StepInv == IInv /\ [Next]_vars => IInv'
<1> SUFFICES ASSUME IInv, [Next]_vars PROVE IInv'
  OBVIOUS
<1>1. CASE UNCHANGED vars
  <2>1. UNCHANGED <<mask, hooksActive, cacheActive, mutex, setting>>
    BY <1>1 DEF vars, gateVars
  <2>2. OtherTypes'
    BY <1>1 DEF vars, settings, uiVars, saveVars, schedVars, history, IInv, TypeOK, OtherTypes
  <2>3. (SaveInv /\ MenuInv /\ DispatchInv /\ TimedInv)'
    BY <1>1 DEF vars, gateVars, uiVars, saveVars, schedVars, history, IInv, SaveInv,
       MenuInv, DispatchInv, TimedInv, Changing, Free
  <2> QED
    BY <2>1, <2>2, <2>3, Rest
<1>2. ASSUME NEW a \in Agents, SetLoadProducer(a)
      PROVE  IInv'
  BY <1>2, MaskSet, FlagsSet DEF SetLoadProducer
<1>3. CASE Next
  BY <1>2, <1>3, MenusKeep, SilentKeep, CallersKeep DEF Next, Engine, Loader
<1> QED
  BY <1>1, <1>3

(* What the gate shows: a producer that nobody is just setting is seen.         *)
LEMMA Seen ==
  ASSUME IInv, NEW p \in mask,
         \A a \in Agents : Changing(a, p) => ~setting[a].on
  PROVE  Shut
<1>1. CASE mutex = None
  BY <1>1 DEF IInv, TypeOK, MutexInv, Shut
<1>2. CASE mutex # None
  <2>1. PICK a \in Agents : mutex = a
    BY <1>2 DEF IInv, TypeOK
  <2>2. /\ setting[a] # None
        /\ setting[a].on => mask = {setting[a].producer}
        /\ ~setting[a].on => mask = {}
    BY <2>1 DEF IInv, MutexInv, At
  <2>3. setting[a].on /\ setting[a].producer = p
    BY <2>2
  <2> QED
    BY <2>2, <2>3 DEF Changing
<1> QED
  BY <1>1, <1>2

(* Typed, with the flags in agreement whenever no change is under way.          *)
THEOREM GateCorrect == Spec => []GateInv
<1>1. IInv => GateInv
  <2> SUFFICES ASSUME IInv, \A a \in Agents : Free(a) \/ At(a, "mask")
               PROVE  (mask # {}) = hooksActive /\ (mask # {}) = cacheActive
    BY DEF IInv, GateInv, FlagsAgree
  <2>1. mutex = None
    BY DEF IInv, TypeOK, MutexInv, At, Free
  <2> QED
    BY <2>1 DEF IInv, TypeOK, MutexInv
<1> QED
  BY <1>1, InitInv, StepInv, PTL DEF Spec

(* The gate is closed while a load runs or a loading menu is up.               *)
THEOREM GateCovers == Spec => []Gated
<1>1. IInv => LoadGated
  <2> SUFFICES ASSUME IInv, loading, engine = "play"
               PROVE  "save" \in mask /\ Shut
    BY DEF LoadGated
  <2>1. "save" \in mask /\ ~Changing("engine", "save")
    BY DEF IInv, SaveInv
  <2>2. \A a \in Agents : ~Changing(a, "save")
    BY <2>1 DEF IInv, DispatchInv, Changing, Agents
  <2> QED
    BY <2>1, <2>2, Seen
<1>2. IInv => MenuGated
  <2> SUFFICES ASSUME IInv, sinkInstalled, menuOpen, Free("engine")
               PROVE  "menu" \in mask /\ Shut
    BY DEF MenuGated, EngineFree
  <2>1. "menu" \in mask
    BY DEF IInv, MenuInv, Changing, Free
  <2>2. \A a \in Agents : ~Changing(a, "menu")
    BY DEF IInv, DispatchInv, Changing, Free, Agents
  <2> QED
    BY <2>1, <2>2, Seen
<1> QED
  BY <1>1, <1>2, InitInv, StepInv, PTL DEF Spec, Gated

(* No window between the checkpoint of the auto-loader and its load.            *)
THEOREM NoGap == Spec => []GapClosed
<1>1. IInv => GapClosed
  <2> SUFFICES ASSUME IInv, promised, Free("loader")
               PROVE  Shut
    BY DEF GapClosed
  <2>1. CASE "dispatch" \in mask
    <3>1. \A a \in Agents : Changing(a, "dispatch") => ~setting[a].on
      BY DEF IInv, DispatchInv, Changing, Free, Agents
    <3> QED
      BY <2>1, <3>1, Seen
  <2>2. CASE engine = "pre3"
    <3>1. "save" \in mask /\ ~Changing("engine", "save")
      BY <2>2 DEF IInv, SaveInv
    <3>2. \A a \in Agents : ~Changing(a, "save")
      BY <3>1 DEF Changing, Free, Agents
    <3> QED
      BY <3>1, <3>2, Seen
  <2> QED
    BY <2>1, <2>2 DEF IInv, DispatchInv, Free
<1> QED
  BY <1>1, InitInv, StepInv, PTL DEF Spec

(* No statistics are begun while a timed load runs.                           *)
THEOREM LoadUndisturbed == Spec => QuietDuringLoad
<1> DEFINE Quiet == scheduler = "timed" /\ scheduler' \in {"start", "summary"} =>
                      ~(loading /\ timed)
<1>1. IInv /\ [Next]_vars => [Quiet]_vars
  <2> SUFFICES ASSUME IInv, Next, scheduler = "timed",
                      scheduler' \in {"start", "summary"}, timed
               PROVE  FALSE
    BY DEF Quiet
  <2>1. ~deadline
    BY DEF IInv, TimedInv
  <2>2. CASE Run
    BY <2>1, <2>2 DEF Run, RunWait, RunDue, RunTaken
  <2>3. scheduler' \in {"top", scheduler} \/ Run
    BY DEF Next, Engine, Loader, LoadingMenuEvent, MainMenuEvent, PlayerLoads, DataLoaded,
       PublishMainMenu, ScheduleAutoLoad, RunTask, PreLoadGame, LoadTimed, PostLoadGame,
       ScheduleSnapshot, Schedule, Cancel, Poll, GiveUp, Arm, Checkpoint, CancelDispatch,
       AddTask, SetLoadProducer, schedVars
  <2> QED
    BY <2>2, <2>3
<1> QED
  BY <1>1, InitInv, StepInv, PTL DEF Spec, QuietDuringLoad
=============================================================================
