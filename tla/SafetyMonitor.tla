---------------------------- MODULE SafetyMonitor ----------------------------
(***************************************************************************)
(* SafetyMonitorServiceSWC on ara::sm and ara::phm.  Two threads escalate  *)
(* the safety level: the one inside Run(), every 10 ms, and the one that   *)
(* calls Shutdown(); the MCU's reports arrive on a third.                  *)
(*                                                                         *)
(* Control points of both threads while they escalate:                     *)
(*   escalate   about to load currentLevel_ and compare                    *)
(*   store      about to store the new level                               *)
(*   act        has requests of ExecuteSafetyAction left in `todo`         *)
(*   notify     about to call the safety level callback                    *)
(* Run():       init, start (before running_ is set), loop, check, mcu,    *)
(*              ended.  Shutdown(): idle, stopPhm, done.                   *)
(***************************************************************************)
EXTENDS StateManagement, Naturals, Sequences

CONSTANTS
  MaxByte,      (* 255: the largest value of a uint8_t.   *)
  McuReports    (* The reports the MCU may send.          *)

Byte == 0..MaxByte
SafetyLevel == 0..4
McuSafetyStatus == [safetyLevel: Byte, asilViolation: BOOLEAN]

ASSUME MaxByteAssumption == MaxByte \in Nat /\ MaxByte >= 4
ASSUME ReportsAssumption ==
  McuReports \subseteq [safetyLevel: SafetyLevel, asilViolation: BOOLEAN]
ASSUME GroupsAssumption ==
  {"Infotainment", "OTA"} \subseteq FunctionGroups /\ "machine" \notin FunctionGroups

VARIABLES
  entityStatus,    (* status of the entities registered with PHM, by name   *)
  phmRunning,      (* PlatformHealthManagement::running_                    *)
  running,         (* running_                                              *)
  currentLevel,    (* currentLevel_                                         *)
  lastMcuStatus,   (* lastMcuStatus_, guarded by mutex_                     *)
  pc,              (* control point of each thread                          *)
  newLevel,        (* argument of EscalateSafetyLevel on each thread        *)
  todo,            (* requests to ara::sm each thread has still to make     *)
  undoneBy         (* history: who has taken the machine out of kShutdown
                      since it was last asked to shut down                  *)

callVars == <<newLevel, todo>>
phmVars == <<entityStatus, phmRunning>>
machineVars == <<smVars, undoneBy>>
vars == <<machineVars, phmVars, running, currentLevel, lastMcuStatus, pc, callVars>>

Threads == {"run", "shutdown"}
Escalating == {"escalate", "store", "act", "notify"}
RunPoints == {"init", "start", "loop", "check", "mcu", "ended"} \cup Escalating
ShutdownPoints == {"idle", "stopPhm", "done"} \cup Escalating

SupervisionStatus == {"kOk", "kFailed", "kExpired", "kStopped", "kDeactivated"}

(* The requests ExecuteSafetyAction makes for a level, in order. *)
Machine(state) == [group |-> "machine", state |-> state]
Off(group) == [group |-> group, state |-> "kOff"]
Requests == {Machine(state) : state \in MachineState} \cup {Off(g) : g \in FunctionGroups}

(* A mutant: the two requests of a safe stop swapped. *)
SafetyActionSwapped(level) ==
  CASE level = 1 -> <<Off("Infotainment")>>
    [] level = 2 -> <<Off("Infotainment"), Off("OTA"), Machine("kParked")>>
    [] level \in {3, 4} -> <<Machine("kShutdown"), Machine("kError")>>
    [] OTHER -> <<>>

SafetyAction(level) ==
  CASE level = 1 -> <<Off("Infotainment")>>
    [] level = 2 -> <<Off("Infotainment"), Off("OTA"), Machine("kParked")>>
    [] level \in {3, 4} -> <<Machine("kError"), Machine("kShutdown")>>
    [] OTHER -> <<>>

TypeOK ==
  /\ SmTypeOK
  /\ DOMAIN entityStatus \subseteq {"SafetyMonitorService"}
  /\ entityStatus \in [DOMAIN entityStatus -> SupervisionStatus]
  /\ phmRunning \in BOOLEAN
  /\ running \in BOOLEAN
  /\ currentLevel \in Byte
  /\ lastMcuStatus \in McuSafetyStatus
  /\ pc \in [Threads -> RunPoints \cup ShutdownPoints]
  /\ pc["run"] \in RunPoints /\ pc["shutdown"] \in ShutdownPoints
  /\ newLevel \in [Threads -> Byte]
  /\ todo \in [Threads -> Seq(Requests)]
  /\ undoneBy \in {"nobody", "escalation", "others"}

(* No constructor initialises lastMcuStatus_: it holds what was in memory. *)
Init ==
  /\ SmInit
  /\ entityStatus = [e \in {} |-> "kOk"]
  /\ phmRunning = FALSE
  /\ running = FALSE
  /\ currentLevel = 0
  /\ lastMcuStatus \in McuSafetyStatus
  /\ pc = [t \in Threads |-> IF t = "run" THEN "init" ELSE "idle"]
  /\ newLevel = [t \in Threads |-> 0]
  /\ todo = [t \in Threads |-> <<>>]
  /\ undoneBy = "nobody"
-----------------------------------------------------------------------------
Goto(t, from, to) == pc[t] = from /\ pc' = [pc EXCEPT ![t] = to]

(* Call EscalateSafetyLevel(level). *)
CallEscalate(t, from, level) ==
  /\ Goto(t, from, "escalate")
  /\ newLevel' = [newLevel EXCEPT ![t] = level]
  /\ UNCHANGED todo

(* PHM's aggregate: the worst status of the registered entities. *)
GlobalStatus ==
  LET has(s) == \E e \in DOMAIN entityStatus : entityStatus[e] = s
  IN  IF has("kExpired") THEN "kExpired"
      ELSE IF has("kFailed") THEN "kFailed"
      ELSE IF has("kStopped") THEN "kStopped" ELSE "kNormal"

(* Init(): the entity is registered, the groups are created, PHM is started. *)
SwcInit ==
  /\ Goto("run", "init", "start")
  /\ entityStatus' = [e \in {"SafetyMonitorService"} |-> "kOk"]
  /\ InitializeGroups
  /\ phmRunning' = TRUE
  /\ UNCHANGED <<running, currentLevel, lastMcuStatus, callVars, undoneBy>>

Run ==
  /\ Goto("run", "start", "loop")
  /\ running' = TRUE
  /\ UNCHANGED <<machineVars, phmVars, currentLevel, lastMcuStatus, callVars>>

(* A mutant: the loop does not look at running_. *)
RunLoopForever ==
  /\ Goto("run", "loop", "check")
  /\ entityStatus' = [e \in DOMAIN entityStatus |-> "kOk"]
  /\ UNCHANGED <<machineVars, phmRunning, running, currentLevel, lastMcuStatus, callVars>>

(* The head of the loop; a period begins with the watchdog and a checkpoint, *)
(* which makes the entity's status kOk.                                      *)
RunLoop ==
  /\ \/ ~running /\ Goto("run", "loop", "ended") /\ UNCHANGED entityStatus
     \/ /\ running /\ Goto("run", "loop", "check")
        /\ entityStatus' = [e \in DOMAIN entityStatus |-> "kOk"]
  /\ UNCHANGED <<machineVars, phmRunning, running, currentLevel, lastMcuStatus, callVars>>

(* The level PHM's status calls for; 0 for none. *)
PhmLevel == CASE GlobalStatus = "kExpired" -> 3
              [] GlobalStatus = "kFailed"  -> 2
              [] OTHER -> 0

CheckPhm ==
  /\ IF PhmLevel > 0 THEN CallEscalate("run", "check", PhmLevel)
     ELSE Goto("run", "check", "mcu") /\ UNCHANGED callVars
  /\ UNCHANGED <<machineVars, phmVars, running, currentLevel, lastMcuStatus>>

(* A mutant: the reported level is looked at before the violation. *)
McuLevelFirst(status) ==
  IF status.safetyLevel >= 2 THEN status.safetyLevel
  ELSE IF status.asilViolation THEN 4 ELSE 0

(* The level the MCU's last report calls for; 0 for none. *)
McuLevel(status) ==
  IF status.asilViolation THEN 4
  ELSE IF status.safetyLevel >= 2 THEN status.safetyLevel ELSE 0

(* The report is copied under the lock and judged after it is released. *)
CheckMcu ==
  /\ \/ McuLevel(lastMcuStatus) > 0 /\ CallEscalate("run", "mcu", McuLevel(lastMcuStatus))
     \/ McuLevel(lastMcuStatus) = 0 /\ Goto("run", "mcu", "loop") /\ UNCHANGED callVars
  /\ UNCHANGED <<machineVars, phmVars, running, currentLevel, lastMcuStatus>>

(* Shutdown(), on a thread of its own once Init() has returned. *)
ShutdownSwc ==
  /\ pc["run"] # "init"
  /\ CallEscalate("shutdown", "idle", 3)
  /\ running' = FALSE
  /\ UNCHANGED <<machineVars, phmVars, currentLevel, lastMcuStatus>>

StopPhm ==
  /\ Goto("shutdown", "stopPhm", "done")
  /\ phmRunning' = FALSE
  /\ UNCHANGED <<machineVars, entityStatus, running, currentLevel, lastMcuStatus, callVars>>

(* EscalateSafetyLevel returns to the loop of Run() or to Shutdown(). *)
Return(t, from) ==
  /\ Goto(t, from, IF t = "run" THEN "loop" ELSE "stopPhm")
  /\ newLevel' = [newLevel EXCEPT ![t] = 0]
  /\ UNCHANGED todo

Compare(t) ==
  /\ \/ newLevel[t] <= currentLevel /\ Return(t, "escalate")
     \/ newLevel[t] > currentLevel /\ Goto(t, "escalate", "store") /\ UNCHANGED callVars
  /\ UNCHANGED <<machineVars, phmVars, running, currentLevel, lastMcuStatus>>

Store(t) ==
  /\ Goto(t, "store", "act")
  /\ currentLevel' = newLevel[t]
  /\ todo' = [todo EXCEPT ![t] = SafetyAction(newLevel[t])]
  /\ UNCHANGED <<machineVars, phmVars, running, lastMcuStatus, newLevel>>

(* The history of a request made by `who`. *)
Undo(who) ==
  undoneBy' = IF machineState' = "kShutdown" THEN "nobody"
              ELSE IF machineState = "kShutdown" THEN who ELSE undoneBy

Perform(request) ==
  IF request.group = "machine" THEN RequestMachineStateChange(request.state)
  ELSE RequestGroupState(request.group, request.state)

Act(t) ==
  /\ pc[t] = "act"
  /\ \/ /\ todo[t] # <<>>
        /\ Perform(Head(todo[t])) /\ Undo("escalation")
        /\ todo' = [todo EXCEPT ![t] = Tail(@)]
        /\ UNCHANGED pc
     \/ /\ todo[t] = <<>>
        /\ Goto(t, "act", "notify")
        /\ UNCHANGED <<machineVars, todo>>
  /\ UNCHANGED <<phmVars, running, currentLevel, lastMcuStatus, newLevel>>

(* The callback only observes. *)
Notify(t) ==
  /\ Return(t, "notify")
  /\ UNCHANGED <<machineVars, phmVars, running, currentLevel, lastMcuStatus>>

OnMcuSafetyStatus(status) ==
  /\ lastMcuStatus' = status
  /\ UNCHANGED <<machineVars, phmVars, running, currentLevel, pc, callVars>>
-----------------------------------------------------------------------------
Escalate(t) == Compare(t) \/ Store(t) \/ Act(t) \/ Notify(t)

RunThread == SwcInit \/ Run \/ RunLoop \/ CheckPhm \/ CheckMcu \/ Escalate("run")

ShutdownThread == StopPhm \/ Escalate("shutdown")

McuReport == \E status \in McuReports : OnMcuSafetyStatus(status)

(* Other applications ask for any machine state, kError and kShutdown by     *)
(* TriggerErrorState() and Shutdown() too, and register groups and switch   *)
(* them on.                                                                 *)
OtherApplications ==
  /\ \/ \E state \in MachineState : RequestMachineStateChange(state)
     \/ TriggerErrorState \/ ShutdownMachine
     \/ \E g \in {"Infotainment", "OTA"} \cap DOMAIN groups : RequestGroupState(g, "kOn")
     \/ \E g \in {"Infotainment", "OTA"} : RegisterFunctionGroup(g)
     \/ InitializeGroups
  /\ Undo("others")
  /\ UNCHANGED <<phmVars, running, currentLevel, lastMcuStatus, pc, callVars>>

Next == RunThread \/ ShutdownThread \/ ShutdownSwc \/ McuReport \/ OtherApplications

Spec == Init /\ [][Next]_vars

(* The threads are scheduled; nobody owes a report, a request or a Shutdown(). *)
FairSpec == Spec /\ WF_vars(RunThread) /\ WF_vars(ShutdownThread)
-----------------------------------------------------------------------------
(* The machine is shut down, or another application has asked for kError since. *)
ShutDown == machineState = "kShutdown" \/ (machineState = "kError" /\ undoneBy = "others")

(* Two escalations may interleave at every step, with each other and with the *)
(* requests of other applications.  Even so, once no action is under way, a   *)
(* level of 3 or 4 means that the machine has been shut down: one escalation  *)
(* never leaves it in the kError it passes through, nor undoes the shutdown   *)
(* of the other; only another application's request for kError does.          *)
SafeStopIsDone ==
  currentLevel \in {3, 4} /\ (\A t \in Threads : pc[t] # "act") => ShutDown

(* No thread returns from an escalation to level 3 or 4 before the machine    *)
(* has been shut down or another thread is about to do it: also where the     *)
(* level it found, or one stored between its comparison and its store, cut it *)
(* short.  Beyond the enumerators, where only uninitialised memory leads, a   *)
(* level has no action and bars all others.                                   *)
EscalationStops ==
  [][\A t \in Threads :
       pc[t] \in Escalating /\ pc'[t] \notin Escalating /\ newLevel[t] \in {3, 4} =>
         \/ ShutDown \/ currentLevel > 4
         \/ \E u \in Threads : /\ pc[u] = "act"
                               /\ \E i \in DOMAIN todo[u] : todo[u][i] = Machine("kShutdown")]_vars

(* Whatever other applications ask for, the machine does not come back from   *)
(* an error or a shutdown.                                                    *)
NoReturnToService ==
  [][(machineState \in {"kError", "kShutdown"})
        => (machineState' \in {"kError", "kShutdown"})]_vars

(* An ASIL-D violation the MCU keeps reporting is acted upon, whatever level  *)
(* the report has and whatever Shutdown() is doing: the level reaches 4, or   *)
(* was beyond it already, which only a byte from uninitialised memory is.     *)
ViolationIsSeen ==
  (pc["run"] = "loop" /\ lastMcuStatus.asilViolation)
    ~> (currentLevel >= 4 \/ ~lastMcuStatus.asilViolation \/ pc["run"] = "ended")

(* Run() returns once Shutdown() has been called while it was looping.        *)
ShutdownEndsRun ==
  (pc["run"] = "loop" /\ pc["shutdown"] # "idle") ~> (pc["run"] = "ended" \/ running)

(* How many steps Run() has still to take once running_ is clear. *)
StepsLeft ==
  CASE pc["run"] = "check"    -> 10
    [] pc["run"] = "mcu"      -> 9
    [] pc["run"] = "escalate" -> 8
    [] pc["run"] = "store"    -> 7
    [] pc["run"] = "act"      -> 3 + Len(todo["run"])
    [] pc["run"] = "notify"   -> 2
    [] pc["run"] = "loop"     -> 1
    [] OTHER -> 0

(* Once Shutdown() has cleared running_ behind the start of Run(), nothing    *)
(* sets it again, and every step of Run() brings its end nearer, of which     *)
(* there are ten at most, whatever MCU, applications and Shutdown() do.       *)
RunReturnsSoon ==
  [][~running /\ pc["run"] \notin {"init", "start"} =>
       /\ ~running' /\ pc'["run"] \notin {"init", "start"}
       /\ StepsLeft \in 0..10
       /\ RunThread => StepsLeft' < StepsLeft
       /\ StepsLeft' <= StepsLeft]_vars
=============================================================================
