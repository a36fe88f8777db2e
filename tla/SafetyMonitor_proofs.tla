------------------------ MODULE SafetyMonitor_proofs ------------------------
(***************************************************************************)
(* For any function groups and reports: a safe stop, however the two       *)
(* escalations interleave, is done, there is no way back from it, and      *)
(* Shutdown() leaves Run() few steps to take.                              *)
(***************************************************************************)
EXTENDS SafetyMonitor, SequenceTheorems, TLAPS

USE MaxByteAssumption, ReportsAssumption, GroupsAssumption

(* What a thread may have left to do while it acts. *)
SafeStop == <<Machine("kError"), Machine("kShutdown")>>
StopsLeft == {SafeStop, <<Machine("kShutdown")>>}
OthersLeft == {<<>>, <<Off("Infotainment")>>,
               <<Off("Infotainment"), Off("OTA"), Machine("kParked")>>,
               <<Off("OTA"), Machine("kParked")>>, <<Machine("kParked")>>}

(* A thread that is going to shut the machine down. *)
Stopping(t) == pc[t] = "act" /\ todo[t] \in StopsLeft

(* A safe stop is called for by the level, or by the level a thread has       *)
(* stored, which the other thread may have overwritten since.                 *)
StopReached ==
  \/ currentLevel \in {3, 4}
  \/ \E t \in Threads : pc[t] \in {"act", "notify"} /\ newLevel[t] \in {3, 4}

(* A request for kError has one for kShutdown behind it: one thread may undo  *)
(* the other's shutdown, and then does its own.  What another application     *)
(* undoes stays in kError until somebody asks for kShutdown again.            *)
StopInv ==
  /\ \A t \in Threads : pc[t] = "act" => todo[t] \in StopsLeft \cup OthersLeft
  /\ StopReached => ShutDown \/ \E t \in Threads : Stopping(t)
  /\ undoneBy = "others" => machineState = "kError"

Inv == TypeOK /\ StopInv
-----------------------------------------------------------------------------
(* The action of a level is one of the lists above, and a safe stop exactly   *)
(* for the levels 3 and 4.                                                    *)
LEMMA ActionOfLevel ==
  ASSUME NEW level \in Byte
  PROVE  /\ SafetyAction(level) \in StopsLeft \cup OthersLeft
         /\ level \in {3, 4} => SafetyAction(level) = SafeStop
         /\ SafetyAction(level) \in Seq(Requests)
  <1> DEFINE I == Off("Infotainment")
             O == Off("OTA")
             P == Machine("kParked")
  <1>1. {I, O, P, Machine("kError"), Machine("kShutdown")} \subseteq Requests
    BY DEF Requests, MachineState
  <1>2. CASE level = 1
    BY <1>1, <1>2 DEF SafetyAction, OthersLeft
  <1>3. CASE level = 2
    BY <1>1, <1>3 DEF SafetyAction, OthersLeft
  <1>4. CASE level \in {3, 4}
    BY <1>1, <1>4 DEF SafetyAction, StopsLeft, SafeStop
  <1>5. CASE level \notin 1..4
    BY <1>5 DEF SafetyAction, OthersLeft, Byte
  <1> QED BY <1>2, <1>3, <1>4, <1>5 DEF Byte

(* A request leaves the types of the machine and the groups alone. *)
LEMMA MachineTypes ==
  ASSUME SmTypeOK, NEW state \in MachineState, RequestMachineStateChange(state)
  PROVE  SmTypeOK'
  BY DEF SmTypeOK, RequestMachineStateChange

LEMMA GroupTypes ==
  ASSUME SmTypeOK, NEW g, NEW state \in FunctionGroupState, RequestGroupState(g, state)
  PROVE  SmTypeOK'
  BY DEF SmTypeOK, RequestGroupState

LEMMA RegisterTypes ==
  ASSUME SmTypeOK, NEW g \in FunctionGroups, RegisterFunctionGroup(g)
  PROVE  SmTypeOK'
  BY DEF SmTypeOK, RegisterFunctionGroup, FunctionGroupState

LEMMA InitializeTypes ==
  ASSUME SmTypeOK, InitializeGroups
  PROVE  SmTypeOK'
  BY DEF SmTypeOK, InitializeGroups, FunctionGroupState

(* The other applications, one request at a time. *)
LEMMA OthersKeepTypes ==
  ASSUME SmTypeOK, OtherApplications
  PROVE  SmTypeOK'
  <1>1. CASE \E state \in MachineState : RequestMachineStateChange(state)
    BY <1>1, MachineTypes
  <1>5. CASE TriggerErrorState \/ ShutdownMachine
    BY <1>5, MachineTypes DEF TriggerErrorState, ShutdownMachine, MachineState
  <1>2. CASE \E g \in {"Infotainment", "OTA"} \cap DOMAIN groups : RequestGroupState(g, "kOn")
    BY <1>2, GroupTypes DEF FunctionGroupState
  <1>3. CASE \E g \in {"Infotainment", "OTA"} : RegisterFunctionGroup(g)
    BY <1>3, RegisterTypes
  <1>4. CASE InitializeGroups
    BY <1>4, InitializeTypes
  <1> QED BY <1>1, <1>2, <1>3, <1>4, <1>5 DEF OtherApplications
-----------------------------------------------------------------------------
LEMMA InitInv == Init => Inv
  <1> SUFFICES ASSUME Init PROVE Inv
    OBVIOUS
  <1>1. SmTypeOK
    BY DEF Init, SmInit, SmTypeOK, MachineState
  <1>2. TypeOK
    <2>1. todo \in [Threads -> Seq(Requests)] /\ newLevel \in [Threads -> Byte]
      BY DEF Init, Byte
    <2>2. /\ pc \in [Threads -> RunPoints \cup ShutdownPoints]
          /\ pc["run"] \in RunPoints /\ pc["shutdown"] \in ShutdownPoints
      BY DEF Init, Threads, RunPoints, ShutdownPoints
    <2>3. /\ DOMAIN entityStatus \subseteq {"SafetyMonitorService"}
          /\ entityStatus \in [DOMAIN entityStatus -> SupervisionStatus]
      BY DEF Init
    <2>4. phmRunning \in BOOLEAN /\ running \in BOOLEAN
      BY Zenon DEF Init
    <2>6. currentLevel \in Byte
      BY DEF Init, Byte
    <2>5. lastMcuStatus \in McuSafetyStatus
      BY DEF Init
    <2>7. undoneBy \in {"nobody", "escalation", "others"}
      BY DEF Init
    <2> QED BY <1>1, <2>1, <2>2, <2>3, <2>4, <2>5, <2>6, <2>7 DEF TypeOK
  <1>3. StopInv
    BY DEF Init, StopInv, StopReached, Threads
  <1> QED BY <1>2, <1>3 DEF Inv

-----------------------------------------------------------------------------
(* Type correctness, one action at a time. *)

PcTypes ==
  /\ pc \in [Threads -> RunPoints \cup ShutdownPoints]
  /\ pc["run"] \in RunPoints /\ pc["shutdown"] \in ShutdownPoints

(* A thread goes on to a point of its own. *)
LEMMA GotoTypes ==
  ASSUME PcTypes, NEW t \in Threads, NEW from, NEW to, Goto(t, from, to),
         to \in IF t = "run" THEN RunPoints ELSE ShutdownPoints
  PROVE  PcTypes'
  BY DEF PcTypes, Goto, Threads

LEMMA CallTypes ==
  ASSUME TypeOK, NEW t \in Threads, NEW from, NEW level \in Byte, CallEscalate(t, from, level)
  PROVE  PcTypes' /\ newLevel' \in [Threads -> Byte] /\ UNCHANGED todo
  <1>1. PcTypes
    BY DEF TypeOK, PcTypes
  <1>2. Goto(t, from, "escalate")
    BY DEF CallEscalate
  <1>3. PcTypes'
    BY <1>1, <1>2, GotoTypes DEF RunPoints, ShutdownPoints, Escalating
  <1> QED BY <1>3 DEF CallEscalate, TypeOK

(* A step of a thread that leaves ara::sm alone. *)
LEMMA LocalTypes ==
  ASSUME TypeOK, SmTypeOK', PcTypes', newLevel' \in [Threads -> Byte],
         todo' \in [Threads -> Seq(Requests)],
         DOMAIN entityStatus' \subseteq {"SafetyMonitorService"},
         entityStatus' \in [DOMAIN entityStatus' -> SupervisionStatus],
         phmRunning' \in BOOLEAN, running' \in BOOLEAN, currentLevel' \in Byte,
         lastMcuStatus' \in McuSafetyStatus,
         undoneBy' \in {"nobody", "escalation", "others"}
  PROVE  TypeOK'
  BY DEF TypeOK, PcTypes

LEMMA UnchangedSm == ASSUME SmTypeOK, UNCHANGED machineVars PROVE SmTypeOK'
  BY DEF SmTypeOK, machineVars, smVars

LEMMA SwcInitTypes == ASSUME TypeOK, SwcInit PROVE TypeOK'
  <1>1. SmTypeOK'
    BY InitializeTypes DEF SwcInit, TypeOK
  <1>2. PcTypes'
    <2>1. PcTypes /\ Goto("run", "init", "start") /\ "run" \in Threads /\ "start" \in RunPoints
      BY DEF TypeOK, PcTypes, SwcInit, Threads, RunPoints
    <2> QED BY <2>1, GotoTypes
  <1>3. /\ DOMAIN entityStatus' \subseteq {"SafetyMonitorService"}
        /\ entityStatus' \in [DOMAIN entityStatus' -> SupervisionStatus]
    BY DEF SwcInit, SupervisionStatus
  <1> QED BY <1>1, <1>2, <1>3, LocalTypes DEF SwcInit, TypeOK, callVars

LEMMA LoopTypes == ASSUME TypeOK, Run \/ RunLoop \/ StopPhm PROVE TypeOK'
  <1>1. SmTypeOK'
    BY UnchangedSm DEF TypeOK, Run, RunLoop, StopPhm
  <1>2. PcTypes'
    <2>1. PcTypes /\ "run" \in Threads /\ "shutdown" \in Threads
      BY DEF TypeOK, PcTypes, Threads
    <2>2. {"loop", "check", "ended"} \subseteq RunPoints /\ "done" \in ShutdownPoints
      BY DEF RunPoints, ShutdownPoints
    <2>3. \/ \E to \in {"loop", "check", "ended"}, from \in {"start", "loop"} : Goto("run", from, to)
          \/ Goto("shutdown", "stopPhm", "done")
      BY DEF Run, RunLoop, StopPhm
    <2> QED BY <2>1, <2>2, <2>3, GotoTypes
  <1>3. /\ DOMAIN entityStatus' = DOMAIN entityStatus
        /\ entityStatus' \in [DOMAIN entityStatus' -> SupervisionStatus]
    BY DEF TypeOK, Run, RunLoop, StopPhm, phmVars, SupervisionStatus
  <1> QED BY <1>1, <1>2, <1>3, LocalTypes DEF TypeOK, Run, RunLoop, StopPhm, phmVars, machineVars, callVars

LEMMA CheckTypes == ASSUME TypeOK, CheckPhm \/ CheckMcu \/ ShutdownSwc PROVE TypeOK'
  <1>1. SmTypeOK'
    BY UnchangedSm DEF TypeOK, CheckPhm, CheckMcu, ShutdownSwc
  <1>2. PcTypes /\ "run" \in Threads /\ "shutdown" \in Threads
    BY DEF TypeOK, PcTypes, Threads
  <1>3. PhmLevel \in Byte /\ McuLevel(lastMcuStatus) \in Byte /\ 3 \in Byte
    BY DEF TypeOK, PhmLevel, McuLevel, Byte, McuSafetyStatus
  <1>4. PcTypes' /\ newLevel' \in [Threads -> Byte] /\ UNCHANGED todo
    <2>1. CASE \/ \E level \in Byte, from \in {"check", "mcu"} : CallEscalate("run", from, level)
               \/ CallEscalate("shutdown", "idle", 3)
      BY <1>2, <1>3, <2>1, CallTypes
    <2>2. CASE /\ Goto("run", "check", "mcu") \/ Goto("run", "mcu", "loop")
               /\ UNCHANGED callVars
      <3>1. "mcu" \in RunPoints /\ "loop" \in RunPoints
        BY DEF RunPoints
      <3>2. PcTypes'
        BY <1>2, <2>2, <3>1, GotoTypes
      <3> QED BY <2>2, <3>2 DEF TypeOK, callVars
    <2> QED BY <1>3, <2>1, <2>2 DEF CheckPhm, CheckMcu, ShutdownSwc
  <1> QED BY <1>1, <1>4, LocalTypes DEF TypeOK, CheckPhm, CheckMcu, ShutdownSwc, phmVars, machineVars

LEMMA ReturnTypes ==
  ASSUME TypeOK, NEW t \in Threads, NEW from, Return(t, from)
  PROVE  PcTypes' /\ newLevel' \in [Threads -> Byte] /\ UNCHANGED todo
  <1>1. PcTypes /\ "loop" \in RunPoints /\ "stopPhm" \in ShutdownPoints
    BY DEF TypeOK, PcTypes, RunPoints, ShutdownPoints
  <1>2. PcTypes'
    BY <1>1, GotoTypes DEF Return
  <1>3. 0 \in Byte
    BY DEF Byte
  <1> QED BY <1>2, <1>3 DEF Return, TypeOK

(* What Perform asks for is a request of ara::sm. *)
LEMMA PerformTypes ==
  ASSUME SmTypeOK, NEW request \in Requests, Perform(request)
  PROVE  SmTypeOK'
  <1>1. CASE \E state \in MachineState : request = Machine(state)
    BY <1>1, MachineTypes DEF Perform, Machine
  <1>2. CASE \E g \in FunctionGroups : request = Off(g)
    BY <1>2, GroupTypes DEF Perform, Off, FunctionGroupState
  <1> QED BY <1>1, <1>2 DEF Requests

LEMMA EscalateTypes ==
  ASSUME TypeOK, NEW t \in Threads, Escalate(t)
  PROVE  TypeOK'
  <1>1. PcTypes /\ SmTypeOK
    BY DEF TypeOK, PcTypes
  <1>2. CASE Notify(t) \/ (Compare(t) /\ Return(t, "escalate"))
    <2>1. PcTypes' /\ newLevel' \in [Threads -> Byte] /\ UNCHANGED todo
      BY <1>2, ReturnTypes DEF Notify
    <2>2. UNCHANGED <<machineVars, phmVars, running, currentLevel, lastMcuStatus>>
      BY <1>2 DEF Notify, Compare
    <2>3. SmTypeOK'
      BY <1>1, <2>2, UnchangedSm
    <2> QED BY <2>1, <2>2, <2>3, LocalTypes DEF TypeOK, phmVars, machineVars
  <1>3. CASE Compare(t) /\ ~Return(t, "escalate")
    <2>1. /\ Goto(t, "escalate", "store")
          /\ UNCHANGED <<callVars, machineVars, phmVars, running, currentLevel, lastMcuStatus>>
      BY <1>3 DEF Compare
    <2>2. PcTypes'
      BY <1>1, <2>1, GotoTypes DEF RunPoints, ShutdownPoints, Escalating
    <2>3. SmTypeOK'
      BY <1>1, <2>1, UnchangedSm
    <2> QED BY <2>1, <2>2, <2>3, LocalTypes DEF TypeOK, phmVars, machineVars, callVars
  <1>4. CASE Store(t)
    <2>1. PcTypes'
      BY <1>1, <1>4, GotoTypes DEF Store, RunPoints, ShutdownPoints, Escalating
    <2>2. newLevel[t] \in Byte
      BY DEF TypeOK
    <2>3. todo' \in [Threads -> Seq(Requests)]
      BY <1>4, <2>2, ActionOfLevel DEF Store, TypeOK
    <2>4. SmTypeOK'
      BY <1>1, <1>4, UnchangedSm DEF Store
    <2> QED BY <1>4, <2>1, <2>2, <2>3, <2>4, LocalTypes DEF Store, TypeOK, phmVars, machineVars
  <1>5. CASE Act(t) /\ todo[t] # <<>>
    <2>1. todo[t] \in Seq(Requests)
      BY DEF TypeOK
    <2>2. Head(todo[t]) \in Requests /\ Tail(todo[t]) \in Seq(Requests)
      BY <1>5, <2>1
    <2>7. undoneBy' \in {"nobody", "escalation", "others"}
      BY <1>5 DEF Act, Undo, TypeOK
    <2>3. /\ Perform(Head(todo[t]))
          /\ todo' = [todo EXCEPT ![t] = Tail(@)]
          /\ UNCHANGED <<pc, phmVars, running, currentLevel, lastMcuStatus, newLevel>>
      BY <1>5 DEF Act
    <2>4. SmTypeOK'
      BY <1>1, <2>2, <2>3, PerformTypes
    <2>5. todo' \in [Threads -> Seq(Requests)]
      BY <2>2, <2>3 DEF TypeOK
    <2>6. PcTypes'
      BY <1>1, <2>3 DEF PcTypes
    <2> QED BY <2>3, <2>4, <2>5, <2>6, <2>7, LocalTypes DEF TypeOK, phmVars, machineVars
  <1>6. CASE Act(t) /\ todo[t] = <<>>
    <2>1. /\ Goto(t, "act", "notify")
          /\ UNCHANGED <<machineVars, todo, phmVars, running, currentLevel, lastMcuStatus, newLevel>>
      BY <1>6 DEF Act
    <2>2. PcTypes'
      BY <1>1, <2>1, GotoTypes DEF RunPoints, ShutdownPoints, Escalating
    <2>3. SmTypeOK'
      BY <1>1, <2>1, UnchangedSm
    <2> QED BY <2>1, <2>2, <2>3, LocalTypes DEF TypeOK, phmVars, machineVars
  <1> QED BY <1>2, <1>3, <1>4, <1>5, <1>6 DEF Escalate

LEMMA EnvironmentTypes ==
  ASSUME TypeOK, McuReport \/ OtherApplications \/ UNCHANGED vars
  PROVE  TypeOK'
  <1>1. SmTypeOK'
    BY OthersKeepTypes, UnchangedSm DEF TypeOK, McuReport, OnMcuSafetyStatus, vars
  <1>2. lastMcuStatus' \in McuSafetyStatus
    <2>1. McuReports \subseteq McuSafetyStatus
      BY DEF McuSafetyStatus, SafetyLevel, Byte
    <2> QED BY <2>1 DEF TypeOK, McuReport, OnMcuSafetyStatus, OtherApplications, vars
  <1>3. UNCHANGED <<phmVars, running, currentLevel, pc, callVars>>
    BY DEF McuReport, OnMcuSafetyStatus, OtherApplications, vars
  <1>4. undoneBy' \in {"nobody", "escalation", "others"}
    BY DEF McuReport, OnMcuSafetyStatus, OtherApplications, Undo, vars, machineVars, TypeOK
  <1> QED BY <1>1, <1>2, <1>3, <1>4 DEF TypeOK, phmVars, callVars

LEMMA NextTypes == TypeOK /\ [Next]_vars => TypeOK'
  BY SwcInitTypes, LoopTypes, CheckTypes, EscalateTypes, EnvironmentTypes
     DEF Next, RunThread, ShutdownThread, Threads
-----------------------------------------------------------------------------
(* The safe stop. *)

(* A step that leaves the machine shut down and what is left to do alone,     *)
(* calls for no safe stop, and begins and ends no action.                     *)
LEMMA QuietKeepsStop ==
  ASSUME StopInv, UNCHANGED todo, StopReached' => StopReached,
         ShutDown => ShutDown', undoneBy' = "others" => machineState' = "kError",
         \A t \in Threads : pc'[t] = "act" <=> pc[t] = "act"
  PROVE  StopInv'
  BY DEF StopInv, Stopping

(* No request but those for kError and kShutdown is granted in kShutdown, nor *)
(* in kError.                                                                 *)
LEMMA ShutdownStays ==
  ASSUME NEW state, state \notin {"kError", "kShutdown"}, machineState \in {"kError", "kShutdown"},
         RequestMachineStateChange(state)
  PROVE  machineState' = machineState
  BY DEF RequestMachineStateChange, IsValidTransition

(* Whatever another application asks for, a shutdown stays or is undone by it. *)
LEMMA OthersKeepShutDown ==
  ASSUME TypeOK, undoneBy = "others" => machineState = "kError", OtherApplications
  PROVE  /\ ShutDown => ShutDown'
         /\ undoneBy' = "others" => machineState' = "kError"
  <1>1. machineState \in {"kError", "kShutdown"} => machineState' \in {"kError", "kShutdown"}
    BY DEF OtherApplications, RequestMachineStateChange, IsValidTransition, TriggerErrorState,
           ShutdownMachine, RequestGroupState, RegisterFunctionGroup, InitializeGroups
  <1>2. Undo("others")
    BY DEF OtherApplications
  <1> QED BY <1>1, <1>2 DEF Undo, ShutDown

(* The points outside an action, and a thread that goes to one of them. *)
Quiet(point) == point \notin {"act", "notify"}

LEMMA GotoBeginsNoAct ==
  ASSUME TypeOK, NEW t \in Threads, NEW from, NEW to, from # "act", Quiet(to), Goto(t, from, to),
         currentLevel' = currentLevel, \A u \in Threads \ {t} : newLevel'[u] = newLevel[u]
  PROVE  /\ \A u \in Threads : pc'[u] = "act" <=> pc[u] = "act"
         /\ StopReached' => StopReached
  <1>1. pc'[t] = to /\ \A u \in Threads \ {t} : pc'[u] = pc[u]
    BY DEF TypeOK, Goto
  <1>2. \A u \in Threads : pc'[u] = "act" <=> pc[u] = "act"
    BY <1>1 DEF Goto, Quiet
  <1>3. \A u \in Threads : pc'[u] \in {"act", "notify"} =>
          pc[u] \in {"act", "notify"} /\ newLevel'[u] = newLevel[u]
    BY <1>1 DEF Quiet
  <1> QED BY <1>2, <1>3 DEF StopReached

LEMMA StoreKeepsStop ==
  ASSUME Inv, NEW t \in Threads, Store(t)
  PROVE  StopInv'
  <1>1. newLevel[t] \in Byte
    BY DEF Inv, TypeOK
  <1>2. /\ pc'[t] = "act" /\ todo'[t] = SafetyAction(newLevel[t])
        /\ \A u \in Threads \ {t} : pc'[u] = pc[u] /\ todo'[u] = todo[u]
        /\ currentLevel' = newLevel[t]
    BY DEF Store, Goto, Inv, TypeOK
  <1>3. \A u \in Threads : pc'[u] = "act" => todo'[u] \in StopsLeft \cup OthersLeft
    BY <1>1, <1>2, ActionOfLevel DEF Inv, StopInv
  <1>4. newLevel[t] \in {3, 4} => Stopping(t)'
    BY <1>1, <1>2, ActionOfLevel DEF Stopping, StopsLeft
  <1>5. newLevel[t] \notin {3, 4} /\ StopReached' => StopReached
    BY <1>2 DEF Store, StopReached
  <1>6. \A u \in Threads : Stopping(u) => Stopping(u)'
    BY <1>2 DEF Store, Goto, Stopping
  <1>7. UNCHANGED <<machineState, undoneBy>>
    BY DEF Store, machineVars, smVars
  <1>8. StopReached' => ShutDown' \/ \E u \in Threads : Stopping(u)'
    BY <1>4, <1>5, <1>6, <1>7 DEF Inv, StopInv, ShutDown
  <1> QED BY <1>3, <1>7, <1>8 DEF StopInv, Inv

(* Only the request for kError brings the machine out of kShutdown, and a     *)
(* thread that made it has the one for kShutdown left.                        *)
LEMMA ActKeepsStop ==
  ASSUME Inv, NEW t \in Threads, Act(t)
  PROVE  StopInv'
  <1>1. pc[t] = "act" /\ todo[t] \in StopsLeft \cup OthersLeft
    BY DEF Act, Inv, StopInv
  <1>2. CASE todo[t] = <<>>
    <2>1. Goto(t, "act", "notify") /\ UNCHANGED <<machineState, undoneBy, todo, currentLevel, newLevel>>
      BY <1>2 DEF Act, machineVars, smVars
    <2>2. pc'[t] = "notify" /\ \A u \in Threads \ {t} : pc'[u] = pc[u]
      BY <2>1 DEF Goto, Inv, TypeOK
    <2>3. ~Stopping(t)
      BY <1>2 DEF Stopping, StopsLeft, SafeStop
    <2>4. StopReached' => StopReached
      BY <1>1, <2>1, <2>2 DEF StopReached
    <2>5. \A u \in Threads : (pc'[u] = "act" => pc[u] = "act") /\ (Stopping(u) => Stopping(u)')
      BY <2>1, <2>2, <2>3 DEF Stopping
    <2> QED BY <2>1, <2>4, <2>5 DEF Inv, StopInv, ShutDown
  <1>3. CASE todo[t] # <<>>
    <2>1. /\ Perform(Head(todo[t])) /\ Undo("escalation")
          /\ todo' = [todo EXCEPT ![t] = Tail(@)]
          /\ UNCHANGED <<pc, currentLevel, newLevel>>
      BY <1>3 DEF Act
    <2>7. Head(todo[t]) \in {Machine("kError"), Machine("kShutdown"), Machine("kParked"),
                             Off("Infotainment"), Off("OTA")}
      BY <1>1, <1>3 DEF StopsLeft, OthersLeft, SafeStop
    <2>8. machineState \in {"kError", "kShutdown"} =>
            machineState' \in {"kError", "kShutdown"}
      BY <2>1, <2>7 DEF Perform, Machine, Off, RequestMachineStateChange, IsValidTransition,
                        RequestGroupState
    <2>9. undoneBy' = "others" => machineState' = "kError"
      BY <2>1, <2>8 DEF Undo, Inv, StopInv
    <2>6. StopReached' <=> StopReached
      BY <2>1 DEF StopReached
    <2>2. todo'[t] = Tail(todo[t]) /\ \A u \in Threads \ {t} : todo'[u] = todo[u]
      BY <2>1 DEF Inv, TypeOK
    <2>3. CASE todo[t] = <<Machine("kShutdown")>>
      <3>1. machineState' = "kShutdown"
        BY <2>1, <2>3 DEF Perform, Machine, RequestMachineStateChange, IsValidTransition
      <3>2. todo'[t] = <<>>
        BY <2>2, <2>3
      <3> QED BY <2>1, <2>2, <2>9, <3>1, <3>2 DEF Inv, StopInv, OthersLeft, ShutDown
    <2>4. CASE todo[t] = SafeStop
      <3>1. todo'[t] = <<Machine("kShutdown")>>
        BY <2>2, <2>4 DEF SafeStop
      <3>2. Stopping(t)'
        BY <1>1, <2>1, <3>1 DEF Stopping, StopsLeft
      <3> QED BY <2>1, <2>2, <2>9, <3>1, <3>2 DEF Inv, StopInv, StopsLeft
    <2>5. CASE todo[t] \in OthersLeft
      <3>1. todo'[t] \in OthersLeft
        <4> DEFINE I == Off("Infotainment")
                   O == Off("OTA")
                   P == Machine("kParked")
        <4>1. /\ Tail(<<I>>) = <<>> /\ Tail(<<P>>) = <<>>
              /\ Tail(<<I, O, P>>) = <<O, P>> /\ Tail(<<O, P>>) = <<P>>
          <5> HIDE DEF I, O, P
          <5> QED OBVIOUS
        <4>2. todo[t] \in {<<I>>, <<I, O, P>>, <<O, P>>, <<P>>}
          BY <1>3, <2>5 DEF OthersLeft
        <4>3. Tail(todo[t]) \in {<<>>, <<O, P>>, <<P>>}
          <5> HIDE DEF I, O, P
          <5> QED BY <4>1, <4>2
        <4> QED BY <2>2, <4>3 DEF OthersLeft
      <3>2. ~Stopping(t)
        BY <1>3, <2>5 DEF Stopping, StopsLeft, SafeStop, OthersLeft, Machine, Off
      <3>3. machineState \in {"kError", "kShutdown"} => machineState' = machineState
        <4>1. Head(todo[t]) \in {Off("Infotainment"), Off("OTA"), Machine("kParked")}
          BY <1>3, <2>5 DEF OthersLeft
        <4>2. CASE Head(todo[t]) = Machine("kParked")
          BY <2>1, <4>2, ShutdownStays DEF Perform, Machine
        <4>3. CASE Head(todo[t]) \in {Off("Infotainment"), Off("OTA")}
          BY <2>1, <4>3 DEF Perform, Off, RequestGroupState
        <4> QED BY <4>1, <4>2, <4>3
      <3>4. ShutDown => ShutDown'
        BY <2>1, <3>3 DEF ShutDown, Undo
      <3> QED BY <2>1, <2>2, <2>6, <2>9, <3>1, <3>2, <3>4 DEF Inv, StopInv, Stopping
    <2> QED BY <1>1, <2>3, <2>4, <2>5 DEF StopsLeft
  <1> QED BY <1>2, <1>3

LEMMA NextStop == Inv /\ [Next]_vars => StopInv'
  <1> SUFFICES ASSUME Inv, [Next]_vars PROVE StopInv'
    OBVIOUS
  <1>1. TypeOK /\ StopInv /\ "run" \in Threads /\ "shutdown" \in Threads
    BY DEF Inv, Threads
  <1>2. CASE SwcInit \/ Run \/ RunLoop \/ CheckPhm \/ CheckMcu
    <2>1. UNCHANGED <<currentLevel, todo, machineState, undoneBy>>
      BY <1>2 DEF SwcInit, InitializeGroups, Run, RunLoop, CheckPhm, CheckMcu, CallEscalate,
                  machineVars, smVars, callVars
    <2>2. \E from, to : from # "act" /\ Quiet(to) /\ Goto("run", from, to)
      BY <1>2 DEF SwcInit, Run, RunLoop, CheckPhm, CheckMcu, CallEscalate, Quiet
    <2>3. \A u \in Threads \ {"run"} : newLevel'[u] = newLevel[u]
      BY <1>1, <1>2 DEF TypeOK, SwcInit, Run, RunLoop, CheckPhm, CheckMcu, CallEscalate, callVars
    <2> QED BY <1>1, <2>1, <2>2, <2>3, GotoBeginsNoAct, QuietKeepsStop DEF StopInv, ShutDown
  <1>3. CASE StopPhm \/ ShutdownSwc
    <2>1. UNCHANGED <<currentLevel, todo, machineState, undoneBy>>
      BY <1>3 DEF StopPhm, ShutdownSwc, CallEscalate, machineVars, smVars, callVars
    <2>2. \E from, to : from # "act" /\ Quiet(to) /\ Goto("shutdown", from, to)
      BY <1>3 DEF StopPhm, ShutdownSwc, CallEscalate, Quiet
    <2>3. \A u \in Threads \ {"shutdown"} : newLevel'[u] = newLevel[u]
      BY <1>1, <1>3 DEF TypeOK, StopPhm, ShutdownSwc, CallEscalate, callVars
    <2> QED BY <1>1, <2>1, <2>2, <2>3, GotoBeginsNoAct, QuietKeepsStop DEF StopInv, ShutDown
  <1>4. CASE \E t \in Threads : Compare(t) \/ Notify(t)
    <2> PICK t \in Threads : Compare(t) \/ Notify(t)
      BY <1>4
    <2>1. UNCHANGED <<currentLevel, todo, machineState, undoneBy>>
      BY DEF Compare, Notify, Return, machineVars, smVars, callVars
    <2>2. \E from, to : from # "act" /\ Quiet(to) /\ Goto(t, from, to)
      BY DEF Compare, Notify, Return, Quiet
    <2>3. \A u \in Threads \ {t} : newLevel'[u] = newLevel[u]
      BY <1>1 DEF TypeOK, Compare, Notify, Return, callVars
    <2> QED BY <1>1, <2>1, <2>2, <2>3, GotoBeginsNoAct, QuietKeepsStop DEF StopInv, ShutDown
  <1>5. CASE \E t \in Threads : Store(t)
    BY <1>5, StoreKeepsStop
  <1>6. CASE \E t \in Threads : Act(t)
    BY <1>6, ActKeepsStop
  <1>7. CASE McuReport \/ UNCHANGED vars
    <2>1. UNCHANGED <<currentLevel, newLevel, todo, machineState, undoneBy, pc>>
      BY <1>7 DEF McuReport, OnMcuSafetyStatus, machineVars, smVars, callVars, vars
    <2> QED BY <1>1, <2>1, QuietKeepsStop DEF StopReached, StopInv, ShutDown
  <1>8. CASE OtherApplications
    <2>1. UNCHANGED <<currentLevel, newLevel, todo, pc>>
      BY <1>8 DEF OtherApplications, callVars
    <2>2. (ShutDown => ShutDown') /\ (undoneBy' = "others" => machineState' = "kError")
      BY <1>1, <1>8, OthersKeepShutDown DEF StopInv
    <2> QED BY <1>1, <2>1, <2>2, QuietKeepsStop DEF StopReached
  <1> QED BY <1>2, <1>3, <1>4, <1>5, <1>6, <1>7, <1>8
          DEF Next, RunThread, ShutdownThread, Escalate, Threads

LEMMA SpecInv == Spec => []Inv
  <1>1. Inv /\ [Next]_vars => Inv'
    BY NextTypes, NextStop DEF Inv
  <1> QED BY <1>1, InitInv, PTL DEF Spec

(* Type correctness of the SWC, of ara::sm and of what it uses of ara::phm. *)
THEOREM SafetyTypes == Spec => []TypeOK
  BY SpecInv, PTL DEF Inv

(* When no action is under way, a level of 3 or 4 means the machine has been  *)
(* shut down, and has left kShutdown only where another application asked for *)
(* kError, for any groups and reports and every interleaving of the two       *)
(* escalations with each other and with any requests of others.               *)
THEOREM SafeStops == Spec => []SafeStopIsDone
  <1>1. Inv => SafeStopIsDone
    BY DEF Inv, StopInv, StopReached, Stopping, SafeStopIsDone
  <1> QED BY <1>1, SpecInv, PTL
-----------------------------------------------------------------------------
(* A request that is granted out of kError or kShutdown is for one of them. *)
LEMMA RequestDoesNotReturn ==
  ASSUME machineState \in {"kError", "kShutdown"}, NEW state, RequestMachineStateChange(state)
  PROVE  machineState' \in {"kError", "kShutdown"}
  BY DEF RequestMachineStateChange, IsValidTransition

(* Whoever asks for what, the machine does not come back into service. *)
THEOREM NoReturn == Spec => NoReturnToService
  <1>1. [Next]_vars => (machineState \in {"kError", "kShutdown"}
                          => machineState' \in {"kError", "kShutdown"})
    <2> SUFFICES ASSUME [Next]_vars, machineState \in {"kError", "kShutdown"}
                 PROVE  machineState' \in {"kError", "kShutdown"}
      OBVIOUS
    <2>1. CASE \E t \in Threads : Act(t)
      BY <2>1, RequestDoesNotReturn DEF Act, Perform, RequestGroupState, machineVars, smVars
    <2>2. CASE OtherApplications
      BY <2>2, RequestDoesNotReturn
         DEF OtherApplications, TriggerErrorState, ShutdownMachine, RequestGroupState,
             RegisterFunctionGroup, InitializeGroups
    <2>3. CASE UNCHANGED machineState
      BY <2>3
    <2>4. CASE RunThread
      BY <2>1, <2>4 DEF RunThread, SwcInit, InitializeGroups, Run, RunLoop, CheckPhm, CheckMcu,
                        Escalate, Compare, Store, Notify, machineVars, smVars, Threads
    <2>5. CASE ShutdownThread
      BY <2>1, <2>5 DEF ShutdownThread, StopPhm, Escalate, Compare, Store, Notify, machineVars, smVars, Threads
    <2>6. CASE ShutdownSwc \/ McuReport \/ UNCHANGED vars
      BY <2>6 DEF ShutdownSwc, McuReport, OnMcuSafetyStatus, machineVars, smVars, vars
    <2> QED BY <2>2, <2>4, <2>5, <2>6 DEF Next
  <1> QED BY <1>1, PTL DEF Spec, NoReturnToService
-----------------------------------------------------------------------------
(* Where EscalateSafetyLevel returns. *)
LEMMA ReturnPoint ==
  ASSUME TypeOK, [Next]_vars, NEW t \in Threads, pc[t] \in Escalating, pc'[t] \notin Escalating
  PROVE  pc[t] = "notify" \/ (pc[t] = "escalate" /\ newLevel[t] <= currentLevel)
  <1>1. PICK u \in Threads : Compare(u) \/ Notify(u)
    <2>1. CASE SwcInit \/ Run \/ RunLoop \/ CheckPhm \/ CheckMcu \/ ShutdownSwc \/ StopPhm
      <3>1. \E u \in Threads : \E from, to : from \notin Escalating /\ Goto(u, from, to)
        BY <2>1 DEF SwcInit, Run, RunLoop, CheckPhm, CheckMcu, CallEscalate, ShutdownSwc, StopPhm,
                    Escalating, Threads
      <3> QED BY <3>1 DEF TypeOK, Goto
    <2>2. CASE McuReport \/ OtherApplications \/ UNCHANGED vars
      BY <2>2 DEF McuReport, OnMcuSafetyStatus, OtherApplications, vars
    <2>3. CASE \E u \in Threads : Store(u) \/ Act(u)
      <3>1. \E u \in Threads : \E from, to : to \in Escalating /\ (Goto(u, from, to) \/ UNCHANGED pc)
        BY <2>3 DEF Store, Act, Escalating
      <3> QED BY <3>1 DEF TypeOK, Goto
    <2> QED BY <2>1, <2>2, <2>3 DEF Next, RunThread, ShutdownThread, Escalate, Threads
  <1>2. u = t
    BY <1>1 DEF Compare, Notify, Return, Goto, TypeOK
  <1> QED BY <1>1, <1>2 DEF Compare, Notify, Return, Goto, TypeOK, Escalating

(* Every escalation to level 3 or 4 stops the machine, whatever the other     *)
(* thread stores and asks for meanwhile: it returns where StopReached holds.  *)
THEOREM EscalationsStop == Spec => EscalationStops
  <1> DEFINE ShutsDown(u) == pc[u] = "act" /\ \E i \in DOMAIN todo[u] : todo[u][i] = Machine("kShutdown")
  <1>1. ASSUME NEW u, Stopping(u) PROVE ShutsDown(u)
    <2>1. CASE todo[u] = SafeStop
      <3>1. 2 \in DOMAIN todo[u] /\ todo[u][2] = Machine("kShutdown")
        BY <2>1 DEF SafeStop
      <3> QED BY <1>1, <3>1 DEF Stopping
    <2>2. CASE todo[u] = <<Machine("kShutdown")>>
      <3>1. 1 \in DOMAIN todo[u] /\ todo[u][1] = Machine("kShutdown")
        BY <2>2
      <3> QED BY <1>1, <3>1 DEF Stopping
    <2> QED BY <1>1, <2>1, <2>2 DEF Stopping, StopsLeft
  <1> HIDE DEF ShutsDown
  <1>2. ASSUME Inv, [Next]_vars, NEW t \in Threads,
               pc[t] \in Escalating, pc'[t] \notin Escalating, newLevel[t] \in {3, 4}
        PROVE  \/ ShutDown \/ currentLevel > 4
               \/ \E u \in Threads : ShutsDown(u)
    <2>1. \/ pc[t] = "notify"
          \/ (pc[t] = "escalate" /\ newLevel[t] <= currentLevel)
      BY <1>2, ReturnPoint DEF Inv
    <2>2. currentLevel \in Nat
      BY <1>2 DEF Inv, TypeOK, Byte
    <2>3. StopReached \/ currentLevel > 4
      BY <1>2, <2>1, <2>2 DEF StopReached
    <2> QED BY <1>1, <1>2, <2>3 DEF Inv, StopInv
  <1>3. Inv /\ [Next]_vars =>
          [\A t \in Threads :
             pc[t] \in Escalating /\ pc'[t] \notin Escalating /\ newLevel[t] \in {3, 4} =>
               \/ ShutDown \/ currentLevel > 4
               \/ \E u \in Threads :
                     /\ pc[u] = "act"
                     /\ \E i \in DOMAIN todo[u] : todo[u][i] = Machine("kShutdown")]_vars
    BY <1>2 DEF ShutsDown
  <1> QED BY <1>3, SpecInv, PTL DEF Spec, EscalationStops
-----------------------------------------------------------------------------
(* The levels in use are those of the enumeration, though they travel in a    *)
(* byte and are cast.                                                         *)
LevelInv ==
  /\ lastMcuStatus.safetyLevel \in SafetyLevel
  /\ currentLevel \in SafetyLevel
  /\ \A t \in Threads : newLevel[t] \in SafetyLevel

(* No step brings in a level that is not in use already or a constant. *)
LEMMA LevelStep == TypeOK /\ LevelInv /\ [Next]_vars => LevelInv'
  <1> SUFFICES ASSUME TypeOK, LevelInv, [Next]_vars PROVE LevelInv'
    OBVIOUS
  <1>1. newLevel \in [Threads -> Byte] /\ {0, 2, 3, 4} \subseteq SafetyLevel
    BY DEF TypeOK, SafetyLevel
  <1>2. ASSUME NEW t \in Threads, NEW level \in SafetyLevel,
               newLevel' = [newLevel EXCEPT ![t] = level], UNCHANGED <<currentLevel, lastMcuStatus>>
        PROVE  LevelInv'
    BY <1>1, <1>2 DEF LevelInv
  <1>3. CASE UNCHANGED <<newLevel, currentLevel, lastMcuStatus>>
    BY <1>3 DEF LevelInv
  <1>4. CASE CheckPhm \/ CheckMcu \/ ShutdownSwc
    <2>1. PhmLevel \in SafetyLevel /\ McuLevel(lastMcuStatus) \in SafetyLevel
      BY <1>1 DEF PhmLevel, McuLevel, LevelInv
    <2> QED BY <1>1, <1>2, <1>3, <1>4, <2>1
            DEF CheckPhm, CheckMcu, ShutdownSwc, CallEscalate, callVars, Threads
  <1>5. CASE \E t \in Threads : Escalate(t)
    <2> PICK t \in Threads : Escalate(t)
      BY <1>5
    <2>1. CASE Compare(t) \/ Notify(t)
      BY <1>1, <1>2, <1>3, <2>1 DEF Compare, Notify, Return, callVars
    <2>2. CASE Store(t)
      BY <2>2 DEF Store, LevelInv
    <2>3. CASE Act(t)
      BY <1>3, <2>3 DEF Act
    <2> QED BY <2>1, <2>2, <2>3 DEF Escalate
  <1>6. CASE McuReport
    BY <1>6 DEF McuReport, OnMcuSafetyStatus, LevelInv, callVars
  <1>7. CASE SwcInit \/ Run \/ RunLoop \/ StopPhm \/ OtherApplications \/ UNCHANGED vars
    BY <1>3, <1>7 DEF SwcInit, Run, RunLoop, StopPhm, OtherApplications, callVars, vars
  <1> QED BY <1>4, <1>5, <1>6, <1>7 DEF Next, RunThread, ShutdownThread, Threads

(* Only what uninitialised memory holds leads beyond level 4: where the first *)
(* status is a valid one, the level stays in the enumeration, so that by      *)
(* EscalationsStop every escalation to 3 or 4 has shut the machine down or is *)
(* about to, or another application has undone it.                            *)
THEOREM LevelsStayEnumerated ==
  Spec /\ lastMcuStatus.safetyLevel \in SafetyLevel => [](currentLevel \in SafetyLevel)
  <1>1. Init /\ lastMcuStatus.safetyLevel \in SafetyLevel => LevelInv
    BY DEF Init, LevelInv, SafetyLevel
  <1>2. LevelInv => currentLevel \in SafetyLevel
    BY DEF LevelInv
  <1> QED BY <1>1, <1>2, LevelStep, SafetyTypes, PTL DEF Spec
-----------------------------------------------------------------------------
(* A list of requests has three at most. *)
LEMMA LenOfAction == ASSUME NEW list \in StopsLeft \cup OthersLeft PROVE Len(list) \in 0..3
  BY DEF StopsLeft, OthersLeft, SafeStop

(* Run() is not brought back by what is not its own step. *)
LEMMA OthersKeepRun ==
  ASSUME TypeOK, ShutdownThread \/ ShutdownSwc \/ McuReport \/ OtherApplications \/ UNCHANGED vars
  PROVE  /\ pc'["run"] = pc["run"] /\ todo'["run"] = todo["run"]
         /\ ~running => ~running'
  <1>1. CASE Escalate("shutdown")
    BY <1>1 DEF Escalate, Compare, Store, Act, Notify, Return, Goto, TypeOK, callVars, Threads
  <1>2. CASE StopPhm \/ ShutdownSwc
    BY <1>2 DEF StopPhm, ShutdownSwc, CallEscalate, Goto, TypeOK, callVars, Threads
  <1>3. CASE McuReport \/ OtherApplications \/ UNCHANGED vars
    BY <1>3 DEF McuReport, OnMcuSafetyStatus, OtherApplications, callVars, vars
  <1> QED BY <1>1, <1>2, <1>3 DEF ShutdownThread

(* Every step of Run() is a step towards its end. *)
LEMMA RunStepsDown ==
  ASSUME Inv, RunThread, ~running, pc["run"] \notin {"init", "start"}
  PROVE  /\ ~running' /\ pc'["run"] \notin {"init", "start"}
         /\ StepsLeft' < StepsLeft /\ StepsLeft' <= StepsLeft
  <1> DEFINE requests == Len(todo["run"])
  <1>1. /\ \A from, to : Goto("run", from, to) => pc["run"] = from /\ pc'["run"] = to
        /\ newLevel["run"] \in Byte /\ todo \in [Threads -> Seq(Requests)] /\ "run" \in Threads
    BY DEF Goto, Inv, TypeOK, Threads
  <1>2. CASE RunLoop \/ CheckPhm \/ CheckMcu \/ Compare("run") \/ Notify("run")
    <2>1. \E from, to : /\ Goto("run", from, to)
                        /\ <<from, to>> \in {<<"loop", "ended">>, <<"check", "escalate">>,
                             <<"check", "mcu">>, <<"mcu", "escalate">>, <<"mcu", "loop">>,
                             <<"escalate", "loop">>, <<"escalate", "store">>, <<"notify", "loop">>}
      BY <1>2 DEF RunLoop, CheckPhm, CheckMcu, CallEscalate, Compare, Notify, Return
    <2>2. running' = running
      BY <1>2 DEF RunLoop, CheckPhm, CheckMcu, Compare, Notify
    <2> QED BY <1>1, <2>1, <2>2 DEF StepsLeft
  <1>3. CASE Store("run")
    <2>1. /\ pc["run"] = "store" /\ pc'["run"] = "act" /\ running' = running
          /\ todo'["run"] = SafetyAction(newLevel["run"])
      BY <1>1, <1>3 DEF Store
    <2>2. PICK n \in 0..3 : Len(todo'["run"]) = n
      BY <1>1, <2>1, ActionOfLevel, LenOfAction
    <2>3. StepsLeft = 7
      BY <2>1 DEF StepsLeft
    <2>4. StepsLeft' = 3 + n
      BY <2>1, <2>2 DEF StepsLeft
    <2>5. StepsLeft' < StepsLeft /\ StepsLeft' <= StepsLeft
      BY <2>3, <2>4
    <2> QED BY <2>1, <2>5
  <1>4. CASE Act("run")
    <2>1. requests \in 0..3 /\ pc["run"] = "act" /\ running' = running
      BY <1>1, <1>4, LenOfAction DEF Act, Inv, StopInv
    <2>2. CASE todo["run"] = <<>>
      BY <1>1, <1>4, <2>1, <2>2 DEF Act, StepsLeft
    <2>3. CASE todo["run"] # <<>>
      <3>1. todo'["run"] = Tail(todo["run"]) /\ pc'["run"] = "act"
        BY <1>1, <1>4, <2>1, <2>3 DEF Act
      <3>2. Len(Tail(todo["run"])) = requests - 1
        BY <1>1, <2>3, HeadTailProperties
      <3> QED BY <2>1, <3>1, <3>2 DEF StepsLeft
    <2> QED BY <2>2, <2>3
  <1> QED BY <1>1, <1>2, <1>3, <1>4 DEF RunThread, Escalate, SwcInit, Run

(* After Shutdown(), Run() ends within ten of its steps, for any reports.     *)
THEOREM ShutdownBoundsRun == Spec => RunReturnsSoon
  <1>1. ASSUME Inv PROVE StepsLeft \in 0..10
    <2>1. CASE pc["run"] = "act"
      <3>1. PICK n \in 0..3 : Len(todo["run"]) = n
        BY <1>1, <2>1, LenOfAction DEF Inv, StopInv, Threads
      <3>2. StepsLeft = 3 + n
        BY <2>1, <3>1 DEF StepsLeft
      <3> QED BY <3>2
    <2>2. CASE pc["run"] # "act"
      BY <2>2 DEF StepsLeft
    <2> QED BY <2>1, <2>2
  <1>2. ASSUME Inv, [Next]_vars, ~running, pc["run"] \notin {"init", "start"}
        PROVE  /\ ~running' /\ pc'["run"] \notin {"init", "start"}
               /\ RunThread => StepsLeft' < StepsLeft
               /\ StepsLeft' <= StepsLeft
    <2>1. CASE RunThread
      BY <1>2, <2>1, RunStepsDown
    <2>2. CASE ~RunThread
      <3>1. pc'["run"] = pc["run"] /\ todo'["run"] = todo["run"] /\ ~running'
        BY <1>2, <2>2, OthersKeepRun DEF Next, Inv
      <3>2. StepsLeft' = StepsLeft
        BY <3>1 DEF StepsLeft
      <3> QED BY <1>1, <1>2, <2>2, <3>1, <3>2
    <2> QED BY <2>1, <2>2
  <1>3. Inv /\ [Next]_vars =>
          [~running /\ pc["run"] \notin {"init", "start"} =>
             /\ ~running' /\ pc'["run"] \notin {"init", "start"}
             /\ StepsLeft \in 0..10
             /\ RunThread => StepsLeft' < StepsLeft
             /\ StepsLeft' <= StepsLeft]_vars
    BY <1>1, <1>2
  <1> QED BY <1>3, SpecInv, PTL DEF Spec, RunReturnsSoon
=============================================================================
