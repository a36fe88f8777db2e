--------------------------- MODULE StateManagement ---------------------------
(***************************************************************************)
(* ara::sm: the machine state and the function groups.  Each operator is   *)
(* one critical section; modules that extend this one say who calls it.    *)
(* The state-change callbacks only observe and are left out, and so is a    *)
(* handle to a group that has been replaced: what is asked of it changes no *)
(* group that is registered.                                                *)
(***************************************************************************)

CONSTANT FunctionGroups   (* DriveAssist, Infotainment, Diagnostic, OTA *)

VARIABLES
  machineState,   (* StateManagement::currentState_                             *)
  groups          (* functionGroups_ and the currentState_ of each group; empty
                     until Initialize()                                         *)

smVars == <<machineState, groups>>

MachineState == {"kStartup", "kDriving", "kParked", "kCharging", "kShutdown", "kError"}
FunctionGroupState == {"kOff", "kOn", "kSuspend", "kDiag"}

SmTypeOK ==
  /\ machineState \in MachineState
  /\ DOMAIN groups \subseteq FunctionGroups
  /\ groups \in [DOMAIN groups -> FunctionGroupState]

SmInit == machineState = "kStartup" /\ groups = [g \in {} |-> "kOff"]

(* RegisterFunctionGroup() puts a new group, off, in the place of one that has *)
(* its name.                                                                   *)
RegisterFunctionGroup(g) ==
  /\ groups' = [x \in DOMAIN groups \cup {g} |-> IF x = g THEN "kOff" ELSE groups[x]]
  /\ UNCHANGED machineState

(* Initialize() registers fresh groups, all off, each time it is called. *)
InitializeGroups ==
  /\ groups' = [g \in FunctionGroups |-> "kOff"]
  /\ UNCHANGED machineState

(* A mutant: the default branch accepts. *)
IsValidTransitionLax(from, to) ==
  \/ to \in {"kShutdown", "kError"}
  \/ from = "kStartup"  /\ to \in {"kDriving", "kParked"}
  \/ from = "kDriving"  /\ to = "kParked"
  \/ from = "kParked"   /\ to \in {"kDriving", "kCharging"}
  \/ from = "kCharging" /\ to = "kParked"
  \/ from \in {"kShutdown", "kError"}

IsValidTransition(from, to) ==
  \/ to \in {"kShutdown", "kError"}
  \/ from = "kStartup"  /\ to \in {"kDriving", "kParked"}
  \/ from = "kDriving"  /\ to = "kParked"
  \/ from = "kParked"   /\ to \in {"kDriving", "kCharging"}
  \/ from = "kCharging" /\ to = "kParked"

(* A request the state does not allow is rejected and changes nothing; so does *)
(* one for the current state.                                                  *)
RequestMachineStateChange(target) ==
  /\ machineState' = IF IsValidTransition(machineState, target) THEN target ELSE machineState
  /\ UNCHANGED groups

(* TriggerErrorState() and Shutdown(). *)
TriggerErrorState == RequestMachineStateChange("kError")
ShutdownMachine == RequestMachineStateChange("kShutdown")

(* GetFunctionGroup(g) and, if there is one, RequestStateChange(target) on it, *)
(* which accepts every target.                                                 *)
RequestGroupState(g, target) ==
  /\ groups' = [x \in DOMAIN groups |-> IF x = g THEN target ELSE groups[x]]
  /\ UNCHANGED machineState
=============================================================================
