-------------------------- MODULE NetworkManagement --------------------------
(***************************************************************************)
(* ara::nm: the reference counts of the logical networks, and the RAII     *)
(* handles through which the processes use them.  Every operation of the   *)
(* singleton runs under its mutex_ and is one step; a handle belongs to    *)
(* one thread at a time, so its valid_ changes with the call it makes.     *)
(***************************************************************************)
EXTENDS Naturals, FiniteSets

CONSTANTS
  Networks,     (* kEthIPC, kEthExternal, kEthDoIP, kLoopback             *)
  Handles,      (* the places where NetworkHandle objects live            *)
  NoNetwork     (* networkId_ where no object lives                       *)

ASSUME NoNetworkAssumption == NoNetwork \notin Networks
ASSUME HandlesAssumption == IsFiniteSet(Handles)

VARIABLES
  registered,   (* whether Initialize() has filled networks_                *)
  refCount,     (* refCount of each network                                 *)
  state,        (* state of each network                                    *)
  networkId,    (* networkId_ of each handle                                *)
  valid,        (* valid_ of each handle                                    *)
  shut          (* history: whether Shutdown() has been called              *)

nmVars == <<registered, refCount, state, shut>>
vars == <<nmVars, networkId, valid>>

NetworkState == {"kBusSleep", "kPrepareBusSleep", "kReady", "kNormal", "kRepeat", "kError"}

TypeOK ==
  /\ registered \in BOOLEAN
  /\ refCount \in [Networks -> Nat]
  /\ state \in [Networks -> NetworkState]
  /\ networkId \in [Handles -> Networks \cup {NoNetwork}]
  /\ valid \in [Handles -> BOOLEAN]
  /\ shut \in BOOLEAN

Init ==
  /\ registered = FALSE
  /\ refCount = [n \in Networks |-> 0]
  /\ state = [n \in Networks |-> "kBusSleep"]
  /\ networkId = [h \in Handles |-> NoNetwork]
  /\ valid = [h \in Handles |-> FALSE]
  /\ shut = FALSE
-----------------------------------------------------------------------------
(* Store the state; the callback that is told of it, under the lock, only observes. *)
EnterState(n, s) == state' = [state EXCEPT ![n] = s]

(* Networks that are registered already keep their counts. *)
Initialize ==
  /\ registered' = TRUE
  /\ UNCHANGED <<refCount, state, shut, networkId, valid>>

(* RequestNetwork of a registered network: kSuccess or kAlreadyRequested. *)
RequestNetwork(n) ==
  /\ refCount' = [refCount EXCEPT ![n] = @ + 1]
  /\ \/ refCount[n] = 0 /\ EnterState(n, "kNormal")
     \/ refCount[n] > 0 /\ UNCHANGED state
  /\ UNCHANGED <<registered, shut>>

(* A mutant: the last release is missed. *)
ReleaseNetworkOffByOne(n) ==
  /\ \/ refCount[n] = 0 /\ UNCHANGED <<refCount, state>>
     \/ /\ refCount[n] > 0
        /\ refCount' = [refCount EXCEPT ![n] = @ - 1]
        /\ \/ refCount[n] = 2 /\ EnterState(n, "kBusSleep")
           \/ refCount[n] # 2 /\ UNCHANGED state
  /\ UNCHANGED <<registered, shut>>

(* Releasing a network nobody requests is kError and changes nothing; the last *)
(* release puts the network to sleep.                                          *)
ReleaseNetwork(n) ==
  /\ \/ refCount[n] = 0 /\ UNCHANGED <<refCount, state>>
     \/ /\ refCount[n] > 0
        /\ refCount' = [refCount EXCEPT ![n] = @ - 1]
        /\ \/ refCount[n] = 1 /\ EnterState(n, "kBusSleep")
           \/ refCount[n] > 1 /\ UNCHANGED state
  /\ UNCHANGED <<registered, shut>>

(* Shutdown() drops every count and every state. *)
Shutdown ==
  /\ shut' = TRUE
  /\ refCount' = [n \in Networks |-> 0]
  /\ state' = [n \in Networks |-> "kBusSleep"]
  /\ UNCHANGED <<registered, networkId, valid>>

(* NetworkHandle(n): an unregistered network leaves the handle invalid. *)
CreateHandle(h, n) ==
  /\ networkId[h] = NoNetwork
  /\ networkId' = [networkId EXCEPT ![h] = n]
  /\ \/ registered /\ RequestNetwork(n) /\ valid' = [valid EXCEPT ![h] = TRUE]
     \/ ~registered /\ UNCHANGED <<nmVars, valid>>

DestroyHandle(h) ==
  /\ networkId[h] # NoNetwork
  /\ networkId' = [networkId EXCEPT ![h] = NoNetwork]
  /\ valid' = [valid EXCEPT ![h] = FALSE]
  /\ \/ valid[h] /\ ReleaseNetwork(networkId[h])
     \/ ~valid[h] /\ UNCHANGED nmVars

(* A mutant: the handle moved from stays valid. *)
MoveHandleCopies(h, g) ==
  /\ networkId[h] # NoNetwork /\ networkId[g] = NoNetwork
  /\ networkId' = [networkId EXCEPT ![g] = networkId[h]]
  /\ valid' = [valid EXCEPT ![g] = valid[h]]
  /\ UNCHANGED nmVars

(* A new handle takes over from `h`, which stays an object without a hold. *)
MoveHandle(h, g) ==
  /\ networkId[h] # NoNetwork /\ networkId[g] = NoNetwork
  /\ networkId' = [networkId EXCEPT ![g] = networkId[h]]
  /\ valid' = [valid EXCEPT ![g] = valid[h], ![h] = FALSE]
  /\ UNCHANGED nmVars

UseHandles ==
  \/ \E h \in Handles, n \in Networks : CreateHandle(h, n)
  \/ \E h \in Handles : DestroyHandle(h)
  \/ \E h, g \in Handles : MoveHandle(h, g)

(* What happens while the processes run, and what also happens at the end. *)
Running == Initialize \/ UseHandles
Next == Running \/ Shutdown

Spec == Init /\ [][Next]_vars
-----------------------------------------------------------------------------
Holders(n) == {h \in Handles : valid[h] /\ networkId[h] = n}

Shared == INSTANCE SharedNetwork
            WITH Users <- Handles,
                 held <- [n \in Networks |-> Holders(n)],
                 awake <- [n \in Networks |-> state[n] = "kNormal"],
                 closed <- shut

(* Networks are shared by reference counting: until Shutdown() each is awake  *)
(* exactly while a valid handle names it, through any sequence of             *)
(* constructions, moves and destructions; Shutdown() puts all to sleep, and   *)
(* afterwards none is awake for nobody.                                       *)
ImplementsSharedNetwork == Shared!Spec

(* Even when Shutdown() takes the counts away from live handles, and they are *)
(* released or renewed afterwards, no count outlives its holders: a network   *)
(* nobody holds is asleep.                                                    *)
NeverAwakeUnheld ==
  \A n \in Networks :
    /\ refCount[n] <= Cardinality(Holders(n))
    /\ state[n] = "kNormal" <=> refCount[n] > 0
=============================================================================
