--------------------------- MODULE PlatformHealth ---------------------------
(***************************************************************************)
(* ara::phm: the records of the supervised entities, the SupervisedEntity  *)
(* objects that come and go with them, and the state of the manager.       *)
(* Every operation of the singleton runs under its mutex_ and is one step; *)
(* a SupervisedEntity's own mutex_ is only held around one such operation. *)
(* SafetyMonitor has the watchdog thread that asks for the global status.  *)
(***************************************************************************)
EXTENDS Naturals

CONSTANTS
  Names,        (* entity names: the three SWCs'                              *)
  Objects,      (* the places where SupervisedEntity objects live             *)
  NoName        (* instanceId_ where no object lives                          *)

ASSUME NoNameAssumption == NoName \notin Names

VARIABLES
  entities,     (* entities_: a function on the registered names              *)
  running,      (* running_                                                   *)
  instanceId,   (* instanceId_ of each object                                 *)
  direct,       (* history: the names RegisterEntity was called for by an
                   application, which never unregisters them                  *)
  shared        (* history: the names that have had two owners at once        *)

owners == <<direct, shared>>
vars == <<entities, running, instanceId, owners>>

SupervisionStatus == {"kOk", "kFailed", "kExpired", "kStopped", "kDeactivated"}
PhmAction == {"kNone", "kReportError", "kRestartApp", "kTriggerSm", "kHardReset"}

(* aliveReferenceCycleMs and failedSupervisionCyclesTol; the margins of every *)
(* configuration are 0 and 2.                                                 *)
AliveConf == [cycle: Nat, tolerance: Nat]
DefaultConf == [cycle |-> 100, tolerance |-> 3]

(* What the SWCs that register a name themselves pass to RegisterEntity. *)
DirectConf(n) ==
  CASE n = "VehicleSignalService" -> [cycle |-> 100, tolerance |-> 5]
    [] n = "IPCBridgeService"     -> [cycle |-> 50, tolerance |-> 3]
    [] OTHER                      -> DefaultConf

EntityRecord == [conf: AliveConf, status: SupervisionStatus, action: PhmAction]
Fresh(conf) == [conf |-> conf, status |-> "kOk", action |-> "kReportError"]

Registered == DOMAIN entities

TypeOK ==
  /\ Registered \subseteq Names
  /\ entities \in [Registered -> EntityRecord]
  /\ running \in BOOLEAN
  /\ instanceId \in [Objects -> Names \cup {NoName}]
  /\ direct \subseteq Names
  /\ shared \subseteq Names

Init ==
  /\ entities = [n \in {} |-> Fresh(DefaultConf)]
  /\ running = FALSE
  /\ instanceId = [o \in Objects |-> NoName]
  /\ direct = {}
  /\ shared = {}
-----------------------------------------------------------------------------
(* A mutant: the record is overwritten. *)
RegisterEntityAnew(n, conf) ==
  entities' = [m \in Registered \cup {n} |-> IF m = n THEN Fresh(conf) ELSE entities[m]]

(* A name that is registered already is refused and keeps its record. *)
RegisterEntity(n, conf) ==
  \/ n \in Registered /\ UNCHANGED entities
  \/ /\ n \notin Registered
     /\ entities' = [m \in Registered \cup {n} |-> IF m = n THEN Fresh(conf) ELSE entities[m]]

UnregisterEntity(n) == entities' = [m \in Registered \ {n} |-> entities[m]]

(* Who owns a name: the objects of that name, or an application without one. *)
Owners(n) == {o \in Objects : instanceId[o] = n}
Owned(n) == n \in direct \/ Owners(n) # {}

(* SupervisedEntity(n): a refusal goes unnoticed. *)
CreateEntity(o, n) ==
  /\ instanceId[o] = NoName
  /\ instanceId' = [instanceId EXCEPT ![o] = n]
  /\ RegisterEntity(n, DefaultConf)
  /\ shared' = IF Owned(n) THEN shared \cup {n} ELSE shared
  /\ UNCHANGED <<running, direct>>

(* A mutant: the record outlives the object. *)
DestroyEntityOnly(o) ==
  /\ instanceId[o] # NoName
  /\ instanceId' = [instanceId EXCEPT ![o] = NoName]
  /\ UNCHANGED <<entities, running, owners>>

(* ~SupervisedEntity unregisters the name, whoever registered it. *)
DestroyEntity(o) ==
  /\ instanceId[o] # NoName
  /\ instanceId' = [instanceId EXCEPT ![o] = NoName]
  /\ UnregisterEntity(instanceId[o])
  /\ UNCHANGED <<running, owners>>

(* Init() of an SWC that registers its name without an object. *)
RegisterDirectly(n) ==
  /\ RegisterEntity(n, DirectConf(n))
  /\ direct' = direct \cup {n}
  /\ shared' = IF Owners(n) # {} THEN shared \cup {n} ELSE shared
  /\ UNCHANGED <<running, instanceId>>

(* Whatever the checkpoint, the entity is kOk; an unknown name is ignored. *)
ReportCheckpoint(n) ==
  /\ entities' = [m \in Registered |->
                    IF m = n THEN [entities[m] EXCEPT !.status = "kOk"] ELSE entities[m]]
  /\ UNCHANGED <<running, instanceId, owners>>

SetPhmAction(n, action) ==
  /\ entities' = [m \in Registered |->
                    IF m = n THEN [entities[m] EXCEPT !.action = action] ELSE entities[m]]
  /\ UNCHANGED <<running, instanceId, owners>>

(* The record of the last kick is never read. *)
Start == running' = TRUE /\ UNCHANGED <<entities, instanceId, owners>>
Stop == running' = FALSE /\ UNCHANGED <<entities, instanceId, owners>>
-----------------------------------------------------------------------------
(* What the applications do in the order they like.  Names should be unique;  *)
(* they are not while an SWC whose Init() is called again makes its new       *)
(* SupervisedEntity before the old one of the same name is destroyed.         *)
UseObjects ==
  \/ \E o \in Objects, n \in Names : CreateEntity(o, n)
  \/ \E o \in Objects : DestroyEntity(o)

UseManager ==
  \/ \E n \in Names : RegisterDirectly(n)
  \/ \E n \in Names : ReportCheckpoint(n)
  \/ \E n \in Names : SetPhmAction(n, "kTriggerSm")
  \/ Start \/ Stop

Next == UseObjects \/ UseManager

Spec == Init /\ [][Next]_vars
-----------------------------------------------------------------------------
(* Through any sequence of constructions and destructions, no record outlives *)
(* its owners: what PHM supervises, somebody can still report for.  And as    *)
(* long as a name has had one owner at a time, it has a record exactly while  *)
(* it has an owner, whatever happens to the other names.                      *)
SupervisedIffOwned ==
  /\ \A n \in Registered : Owned(n)
  /\ \A n \in Names \ shared : Owned(n) => n \in Registered

(* A record keeps the configuration and the action it was given for as long   *)
(* as it lives, whoever registers its name again.                             *)
RecordIsKept ==
  [][\A n \in Registered \cap DOMAIN entities' :
       /\ entities'[n].conf = entities[n].conf
       /\ entities[n].action = "kTriggerSm" => entities'[n].action = "kTriggerSm"]_vars
=============================================================================
