----------------------- MODULE PlatformServices_proofs -----------------------
(***************************************************************************)
(* For any names and objects: what PHM supervises is owned, what is owned  *)
(* alone is supervised, and a live record is not overwritten.              *)
(***************************************************************************)
EXTENDS PlatformHealth, TimeSync, TLAPS

(* A name that has not been shared has one owner at most.  When that owner    *)
(* goes, nobody is left whose record could go with it.                        *)
UniqueOwners ==
  \A n \in Names \ shared :
    /\ n \in direct => \A o \in Objects : instanceId[o] # n
    /\ \A o, p \in Objects : instanceId[o] = n /\ instanceId[p] = n => o = p

Inv == TypeOK /\ UniqueOwners /\ SupervisedIffOwned

USE NoNameAssumption
-----------------------------------------------------------------------------
LEMMA FreshIsRecord ==
  ASSUME NEW conf \in AliveConf
  PROVE  Fresh(conf) \in EntityRecord
  BY DEF Fresh, EntityRecord, SupervisionStatus, PhmAction

LEMMA ConfsAreConfs ==
  DefaultConf \in AliveConf /\ \A n \in Names : DirectConf(n) \in AliveConf
  BY DEF DefaultConf, DirectConf, AliveConf

(* A registration adds the name and keeps every record there was. *)
LEMMA RegisterAdds ==
  ASSUME entities \in [DOMAIN entities -> EntityRecord], DOMAIN entities \subseteq Names,
         NEW n \in Names, NEW conf \in AliveConf, RegisterEntity(n, conf)
  PROVE  /\ DOMAIN entities' = DOMAIN entities \cup {n}
         /\ DOMAIN entities' \subseteq Names
         /\ entities' \in [DOMAIN entities' -> EntityRecord]
         /\ \A m \in DOMAIN entities : entities'[m] = entities[m]
  <1>1. CASE n \in Registered /\ UNCHANGED entities
    BY <1>1 DEF Registered
  <1>2. CASE n \notin Registered
    <2>1. entities' = [m \in Registered \cup {n} |->
                         IF m = n THEN Fresh(conf) ELSE entities[m]]
      BY <1>2 DEF RegisterEntity
    <2>2. DOMAIN entities' = DOMAIN entities \cup {n}
      BY <2>1 DEF Registered
    <2>3. \A m \in DOMAIN entities : entities'[m] = entities[m]
      BY <2>1, <1>2 DEF Registered
    <2>4. entities'[n] = Fresh(conf)
      BY <2>1
    <2>5. entities' \in [DOMAIN entities \cup {n} -> EntityRecord]
      BY <2>1, FreshIsRecord DEF Registered
    <2> QED BY <2>2, <2>3, <2>5
  <1> QED BY <1>1, <1>2 DEF RegisterEntity
-----------------------------------------------------------------------------
LEMMA InitInv == Init => Inv
  <1> SUFFICES ASSUME Init PROVE Inv
    OBVIOUS
  <1>1. DOMAIN entities = {} /\ entities \in [{} -> EntityRecord]
    BY DEF Init
  <1>2. TypeOK
    BY <1>1 DEF Init, TypeOK, Registered
  <1>3. UniqueOwners
    BY DEF Init, UniqueOwners
  <1>4. SupervisedIffOwned
    BY <1>1 DEF Init, SupervisedIffOwned, Registered, Owned, Owners
  <1> QED BY <1>2, <1>3, <1>4 DEF Inv

LEMMA CreateKeepsInv ==
  ASSUME Inv, NEW o \in Objects, NEW n \in Names, CreateEntity(o, n)
  PROVE  Inv'
  <1>1. TypeOK /\ UniqueOwners /\ SupervisedIffOwned
    BY DEF Inv
  <1>2. /\ instanceId[o] = NoName
        /\ instanceId' = [instanceId EXCEPT ![o] = n]
        /\ RegisterEntity(n, DefaultConf)
        /\ shared' = IF Owned(n) THEN shared \cup {n} ELSE shared
        /\ UNCHANGED <<running, direct>>
    BY DEF CreateEntity
  <1>3. /\ DOMAIN entities' = DOMAIN entities \cup {n}
        /\ DOMAIN entities' \subseteq Names
        /\ entities' \in [DOMAIN entities' -> EntityRecord]
    BY <1>1, <1>2, RegisterAdds, ConfsAreConfs DEF TypeOK, Registered
  <1>4. TypeOK'
    BY <1>1, <1>2, <1>3 DEF TypeOK, Registered
  <1>5. /\ instanceId'[o] = n
        /\ \A p \in Objects \ {o} : instanceId'[p] = instanceId[p]
    BY <1>1, <1>2 DEF TypeOK
  <1>6. UniqueOwners'
    <2> SUFFICES ASSUME NEW m \in Names \ shared'
                 PROVE  /\ m \in direct => \A p \in Objects : instanceId'[p] # m
                        /\ \A p, q \in Objects :
                             instanceId'[p] = m /\ instanceId'[q] = m => p = q
      BY <1>2 DEF UniqueOwners
    <2>1. m \in Names \ shared
      BY <1>2
    <2>2. m = n => m \notin direct /\ \A p \in Objects : instanceId[p] # m
      BY <1>2 DEF Owned, Owners
    <2> QED BY <1>1, <1>5, <2>1, <2>2 DEF UniqueOwners
  <1>7. SupervisedIffOwned'
    <2>1. \A m \in Names : Owned(m)' <=> m \in direct \/ \E p \in Objects : instanceId'[p] = m
      BY <1>2 DEF Owned, Owners
    <2>2. \A m \in Names : Owned(m) <=> m \in direct \/ \E p \in Objects : instanceId[p] = m
      BY DEF Owned, Owners
    <2>3. \A m \in DOMAIN entities : Owned(m)
      BY <1>1 DEF SupervisedIffOwned, Registered
    <2>4. \A m \in DOMAIN entities' : Owned(m)'
      <3> SUFFICES ASSUME NEW m \in DOMAIN entities' PROVE Owned(m)'
        OBVIOUS
      <3>1. m \in Names
        BY <1>3
      <3>2. CASE m = n
        BY <3>1, <3>2, <2>1, <1>5
      <3>3. CASE m # n
        <4>1. m \in direct \/ \E p \in Objects : instanceId[p] = m
          BY <3>1, <3>3, <1>3, <2>2, <2>3
        <4>2. m # NoName
          BY <3>1
        <4>3. \A p \in Objects : instanceId[p] = m => instanceId'[p] = m
          BY <4>2, <1>2, <1>5
        <4> QED BY <4>1, <4>3, <2>1, <3>1
      <3> QED BY <3>2, <3>3
    <2>5. \A m \in Names \ shared' : Owned(m)' => m \in DOMAIN entities'
      <3> SUFFICES ASSUME NEW m \in Names \ shared', Owned(m)', m # n
                   PROVE  m \in DOMAIN entities'
        BY <1>3
      <3>1. m \notin shared
        BY <1>2
      <3>2. Owned(m)
        BY <2>1, <2>2, <1>5
      <3> QED BY <1>1, <1>3, <3>1, <3>2 DEF SupervisedIffOwned, Registered
    <2> QED BY <2>4, <2>5 DEF SupervisedIffOwned, Registered
  <1> QED BY <1>4, <1>6, <1>7 DEF Inv

LEMMA DestroyKeepsInv ==
  ASSUME Inv, NEW o \in Objects, DestroyEntity(o)
  PROVE  Inv'
  <1> DEFINE n == instanceId[o]
  <1>1. TypeOK /\ UniqueOwners /\ SupervisedIffOwned
    BY DEF Inv
  <1>2. /\ n # NoName
        /\ instanceId' = [instanceId EXCEPT ![o] = NoName]
        /\ entities' = [m \in Registered \ {n} |-> entities[m]]
        /\ UNCHANGED <<running, owners>>
    BY DEF DestroyEntity, UnregisterEntity
  <1>3. n \in Names
    BY <1>1, <1>2 DEF TypeOK
  <1>4. DOMAIN entities' = DOMAIN entities \ {n}
    BY <1>2 DEF Registered
  <1>5. entities' \in [DOMAIN entities' -> EntityRecord]
    BY <1>1, <1>2, <1>4 DEF TypeOK, Registered
  <1>6. TypeOK'
    BY <1>1, <1>2, <1>4, <1>5 DEF TypeOK, Registered, owners
  <1>7. /\ instanceId'[o] = NoName
        /\ \A p \in Objects \ {o} : instanceId'[p] = instanceId[p]
    BY <1>1, <1>2 DEF TypeOK
  <1>8. UniqueOwners'
    BY <1>1, <1>2, <1>7 DEF UniqueOwners, owners
  <1>9. SupervisedIffOwned'
    <2>1. \A m \in Names : Owned(m)' <=> m \in direct \/ \E p \in Objects : instanceId'[p] = m
      BY <1>2 DEF Owned, Owners, owners
    <2>2. \A m \in Names : Owned(m) <=> m \in direct \/ \E p \in Objects : instanceId[p] = m
      BY DEF Owned, Owners
    <2>3. \A m \in DOMAIN entities' : Owned(m)'
      <3> SUFFICES ASSUME NEW m \in DOMAIN entities' PROVE Owned(m)'
        OBVIOUS
      <3>1. m \in DOMAIN entities /\ m # n /\ m \in Names
        BY <1>1, <1>4 DEF TypeOK, Registered
      <3>2. m \in direct \/ \E p \in Objects : instanceId[p] = m
        BY <3>1, <2>2, <1>1 DEF SupervisedIffOwned, Registered
      <3>3. \A p \in Objects : instanceId[p] = m => instanceId'[p] = m
        BY <3>1, <1>7
      <3> QED BY <2>1, <3>1, <3>2, <3>3
    <2>4. \A m \in Names \ shared' : Owned(m)' => m \in DOMAIN entities'
      <3> SUFFICES ASSUME NEW m \in Names \ shared', Owned(m)'
                   PROVE  m \in DOMAIN entities'
        OBVIOUS
      <3>1. m \notin shared
        BY <1>2 DEF owners
      <3>2. m \in direct \/ \E p \in Objects : p # o /\ instanceId[p] = m
        BY <2>1, <1>7
      <3>3. m # n
        BY <1>1, <3>1, <3>2 DEF UniqueOwners
      <3>4. m \in DOMAIN entities
        BY <1>1, <2>2, <3>1, <3>2 DEF SupervisedIffOwned, Registered
      <3> QED BY <1>4, <3>3, <3>4
    <2> QED BY <2>3, <2>4 DEF SupervisedIffOwned, Registered
  <1> QED BY <1>6, <1>8, <1>9 DEF Inv

LEMMA RegisterKeepsInv ==
  ASSUME Inv, NEW n \in Names, RegisterDirectly(n)
  PROVE  Inv'
  <1>1. TypeOK /\ UniqueOwners /\ SupervisedIffOwned
    BY DEF Inv
  <1>2. /\ RegisterEntity(n, DirectConf(n))
        /\ direct' = direct \cup {n}
        /\ shared' = IF Owners(n) # {} THEN shared \cup {n} ELSE shared
        /\ UNCHANGED <<running, instanceId>>
    BY DEF RegisterDirectly
  <1>3. /\ DOMAIN entities' = DOMAIN entities \cup {n}
        /\ DOMAIN entities' \subseteq Names
        /\ entities' \in [DOMAIN entities' -> EntityRecord]
    <2>1. DirectConf(n) \in AliveConf
      BY ConfsAreConfs
    <2> QED BY <1>1, <1>2, <2>1, RegisterAdds DEF TypeOK, Registered
  <1>4. TypeOK'
    BY <1>1, <1>2, <1>3 DEF TypeOK, Registered
  <1>5. UniqueOwners'
    BY <1>1, <1>2 DEF UniqueOwners, Owners
  <1>6. SupervisedIffOwned'
    BY <1>1, <1>2, <1>3 DEF SupervisedIffOwned, Registered, Owned, Owners
  <1> QED BY <1>4, <1>5, <1>6 DEF Inv

(* Whatever leaves the names, the owners and the types alone. *)
LEMMA NamesStayKeepsInv ==
  ASSUME Inv, DOMAIN entities' = DOMAIN entities, entities' \in [DOMAIN entities -> EntityRecord],
         running' \in BOOLEAN, UNCHANGED <<instanceId, owners>>
  PROVE  Inv'
  <1>1. TypeOK'
    BY DEF Inv, TypeOK, Registered, owners
  <1>2. UniqueOwners'
    BY DEF Inv, UniqueOwners, owners
  <1>3. SupervisedIffOwned'
    BY DEF Inv, SupervisedIffOwned, Registered, Owned, Owners, owners
  <1> QED BY <1>1, <1>2, <1>3 DEF Inv

(* A checkpoint or a new action changes that field of the record and no name. *)
LEMMA UpdateKeepsNames ==
  ASSUME Inv, NEW n \in Names,
         ReportCheckpoint(n) \/ SetPhmAction(n, "kTriggerSm")
  PROVE  /\ DOMAIN entities' = DOMAIN entities
         /\ entities' \in [DOMAIN entities -> EntityRecord]
         /\ \A m \in DOMAIN entities :
              /\ entities'[m].conf = entities[m].conf
              /\ entities'[m].action \in {entities[m].action, "kTriggerSm"}
         /\ running' \in BOOLEAN
         /\ UNCHANGED <<instanceId, owners>>
  <1>1. entities \in [Registered -> EntityRecord] /\ running \in BOOLEAN
    BY DEF Inv, TypeOK
  <1>2. CASE ReportCheckpoint(n)
    <2>1. entities' = [m \in Registered |-> IF m = n THEN [entities[m] EXCEPT !.status = "kOk"]
                                                     ELSE entities[m]]
      BY <1>2 DEF ReportCheckpoint
    <2>2. \A m \in Registered :
            /\ entities'[m] \in EntityRecord
            /\ entities'[m].conf = entities[m].conf
            /\ entities'[m].action = entities[m].action
      BY <1>1, <2>1 DEF EntityRecord, SupervisionStatus
    <2>3. entities' \in [Registered -> EntityRecord] /\ DOMAIN entities' = Registered
      BY <2>1, <2>2
    <2> QED BY <1>1, <1>2, <2>2, <2>3 DEF ReportCheckpoint, Registered
  <1>3. CASE SetPhmAction(n, "kTriggerSm")
    <2>1. entities' = [m \in Registered |-> IF m = n
                                            THEN [entities[m] EXCEPT !.action = "kTriggerSm"]
                                            ELSE entities[m]]
      BY <1>3 DEF SetPhmAction
    <2>2. \A m \in Registered :
            /\ entities'[m] \in EntityRecord
            /\ entities'[m].conf = entities[m].conf
            /\ entities'[m].action \in {entities[m].action, "kTriggerSm"}
      BY <1>1, <2>1 DEF EntityRecord, PhmAction
    <2>3. entities' \in [Registered -> EntityRecord] /\ DOMAIN entities' = Registered
      BY <2>1, <2>2
    <2> QED BY <1>1, <1>3, <2>2, <2>3 DEF SetPhmAction, Registered
  <1> QED BY <1>2, <1>3

LEMMA NextInv == Inv /\ [Next]_vars => Inv'
  <1> SUFFICES ASSUME Inv, [Next]_vars PROVE Inv'
    OBVIOUS
  <1>1. CASE \E o \in Objects, n \in Names : CreateEntity(o, n)
    BY <1>1, CreateKeepsInv
  <1>2. CASE \E o \in Objects : DestroyEntity(o)
    BY <1>2, DestroyKeepsInv
  <1>3. CASE \E n \in Names : RegisterDirectly(n)
    BY <1>3, RegisterKeepsInv
  <1>4. CASE \E n \in Names : ReportCheckpoint(n) \/ SetPhmAction(n, "kTriggerSm")
    <2> PICK n \in Names : ReportCheckpoint(n) \/ SetPhmAction(n, "kTriggerSm")
      BY <1>4
    <2>1. /\ DOMAIN entities' = DOMAIN entities
          /\ entities' \in [DOMAIN entities -> EntityRecord]
          /\ running' \in BOOLEAN
          /\ UNCHANGED <<instanceId, owners>>
      BY UpdateKeepsNames
    <2> QED BY <2>1, NamesStayKeepsInv
  <1>5. CASE Start \/ Stop \/ UNCHANGED vars
    <2>1. /\ UNCHANGED <<entities, instanceId, owners>>
          /\ running' \in BOOLEAN
      BY <1>5 DEF Start, Stop, vars, Inv, TypeOK
    <2>2. entities \in [DOMAIN entities -> EntityRecord]
      BY DEF Inv, TypeOK, Registered
    <2> QED BY <2>1, <2>2, NamesStayKeepsInv
  <1> QED BY <1>1, <1>2, <1>3, <1>4, <1>5 DEF Next, UseObjects, UseManager

LEMMA SpecInv == Spec => []Inv
  BY InitInv, NextInv, PTL DEF Spec
-----------------------------------------------------------------------------
(* A construction over a live record, a registration of a name that is taken  *)
(* and the destruction of another object leave a record alone.                *)
LEMMA StepKeepsRecord ==
  Inv /\ [Next]_vars =>
    \A n \in Registered \cap DOMAIN entities' :
      /\ entities'[n].conf = entities[n].conf
      /\ entities[n].action = "kTriggerSm" => entities'[n].action = "kTriggerSm"
  <1> SUFFICES ASSUME Inv, [Next]_vars, NEW n \in DOMAIN entities \cap DOMAIN entities'
               PROVE  \/ entities'[n] = entities[n]
                      \/ /\ entities'[n].conf = entities[n].conf
                         /\ entities'[n].action \in {entities[n].action, "kTriggerSm"}
    BY DEF Registered
  <1> USE DEF Registered
  <1>1. entities \in [DOMAIN entities -> EntityRecord] /\ DOMAIN entities \subseteq Names
    BY DEF Inv, TypeOK
  <1>2. CASE \E o \in Objects, m \in Names : CreateEntity(o, m)
    BY <1>1, <1>2, RegisterAdds, ConfsAreConfs DEF CreateEntity
  <1>3. CASE \E o \in Objects : DestroyEntity(o)
    BY <1>3 DEF DestroyEntity, UnregisterEntity
  <1>4. CASE \E m \in Names : RegisterDirectly(m)
    BY <1>1, <1>4, RegisterAdds, ConfsAreConfs DEF RegisterDirectly
  <1>5. CASE \E m \in Names : ReportCheckpoint(m) \/ SetPhmAction(m, "kTriggerSm")
    BY <1>5, UpdateKeepsNames
  <1>6. CASE Start \/ Stop \/ UNCHANGED vars
    BY <1>6 DEF Start, Stop, vars
  <1> QED BY <1>2, <1>3, <1>4, <1>5, <1>6 DEF Next, UseObjects, UseManager

(* Type correctness of the records, the objects and the manager. *)
THEOREM HealthTypes == Spec => []TypeOK
  BY SpecInv, PTL DEF Inv

(* Through any constructions, destructions and registrations, for any names   *)
(* and objects, no record outlives its owners and no sole owner is without.   *)
THEOREM OwnersAreSupervised == Spec => []SupervisedIffOwned
  BY SpecInv, PTL DEF Inv

(* RegisterEntity never overwrites a live record. *)
THEOREM RecordsAreKept == Spec => RecordIsKept
  BY SpecInv, StepKeepsRecord, PTL DEF Spec, RecordIsKept
-----------------------------------------------------------------------------
(***************************************************************************)
(* TimeSync: any number of providers, any units, times and corrections.    *)
(***************************************************************************)

(* C++ division of a time after 1970: a quotient, and a remainder that is     *)
(* less than a second and survives the cast to uint32_t.                      *)
LEMMA Division ==
  ASSUME NEW t \in Nat
  PROVE  /\ Quotient(t) \in Nat
         /\ Remainder(t) \in 0..NanosPerSecond - 1
         /\ Remainder(t) % Word = Remainder(t)
         /\ ToTime(Quotient(t), Remainder(t)) = t
  <1>1. NanosPerSecond \in Nat \ {0} /\ Word \in Nat \ {0} /\ Word >= NanosPerSecond
    BY UnitsAssumption
  <1>2. Quotient(t) = t \div NanosPerSecond
    BY DEF Quotient
  <1>3. t \div NanosPerSecond \in Nat
    BY <1>1
  <1>4. /\ 0 <= t - NanosPerSecond * (t \div NanosPerSecond)
        /\ t - NanosPerSecond * (t \div NanosPerSecond) < NanosPerSecond
    BY <1>1
  <1>5. NanosPerSecond * (t \div NanosPerSecond) \in Nat
    BY <1>1, <1>3
  <1>6. Remainder(t) \in 0..NanosPerSecond - 1
    BY <1>1, <1>2, <1>4, <1>5 DEF Remainder
  <1>7. \A r \in 0..Word - 1 : r % Word = r
    BY <1>1
  <1>8. ToTime(Quotient(t), Remainder(t)) = t
    BY <1>1, <1>2, <1>3, <1>5 DEF ToTime, Remainder
  <1> QED BY <1>1, <1>2, <1>3, <1>6, <1>7, <1>8

(* A time after 1970 survives the two conversions, whatever the units.        *)
THEOREM TimesConvert ==
  \A t \in Nat : ToChronoTimePoint(FromChronoTimePoint(t)) = t
  BY Division DEF ToChronoTimePoint, FromChronoTimePoint

(* Wherever its provider is, a time base and the provider's argument hold     *)
(* together the time the base was set to and every correction since.          *)
SplitTime(p) ==
  LET b == BaseOf[p] IN
    CASE pc[p] = "setNanos"     -> kept[b] = arg[p] /\ epochSeconds[b] = Quotient(arg[p])
      [] pc[p] = "loadNanos"    -> kept[b] = arg[p] + nanoSeconds[b]
      [] pc[p] = "storeSeconds" -> kept[b] = arg[p]
      [] pc[p] = "storeNanos"   -> kept[b] = arg[p] /\ epochSeconds[b] = Quotient(arg[p])
      [] OTHER                  -> Time(b) = kept[b] /\ nanoSeconds[b] < NanosPerSecond

UnservedTime(b) ==
  (\A p \in Providers : BaseOf[p] # b) => Time(b) = kept[b] /\ nanoSeconds[b] < NanosPerSecond

TimeInv ==
  /\ TimeTypeOK
  /\ \A p \in Providers : SplitTime(p)
  /\ \A b \in TimeBaseId : UnservedTime(b)

LEMMA InitTimeInv == TimeInit => TimeInv
  <1> SUFFICES ASSUME TimeInit PROVE TimeInv
    OBVIOUS
  <1>1. StartTime \in Nat /\ MaxCalls \in Nat
    BY TimesAssumption
  <1>2. /\ Quotient(StartTime) \in Int
        /\ Remainder(StartTime) \in 0..Word - 1
        /\ Remainder(StartTime) < NanosPerSecond
        /\ ToTime(Quotient(StartTime), Remainder(StartTime)) = StartTime
    BY <1>1, Division, UnitsAssumption
  <1>3. TimeTypeOK
    BY <1>1, <1>2 DEF TimeInit, TimeTypeOK, SyncStatus
  <1>4. \A b \in TimeBaseId : Time(b) = kept[b] /\ nanoSeconds[b] < NanosPerSecond
    BY <1>2 DEF TimeInit, Time, Stored, ToChronoTimePoint
  <1>5. \A p \in Providers : SplitTime(p)
    BY <1>4, ProvidersAssumption DEF TimeInit, SplitTime
  <1> QED BY <1>3, <1>4, <1>5 DEF TimeInv, UnservedTime

LEMMA TimeTypeStep == TimeTypeOK /\ [TimeNext]_timeVars => TimeTypeOK'
  <1> SUFFICES ASSUME TimeTypeOK, [TimeNext]_timeVars PROVE TimeTypeOK'
    OBVIOUS
  <1> USE DEF TimeTypeOK
  <1>1. /\ Word \in Nat \ {0} /\ SetTimes \subseteq Nat /\ Corrections \subseteq Int
        /\ \A x \in Int : x % Word \in 0..Word - 1
    BY UnitsAssumption, TimesAssumption
  <1>2. \A t \in Int : Quotient(t) \in Int /\ Remainder(t) \in Int
    BY UnitsAssumption DEF Quotient, Remainder
  <1>3. \A a, b \in Int : ToTime(a, b) \in Int
    BY UnitsAssumption DEF ToTime
  <1>4. CASE UNCHANGED timeVars
    BY <1>4 DEF timeVars, baseVars, callVars
  <1>5. ASSUME NEW p \in Providers, ProviderStep(p) PROVE TimeTypeOK'
    <2>1. BaseOf[p] \in TimeBaseId
      BY ProvidersAssumption
    <2> USE DEF Goto, Call, baseVars
    <2>2. CASE \E t \in SetTimes : SetTime(p, t)
      <3>1. PICK t \in SetTimes : SetTime(p, t)
        BY <2>2
      <3>2. t \in Int
        BY <1>1
      <3>3. FromChronoTimePoint(t).seconds \in Int
        BY <1>2, <3>2 DEF FromChronoTimePoint
      <3>4. epochSeconds' \in [TimeBaseId -> Int]
        BY <2>1, <3>1, <3>3 DEF SetTime, StoreSeconds
      <3>5. /\ pc' = [pc EXCEPT ![p] = "setNanos"] /\ calls < MaxCalls /\ calls' = calls + 1
            /\ arg' = [arg EXCEPT ![p] = t] /\ kept' = [kept EXCEPT ![BaseOf[p]] = t]
            /\ UNCHANGED <<nanoSeconds, syncStatus>>
        BY <3>1 DEF SetTime
      <3> QED BY <2>1, <3>2, <3>4, <3>5, TimesAssumption
    <2>3. CASE SetTimeNanos(p)
      <3>1. FromChronoTimePoint(arg[p]).nanoseconds \in Int
        BY <1>1, <1>2 DEF FromChronoTimePoint
      <3> QED BY <2>1, <2>3, <3>1, <1>1 DEF SetTimeNanos, StoreNanos
    <2>4. CASE SetTimeStatus(p)
      BY <2>1, <2>4 DEF SetTimeStatus, SyncStatus
    <2>5. CASE \E correction \in Corrections : ApplyCorrection(p, correction)
      <3> PICK correction \in Corrections : ApplyCorrection(p, correction)
        BY <2>5
      <3>1. ToTime(epochSeconds[BaseOf[p]], correction) \in Int
        BY <2>1, <1>1, <1>3
      <3>2. kept[BaseOf[p]] + correction \in Int
        BY <2>1, <1>1
      <3> QED BY <3>1, <3>2, <2>1, TimesAssumption DEF ApplyCorrection
    <2>6. CASE ApplyCorrectionSum(p)
      BY <2>1, <2>6 DEF ApplyCorrectionSum
    <2>7. CASE ApplyCorrectionSeconds(p)
      BY <2>1, <2>7, <1>2 DEF ApplyCorrectionSeconds, StoreSeconds
    <2>8. CASE ApplyCorrectionNanos(p)
      BY <2>1, <2>8, <1>1, <1>2 DEF ApplyCorrectionNanos, StoreNanos
    <2>9. CASE SetSyncStatus(p, "kLostSync")
      BY <2>1, <2>9, TimesAssumption DEF SetSyncStatus, SyncStatus
    <2> QED BY <1>5, <2>2, <2>3, <2>4, <2>5, <2>6, <2>7, <2>8, <2>9
        DEF ProviderStep, SetTimeStep, CorrectionStep
  <1> QED BY <1>4, <1>5 DEF TimeNext

(* A provider changes nothing but its own control and its own time base. *)
Touches(p) ==
  /\ \A q \in Providers \ {p} : pc'[q] = pc[q] /\ arg'[q] = arg[q]
  /\ \A b \in TimeBaseId \ {BaseOf[p]} :
       /\ epochSeconds'[b] = epochSeconds[b]
       /\ nanoSeconds'[b] = nanoSeconds[b]
       /\ kept'[b] = kept[b]

LEMMA OwnBaseOnly ==
  ASSUME TimeTypeOK, NEW p \in Providers, ProviderStep(p)
  PROVE  Touches(p)
  <1> USE DEF TimeTypeOK, Touches, Goto, Call, baseVars
  <1>1. CASE \E t \in SetTimes : SetTime(p, t)
    BY <1>1 DEF SetTime, StoreSeconds
  <1>2. CASE SetTimeNanos(p)
    BY <1>2 DEF SetTimeNanos, StoreNanos
  <1>3. CASE SetTimeStatus(p)
    BY <1>3 DEF SetTimeStatus
  <1>4. CASE \E correction \in Corrections : ApplyCorrection(p, correction)
    BY <1>4 DEF ApplyCorrection
  <1>5. CASE ApplyCorrectionSum(p)
    BY <1>5 DEF ApplyCorrectionSum
  <1>6. CASE ApplyCorrectionSeconds(p)
    BY <1>6 DEF ApplyCorrectionSeconds, StoreSeconds
  <1>7. CASE ApplyCorrectionNanos(p)
    BY <1>7 DEF ApplyCorrectionNanos, StoreNanos
  <1>8. CASE SetSyncStatus(p, "kLostSync")
    BY <1>8 DEF SetSyncStatus
  <1> QED BY <1>1, <1>2, <1>3, <1>4, <1>5, <1>6, <1>7, <1>8
      DEF ProviderStep, SetTimeStep, CorrectionStep

(* The statement a provider executes keeps its base and its argument true to  *)
(* the history.                                                               *)
LEMMA OwnTimeIsKept ==
  ASSUME TimeTypeOK, After1970, NEW p \in Providers, SplitTime(p), ProviderStep(p)
  PROVE  SplitTime(p)'
  <1> USE DEF TimeTypeOK, SplitTime, Goto, Call
  <1>1. BaseOf[p] \in TimeBaseId
    BY ProvidersAssumption
  <1>2. NanosPerSecond \in Nat /\ SetTimes \subseteq Nat /\ Corrections \subseteq Int
    BY UnitsAssumption, TimesAssumption
  <1>3. kept[BaseOf[p]] \in Nat
    BY <1>1 DEF After1970
  <1>4. \A b \in TimeBaseId : Time(b) = epochSeconds[b] * NanosPerSecond + nanoSeconds[b]
    BY DEF Time, Stored, ToChronoTimePoint, ToTime
  <1>5. \A b \in TimeBaseId :
          Time(b)' = epochSeconds'[b] * NanosPerSecond + nanoSeconds'[b]
    BY DEF Time, Stored, ToChronoTimePoint, ToTime
  <1>6. CASE \E t \in SetTimes : SetTime(p, t)
    BY <1>1, <1>6 DEF SetTime, StoreSeconds, FromChronoTimePoint
  <1>7. CASE SetTimeNanos(p)
    <2>1. /\ FromChronoTimePoint(arg[p]).nanoseconds % Word = Remainder(arg[p])
          /\ Remainder(arg[p]) \in 0..NanosPerSecond - 1
          /\ Quotient(arg[p]) * NanosPerSecond + Remainder(arg[p]) = arg[p]
      BY <1>3, <1>7, Division DEF SetTimeNanos, FromChronoTimePoint, ToTime
    <2>2. nanoSeconds'[BaseOf[p]] = Remainder(arg[p])
      BY <1>1, <1>7, <2>1 DEF SetTimeNanos, StoreNanos
    <2> QED BY <1>1, <1>2, <1>5, <1>7, <2>1, <2>2 DEF SetTimeNanos
  <1>8. CASE SetTimeStatus(p)
    BY <1>1, <1>4, <1>5, <1>8 DEF SetTimeStatus
  <1>9. CASE \E correction \in Corrections : ApplyCorrection(p, correction)
    <2> PICK correction \in Corrections : ApplyCorrection(p, correction)
      BY <1>9
    <2>1. pc'[p] = "loadNanos" /\ UNCHANGED nanoSeconds
      BY DEF ApplyCorrection, baseVars
    <2>2. arg'[p] = epochSeconds[BaseOf[p]] * NanosPerSecond + correction
      BY DEF ApplyCorrection, ToTime
    <2>3. kept'[BaseOf[p]] = kept[BaseOf[p]] + correction
      BY <1>1 DEF ApplyCorrection
    <2>4. kept[BaseOf[p]] = epochSeconds[BaseOf[p]] * NanosPerSecond + nanoSeconds[BaseOf[p]]
      BY <1>1, <1>4 DEF ApplyCorrection
    <2>5. epochSeconds[BaseOf[p]] * NanosPerSecond \in Int
      BY <1>1, <1>2
    <2> QED BY <1>1, <1>2, <2>1, <2>2, <2>3, <2>4, <2>5
  <1>10. CASE ApplyCorrectionSum(p)
    BY <1>1, <1>10 DEF ApplyCorrectionSum, baseVars
  <1>11. CASE ApplyCorrectionSeconds(p)
    BY <1>1, <1>11 DEF ApplyCorrectionSeconds, StoreSeconds
  <1>12. CASE ApplyCorrectionNanos(p)
    <2>1. /\ Remainder(arg[p]) % Word = Remainder(arg[p])
          /\ Remainder(arg[p]) \in 0..NanosPerSecond - 1
          /\ Quotient(arg[p]) * NanosPerSecond + Remainder(arg[p]) = arg[p]
      BY <1>3, <1>12, Division DEF ApplyCorrectionNanos, ToTime
    <2>2. nanoSeconds'[BaseOf[p]] = Remainder(arg[p])
      BY <1>1, <1>12, <2>1 DEF ApplyCorrectionNanos, StoreNanos
    <2> QED BY <1>1, <1>2, <1>5, <1>12, <2>1, <2>2 DEF ApplyCorrectionNanos
  <1>13. CASE SetSyncStatus(p, "kLostSync")
    BY <1>1, <1>4, <1>5, <1>13 DEF SetSyncStatus
  <1> QED BY <1>6, <1>7, <1>8, <1>9, <1>10, <1>11, <1>12, <1>13
      DEF ProviderStep, SetTimeStep, CorrectionStep

LEMMA StepTimeInv ==
  ASSUME OneProviderPerBase
  PROVE  TimeInv /\ After1970 /\ [TimeNext]_timeVars => TimeInv'
  <1> SUFFICES ASSUME TimeInv, After1970, [TimeNext]_timeVars PROVE TimeInv'
    OBVIOUS
  <1>1. TimeTypeOK'
    BY TimeTypeStep DEF TimeInv
  <1>2. CASE UNCHANGED timeVars
    <2>1. \A p \in Providers : SplitTime(p)'
      BY <1>2 DEF TimeInv, SplitTime, Time, Stored, timeVars, baseVars, callVars
    <2>2. \A b \in TimeBaseId : UnservedTime(b)'
      BY <1>2 DEF TimeInv, UnservedTime, Time, Stored, timeVars, baseVars, callVars
    <2> QED BY <1>1, <2>1, <2>2 DEF TimeInv
  <1>3. ASSUME NEW p \in Providers, ProviderStep(p) PROVE TimeInv'
    <2>1. Touches(p)
      BY <1>3, OwnBaseOnly DEF TimeInv
    <2>2. SplitTime(p)'
      BY <1>3, OwnTimeIsKept DEF TimeInv
    <2>3. ASSUME NEW q \in Providers \ {p} PROVE SplitTime(q)'
      <3>1. BaseOf[q] \in TimeBaseId \ {BaseOf[p]}
        BY ProvidersAssumption DEF OneProviderPerBase
      <3>2. SplitTime(q)
        BY DEF TimeInv
      <3> QED BY <2>1, <3>1, <3>2
          DEF Touches, SplitTime, Time, Stored, ToChronoTimePoint
    <2>4. ASSUME NEW b \in TimeBaseId PROVE UnservedTime(b)'
      <3>1. SUFFICES ASSUME \A q \in Providers : BaseOf[q] # b
                     PROVE  Time(b)' = kept'[b] /\ nanoSeconds'[b] < NanosPerSecond
        BY DEF UnservedTime
      <3>2. Time(b) = kept[b] /\ nanoSeconds[b] < NanosPerSecond
        BY <3>1 DEF TimeInv, UnservedTime
      <3> QED BY <2>1, <3>1, <3>2 DEF Touches, Time, Stored, ToChronoTimePoint
    <2> QED BY <1>1, <2>2, <2>3, <2>4 DEF TimeInv
  <1> QED BY <1>2, <1>3 DEF TimeNext

(* The atomics, the arguments and the histories keep their types: the         *)
(* nanoseconds are always what a uint32_t can hold.                           *)
THEOREM TimeTypes == TimeSpec => []TimeTypeOK
  <1>1. TimeInit => TimeTypeOK
    BY InitTimeInv DEF TimeInv
  <1> QED BY <1>1, TimeTypeStep, PTL DEF TimeSpec

(* In the arrangement of the design, one provider per base and times after    *)
(* 1970, ApplyCorrection loses no correction and forgets no carry, for any    *)
(* units, times, corrections and interleaving of the providers.               *)
THEOREM CorrectionsHold ==
  ASSUME OneProviderPerBase
  PROVE  TimeSpec /\ []After1970 => []CorrectionsAddUp
  <1>1. TimeInv => CorrectionsAddUp
    <2> SUFFICES ASSUME TimeInv, NEW b \in TimeBaseId, ~Busy(b)
                 PROVE  Time(b) = kept[b] /\ nanoSeconds[b] < NanosPerSecond
      BY DEF CorrectionsAddUp
    <2>1. CASE \E p \in Providers : BaseOf[p] = b
      BY <2>1 DEF TimeInv, SplitTime, Busy
    <2>2. CASE \A p \in Providers : BaseOf[p] # b
      BY <2>2 DEF TimeInv, UnservedTime
    <2> QED BY <2>1, <2>2
  <1> QED BY <1>1, InitTimeInv, StepTimeInv, PTL DEF TimeSpec
-----------------------------------------------------------------------------
(* What SetTime has stored of the time it sets.  Corrections of any size may  *)
(* have gone before: SetTime starts afresh.                                   *)
SetTimeInv ==
  /\ TimeTypeOK
  /\ \A p \in Providers :
       /\ pc[p] = "setNanos" => /\ arg[p] \in Nat
                                /\ kept[BaseOf[p]] = arg[p]
                                /\ epochSeconds[BaseOf[p]] = Quotient(arg[p])
       /\ pc[p] = "setStatus" => Time(BaseOf[p]) = kept[BaseOf[p]]

LEMMA StepSetTimeInv ==
  ASSUME OneProviderPerBase
  PROVE  SetTimeInv /\ [TimeNext]_timeVars => SetTimeInv'
  <1> SUFFICES ASSUME SetTimeInv, [TimeNext]_timeVars PROVE SetTimeInv'
    OBVIOUS
  <1>1. TimeTypeOK'
    BY TimeTypeStep DEF SetTimeInv
  <1>2. CASE UNCHANGED timeVars
    BY <1>1, <1>2 DEF SetTimeInv, Time, Stored, timeVars, baseVars, callVars
  <1>3. ASSUME NEW p \in Providers, ProviderStep(p) PROVE SetTimeInv'
    <2>1. Touches(p)
      BY <1>3, OwnBaseOnly DEF SetTimeInv
    <2>2. ASSUME NEW q \in Providers \ {p}
          PROVE  /\ pc'[q] = pc[q] /\ arg'[q] = arg[q]
                 /\ kept'[BaseOf[q]] = kept[BaseOf[q]]
                 /\ epochSeconds'[BaseOf[q]] = epochSeconds[BaseOf[q]]
                 /\ Time(BaseOf[q])' = Time(BaseOf[q])
      BY <2>1, ProvidersAssumption
      DEF Touches, OneProviderPerBase, Time, Stored, ToChronoTimePoint
    <2>3. /\ pc'[p] = "setNanos" => /\ arg'[p] \in Nat
                                    /\ kept'[BaseOf[p]] = arg'[p]
                                    /\ epochSeconds'[BaseOf[p]] = Quotient(arg'[p])
          /\ pc'[p] = "setStatus" => Time(BaseOf[p])' = kept'[BaseOf[p]]
      <3> USE DEF SetTimeInv, TimeTypeOK, Goto, Call
      <3>1. BaseOf[p] \in TimeBaseId
        BY ProvidersAssumption
      <3>2. CASE \E t \in SetTimes : SetTime(p, t)
        BY <3>1, <3>2, TimesAssumption DEF SetTime, StoreSeconds, FromChronoTimePoint
      <3>3. CASE SetTimeNanos(p)
        <4>1. /\ FromChronoTimePoint(arg[p]).nanoseconds % Word = Remainder(arg[p])
              /\ ToTime(Quotient(arg[p]), Remainder(arg[p])) = arg[p]
          BY <3>3, Division DEF SetTimeNanos, FromChronoTimePoint
        <4>2. nanoSeconds'[BaseOf[p]] = Remainder(arg[p])
          BY <3>1, <3>3, <4>1 DEF SetTimeNanos, StoreNanos
        <4> QED BY <3>1, <3>3, <4>1, <4>2
            DEF SetTimeNanos, Time, Stored, ToChronoTimePoint
      <3>4. CASE pc'[p] \in {"idle", "loadNanos", "storeSeconds", "storeNanos"}
        BY <3>4
      <3> QED BY <1>3, <3>2, <3>3, <3>4
          DEF ProviderStep, SetTimeStep, CorrectionStep, SetTimeStatus, ApplyCorrection,
              ApplyCorrectionSum, ApplyCorrectionSeconds, ApplyCorrectionNanos, SetSyncStatus
    <2> QED BY <1>1, <2>2, <2>3 DEF SetTimeInv
  <1> QED BY <1>2, <1>3 DEF TimeNext

(* With one provider per base SetTime makes a base synchronized with both     *)
(* halves of the time stored, whatever went before and at any time.           *)
THEOREM TimeIsWhole ==
  ASSUME OneProviderPerBase
  PROVE  TimeSpec => TrustedTimeIsWhole
  <1>1. TimeInit => SetTimeInv
    BY InitTimeInv DEF TimeInv, SetTimeInv, TimeInit
  <1>2. SetTimeInv /\ [TimeNext]_timeVars
          => [\A b \in TimeBaseId :
                syncStatus[b] # "kSynchronized" /\ syncStatus'[b] = "kSynchronized" =>
                  Time(b)' = kept'[b]]_timeVars
    <2> SUFFICES ASSUME SetTimeInv, TimeNext, NEW b \in TimeBaseId,
                        syncStatus[b] # "kSynchronized", syncStatus'[b] = "kSynchronized"
                 PROVE  Time(b)' = kept'[b]
      OBVIOUS
    <2>1. PICK p \in Providers : ProviderStep(p)
      BY DEF TimeNext
    <2>2. SetTimeStatus(p) /\ BaseOf[p] = b
      BY <2>1 DEF SetTimeInv, TimeTypeOK, ProviderStep, SetTimeStep, CorrectionStep, SetTime,
                  SetTimeNanos, SetTimeStatus, ApplyCorrection, ApplyCorrectionSum, baseVars,
                  ApplyCorrectionSeconds, ApplyCorrectionNanos, SetSyncStatus
    <2> QED BY <2>2 DEF SetTimeInv, SetTimeStatus, Goto, Time, Stored
  <1> QED BY <1>1, <1>2, StepSetTimeInv, PTL DEF TimeSpec, TrustedTimeIsWhole
=============================================================================
