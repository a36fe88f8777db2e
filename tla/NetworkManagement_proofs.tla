----------------------- MODULE NetworkManagement_proofs -----------------------
(***************************************************************************)
(* Reference counting of the networks, for every set of networks and every *)
(* finite set of handles.                                                  *)
(***************************************************************************)
EXTENDS NetworkManagement, FiniteSetTheorems, TLAPS

(* The types. *)
LEMMA TypeInit == Init => TypeOK
<1> SUFFICES ASSUME Init PROVE TypeOK
  OBVIOUS
<1>1. refCount \in [Networks -> Nat]
  BY DEF Init
<1>2. state \in [Networks -> NetworkState]
  BY DEF Init, NetworkState
<1>3. networkId \in [Handles -> Networks \cup {NoNetwork}]
  BY DEF Init
<1>4. registered \in BOOLEAN /\ shut \in BOOLEAN /\ valid \in [Handles -> BOOLEAN]
  BY DEF Init
<1> QED
  BY <1>1, <1>2, <1>3, <1>4 DEF TypeOK

LEMMA TypeStep == TypeOK /\ [Next]_vars => TypeOK'
<1> SUFFICES ASSUME TypeOK, [Next]_vars PROVE TypeOK'
  OBVIOUS
<1> USE DEF TypeOK
<1>1. ASSUME NEW n \in Networks, NEW s \in {"kBusSleep", "kNormal"}, EnterState(n, s)
      PROVE  state' \in [Networks -> NetworkState]
  BY <1>1 DEF EnterState, NetworkState
<1>2. ASSUME NEW n \in Networks, RequestNetwork(n)
      PROVE  /\ refCount' \in [Networks -> Nat]
             /\ state' \in [Networks -> NetworkState]
             /\ registered' = registered /\ shut' = shut
  BY <1>1, <1>2 DEF RequestNetwork
<1>3. ASSUME NEW n \in Networks, ReleaseNetwork(n)
      PROVE  /\ refCount' \in [Networks -> Nat]
             /\ state' \in [Networks -> NetworkState]
             /\ registered' = registered /\ shut' = shut
  BY <1>1, <1>3 DEF ReleaseNetwork
<1>4. CASE Initialize
  BY <1>4 DEF Initialize
<1>5. ASSUME NEW h \in Handles, NEW n \in Networks, CreateHandle(h, n) PROVE TypeOK'
  BY <1>2, <1>5 DEF CreateHandle, nmVars
<1>6. ASSUME NEW h \in Handles, DestroyHandle(h) PROVE TypeOK'
  BY <1>3, <1>6 DEF DestroyHandle, nmVars
<1>7. ASSUME NEW h \in Handles, NEW g \in Handles, MoveHandle(h, g) PROVE TypeOK'
  BY <1>7 DEF MoveHandle, nmVars
<1>8. CASE Shutdown
  BY <1>8 DEF Shutdown, NetworkState
<1>9. CASE UNCHANGED vars
  BY <1>9 DEF vars, nmVars
<1> QED
  BY <1>4, <1>5, <1>6, <1>7, <1>8, <1>9 DEF Next, Running, UseHandles

(* Every variable keeps its type, with Shutdown() at any time.               *)
THEOREM NetworkTypes == Spec => []TypeOK
<1> QED
  BY TypeInit, TypeStep, PTL DEF Spec
-----------------------------------------------------------------------------
(* What the operations on handles do to the holders of a network. *)
LEMMA HoldersFinite ==
  ASSUME NEW n \in Networks
  PROVE  IsFiniteSet(Holders(n)) /\ Cardinality(Holders(n)) \in Nat
<1>1. Holders(n) \in SUBSET Handles
  BY DEF Holders
<1>2. IsFiniteSet(Holders(n))
  BY <1>1, HandlesAssumption, FS_Subset
<1> QED
  BY <1>2, FS_CardinalityType

LEMMA CreateHolders ==
  ASSUME TypeOK, NEW h \in Handles, NEW n \in Networks, registered, CreateHandle(h, n)
  PROVE  /\ h \notin Holders(n)
         /\ Holders(n)' = Holders(n) \cup {h}
         /\ \A m \in Networks \ {n} : Holders(m)' = Holders(m)
BY NoNetworkAssumption DEF TypeOK, CreateHandle, Holders

LEMMA InvalidHolders ==
  ASSUME TypeOK, NEW h \in Handles, NEW n \in Networks, ~registered, CreateHandle(h, n),
         ~valid[h]
  PROVE  \A m \in Networks : Holders(m)' = Holders(m)
BY NoNetworkAssumption DEF TypeOK, CreateHandle, Holders

LEMMA DestroyHolders ==
  ASSUME TypeOK, NEW h \in Handles, DestroyHandle(h)
  PROVE  \A m \in Networks : Holders(m)' = Holders(m) \ {h}
BY NoNetworkAssumption DEF TypeOK, DestroyHandle, Holders

LEMMA MoveHolders ==
  ASSUME TypeOK, NEW h \in Handles, NEW g \in Handles, MoveHandle(h, g)
  PROVE  /\ \A m \in Networks : g \notin Holders(m)
         /\ \A m \in Networks : h \in Holders(m) => Holders(m)' = (Holders(m) \cup {g}) \ {h}
         /\ \A m \in Networks : h \notin Holders(m) => Holders(m)' = Holders(m)
<1>1. h # g /\ networkId[h] \in Networks
  BY DEF TypeOK, MoveHandle
<1>2. networkId'[h] = networkId[h] /\ networkId'[g] = networkId[h]
      /\ \A x \in Handles \ {g} : networkId'[x] = networkId[x]
  BY <1>1 DEF TypeOK, MoveHandle
<1>3. valid'[h] = FALSE /\ valid'[g] = valid[h]
      /\ \A x \in Handles \ {g, h} : valid'[x] = valid[x]
  BY <1>1 DEF TypeOK, MoveHandle
<1>4. \A m \in Networks : g \notin Holders(m)
  BY NoNetworkAssumption DEF MoveHandle, Holders
<1> QED
  BY <1>1, <1>2, <1>3, <1>4 DEF Holders

(* How many they become. *)
LEMMA CreateCount ==
  ASSUME TypeOK, NEW h \in Handles, NEW n \in Networks, registered, CreateHandle(h, n)
  PROVE  Cardinality(Holders(n))' = Cardinality(Holders(n)) + 1
<1>1. h \notin Holders(n) /\ Holders(n)' = Holders(n) \cup {h}
  BY CreateHolders
<1> QED
  BY <1>1, HoldersFinite, FS_AddElement

LEMMA DestroyCount ==
  ASSUME TypeOK, NEW h \in Handles, DestroyHandle(h), NEW m \in Networks
  PROVE  Cardinality(Holders(m))' = IF h \in Holders(m) THEN Cardinality(Holders(m)) - 1
                                                        ELSE Cardinality(Holders(m))
<1>1. Holders(m)' = Holders(m) \ {h}
  BY DestroyHolders
<1> QED
  BY <1>1, HoldersFinite, FS_RemoveElement

LEMMA MoveCount ==
  ASSUME TypeOK, NEW h \in Handles, NEW g \in Handles, MoveHandle(h, g), NEW m \in Networks
  PROVE  Cardinality(Holders(m))' = Cardinality(Holders(m))
<1>1. CASE h \in Holders(m)
  <2>1. g \notin Holders(m) /\ Holders(m)' = (Holders(m) \cup {g}) \ {h}
    BY <1>1, MoveHolders
  <2>2. IsFiniteSet(Holders(m)) /\ Cardinality(Holders(m)) \in Nat
    BY HoldersFinite
  <2>3. /\ IsFiniteSet(Holders(m) \cup {g})
        /\ Cardinality(Holders(m) \cup {g}) = Cardinality(Holders(m)) + 1
    BY <2>1, <2>2, FS_AddElement
  <2>4. Cardinality((Holders(m) \cup {g}) \ {h}) = Cardinality(Holders(m) \cup {g}) - 1
    BY <1>1, <2>3, FS_RemoveElement
  <2> QED
    BY <2>1, <2>2, <2>3, <2>4
<1>2. CASE h \notin Holders(m)
  BY <1>2, MoveHolders
<1> QED
  BY <1>1, <1>2
-----------------------------------------------------------------------------
(* Where no object lives, nothing is held. *)
EmptyPlaces == \A h \in Handles : networkId[h] = NoNetwork => ~valid[h]

LEMMA EmptyStep == TypeOK /\ EmptyPlaces /\ [Next]_vars => EmptyPlaces'
<1> SUFFICES ASSUME TypeOK, EmptyPlaces, [Next]_vars, NEW x \in Handles
             PROVE  networkId'[x] = NoNetwork => ~valid'[x]
  BY DEF EmptyPlaces
<1> USE DEF TypeOK, EmptyPlaces
<1>1. ASSUME NEW h \in Handles, NEW n \in Networks, CreateHandle(h, n)
      PROVE  networkId'[x] = NoNetwork => ~valid'[x]
  BY <1>1, NoNetworkAssumption DEF CreateHandle
<1>2. ASSUME NEW h \in Handles, DestroyHandle(h)
      PROVE  networkId'[x] = NoNetwork => ~valid'[x]
  BY <1>2 DEF DestroyHandle
<1>3. ASSUME NEW h \in Handles, NEW g \in Handles, MoveHandle(h, g)
      PROVE  networkId'[x] = NoNetwork => ~valid'[x]
  BY <1>3 DEF MoveHandle
<1>4. CASE Initialize \/ Shutdown \/ UNCHANGED vars
  BY <1>4 DEF Initialize, Shutdown, vars
<1> QED
  BY <1>1, <1>2, <1>3, <1>4 DEF Next, Running, UseHandles

(* How a step moves the count, the number of holders and the state of a network. *)
Kept(m) ==
  /\ refCount'[m] = refCount[m]
  /\ Cardinality(Holders(m))' = Cardinality(Holders(m))
  /\ state'[m] = state[m]

Requested(m) ==
  /\ refCount'[m] = refCount[m] + 1
  /\ Cardinality(Holders(m))' = Cardinality(Holders(m)) + 1
  /\ \/ refCount[m] = 0 /\ state'[m] = "kNormal"
     \/ refCount[m] > 0 /\ state'[m] = state[m]

Released(m) ==
  /\ Cardinality(Holders(m))' = Cardinality(Holders(m)) - 1
  /\ \/ refCount[m] = 0 /\ refCount'[m] = 0 /\ state'[m] = state[m]
     \/ refCount[m] = 1 /\ refCount'[m] = 0 /\ state'[m] = "kBusSleep"
     \/ refCount[m] > 1 /\ refCount'[m] = refCount[m] - 1 /\ state'[m] = state[m]

LEMMA CountStep ==
  ASSUME TypeOK, EmptyPlaces, [Running]_vars, NEW m \in Networks
  PROVE  Kept(m) \/ Requested(m) \/ Released(m)
<1>1. ASSUME NEW h \in Handles, NEW n \in Networks, CreateHandle(h, n)
      PROVE  Kept(m) \/ Requested(m)
  <2>1. CASE ~registered
    <3>1. Holders(m)' = Holders(m)
      BY <1>1, <2>1, InvalidHolders DEF EmptyPlaces, CreateHandle
    <3>2. refCount' = refCount /\ state' = state
      BY <1>1, <2>1 DEF CreateHandle, nmVars
    <3> QED
      BY <3>1, <3>2 DEF Kept
  <2>2. CASE registered /\ m = n
    <3>1. Cardinality(Holders(m))' = Cardinality(Holders(m)) + 1
      BY <1>1, <2>2, CreateCount
    <3>2. RequestNetwork(m)
      BY <1>1, <2>2 DEF CreateHandle
    <3>3. refCount'[m] = refCount[m] + 1
      BY <3>2 DEF RequestNetwork, TypeOK
    <3>4. \/ refCount[m] = 0 /\ state'[m] = "kNormal"
          \/ refCount[m] > 0 /\ state'[m] = state[m]
      <4>1. CASE refCount[m] = 0 /\ EnterState(m, "kNormal")
        <5>1. state \in [Networks -> NetworkState]
          BY DEF TypeOK
        <5>2. state' = [state EXCEPT ![m] = "kNormal"]
          BY <4>1 DEF EnterState
        <5> QED
          BY <4>1, <5>1, <5>2
      <4>2. CASE refCount[m] > 0 /\ state' = state
        BY <4>2
      <4> QED
        BY <3>2, <4>1, <4>2 DEF RequestNetwork
    <3> QED
      BY <3>1, <3>3, <3>4 DEF Requested
  <2>3. CASE registered /\ m # n
    <3>1. Holders(m)' = Holders(m)
      BY <1>1, <2>3, CreateHolders
    <3>2. RequestNetwork(n)
      BY <1>1, <2>3 DEF CreateHandle
    <3>3. refCount'[m] = refCount[m] /\ state'[m] = state[m]
      BY <2>3, <3>2 DEF RequestNetwork, EnterState, TypeOK
    <3> QED
      BY <3>1, <3>3 DEF Kept
  <2> QED
    BY <2>1, <2>2, <2>3
<1>2. ASSUME NEW h \in Handles, DestroyHandle(h) PROVE Kept(m) \/ Released(m)
  <2>1. CASE h \in Holders(m)
    <3>1. Cardinality(Holders(m))' = Cardinality(Holders(m)) - 1
      BY <1>2, <2>1, DestroyCount
    <3>2. ReleaseNetwork(m)
      BY <1>2, <2>1 DEF DestroyHandle, Holders
    <3>3. refCount[m] \in Nat
      BY DEF TypeOK
    <3>4. \/ refCount[m] = 0 /\ refCount'[m] = 0 /\ state'[m] = state[m]
          \/ refCount[m] = 1 /\ refCount'[m] = 0 /\ state'[m] = "kBusSleep"
          \/ refCount[m] > 1 /\ refCount'[m] = refCount[m] - 1 /\ state'[m] = state[m]
      BY <3>2, <3>3 DEF ReleaseNetwork, EnterState, TypeOK
    <3> QED
      BY <3>1, <3>4 DEF Released
  <2>2. CASE h \notin Holders(m)
    <3>1. Cardinality(Holders(m))' = Cardinality(Holders(m))
      BY <1>2, <2>2, DestroyCount
    <3>2. networkId[h] \in Networks /\ (valid[h] => networkId[h] # m)
      BY <1>2, <2>2 DEF DestroyHandle, Holders, TypeOK
    <3>3. ASSUME valid[h]
          PROVE  refCount'[m] = refCount[m] /\ state'[m] = state[m]
      <4>1. ReleaseNetwork(networkId[h]) /\ networkId[h] \in Networks /\ networkId[h] # m
        BY <1>2, <3>2, <3>3 DEF DestroyHandle
      <4> QED
        BY <4>1 DEF ReleaseNetwork, EnterState, TypeOK
    <3>4. ASSUME ~valid[h]
          PROVE  refCount'[m] = refCount[m] /\ state'[m] = state[m]
      BY <1>2, <3>4 DEF DestroyHandle, nmVars
    <3> QED
      BY <3>1, <3>3, <3>4 DEF Kept
  <2> QED
    BY <2>1, <2>2
<1>3. ASSUME NEW h \in Handles, NEW g \in Handles, MoveHandle(h, g) PROVE Kept(m)
  <2>1. Cardinality(Holders(m))' = Cardinality(Holders(m))
    BY <1>3, MoveCount
  <2> QED
    BY <1>3, <2>1 DEF Kept, MoveHandle, nmVars
<1>4. CASE Initialize
  <2>1. Holders(m)' = Holders(m)
    BY <1>4 DEF Initialize, Holders
  <2> QED
    BY <1>4, <2>1 DEF Initialize, Kept
<1>5. CASE UNCHANGED vars
  <2>1. Holders(m)' = Holders(m)
    BY <1>5 DEF vars, Holders
  <2> QED
    BY <1>5, <2>1 DEF vars, nmVars, Kept
<1> QED
  BY <1>1, <1>2, <1>3, <1>4, <1>5 DEF Running, UseHandles

LEMMA HoldersFinitePrimed ==
  ASSUME NEW n \in Networks
  PROVE  IsFiniteSet(Holders(n))' /\ Cardinality(Holders(n))' \in Nat
<1>1. Holders(n)' \in SUBSET Handles
  BY DEF Holders
<1>2. IsFiniteSet(Holders(n)')
  BY <1>1, HandlesAssumption, FS_Subset
<1> QED
  BY <1>2, FS_CardinalityType
-----------------------------------------------------------------------------
LEMMA InitHolders ==
  ASSUME Init, NEW n \in Networks
  PROVE  Holders(n) = {} /\ Cardinality(Holders(n)) = 0
<1>1. Holders(n) = {}
  BY DEF Init, Holders
<1> QED
  BY <1>1, FS_EmptySet

LEMMA UnheldStep ==
  TypeOK /\ EmptyPlaces /\ NeverAwakeUnheld /\ [Next]_vars => NeverAwakeUnheld'
<1> SUFFICES ASSUME TypeOK, EmptyPlaces, NeverAwakeUnheld, [Next]_vars, NEW m \in Networks
             PROVE  /\ refCount'[m] <= Cardinality(Holders(m))'
                    /\ state'[m] = "kNormal" <=> refCount'[m] > 0
  BY DEF NeverAwakeUnheld
<1> DEFINE c == refCount[m]
           d == refCount'[m]
           k == Cardinality(Holders(m))
           l == Cardinality(Holders(m))'
<1>1. c \in Nat /\ k \in Nat /\ l \in Nat
  BY HoldersFinite, HoldersFinitePrimed DEF TypeOK
<1>2. c <= k /\ (state[m] = "kNormal" <=> c > 0)
  BY DEF NeverAwakeUnheld
<1>3. CASE [Running]_vars
  <2>1. Kept(m) \/ Requested(m) \/ Released(m)
    BY <1>3, CountStep
  <2>2. CASE Kept(m)
    <3>1. d = c /\ l = k /\ state'[m] = state[m]
      BY <2>2 DEF Kept
    <3> QED
      BY <1>1, <1>2, <3>1
  <2>3. CASE Requested(m)
    <3>1. /\ d = c + 1
          /\ l = k + 1
          /\ \/ c = 0 /\ state'[m] = "kNormal"
             \/ c > 0 /\ state'[m] = state[m]
      BY <2>3 DEF Requested
    <3> HIDE DEF c, d, k, l
    <3>2. d <= l /\ (state'[m] = "kNormal" <=> d > 0)
      BY <1>1, <1>2, <3>1
    <3> QED
      BY <3>2 DEF d, l
  <2>4. CASE Released(m)
    <3>1. /\ l = k - 1
          /\ \/ c = 0 /\ d = 0 /\ state'[m] = state[m]
             \/ c = 1 /\ d = 0 /\ state'[m] = "kBusSleep"
             \/ c > 1 /\ d = c - 1 /\ state'[m] = state[m]
      BY <2>4 DEF Released
    <3> HIDE DEF c, d, k, l
    <3>2. d <= l /\ (state'[m] = "kNormal" <=> d > 0)
      BY <1>1, <1>2, <3>1
    <3> QED
      BY <3>2 DEF d, l
  <2> QED
    BY <2>1, <2>2, <2>3, <2>4
<1>4. CASE Shutdown
  <2>1. d = 0 /\ state'[m] = "kBusSleep"
    BY <1>4 DEF Shutdown
  <2> QED
    BY <1>1, <2>1
<1> QED
  BY <1>3, <1>4 DEF Next

(* However Shutdown() interleaves with the life of the handles, a network    *)
(* nobody holds is asleep.                                                   *)
THEOREM UnheldSleeps == Spec => []NeverAwakeUnheld
<1>1. Init => TypeOK /\ EmptyPlaces /\ NeverAwakeUnheld
  <2> SUFFICES ASSUME Init PROVE EmptyPlaces /\ NeverAwakeUnheld
    BY TypeInit
  <2>1. EmptyPlaces
    BY DEF Init, EmptyPlaces
  <2>2. NeverAwakeUnheld
    <3>1. SUFFICES ASSUME NEW n \in Networks
                   PROVE  /\ refCount[n] <= Cardinality(Holders(n))
                          /\ state[n] = "kNormal" <=> refCount[n] > 0
      BY DEF NeverAwakeUnheld
    <3>2. refCount[n] = 0 /\ state[n] = "kBusSleep"
      BY DEF Init
    <3>3. Cardinality(Holders(n)) = 0
      BY InitHolders
    <3> QED
      BY <3>2, <3>3
  <2> QED
    BY <2>1, <2>2
<1> QED
  BY <1>1, TypeStep, EmptyStep, UnheldStep, PTL DEF Spec
-----------------------------------------------------------------------------
(* Only Shutdown() ends the sharing. *)
LEMMA RunningKeepsOpen == [Running]_vars => shut' = shut
<1>1. ASSUME NEW n, RequestNetwork(n) PROVE shut' = shut
  BY <1>1 DEF RequestNetwork
<1>2. ASSUME NEW n, ReleaseNetwork(n) PROVE shut' = shut
  BY <1>2 DEF ReleaseNetwork
<1>3. ASSUME NEW h \in Handles, NEW n \in Networks, CreateHandle(h, n) PROVE shut' = shut
  BY <1>1, <1>3 DEF CreateHandle, nmVars
<1>4. ASSUME NEW h \in Handles, DestroyHandle(h) PROVE shut' = shut
  BY <1>2, <1>4 DEF DestroyHandle, nmVars
<1>5. ASSUME NEW h \in Handles, NEW g \in Handles, MoveHandle(h, g) PROVE shut' = shut
  BY <1>5 DEF MoveHandle, nmVars
<1> QED
  BY <1>3, <1>4, <1>5 DEF Running, UseHandles, Initialize, vars, nmVars

(* Until Shutdown() the counts are exact. *)
Exact == ~shut => \A n \in Networks : refCount[n] = Cardinality(Holders(n))

CountInv == TypeOK /\ EmptyPlaces /\ NeverAwakeUnheld /\ Exact

LEMMA CountInit == Init => CountInv
<1> SUFFICES ASSUME Init PROVE CountInv
  OBVIOUS
<1>1. EmptyPlaces
  BY DEF Init, EmptyPlaces
<1>2. ASSUME NEW n \in Networks
      PROVE  refCount[n] = 0 /\ state[n] = "kBusSleep" /\ Cardinality(Holders(n)) = 0
  BY InitHolders DEF Init
<1>3. NeverAwakeUnheld /\ Exact
  BY <1>2 DEF NeverAwakeUnheld, Exact
<1> QED
  BY <1>1, <1>3, TypeInit DEF CountInv

LEMMA CountInvStep == CountInv /\ [Next]_vars => CountInv'
<1> SUFFICES ASSUME CountInv, [Next]_vars PROVE CountInv'
  OBVIOUS
<1>1. TypeOK' /\ EmptyPlaces' /\ NeverAwakeUnheld'
  BY TypeStep, EmptyStep, UnheldStep DEF CountInv
<1>2. ASSUME [Running]_vars, ~shut, NEW m \in Networks
      PROVE  refCount'[m] = Cardinality(Holders(m))'
  <2> DEFINE c == refCount[m]
             d == refCount'[m]
             k == Cardinality(Holders(m))
             l == Cardinality(Holders(m))'
  <2>1. c \in Nat /\ k \in Nat /\ l \in Nat
    BY HoldersFinite, HoldersFinitePrimed DEF CountInv, TypeOK
  <2>2. c = k
    BY <1>2 DEF CountInv, Exact
  <2>3. \/ d = c /\ l = k
        \/ d = c + 1 /\ l = k + 1
        \/ /\ l = k - 1
           /\ \/ c \in {0, 1} /\ d = 0
              \/ c > 1 /\ d = c - 1
    <3>1. Kept(m) \/ Requested(m) \/ Released(m)
      BY <1>2, CountStep DEF CountInv
    <3>2. CASE Kept(m)
      BY <3>2 DEF Kept
    <3>3. CASE Requested(m)
      BY <3>3 DEF Requested
    <3>4. CASE Released(m)
      BY <3>4 DEF Released
    <3> QED
      BY <3>1, <3>2, <3>3, <3>4
  <2> HIDE DEF c, d, k, l
  <2>4. d = l
    BY <2>1, <2>2, <2>3
  <2> QED
    BY <2>4 DEF d, l
<1>3. CASE [Running]_vars
  BY <1>1, <1>2, <1>3, RunningKeepsOpen DEF CountInv, Exact
<1>4. CASE Shutdown
  BY <1>1, <1>4 DEF CountInv, Exact, Shutdown
<1> QED
  BY <1>3, <1>4 DEF Next

-----------------------------------------------------------------------------
(* The implementation of SharedNetwork. *)
Held == [n \in Networks |-> Holders(n)]
Awake == [n \in Networks |-> state[n] = "kNormal"]

LEMMA AwakeIffHeld ==
  ASSUME CountInv, ~shut, NEW n \in Networks
  PROVE  state[n] = "kNormal" <=> Holders(n) # {}
<1>1. IsFiniteSet(Holders(n)) /\ refCount[n] = Cardinality(Holders(n))
  BY HoldersFinite DEF CountInv, Exact
<1>2. Cardinality(Holders(n)) = 0 <=> Holders(n) = {}
  BY <1>1, FS_EmptySet
<1>3. refCount[n] \in Nat /\ (state[n] = "kNormal" <=> refCount[n] > 0)
  BY DEF CountInv, TypeOK, NeverAwakeUnheld
<1> QED
  BY <1>1, <1>2, <1>3

LEMMA AwakeIffHeldPrimed ==
  ASSUME CountInv', ~shut', NEW n \in Networks
  PROVE  state'[n] = "kNormal" <=> Holders(n)' # {}
<1>1. IsFiniteSet(Holders(n)') /\ refCount'[n] = Cardinality(Holders(n))'
  BY HoldersFinitePrimed DEF CountInv, Exact
<1>2. Cardinality(Holders(n)') = 0 <=> Holders(n)' = {}
  BY <1>1, FS_EmptySet
<1>3. refCount'[n] \in Nat /\ (state'[n] = "kNormal" <=> refCount'[n] > 0)
  BY DEF CountInv, TypeOK, NeverAwakeUnheld
<1> QED
  BY <1>1, <1>2, <1>3

(* A step that gives one network other holders is a change of the shared network. *)
LEMMA HoldersChange ==
  ASSUME CountInv, CountInv', ~shut, ~shut', NEW n \in Networks,
         \A m \in Networks \ {n} : Holders(m)' = Holders(m)
  PROVE  /\ Held' = [Held EXCEPT ![n] = Holders(n)']
         /\ Awake' = [Awake EXCEPT ![n] = Holders(n)' # {}]
<1>1. Held' = [Held EXCEPT ![n] = Holders(n)']
  BY DEF Held
<1>2. \A m \in Networks : state[m] = "kNormal" <=> Holders(m) # {}
  BY AwakeIffHeld
<1>3. \A m \in Networks : state'[m] = "kNormal" <=> Holders(m)' # {}
  BY AwakeIffHeldPrimed
<1>4. Awake' = [m \in Networks |-> Holders(m)' # {}]
  BY <1>3, Zenon DEF Awake
<1>5. Awake = [m \in Networks |-> Holders(m) # {}]
  BY <1>2, Zenon DEF Awake
<1>6. Awake' = [Awake EXCEPT ![n] = Holders(n)' # {}]
  BY <1>4, <1>5
<1> QED
  BY <1>1, <1>6

LEMMA OpenStep ==
  ASSUME CountInv, CountInv', ~shut, [Running]_vars
  PROVE  [Shared!Next]_<<Held, Awake, shut>>
<1>0. ~shut' /\ shut' = FALSE /\ shut' = shut
  BY RunningKeepsOpen DEF CountInv, TypeOK
<1>1. ASSUME \A m \in Networks : Holders(m)' = Holders(m), state' = state
      PROVE  UNCHANGED <<Held, Awake, shut>>
  BY <1>0, <1>1 DEF Held, Awake
<1>2. ASSUME NEW h \in Handles, NEW n \in Networks, CreateHandle(h, n)
      PROVE  [Shared!Next]_<<Held, Awake, shut>>
  <2>1. CASE registered
    <3>1. /\ h \notin Holders(n)
          /\ Holders(n)' = Holders(n) \cup {h}
          /\ \A m \in Networks \ {n} : Holders(m)' = Holders(m)
      BY <1>2, <2>1, CreateHolders DEF CountInv
    <3>2. /\ Held' = [Held EXCEPT ![n] = Holders(n) \cup {h}]
          /\ Awake' = [Awake EXCEPT ![n] = Holders(n) \cup {h} # {}]
      BY <3>1, <1>0, HoldersChange
    <3>3. Shared!Take(h, n)
      BY <1>0, <3>1, <3>2 DEF Shared!Take, Shared!Change, Held, Awake
    <3> QED
      BY <3>3 DEF Shared!Next
  <2>2. CASE ~registered
    <3>1. \A m \in Networks : Holders(m)' = Holders(m)
      BY <1>2, <2>2, InvalidHolders DEF CountInv, EmptyPlaces, CreateHandle
    <3> QED
      BY <1>1, <1>2, <2>2, <3>1 DEF CreateHandle, nmVars
  <2> QED
    BY <2>1, <2>2
<1>3. ASSUME NEW h \in Handles, DestroyHandle(h)
      PROVE  [Shared!Next]_<<Held, Awake, shut>>
  <2>1. \A m \in Networks : Holders(m)' = Holders(m) \ {h}
    BY <1>3, DestroyHolders DEF CountInv
  <2>2. CASE valid[h]
    <3>1. networkId[h] \in Networks /\ h \in Holders(networkId[h])
          /\ \A m \in Networks \ {networkId[h]} : h \notin Holders(m)
      BY <1>3, <2>2 DEF DestroyHandle, Holders, CountInv, TypeOK
    <3>2. PICK n \in Networks : n = networkId[h]
      BY <3>1
    <3>3. /\ Holders(n)' = Holders(n) \ {h}
          /\ \A m \in Networks \ {n} : Holders(m)' = Holders(m)
      BY <2>1, <3>1, <3>2
    <3>4. /\ Held' = [Held EXCEPT ![n] = Holders(n) \ {h}]
          /\ Awake' = [Awake EXCEPT ![n] = Holders(n) \ {h} # {}]
      BY <3>3, <1>0, HoldersChange
    <3>5. Shared!Leave(h, n)
      BY <1>0, <3>1, <3>2, <3>4 DEF Shared!Leave, Shared!Change, Held, Awake
    <3> QED
      BY <3>5 DEF Shared!Next
  <2>3. CASE ~valid[h]
    <3>1. \A m \in Networks : Holders(m)' = Holders(m)
      BY <2>1, <2>3 DEF Holders
    <3> QED
      BY <1>1, <1>3, <2>3, <3>1 DEF DestroyHandle, nmVars
  <2> QED
    BY <2>2, <2>3
<1>4. ASSUME NEW h \in Handles, NEW g \in Handles, MoveHandle(h, g)
      PROVE  [Shared!Next]_<<Held, Awake, shut>>
  <2>1. /\ \A m \in Networks : g \notin Holders(m)
        /\ \A m \in Networks : h \in Holders(m) => Holders(m)' = (Holders(m) \cup {g}) \ {h}
        /\ \A m \in Networks : h \notin Holders(m) => Holders(m)' = Holders(m)
    BY <1>4, MoveHolders DEF CountInv
  <2>2. CASE valid[h]
    <3>1. networkId[h] \in Networks /\ h \in Holders(networkId[h])
          /\ \A m \in Networks \ {networkId[h]} : h \notin Holders(m)
      BY <1>4, <2>2 DEF MoveHandle, Holders, CountInv, TypeOK
    <3>2. PICK n \in Networks : n = networkId[h]
      BY <3>1
    <3>3. /\ Holders(n)' = (Holders(n) \cup {g}) \ {h}
          /\ \A m \in Networks \ {n} : Holders(m)' = Holders(m)
      BY <2>1, <3>1, <3>2
    <3>4. /\ Held' = [Held EXCEPT ![n] = (Holders(n) \cup {g}) \ {h}]
          /\ Awake' = [Awake EXCEPT ![n] = (Holders(n) \cup {g}) \ {h} # {}]
      BY <3>3, <1>0, HoldersChange
    <3>5. Shared!HandOver(h, g, n)
      BY <1>0, <2>1, <3>1, <3>2, <3>4 DEF Shared!HandOver, Shared!Change, Held, Awake
    <3> QED
      BY <3>5 DEF Shared!Next
  <2>3. CASE ~valid[h]
    <3>1. \A m \in Networks : Holders(m)' = Holders(m)
      BY <2>1, <2>3 DEF Holders
    <3> QED
      BY <1>1, <1>4, <3>1 DEF MoveHandle, nmVars
  <2> QED
    BY <2>2, <2>3
<1>5. CASE Initialize \/ UNCHANGED vars
  <2>1. \A m \in Networks : Holders(m)' = Holders(m)
    BY <1>5 DEF Initialize, vars, Holders
  <2> QED
    BY <1>1, <1>5, <2>1 DEF Initialize, vars, nmVars
<1> QED
  BY <1>2, <1>3, <1>4, <1>5 DEF Running, UseHandles

(* Once it is shut, what is awake is still held by somebody. *)
LEMMA LingerStep ==
  ASSUME CountInv', shut, shut'
  PROVE  Shared!Linger
<1>1. ASSUME NEW n \in Networks, state'[n] = "kNormal" PROVE Holders(n)' # {}
  <2>1. refCount'[n] \in Nat /\ refCount'[n] > 0 /\ refCount'[n] <= Cardinality(Holders(n))'
    BY <1>1 DEF CountInv, TypeOK, NeverAwakeUnheld
  <2>2. Cardinality({}) = 0
    BY FS_EmptySet
  <2> QED
    BY <2>1, <2>2
<1> QED
  BY <1>1 DEF Shared!Linger, CountInv, TypeOK

LEMMA SharedStep ==
  CountInv /\ CountInv' /\ [Next]_vars => [Shared!Next]_<<Held, Awake, shut>>
<1> SUFFICES ASSUME CountInv, CountInv', [Next]_vars
             PROVE  [Shared!Next]_<<Held, Awake, shut>>
  OBVIOUS
<1>1. CASE shut
  <2>1. shut'
    BY <1>1, RunningKeepsOpen DEF Next, Shutdown
  <2> QED
    BY <1>1, <2>1, LingerStep DEF Shared!Next
<1>2. CASE ~shut /\ Shutdown
  <2>1. Held' = Held /\ Awake' = [n \in Networks |-> FALSE] /\ shut' = TRUE
    BY <1>2 DEF Shutdown, Held, Awake, Holders
  <2>2. Shared!Close
    BY <1>2, <2>1 DEF Shared!Close, Held, Awake
  <2> QED
    BY <2>2 DEF Shared!Next
<1>3. CASE ~shut /\ [Running]_vars
  BY <1>3, OpenStep
<1> QED
  BY <1>1, <1>2, <1>3 DEF Next

(* Network management implements reference-counted sharing: until Shutdown() *)
(* awake exactly while held, whatever is constructed, moved and destroyed,   *)
(* and never awake for nobody.                                               *)
THEOREM NetworkIsShared == Spec => ImplementsSharedNetwork
<1>1. Init => Shared!Init
  <2> SUFFICES ASSUME Init PROVE Shared!Init
    OBVIOUS
  <2>1. \A n \in Networks : Holders(n) = {}
    BY InitHolders
  <2>2. \A n \in Networks : (state[n] = "kNormal") = FALSE
    BY DEF Init
  <2>3. Held = [n \in Networks |-> {}]
    BY <2>1 DEF Held
  <2>4. Awake = [n \in Networks |-> FALSE]
    BY <2>2 DEF Awake
  <2>5. shut = FALSE
    BY DEF Init
  <2> QED
    BY <2>3, <2>4, <2>5 DEF Shared!Init, Held, Awake
<1>2. CountInv /\ CountInv' /\ [Next]_vars => [Shared!Next]_Shared!vars
  BY SharedStep DEF Shared!vars, Held, Awake
<1> QED
  BY <1>1, <1>2, CountInit, CountInvStep, PTL
  DEF Spec, ImplementsSharedNetwork, Shared!Spec
=============================================================================
