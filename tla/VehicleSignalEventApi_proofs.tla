-------------------- MODULE VehicleSignalEventApi_proofs --------------------
(***************************************************************************)
(* For every set of handlers and sizes: the event's types, the bound on    *)
(* late handler calls, and that the queue implements SampleChannel.        *)
(***************************************************************************)
EXTENDS VehicleSignalEventApi, TLAPS

USE NoHandlerAssumption, SizesAssumption, MaxPushesAssumption

(* The push copies the handler that is installed, or none, and keeps the types. *)
LEMMA StoreKeepsTypes ==
  ASSUME NEW S, EventTypeOK(S), NEW s \in S, NEW h, PushStore(s, h)
  PROVE  /\ EventTypeOK(S)'
         /\ h = receiveHandler /\ h \in Handlers \cup {NoHandler}
         /\ UNCHANGED receiveHandler
<1>1. Len(sampleQueue) >= maxSamples => Tail(sampleQueue) \in Seq(S)
  BY DEF EventTypeOK
<1>2. Pushed(s) \in Seq(S)
  BY <1>1 DEF EventTypeOK, Pushed
<1> QED
  BY <1>2 DEF PushStore, EventTypeOK

(* The event's variables keep their types whatever the application does. *)
THEOREM EventApiTypes == Spec => []TypeOK
<1>1. Init => TypeOK
  BY DEF Init, TypeOK, EventInit, EventTypeOK, SubscriptionState
<1>2. TypeOK /\ [Next]_vars => TypeOK'
  <2> SUFFICES ASSUME TypeOK, [Next]_vars PROVE TypeOK'
    OBVIOUS
  <2> USE DEF TypeOK
  <2>1. CASE Push
    <3>1. queueMtx' \in {"free", "PushSample"} /\ pushed' \in Nat
      BY <2>1 DEF Push, PushTest
    <3> QED
      BY <2>1, <3>1 DEF Push, PushTest, EventTypeOK
  <2>9. CASE Store
    <3>1. pushed + 1 \in Nat /\ pushed' \in Nat
      BY <2>9 DEF Store
    <3>2. EventTypeOK(Nat)' /\ cb' \in Handlers \cup {NoHandler}
      BY <2>9, <3>1, StoreKeepsTypes DEF Store
    <3> QED
      BY <2>9, <3>1, <3>2 DEF Store
  <2>2. CASE Call
    BY <2>2 DEF Call, EventTypeOK, eventVars
  <2>3. CASE AppSubscribe
    BY <2>3 DEF AppSubscribe, Subscribe, EventTypeOK, SubscriptionState
  <2>4. CASE AppUnsubscribe
    BY <2>4 DEF AppUnsubscribe, Unsubscribe, EventTypeOK, SubscriptionState
  <2>5. CASE AppGetNewSamples
    <3> PICK count \in 1..MaxPushes : GetNewSamples(count)
      BY <2>5 DEF AppGetNewSamples
    <3>1. PullCount(count) \in Nat /\ PullCount(count) <= Len(sampleQueue)
      BY DEF PullCount, EventTypeOK
    <3>2. sampleQueue' \in Seq(Nat)
      <4>1. \A i \in PullCount(count) + 1..Len(sampleQueue) : sampleQueue[i] \in Nat
        BY <3>1 DEF EventTypeOK
      <4>2. Len(sampleQueue) \in Nat
        BY DEF EventTypeOK
      <4> QED
        BY <3>1, <4>1, <4>2 DEF GetNewSamples
    <3> QED
      BY <2>5, <3>2 DEF AppGetNewSamples, GetNewSamples, EventTypeOK
  <2>6. ASSUME NEW h \in Handlers, AppSetReceiveHandler(h) PROVE TypeOK'
    BY <2>6 DEF AppSetReceiveHandler, SetReceiveHandler, Removed, EventTypeOK
  <2>7. CASE AppUnsetReceiveHandler
    BY <2>7 DEF AppUnsetReceiveHandler, UnsetReceiveHandler, SetReceiveHandler,
                Removed, EventTypeOK
  <2>8. CASE UNCHANGED vars
    BY <2>8 DEF vars, eventVars, EventTypeOK
  <2> QED
    BY <2>1, <2>2, <2>3, <2>4, <2>5, <2>6, <2>7, <2>8, <2>9 DEF Next
<1> QED
  BY <1>1, <1>2, PTL DEF Spec

(* A handler that is installed, or about to be called, has no late call yet: *)
(* the installed handler is never among the removed ones.  No call has been  *)
(* made without a subscription while there is one, nor while a PushSample    *)
(* that has seen one is still under way.                                     *)
LateInv ==
  /\ receiveHandler \notin removed
  /\ \A h \in Handlers :
       /\ lateCalls[h] <= 1
       /\ h = receiveHandler \/ h = cb => lateCalls[h] = 0
  /\ offCalls <= 1
  /\ subscription = "kSubscribed" \/ queueMtx = "PushSample" \/ cb # NoHandler => offCalls = 0
  /\ queueMtx = "free" \/ cb = NoHandler

(* A handler that was replaced or removed is called at most once more, and   *)
(* after Unsubscribe there is at most one call until the next Subscribe.     *)
THEOREM OneLateCall == Spec => []AtMostOneLateCall
<1>1. Init => LateInv
  BY DEF Init, EventInit, LateInv
<1>2. TypeOK /\ LateInv /\ [Next]_vars => LateInv'
  <2> SUFFICES ASSUME TypeOK, LateInv, [Next]_vars PROVE LateInv'
    OBVIOUS
  <2> USE DEF TypeOK, LateInv, EventTypeOK
  <2>1. CASE Push
    BY <2>1 DEF Push, PushTest
  <2>2. CASE Call
    <3>1. /\ cb \in Handlers /\ cb' = NoHandler /\ offCalls = 0 /\ lateCalls[cb] = 0
          /\ UNCHANGED <<receiveHandler, subscription, queueMtx, removed>>
      BY <2>2 DEF Call, eventVars
    <3>2. offCalls' <= 1 /\ (subscription = "kSubscribed" => offCalls' = 0)
      BY <2>2, <3>1 DEF Call
    <3>3. queueMtx = "free"
      BY <3>1
    <3>4. \A h \in Handlers :
            /\ lateCalls'[h] <= 1
            /\ h = receiveHandler => lateCalls'[h] = 0
      BY <2>2, <3>1 DEF Call
    <3> QED
      BY <3>1, <3>2, <3>3, <3>4
  <2>7. CASE Store
    BY <2>7 DEF Store, PushStore
  <2>3. CASE AppSubscribe \/ AppUnsubscribe \/ AppGetNewSamples
    BY <2>3 DEF AppSubscribe, Subscribe, AppUnsubscribe, Unsubscribe,
                AppGetNewSamples, GetNewSamples
  <2>4. ASSUME NEW h \in Handlers, AppSetReceiveHandler(h) PROVE LateInv'
    BY <2>4 DEF AppSetReceiveHandler, SetReceiveHandler, Removed
  <2>5. CASE AppUnsetReceiveHandler
    BY <2>5 DEF AppUnsetReceiveHandler, UnsetReceiveHandler, SetReceiveHandler, Removed
  <2>6. CASE UNCHANGED vars
    BY <2>6 DEF vars, eventVars
  <2> QED
    BY <2>1, <2>2, <2>3, <2>4, <2>5, <2>6, <2>7 DEF Next
<1>3. LateInv => AtMostOneLateCall
  BY DEF LateInv, AtMostOneLateCall
<1> QED
  BY <1>1, <1>2, <1>3, EventApiTypes, PTL DEF Spec

(* Every step of the event is a step of the first-in first-out channel: the  *)
(* queue loses its oldest sample only, and only when it holds maxSamples.    *)
THEOREM EventImplementsChannel == Spec => ImplementsChannel
<1>1. Init => Channel!Init
  BY DEF Init, EventInit, Channel!Init
<1>2. TypeOK /\ [Next]_vars => [Channel!Next]_Channel!vars
  <2> SUFFICES ASSUME TypeOK, [Next]_vars PROVE [Channel!Next]_Channel!vars
    OBVIOUS
  <2> USE DEF TypeOK, EventTypeOK, Channel!vars, Channel!Next
  <2>1. CASE Push
    BY <2>1 DEF Push, PushTest, Channel!Pass
  <2>9. CASE Store
    BY <2>9 DEF Store, PushStore, Pushed, Channel!Keep, Channel!KeepAndForgetOldest
  <2>2. CASE Call
    BY <2>2 DEF Call, eventVars
  <2>3. CASE AppSubscribe
    BY <2>3 DEF AppSubscribe, Subscribe, Channel!Resize
  <2>4. CASE AppUnsubscribe
    BY <2>4 DEF AppUnsubscribe, Unsubscribe
  <2>5. CASE AppGetNewSamples
    <3> PICK count \in 1..MaxPushes : GetNewSamples(count)
      BY <2>5 DEF AppGetNewSamples
    <3>1. PullCount(count) \in 0..Len(sampleQueue)
      BY DEF PullCount
    <3> QED
      BY <2>5, <3>1 DEF AppGetNewSamples, GetNewSamples, Channel!Take
  <2>6. ASSUME NEW h \in Handlers, AppSetReceiveHandler(h)
        PROVE [Channel!Next]_Channel!vars
    BY <2>6 DEF AppSetReceiveHandler, SetReceiveHandler
  <2>7. CASE AppUnsetReceiveHandler
    BY <2>7 DEF AppUnsetReceiveHandler, UnsetReceiveHandler, SetReceiveHandler
  <2>8. CASE UNCHANGED vars
    BY <2>8 DEF vars, eventVars
  <2> QED
    BY <2>1, <2>2, <2>3, <2>4, <2>5, <2>6, <2>7, <2>8, <2>9 DEF Next
<1> QED
  BY <1>1, <1>2, EventApiTypes, PTL DEF Spec, ImplementsChannel, Channel!Spec
=============================================================================
