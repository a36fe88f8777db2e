------------------------ MODULE VehicleSignalEventApi ------------------------
(***************************************************************************)
(* VehicleSignalEvent under any use of its interface: an application       *)
(* thread that subscribes, unsubscribes, installs and removes handlers and *)
(* pulls samples in any order, against a receive thread that pushes.       *)
(* Samples are numbered in the order they are pushed.                      *)
(***************************************************************************)
EXTENDS VehicleSignalEvent

CONSTANTS
  Sizes,       (* The queue sizes the application subscribes with. *)
  MaxPushes    (* Bound on the samples of one behaviour.           *)

ASSUME SizesAssumption == Sizes \subseteq Nat \ {0}
ASSUME MaxPushesAssumption == MaxPushes \in Nat

VARIABLES
  pushed,     (* how many samples have been pushed                              *)
  cb,         (* the handler PushSample copied and is about to call             *)
  removed,    (* history: the handlers that were installed and no longer are    *)
  lateCalls,  (* history: calls per handler since it was last removed           *)
  offCalls    (* history: calls without a subscription since the last Subscribe *)

vars == <<eventVars, pushed, cb, removed, lateCalls, offCalls>>

TypeOK ==
  /\ EventTypeOK(Nat)
  /\ pushed \in Nat
  /\ cb \in Handlers \cup {NoHandler}
  /\ removed \subseteq Handlers
  /\ lateCalls \in [Handlers -> Nat]
  /\ offCalls \in Nat

Init ==
  /\ EventInit
  /\ pushed = 0
  /\ cb = NoHandler
  /\ removed = {}
  /\ lateCalls = [h \in Handlers |-> 0]
  /\ offCalls = 0
-----------------------------------------------------------------------------
(* The receive thread. *)

(* PushSample up to the test of the subscription, for one sample more ... *)
Push ==
  /\ pushed < MaxPushes
  /\ queueMtx = "free" /\ cb = NoHandler
  /\ PushTest
  /\ pushed' = IF queueMtx' = "free" THEN pushed + 1 ELSE pushed
  /\ UNCHANGED <<cb, removed, lateCalls, offCalls>>

(* ... which counts when it is in the queue. *)
Store ==
  /\ PushStore(pushed + 1, cb')
  /\ pushed' = pushed + 1
  /\ UNCHANGED <<removed, lateCalls, offCalls>>

Call ==
  /\ cb # NoHandler
  /\ cb' = NoHandler
  /\ lateCalls' = IF cb \in removed THEN [lateCalls EXCEPT ![cb] = @ + 1] ELSE lateCalls
  /\ offCalls' = IF subscription = "kSubscribed" THEN offCalls ELSE offCalls + 1
  /\ UNCHANGED <<eventVars, pushed, removed>>

(* The application thread. *)

AppSubscribe ==
  /\ \E n \in Sizes : Subscribe(n)
  /\ offCalls' = 0
  /\ UNCHANGED <<pushed, cb, removed, lateCalls>>

AppUnsubscribe ==
  /\ Unsubscribe
  /\ UNCHANGED <<pushed, cb, removed, lateCalls, offCalls>>

(* Replacing a handler removes the one before. *)
Removed(h) == (removed \cup {receiveHandler}) \ {h, NoHandler}

AppSetReceiveHandler(h) ==
  /\ SetReceiveHandler(h)
  /\ removed' = Removed(h)
  /\ lateCalls' = [lateCalls EXCEPT ![h] = 0]
  /\ UNCHANGED <<pushed, cb, offCalls>>

AppUnsetReceiveHandler ==
  /\ UnsetReceiveHandler
  /\ removed' = Removed(NoHandler)
  /\ UNCHANGED <<pushed, cb, lateCalls, offCalls>>

AppGetNewSamples ==
  /\ \E count \in 1..MaxPushes : GetNewSamples(count)
  /\ UNCHANGED <<pushed, cb, removed, lateCalls, offCalls>>

Next ==
  \/ Push \/ Store \/ Call
  \/ AppSubscribe \/ AppUnsubscribe \/ AppGetNewSamples
  \/ (\E h \in Handlers : AppSetReceiveHandler(h)) \/ AppUnsetReceiveHandler

Spec == Init /\ [][Next]_vars
-----------------------------------------------------------------------------
Channel == INSTANCE SampleChannel
             WITH window <- sampleQueue, offered <- pushed, capacity <- maxSamples

(* Whatever the application does, the queue is a first-in first-out channel   *)
(* that loses the oldest sample only, and only when it holds maxSamples.      *)
ImplementsChannel == Channel!Spec

(* PushSample calls the handler after it has released queueMtx_, so a handler *)
(* can be called after UnsetReceiveHandler or SetReceiveHandler has replaced  *)
(* it, and any handler after Unsubscribe, which takes no lock; but by the one *)
(* call only whose PushSample was already under way.                          *)
AtMostOneLateCall ==
  /\ \A h \in Handlers : lateCalls[h] <= 1
  /\ offCalls <= 1
=============================================================================
