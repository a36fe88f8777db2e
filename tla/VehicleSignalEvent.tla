------------------------- MODULE VehicleSignalEvent -------------------------
(***************************************************************************)
(* class VehicleSignalEvent: the sample queue of the proxy, its            *)
(* subscription state and its receive handler.  The operators are the      *)
(* steps of its methods; modules that extend this one say which thread     *)
(* runs them.  A critical section under queueMtx_ is one step, but for     *)
(* PushSample's: it reads the subscription, which Subscribe and            *)
(* Unsubscribe write without the lock, before it pushes.                   *)
(***************************************************************************)
EXTENDS Naturals, Sequences

CONSTANTS
  Handlers,   (* The receive handlers an application may install.  *)
  NoHandler   (* The empty std::function.                          *)

ASSUME NoHandlerAssumption == NoHandler \notin Handlers

VARIABLES
  subscription,     (* state_, an atomic                                *)
  maxSamples,       (* maxSamples_                                      *)
  sampleQueue,      (* sampleQueue_, oldest sample first                *)
  receiveHandler,   (* receiveHandler_                                  *)
  queueMtx          (* queueMtx_ between steps: free, or held by a
                       PushSample that has seen kSubscribed             *)

eventVars == <<subscription, maxSamples, sampleQueue, receiveHandler, queueMtx>>

SubscriptionState == {"kNotSubscribed", "kSubscribed"}

EventTypeOK(Samples) ==
  /\ subscription \in SubscriptionState
  /\ maxSamples \in Nat \ {0}
  /\ sampleQueue \in Seq(Samples)
  /\ receiveHandler \in Handlers \cup {NoHandler}
  /\ queueMtx \in {"free", "PushSample"}

EventInit ==
  /\ subscription = "kNotSubscribed"
  /\ maxSamples = 16
  /\ sampleQueue = <<>>
  /\ receiveHandler = NoHandler
  /\ queueMtx = "free"

(* Both members are written without queueMtx_.  PushSample reads state_ and  *)
(* then, if it saw kSubscribed, maxSamples_: between the two writes it sees  *)
(* what it would see before both or after both.                              *)
Subscribe(n) ==
  /\ maxSamples' = n
  /\ subscription' = "kSubscribed"
  /\ UNCHANGED <<sampleQueue, receiveHandler, queueMtx>>

(* The queue and the handler stay as they are. *)
Unsubscribe ==
  /\ subscription' = "kNotSubscribed"
  /\ UNCHANGED <<maxSamples, sampleQueue, receiveHandler, queueMtx>>

SetReceiveHandler(h) ==
  /\ queueMtx = "free"
  /\ receiveHandler' = h
  /\ UNCHANGED <<subscription, maxSamples, sampleQueue, queueMtx>>

(* A mutant: the handler stays installed. *)
UnsetReceiveHandlerForgotten == UNCHANGED eventVars

UnsetReceiveHandler == SetReceiveHandler(NoHandler)

(* How many samples a pull of at most `count` hands out. *)
PullCount(count) == IF count < Len(sampleQueue) THEN count ELSE Len(sampleQueue)

GetNewSamples(count) ==
  /\ queueMtx = "free"
  /\ sampleQueue' = SubSeq(sampleQueue, PullCount(count) + 1, Len(sampleQueue))
  /\ UNCHANGED <<subscription, maxSamples, receiveHandler, queueMtx>>

(* Mutants: a full queue drops the new sample; it gives up its newest. *)
PushedDropNew(s) ==
  IF Len(sampleQueue) >= maxSamples THEN sampleQueue ELSE Append(sampleQueue, s)

PushedPopBack(s) ==
  Append(IF Len(sampleQueue) >= maxSamples
         THEN SubSeq(sampleQueue, 1, Len(sampleQueue) - 1) ELSE sampleQueue, s)

(* The queue after a push: a full queue gives up its oldest sample first. *)
Pushed(s) ==
  Append(IF Len(sampleQueue) >= maxSamples THEN Tail(sampleQueue) ELSE sampleQueue,
         s)

(* A mutant: the subscription is not tested. *)
PushTestAlways ==
  /\ queueMtx' = "PushSample"
  /\ UNCHANGED <<subscription, maxSamples, sampleQueue, receiveHandler>>

(* PushSample takes queueMtx_ and tests state_: it goes on with the lock held, *)
(* or returns.                                                                 *)
PushTest ==
  /\ queueMtx' = IF subscription = "kSubscribed" THEN "PushSample" ELSE "free"
  /\ UNCHANGED <<subscription, maxSamples, sampleQueue, receiveHandler>>

(* The rest of the locked half, whatever has become of state_ since.  `cb` is *)
(* the handler copied under the lock, which the thread calls after it has     *)
(* released the lock.                                                         *)
PushStore(s, cb) ==
  /\ queueMtx = "PushSample"
  /\ cb = receiveHandler
  /\ sampleQueue' = Pushed(s)
  /\ queueMtx' = "free"
  /\ UNCHANGED <<subscription, maxSamples, receiveHandler>>
=============================================================================
