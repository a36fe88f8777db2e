----------------------- MODULE VehicleSignalSwc_proofs -----------------------
(***************************************************************************)
(* The types and the safety properties of the running system, for every    *)
(* set of datagrams, every queue size and every bound.                     *)
(***************************************************************************)
EXTENDS VehicleSignalSwc, TLAPS

(* A received datagram is ignored, malformed, mismatching or accepted, and  *)
(* only one of them.                                                        *)
LEMMA VerdictPartition ==
  ASSUME NEW f \in Frame
  PROVE  /\ Ignored(f) \/ Malformed(f) \/ CrcMismatch(f) \/ Accepted(f)
         /\ Ignored(f) => ~Malformed(f) /\ ~CrcMismatch(f) /\ ~Accepted(f)
         /\ Accepted(f) => ~Malformed(f) /\ ~CrcMismatch(f)
BY DEF Ignored, Malformed, WellFormed, CrcMismatch, Accepted

(* What ParseAndDispatch copies out of an accepted datagram lies within the  *)
(* bytes recv() returned.                                                    *)
LEMMA AcceptedFrameIsWhole ==
  ASSUME NEW f \in Frame, Accepted(f)
  PROVE  RecvLen(f) >= HeaderLen + PayloadSize
BY WordAssumption, BufSizeAssumption DEF Accepted, WellFormed, Ignored, Malformed, Truncated, RecvLen, Frame,
       HeaderLen, PayloadSize

(* Of an accepted datagram the whole declared payload has arrived, for every  *)
(* declared length but the eight largest, whose sum with the header wraps.    *)
THEOREM DeclaredPayloadArrived ==
  \A f \in Frame :
    Accepted(f) /\ f.length < Word - 8 => RecvLen(f) >= HeaderLen + PayloadLen(f)
<1> SUFFICES ASSUME NEW f \in Frame, Accepted(f), f.length < Word - 8
             PROVE  RecvLen(f) >= HeaderLen + PayloadLen(f)
  OBVIOUS
<1>1. /\ Word \in Nat \ {0} /\ f.length \in Nat /\ HeaderLen = 16
      /\ PayloadLen(f) \in Nat /\ HeaderLen + PayloadLen(f) \in 0..Word - 1
  BY WordAssumption DEF Frame, HeaderLen, PayloadSize, PayloadLen
<1>2. (HeaderLen + PayloadLen(f)) % Word = HeaderLen + PayloadLen(f)
  <2>1. \A x \in 0..Word - 1 : x % Word = x
    BY <1>1
  <2> QED
    BY <1>1, <2>1
<1>3. ~(RecvLen(f) < (HeaderLen + PayloadLen(f)) % Word)
  BY DEF Accepted, WellFormed, Ignored, Malformed, BadLength
<1>4. RecvLen(f) \in Nat
  BY BufSizeAssumption DEF RecvLen, Frame
<1> QED
  BY <1>1, <1>2, <1>3, <1>4

LEMMA RecvLenType == ASSUME NEW f \in Frame PROVE RecvLen(f) \in Nat
BY BufSizeAssumption DEF RecvLen, Frame

(* The records of the proxy under the updates its steps make. *)
LEMMA SocketUpdates ==
  ASSUME NEW s \in Socket
  PROVE  /\ s.buf \in Seq(Datagrams)
         /\ [s EXCEPT !.shut = TRUE] \in Socket
         /\ \A b \in Seq(Datagrams) : [s EXCEPT !.buf = b] \in Socket
         /\ [s EXCEPT !.open = FALSE, !.buf = <<>>] \in Socket
<1>1. <<>> \in Seq(Datagrams)
  OBVIOUS
<1> QED
  BY <1>1 DEF Socket

LEMMA BoundSocketType == BoundSocket \in Socket
<1>1. <<>> \in Seq(Datagrams)
  OBVIOUS
<1> QED
  BY <1>1 DEF Socket, BoundSocket, NoSocket

LEMMA StatsUpdates ==
  ASSUME NEW s \in Stats, NEW n \in Nat
  PROVE  /\ [s EXCEPT !.rxPackets = @ + 1, !.rxBytes = @ + n] \in Stats
         /\ [s EXCEPT !.e2eErrors = @ + 1] \in Stats
         /\ [s EXCEPT !.parseErrors = @ + 1] \in Stats
<1>1. ASSUME NEW p \in Nat, NEW q \in Nat
      PROVE  [s EXCEPT !.rxPackets = p, !.rxBytes = q] \in Stats
  BY DEF Stats
<1>2. s.rxPackets + 1 \in Nat /\ s.rxBytes + n \in Nat
  BY DEF Stats
<1>3. [s EXCEPT !.rxPackets = @ + 1, !.rxBytes = @ + n] \in Stats
  BY <1>1, <1>2
<1>4. [s EXCEPT !.e2eErrors = @ + 1] \in Stats
  BY DEF Stats
<1>5. [s EXCEPT !.parseErrors = @ + 1] \in Stats
  BY DEF Stats
<1> QED
  BY <1>3, <1>4, <1>5

LEMMA FateUpdates ==
  ASSUME NEW s \in Fate
  PROVE  /\ [s EXCEPT !.ignored = @ + 1] \in Fate
         /\ [s EXCEPT !.unsubscribed = @ + 1] \in Fate
         /\ [s EXCEPT !.unhandled = @ + 1] \in Fate
         /\ \A n \in Nat : [s EXCEPT !.handled = @ + 1, !.late = n] \in Fate
<1>1. ASSUME NEW m \in Nat, NEW n \in Nat PROVE [s EXCEPT !.handled = m, !.late = n] \in Fate
  BY DEF Fate
<1>2. s.handled + 1 \in Nat
  BY DEF Fate
<1>3. \A n \in Nat : [s EXCEPT !.handled = @ + 1, !.late = n] \in Fate
  BY <1>1, <1>2
<1>4. /\ [s EXCEPT !.ignored = @ + 1] \in Fate
      /\ [s EXCEPT !.unsubscribed = @ + 1] \in Fate
      /\ [s EXCEPT !.unhandled = @ + 1] \in Fate
  BY DEF Fate
<1> QED
  BY <1>3, <1>4

LEMMA TailType ==
  ASSUME NEW S, NEW q \in Seq(S), q # <<>>
  PROVE  Head(q) \in S /\ Tail(q) \in Seq(S)
OBVIOUS

(* Between recv() and the end of the iteration the thread has a datagram; *)
(* between PushSample and the call it has a handler.                      *)
StackInv ==
  /\ rxPc \in {"count", "e2eError", "parseError", "push", "store", "callback"}
       => rxFrame \in Datagrams
  /\ rxPc \in {"push", "store", "callback"} => Accepted(rxFrame)

TypeInv == TypeOK /\ StackInv

-----------------------------------------------------------------------------
LEMMA TypeInit == Init => TypeInv
<1> SUFFICES ASSUME Init PROVE TypeInv
  OBVIOUS
<1> USE DEF Init, ProxyInit
<1>1. EventTypeOK(Sample)
  BY DEF EventInit, EventTypeOK, SubscriptionState
<1>2. sock \in Socket
  BY DEF NoSocket, Socket
<1>3. stats \in Stats /\ fate \in Fate
  BY DEF NoStats, Stats, NoFate, Fate
<1>4. StackInv
  BY DEF StackInv
<1> QED
  BY <1>1, <1>2, <1>3, <1>4 DEF TypeInv, TypeOK, ProxyTypeOK, RxPoints, MainPoints

LEMMA TypeStepMain == TypeInv /\ MainThread => TypeInv'
<1> SUFFICES ASSUME TypeInv, MainThread PROVE TypeInv'
  OBVIOUS
<1> USE DEF TypeInv, TypeOK, ProxyTypeOK, EventTypeOK, StackInv, MainGoto, MainPoints,
            SubscriptionState, proxyVars, swcVars, rxVars, eventVars
<1>1. CASE FindService
  <2>1. CASE Construct /\ mainPc' = "subscribe" /\ proxy' = TRUE
             /\ UNCHANGED <<gRunning, reported, samplesReceived, last>>
    BY <2>1, BoundSocketType DEF Construct, RxPoints
  <2>2. CASE ConstructFails /\ mainPc' = "report" /\ UNCHANGED <<gRunning, swcVars>>
    BY <2>2 DEF ConstructFails
  <2> QED
    BY <1>1, <2>1, <2>2 DEF FindService
<1>2. CASE StartSubscribe
  BY QueueSizeAssumption, <1>2 DEF StartSubscribe, Subscribe
<1>3. CASE StartSetHandler
  BY SwcHandlerAssumption, <1>3 DEF StartSetHandler, SetReceiveHandler
<1>4. CASE ReportRunning
  BY <1>4 DEF ReportRunning
<1>5. CASE LeaveMainLoop
  BY <1>5 DEF LeaveMainLoop
<1>6. CASE StopSwc
  BY <1>6 DEF StopSwc, Unsubscribe
<1>7. CASE DestroyProxy
  <2>1. sock' \in Socket
    BY <1>7, SocketUpdates DEF DestroyProxy, StopRunning, Shutdown, Close, ForgetFd, Join
  <2>2. /\ mainPc' \in MainPoints /\ running' \in BOOLEAN /\ sockFd' \in BOOLEAN
        /\ proxy' \in BOOLEAN
        /\ UNCHANGED <<eventVars, rxVars, stats, arrived, fate, gRunning, reported,
                       samplesReceived, last>>
    BY <1>7 DEF DestroyProxy, StopRunning, Shutdown, Close, ForgetFd, Join
  <2> QED
    BY <2>1, <2>2
<1> QED
  BY <1>1, <1>2, <1>3, <1>4, <1>5, <1>6, <1>7 DEF MainThread

LEMMA TypeStepRx == TypeInv /\ RxThread => TypeInv'
<1> SUFFICES ASSUME TypeInv, RxThread PROVE TypeInv'
  OBVIOUS
<1> USE DEF TypeInv, TypeOK, ProxyTypeOK, StackInv, RxPoints, RxJump, RxGoto,
            swcVars, eventVars
<1>a. rxFrame \in Datagrams => SampleOf(rxFrame) \in Sample /\ RecvLen(rxFrame) \in Nat
  BY DatagramsAssumption, RecvLenType DEF SampleOf, Sample, Frame
<1>1. CASE RxStep /\ UNCHANGED <<mainPc, gRunning, swcVars>>
  <2>1. CASE RxLoop
    BY <1>1, <2>1 DEF RxLoop, EventTypeOK
  <2>2. CASE RxTestFd
    BY <1>1, <2>2 DEF RxTestFd, EventTypeOK
  <2>3. CASE RxArm
    BY <1>1, <2>3 DEF RxArm, EventTypeOK
  <2>4. CASE RxSelect
    BY <1>1, <2>4 DEF RxSelect, EventTypeOK
  <2>5. CASE RxTake
    <3>1. Head(sock.buf) \in Datagrams /\ Tail(sock.buf) \in Seq(Datagrams)
      BY <2>5, SocketUpdates, TailType DEF RxTake
    <3>2. sock' \in Socket
      BY <2>5, <3>1, SocketUpdates DEF RxTake
    <3> QED
      BY <1>1, <2>5, <3>1, <3>2 DEF RxTake, EventTypeOK
  <2>6. CASE RxRecv
    BY <1>1, <2>5, <2>6 DEF RxRecv, EventTypeOK
  <2>7. CASE RxWake
    BY <1>1, <2>5, <2>7 DEF RxWake, EventTypeOK
  <2>8. CASE RxCount
    <3>1. stats' \in Stats /\ fate' \in Fate
      BY <1>a, <2>8, StatsUpdates, FateUpdates DEF RxCount
    <3> QED
      BY <1>1, <2>8, <3>1, VerdictPartition DEF RxCount, EventTypeOK
  <2>9. CASE RxE2eError
    BY <1>1, <2>9, StatsUpdates DEF RxE2eError, EventTypeOK
  <2>10. CASE RxParseError
    BY <1>1, <2>10, StatsUpdates DEF RxParseError, EventTypeOK
  <2>11. CASE RxPushTest
    <3>1. fate' \in Fate
      BY <2>11, FateUpdates DEF RxPushTest
    <3>2. EventTypeOK(Sample)'
      BY <2>11 DEF RxPushTest, PushTest, EventTypeOK
    <3> QED
      BY <1>1, <2>11, <3>1, <3>2 DEF RxPushTest
  <2>12. CASE RxPushStore
    <3>1. EventTypeOK(Sample)'
      <4>1. Len(sampleQueue) >= maxSamples => Tail(sampleQueue) \in Seq(Sample)
        BY DEF EventTypeOK
      <4>2. SampleOf(rxFrame) \in Sample
        BY <1>a, <2>12 DEF RxPushStore
      <4> QED
        BY <2>12, <4>1, <4>2 DEF RxPushStore, PushStore, EventTypeOK, Pushed
    <3>2. fate' \in Fate
      BY <2>12, FateUpdates DEF RxPushStore
    <3> QED
      BY <1>1, <2>12, <3>1, <3>2 DEF RxPushStore
  <2> QED
    BY <1>1, <2>1, <2>2, <2>3, <2>4, <2>6, <2>7, <2>8, <2>9, <2>10, <2>11, <2>12 DEF RxStep
<1>2. CASE OnSample
  <2>1. fate' \in Fate
    <3>1. fate \in Fate /\ fate.late \in Nat /\ fate.late + 1 \in Nat
      BY DEF Fate
    <3> QED
      BY <1>2, <3>1, FateUpdates DEF OnSample
  <2> QED
    BY <1>2, <1>a, <2>1 DEF OnSample, EventTypeOK
<1> QED
  BY <1>1, <1>2 DEF RxThread

LEMMA TypeStep == TypeInv /\ [Next]_vars => TypeInv'
<1> SUFFICES ASSUME TypeInv, [Next]_vars PROVE TypeInv'
  OBVIOUS
<1> USE DEF TypeInv, TypeOK, ProxyTypeOK, EventTypeOK, StackInv, proxyVars, swcVars,
            rxVars, eventVars
<1>1. CASE Network
  <2>1. sock.buf # <<>> => Tail(sock.buf) \in Seq(Datagrams)
    BY SocketUpdates, TailType
  <2>2. ASSUME NEW f \in Datagrams PROVE Append(sock.buf, f) \in Seq(Datagrams)
    <3>1. sock.buf \in Seq(Datagrams)
      BY SocketUpdates
    <3> QED
      BY <3>1
  <2>3. ASSUME Discard PROVE sock' \in Socket /\ arrived' \in Nat
    BY <2>1, <2>3, SocketUpdates DEF Discard
  <2>4. ASSUME NEW f \in Datagrams, Arrive(f) PROVE sock' \in Socket /\ arrived' \in Nat
    <3>1. Append(sock.buf, f) \in Seq(Datagrams)
      BY <2>2
    <3>2. [sock EXCEPT !.buf = Append(sock.buf, f)] \in Socket
      BY <3>1, SocketUpdates
    <3> QED
      BY <2>4, <3>2 DEF Arrive
  <2>5. sock' \in Socket /\ arrived' \in Nat
    BY <1>1, <2>3, <2>4 DEF Network, Discard
  <2> QED
    BY <1>1, <2>5 DEF Network, Arrive, Discard
<1>2. CASE Signal
  BY <1>2 DEF Signal
<1>3. CASE UNCHANGED vars
  BY <1>3 DEF vars
<1> QED
  BY <1>1, <1>2, <1>3, TypeStepMain, TypeStepRx DEF Next, Exited

(* The variables of the proxy, of the event and of the SWC keep their types, *)
(* and the receive thread never parses a buffer it has not received.         *)
THEOREM SwcTypes == Spec => []TypeOK
<1>1. TypeInv => TypeOK
  BY DEF TypeInv
<1> QED
  BY <1>1, TypeInit, TypeStep, PTL DEF Spec
-----------------------------------------------------------------------------
(* Where the main thread can be, given what the receive thread and the event *)
(* look like: the thread exists only between FindService and the join, and   *)
(* the subscription and the handler only while Start() and Stop() say so.    *)
ThreadInv ==
  /\ mainPc = "boot" => rxPc = "none" /\ ~proxy
  /\ mainPc \in {"subscribe", "setHandler"} => proxy
  /\ ~proxy => subscription = "kNotSubscribed"
  /\ ~proxy /\ mainPc \in {"report", "mainLoop", "stop"} => rxPc = "none"
  /\ mainPc = "stopped" => rxPc \in {"none", "done"}
  /\ subscription = "kSubscribed" =>
       mainPc \in {"setHandler", "report", "mainLoop", "stop"}
  /\ receiveHandler # NoHandler => mainPc \notin {"boot", "subscribe", "setHandler"}

LEMMA ThreadInit == Init => ThreadInv
BY DEF Init, ProxyInit, EventInit, ThreadInv

(* A step of the receive thread starts from a live thread, and leaves the main *)
(* thread, the subscription and the handler alone.                             *)
LEMMA RxThreadFrame ==
  ASSUME RxThread
  PROVE  /\ rxPc \notin {"none", "done"}
         /\ UNCHANGED <<mainPc, gRunning, proxy, reported, subscription, maxSamples,
                        receiveHandler>>
<1> USE DEF swcVars, eventVars, RxJump, RxGoto
<1>1. CASE RxStep /\ UNCHANGED <<mainPc, gRunning, swcVars>>
  <2>1. CASE RxLoop \/ RxTestFd \/ RxArm \/ RxSelect
    BY <1>1, <2>1 DEF RxLoop, RxTestFd, RxArm, RxSelect
  <2>2. CASE RxRecv \/ RxWake
    BY <1>1, <2>2 DEF RxRecv, RxWake, RxTake
  <2>3. CASE RxCount \/ RxE2eError \/ RxParseError
    BY <1>1, <2>3 DEF RxCount, RxE2eError, RxParseError
  <2>4. CASE RxPushTest \/ RxPushStore
    BY <1>1, <2>4 DEF RxPushTest, RxPushStore, PushTest, PushStore
  <2> QED
    BY <1>1, <2>1, <2>2, <2>3, <2>4 DEF RxStep
<1>2. CASE OnSample
  BY <1>2 DEF OnSample
<1> QED
  BY <1>1, <1>2 DEF RxThread

LEMMA ThreadStep == TypeInv /\ ThreadInv /\ [Next]_vars => ThreadInv'
<1> SUFFICES ASSUME TypeInv, ThreadInv, [Next]_vars PROVE ThreadInv'
  OBVIOUS
<1> USE DEF ThreadInv, MainGoto, proxyVars, swcVars, rxVars, eventVars
<1>1. CASE FindService
  BY <1>1 DEF FindService, Construct, ConstructFails
<1>2. CASE StartSubscribe
  BY <1>2 DEF StartSubscribe, Subscribe
<1>3. CASE StartSetHandler
  BY <1>3 DEF StartSetHandler, SetReceiveHandler
<1>4. CASE ReportRunning \/ LeaveMainLoop
  BY <1>4 DEF ReportRunning, LeaveMainLoop
<1>5. CASE StopSwc
  BY <1>5 DEF StopSwc, Unsubscribe
<1>6. CASE DestroyProxy
  <2>1. subscription \in {"kSubscribed", "kNotSubscribed"}
    BY DEF TypeInv, TypeOK, ProxyTypeOK, EventTypeOK, SubscriptionState
  <2> QED
    BY <1>6, <2>1 DEF DestroyProxy, StopRunning, Shutdown, Close, ForgetFd, Join
<1>7. CASE RxThread
  BY <1>7, RxThreadFrame
<1>8. CASE Network
  BY <1>8 DEF Network, Arrive, Discard
<1>9. CASE Signal
  BY <1>9 DEF Signal
<1>10. CASE UNCHANGED vars
  BY <1>10 DEF vars
<1> QED
  BY <1>1, <1>2, <1>3, <1>4, <1>5, <1>6, <1>7, <1>8, <1>9, <1>10
     DEF Next, MainThread, Exited

(* Once Stop() has returned there is no receive thread, at whatever step of  *)
(* the thread the destructor started.                                        *)
THEOREM NoThreadSurvivesStop == Spec => []NoThreadAfterStop
<1>1. ThreadInv => NoThreadAfterStop
  BY DEF ThreadInv, NoThreadAfterStop
<1> QED
  BY <1>1, TypeInit, TypeStep, ThreadInit, ThreadStep, PTL DEF Spec

(* How far a call after Unsubscribe can reach: one whose PushSample saw the    *)
(* subscription, or whose handler was copied, before Unsubscribe, and no other. *)
LateInv ==
  /\ mainPc = "setHandler" => subscription = "kSubscribed"
  /\ proxy /\ mainPc \in {"report", "mainLoop", "stop"} => subscription = "kSubscribed"
  /\ rxPc = "callback" => mainPc \notin {"boot", "subscribe", "setHandler"}
  /\ mainPc \in {"boot", "subscribe"} \/ subscription = "kSubscribed" => fate.late = 0
  /\ rxPc \in {"store", "callback"} => fate.late = 0
  /\ fate.late <= 1

LEMMA LateInit == Init => LateInv
BY DEF Init, ProxyInit, NoFate, LateInv

LEMMA LateStepRx == TypeInv /\ ThreadInv /\ LateInv /\ RxThread => LateInv'
<1> SUFFICES ASSUME TypeInv, ThreadInv, LateInv, RxThread PROVE LateInv'
  OBVIOUS
<1>f. UNCHANGED <<mainPc, proxy, subscription, receiveHandler>>
  BY RxThreadFrame
<1>t. fate \in Fate
  BY DEF TypeInv, TypeOK, ProxyTypeOK
<1> USE DEF RxJump, RxGoto
<1>1. CASE OnSample
  <2>1. rxPc = "callback" /\ rxPc' = "loop" /\ fate.late = 0
    BY <1>1 DEF OnSample, LateInv
  <2>2. fate'.late = IF subscription = "kSubscribed" THEN 0 ELSE 0 + 1
    BY <1>1, <1>t, <2>1 DEF OnSample, Fate
  <2>3. mainPc \notin {"boot", "subscribe"}
    BY <2>1 DEF LateInv
  <2> QED
    BY <1>f, <2>1, <2>2, <2>3 DEF LateInv
<1>2. CASE RxPushTest
  <2>1. rxPc' = "store" => subscription = "kSubscribed"
    BY <1>2 DEF RxPushTest, PushTest
  <2>2. fate'.late = fate.late /\ rxPc' \in {"store", "loop"}
    BY <1>2, <1>t DEF RxPushTest, Fate
  <2> QED
    BY <1>f, <2>1, <2>2 DEF LateInv
<1>3. CASE RxPushStore
  <2>1. rxPc = "store" /\ rxPc' \in {"callback", "loop"} /\ fate'.late = fate.late
    BY <1>3, <1>t DEF RxPushStore, Fate
  <2>2. rxPc' = "callback" => receiveHandler # NoHandler
    BY NoHandlerAssumption, <1>3 DEF RxPushStore, PushStore
  <2> QED
    BY <1>f, <2>1, <2>2 DEF LateInv, ThreadInv
<1>4. CASE RxCount
  <2>1. fate'.late = fate.late /\ rxPc' \in {"loop", "parseError", "e2eError", "push"}
    BY <1>4, <1>t DEF RxCount, Fate
  <2> QED
    BY <1>f, <2>1 DEF LateInv
<1>5. CASE RxLoop \/ RxTestFd \/ RxArm \/ RxSelect \/ RxRecv \/ RxWake
           \/ RxE2eError \/ RxParseError
  <2>1. fate' = fate /\ rxPc' \notin {"store", "callback"}
    BY <1>5 DEF RxLoop, RxTestFd, RxArm, RxSelect, RxRecv, RxWake, RxTake, RxE2eError,
                RxParseError
  <2> QED
    BY <1>f, <2>1 DEF LateInv
<1> QED
  BY <1>1, <1>2, <1>3, <1>4, <1>5 DEF RxThread, RxStep

LEMMA LateStep == TypeInv /\ ThreadInv /\ LateInv /\ [Next]_vars => LateInv'
<1> SUFFICES ASSUME TypeInv, ThreadInv, LateInv, [Next]_vars PROVE LateInv'
  OBVIOUS
<1> USE DEF MainGoto, swcVars, eventVars, proxyVars, rxVars
<1>1. CASE FindService
  BY <1>1 DEF FindService, Construct, ConstructFails, LateInv, ThreadInv
<1>2. CASE StartSubscribe
  BY <1>2 DEF StartSubscribe, Subscribe, LateInv
<1>3. CASE StartSetHandler
  BY <1>3 DEF StartSetHandler, SetReceiveHandler, LateInv
<1>4. CASE ReportRunning \/ LeaveMainLoop
  BY <1>4 DEF ReportRunning, LeaveMainLoop, LateInv
<1>5. CASE StopSwc
  BY <1>5 DEF StopSwc, Unsubscribe, LateInv
<1>6. CASE DestroyProxy
  BY <1>6 DEF DestroyProxy, StopRunning, Shutdown, Close, ForgetFd, Join, LateInv
<1>7. CASE Network \/ Signal \/ UNCHANGED vars
  BY <1>7 DEF Network, Arrive, Discard, Signal, vars, LateInv
<1> QED
  BY <1>1, <1>2, <1>3, <1>4, <1>5, <1>6, <1>7, LateStepRx DEF Next, MainThread, Exited

(* Whenever Stop() unsubscribes, at most one handler call is still to come,   *)
(* although Unsubscribe waits for no lock.                                    *)
THEOREM LateCallIsTheLast == Spec => []OneCallAfterUnsubscribe
<1>1. LateInv => OneCallAfterUnsubscribe
  BY DEF LateInv, OneCallAfterUnsubscribe
<1> QED
  BY <1>1, TypeInit, TypeStep, ThreadInit, ThreadStep, LateInit, LateStep, PTL DEF Spec
-----------------------------------------------------------------------------
(* The accounting, strengthened by the datagrams that have arrived but are not *)
(* counted yet.                                                                *)
InTransit == Len(sock.buf) + (IF rxPc = "count" THEN 1 ELSE 0)

AccountInv == FrameAccounting /\ stats.rxPackets + InTransit <= arrived

LEMMA InTransitValue ==
  /\ rxPc = "count" => InTransit = Len(sock.buf) + 1
  /\ rxPc # "count" => InTransit = Len(sock.buf) + 0
  /\ rxPc' = "count" => InTransit' = Len(sock'.buf) + 1
  /\ rxPc' # "count" => InTransit' = Len(sock'.buf) + 0
BY DEF InTransit

LEMMA InHandValue ==
  /\ rxPc \in {"e2eError", "parseError", "push", "store", "callback"} => InHand = 1
  /\ rxPc \notin {"e2eError", "parseError", "push", "store", "callback"} => InHand = 0
  /\ rxPc' \in {"e2eError", "parseError", "push", "store", "callback"} => InHand' = 1
  /\ rxPc' \notin {"e2eError", "parseError", "push", "store", "callback"} => InHand' = 0
BY DEF InHand

LEMMA AccountInit == Init => AccountInv
BY DEF Init, ProxyInit, NoStats, NoFate, NoSocket, AccountInv, FrameAccounting, InTransit,
       InHand

(* What the accounting needs to know of the types. *)
AccountNat ==
  /\ sock.buf \in Seq(Datagrams) /\ Len(sock.buf) \in Nat
  /\ stats.rxPackets \in Nat /\ stats.e2eErrors \in Nat /\ stats.parseErrors \in Nat
  /\ fate.ignored \in Nat /\ fate.unsubscribed \in Nat
  /\ fate.unhandled \in Nat /\ fate.handled \in Nat
  /\ arrived \in Nat /\ samplesReceived \in Nat
  /\ InTransit \in Nat /\ InHand \in Nat

LEMMA AccountTypes == TypeInv => AccountNat
<1> SUFFICES ASSUME TypeInv PROVE AccountNat
  OBVIOUS
<1>1. stats \in Stats /\ fate \in Fate /\ sock \in Socket
  BY DEF TypeInv, TypeOK, ProxyTypeOK
<1>2. sock.buf \in Seq(Datagrams) /\ Len(sock.buf) \in Nat
  <2>1. sock.buf \in Seq(Datagrams)
    BY <1>1, SocketUpdates
  <2> QED
    BY <2>1
<1>3. arrived \in Nat /\ samplesReceived \in Nat
  BY DEF TypeInv, TypeOK, ProxyTypeOK
<1>4. stats.rxPackets \in Nat /\ stats.e2eErrors \in Nat /\ stats.parseErrors \in Nat
  BY <1>1 DEF Stats
<1>5. /\ fate.ignored \in Nat /\ fate.unsubscribed \in Nat
      /\ fate.unhandled \in Nat /\ fate.handled \in Nat
  BY <1>1 DEF Fate
<1>6. InTransit \in Nat
  BY <1>2, InTransitValue
<1>7. InHand \in Nat
  BY InHandValue
<1> QED
  BY <1>2, <1>3, <1>4, <1>5, <1>6, <1>7 DEF AccountNat

(* A step that touches no counter keeps the books when the thread takes no  *)
(* counted datagram in hand and no new datagram enters.                     *)
LEMMA QuietStep ==
  ASSUME TypeInv, AccountInv, UNCHANGED <<stats, fate, arrived, samplesReceived>>,
         InHand' = InHand, InTransit' \in Nat, InTransit' <= InTransit,
         rxPc' = "parseError" <=> rxPc = "parseError"
  PROVE  AccountInv'
<1>1. AccountNat
  BY AccountTypes
<1>2. stats'.rxPackets + InTransit' <= arrived'
  <2> DEFINE k == stats.rxPackets
             t == InTransit
             t2 == InTransit'
  <2>1. /\ k \in Nat /\ t \in Nat /\ t2 \in Nat /\ arrived \in Nat
        /\ k + t <= arrived /\ t2 <= t
    BY <1>1 DEF AccountNat, AccountInv
  <2> HIDE DEF k, t, t2
  <2>2. k + t2 <= arrived
    BY <2>1
  <2> QED
    BY <2>2 DEF k, t2
<1> QED
  BY <1>2 DEF AccountInv, FrameAccounting

LEMMA Books ==
  ASSUME AccountInv
  PROVE  /\ stats.rxPackets = fate.ignored + fate.unsubscribed + fate.unhandled
                                + fate.handled + stats.parseErrors + InHand
         /\ samplesReceived = fate.handled
BY DEF AccountInv, FrameAccounting

(* A datagram in hand moves to the counters `p` (rejected) or `q` (any other *)
(* fate), `r` of the latter to the handled ones.                             *)
LEMMA BookStep ==
  ASSUME TypeInv, AccountInv, arrived' = arrived, InTransit' = InTransit,
         NEW p \in Nat, NEW q \in Nat, NEW r \in Nat,
         InHand' + p + q = InHand, InHand' \in Nat,
         stats'.rxPackets = stats.rxPackets,
         stats'.parseErrors = stats.parseErrors + p,
         stats'.e2eErrors + (IF rxPc = "parseError" THEN 1 ELSE 0)
           <= stats.e2eErrors + p + (IF rxPc' = "parseError" THEN 1 ELSE 0),
         stats'.e2eErrors \in Nat,
         fate'.ignored = fate.ignored,
         fate'.unsubscribed + fate'.unhandled + r = fate.unsubscribed + fate.unhandled + q,
         fate'.unsubscribed \in Nat, fate'.unhandled \in Nat,
         fate'.handled = fate.handled + r,
         samplesReceived' = samplesReceived + r
  PROVE  AccountInv'
<1>1. AccountNat
  BY AccountTypes
<1>2. /\ stats'.rxPackets = fate'.ignored + fate'.unsubscribed + fate'.unhandled
                              + fate'.handled + stats'.parseErrors + InHand'
      /\ samplesReceived' = fate'.handled
  <2>1. /\ stats.rxPackets = fate.ignored + fate.unsubscribed + fate.unhandled
                                + fate.handled + stats.parseErrors + InHand
        /\ samplesReceived = fate.handled
    BY Books
  <2>2. samplesReceived' = fate'.handled
    BY <2>1
  <2>3. fate.ignored + fate.unsubscribed + fate.unhandled + fate.handled
            + stats.parseErrors + InHand
          = fate.ignored + fate'.unsubscribed + fate'.unhandled + (fate.handled + r)
              + (stats.parseErrors + p) + InHand'
    <3> DEFINE i == fate.ignored
               u == fate.unsubscribed
               n == fate.unhandled
               h == fate.handled
               e == stats.parseErrors
               x == InHand
               u2 == fate'.unsubscribed
               n2 == fate'.unhandled
               x2 == InHand'
    <3>1. /\ i \in Nat /\ u \in Nat /\ n \in Nat /\ h \in Nat /\ e \in Nat
          /\ x \in Nat /\ u2 \in Nat /\ n2 \in Nat /\ x2 \in Nat
      BY <1>1 DEF AccountNat
    <3>2. x2 + p + q = x /\ u2 + n2 + r = u + n + q
      OBVIOUS
    <3> HIDE DEF i, u, n, h, e, x, u2, n2, x2
    <3>3. i + u + n + h + e + x = i + u2 + n2 + (h + r) + (e + p) + x2
      BY <3>1, <3>2
    <3> QED
      BY <3>3 DEF i, u, n, h, e, x, u2, n2, x2
  <2> QED
    BY <2>1, <2>2, <2>3
<1> DEFINE x == IF rxPc = "parseError" THEN 1 ELSE 0
           y == IF rxPc' = "parseError" THEN 1 ELSE 0
<1>3. stats'.e2eErrors <= stats'.parseErrors + y
  <2>1. x \in Nat /\ y \in Nat
    OBVIOUS
  <2>2. stats.e2eErrors <= stats.parseErrors + x
    BY DEF AccountInv, FrameAccounting
  <2>3. stats'.e2eErrors + x <= stats.e2eErrors + p + y
    OBVIOUS
  <2> DEFINE c == stats.e2eErrors
             c2 == stats'.e2eErrors
             e == stats.parseErrors
  <2>4. c \in Nat /\ c2 \in Nat /\ e \in Nat
    BY <1>1 DEF AccountNat
  <2> HIDE DEF x, y, c, c2, e
  <2>5. c <= e + x /\ c2 + x <= c + p + y
    BY <2>2, <2>3 DEF c, c2, e
  <2>6. c2 <= e + p + y
    BY <2>1, <2>4, <2>5
  <2> QED
    BY <2>6 DEF c2, e
<1>4. stats'.rxPackets <= arrived' /\ stats'.rxPackets + InTransit' <= arrived'
  <2> DEFINE k == stats.rxPackets
             t == InTransit
  <2>1. k + t <= arrived /\ k \in Nat /\ t \in Nat /\ arrived \in Nat
    BY <1>1 DEF AccountInv, AccountNat
  <2> HIDE DEF k, t
  <2>2. k <= arrived
    BY <2>1
  <2> QED
    BY <2>1, <2>2 DEF k, t
<1> QED
  BY <1>2, <1>3, <1>4 DEF AccountInv, FrameAccounting

LEMMA TakeStep ==
  ASSUME TypeInv, AccountInv, RxTake, rxPc \in {"recv", "blocked"}, UNCHANGED samplesReceived
  PROVE  AccountInv'
<1>1. sock.buf \in Seq(Datagrams) /\ sock \in Socket /\ sock.buf # <<>>
  BY AccountTypes DEF AccountNat, RxTake, TypeInv, TypeOK, ProxyTypeOK
<1>2. sock'.buf = Tail(sock.buf)
  BY <1>1 DEF RxTake, Socket
<1>3. Len(sock.buf) \in Nat /\ Len(sock.buf) > 0 /\ Len(sock'.buf) = Len(sock.buf) - 1
  BY <1>1, <1>2
<1>4. rxPc' \in {"loop", "count"}
  BY DEF RxTake
<1>5. InTransit = Len(sock.buf)
  BY <1>3, InTransitValue
<1>6. InTransit' = Len(sock'.buf) + 1 \/ InTransit' = Len(sock'.buf) + 0
  BY InTransitValue
<1>9. InTransit' \in Nat /\ InTransit' <= InTransit
  BY <1>3, <1>5, <1>6
<1>7. InHand' = InHand
  BY <1>4 DEF InHand
<1>8. UNCHANGED <<stats, fate, arrived, samplesReceived>>
  BY DEF RxTake
<1> QED
  BY <1>4, <1>7, <1>8, <1>9, QuietStep

LEMMA CountStep ==
  ASSUME TypeInv, AccountInv, RxCount, UNCHANGED samplesReceived
  PROVE  AccountInv'
<1>t. AccountNat /\ stats \in Stats /\ fate \in Fate
  BY AccountTypes DEF TypeInv, TypeOK, ProxyTypeOK
<1>1. /\ stats'.rxPackets = stats.rxPackets + 1
      /\ stats'.parseErrors = stats.parseErrors
      /\ stats'.e2eErrors = stats.e2eErrors
  BY <1>t DEF RxCount, Stats
<1>2. UNCHANGED <<sock, arrived>> /\ rxPc = "count"
      /\ rxPc' \in {"loop", "parseError", "e2eError", "push"}
  BY DEF RxCount
<1>3. InTransit = InTransit' + 1 /\ InHand = 0 /\ InTransit' \in Nat
  <2>1. InTransit = Len(sock.buf) + 1 /\ InTransit' = Len(sock.buf) + 0
    BY <1>2, InTransitValue
  <2> QED
    BY <1>t, <1>2, <2>1, InHandValue DEF AccountNat
<1>4. stats'.rxPackets <= arrived' /\ stats'.rxPackets + InTransit' <= arrived'
  <2> DEFINE k == stats.rxPackets
             t == InTransit'
  <2>1. k \in Nat /\ t \in Nat /\ arrived \in Nat /\ k + (t + 1) <= arrived
    BY <1>t, <1>3 DEF AccountNat, AccountInv
  <2> HIDE DEF k, t
  <2>2. k + 1 <= arrived /\ (k + 1) + t <= arrived
    BY <2>1
  <2> QED
    BY <1>1, <1>2, <2>2 DEF k, t
<1>5. stats'.e2eErrors <= stats'.parseErrors + (IF rxPc' = "parseError" THEN 1 ELSE 0)
  <2> DEFINE c == stats.e2eErrors
             e == stats.parseErrors
  <2>1. c \in Nat /\ e \in Nat /\ c <= e + 0
    BY <1>t, <1>2 DEF AccountNat, AccountInv, FrameAccounting
  <2> HIDE DEF c, e
  <2>2. c <= e + 0 /\ c <= e + 1
    BY <2>1
  <2> QED
    BY <1>1, <2>2 DEF c, e
<1>6. rxFrame \in Frame
  BY DatagramsAssumption DEF RxCount, TypeInv, StackInv
<1>7. CASE rxPc' = "loop"
  <2>1. Ignored(rxFrame) /\ fate' = [fate EXCEPT !.ignored = @ + 1]
    BY <1>7 DEF RxCount
  <2>2. /\ fate'.ignored = fate.ignored + 1 /\ fate'.unsubscribed = fate.unsubscribed
        /\ fate'.unhandled = fate.unhandled /\ fate'.handled = fate.handled
    BY <1>t, <2>1 DEF Fate
  <2>3. InHand' = 0
    BY <1>7 DEF InHand
  <2>4. /\ stats'.rxPackets = fate'.ignored + fate'.unsubscribed + fate'.unhandled
                                + fate'.handled + stats'.parseErrors + InHand'
        /\ samplesReceived' = fate'.handled
    <3>1. /\ stats.rxPackets = fate.ignored + fate.unsubscribed + fate.unhandled
                                  + fate.handled + stats.parseErrors + 0
          /\ samplesReceived = fate.handled
      BY <1>3, Books
    <3>2. stats.rxPackets + 1 = (fate.ignored + 1) + fate.unsubscribed + fate.unhandled
                                  + fate.handled + stats.parseErrors + 0
      <4> DEFINE i == fate.ignored
                 u == fate.unsubscribed
                 n == fate.unhandled
                 h == fate.handled
                 e == stats.parseErrors
                 k == stats.rxPackets
      <4>1. /\ i \in Nat /\ u \in Nat /\ n \in Nat /\ h \in Nat /\ e \in Nat /\ k \in Nat
            /\ k = i + u + n + h + e + 0
        BY <1>t, <3>1 DEF AccountNat
      <4> HIDE DEF i, u, n, h, e, k
      <4>2. k + 1 = (i + 1) + u + n + h + e + 0
        BY <4>1
      <4> QED
        BY <4>2 DEF i, u, n, h, e, k
    <3> QED
      BY <1>1, <2>2, <2>3, <3>1, <3>2
  <2> QED
    BY <1>4, <1>5, <2>4 DEF AccountInv, FrameAccounting
<1>8. CASE rxPc' # "loop"
  <2>1. fate' = fate
    BY <1>6, <1>8, VerdictPartition DEF RxCount
  <2>2. InHand' = 1
    BY <1>2, <1>8 DEF InHand
  <2>3. /\ stats'.rxPackets = fate'.ignored + fate'.unsubscribed + fate'.unhandled
                                + fate'.handled + stats'.parseErrors + InHand'
        /\ samplesReceived' = fate'.handled
    <3> DEFINE i == fate.ignored
               u == fate.unsubscribed
               n == fate.unhandled
               h == fate.handled
               e == stats.parseErrors
               k == stats.rxPackets
    <3>1. /\ i \in Nat /\ u \in Nat /\ n \in Nat /\ h \in Nat /\ e \in Nat /\ k \in Nat
          /\ k = i + u + n + h + e + 0
          /\ samplesReceived = h
      BY <1>t, <1>3, Books DEF AccountNat
    <3> HIDE DEF i, u, n, h, e, k
    <3>2. k + 1 = i + u + n + h + e + 1
      BY <3>1
    <3> QED
      BY <1>1, <2>1, <2>2, <3>1, <3>2 DEF i, u, n, h, e, k
  <2> QED
    BY <1>4, <1>5, <2>3 DEF AccountInv, FrameAccounting
<1> QED
  BY <1>7, <1>8

LEMMA ErrorStep ==
  ASSUME TypeInv, AccountInv, RxE2eError \/ RxParseError, UNCHANGED samplesReceived
  PROVE  AccountInv'
<1>t. AccountNat /\ stats \in Stats
  BY AccountTypes DEF TypeInv, TypeOK, ProxyTypeOK
<1>1. UNCHANGED <<sock, fate, arrived>> /\ InHand = 1
  BY DEF RxE2eError, RxParseError, RxGoto, InHand
<1>2. InTransit' = InTransit
  BY <1>1 DEF RxE2eError, RxParseError, RxGoto, InTransit
<1>3. CASE RxE2eError
  <2>1. /\ stats'.rxPackets = stats.rxPackets
        /\ stats'.parseErrors = stats.parseErrors
        /\ stats'.e2eErrors = stats.e2eErrors + 1
    BY <1>t, <1>3 DEF RxE2eError, Stats
  <2>2. rxPc = "e2eError" /\ rxPc' = "parseError" /\ InHand' = 1
    BY <1>3 DEF RxE2eError, RxGoto, InHand
  <2> QED
    BY <1>t, <1>1, <1>2, <2>1, <2>2, BookStep, 0 \in Nat DEF AccountNat
<1>4. CASE RxParseError
  <2>1. /\ stats'.rxPackets = stats.rxPackets
        /\ stats'.parseErrors = stats.parseErrors + 1
        /\ stats'.e2eErrors = stats.e2eErrors
    BY <1>t, <1>4 DEF RxParseError, Stats
  <2>2. rxPc = "parseError" /\ rxPc' = "loop" /\ InHand' = 0
    BY <1>4 DEF RxParseError, RxGoto, InHand
  <2> QED
    BY <1>t, <1>1, <1>2, <2>1, <2>2, BookStep, 0 \in Nat, 1 \in Nat DEF AccountNat
<1> QED
  BY <1>3, <1>4

LEMMA PushStep ==
  ASSUME TypeInv, AccountInv, RxPushTest \/ RxPushStore, UNCHANGED samplesReceived
  PROVE  AccountInv'
<1>t. AccountNat /\ fate \in Fate
  BY AccountTypes DEF TypeInv, TypeOK, ProxyTypeOK
<1>1. UNCHANGED <<sock, stats, arrived>> /\ rxPc \in {"push", "store"} /\ InHand = 1
  BY DEF RxPushTest, RxPushStore, InHand
<1>2. CASE rxPc' \in {"store", "callback"}
  <2>1. fate' = fate /\ InHand' = InHand
    BY <1>2, <1>1 DEF RxPushTest, RxPushStore, InHand
  <2>2. InTransit' = InTransit
    BY <1>1, <1>2 DEF InTransit
  <2> QED
    BY <1>t, <1>1, <1>2, <2>1, <2>2, QuietStep DEF AccountNat
<1>3. CASE rxPc' = "loop"
  <2>1. InHand' = 0 /\ InTransit' = InTransit
    BY <1>1, <1>3 DEF InHand, InTransit
  <2>2. /\ fate'.ignored = fate.ignored /\ fate'.handled = fate.handled
        /\ fate'.unsubscribed + fate'.unhandled + 0 = fate.unsubscribed + fate.unhandled + 1
        /\ fate'.unsubscribed \in Nat /\ fate'.unhandled \in Nat
    BY <1>t, <1>3 DEF RxPushTest, RxPushStore, Fate
  <2>3. /\ InHand' + 0 + 1 = InHand /\ InHand' \in Nat
        /\ stats'.e2eErrors + 0 <= stats.e2eErrors + 0 + 0 /\ stats'.e2eErrors \in Nat
        /\ stats'.rxPackets = stats.rxPackets /\ stats'.parseErrors = stats.parseErrors + 0
        /\ fate'.handled = fate.handled + 0 /\ samplesReceived' = samplesReceived + 0
    BY <1>t, <1>1, <2>1, <2>2 DEF AccountNat
  <2> QED
    BY <1>1, <1>3, <2>1, <2>2, <2>3, BookStep, 0 \in Nat, 1 \in Nat
<1> QED
  BY <1>2, <1>3 DEF RxPushTest, RxPushStore

LEMMA SampleStep ==
  ASSUME TypeInv, AccountInv, OnSample
  PROVE  AccountInv'
<1>t. AccountNat /\ fate \in Fate
  BY AccountTypes DEF TypeInv, TypeOK, ProxyTypeOK
<1>1. /\ fate'.ignored = fate.ignored /\ fate'.unsubscribed = fate.unsubscribed
      /\ fate'.unhandled = fate.unhandled /\ fate'.handled = fate.handled + 1
  BY <1>t DEF OnSample, Fate
<1>2. /\ UNCHANGED <<sock, stats, arrived>> /\ rxPc = "callback" /\ rxPc' = "loop"
      /\ samplesReceived' = samplesReceived + 1
  BY DEF OnSample, RxGoto
<1>3. InHand = 1 /\ InHand' = 0 /\ InTransit' = InTransit
  BY <1>2 DEF InHand, InTransit
<1> QED
  BY <1>t, <1>1, <1>2, <1>3, BookStep, 0 \in Nat, 1 \in Nat DEF AccountNat

LEMMA AccountStepRx == TypeInv /\ AccountInv /\ RxThread => AccountInv'
<1> SUFFICES ASSUME TypeInv, AccountInv, RxThread PROVE AccountInv'
  OBVIOUS
<1>t. AccountNat
  BY AccountTypes
<1>j. ASSUME NEW from \in {"loop", "test", "arm", "select", "recv", "blocked"},
             NEW to \in {"done", "loop", "test", "arm", "select", "recv", "blocked"},
             RxJump(from, to), UNCHANGED samplesReceived
      PROVE  AccountInv'
  <2>1. UNCHANGED <<sock, stats, fate, arrived, samplesReceived>> /\ rxPc = from /\ rxPc' = to
    BY <1>j DEF RxJump, RxGoto
  <2>2. InTransit' = InTransit /\ InHand' = InHand
    BY <1>j, <2>1 DEF InTransit, InHand
  <2> QED
    BY <1>j, <1>t, <2>1, <2>2, QuietStep DEF AccountNat
<1>1. CASE RxStep /\ UNCHANGED <<mainPc, gRunning, swcVars>>
  <2>u. UNCHANGED samplesReceived
    BY <1>1 DEF swcVars
  <2>1. CASE RxLoop
    BY <1>j, <2>u, <2>1 DEF RxLoop
  <2>2. CASE RxTestFd
    BY <1>j, <2>u, <2>2 DEF RxTestFd
  <2>3. CASE RxArm
    BY <1>j, <2>u, <2>3 DEF RxArm
  <2>4. CASE RxSelect
    BY <1>j, <2>u, <2>4 DEF RxSelect
  <2>5. CASE RxRecv
    BY <1>j, <2>u, <2>5, TakeStep DEF RxRecv
  <2>6. CASE RxWake
    BY <1>j, <2>u, <2>6, TakeStep DEF RxWake
  <2> QED
    BY <1>1, <2>u, <2>1, <2>2, <2>3, <2>4, <2>5, <2>6, CountStep, ErrorStep, PushStep
       DEF RxStep
<1> QED
  BY <1>1, SampleStep DEF RxThread

(* The socket loses datagrams to close() and to the kernel, and gains those  *)
(* that arrive.                                                              *)
LEMMA SocketStep ==
  ASSUME TypeInv, AccountInv, UNCHANGED <<stats, fate, samplesReceived, rxPc>>,
         NEW k \in Nat, arrived' = arrived + k, sock'.buf \in Seq(Datagrams),
         Len(sock'.buf) <= Len(sock.buf) + k
  PROVE  AccountInv'
<1>1. AccountNat /\ Len(sock'.buf) \in Nat
  BY AccountTypes
<1>2. InHand' = InHand
  BY DEF InHand
<1>3. InTransit' <= InTransit + k /\ InTransit' \in Nat
  <2>1. CASE rxPc = "count"
    <3>1. InTransit = Len(sock.buf) + 1 /\ InTransit' = Len(sock'.buf) + 1
      BY <2>1, InTransitValue
    <3> QED
      BY <1>1, <3>1 DEF AccountNat
  <2>2. CASE rxPc # "count"
    <3>1. InTransit = Len(sock.buf) + 0 /\ InTransit' = Len(sock'.buf) + 0
      BY <2>2, InTransitValue
    <3> QED
      BY <1>1, <3>1 DEF AccountNat
  <2> QED
    BY <2>1, <2>2
<1>4. stats'.rxPackets <= arrived' /\ stats'.rxPackets + InTransit' <= arrived'
  <2> DEFINE n == stats.rxPackets
             t == InTransit
             t2 == InTransit'
  <2>1. /\ n \in Nat /\ t \in Nat /\ t2 \in Nat /\ arrived \in Nat
        /\ n + t <= arrived /\ t2 <= t + k
    BY <1>1, <1>3 DEF AccountNat, AccountInv
  <2> HIDE DEF n, t, t2
  <2>2. n <= arrived + k /\ n + t2 <= arrived + k
    BY <2>1
  <2> QED
    BY <2>2 DEF n, t2
<1> QED
  BY <1>2, <1>4 DEF AccountInv, FrameAccounting

LEMMA AccountStepMain == TypeInv /\ ThreadInv /\ AccountInv /\ MainThread => AccountInv'
<1> SUFFICES ASSUME TypeInv, ThreadInv, AccountInv, MainThread PROVE AccountInv'
  OBVIOUS
<1>t. AccountNat /\ sock \in Socket /\ <<>> \in Seq(Datagrams)
  BY AccountTypes DEF TypeInv, TypeOK, ProxyTypeOK
<1>1. UNCHANGED <<stats, fate, arrived, samplesReceived>>
  BY DEF MainThread, FindService, StartSubscribe, StartSetHandler, ReportRunning,
         LeaveMainLoop, StopSwc, DestroyProxy, Construct, ConstructFails, StopRunning,
         Shutdown, Close, ForgetFd, Join, proxyVars, swcVars
<1>2. CASE rxPc' # rxPc
  <2>1. MainGoto("boot", "subscribe") /\ Construct
    BY <1>2 DEF MainThread, FindService, StartSubscribe, StartSetHandler, ReportRunning,
         LeaveMainLoop, StopSwc, DestroyProxy, ConstructFails, StopRunning,
         Shutdown, Close, ForgetFd, Join, proxyVars, rxVars
  <2>2. rxPc = "none" /\ rxPc' = "loop" /\ sock'.buf = <<>>
    BY <2>1 DEF ThreadInv, MainGoto, Construct, BoundSocket, NoSocket
  <2>3. InHand' = InHand /\ InTransit' = 0
    BY <2>2 DEF InHand, InTransit
  <2> QED
    BY <1>t, <1>1, <2>2, <2>3, QuietStep DEF AccountNat
<1>3. CASE rxPc' = rxPc
  <2>1. sock'.buf = sock.buf \/ sock'.buf = <<>>
    BY <1>t DEF MainThread, FindService, StartSubscribe, StartSetHandler, ReportRunning,
         LeaveMainLoop, StopSwc, DestroyProxy, Construct, ConstructFails, StopRunning,
         Shutdown, Close, ForgetFd, Join, proxyVars, Socket, BoundSocket, NoSocket
  <2>2. sock'.buf \in Seq(Datagrams) /\ Len(sock'.buf) <= Len(sock.buf) + 0
    <3>1. CASE sock'.buf = sock.buf
      BY <1>t, <3>1 DEF AccountNat
    <3>2. CASE sock'.buf = <<>>
      BY <1>t, <3>2 DEF AccountNat
    <3> QED
      BY <2>1, <3>1, <3>2
  <2>3. arrived' = arrived + 0
    BY <1>t, <1>1 DEF AccountNat
  <2> QED
    BY <1>1, <1>3, <2>2, <2>3, SocketStep, 0 \in Nat
<1> QED
  BY <1>2, <1>3

LEMMA AccountStep == TypeInv /\ ThreadInv /\ AccountInv /\ [Next]_vars => AccountInv'
<1> SUFFICES ASSUME TypeInv, ThreadInv, AccountInv, [Next]_vars PROVE AccountInv'
  OBVIOUS
<1>t. AccountNat /\ sock \in Socket
  BY AccountTypes DEF TypeInv, TypeOK, ProxyTypeOK
<1>1. CASE Network
  <2>u. UNCHANGED <<stats, fate, samplesReceived, rxPc>>
    BY <1>1 DEF Network, Arrive, Discard, rxVars, swcVars
  <2>1. ASSUME NEW f \in Datagrams, Arrive(f) PROVE AccountInv'
    <3>1. sock'.buf = Append(sock.buf, f) /\ arrived' = arrived + 1
      BY <1>t, <2>1 DEF Arrive, Socket
    <3>2. sock'.buf \in Seq(Datagrams) /\ Len(sock'.buf) <= Len(sock.buf) + 1
      BY <1>t, <3>1 DEF AccountNat
    <3> QED
      BY <2>u, <3>1, <3>2, SocketStep, 1 \in Nat
  <2>2. CASE Discard
    <3>1. sock'.buf = Tail(sock.buf) /\ arrived' = arrived /\ sock.buf # <<>>
      BY <1>t, <2>2 DEF Discard, Socket
    <3>2. sock'.buf \in Seq(Datagrams) /\ Len(sock'.buf) <= Len(sock.buf) + 0
      BY <1>t, <3>1 DEF AccountNat
    <3>3. arrived' = arrived + 0
      BY <1>t, <3>1 DEF AccountNat
    <3> QED
      BY <2>u, <3>2, <3>3, SocketStep, 0 \in Nat
  <2> QED
    BY <1>1, <2>1, <2>2 DEF Network
<1>2. CASE Signal \/ UNCHANGED vars
  <2>1. UNCHANGED <<stats, fate, arrived, samplesReceived, sock, rxPc>>
    BY <1>2 DEF Signal, vars, proxyVars, rxVars, swcVars
  <2>2. InHand' = InHand /\ InTransit' = InTransit
    BY <2>1 DEF InHand, InTransit
  <2> QED
    BY <1>t, <2>1, <2>2, QuietStep DEF AccountNat
<1> QED
  BY <1>1, <1>2, AccountStepMain, AccountStepRx DEF Next, Exited

(* Whatever arrives and whenever Stop() is called, every counted datagram is *)
(* in exactly one of the outcomes, or in the thread's hand.                  *)
THEOREM FramesAreAccounted == Spec => []FrameAccounting
<1>1. AccountInv => FrameAccounting
  BY DEF AccountInv
<1> QED
  BY <1>1, TypeInit, TypeStep, ThreadInit, ThreadStep, AccountInit, AccountStep, PTL
     DEF Spec
-----------------------------------------------------------------------------
(* The queue and what the handler stores.  Samples pushed before the handler   *)
(* is set are queued and not handled; from then on every push leads to a call, *)
(* and the sample of the call is the newest in the queue until it returns.     *)
QueueInv ==
  /\ subscription = "kSubscribed" \/ queueMtx = "PushSample" => maxSamples = QueueSize
  /\ Len(sampleQueue) <= QueueSize
  /\ rxPc = "callback" \/ samplesReceived > 0 =>
       receiveHandler = SwcHandler /\ sampleQueue # <<>>
  /\ rxPc = "callback" => sampleQueue[Len(sampleQueue)] = SampleOf(rxFrame)
  /\ samplesReceived > 0 /\ rxPc # "callback" => last = sampleQueue[Len(sampleQueue)]

LEMMA QueueInit == Init => QueueInv
BY QueueSizeAssumption DEF Init, ProxyInit, EventInit, QueueInv

LEMMA PushedIsNewest ==
  ASSUME NEW S, sampleQueue \in Seq(S), NEW s \in S, maxSamples = QueueSize,
         Len(sampleQueue) <= QueueSize
  PROVE  /\ Pushed(s) # <<>> /\ Len(Pushed(s)) <= QueueSize
         /\ Pushed(s)[Len(Pushed(s))] = s
<1> DEFINE q == IF Len(sampleQueue) >= maxSamples THEN Tail(sampleQueue) ELSE sampleQueue
<1>1. q \in Seq(S) /\ Len(q) < QueueSize
  BY QueueSizeAssumption DEF q
<1>2. Pushed(s) = Append(q, s)
  BY DEF Pushed
<1> HIDE DEF q
<1> QED
  BY QueueSizeAssumption, <1>1, <1>2

(* Steps that leave the queue and what was handled alone. *)
LEMMA QueueKept ==
  ASSUME QueueInv, UNCHANGED <<sampleQueue, samplesReceived, last>>,
         rxPc' = "callback" => rxPc = "callback" /\ rxFrame' = rxFrame,
         rxPc = "callback" => rxPc' = "callback",
         subscription' = "kSubscribed" \/ queueMtx' = "PushSample" => maxSamples' = QueueSize,
         receiveHandler' \in {receiveHandler, SwcHandler}
  PROVE  QueueInv'
BY DEF QueueInv

LEMMA QueueStepRx == TypeInv /\ QueueInv /\ RxThread => QueueInv'
<1> SUFFICES ASSUME TypeInv, QueueInv, RxThread PROVE QueueInv'
  OBVIOUS
<1> USE DEF RxJump, RxGoto
<1>1. CASE OnSample
  <2>1. samplesReceived \in Nat
    BY DEF TypeInv, TypeOK
  <2> QED
    BY <1>1, <2>1 DEF OnSample, QueueInv, eventVars
<1>2. CASE RxPushStore /\ UNCHANGED swcVars
  <2>1. /\ rxPc = "store" /\ rxFrame' = rxFrame /\ queueMtx = "PushSample"
        /\ sampleQueue' = Pushed(SampleOf(rxFrame)) /\ rxHandler' = receiveHandler
        /\ queueMtx' = "free"
        /\ UNCHANGED <<subscription, maxSamples, receiveHandler>>
    BY <1>2 DEF RxPushStore, PushStore
  <2>2. sampleQueue \in Seq(Sample) /\ SampleOf(rxFrame) \in Sample
    BY DatagramsAssumption, <2>1 DEF TypeInv, TypeOK, ProxyTypeOK, EventTypeOK, StackInv, SampleOf, Sample, Frame
  <2>3. /\ sampleQueue' # <<>> /\ Len(sampleQueue') <= QueueSize
        /\ sampleQueue'[Len(sampleQueue')] = SampleOf(rxFrame)
    BY <2>1, <2>2, PushedIsNewest DEF QueueInv
  <2>4. rxPc' = "callback" => receiveHandler = SwcHandler
    BY SwcHandlerAssumption, NoHandlerAssumption, <1>2, <2>1 DEF RxPushStore
  <2>5. samplesReceived > 0 => rxPc' = "callback"
    BY SwcHandlerAssumption, NoHandlerAssumption, <1>2, <2>1 DEF RxPushStore, QueueInv
  <2> QED
    BY <1>2, <2>1, <2>3, <2>4, <2>5 DEF QueueInv, swcVars
<1>4. CASE RxPushTest /\ UNCHANGED swcVars
  <2>1. /\ rxPc = "push" /\ rxPc' \in {"store", "loop"} /\ rxFrame' = rxFrame
        /\ queueMtx' = "PushSample" => subscription = "kSubscribed"
        /\ UNCHANGED <<subscription, maxSamples, receiveHandler, sampleQueue>>
    BY <1>4 DEF RxPushTest, PushTest
  <2> QED
    BY <1>4, <2>1 DEF QueueInv, swcVars
<1>3. CASE RxStep /\ ~RxPushTest /\ ~RxPushStore /\ UNCHANGED swcVars
  <2>1. UNCHANGED <<eventVars, swcVars>> /\ rxPc # "callback" /\ rxPc' # "callback"
    <3>1. CASE RxLoop \/ RxTestFd \/ RxArm \/ RxSelect
      BY <1>3, <3>1 DEF RxLoop, RxTestFd, RxArm, RxSelect
    <3>2. CASE RxRecv \/ RxWake
      BY <1>3, <3>2 DEF RxRecv, RxWake, RxTake
    <3>3. CASE RxCount \/ RxE2eError \/ RxParseError
      BY <1>3, <3>3 DEF RxCount, RxE2eError, RxParseError
    <3> QED
      BY <1>3, <3>1, <3>2, <3>3 DEF RxStep
  <2> QED
    BY <2>1, QueueKept DEF eventVars, swcVars, QueueInv
<1> QED
  BY <1>1, <1>2, <1>3, <1>4 DEF RxThread, RxStep

LEMMA QueueStep == TypeInv /\ ThreadInv /\ QueueInv /\ [Next]_vars => QueueInv'
<1> SUFFICES ASSUME TypeInv, ThreadInv, QueueInv, [Next]_vars PROVE QueueInv'
  OBVIOUS
<1> USE DEF MainGoto, swcVars, eventVars, proxyVars, rxVars
<1>1. CASE FindService
  <2>1. CASE Construct /\ proxy' = TRUE /\ UNCHANGED <<gRunning, reported, samplesReceived, last>>
    <3>1. rxPc = "none" /\ rxPc' = "loop"
      BY <1>1, <2>1 DEF FindService, Construct, ThreadInv
    <3> QED
      BY <2>1, <3>1, QueueKept DEF Construct, QueueInv
  <2>2. CASE ConstructFails /\ UNCHANGED swcVars
    BY <2>2, QueueKept DEF ConstructFails, QueueInv
  <2> QED
    BY <1>1, <2>1, <2>2 DEF FindService
<1>2. CASE StartSubscribe
  BY <1>2, QueueKept DEF StartSubscribe, Subscribe, QueueInv
<1>3. CASE StartSetHandler
  BY <1>3, QueueKept DEF StartSetHandler, SetReceiveHandler, QueueInv
<1>4. CASE ReportRunning \/ LeaveMainLoop
  BY <1>4, QueueKept DEF ReportRunning, LeaveMainLoop, QueueInv
<1>5. CASE StopSwc
  BY <1>5, QueueKept DEF StopSwc, Unsubscribe, QueueInv
<1>6. CASE DestroyProxy
  BY <1>6, QueueKept DEF DestroyProxy, StopRunning, Shutdown, Close, ForgetFd, Join, QueueInv
<1>7. CASE Network \/ Signal \/ UNCHANGED vars
  BY <1>7, QueueKept DEF Network, Arrive, Discard, Signal, vars, QueueInv
<1> QED
  BY <1>1, <1>2, <1>3, <1>4, <1>5, <1>6, <1>7, QueueStepRx DEF Next, MainThread, Exited

(* The sample the handler stored last is the newest in the queue, and the     *)
(* queue keeps within its size, for any datagrams and any size.               *)
THEOREM PushMeetsPull == Spec => []PushAndPullAgree
<1>1. QueueInv => PushAndPullAgree
  BY DEF QueueInv, PushAndPullAgree
<1> QED
  BY <1>1, TypeInit, TypeStep, ThreadInit, ThreadStep, QueueInit, QueueStep, PTL DEF Spec
-----------------------------------------------------------------------------
(* What the destructor has taken from the receive thread, statement by        *)
(* statement.                                                                 *)
StopInv ==
  /\ mainPc \in {"shutdown", "close", "forgetFd", "join"} => ~running
  /\ mainPc \in {"close", "forgetFd", "join"} => sock.shut
  /\ mainPc \in {"forgetFd", "join"} => ~sock.open /\ sock.buf = <<>>
  /\ mainPc = "join" => ~sockFd

LEMMA StopStep == TypeInv /\ StopInv /\ [Next]_vars => StopInv'
<1> SUFFICES ASSUME TypeInv, StopInv, [Next]_vars PROVE StopInv'
  OBVIOUS
<1> USE DEF StopInv, MainGoto, proxyVars, swcVars, rxVars
<1>1. CASE FindService \/ StartSubscribe \/ StartSetHandler \/ ReportRunning
           \/ LeaveMainLoop \/ StopSwc
  BY <1>1 DEF FindService, Construct, ConstructFails, StartSubscribe, StartSetHandler,
              ReportRunning, LeaveMainLoop, StopSwc
<1>2. CASE DestroyProxy
  <2>1. [sock EXCEPT !.shut = TRUE].shut
    BY DEF TypeInv, TypeOK, ProxyTypeOK, Socket
  <2>2. /\ ~[sock EXCEPT !.open = FALSE, !.buf = <<>>].open
        /\ [sock EXCEPT !.open = FALSE, !.buf = <<>>].buf = <<>>
        /\ [sock EXCEPT !.open = FALSE, !.buf = <<>>].shut = sock.shut
    BY DEF TypeInv, TypeOK, ProxyTypeOK, Socket
  <2>3. CASE MainGoto("stopRunning", "shutdown") /\ StopRunning
    BY <2>3 DEF StopRunning
  <2>4. CASE MainGoto("shutdown", "close") /\ Shutdown
    BY <2>1, <2>4 DEF Shutdown
  <2>5. CASE MainGoto("close", "forgetFd") /\ Close
    BY <2>2, <2>5 DEF Close
  <2>6. CASE MainGoto("forgetFd", "join") /\ ForgetFd
    BY <2>6 DEF ForgetFd
  <2>7. CASE MainGoto("join", "stopped") /\ Join
    BY <2>7 DEF Join
  <2> QED
    BY <1>2, <2>3, <2>4, <2>5, <2>6, <2>7 DEF DestroyProxy
<1>3. CASE RxThread
  <2>1. UNCHANGED <<mainPc, running, sockFd>>
    BY <1>3, RxThreadFrame DEF RxThread, RxStep, RxLoop, RxTestFd, RxArm, RxSelect, RxRecv, RxWake,
            RxTake, RxCount, RxE2eError, RxParseError, RxPushTest, RxPushStore, OnSample, RxJump
  <2>2. \/ UNCHANGED sock
        \/ sock.buf # <<>> /\ sock' = [sock EXCEPT !.buf = Tail(@)]
    BY <1>3 DEF RxThread, RxStep, RxLoop, RxTestFd, RxArm, RxSelect, RxRecv, RxWake,
            RxTake, RxCount, RxE2eError, RxParseError, RxPushTest, RxPushStore, OnSample, RxJump
  <2>3. sock'.shut = sock.shut /\ sock'.open = sock.open /\ (sock.buf = <<>> => sock'.buf = <<>>)
    BY <2>2 DEF TypeInv, TypeOK, ProxyTypeOK, Socket
  <2> QED
    BY <2>1, <2>3
<1>4. CASE Network
  <2>1. /\ UNCHANGED <<mainPc, running, sockFd>>
        /\ \/ sock.open /\ (\E f \in Datagrams : sock' = [sock EXCEPT !.buf = Append(@, f)])
           \/ sock.buf # <<>> /\ sock' = [sock EXCEPT !.buf = Tail(@)]
    BY <1>4 DEF Network, Arrive, Discard
  <2>2. sock'.shut = sock.shut /\ sock'.open = sock.open
    BY <2>1 DEF TypeInv, TypeOK, ProxyTypeOK, Socket
  <2> QED
    BY <2>1, <2>2
<1>5. CASE Signal
  BY <1>5 DEF Signal
<1>6. CASE UNCHANGED vars
  BY <1>6 DEF vars
<1> QED
  BY <1>1, <1>2, <1>3, <1>4, <1>5, <1>6 DEF Next, MainThread, Exited

(* Once the destructor is in join(), every step of the receive thread brings  *)
(* it nearer to its end: at most five are left, for any datagrams and         *)
(* wherever the thread was.                                                   *)
THEOREM JoinsAreBounded == Spec => JoinIsBounded
<1>1. Init => StopInv
  BY DEF Init, StopInv
<1>2. TypeInv /\ StopInv /\ [Next]_vars
        => [mainPc = "join" /\ rxPc' # rxPc => StepsLeft' < StepsLeft]_vars
  <2> SUFFICES ASSUME TypeInv, StopInv, Next, mainPc = "join", rxPc' # rxPc
               PROVE  StepsLeft' < StepsLeft
    OBVIOUS
  <2> USE DEF StepsLeft, RxJump, RxGoto
  <2>1. ~running /\ sock.shut /\ ~sock.open /\ sock.buf = <<>> /\ ~sockFd
    BY DEF StopInv
  <2>2. RxThread
    BY DEF Next, MainThread, FindService, StartSubscribe, StartSetHandler, ReportRunning,
           LeaveMainLoop, StopSwc, DestroyProxy, MainGoto, Join, Network, Arrive, Discard, Signal,
           Exited, vars, proxyVars, rxVars
  <2>3. CASE RxLoop \/ RxTestFd \/ RxArm \/ RxSelect
    BY <2>1, <2>3 DEF RxLoop, RxTestFd, RxArm, RxSelect, Readable
  <2>4. CASE RxRecv \/ RxWake
    BY <2>1, <2>4 DEF RxRecv, RxWake, RxTake
  <2>5. CASE RxCount \/ RxE2eError \/ RxParseError
    BY <2>5 DEF RxCount, RxE2eError, RxParseError
  <2>6. CASE RxPushTest \/ RxPushStore
    BY <2>6 DEF RxPushTest, RxPushStore
  <2>7. CASE OnSample
    BY <2>7 DEF OnSample
  <2> QED
    BY <2>2, <2>3, <2>4, <2>5, <2>6, <2>7 DEF RxThread, RxStep
<1> QED
  BY <1>1, <1>2, TypeInit, TypeStep, StopStep, PTL DEF Spec, JoinIsBounded
=============================================================================
