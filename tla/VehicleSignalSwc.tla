-------------------------- MODULE VehicleSignalSwc --------------------------
(***************************************************************************)
(* The process the build produces: main() drives VehicleSignalSwc, which   *)
(* owns a VehicleSignalProxy; the proxy's receive thread calls the SWC's   *)
(* handler.  Three actors interleave: the main thread, the receive thread  *)
(* and the network; SIGTERM or SIGINT may come at any time.                *)
(*                                                                         *)
(* The main thread's control points:                                       *)
(*   boot         about to call FindService                                *)
(*   subscribe    has a proxy, about to Subscribe(32)                      *)
(*   setHandler   about to SetReceiveHandler                               *)
(*   report       Start has returned, about to report kRunning             *)
(*   mainLoop     in the 100 ms loop                                       *)
(*   stop         the loop has ended, about to call Stop()                 *)
(*   stopRunning, shutdown, close, forgetFd, join   in ~VehicleSignalProxy *)
(*   stopped      Stop() has returned                                      *)
(* MainFunction_100ms only reads, under the locks, and is a stutter.       *)
(***************************************************************************)
EXTENDS VehicleSignalProxy

CONSTANTS
  SwcHandler,   (* The lambda Start() installs.                       *)
  QueueSize,    (* Subscribe(32).                                     *)
  NoSample      (* last* before the first sample.                     *)

ASSUME SwcHandlerAssumption == Handlers = {SwcHandler}
ASSUME QueueSizeAssumption == QueueSize \in Nat \ {0}
ASSUME NoSampleAssumption == NoSample \notin Sample

VARIABLES
  mainPc,            (* control point of the main thread                      *)
  gRunning,          (* g_running, cleared by the signal handler              *)
  proxy,             (* whether impl_->proxy is set                           *)
  reported,          (* whether kRunning has been reported                    *)
  samplesReceived,   (* samplesReceived                                       *)
  last               (* lastSpeedKmh, lastRpm, lastFuelPct, lastE2eCounter:
                        the sample they were taken from                       *)

swcVars == <<proxy, reported, samplesReceived, last>>
vars == <<proxyVars, mainPc, gRunning, swcVars>>

MainPoints == {"boot", "subscribe", "setHandler", "report", "mainLoop", "stop",
               "stopRunning", "shutdown", "close", "forgetFd", "join", "stopped"}

TypeOK ==
  /\ ProxyTypeOK
  /\ mainPc \in MainPoints
  /\ gRunning \in BOOLEAN
  /\ proxy \in BOOLEAN
  /\ reported \in BOOLEAN
  /\ samplesReceived \in Nat
  /\ last \in Sample \cup {NoSample}

Init ==
  /\ ProxyInit
  /\ mainPc = "boot"
  /\ gRunning = TRUE
  /\ proxy = FALSE
  /\ reported = FALSE
  /\ samplesReceived = 0
  /\ last = NoSample
-----------------------------------------------------------------------------
MainGoto(from, to) == mainPc = from /\ mainPc' = to

(* FindService: the proxy is found, or nullptr makes Start() return. *)
FindService ==
  \/ /\ MainGoto("boot", "subscribe")
     /\ Construct
     /\ proxy' = TRUE
     /\ UNCHANGED <<gRunning, reported, samplesReceived, last>>
  \/ /\ MainGoto("boot", "report")
     /\ ConstructFails
     /\ UNCHANGED <<gRunning, swcVars>>

StartSubscribe ==
  /\ MainGoto("subscribe", "setHandler")
  /\ Subscribe(QueueSize)
  /\ UNCHANGED <<running, sockFd, sock, rxVars, stats, arrived, fate, gRunning, swcVars>>

StartSetHandler ==
  /\ MainGoto("setHandler", "report")
  /\ SetReceiveHandler(SwcHandler)
  /\ UNCHANGED <<running, sockFd, sock, rxVars, stats, arrived, fate, gRunning, swcVars>>

(* ReportExecutionState always returns kSuccess. *)
ReportRunning ==
  /\ MainGoto("report", "mainLoop")
  /\ reported' = TRUE
  /\ UNCHANGED <<proxyVars, gRunning, proxy, samplesReceived, last>>

LeaveMainLoop ==
  /\ ~gRunning
  /\ MainGoto("mainLoop", "stop")
  /\ UNCHANGED <<proxyVars, gRunning, swcVars>>

(* Stop() without a proxy does nothing; with one, it unsubscribes ... *)
StopSwc ==
  \/ /\ ~proxy
     /\ MainGoto("stop", "stopped")
     /\ UNCHANGED <<proxyVars, gRunning, swcVars>>
  \/ /\ proxy
     /\ MainGoto("stop", "stopRunning")
     /\ Unsubscribe
     /\ UNCHANGED <<running, sockFd, sock, rxVars, stats, arrived, fate, gRunning, swcVars>>

(* ... and resets the pointer, which clears it and runs the destructor. *)
DestroyProxy ==
  \/ /\ MainGoto("stopRunning", "shutdown")
     /\ StopRunning
     /\ proxy' = FALSE
     /\ UNCHANGED <<gRunning, reported, samplesReceived, last>>
  \/ /\ \/ MainGoto("shutdown", "close") /\ Shutdown
        \/ MainGoto("close", "forgetFd") /\ Close
        \/ MainGoto("forgetFd", "join") /\ ForgetFd
        \/ MainGoto("join", "stopped") /\ Join
     /\ UNCHANGED <<gRunning, swcVars>>

(* SignalHandler, from the moment main() has installed it. *)
Signal ==
  /\ gRunning
  /\ gRunning' = FALSE
  /\ UNCHANGED <<proxyVars, mainPc, swcVars>>

(* The handler, under dataMtx, on the receive thread. *)
OnSample ==
  /\ RxGoto("callback", "loop")
  /\ last' = SampleOf(rxFrame)
  /\ samplesReceived' = samplesReceived + 1
  /\ rxHandler' = NoHandler
  /\ fate' = [fate EXCEPT !.handled = @ + 1,
                          !.late = IF subscription = "kSubscribed" THEN @ ELSE @ + 1]
  /\ UNCHANGED <<eventVars, running, sockFd, sock, rxFrame, stats, arrived,
                 mainPc, gRunning, proxy, reported>>
-----------------------------------------------------------------------------
MainThread ==
  \/ FindService \/ StartSubscribe \/ StartSetHandler \/ ReportRunning
  \/ LeaveMainLoop \/ StopSwc \/ DestroyProxy

RxStep ==
  \/ RxLoop \/ RxTestFd \/ RxArm \/ RxSelect \/ RxRecv \/ RxWake
  \/ RxCount \/ RxE2eError \/ RxParseError \/ RxPushTest \/ RxPushStore

RxThread ==
  \/ RxStep /\ UNCHANGED <<mainPc, gRunning, swcVars>>
  \/ OnSample

Network ==
  /\ (\E f \in Datagrams : Arrive(f)) \/ Discard
  /\ UNCHANGED <<mainPc, gRunning, swcVars>>

(* The process has ended. *)
Exited == mainPc = "stopped" /\ UNCHANGED vars

Next == MainThread \/ RxThread \/ Network \/ Signal \/ Exited

Spec == Init /\ [][Next]_vars

(* Both threads are scheduled; the network and the operator owe nothing. *)
FairSpec == Spec /\ WF_vars(MainThread) /\ WF_vars(RxThread)
-----------------------------------------------------------------------------
(* Every datagram recv() returned ends in exactly one place, although its    *)
(* counters live under three locks and are advanced at different steps of    *)
(* the thread: at any moment the packets counted are the ones ignored,       *)
(* dropped, queued, handled or rejected, and at most the one in hand.        *)
InHand == IF rxPc \in {"e2eError", "parseError", "push", "store", "callback"} THEN 1 ELSE 0

FrameAccounting ==
  /\ stats.rxPackets =
       fate.ignored + fate.unsubscribed + fate.unhandled + fate.handled
         + stats.parseErrors + InHand
  /\ stats.e2eErrors <= stats.parseErrors + (IF rxPc = "parseError" THEN 1 ELSE 0)
  /\ samplesReceived = fate.handled
  /\ stats.rxPackets <= arrived

(* The handler captures the SWC, and PushSample runs on the event inside the *)
(* proxy: once Stop() has returned, the receive thread is gone, so neither   *)
(* is used after it is destroyed, at whatever step Stop() met the thread.    *)
NoThreadAfterStop == mainPc = "stopped" => rxPc \in {"none", "done"}

(* Push and pull see the same newest sample: whenever no handler call is     *)
(* under way, the sample the handler stored last is the newest in the queue, *)
(* and the queue keeps within the size Start() asked for although nothing    *)
(* ever drains it.                                                           *)
PushAndPullAgree ==
  /\ samplesReceived > 0 /\ rxPc # "callback" =>
       last = sampleQueue[Len(sampleQueue)]
  /\ Len(sampleQueue) <= QueueSize

(* PushSample tests the subscription before it copies the handler, and calls  *)
(* the handler after both, while Unsubscribe waits for nothing: a call can    *)
(* come after Unsubscribe has returned, inside Stop().  At most one does,     *)
(* whichever of the three steps Unsubscribe fell between.                     *)
OneCallAfterUnsubscribe == fate.late <= 1

(* How many steps the receive thread has left, once the destructor is in join(). *)
StepsLeft ==
  CASE rxPc \in {"none", "done"} -> 0
    [] rxPc \in {"loop", "test"} -> 1
    [] rxPc \in {"arm", "recv", "blocked", "parseError", "callback"} -> 2
    [] rxPc \in {"select", "e2eError", "store"} -> 3
    [] rxPc = "push" -> 4
    [] rxPc = "count" -> 5

(* Wherever the statements of the destructor met the receive thread, it has   *)
(* no iteration left when join() is called: what it can still see of          *)
(* running_, sockFd_ and the socket lets it only finish the datagram in hand. *)
JoinIsBounded ==
  [][mainPc = "join" /\ rxPc' # rxPc => StepsLeft' < StepsLeft]_vars

(* Stop() comes back: the receive thread leaves select() and recv() wherever  *)
(* the destructor meets it, so the join ends and the process exits.           *)
StopReturns == ~gRunning ~> mainPc = "stopped"

(* The receive thread never stops serving the socket while it is open: what   *)
(* the kernel holds is taken out.                                             *)
SocketDrains == (sock.buf # <<>>) ~> (sock.buf = <<>>)
=============================================================================
