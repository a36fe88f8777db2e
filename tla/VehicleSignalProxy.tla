------------------------- MODULE VehicleSignalProxy -------------------------
(***************************************************************************)
(* class VehicleSignalProxy: the UDP socket, the receive thread and the    *)
(* statistics, around the event of VehicleSignalEvent.  The operators are  *)
(* the steps of the receive thread and of the constructor and destructor;  *)
(* VehicleSignalSwc composes them with the application's main thread.      *)
(*                                                                         *)
(* The thread owns a program counter:                                      *)
(*   none     there is no thread       loop     about to test running_     *)
(*   test     about to test sockFd_    arm      about to FD_SET(sockFd_)   *)
(*   select   inside select()          recv     about to call recv()       *)
(*   blocked  inside recv()            count    has a datagram in `buf`    *)
(*   e2eError, parseError   about to count the error of the datagram       *)
(*   push     about to call PushSample                                     *)
(*   store    in PushSample, holding queueMtx_, has seen kSubscribed       *)
(*   callback has released queueMtx_ and calls the handler it copied       *)
(*   done     RxThreadFunc has returned                                    *)
(***************************************************************************)
EXTENDS VehicleSignalFrame, VehicleSignalEvent

CONSTANTS
  Datagrams,     (* The datagrams that can reach the port.                   *)
  NoFrame,       (* `buf` before the first recv().                           *)
  RcvBuf,        (* How many datagrams the kernel holds for the socket.      *)
  MaxArrivals    (* Bound on the datagrams of one behaviour.                 *)

ASSUME DatagramsAssumption == Datagrams \subseteq Frame /\ NoFrame \notin Datagrams
ASSUME BoundsAssumption == RcvBuf \in Nat /\ MaxArrivals \in Nat

VARIABLES
  running,       (* running_, an atomic                                       *)
  sockFd,        (* whether sockFd_ >= 0; a plain int, read by the thread
                    while the destructor writes it                            *)
  sock,          (* the kernel's socket: open, shut down, queued datagrams    *)
  rxPc,          (* control point of the receive thread                       *)
  rxFrame,       (* `buf` of the receive thread, and n                        *)
  rxHandler,     (* `cb` of PushSample, on the thread's stack                 *)
  stats,         (* stats_, guarded by statsMtx_                              *)
  arrived,       (* how many datagrams have reached the socket                *)
  fate           (* history: what became of the counted datagrams that are no
                    error: ignored, dropped for want of a subscription,
                    queued while no handler was set, handled; and how many
                    of the handled ones after Unsubscribe                     *)

rxVars == <<rxPc, rxFrame, rxHandler>>
proxyVars == <<eventVars, running, sockFd, sock, rxVars, stats, arrived, fate>>

RxPoints == {"none", "loop", "test", "arm", "select", "recv", "blocked", "count",
             "e2eError", "parseError", "push", "store", "callback", "done"}

Stats == [rxPackets: Nat, rxBytes: Nat, e2eErrors: Nat, parseErrors: Nat]
Fate == [ignored: Nat, unsubscribed: Nat, unhandled: Nat, handled: Nat,
         late: Nat]
Socket == [open: BOOLEAN, shut: BOOLEAN, buf: Seq(Datagrams)]

NoStats == [rxPackets |-> 0, rxBytes |-> 0, e2eErrors |-> 0, parseErrors |-> 0]
NoFate == [ignored |-> 0, unsubscribed |-> 0, unhandled |-> 0, handled |-> 0,
           late |-> 0]
NoSocket == [open |-> FALSE, shut |-> FALSE, buf |-> <<>>]
BoundSocket == [NoSocket EXCEPT !.open = TRUE]

ProxyTypeOK ==
  /\ EventTypeOK(Sample)
  /\ running \in BOOLEAN
  /\ sockFd \in BOOLEAN
  /\ sock \in Socket
  /\ rxPc \in RxPoints
  /\ rxFrame \in Datagrams \cup {NoFrame}
  /\ rxHandler \in Handlers \cup {NoHandler}
  /\ stats \in Stats
  /\ arrived \in Nat
  /\ fate \in Fate

ProxyInit ==
  /\ EventInit
  /\ running = FALSE
  /\ sockFd = FALSE
  /\ sock = NoSocket
  /\ rxPc = "none"
  /\ rxFrame = NoFrame
  /\ rxHandler = NoHandler
  /\ stats = NoStats
  /\ arrived = 0
  /\ fate = NoFate
-----------------------------------------------------------------------------
(* Constructor and destructor. *)

(* The constructor up to and including the start of the receive thread; the *)
(* event is not subscribed yet.                                             *)
Construct ==
  /\ running' = TRUE
  /\ sockFd' = TRUE
  /\ sock' = BoundSocket
  /\ rxPc' = "loop"
  /\ UNCHANGED <<eventVars, rxFrame, rxHandler, stats, arrived, fate>>

(* socket() or bind() fails: no thread, sockFd_ stays or becomes -1, and     *)
(* FindService destroys the object and returns nullptr.                      *)
ConstructFails == UNCHANGED proxyVars

(* The destructor, statement by statement.  A mutant first: running_ stays set. *)
StopRunningForgotten == UNCHANGED proxyVars

StopRunning ==
  /\ running' = FALSE
  /\ UNCHANGED <<eventVars, sockFd, sock, rxVars, stats, arrived, fate>>

(* A mutant: the destructor only closes the socket. *)
ShutdownForgotten == sockFd /\ UNCHANGED proxyVars

Shutdown ==
  /\ sockFd
  /\ sock' = [sock EXCEPT !.shut = TRUE]
  /\ UNCHANGED <<eventVars, running, sockFd, rxVars, stats, arrived, fate>>

Close ==
  /\ sock' = [sock EXCEPT !.open = FALSE, !.buf = <<>>]
  /\ UNCHANGED <<eventVars, running, sockFd, rxVars, stats, arrived, fate>>

ForgetFd ==
  /\ sockFd' = FALSE
  /\ UNCHANGED <<eventVars, running, sock, rxVars, stats, arrived, fate>>

(* A mutant: the thread is detached. *)
JoinDetached == UNCHANGED proxyVars

Join ==
  /\ rxPc = "done"
  /\ UNCHANGED proxyVars
-----------------------------------------------------------------------------
(* The receive thread. *)

RxGoto(from, to) == rxPc = from /\ rxPc' = to

(* A step that changes nothing but the control point. *)
RxJump(from, to) ==
  /\ RxGoto(from, to)
  /\ UNCHANGED <<eventVars, running, sockFd, sock, rxFrame, rxHandler, stats,
                 arrived, fate>>

RxLoop == RxJump("loop", IF running THEN "test" ELSE "done")

RxTestFd == RxJump("test", IF sockFd THEN "arm" ELSE "done")

(* FD_SET and the first argument of select() read sockFd_ again.  A build     *)
(* that reads the destructor's -1 sets a bit of no descriptor and select(0)   *)
(* times out; one that kept the value it tested selects on it, and select()   *)
(* fails if it is closed by now.                                              *)
RxArm ==
  \/ sock.open /\ RxJump("arm", "select")
  \/ ~sockFd /\ RxJump("arm", "loop")
  \/ ~sock.open /\ RxJump("arm", "loop")

Readable == sock.buf # <<>> \/ sock.shut

(* select() returns: readable, or after its 100 ms timeout or a signal. *)
RxSelect == RxJump("select", IF Readable THEN "recv" ELSE "loop")

(* recv() returns n > 0; an empty datagram is n = 0 and starts over. *)
RxTake ==
  /\ sock.buf # <<>>
  /\ rxFrame' = Head(sock.buf)
  /\ sock' = [sock EXCEPT !.buf = Tail(@)]
  /\ rxPc' = IF Head(sock.buf).len = 0 THEN "loop" ELSE "count"
  /\ UNCHANGED <<eventVars, running, sockFd, rxHandler, stats, arrived, fate>>

(* recv() fails on a closed descriptor, returns a datagram, returns 0 on a     *)
(* socket that was shut down, and otherwise blocks: the datagram select() saw  *)
(* may be gone.                                                                *)
RxRecv ==
  \/ (~sock.open \/ ~sockFd) /\ RxJump("recv", "loop")
  \/ sock.open /\ rxPc = "recv" /\ RxTake
  \/ /\ sock.open /\ sock.buf = <<>>
     /\ RxJump("recv", IF sock.shut THEN "loop" ELSE "blocked")

(* A blocked recv() is woken by a datagram or by shutdown(), not by close(). *)
RxWake ==
  \/ rxPc = "blocked" /\ RxTake
  \/ sock.buf = <<>> /\ sock.shut /\ RxJump("blocked", "loop")

(* The statistics of a received datagram, and the verdict of ParseAndDispatch, *)
(* which only reads the thread's own buffer.                                   *)
RxCount ==
  /\ rxPc = "count"
  /\ stats' = [stats EXCEPT !.rxPackets = @ + 1, !.rxBytes = @ + RecvLen(rxFrame)]
  /\ \/ Ignored(rxFrame) /\ rxPc' = "loop"
     \/ Malformed(rxFrame) /\ rxPc' = "parseError"
     \/ CrcMismatch(rxFrame) /\ rxPc' = "e2eError"
     \/ Accepted(rxFrame) /\ rxPc' = "push"
  /\ fate' = IF Ignored(rxFrame) THEN [fate EXCEPT !.ignored = @ + 1] ELSE fate
  /\ UNCHANGED <<eventVars, running, sockFd, sock, rxFrame, rxHandler, arrived>>

(* A mutant: a CRC failure is no longer reported to RxThreadFunc. *)
RxE2eErrorOnly ==
  /\ RxGoto("e2eError", "loop")
  /\ stats' = [stats EXCEPT !.e2eErrors = @ + 1]
  /\ UNCHANGED <<eventVars, running, sockFd, sock, rxFrame, rxHandler, arrived, fate>>

(* ParseAndDispatch counts the CRC failure and returns false ... *)
RxE2eError ==
  /\ RxGoto("e2eError", "parseError")
  /\ stats' = [stats EXCEPT !.e2eErrors = @ + 1]
  /\ UNCHANGED <<eventVars, running, sockFd, sock, rxFrame, rxHandler, arrived, fate>>

(* A mutant: an error ends the receive thread. *)
RxParseErrorEnds ==
  /\ RxGoto("parseError", "done")
  /\ stats' = [stats EXCEPT !.parseErrors = @ + 1]
  /\ UNCHANGED <<eventVars, running, sockFd, sock, rxFrame, rxHandler, arrived, fate>>

(* ... and RxThreadFunc counts every false as a parse error. *)
RxParseError ==
  /\ RxGoto("parseError", "loop")
  /\ stats' = [stats EXCEPT !.parseErrors = @ + 1]
  /\ UNCHANGED <<eventVars, running, sockFd, sock, rxFrame, rxHandler, arrived, fate>>

(* PushSample of the accepted sample: the test of the subscription, and the *)
(* push with the copy of the handler.                                         *)
RxPushTest ==
  /\ rxPc = "push"
  /\ PushTest
  /\ \/ /\ queueMtx' = "PushSample"
        /\ rxPc' = "store"
        /\ UNCHANGED fate
     \/ /\ queueMtx' = "free"
        /\ rxPc' = "loop"
        /\ fate' = [fate EXCEPT !.unsubscribed = @ + 1]
  /\ UNCHANGED <<running, sockFd, sock, rxFrame, rxHandler, stats, arrived>>

RxPushStore ==
  /\ rxPc = "store"
  /\ PushStore(SampleOf(rxFrame), rxHandler')
  /\ \/ /\ rxHandler' \in Handlers
        /\ rxPc' = "callback"
        /\ UNCHANGED fate
     \/ /\ rxHandler' = NoHandler
        /\ rxPc' = "loop"
        /\ fate' = [fate EXCEPT !.unhandled = @ + 1]
  /\ UNCHANGED <<running, sockFd, sock, rxFrame, stats, arrived>>
-----------------------------------------------------------------------------
(* The network side of the socket: a datagram of any sender arrives, or one   *)
(* the kernel holds is discarded (its checksum is wrong) before recv() has it. *)

Arrive(f) ==
  /\ sock.open
  /\ arrived < MaxArrivals
  /\ Len(sock.buf) < RcvBuf
  /\ sock' = [sock EXCEPT !.buf = Append(@, f)]
  /\ arrived' = arrived + 1
  /\ UNCHANGED <<eventVars, running, sockFd, rxVars, stats, fate>>

Discard ==
  /\ sock.buf # <<>>
  /\ sock' = [sock EXCEPT !.buf = Tail(@)]
  /\ UNCHANGED <<eventVars, running, sockFd, rxVars, stats, arrived, fate>>
=============================================================================
