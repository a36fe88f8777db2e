------------------------------ MODULE IpcBridge ------------------------------
(***************************************************************************)
(* IPCBridgeServiceSWC: the SOC's end of the link to the MCU.  One thread  *)
(* is inside Run(), one calls Shutdown(), and clients queue messages and   *)
(* SPI frames.  Nobody subscribes to the services here, so one call of     *)
(* service discovery is one step (SignalSubscription has its callbacks).   *)
(*                                                                         *)
(* Control points of Run():                                                *)
(*   init, start    before Init() and before running_ is set               *)
(*   loop           about to test running_                                 *)
(*   handle         in the switch over the connection state                *)
(*   offer, beat    in HandleHandshake, connected: offering the services;  *)
(*                  about to restart the heartbeat                         *)
(*   resetLow, resetHigh, rehandshake   in HandleError                     *)
(*   drain          in HandleNormalOperation, about to empty the SPI queue *)
(*   ended          Run() has returned                                     *)
(* and of Shutdown(): idle, stopOffer, release, done.                      *)
(***************************************************************************)
EXTENDS Naturals

CONSTANTS
  Services,            (* kServiceCatalog                                      *)
  HandshakeMin,        (* 100 ms: the simulated MCU acknowledges later         *)
  HandshakeTimeout,    (* kHandshakeTimeoutMs                                  *)
  HeartbeatInterval,   (* kHeartbeatIntervalMs                                 *)
  HeartbeatTimeout,    (* kHeartbeatTimeoutMs                                  *)
  MaxQueue             (* Bound on what the clients leave in a queue.          *)

ASSUME TimesAssumption ==
  /\ {HandshakeMin, HandshakeTimeout, HeartbeatInterval, HeartbeatTimeout} \subseteq Nat
  /\ HandshakeMin < HandshakeTimeout
  /\ HeartbeatInterval < HeartbeatTimeout
ASSUME MaxQueueAssumption == MaxQueue \in Nat

VARIABLES
  connectionState,   (* connectionState_                                       *)
  running,           (* running_                                               *)
  socResetN,         (* gpioState_[kSocResetN]                                 *)
  socReady,          (* gpioState_[kSocReady]                                  *)
  spiTxQueue,        (* how many frames spiTxQueue_ holds                      *)
  ethTxQueue,        (* how many messages ethTxQueue_ holds                    *)
  sending,           (* clients in SendSomeIpMessage, past the state test *)
  networkHandle,     (* whether networkHandle_ holds kEthIPC awake             *)
  offered,           (* offeredServices_ of service discovery                  *)
  sinceHandshake,    (* now() - handshakeStartTime_, up to the timeout and one *)
  sinceHeartbeat,    (* now() - lastHeartbeatTime_, up to the timeout and one  *)
  runPc,             (* control point of the thread in Run()                   *)
  shutdownPc,        (* control point of the thread in Shutdown()              *)
  sinceState,        (* history: time since connectionState last changed, up
                        to the longer timeout and one                          *)
  toOffer,           (* services OfferIpcServices has still to offer           *)
  toStop             (* services StopIpcServices has still to withdraw         *)

gpio == <<socResetN, socReady>>
queues == <<spiTxQueue, ethTxQueue, sending>>
clocks == <<sinceHandshake, sinceHeartbeat>>
link == <<connectionState, sinceState>>
shutdownVars == <<shutdownPc, toStop>>
vars == <<link, running, gpio, queues, networkHandle, offered, clocks,
          runPc, shutdownVars, toOffer>>

LongestTimeout == IF HandshakeTimeout > HeartbeatTimeout THEN HandshakeTimeout
                                                        ELSE HeartbeatTimeout

IpcConnectionState == {"kOffline", "kHandshake", "kNormal", "kError", "kReset"}

TypeOK ==
  /\ connectionState \in IpcConnectionState
  /\ sinceState \in 0..LongestTimeout + 1
  /\ running \in BOOLEAN
  /\ socResetN \in BOOLEAN /\ socReady \in BOOLEAN
  /\ spiTxQueue \in 0..MaxQueue
  /\ ethTxQueue \in 0..MaxQueue /\ sending \in 0..MaxQueue - ethTxQueue
  /\ networkHandle \in BOOLEAN
  /\ offered \subseteq Services
  /\ sinceHandshake \in 0..HandshakeTimeout + 1
  /\ sinceHeartbeat \in 0..HeartbeatTimeout + 1
  /\ runPc \in {"init", "start", "loop", "handle", "offer", "beat", "resetLow",
                "resetHigh", "rehandshake", "drain", "ended"}
  /\ shutdownPc \in {"idle", "stopOffer", "release", "done"}
  /\ toOffer \subseteq Services
  /\ toStop \subseteq Services

Init ==
  /\ connectionState = "kOffline" /\ sinceState = 0
  /\ running = FALSE
  /\ socResetN = FALSE /\ socReady = FALSE
  /\ spiTxQueue = 0 /\ ethTxQueue = 0 /\ sending = 0
  /\ networkHandle = FALSE
  /\ offered = {}
  /\ sinceHandshake = 0 /\ sinceHeartbeat = 0
  /\ runPc = "init"
  /\ shutdownPc = "idle"
  /\ toOffer = {} /\ toStop = {}
-----------------------------------------------------------------------------
(* Run(), preceded by Init() on the same thread. *)

RunGoto(from, to) == runPc = from /\ runPc' = to

TransitionState(state) == connectionState' = state /\ sinceState' = 0

(* Init(): network management has registered kEthIPC, so the handle is valid. *)
SwcInit ==
  /\ RunGoto("init", "start")
  /\ networkHandle' = TRUE
  /\ socReady' = TRUE
  /\ TransitionState("kHandshake")
  /\ sinceHandshake' = 0
  /\ UNCHANGED <<running, socResetN, queues, offered, sinceHeartbeat, shutdownVars, toOffer>>

Run ==
  /\ RunGoto("start", "loop")
  /\ running' = TRUE
  /\ UNCHANGED <<link, gpio, queues, networkHandle, offered, clocks,
                 shutdownVars, toOffer>>

(* The head of the loop; the checkpoint it reports is left out. *)
RunLoop ==
  /\ RunGoto("loop", IF running THEN "handle" ELSE "ended")
  /\ UNCHANGED <<link, running, gpio, queues, networkHandle, offered, clocks,
                 shutdownVars, toOffer>>

(* Mutants: the acknowledgement is tested before the timeout; the timeout is  *)
(* not tested.                                                                *)
HandleHandshakeAckFirst ==
  /\ connectionState = "kHandshake"
  /\ \/ /\ sinceHandshake > HandshakeMin /\ socReady
        /\ RunGoto("handle", "offer")
        /\ TransitionState("kNormal")
        /\ toOffer' = Services
     \/ /\ sinceHandshake > HandshakeTimeout /\ ~socReady
        /\ RunGoto("handle", "loop")
        /\ TransitionState("kError")
        /\ UNCHANGED toOffer
     \/ /\ sinceHandshake <= HandshakeTimeout
        /\ sinceHandshake <= HandshakeMin \/ ~socReady
        /\ RunGoto("handle", "loop")
        /\ UNCHANGED <<link, toOffer>>
  /\ UNCHANGED <<running, gpio, queues, networkHandle, offered, clocks, shutdownVars>>

HandleHandshakeNoTimeout ==
  /\ connectionState = "kHandshake"
  /\ \/ /\ sinceHandshake \in HandshakeMin + 1..HandshakeTimeout
        /\ RunGoto("handle", "offer")
        /\ TransitionState("kNormal")
        /\ toOffer' = Services
     \/ /\ sinceHandshake \notin HandshakeMin + 1..HandshakeTimeout
        /\ RunGoto("handle", "loop")
        /\ UNCHANGED <<link, toOffer>>
  /\ UNCHANGED <<running, gpio, queues, networkHandle, offered, clocks, shutdownVars>>

HandleHandshake ==
  /\ connectionState = "kHandshake"
  /\ \/ /\ sinceHandshake > HandshakeTimeout
        /\ RunGoto("handle", "loop")
        /\ TransitionState("kError")
        /\ UNCHANGED toOffer
     \/ /\ sinceHandshake \in HandshakeMin + 1..HandshakeTimeout
        /\ socReady
        /\ RunGoto("handle", "offer")
        /\ TransitionState("kNormal")
        /\ toOffer' = Services
     \/ /\ sinceHandshake <= HandshakeTimeout
        /\ sinceHandshake <= HandshakeMin \/ ~socReady
        /\ RunGoto("handle", "loop")
        /\ UNCHANGED <<link, toOffer>>
  /\ UNCHANGED <<running, gpio, queues, networkHandle, offered, clocks, shutdownVars>>

(* A mutant: the loop stops before the last service. *)
OfferIpcServicesButOne ==
  /\ \E s \in toOffer : offered' = offered \cup {s} /\ toOffer' = toOffer \ {s}
  /\ RunGoto("offer", IF \E s \in Services : toOffer' = {s} THEN "beat" ELSE "offer")
  /\ UNCHANGED <<link, running, gpio, queues, networkHandle, clocks, shutdownVars>>

(* OfferService one after the other, in an order nobody sees. *)
OfferIpcServices ==
  /\ \E s \in toOffer : offered' = offered \cup {s} /\ toOffer' = toOffer \ {s}
  /\ RunGoto("offer", IF toOffer' = {} THEN "beat" ELSE "offer")
  /\ UNCHANGED <<link, running, gpio, queues, networkHandle, clocks, shutdownVars>>

StartHeartbeat ==
  /\ RunGoto("beat", "loop")
  /\ sinceHeartbeat' = 0
  /\ UNCHANGED <<link, running, gpio, queues, networkHandle, offered,
                 sinceHandshake, shutdownVars, toOffer>>

(* The heartbeat is refreshed by the SOC itself. *)
HandleNormalOperation ==
  /\ connectionState = "kNormal"
  /\ \/ /\ sinceHeartbeat > HeartbeatTimeout
        /\ RunGoto("handle", "loop")
        /\ TransitionState("kError")
        /\ UNCHANGED sinceHeartbeat
     \/ /\ sinceHeartbeat <= HeartbeatTimeout
        /\ RunGoto("handle", "drain")
        /\ sinceHeartbeat' = IF sinceHeartbeat > HeartbeatInterval THEN 0 ELSE sinceHeartbeat
        /\ UNCHANGED link
  /\ UNCHANGED <<running, gpio, queues, networkHandle, offered, sinceHandshake,
                 shutdownVars, toOffer>>

(* A mutant: the loop is never entered. *)
DrainNothing ==
  /\ RunGoto("drain", "loop")
  /\ UNCHANGED <<link, running, gpio, queues, networkHandle, offered,
                 clocks, shutdownVars, toOffer>>

DrainSpiQueue ==
  /\ RunGoto("drain", "loop")
  /\ spiTxQueue' = 0
  /\ UNCHANGED <<link, running, gpio, ethTxQueue, sending, networkHandle, offered,
                 clocks, shutdownVars, toOffer>>

(* The reset pulse, and what comes with every step of it. *)
AssertReset ==
  /\ RunGoto("resetLow", "resetHigh")
  /\ socResetN' = FALSE
  /\ UNCHANGED <<link, sinceHandshake>>

ReleaseReset ==
  /\ RunGoto("resetHigh", "rehandshake")
  /\ socResetN' = TRUE
  /\ UNCHANGED <<link, sinceHandshake>>

(* A mutant: the handshake clock is not restarted. *)
RehandshakeStaleClock ==
  /\ RunGoto("rehandshake", "loop")
  /\ TransitionState("kHandshake")
  /\ UNCHANGED <<socResetN, sinceHandshake>>

Rehandshake ==
  /\ RunGoto("rehandshake", "loop")
  /\ TransitionState("kHandshake")
  /\ sinceHandshake' = 0
  /\ UNCHANGED socResetN

(* The services stay offered. *)
HandleError ==
  /\ \/ /\ connectionState = "kError"
        /\ RunGoto("handle", "resetLow")
        /\ TransitionState("kReset")
        /\ UNCHANGED <<socResetN, sinceHandshake>>
     \/ AssertReset
     \/ ReleaseReset
     \/ Rehandshake
  /\ UNCHANGED <<running, socReady, queues, networkHandle, offered, sinceHeartbeat,
                 shutdownVars, toOffer>>
-----------------------------------------------------------------------------
(* Shutdown(), on a thread of its own once Init() has returned. *)

ShutdownGoto(from, to) == shutdownPc = from /\ shutdownPc' = to

Shutdown ==
  /\ runPc # "init"
  /\ ShutdownGoto("idle", "stopOffer")
  /\ running' = FALSE
  /\ toStop' = Services
  /\ UNCHANGED <<link, gpio, queues, networkHandle, offered, clocks, runPc, toOffer>>

StopIpcServices ==
  /\ \E s \in toStop : offered' = offered \ {s} /\ toStop' = toStop \ {s}
  /\ ShutdownGoto("stopOffer", IF toStop' = {} THEN "release" ELSE "stopOffer")
  /\ UNCHANGED <<link, running, gpio, queues, networkHandle, clocks, runPc, toOffer>>

ReleaseNetwork ==
  /\ ShutdownGoto("release", "done")
  /\ networkHandle' = FALSE
  /\ UNCHANGED <<link, running, gpio, queues, offered, clocks, runPc, toOffer, toStop>>
-----------------------------------------------------------------------------
(* Clients and time. *)

(* SendSomeIpMessage: outside kNormal the message is refused, which changes   *)
(* nothing; else it is queued under the lock, in whatever state the link is   *)
(* by then.                                                                   *)
TestSomeIpMessage ==
  /\ connectionState = "kNormal" /\ ethTxQueue + sending < MaxQueue
  /\ sending' = sending + 1
  /\ UNCHANGED <<link, running, gpio, spiTxQueue, ethTxQueue, networkHandle, offered, clocks,
                 runPc, shutdownVars, toOffer>>

PushSomeIpMessage ==
  /\ sending > 0 /\ sending' = sending - 1
  /\ ethTxQueue' = ethTxQueue + 1
  /\ UNCHANGED <<link, running, gpio, spiTxQueue, networkHandle, offered, clocks,
                 runPc, shutdownVars, toOffer>>

SendSpiFrame ==
  /\ spiTxQueue < MaxQueue
  /\ spiTxQueue' = spiTxQueue + 1
  /\ UNCHANGED <<link, running, gpio, ethTxQueue, sending, networkHandle, offered, clocks,
                 runPc, shutdownVars, toOffer>>

(* A client may drive every pin, SOC_RESET_N too and during a reset; the pins *)
(* that nothing reads are left out.                                           *)
SetGpioSignal ==
  /\ \/ socReady' \in BOOLEAN /\ UNCHANGED socResetN
     \/ socResetN' \in BOOLEAN /\ UNCHANGED socReady
  /\ UNCHANGED <<link, running, queues, networkHandle, offered, clocks,
                 runPc, shutdownVars, toOffer>>

Later(clock, limit) == IF clock > limit THEN clock ELSE clock + 1

Tick ==
  /\ sinceHandshake' = Later(sinceHandshake, HandshakeTimeout)
  /\ sinceHeartbeat' = Later(sinceHeartbeat, HeartbeatTimeout)
  /\ sinceState' = Later(sinceState, LongestTimeout)
  /\ UNCHANGED <<connectionState, running, gpio, queues, networkHandle, offered, runPc,
                 shutdownVars, toOffer>>

RunThread ==
  \/ SwcInit \/ Run \/ RunLoop \/ HandleHandshake \/ OfferIpcServices \/ StartHeartbeat
  \/ HandleNormalOperation \/ DrainSpiQueue \/ HandleError

ShutdownThread == StopIpcServices \/ ReleaseNetwork

Clients == TestSomeIpMessage \/ PushSomeIpMessage \/ SendSpiFrame \/ SetGpioSignal

Next == RunThread \/ Shutdown \/ ShutdownThread \/ Clients \/ Tick

Spec == Init /\ [][Next]_vars

(* Both threads are scheduled, and time passes. *)
FairSpec == Spec /\ WF_vars(RunThread) /\ WF_vars(ShutdownThread) /\ WF_vars(Tick)
-----------------------------------------------------------------------------
(* A peer that sees the link in kNormal finds every service, through any      *)
(* number of errors and recoveries, except while they are being offered for   *)
(* the first time and once Shutdown() withdraws them.                         *)
NormalMeansOffered ==
  connectionState = "kNormal" /\ runPc # "offer" /\ shutdownPc = "idle" => offered = Services

(* The clocks are set by other statements than the state: even so the link is *)
(* never declared lost before a whole timeout has passed since the handshake  *)
(* began or the link became normal, whatever came before.                     *)
ErrorNeedsTimeout ==
  [][connectionState # "kError" /\ connectionState' = "kError" =>
       sinceState > IF connectionState = "kHandshake" THEN HandshakeTimeout
                                                     ELSE HeartbeatTimeout]_vars

(* The link becomes normal only within the window of the handshake in which   *)
(* it is, measured from its beginning, and a handshake that has lasted beyond *)
(* the timeout is given up the next time Run() looks at it: no client, error  *)
(* or Shutdown() lengthens it.                                                *)
HandshakeIsTimed ==
  [][connectionState = "kHandshake" =>
       /\ connectionState' = "kNormal" => sinceState \in HandshakeMin + 1..HandshakeTimeout
       /\ runPc = "handle" /\ runPc' # "handle" /\ sinceState > HandshakeTimeout
            => connectionState' = "kError"]_vars

(* A handshake ends: the link becomes normal, or the MCU is reset.            *)
HandshakeEnds ==
  connectionState = "kHandshake" /\ runPc = "loop"
    ~> (connectionState \in {"kNormal", "kError"} \/ runPc = "ended")

(* A frame queued for SPI is sent while the link stays normal.                *)
SpiQueueDrains ==
  spiTxQueue > 0 /\ connectionState = "kNormal"
    ~> (spiTxQueue = 0 \/ connectionState # "kNormal" \/ runPc = "ended")
=============================================================================
