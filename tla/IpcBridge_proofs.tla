-------------------------- MODULE IpcBridge_proofs --------------------------
(***************************************************************************)
(* For any services, timeouts and queue bounds: what a peer finds in       *)
(* kNormal, and that no link is given up early and no handshake late.      *)
(***************************************************************************)
EXTENDS IpcBridge, TLAPS

(* While the services are being offered, each is on offer or still to come. *)
OfferInv ==
  shutdownPc = "idle" /\ connectionState = "kNormal" =>
    IF runPc = "offer" THEN Services \subseteq offered \cup toOffer ELSE Services \subseteq offered

(* The clock of the state that is tested has not run longer than the state.   *)
(* The heartbeat's is restarted only after the services are on offer.         *)
ClockInv ==
  /\ connectionState = "kHandshake" => sinceHandshake <= sinceState
  /\ connectionState = "kNormal" /\ runPc \notin {"offer", "beat"} => sinceHeartbeat <= sinceState

Inv == TypeOK /\ OfferInv /\ ClockInv
-----------------------------------------------------------------------------
LEMMA Longest ==
  /\ LongestTimeout \in Nat
  /\ HandshakeTimeout <= LongestTimeout /\ HeartbeatTimeout <= LongestTimeout
  BY TimesAssumption DEF LongestTimeout

LEMMA InitInv == Init => Inv
  <1> SUFFICES ASSUME Init PROVE Inv
    OBVIOUS
  <1>1. TypeOK
    <2>1. /\ running \in BOOLEAN /\ socResetN \in BOOLEAN /\ socReady \in BOOLEAN
          /\ networkHandle \in BOOLEAN
      BY Zenon DEF Init
    <2>2. /\ sinceState \in 0..LongestTimeout + 1
          /\ spiTxQueue \in 0..MaxQueue /\ ethTxQueue \in 0..MaxQueue
          /\ sending \in 0..MaxQueue - ethTxQueue
          /\ sinceHandshake \in 0..HandshakeTimeout + 1
          /\ sinceHeartbeat \in 0..HeartbeatTimeout + 1
      BY Longest, TimesAssumption, MaxQueueAssumption DEF Init
    <2> QED BY <2>1, <2>2 DEF Init, TypeOK, IpcConnectionState
  <1>2. OfferInv /\ ClockInv
    BY DEF Init, OfferInv, ClockInv
  <1> QED BY <1>1, <1>2 DEF Inv
-----------------------------------------------------------------------------
(* A step that leaves the link, the offers and the clocks alone, and takes    *)
(* Run() out of no point that excuses it.                                     *)
LEMMA QuietKeepsLink ==
  ASSUME Inv, UNCHANGED <<link, clocks, offered, toOffer, shutdownPc>>,
         runPc \in {"offer", "beat"} => runPc' = runPc,
         runPc' = "offer" => runPc = "offer"
  PROVE  OfferInv' /\ ClockInv'
  BY DEF Inv, OfferInv, ClockInv, link, clocks

LEMMA LoopInv == ASSUME Inv, Run \/ RunLoop \/ DrainSpiQueue PROVE Inv'
  <1>1. TypeOK'
    <2>1. CASE Run
      <3>1. running' \in BOOLEAN
        BY <2>1, Zenon DEF Run
      <3> QED BY <2>1, <3>1 DEF Inv, TypeOK, Run, RunGoto, link, gpio, queues, clocks, shutdownVars
    <2>2. CASE RunLoop
      <3>1. runPc' \in {"handle", "ended"}
        BY <2>2 DEF RunLoop, RunGoto
      <3> QED BY <2>2, <3>1 DEF Inv, TypeOK, RunLoop, link, gpio, queues, clocks, shutdownVars
    <2>3. CASE DrainSpiQueue
      BY <2>3, MaxQueueAssumption DEF Inv, TypeOK, DrainSpiQueue, RunGoto, link, gpio, clocks,
                                      shutdownVars
    <2> QED BY <2>1, <2>2, <2>3
  <1>2. OfferInv' /\ ClockInv'
    BY QuietKeepsLink DEF Run, RunLoop, DrainSpiQueue, RunGoto, shutdownVars
  <1> QED BY <1>1, <1>2 DEF Inv

LEMMA SwcInitInv == ASSUME Inv, SwcInit PROVE Inv'
  <1>1. TypeOK'
    BY Longest, TimesAssumption DEF Inv, TypeOK, SwcInit, RunGoto, TransitionState, IpcConnectionState,
                                    queues, shutdownVars
  <1>2. OfferInv' /\ ClockInv'
    BY DEF OfferInv, ClockInv, SwcInit, TransitionState
  <1> QED BY <1>1, <1>2 DEF Inv

LEMMA HandshakeInv == ASSUME Inv, HandleHandshake PROVE Inv'
  <1>1. TypeOK'
    BY Longest DEF Inv, TypeOK, HandleHandshake, RunGoto, TransitionState, IpcConnectionState, link,
                   gpio, queues, clocks, shutdownVars
  <1>2. OfferInv' /\ ClockInv'
    BY DEF Inv, OfferInv, ClockInv, HandleHandshake, RunGoto, TransitionState, link, clocks,
           shutdownVars
  <1> QED BY <1>1, <1>2 DEF Inv

LEMMA OffersInv == ASSUME Inv, OfferIpcServices PROVE Inv'
  <1>1. TypeOK'
    BY DEF Inv, TypeOK, OfferIpcServices, RunGoto, link, gpio, queues, clocks, shutdownVars
  <1>2. OfferInv'
    BY DEF Inv, TypeOK, OfferInv, OfferIpcServices, RunGoto, link, shutdownVars
  <1>3. ClockInv'
    BY DEF Inv, ClockInv, OfferIpcServices, RunGoto, link, clocks
  <1> QED BY <1>1, <1>2, <1>3 DEF Inv

LEMMA HeartbeatInv == ASSUME Inv, StartHeartbeat PROVE Inv'
  <1>1. TypeOK'
    BY TimesAssumption DEF Inv, TypeOK, StartHeartbeat, RunGoto, link, gpio, queues, shutdownVars
  <1>2. OfferInv'
    BY DEF Inv, OfferInv, StartHeartbeat, RunGoto, link, shutdownVars
  <1>3. ClockInv'
    BY Longest DEF Inv, TypeOK, ClockInv, StartHeartbeat, RunGoto, link
  <1> QED BY <1>1, <1>2, <1>3 DEF Inv

LEMMA NormalInv == ASSUME Inv, HandleNormalOperation PROVE Inv'
  <1>1. TypeOK'
    BY Longest, TimesAssumption DEF Inv, TypeOK, HandleNormalOperation, RunGoto, TransitionState,
                                    IpcConnectionState, link, gpio, queues, shutdownVars
  <1>2. OfferInv'
    BY DEF Inv, OfferInv, HandleNormalOperation, RunGoto, TransitionState, link, shutdownVars
  <1>3. ClockInv'
    BY Longest DEF Inv, TypeOK, ClockInv, HandleNormalOperation, RunGoto, TransitionState, link
  <1> QED BY <1>1, <1>2, <1>3 DEF Inv

LEMMA ErrorInv == ASSUME Inv, HandleError PROVE Inv'
  <1>1. /\ link' = link \/ (connectionState' \in {"kReset", "kHandshake"} /\ sinceState' = 0)
        /\ sinceHandshake' \in {0, sinceHandshake}
        /\ runPc' \in {"resetLow", "resetHigh", "rehandshake", "loop"}
    BY DEF HandleError, AssertReset, ReleaseReset, Rehandshake, RunGoto, TransitionState, link
  <1>2. socResetN' \in BOOLEAN
    <2>1. socResetN \in BOOLEAN
      BY DEF Inv, TypeOK
    <2> QED BY <2>1, Zenon DEF HandleError, AssertReset, ReleaseReset, Rehandshake
  <1>3. TypeOK'
    BY <1>1, <1>2, Longest, TimesAssumption
       DEF Inv, TypeOK, HandleError, IpcConnectionState, link, queues, shutdownVars
  <1>4. OfferInv' /\ ClockInv'
    BY DEF Inv, OfferInv, ClockInv, HandleError, AssertReset, ReleaseReset, Rehandshake, RunGoto,
           TransitionState, link, shutdownVars
  <1> QED BY <1>3, <1>4 DEF Inv

LEMMA ShutdownInv == ASSUME Inv, Shutdown \/ ShutdownThread PROVE Inv'
  <1>1. TypeOK'
    <2>1. CASE Shutdown
      <3>1. running' \in BOOLEAN
        BY <2>1, Zenon DEF Shutdown
      <3> QED BY <2>1, <3>1 DEF Inv, TypeOK, Shutdown, ShutdownGoto, link, gpio, queues, clocks
    <2>2. CASE StopIpcServices
      BY <2>2 DEF Inv, TypeOK, StopIpcServices, ShutdownGoto, link, gpio, queues, clocks
    <2>3. CASE ReleaseNetwork
      <3>1. networkHandle' \in BOOLEAN
        BY <2>3, Zenon DEF ReleaseNetwork
      <3> QED BY <2>3, <3>1 DEF Inv, TypeOK, ReleaseNetwork, ShutdownGoto, link, gpio, queues, clocks
    <2> QED BY <2>1, <2>2, <2>3 DEF ShutdownThread
  <1>2. OfferInv'
    BY DEF OfferInv, Shutdown, ShutdownThread, StopIpcServices, ReleaseNetwork, ShutdownGoto
  <1>3. ClockInv'
    BY DEF Inv, ClockInv, Shutdown, ShutdownThread, StopIpcServices, ReleaseNetwork, link, clocks
  <1> QED BY <1>1, <1>2, <1>3 DEF Inv

LEMMA ClientsInv == ASSUME Inv, Clients \/ UNCHANGED vars PROVE Inv'
  <1>1. TypeOK'
    BY MaxQueueAssumption
       DEF Inv, TypeOK, Clients, TestSomeIpMessage, PushSomeIpMessage, SendSpiFrame, SetGpioSignal, link, gpio, queues,
           clocks, shutdownVars, vars
  <1>2. OfferInv' /\ ClockInv'
    BY QuietKeepsLink DEF Clients, TestSomeIpMessage, PushSomeIpMessage, SendSpiFrame, SetGpioSignal, shutdownVars, vars
  <1> QED BY <1>1, <1>2 DEF Inv

LEMMA TickInv == ASSUME Inv, Tick PROVE Inv'
  <1>1. /\ sinceHandshake' \in 0..HandshakeTimeout + 1
        /\ sinceHeartbeat' \in 0..HeartbeatTimeout + 1
        /\ sinceState' \in 0..LongestTimeout + 1
        /\ sinceHandshake <= sinceState => sinceHandshake' <= sinceState'
        /\ sinceHeartbeat <= sinceState => sinceHeartbeat' <= sinceState'
    BY Longest, TimesAssumption DEF Inv, TypeOK, Tick, Later
  <1>2. TypeOK'
    BY <1>1 DEF Inv, TypeOK, Tick, gpio, queues, shutdownVars
  <1>3. OfferInv' /\ ClockInv'
    BY <1>1 DEF Inv, OfferInv, ClockInv, Tick, shutdownVars
  <1> QED BY <1>2, <1>3 DEF Inv

LEMMA SpecInv == Spec => []Inv
  <1>1. Inv /\ [Next]_vars => Inv'
    BY LoopInv, SwcInitInv, HandshakeInv, OffersInv, HeartbeatInv, NormalInv, ErrorInv, ShutdownInv,
       ClientsInv, TickInv DEF Next, RunThread
  <1> QED BY <1>1, InitInv, PTL DEF Spec
-----------------------------------------------------------------------------
(* Type correctness of the bridge. *)
THEOREM BridgeTypes == Spec => []TypeOK
  BY SpecInv, PTL DEF Inv

(* In kNormal every service is on offer but while they are first being        *)
(* offered and once they are withdrawn, for any services and timeouts.        *)
THEOREM NormalOffers == Spec => []NormalMeansOffered
  <1>1. Inv => NormalMeansOffered
    BY DEF Inv, TypeOK, OfferInv, NormalMeansOffered
  <1> QED BY <1>1, SpecInv, PTL

(* The link is given up only after a whole timeout of the state it is in.     *)
THEOREM ErrorsTakeTime == Spec => ErrorNeedsTimeout
  <1>1. Inv /\ [Next]_vars =>
          (connectionState # "kError" /\ connectionState' = "kError" =>
             sinceState > IF connectionState = "kHandshake" THEN HandshakeTimeout
                                                            ELSE HeartbeatTimeout)
    <2> SUFFICES ASSUME Inv, [Next]_vars, connectionState # "kError", connectionState' = "kError"
                 PROVE  \/ connectionState = "kHandshake" /\ sinceState > HandshakeTimeout
                        \/ connectionState = "kNormal" /\ sinceState > HeartbeatTimeout
      OBVIOUS
    <2>1. HandleHandshake \/ HandleNormalOperation
      BY DEF Next, RunThread, SwcInit, Run, RunLoop, OfferIpcServices, StartHeartbeat, DrainSpiQueue,
             HandleError, AssertReset, ReleaseReset, Rehandshake, Shutdown, ShutdownThread,
             StopIpcServices, ReleaseNetwork, Clients, TestSomeIpMessage, PushSomeIpMessage, SendSpiFrame, SetGpioSignal,
             Tick, TransitionState, link, vars
    <2>2. CASE HandleHandshake
      BY <2>2, Longest, TimesAssumption
         DEF HandleHandshake, TransitionState, Inv, TypeOK, ClockInv, link
    <2>3. CASE HandleNormalOperation
      BY <2>3, Longest, TimesAssumption
         DEF HandleNormalOperation, RunGoto, TransitionState, Inv, TypeOK, ClockInv, link
    <2> QED BY <2>1, <2>2, <2>3
  <1> QED BY <1>1, SpecInv, PTL DEF Spec, ErrorNeedsTimeout
-----------------------------------------------------------------------------
(* In a handshake the clock that is tested is as old as the state, whoever    *)
(* restarted either, as far as it counts.                                     *)
HandshakeClock ==
  connectionState = "kHandshake" =>
    sinceHandshake = IF sinceState > HandshakeTimeout THEN HandshakeTimeout + 1 ELSE sinceState

(* The clock and the state are restarted together and grow together. *)
LEMMA HandshakeClockStep ==
  ASSUME TypeOK, HandshakeClock, [Next]_vars
  PROVE  HandshakeClock'
  <1> USE DEF HandshakeClock
  <1>1. CASE SwcInit
    BY <1>1, TimesAssumption DEF SwcInit, TransitionState
  <1>2. CASE HandleHandshake \/ HandleNormalOperation
    BY <1>2 DEF HandleHandshake, HandleNormalOperation, TransitionState, link, clocks
  <1>3. CASE HandleError
    BY <1>3, TimesAssumption
       DEF HandleError, AssertReset, ReleaseReset, Rehandshake, TransitionState, link
  <1>4. CASE Tick
    <2>1. sinceState \in Nat /\ sinceHandshake \in Nat /\ HandshakeTimeout \in Nat
          /\ LongestTimeout \in Nat /\ HandshakeTimeout <= LongestTimeout
          /\ sinceHandshake <= HandshakeTimeout + 1
      BY Longest, TimesAssumption DEF TypeOK
    <2>2. /\ connectionState' = connectionState
          /\ sinceHandshake' = IF sinceHandshake > HandshakeTimeout THEN sinceHandshake
                                                                   ELSE sinceHandshake + 1
          /\ sinceState' = IF sinceState > LongestTimeout THEN sinceState ELSE sinceState + 1
      BY <1>4 DEF Tick, Later
    <2> QED BY <2>1, <2>2
  <1>5. CASE UNCHANGED <<link, sinceHandshake>>
    BY <1>5 DEF link
  <1>6. CASE Run \/ RunLoop \/ OfferIpcServices \/ StartHeartbeat \/ DrainSpiQueue
    BY <1>5, <1>6 DEF Run, RunLoop, OfferIpcServices, StartHeartbeat, DrainSpiQueue, clocks
  <1>7. CASE Shutdown \/ ShutdownThread \/ Clients \/ UNCHANGED vars
    BY <1>5, <1>7 DEF Shutdown, ShutdownThread, StopIpcServices, ReleaseNetwork, Clients,
                      TestSomeIpMessage, PushSomeIpMessage, SendSpiFrame, SetGpioSignal, clocks, vars
  <1> QED BY <1>1, <1>2, <1>3, <1>4, <1>6, <1>7 DEF Next, RunThread

(* The window and the timeout of the handshake hold for any timeouts, queues  *)
(* and services, and any number of resets.                                    *)
THEOREM HandshakesAreTimed == Spec => HandshakeIsTimed
  <1>1. Init => HandshakeClock
    BY DEF Init, HandshakeClock
  <1>2. TypeOK /\ HandshakeClock /\ [Next]_vars => HandshakeClock'
    BY HandshakeClockStep
  <1>3. ASSUME TypeOK, HandshakeClock, [Next]_vars, connectionState = "kHandshake"
        PROVE  /\ connectionState' = "kNormal" => sinceState \in HandshakeMin + 1..HandshakeTimeout
               /\ runPc = "handle" /\ runPc' # "handle" /\ sinceState > HandshakeTimeout
                    => connectionState' = "kError"
    <2>1. CASE HandleHandshake
      <3>1. sinceState \in Nat /\ HandshakeTimeout \in Nat /\ HandshakeMin \in Nat
        BY <1>3, Longest, TimesAssumption DEF TypeOK
      <3>2. sinceHandshake <= HandshakeTimeout => sinceState = sinceHandshake
        BY <1>3, <3>1 DEF HandshakeClock
      <3>3. sinceState > HandshakeTimeout => sinceHandshake = HandshakeTimeout + 1
        BY <1>3 DEF HandshakeClock
      <3> QED BY <1>3, <2>1, <3>1, <3>2, <3>3 DEF HandleHandshake, RunGoto, TransitionState, link
    <2>2. CASE ~HandleHandshake
      <3>1. connectionState' # "kNormal" /\ (runPc = "handle" => runPc' = runPc)
        BY <1>3, <2>2
           DEF Next, RunThread, SwcInit, Run, RunLoop, OfferIpcServices, StartHeartbeat,
               HandleNormalOperation, DrainSpiQueue, HandleError, AssertReset, ReleaseReset,
               Rehandshake, Shutdown, ShutdownThread, StopIpcServices, ReleaseNetwork, Clients,
               TestSomeIpMessage, PushSomeIpMessage, SendSpiFrame, SetGpioSignal, Tick, RunGoto, TransitionState,
               link, vars
      <3> QED BY <3>1
    <2> QED BY <2>1, <2>2
  <1>4. TypeOK /\ HandshakeClock /\ [Next]_vars =>
          [connectionState = "kHandshake" =>
             /\ connectionState' = "kNormal" => sinceState \in HandshakeMin + 1..HandshakeTimeout
             /\ runPc = "handle" /\ runPc' # "handle" /\ sinceState > HandshakeTimeout
                  => connectionState' = "kError"]_vars
    BY <1>3
  <1> QED BY <1>1, <1>2, <1>4, BridgeTypes, PTL DEF Spec, HandshakeIsTimed
=============================================================================
