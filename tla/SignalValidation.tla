-------------------------- MODULE SignalValidation --------------------------
(***************************************************************************)
(* VehicleSignalServiceSWC: the E2E counter check on the frames of the     *)
(* MCU, what the SWC shows and tells of them, and its 100 ms loop.  The    *)
(* MCU numbers its frames modulo 2^8; a frame is delivered at once, lost,  *)
(* or delivered again.  Whenever the service is put on offer, as the IPC   *)
(* bridge does after every reset, the proxy's listener delivers a set of   *)
(* initial signals of its own, with the counter value 0.  OnSignalReceived *)
(* is called with the proxy's mutex_ held, so one delivery is one step.    *)
(***************************************************************************)
EXTENDS Naturals

CONSTANTS
  Modulus,     (* 2^8: the modulus of the counter                   *)
  FirstCounters,  (* what the MCU's counter may be at the first frame *)
  MaxLost      (* Bound on the frames lost in a behaviour.          *)

ASSUME ModulusAssumption == Modulus \in Nat /\ Modulus > 1
ASSUME FirstAssumption == FirstCounters \subseteq 0..Modulus - 1
ASSUME MaxLostAssumption == MaxLost \in Nat

VARIABLES
  mcuCounter,       (* e2eCounterValue of the frame the MCU sends next        *)
  lastSent,         (* the last frame, if it was delivered: it may come again *)
  lastE2ECounter,   (* lastE2ECounter_                                        *)
  e2eErrorCount,    (* e2eErrorCount_, up to the threshold and one            *)
  runPc,            (* of Run(): new, running, ended                          *)
  running,          (* running_                                               *)
  subscribed,       (* the proxy's callback_ is set                           *)
  accepted,         (* history: whether any frame has been accepted           *)
  behind,           (* history: frames the MCU has sent since the one that
                       latestSignals_ holds, or since the first, counted up
                       to MaxBehind                                           *)
  lost,             (* history: frames lost since then ...                    *)
  lostInAll         (* ... and since the beginning                            *)

swcVars == <<lastE2ECounter, e2eErrorCount>>
runVars == <<runPc, running, subscribed>>
histories == <<accepted, behind, lost, lostInAll>>
validationVars == <<mcuCounter, lastSent, swcVars, runVars, histories>>

Counter == 0..Modulus - 1
NoFrame == Modulus

(* Bound on behind, one past what OneTurnPerLoss allows. *)
MaxBehind == Modulus * MaxLost + 1
OneMoreBehind == IF behind < MaxBehind THEN behind + 1 ELSE behind

ValidationTypeOK ==
  /\ mcuCounter \in Counter
  /\ lastSent \in Counter \cup {NoFrame}
  /\ lastE2ECounter \in Counter
  /\ e2eErrorCount \in 0..4
  /\ runPc \in {"new", "running", "ended"}
  /\ running \in BOOLEAN
  /\ subscribed \in BOOLEAN
  /\ accepted \in BOOLEAN
  /\ behind \in 0..MaxBehind
  /\ lost \in 0..MaxLost
  /\ lostInAll \in 0..MaxLost

(* After Init(): the service is subscribed. *)
ValidationInit ==
  /\ mcuCounter \in FirstCounters
  /\ lastSent = NoFrame
  /\ lastE2ECounter = 0
  /\ e2eErrorCount = 0
  /\ runPc = "new"
  /\ running = FALSE
  /\ subscribed = TRUE
  /\ accepted = FALSE
  /\ behind = 0
  /\ lost = 0
  /\ lostInAll = 0
-----------------------------------------------------------------------------
(* A mutant: the expected counter is not cut to eight bits. *)
ExpectedCounterWide == lastE2ECounter + 1

ExpectedCounter == (lastE2ECounter + 1) % Modulus

(* A mutant: the exemption of the first frame reaches one frame further. *)
ValidateE2ELax(counter) == counter = ExpectedCounter \/ lastE2ECounter <= 1

ValidateE2E(counter) == counter = ExpectedCounter \/ lastE2ECounter = 0

(* The error is counted; from the fourth on, PHM is sent the checkpoint 0xFF, *)
(* which it takes for a heartbeat like any other.                             *)
OnInvalid ==
  /\ e2eErrorCount' = IF e2eErrorCount < 4 THEN e2eErrorCount + 1 ELSE 4
  /\ UNCHANGED lastE2ECounter

OnValid(counter) ==
  /\ lastE2ECounter' = counter
  /\ UNCHANGED e2eErrorCount

OnSignalReceived(counter) ==
  IF ValidateE2E(counter) THEN OnValid(counter) ELSE OnInvalid

(* The MCU's next frame is delivered. *)
Deliver ==
  /\ subscribed
  /\ OnSignalReceived(mcuCounter)
  /\ mcuCounter' = (mcuCounter + 1) % Modulus
  /\ lastSent' = mcuCounter
  /\ IF ValidateE2E(mcuCounter)
     THEN accepted' = TRUE /\ behind' = 0 /\ lost' = 0
     ELSE accepted' = accepted /\ behind' = OneMoreBehind /\ lost' = lost
  /\ UNCHANGED <<runVars, lostInAll>>

Lose ==
  /\ subscribed /\ lostInAll < MaxLost
  /\ mcuCounter' = (mcuCounter + 1) % Modulus
  /\ lastSent' = NoFrame
  /\ behind' = OneMoreBehind
  /\ lost' = lost + 1
  /\ lostInAll' = lostInAll + 1
  /\ UNCHANGED <<swcVars, runVars, accepted>>

(* The frame delivered last is delivered once more. *)
Repeat ==
  /\ subscribed /\ lastSent # NoFrame
  /\ OnSignalReceived(lastSent)
  /\ lastSent' = NoFrame
  /\ IF ValidateE2E(lastSent)
     THEN accepted' = TRUE /\ behind' = 0 /\ lost' = 0
     ELSE UNCHANGED <<accepted, behind, lost>>
  /\ UNCHANGED <<mcuCounter, runVars, lostInAll>>

(* The service is put on offer: the listener delivers its initial signals.    *)
(* They pass the check after the counter values 0 and Modulus - 1, and count  *)
(* as an error after any other.  The MCU has not sent them.                   *)
Announce ==
  /\ subscribed
  /\ OnSignalReceived(0)
  /\ UNCHANGED <<mcuCounter, lastSent, runVars, histories>>

RunBegins ==
  /\ runPc = "new" /\ runPc' = "running"
  /\ running' = TRUE
  /\ UNCHANGED subscribed
  /\ UNCHANGED <<mcuCounter, lastSent, swcVars, histories>>

(* The loop, every 100 ms, until running_ is cleared. *)
RunLoop ==
  /\ runPc = "running"
  /\ \/ running /\ UNCHANGED runPc
     \/ ~running /\ runPc' = "ended"
  /\ UNCHANGED <<mcuCounter, lastSent, swcVars, running, subscribed, histories>>

(* Shutdown() clears running_ and unsubscribes; a frame between the two is    *)
(* one before both.                                                           *)
Shutdown ==
  /\ running' = FALSE
  /\ subscribed' = FALSE
  /\ UNCHANGED <<mcuCounter, lastSent, swcVars, runPc, histories>>

ValidationNext == Deliver \/ Lose \/ Repeat \/ Announce \/ RunBegins \/ RunLoop \/ Shutdown

ValidationSpec == ValidationInit /\ [][ValidationNext]_validationVars

(* The MCU goes on sending, and Run() is scheduled. *)
FairValidationSpec == ValidationSpec /\ WF_validationVars(Deliver) /\ WF_validationVars(RunLoop)
-----------------------------------------------------------------------------
(* A lost frame costs at most one turn of the counter: what the SWC shows is  *)
(* never further behind the MCU than a whole turn per frame lost since, with  *)
(* repeated frames and initial signals in between or not.                     *)
OneTurnPerLoss == behind <= Modulus * lost

(* After any loss the SWC finds its way back: it shows the MCU's newest frame *)
(* again, unless it unsubscribes.                                             *)
Resynchronises == behind > 0 ~> behind = 0 \/ ~subscribed

(* A gap the SWC does not count as an error is a whole turn of the counter,   *)
(* or follows the counter value 0.                                            *)
GapIsCounted ==
  [][accepted /\ behind > 0 /\ behind' = 0 /\ mcuCounter' # mcuCounter =>
       behind % Modulus = 0 \/ lastE2ECounter = 0]_validationVars
=============================================================================
