------------------------------ MODULE TimeSync ------------------------------
(***************************************************************************)
(* ara::tsync: the time bases, the providers that set and correct them     *)
(* store by store.  A provider is a thread; it sets one time base only.    *)
(* Times are whole nanoseconds in the histories and TimePoints in the      *)
(* code.  The consumers change nothing: GetCurrentTime reads system_clock, *)
(* whatever the base holds.                                                *)
(*                                                                         *)
(* Control points of a provider:                                           *)
(*   idle         between calls                                            *)
(*   setNanos, setStatus   in SetTime: about to store nanoSeconds; about   *)
(*                to mark the base as synchronized                         *)
(*   loadNanos, storeSeconds, storeNanos   in ApplyCorrection              *)
(***************************************************************************)
EXTENDS Integers

CONSTANTS
  NanosPerSecond,   (* 1000000000                                             *)
  Word,             (* 2^32: the modulus of uint32_t                          *)
  Providers,        (* the providers ...                                      *)
  BaseOf,           (* ... and the time base of each                          *)
  StartTime,        (* system_clock when the process starts                   *)
  SetTimes,         (* the times a provider sets                              *)
  Corrections,      (* the corrections it applies                             *)
  MaxCalls          (* Bound on the calls of one behaviour.                   *)

TimeBaseId == {"kSystemTime", "kVehicleTime", "kGpsTime", "kLocalMono"}
SyncStatus == {"kSynchronized", "kSyncing", "kLostSync", "kNotSupported"}

ASSUME UnitsAssumption ==
  NanosPerSecond \in Nat \ {0} /\ Word \in Nat /\ Word >= NanosPerSecond
ASSUME ProvidersAssumption == BaseOf \in [Providers -> TimeBaseId]
ASSUME TimesAssumption ==
  /\ StartTime \in Nat /\ SetTimes \subseteq Nat /\ MaxCalls \in Nat
  /\ Corrections \subseteq Int

VARIABLES
  epochSeconds, nanoSeconds, syncStatus,   (* the atomics of each time base     *)
  pc,            (* control point of each provider                              *)
  arg,           (* the time it sets, or the time it has computed               *)
  kept,          (* history: the time each base was set to, plus the
                    corrections since                                           *)
  calls          (* how many calls providers have made                          *)

baseVars == <<epochSeconds, nanoSeconds, syncStatus>>
callVars == <<pc, arg, kept, calls>>
timeVars == <<baseVars, callVars>>

(* C++ division truncates: the quotient of a negative time is rounded up, and *)
(* its remainder, which is negative, wraps around in uint32_t.                *)
Quotient(t) == IF t >= 0 THEN t \div NanosPerSecond ELSE -((-t) \div NanosPerSecond)
Remainder(t) == t - NanosPerSecond * Quotient(t)

ToTime(seconds, nanos) == seconds * NanosPerSecond + nanos

FromChronoTimePoint(t) == [seconds |-> Quotient(t), nanoseconds |-> Remainder(t) % Word]

ToChronoTimePoint(tp) == ToTime(tp.seconds, tp.nanoseconds)

Stored(b) == [seconds |-> epochSeconds[b], nanoseconds |-> nanoSeconds[b]]

TimeTypeOK ==
  /\ epochSeconds \in [TimeBaseId -> Int]
  /\ nanoSeconds \in [TimeBaseId -> 0..Word - 1]
  /\ syncStatus \in [TimeBaseId -> SyncStatus]
  /\ pc \in [Providers -> {"idle", "setNanos", "setStatus",
                           "loadNanos", "storeSeconds", "storeNanos"}]
  /\ arg \in [Providers -> Int]
  /\ kept \in [TimeBaseId -> Int]
  /\ calls \in 0..MaxCalls

(* Every base begins at the system's clock; only the system time is synchronized. *)
TimeInit ==
  /\ epochSeconds = [b \in TimeBaseId |-> Quotient(StartTime)]
  /\ nanoSeconds = [b \in TimeBaseId |-> Remainder(StartTime)]
  /\ syncStatus = [b \in TimeBaseId |->
                     IF b = "kSystemTime" THEN "kSynchronized" ELSE "kSyncing"]
  /\ pc = [p \in Providers |-> "idle"]
  /\ arg = [p \in Providers |-> 0]
  /\ kept = [b \in TimeBaseId |-> StartTime]
  /\ calls = 0
-----------------------------------------------------------------------------
Goto(p, from, to) == pc[p] = from /\ pc' = [pc EXCEPT ![p] = to]

Call(p, to) == Goto(p, "idle", to) /\ calls < MaxCalls /\ calls' = calls + 1

StoreSeconds(p, seconds) == epochSeconds' = [epochSeconds EXCEPT ![BaseOf[p]] = seconds]

StoreNanos(p, nanos) == nanoSeconds' = [nanoSeconds EXCEPT ![BaseOf[p]] = nanos % Word]

(* A mutant: the status is stored before the nanoseconds. *)
SetTimeNanosLast(p) ==
  /\ Goto(p, "setNanos", "setStatus")
  /\ syncStatus' = [syncStatus EXCEPT ![BaseOf[p]] = "kSynchronized"]
  /\ UNCHANGED <<epochSeconds, nanoSeconds, arg, kept, calls>>

(* SetTime of a converted time: the seconds, then the nanoseconds, then the status. *)
SetTime(p, t) ==
  /\ Call(p, "setNanos")
  /\ arg' = [arg EXCEPT ![p] = t]
  /\ kept' = [kept EXCEPT ![BaseOf[p]] = t]
  /\ StoreSeconds(p, FromChronoTimePoint(t).seconds)
  /\ UNCHANGED <<nanoSeconds, syncStatus>>

SetTimeNanos(p) ==
  /\ Goto(p, "setNanos", "setStatus")
  /\ StoreNanos(p, FromChronoTimePoint(arg[p]).nanoseconds)
  /\ UNCHANGED <<epochSeconds, syncStatus, arg, kept, calls>>

SetTimeStatus(p) ==
  /\ Goto(p, "setStatus", "idle")
  /\ syncStatus' = [syncStatus EXCEPT ![BaseOf[p]] = "kSynchronized"]
  /\ UNCHANGED <<epochSeconds, nanoSeconds, arg, kept, calls>>

SetSyncStatus(p, status) ==
  /\ Call(p, "idle")
  /\ syncStatus' = [syncStatus EXCEPT ![BaseOf[p]] = status]
  /\ UNCHANGED <<epochSeconds, nanoSeconds, arg, kept>>

(* ApplyCorrection: two loads, a sum, two stores. *)
ApplyCorrection(p, correction) ==
  /\ Call(p, "loadNanos")
  /\ arg' = [arg EXCEPT ![p] = ToTime(epochSeconds[BaseOf[p]], correction)]
  /\ kept' = [kept EXCEPT ![BaseOf[p]] = @ + correction]
  /\ UNCHANGED baseVars

ApplyCorrectionSum(p) ==
  /\ Goto(p, "loadNanos", "storeSeconds")
  /\ arg' = [arg EXCEPT ![p] = @ + nanoSeconds[BaseOf[p]]]
  /\ UNCHANGED <<baseVars, kept, calls>>

(* A mutant: the carry into the seconds is forgotten. *)
ApplyCorrectionNoCarry(p) ==
  /\ Goto(p, "storeSeconds", "storeNanos")
  /\ UNCHANGED <<baseVars, arg, kept, calls>>

ApplyCorrectionSeconds(p) ==
  /\ Goto(p, "storeSeconds", "storeNanos")
  /\ StoreSeconds(p, Quotient(arg[p]))
  /\ UNCHANGED <<nanoSeconds, syncStatus, arg, kept, calls>>

ApplyCorrectionNanos(p) ==
  /\ Goto(p, "storeNanos", "idle")
  /\ StoreNanos(p, Remainder(arg[p]))
  /\ UNCHANGED <<epochSeconds, syncStatus, arg, kept, calls>>
-----------------------------------------------------------------------------
SetTimeStep(p) ==
  (\E t \in SetTimes : SetTime(p, t)) \/ SetTimeNanos(p) \/ SetTimeStatus(p)

CorrectionStep(p) ==
  \/ \E correction \in Corrections : ApplyCorrection(p, correction)
  \/ ApplyCorrectionSum(p) \/ ApplyCorrectionSeconds(p) \/ ApplyCorrectionNanos(p)

ProviderStep(p) ==
  SetTimeStep(p) \/ CorrectionStep(p) \/ SetSyncStatus(p, "kLostSync")

TimeNext == \E p \in Providers : ProviderStep(p)

TimeSpec == TimeInit /\ [][TimeNext]_timeVars
-----------------------------------------------------------------------------
Time(b) == ToChronoTimePoint(Stored(b))
Busy(b) == \E p \in Providers : BaseOf[p] = b /\ pc[p] # "idle"

(* The arrangement of the design, and times after 1970: without them          *)
(* corrections do get lost.                                                   *)
OneProviderPerBase == \A p, q \in Providers : BaseOf[p] = BaseOf[q] => p = q
After1970 == \A b \in TimeBaseId : kept[b] >= 0

(* With one provider per base and times after 1970, no correction is lost and *)
(* no carry is forgotten: between calls a base holds the time it was set to   *)
(* and every correction since, split into seconds and less than a second.     *)
CorrectionsAddUp ==
  \A b \in TimeBaseId :
    ~Busy(b) => Time(b) = kept[b] /\ nanoSeconds[b] < NanosPerSecond

(* A base is trusted again only with a whole time: it becomes synchronized    *)
(* when both halves of the time it is set to have been stored.                *)
TrustedTimeIsWhole ==
  [][\A b \in TimeBaseId :
       syncStatus[b] # "kSynchronized" /\ syncStatus'[b] = "kSynchronized" =>
         Time(b)' = kept'[b]]_timeVars
=============================================================================
