-------------------------- MODULE SignalSubscription --------------------------
(***************************************************************************)
(* VehicleSignalServiceProxy on SOME/IP service discovery: the two locks   *)
(* they share.  Every proxy has an application thread that subscribes and  *)
(* unsubscribes, as VehicleSignalServiceSWC does in Init() and Shutdown(), *)
(* and may do so again; one provider, the IPC bridge, offers the service   *)
(* 0x1001 and withdraws it.                                                *)
(* Service discovery calls its subscribers with its own mutex_ held, and   *)
(* their callback takes the mutex_ of the proxy.                           *)
(*                                                                         *)
(* Control points of an application thread:                                *)
(*   new          before the first SubscribeVehicleSignals                 *)
(*   subscribing  holds the proxy's mutex_, about to take discovery's      *)
(*   notify       holds both, the service is on offer: in the callback,    *)
(*                about to take the proxy's mutex_, which is its own        *)
(*   registered   holds both, about to release discovery's                 *)
(*   unlock       about to release the proxy's                             *)
(*   subscribed, unsubscribed                                              *)
(* and of the provider:                                                    *)
(*   idle         outside service discovery                                *)
(*   notify       in OfferService, about to call the subscribers `pending` *)
(*   callback     in the callback of the first of them                     *)
(***************************************************************************)
EXTENDS Naturals, Sequences, FiniteSets

CONSTANTS
  Proxies,     (* The VehicleSignalServiceProxy objects, one per application. *)
  Provider,    (* The thread that offers the service.                         *)
  Nobody,      (* The owner of a free mutex.                                  *)
  MaxListeners (* Bound on the subscriptions of one application.              *)

ASSUME ThreadsAssumption == Provider \notin Proxies /\ Nobody \notin Proxies \cup {Provider}

VARIABLES
  sdMutex,       (* the owner of SomeIpServiceDiscovery::mutex_               *)
  offered,       (* whether offeredServices_ holds 0x1001                     *)
  subscribers,   (* subscribers_[0x1001], in the order of registration        *)
  proxyMutex,    (* the owner of each proxy's mutex_                          *)
  callback,      (* whether callback_ of each proxy is set                    *)
  told,          (* history: whether each application was called since the
                    service was last offered                                  *)
  again,         (* history: whether each application's last subscription was
                    not its first                                             *)
  appPc,         (* control point of each application thread                  *)
  providerPc,    (* control point of the provider                             *)
  pending,       (* the subscribers OfferService has still to call            *)
  calling        (* the proxies whose application is inside its callback_     *)

sdVars == <<sdMutex, offered, subscribers>>
providerVars == <<providerPc, pending, calling>>
vars == <<sdVars, proxyMutex, callback, told, again, appPc, providerVars>>

TypeOK ==
  /\ sdMutex \in Proxies \cup {Provider, Nobody}
  /\ offered \in BOOLEAN
  /\ subscribers \in Seq(Proxies)
  /\ proxyMutex \in [Proxies -> Proxies \cup {Provider, Nobody}]
  /\ callback \in [Proxies -> BOOLEAN]
  /\ told \in [Proxies -> BOOLEAN]
  /\ again \in [Proxies -> BOOLEAN]
  /\ appPc \in [Proxies -> {"new", "subscribing", "notify", "registered", "unlock",
                            "subscribed", "unsubscribed"}]
  /\ providerPc \in {"idle", "notify", "callback"}
  /\ pending \in Seq(Proxies)
  /\ calling \subseteq Proxies

Init ==
  /\ sdMutex = Nobody
  /\ offered = FALSE
  /\ subscribers = <<>>
  /\ proxyMutex = [p \in Proxies |-> Nobody]
  /\ callback = [p \in Proxies |-> FALSE]
  /\ told = [p \in Proxies |-> FALSE]
  /\ again = [p \in Proxies |-> FALSE]
  /\ appPc = [p \in Proxies |-> "new"]
  /\ providerPc = "idle"
  /\ pending = <<>>
  /\ calling = {}
-----------------------------------------------------------------------------
(* The application threads. *)

AppGoto(p, from, to) == appPc[p] = from /\ appPc' = [appPc EXCEPT ![p] = to]

LockProxy(p, t) == proxyMutex[p] = Nobody /\ proxyMutex' = [proxyMutex EXCEPT ![p] = t]
UnlockProxy(p) == proxyMutex' = [proxyMutex EXCEPT ![p] = Nobody]

Listeners(p) == {i \in 1..Len(subscribers) : subscribers[i] = p}

(* A mutant: the listener is registered before anything is locked. *)
BeginSubscribeRegisters(p) ==
  /\ Cardinality(Listeners(p)) < MaxListeners
  /\ \E from \in {"new", "subscribed", "unsubscribed"} :
       /\ AppGoto(p, from, "subscribing")
       /\ again' = [again EXCEPT ![p] = from # "new"]
  /\ LockProxy(p, p)
  /\ callback' = [callback EXCEPT ![p] = TRUE]
  /\ subscribers' = Append(subscribers, p)
  /\ UNCHANGED <<sdMutex, offered, told, providerVars>>

(* An application may subscribe again, subscribed or not, and leaves one more  *)
(* listener with service discovery.                                           *)
BeginSubscribe(p) ==
  /\ Cardinality(Listeners(p)) < MaxListeners
  /\ \E from \in {"new", "subscribed", "unsubscribed"} :
       /\ AppGoto(p, from, "subscribing")
       /\ again' = [again EXCEPT ![p] = from # "new"]
  /\ LockProxy(p, p)
  /\ callback' = [callback EXCEPT ![p] = TRUE]
  /\ UNCHANGED <<sdVars, told, providerVars>>

(* Mutants: discovery's lock is not taken; the listener is kept only where the *)
(* service is on offer.                                                        *)
RegisterUnlocked(p) ==
  /\ AppGoto(p, "subscribing", IF offered THEN "notify" ELSE "registered")
  /\ sdMutex' = p
  /\ subscribers' = Append(subscribers, p)
  /\ UNCHANGED <<offered, proxyMutex, callback, told, again, providerVars>>

RegisterIfOffered(p) ==
  /\ AppGoto(p, "subscribing", IF offered THEN "notify" ELSE "registered")
  /\ sdMutex = Nobody /\ sdMutex' = p
  /\ subscribers' = IF offered THEN Append(subscribers, p) ELSE subscribers
  /\ UNCHANGED <<offered, proxyMutex, callback, told, again, providerVars>>

(* SubscribeServiceAvailability; a service on offer is announced at once, to a *)
(* callback that locks what its own thread holds: std::mutex is not recursive  *)
(* and the thread stays at `notify`.                                           *)
Register(p) ==
  /\ AppGoto(p, "subscribing", IF offered THEN "notify" ELSE "registered")
  /\ sdMutex = Nobody /\ sdMutex' = p
  /\ subscribers' = Append(subscribers, p)
  /\ UNCHANGED <<offered, proxyMutex, callback, told, again, providerVars>>

EndRegister(p) ==
  /\ AppGoto(p, "registered", "unlock")
  /\ sdMutex' = Nobody
  /\ UNCHANGED <<offered, subscribers, proxyMutex, callback, told, again, providerVars>>

EndSubscribe(p) ==
  /\ AppGoto(p, "unlock", "subscribed")
  /\ UnlockProxy(p)
  /\ UNCHANGED <<sdVars, callback, told, again, providerVars>>

(* A mutant: the proxy is not locked. *)
UnsubscribeUnlocked(p) ==
  /\ AppGoto(p, "subscribed", "unsubscribed")
  /\ callback' = [callback EXCEPT ![p] = FALSE]
  /\ UNCHANGED <<sdVars, proxyMutex, told, again, providerVars>>

(* UnsubscribeVehicleSignals, one critical section; the listener stays       *)
(* registered with service discovery.                                        *)
Unsubscribe(p) ==
  /\ AppGoto(p, "subscribed", "unsubscribed")
  /\ proxyMutex[p] = Nobody
  /\ callback' = [callback EXCEPT ![p] = FALSE]
  /\ UNCHANGED <<sdVars, proxyMutex, told, again, providerVars>>
-----------------------------------------------------------------------------
(* The provider. *)

ProviderGoto(from, to) == providerPc = from /\ providerPc' = to

OfferService ==
  /\ ProviderGoto("idle", "notify")
  /\ sdMutex = Nobody /\ sdMutex' = Provider
  /\ offered' = TRUE
  /\ pending' = subscribers
  /\ told' = [p \in Proxies |-> FALSE]
  /\ UNCHANGED <<subscribers, proxyMutex, callback, again, appPc, calling>>

(* The listener stores the initial signals and, if callback_ is set, calls    *)
(* the application with the proxy's mutex_ held.                              *)
NotifySubscriber ==
  /\ pending # <<>>
  /\ ProviderGoto("notify", "callback")
  /\ LockProxy(Head(pending), Provider)
  /\ calling' = {p \in {Head(pending)} : callback[p]}
  /\ told' = [p \in Proxies |-> told[p] \/ p \in calling']
  /\ UNCHANGED <<sdVars, callback, again, appPc, pending>>

CallbackReturns ==
  /\ ProviderGoto("callback", "notify")
  /\ UnlockProxy(Head(pending))
  /\ pending' = Tail(pending)
  /\ calling' = {}
  /\ UNCHANGED <<sdVars, callback, told, again, appPc>>

OfferReturns ==
  /\ pending = <<>>
  /\ ProviderGoto("notify", "idle")
  /\ sdMutex' = Nobody
  /\ UNCHANGED <<offered, subscribers, proxyMutex, callback, told, again, appPc, pending, calling>>

(* StopOfferService, one critical section: the listener does nothing. *)
StopOfferService ==
  /\ providerPc = "idle" /\ offered
  /\ sdMutex = Nobody
  /\ offered' = FALSE
  /\ UNCHANGED <<sdMutex, subscribers, proxyMutex, callback, told, again, appPc, providerVars>>
-----------------------------------------------------------------------------
AppThread(p) ==
  BeginSubscribe(p) \/ Register(p) \/ EndRegister(p) \/ EndSubscribe(p) \/ Unsubscribe(p)

OfferStep == NotifySubscriber \/ CallbackReturns \/ OfferReturns

Next ==
  \/ \E p \in Proxies : AppThread(p)
  \/ OfferService \/ OfferStep \/ StopOfferService

Spec == Init /\ [][Next]_vars

(* A call that has begun goes on, and a mutex that keeps becoming free is     *)
(* obtained; nobody has to begin a call.                                      *)
FairSpec ==
  /\ Spec
  /\ \A p \in Proxies : SF_vars(Register(p)) /\ SF_vars(EndRegister(p) \/ EndSubscribe(p))
  /\ SF_vars(OfferStep)
-----------------------------------------------------------------------------
(* Once UnsubscribeVehicleSignals has returned, the application is not inside *)
(* its callback and will not be, although its listener stays registered and   *)
(* the provider may be anywhere in OfferService.                              *)
UnsubscribeSilences == \A p \in Proxies : appPc[p] = "unsubscribed" => p \notin calling

(* No offer falls between the registration of a listener and the end of       *)
(* SubscribeVehicleSignals: when the service is on offer and the provider has *)
(* returned, every subscribed application has been called.                    *)
OfferIsSeen ==
  \A p \in Proxies :
    appPc[p] = "subscribed" /\ offered /\ providerPc = "idle" => told[p]

(* The two locks are taken in both orders: an application that subscribes     *)
(* again waits for discovery's lock with its proxy's held, which the provider *)
(* inside OfferService then waits for in its earlier listener.  Nothing else  *)
(* keeps OfferService from returning, applications that subscribe for the     *)
(* first time, unsubscribe and have callbacks running included.               *)
OfferReturnsUnlessRenewed ==
  providerPc # "idle"
    ~> (providerPc = "idle" \/ \E p \in Proxies : again[p] /\ appPc[p] = "subscribing")

(* OfferService iterates over the list of listeners itself: what is left of   *)
(* the iteration is always the end of the list as it is now.                  *)
IterationIsStable ==
  providerPc # "idle" =>
    \E n \in 1..Len(subscribers) + 1 : pending = SubSeq(subscribers, n, Len(subscribers))
-----------------------------------------------------------------------------
(* A statement of a comment that the code does not keep. *)

(* "If the service is available already, notify at once": a subscription      *)
(* comes to its end, the service being on offer or not.                       *)
SubscribeReturns ==
  \A p \in Proxies : appPc[p] = "subscribing" ~> appPc[p] \in {"subscribed", "unsubscribed"}
=============================================================================
