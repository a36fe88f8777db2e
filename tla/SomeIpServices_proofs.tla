------------------------ MODULE SomeIpServices_proofs ------------------------
(***************************************************************************)
(* For any number of proxies: the two locks, taken in both orders, the     *)
(* list that is iterated over while others register, and the callbacks.    *)
(***************************************************************************)
EXTENDS SignalSubscription, SignalValidation, SomeIpMessage, SequenceTheorems, TLAPS

USE ThreadsAssumption

In(p, s) == \E i \in 1..Len(s) : s[i] = p

(* Where a thread is decides which locks are held. *)
LockInv ==
  /\ \A p \in Proxies :
       /\ proxyMutex[p] \in {p, Provider, Nobody}
       /\ proxyMutex[p] = p
            <=> appPc[p] \in {"subscribing", "notify", "registered", "unlock"}
       /\ proxyMutex[p] = Provider <=> providerPc = "callback" /\ Head(pending) = p
       /\ sdMutex = p <=> appPc[p] \in {"notify", "registered"}
  /\ sdMutex = Provider <=> providerPc # "idle"
  /\ providerPc = "callback" => pending # <<>>

(* A callback is set exactly between the two calls of its application, and    *)
(* called only while its proxy is locked for it.                              *)
CallInv ==
  /\ \A p \in Proxies : callback[p] <=> appPc[p] \notin {"new", "unsubscribed"}
  /\ \A p \in calling : providerPc = "callback" /\ Head(pending) = p
  /\ UnsubscribeSilences

(* The threads past discovery's lock have their listeners in the list, for a  *)
(* first subscription those only.                                             *)
ListInv ==
  /\ \A p \in Proxies :
       /\ appPc[p] \notin {"new", "subscribing"} => In(p, subscribers)
       /\ In(p, subscribers) => appPc[p] # "new" /\ (appPc[p] = "subscribing" => again[p])
  /\ IterationIsStable

(* An application that has registered in time was called or is still to be.   *)
SeenInv ==
  \A p \in Proxies :
    /\ appPc[p] = "registered" => ~offered
    /\ appPc[p] \in {"unlock", "subscribed"} /\ offered =>
         \/ told[p]
         \/ providerPc = "notify" /\ In(p, pending)
         \/ providerPc = "callback" /\ In(p, Tail(pending))

Inv == TypeOK /\ LockInv /\ CallInv /\ ListInv /\ SeenInv
-----------------------------------------------------------------------------
LEMMA InAppend ==
  ASSUME NEW S, NEW s \in Seq(S), NEW x \in S, NEW p
  PROVE  In(p, Append(s, x)) <=> In(p, s) \/ p = x
  <1>1. /\ Len(Append(s, x)) = Len(s) + 1 /\ Len(s) \in Nat
        /\ \A i \in 1..Len(s) : Append(s, x)[i] = s[i]
        /\ Append(s, x)[Len(s) + 1] = x
    OBVIOUS
  <1> QED BY <1>1 DEF In

LEMMA InTail ==
  ASSUME NEW S, NEW s \in Seq(S), s # <<>>, NEW p
  PROVE  In(p, s) <=> p = Head(s) \/ In(p, Tail(s))
  <1>1. /\ Len(s) \in Nat \ {0} /\ Len(Tail(s)) = Len(s) - 1
        /\ \A i \in 1..Len(s) - 1 : Tail(s)[i] = s[i + 1]
        /\ Head(s) = s[1]
    OBVIOUS
  <1>2. ASSUME In(p, s), p # Head(s) PROVE In(p, Tail(s))
    <2>1. PICK i \in 1..Len(s) : s[i] = p
      BY <1>2 DEF In
    <2>2. i - 1 \in 1..Len(Tail(s)) /\ Tail(s)[i - 1] = p
      BY <1>1, <1>2, <2>1
    <2> QED BY <2>2 DEF In
  <1>3. ASSUME In(p, Tail(s)) PROVE In(p, s)
    <2>1. PICK i \in 1..Len(Tail(s)) : Tail(s)[i] = p
      BY <1>3 DEF In
    <2>2. i + 1 \in 1..Len(s) /\ s[i + 1] = p
      BY <1>1, <2>1
    <2> QED BY <2>2 DEF In
  <1>4. p = Head(s) => In(p, s)
    BY <1>1 DEF In
  <1> QED BY <1>2, <1>3, <1>4

(* Of the end of a sequence: its members, the whole, and its own tail. *)
LEMMA EndOfSeq ==
  ASSUME NEW S, NEW s \in Seq(S), NEW n \in 1..Len(s) + 1
  PROVE  /\ SubSeq(s, n, Len(s)) \in Seq(S)
         /\ \A p : In(p, SubSeq(s, n, Len(s))) => In(p, s)
         /\ SubSeq(s, 1, Len(s)) = s
         /\ SubSeq(s, n, Len(s)) # <<>> =>
              /\ n + 1 \in 1..Len(s) + 1
              /\ Tail(SubSeq(s, n, Len(s))) = SubSeq(s, n + 1, Len(s))
  <1> DEFINE e == SubSeq(s, n, Len(s))
  <1>1. /\ e \in Seq(S) /\ Len(s) \in Nat /\ Len(e) = Len(s) - n + 1
        /\ \A i \in 1..Len(e) : e[i] = s[n + i - 1]
    OBVIOUS
  <1>2. \A p : In(p, e) => In(p, s)
    BY <1>1 DEF In
  <1>3. SubSeq(s, 1, Len(s)) = s
    OBVIOUS
  <1>4. ASSUME e # <<>>
        PROVE  n + 1 \in 1..Len(s) + 1 /\ Tail(e) = SubSeq(s, n + 1, Len(s))
    <2> DEFINE f == SubSeq(s, n + 1, Len(s))
    <2>1. n + 1 \in 1..Len(s) + 1
      BY <1>1, <1>4
    <2>2. f \in Seq(S) /\ Len(f) = Len(s) - n /\ \A i \in 1..Len(f) : f[i] = s[n + i]
      BY <1>1, <2>1
    <2>3. /\ Tail(e) \in Seq(S) /\ Len(Tail(e)) = Len(s) - n
          /\ \A i \in 1..Len(Tail(e)) : Tail(e)[i] = s[n + i]
      <3>1. /\ Tail(e) \in Seq(S) /\ Len(Tail(e)) = Len(e) - 1
            /\ \A i \in 1..Len(Tail(e)) : Tail(e)[i] = e[i + 1]
        <4> HIDE DEF e
        <4> QED BY <1>1, <1>4, HeadTailProperties
      <3> HIDE DEF e
      <3> QED BY <1>1, <3>1
    <2>4. Tail(e) = f
      <3> HIDE DEF e, f
      <3> QED BY <2>2, <2>3, SeqEqual
    <2> QED BY <2>1, <2>4
  <1> QED BY <1>1, <1>2, <1>3, <1>4
-----------------------------------------------------------------------------
LEMMA InitInv == Init => Inv
  <1> SUFFICES ASSUME Init PROVE Inv
    OBVIOUS
  <1>1. TypeOK
    <2>1. offered \in BOOLEAN /\ callback \in [Proxies -> BOOLEAN] /\ told \in [Proxies -> BOOLEAN]
         /\ again \in [Proxies -> BOOLEAN]
      BY Zenon DEF Init
    <2>2. proxyMutex \in [Proxies -> Proxies \cup {Provider, Nobody}]
      BY DEF Init
    <2>3. appPc \in [Proxies -> {"new", "subscribing", "notify", "registered", "unlock",
                                "subscribed", "unsubscribed"}]
      BY DEF Init
    <2>4. subscribers \in Seq(Proxies) /\ pending \in Seq(Proxies)
      BY DEF Init
    <2> QED BY <2>1, <2>2, <2>3, <2>4 DEF Init, TypeOK
  <1>2. LockInv
    BY DEF Init, LockInv
  <1>3. CallInv
    BY DEF Init, CallInv, UnsubscribeSilences
  <1>4. ListInv
    BY DEF Init, ListInv, In, IterationIsStable
  <1>5. SeenInv
    BY DEF Init, SeenInv
  <1> QED BY <1>1, <1>2, <1>3, <1>4, <1>5 DEF Inv
-----------------------------------------------------------------------------
(* The application threads. *)

LEMMA AppGotoMoves ==
  ASSUME TypeOK, NEW p \in Proxies, NEW from, NEW to, AppGoto(p, from, to)
  PROVE  /\ appPc[p] = from /\ appPc'[p] = to
         /\ \A q \in Proxies \ {p} : appPc'[q] = appPc[q]
  BY DEF TypeOK, AppGoto

LEMMA BeginSubscribeInv == ASSUME Inv, NEW p \in Proxies, BeginSubscribe(p) PROVE Inv'
  <1> PICK from \in {"new", "subscribed", "unsubscribed"} :
         /\ AppGoto(p, from, "subscribing")
         /\ again' = [again EXCEPT ![p] = from # "new"]
    BY DEF BeginSubscribe
  <1>1. /\ appPc[p] = from /\ appPc'[p] = "subscribing"
        /\ \A q \in Proxies \ {p} : appPc'[q] = appPc[q]
    BY AppGotoMoves DEF Inv
  <1>a. /\ again' \in [Proxies -> BOOLEAN]
        /\ from # "new" => again'[p]
        /\ \A q \in Proxies \ {p} : again'[q] = again[q]
    BY DEF Inv, TypeOK
  <1>2. /\ proxyMutex[p] = Nobody /\ proxyMutex'[p] = p
        /\ \A q \in Proxies \ {p} : proxyMutex'[q] = proxyMutex[q]
        /\ callback'[p] = TRUE
        /\ \A q \in Proxies \ {p} : callback'[q] = callback[q]
        /\ UNCHANGED <<sdVars, told, providerVars>>
    BY DEF BeginSubscribe, LockProxy, Inv, TypeOK
  <1>3. TypeOK'
    BY <1>a DEF Inv, TypeOK, BeginSubscribe, AppGoto, LockProxy, sdVars, providerVars
  <1>4. LockInv'
    BY <1>1, <1>2 DEF Inv, LockInv, sdVars, providerVars
  <1>5. CallInv'
    BY <1>1, <1>2 DEF Inv, CallInv, UnsubscribeSilences, sdVars, providerVars
  <1>6. ListInv'
    <2>1. UNCHANGED <<subscribers, pending, providerPc>>
      BY <1>2 DEF sdVars, providerVars
    <2>2. IterationIsStable' /\ \A q : In(q, subscribers)' <=> In(q, subscribers)
      BY <2>1 DEF Inv, ListInv, IterationIsStable, In
    <2> QED BY <1>1, <1>a, <2>2 DEF Inv, ListInv
  <1>7. SeenInv'
    BY <1>1, <1>2 DEF Inv, SeenInv, In, sdVars, providerVars
  <1> QED BY <1>3, <1>4, <1>5, <1>6, <1>7 DEF Inv

LEMMA RegisterInv == ASSUME Inv, NEW p \in Proxies, Register(p) PROVE Inv'
  <1>1. /\ appPc[p] = "subscribing" /\ appPc'[p] \in {"notify", "registered"}
        /\ appPc'[p] = "registered" => ~offered
        /\ \A q \in Proxies \ {p} : appPc'[q] = appPc[q]
    BY AppGotoMoves DEF Inv, Register
  <1>2. /\ sdMutex = Nobody /\ sdMutex' = p
        /\ subscribers' = Append(subscribers, p)
        /\ UNCHANGED <<offered, proxyMutex, callback, told, again, providerVars>>
    BY DEF Register
  <1>3. providerPc = "idle" /\ \A q \in Proxies : appPc[q] \notin {"notify", "registered"}
    BY <1>2 DEF Inv, LockInv
  <1>4. TypeOK'
    BY DEF Inv, TypeOK, Register, AppGoto, providerVars
  <1>5. LockInv'
    BY <1>1, <1>2, <1>3 DEF Inv, LockInv, providerVars
  <1>6. CallInv'
    BY <1>1, <1>2 DEF Inv, CallInv, UnsubscribeSilences, providerVars
  <1>7. ListInv'
    <2>1. \A q \in Proxies : In(q, subscribers') <=> In(q, subscribers) \/ q = p
      BY <1>2, InAppend DEF Inv, TypeOK
    <2> QED BY <1>1, <1>2, <1>3, <2>1 DEF Inv, ListInv, IterationIsStable, providerVars
  <1>8. SeenInv'
    BY <1>1, <1>2, <1>3 DEF Inv, SeenInv, In, providerVars
  <1> QED BY <1>4, <1>5, <1>6, <1>7, <1>8 DEF Inv

LEMMA EndRegisterInv == ASSUME Inv, NEW p \in Proxies, EndRegister(p) PROVE Inv'
  <1>1. /\ appPc[p] = "registered" /\ appPc'[p] = "unlock"
        /\ \A q \in Proxies \ {p} : appPc'[q] = appPc[q]
    BY AppGotoMoves DEF Inv, EndRegister
  <1>2. /\ sdMutex' = Nobody
        /\ UNCHANGED <<offered, subscribers, proxyMutex, callback, told, again, providerVars>>
    BY DEF EndRegister
  <1>3. sdMutex = p
    BY <1>1 DEF Inv, LockInv
  <1>4. TypeOK'
    BY DEF Inv, TypeOK, EndRegister, AppGoto, providerVars
  <1>5. LockInv'
    BY <1>1, <1>2, <1>3 DEF Inv, LockInv, providerVars
  <1>6. CallInv'
    BY <1>1, <1>2 DEF Inv, CallInv, UnsubscribeSilences, providerVars
  <1>7. ListInv'
    BY <1>1, <1>2 DEF Inv, ListInv, IterationIsStable, In, providerVars
  <1>8. SeenInv'
    BY <1>1, <1>2 DEF Inv, SeenInv, In, providerVars
  <1> QED BY <1>4, <1>5, <1>6, <1>7, <1>8 DEF Inv

LEMMA EndSubscribeInv == ASSUME Inv, NEW p \in Proxies, EndSubscribe(p) PROVE Inv'
  <1>1. /\ appPc[p] = "unlock" /\ appPc'[p] = "subscribed"
        /\ \A q \in Proxies \ {p} : appPc'[q] = appPc[q]
    BY AppGotoMoves DEF Inv, EndSubscribe
  <1>2. /\ proxyMutex[p] = p /\ proxyMutex'[p] = Nobody
        /\ \A q \in Proxies \ {p} : proxyMutex'[q] = proxyMutex[q]
        /\ UNCHANGED <<sdVars, callback, told, again, providerVars>>
    BY <1>1 DEF EndSubscribe, UnlockProxy, Inv, TypeOK, LockInv
  <1>3. TypeOK'
    BY DEF Inv, TypeOK, EndSubscribe, AppGoto, UnlockProxy, sdVars, providerVars
  <1>4. LockInv'
    BY <1>1, <1>2 DEF Inv, LockInv, sdVars, providerVars
  <1>5. CallInv'
    BY <1>1, <1>2 DEF Inv, CallInv, UnsubscribeSilences, sdVars, providerVars
  <1>6. ListInv'
    BY <1>1, <1>2 DEF Inv, ListInv, IterationIsStable, In, sdVars, providerVars
  <1>7. SeenInv'
    BY <1>1, <1>2 DEF Inv, SeenInv, In, sdVars, providerVars
  <1> QED BY <1>3, <1>4, <1>5, <1>6, <1>7 DEF Inv

LEMMA UnsubscribeInv == ASSUME Inv, NEW p \in Proxies, Unsubscribe(p) PROVE Inv'
  <1>1. /\ appPc[p] = "subscribed" /\ appPc'[p] = "unsubscribed"
        /\ \A q \in Proxies \ {p} : appPc'[q] = appPc[q]
    BY AppGotoMoves DEF Inv, Unsubscribe
  <1>2. /\ proxyMutex[p] = Nobody
        /\ callback'[p] = FALSE
        /\ \A q \in Proxies \ {p} : callback'[q] = callback[q]
        /\ UNCHANGED <<sdVars, proxyMutex, told, again, providerVars>>
    BY DEF Unsubscribe, Inv, TypeOK
  <1>3. TypeOK'
    BY DEF Inv, TypeOK, Unsubscribe, AppGoto, sdVars, providerVars
  <1>4. LockInv'
    BY <1>1, <1>2 DEF Inv, LockInv, sdVars, providerVars
  <1>5. CallInv'
    <2>1. p \notin calling
      BY <1>2 DEF Inv, LockInv, CallInv
    <2> QED BY <1>1, <1>2, <2>1 DEF Inv, CallInv, UnsubscribeSilences, sdVars, providerVars
  <1>6. ListInv'
    BY <1>1, <1>2 DEF Inv, ListInv, IterationIsStable, In, sdVars, providerVars
  <1>7. SeenInv'
    BY <1>1, <1>2 DEF Inv, SeenInv, In, sdVars, providerVars
  <1> QED BY <1>3, <1>4, <1>5, <1>6, <1>7 DEF Inv
-----------------------------------------------------------------------------
(* The provider. *)

LEMMA OfferServiceInv == ASSUME Inv, OfferService PROVE Inv'
  <1>1. /\ providerPc = "idle" /\ providerPc' = "notify"
        /\ sdMutex = Nobody /\ sdMutex' = Provider
        /\ offered' = TRUE /\ pending' = subscribers
        /\ \A p \in Proxies : told'[p] = FALSE
        /\ UNCHANGED <<subscribers, proxyMutex, callback, again, appPc, calling>>
    BY DEF OfferService, ProviderGoto
  <1>2. TypeOK'
    BY DEF Inv, TypeOK, OfferService, ProviderGoto
  <1>3. LockInv'
    BY <1>1 DEF Inv, LockInv
  <1>4. CallInv'
    BY <1>1 DEF Inv, CallInv, UnsubscribeSilences
  <1>5. ListInv'
    <2>1. 1 \in 1..Len(subscribers) + 1 /\ pending' = SubSeq(subscribers, 1, Len(subscribers))
      <3>1. 1 \in 1..Len(subscribers) + 1
        BY DEF Inv, TypeOK
      <3> QED BY <1>1, <3>1, EndOfSeq DEF Inv, TypeOK
    <2> QED BY <1>1, <2>1 DEF Inv, ListInv, IterationIsStable, In
  <1>6. SeenInv'
    <2>1. \A p \in Proxies : appPc[p] # "registered"
      BY <1>1 DEF Inv, LockInv
    <2>2. \A p \in Proxies : appPc[p] \in {"unlock", "subscribed"} => In(p, pending)'
      BY <1>1 DEF Inv, ListInv, In
    <2> QED BY <1>1, <2>1, <2>2 DEF SeenInv
  <1> QED BY <1>2, <1>3, <1>4, <1>5, <1>6 DEF Inv

LEMMA NotifySubscriberInv == ASSUME Inv, NotifySubscriber PROVE Inv'
  <1> DEFINE h == Head(pending)
  <1>1. pending # <<>> /\ pending \in Seq(Proxies) /\ h \in Proxies
    BY DEF NotifySubscriber, Inv, TypeOK
  <1>2. /\ providerPc = "notify" /\ providerPc' = "callback"
        /\ proxyMutex[h] = Nobody /\ proxyMutex'[h] = Provider
        /\ \A p \in Proxies \ {h} : proxyMutex'[p] = proxyMutex[p]
        /\ calling' = {p \in {h} : callback[p]}
        /\ \A p \in Proxies : told'[p] <=> told[p] \/ p \in calling'
        /\ UNCHANGED <<sdVars, callback, again, appPc, pending>>
    BY <1>1 DEF NotifySubscriber, ProviderGoto, LockProxy, Inv, TypeOK
  <1>3. TypeOK'
    <2>1. told' \in [Proxies -> BOOLEAN]
      BY DEF NotifySubscriber
    <2> QED BY <1>1, <1>2, <2>1 DEF Inv, TypeOK, NotifySubscriber, LockProxy, sdVars
  <1>4. LockInv'
    BY <1>1, <1>2 DEF Inv, LockInv, sdVars
  <1>5. CallInv'
    BY <1>1, <1>2 DEF Inv, CallInv, UnsubscribeSilences
  <1>6. ListInv'
    BY <1>2 DEF Inv, ListInv, IterationIsStable, In, sdVars
  <1>7. SeenInv'
    <2> SUFFICES ASSUME NEW p \in Proxies, appPc[p] \in {"unlock", "subscribed"}, offered, ~told'[p]
                 PROVE  In(p, Tail(pending))
      BY <1>2 DEF Inv, SeenInv, sdVars, In
    <2>1. In(p, pending)
      BY <1>2 DEF Inv, SeenInv
    <2>2. callback[p] /\ p \notin calling'
      BY <1>2 DEF Inv, CallInv
    <2>3. p # h
      BY <1>2, <2>2
    <2> QED BY <1>1, <2>1, <2>3, InTail
  <1> QED BY <1>3, <1>4, <1>5, <1>6, <1>7 DEF Inv

LEMMA CallbackReturnsInv == ASSUME Inv, CallbackReturns PROVE Inv'
  <1> DEFINE h == Head(pending)
  <1>1. pending # <<>> /\ pending \in Seq(Proxies) /\ h \in Proxies /\ Tail(pending) \in Seq(Proxies)
    BY DEF CallbackReturns, ProviderGoto, Inv, TypeOK, LockInv
  <1>2. /\ providerPc = "callback" /\ providerPc' = "notify"
        /\ proxyMutex[h] = Provider /\ proxyMutex'[h] = Nobody
        /\ \A p \in Proxies \ {h} : proxyMutex'[p] = proxyMutex[p]
        /\ calling' = {} /\ pending' = Tail(pending)
        /\ UNCHANGED <<sdVars, callback, told, again, appPc>>
    BY <1>1 DEF CallbackReturns, ProviderGoto, UnlockProxy, Inv, TypeOK, LockInv
  <1>3. TypeOK'
    BY <1>1, <1>2 DEF Inv, TypeOK, CallbackReturns, UnlockProxy, sdVars
  <1>4. LockInv'
    BY <1>1, <1>2 DEF Inv, LockInv, sdVars
  <1>5. CallInv'
    BY <1>2 DEF Inv, CallInv, UnsubscribeSilences
  <1>6. ListInv'
    <2>1. PICK n \in 1..Len(subscribers) + 1 : pending = SubSeq(subscribers, n, Len(subscribers))
      BY <1>2 DEF Inv, ListInv, IterationIsStable
    <2>2. /\ n + 1 \in 1..Len(subscribers) + 1
          /\ pending' = SubSeq(subscribers, n + 1, Len(subscribers))
      BY <1>1, <1>2, <2>1, EndOfSeq DEF Inv, TypeOK
    <2> QED BY <1>2, <2>2 DEF Inv, ListInv, IterationIsStable, In, sdVars
  <1>7. SeenInv'
    BY <1>2 DEF Inv, SeenInv, sdVars, In
  <1> QED BY <1>3, <1>4, <1>5, <1>6, <1>7 DEF Inv

LEMMA OfferReturnsInv == ASSUME Inv, OfferReturns PROVE Inv'
  <1>1. /\ providerPc = "notify" /\ providerPc' = "idle"
        /\ pending = <<>> /\ sdMutex' = Nobody
        /\ UNCHANGED <<offered, subscribers, proxyMutex, callback, told, again, appPc, pending, calling>>
    BY DEF OfferReturns, ProviderGoto
  <1>2. TypeOK'
    BY DEF Inv, TypeOK, OfferReturns, ProviderGoto
  <1>3. sdMutex = Provider
    BY <1>1 DEF Inv, LockInv
  <1>4. LockInv'
    BY <1>1, <1>3 DEF Inv, LockInv
  <1>5. CallInv'
    BY <1>1 DEF Inv, CallInv, UnsubscribeSilences
  <1>6. ListInv'
    BY <1>1 DEF Inv, ListInv, IterationIsStable, In
  <1>7. SeenInv'
    <2>1. \A p : ~In(p, pending)
      BY <1>1 DEF In
    <2> QED BY <1>1, <2>1 DEF Inv, SeenInv
  <1> QED BY <1>2, <1>4, <1>5, <1>6, <1>7 DEF Inv

LEMMA StopOfferServiceInv == ASSUME Inv, StopOfferService PROVE Inv'
  <1>1. /\ offered' = FALSE
        /\ UNCHANGED <<sdMutex, subscribers, proxyMutex, callback, told, again, appPc, providerVars>>
    BY DEF StopOfferService
  <1>2. TypeOK'
    BY <1>1 DEF Inv, TypeOK, providerVars
  <1>3. LockInv'
    BY <1>1 DEF Inv, LockInv, providerVars
  <1>4. CallInv'
    BY <1>1 DEF Inv, CallInv, UnsubscribeSilences, providerVars
  <1>5. ListInv'
    BY <1>1 DEF Inv, ListInv, IterationIsStable, In, providerVars
  <1>6. SeenInv'
    BY <1>1 DEF SeenInv
  <1> QED BY <1>2, <1>3, <1>4, <1>5, <1>6 DEF Inv

LEMMA StutterInv == ASSUME Inv, UNCHANGED vars PROVE Inv'
  BY DEF Inv, TypeOK, LockInv, CallInv, UnsubscribeSilences, ListInv, IterationIsStable, SeenInv,
         In, vars, sdVars, providerVars

LEMMA SpecInv == Spec => []Inv
  <1>1. Inv /\ [Next]_vars => Inv'
    BY BeginSubscribeInv, RegisterInv, EndRegisterInv, EndSubscribeInv, UnsubscribeInv,
       OfferServiceInv, NotifySubscriberInv, CallbackReturnsInv, OfferReturnsInv,
       StopOfferServiceInv, StutterInv
       DEF Next, AppThread, OfferStep
  <1> QED BY <1>1, InitInv, PTL DEF Spec
-----------------------------------------------------------------------------
(* Type correctness, for any number of proxies. *)
THEOREM SubscriptionTypes == Spec => []TypeOK
  BY SpecInv, PTL DEF Inv

(* No callback runs for an application that has unsubscribed. *)
THEOREM SilentOnceUnsubscribed == Spec => []UnsubscribeSilences
  BY SpecInv, PTL DEF Inv, CallInv

(* The iteration of OfferService always has the end of the list before it. *)
THEOREM IterationHolds == Spec => []IterationIsStable
  BY SpecInv, PTL DEF Inv, ListInv

(* No offer falls between a registration and the end of the subscription. *)
THEOREM OffersAreSeen == Spec => []OfferIsSeen
  <1>1. Inv => OfferIsSeen
    BY DEF Inv, SeenInv, OfferIsSeen
  <1> QED BY <1>1, SpecInv, PTL

(* Whoever holds the lock for which the provider waits inside OfferService is *)
(* about to release it, or subscribes again.                                  *)
WaitsForRenewalOnly ==
  LET p == Head(pending)
  IN  providerPc = "notify" /\ pending # <<>> /\ proxyMutex[p] # Nobody
        => appPc[p] = "unlock" \/ (again[p] /\ appPc[p] = "subscribing")

(* OfferService and an application never wait for each other's lock unless    *)
(* the application subscribes again: a listener enters the list when its      *)
(* thread no longer needs discovery's lock, for any number of proxies.        *)
THEOREM OnlyRenewalBlocks == Spec => []WaitsForRenewalOnly
  <1>1. Inv => WaitsForRenewalOnly
    <2> DEFINE p == Head(pending)
    <2> SUFFICES ASSUME Inv, providerPc = "notify", pending # <<>>, proxyMutex[p] # Nobody
                 PROVE  appPc[p] = "unlock" \/ (again[p] /\ appPc[p] = "subscribing")
      BY DEF WaitsForRenewalOnly
    <2>1. pending \in Seq(Proxies) /\ p \in Proxies
      BY DEF Inv, TypeOK
    <2>2. appPc[p] \in {"subscribing", "notify", "registered", "unlock"} /\ sdMutex = Provider
      BY <2>1 DEF Inv, LockInv
    <2>3. In(p, subscribers)
      <3>1. PICK n \in 1..Len(subscribers) + 1 : pending = SubSeq(subscribers, n, Len(subscribers))
        BY DEF Inv, ListInv, IterationIsStable
      <3>2. In(p, pending)
        BY <2>1, InTail
      <3> QED BY <3>1, <3>2, EndOfSeq DEF Inv, TypeOK
    <2>4. appPc[p] \notin {"notify", "registered"}
      BY <2>1, <2>2 DEF Inv, LockInv
    <2> QED BY <2>1, <2>2, <2>3, <2>4 DEF Inv, ListInv
  <1> QED BY <1>1, SpecInv, PTL
-----------------------------------------------------------------------------
(***************************************************************************)
(* SignalValidation: any modulus of the counter, any first frame and any   *)
(* number of losses.                                                       *)
(***************************************************************************)

(* What the E2E counter says of the frames in between.  Behind is also what   *)
(* bounds the history: its cap is never reached.                              *)
CounterInv ==
  /\ lastSent # NoFrame => (lastSent + 1) % Modulus = mcuCounter
  /\ lastE2ECounter # 0 => (lastE2ECounter + 1 + behind) % Modulus = mcuCounter

ValidationInv ==
  ValidationTypeOK /\ CounterInv /\ OneTurnPerLoss /\ lost <= lostInAll

LEMMA ModulusFacts ==
  /\ Modulus \in Nat \ {0} /\ Modulus > 1
  /\ MaxLost \in Nat
  /\ \A a \in Nat : a % Modulus \in Counter
  /\ \A a \in Counter : a \in Nat
  BY ModulusAssumption, MaxLostAssumption DEF Counter

(* Facts about the remainders of the counter. *)
LEMMA ModUnique ==
  ASSUME NEW q \in Nat, NEW r \in Counter
  PROVE  (Modulus * q + r) % Modulus = r
  BY ModulusFacts DEF Counter

LEMMA ModDecomposes ==
  ASSUME NEW a \in Nat
  PROVE  /\ a \div Modulus \in Nat
         /\ a = Modulus * (a \div Modulus) + (a % Modulus)
  BY ModulusFacts

LEMMA ModMultiple ==
  ASSUME NEW q \in Nat
  PROVE  (Modulus * q) % Modulus = 0
  <1>1. 0 \in Counter /\ Modulus * q + 0 = Modulus * q
    BY ModulusFacts DEF Counter
  <1>2. (Modulus * q + 0) % Modulus = 0
    BY <1>1, ModUnique
  <1> QED BY <1>1, <1>2

LEMMA ModAddTurns ==
  ASSUME NEW a \in Nat, NEW q \in Nat
  PROVE  (Modulus * q + a) % Modulus = a % Modulus
  <1>1. /\ a \div Modulus \in Nat /\ a % Modulus \in Counter
        /\ a = Modulus * (a \div Modulus) + (a % Modulus)
    BY ModDecomposes, ModulusFacts
  <1>2. Modulus * q + a = Modulus * (q + a \div Modulus) + (a % Modulus)
    <2> DEFINE d == a \div Modulus
    <2>1. \A x, y, z \in Nat : x * (y + z) = x * y + x * z
      OBVIOUS
    <2>2. Modulus * (q + d) = Modulus * q + Modulus * d
      <3>1. d \in Nat /\ Modulus \in Nat
        BY <1>1, ModulusFacts
      <3> HIDE DEF d
      <3> QED BY <2>1, <3>1, Zenon
    <2>3. Modulus * q \in Nat /\ Modulus * (a \div Modulus) \in Nat /\ a % Modulus \in Nat
      BY <1>1, ModulusFacts
    <2> QED BY <1>1, <2>2, <2>3
  <1>3. (Modulus * (q + a \div Modulus) + (a % Modulus)) % Modulus = a % Modulus
    BY <1>1, ModUnique
  <1> QED BY <1>2, <1>3

LEMMA ModSuccessor ==
  ASSUME NEW a \in Nat
  PROVE  ((a % Modulus) + 1) % Modulus = (a + 1) % Modulus
  <1>1. /\ a \div Modulus \in Nat /\ a % Modulus \in Counter
        /\ a = Modulus * (a \div Modulus) + (a % Modulus)
    BY ModDecomposes, ModulusFacts
  <1>2. a + 1 = Modulus * (a \div Modulus) + ((a % Modulus) + 1)
    BY <1>1, ModulusFacts DEF Counter
  <1>3. (a % Modulus) + 1 \in Nat
    BY <1>1, ModulusFacts
  <1> QED BY <1>1, <1>2, <1>3, ModAddTurns

(* Steps that leave the counter where it was make whole turns. *)
LEMMA ModWholeTurns ==
  ASSUME NEW a \in Nat, NEW b \in Nat, (a + b) % Modulus = a % Modulus
  PROVE  b % Modulus = 0
  <1> DEFINE k == (a + b) \div Modulus - a \div Modulus
  <1>1. /\ a \div Modulus \in Nat
        /\ a = Modulus * (a \div Modulus) + (a % Modulus)
        /\ (a + b) \div Modulus \in Nat
        /\ a + b = Modulus * ((a + b) \div Modulus) + (a % Modulus)
    BY ModDecomposes
  <1>2. b = Modulus * k
    BY <1>1, ModulusFacts
  <1>3. k \in Nat
    BY <1>1, <1>2, ModulusFacts
  <1> HIDE DEF k
  <1> QED BY <1>2, <1>3, ModMultiple

LEMMA InitValidationInv == ValidationInit => ValidationInv
  <1>1. Modulus * 0 = 0 /\ Modulus * MaxLost + 1 \in Nat
    BY ModulusFacts
  <1>2. 0 \in 0..MaxBehind /\ 0 \in 0..MaxLost /\ 0 \in Counter
    BY <1>1, ModulusFacts DEF MaxBehind, Counter
  <1>3. ValidationInit => ValidationTypeOK
    <2>1. FirstCounters \subseteq Counter /\ 0 \in 0..4
      BY FirstAssumption DEF Counter
    <2> QED BY <1>2, <2>1 DEF ValidationInit, ValidationTypeOK
  <1>4. ValidationInit => CounterInv /\ OneTurnPerLoss /\ lost <= lostInAll
    BY <1>1 DEF ValidationInit, CounterInv, OneTurnPerLoss
  <1> QED BY <1>3, <1>4 DEF ValidationInv

(* What the bound on the history hides is never reached. *)
LEMMA BehindIsExact ==
  ASSUME ValidationInv
  PROVE  /\ behind \in Nat /\ lost \in Nat /\ lost <= MaxLost
         /\ Modulus * lost \in Nat
         /\ behind < MaxBehind
         /\ OneMoreBehind = behind + 1
  <1> USE DEF ValidationInv, ValidationTypeOK, OneTurnPerLoss
  <1>1. behind \in Nat /\ lost \in Nat /\ lost <= MaxLost
    BY ModulusFacts DEF MaxBehind
  <1>2. Modulus * lost \in Nat /\ Modulus * MaxLost \in Nat /\ Modulus * lost <= Modulus * MaxLost
    <2>1. \A x, y, z \in Nat : y <= z => x * y <= x * z
      OBVIOUS
    <2> QED BY <1>1, <2>1, ModulusFacts
  <1>3. behind < MaxBehind
    BY <1>1, <1>2 DEF MaxBehind
  <1> QED BY <1>1, <1>2, <1>3 DEF OneMoreBehind

(* A frame whose counter is not the one expected is refused only when the MCU *)
(* is not a whole number of turns ahead.                                      *)
LEMMA RefusedMidTurn ==
  ASSUME ValidationInv, ~ValidateE2E(mcuCounter)
  PROVE  behind + 1 <= Modulus * lost
  <1>1. /\ lastE2ECounter \in Nat /\ lastE2ECounter # 0
        /\ mcuCounter # (lastE2ECounter + 1) % Modulus
        /\ mcuCounter = (lastE2ECounter + 1 + behind) % Modulus
    BY ModulusFacts DEF ValidateE2E, ExpectedCounter, ValidationInv, ValidationTypeOK, CounterInv
  <1>2. behind # Modulus * lost
    <2> SUFFICES ASSUME behind = Modulus * lost PROVE FALSE
      OBVIOUS
    <2>1. (Modulus * lost + (lastE2ECounter + 1)) % Modulus = (lastE2ECounter + 1) % Modulus
      BY <1>1, BehindIsExact, ModAddTurns
    <2>2. lastE2ECounter + 1 + behind = Modulus * lost + (lastE2ECounter + 1)
      BY <1>1, BehindIsExact
    <2> QED BY <1>1, <2>1, <2>2
  <1> QED BY <1>2, BehindIsExact DEF ValidationInv, OneTurnPerLoss

LEMMA StepValidationInv == ValidationInv /\ [ValidationNext]_validationVars => ValidationInv'
  <1> SUFFICES ASSUME ValidationInv, [ValidationNext]_validationVars PROVE ValidationInv'
    OBVIOUS
  <1> USE DEF ValidationInv, ValidationTypeOK, CounterInv, OneTurnPerLoss
  <1>1. /\ \A a \in Nat : a % Modulus \in Counter
        /\ Counter \subseteq Nat /\ 0 \in Counter /\ NoFrame \notin Counter
        /\ (mcuCounter + 1) % Modulus \in Counter
    BY ModulusFacts DEF Counter, NoFrame
  <1>2. /\ behind \in Nat /\ lost \in Nat /\ lost <= MaxLost /\ Modulus * lost \in Nat
        /\ behind < MaxBehind /\ OneMoreBehind = behind + 1
        /\ MaxLost \in Nat /\ MaxBehind \in Nat
    BY BehindIsExact, ModulusFacts DEF MaxBehind
  <1>3. ASSUME NEW c \in Counter, OnSignalReceived(c)
        PROVE  /\ lastE2ECounter' \in Counter /\ e2eErrorCount' \in 0..4
               /\ lastE2ECounter' = IF ValidateE2E(c) THEN c ELSE lastE2ECounter
    BY <1>3 DEF OnSignalReceived, OnValid, OnInvalid
  <1>4. CASE Deliver
    <2> USE <1>4 DEF Deliver, runVars
    <2>1. /\ lastE2ECounter' \in Counter /\ e2eErrorCount' \in 0..4
          /\ lastE2ECounter' = IF ValidateE2E(mcuCounter) THEN mcuCounter ELSE lastE2ECounter
      BY <1>3
    <2>2. CASE ValidateE2E(mcuCounter)
      <3>1. lastE2ECounter' + 1 + behind' = mcuCounter + 1
        BY <1>1, <2>1, <2>2
      <3> QED BY <1>1, <1>2, <2>1, <2>2, <3>1, ModulusFacts
    <2>3. CASE ~ValidateE2E(mcuCounter)
      <3>1. behind + 1 <= Modulus * lost
        BY <2>3, RefusedMidTurn
      <3>2. behind' = behind + 1 /\ lost' = lost /\ accepted' = accepted
        BY <1>2, <2>3
      <3>3. lastE2ECounter' # 0 => (lastE2ECounter' + 1 + behind') % Modulus = mcuCounter'
        <4> SUFFICES ASSUME lastE2ECounter' # 0
                     PROVE  (lastE2ECounter' + 1 + behind') % Modulus = mcuCounter'
          OBVIOUS
        <4>1. lastE2ECounter + 1 + behind \in Nat
          BY <1>1, <1>2
        <4>2. (((lastE2ECounter + 1 + behind) % Modulus) + 1) % Modulus
                = (lastE2ECounter + 1 + behind + 1) % Modulus
          BY <4>1, ModSuccessor
        <4>3. lastE2ECounter' + 1 + behind' = lastE2ECounter + 1 + behind + 1
          BY <1>1, <1>2, <2>1, <2>3, <3>2
        <4> QED BY <2>1, <2>3, <4>2, <4>3
      <3> QED BY <1>1, <1>2, <2>1, <2>3, <3>1, <3>2, <3>3, ModulusFacts
    <2> QED BY <2>2, <2>3
  <1>5. CASE Lose
    <2> USE <1>5 DEF Lose, swcVars, runVars
    <2>1. behind' = behind + 1 /\ lost' = lost + 1 /\ behind' <= Modulus * lost'
      <3>1. Modulus * (lost + 1) = Modulus * lost + Modulus
        BY <1>2, ModulusFacts
      <3> QED BY <1>2, <3>1, ModulusFacts
    <2>2. lastE2ECounter' # 0 => (lastE2ECounter' + 1 + behind') % Modulus = mcuCounter'
      <3> SUFFICES ASSUME lastE2ECounter # 0
                   PROVE  (lastE2ECounter' + 1 + behind') % Modulus = mcuCounter'
        OBVIOUS
      <3>1. lastE2ECounter + 1 + behind \in Nat
        BY <1>1, <1>2
      <3>2. (((lastE2ECounter + 1 + behind) % Modulus) + 1) % Modulus
              = (lastE2ECounter + 1 + behind + 1) % Modulus
        BY <3>1, ModSuccessor
      <3>3. lastE2ECounter' + 1 + behind' = lastE2ECounter + 1 + behind + 1
        BY <1>1, <1>2, <2>1
      <3> QED BY <3>2, <3>3
    <2>3. lost' \in 0..MaxLost /\ lostInAll' \in 0..MaxLost /\ lost' <= lostInAll'
      BY <1>2, <2>1
    <2> QED BY <1>1, <1>2, <2>1, <2>2, <2>3
  <1>6. CASE Repeat
    <2> USE <1>6 DEF Repeat, runVars
    <2>1. lastSent \in Counter
      OBVIOUS
    <2>2. /\ lastE2ECounter' \in Counter /\ e2eErrorCount' \in 0..4
          /\ lastE2ECounter' = IF ValidateE2E(lastSent) THEN lastSent ELSE lastE2ECounter
      BY <1>3, <2>1
    <2>3. CASE ValidateE2E(lastSent)
      <3>1. lastE2ECounter' + 1 + behind' = lastSent + 1
        BY <1>1, <2>1, <2>2, <2>3
      <3> QED BY <1>1, <1>2, <2>2, <2>3, <3>1, ModulusFacts
    <2>4. CASE ~ValidateE2E(lastSent)
      BY <1>1, <1>2, <2>2, <2>4
    <2> QED BY <2>3, <2>4
  <1>7. CASE Announce
    <2>1. /\ lastE2ECounter' \in Counter /\ e2eErrorCount' \in 0..4
          /\ lastE2ECounter' = IF ValidateE2E(0) THEN 0 ELSE lastE2ECounter
      BY <1>1, <1>3, <1>7 DEF Announce
    <2> QED BY <1>7, <2>1 DEF Announce, runVars, histories
  <1>8. CASE RunBegins
    BY <1>8 DEF RunBegins, swcVars, histories
  <1>9. CASE RunLoop
    BY <1>9 DEF RunLoop, swcVars, histories
  <1>10. CASE Shutdown
    BY <1>10 DEF Shutdown, swcVars, histories
  <1>11. CASE UNCHANGED validationVars
    BY <1>11 DEF validationVars, swcVars, runVars, histories
  <1> QED BY <1>4, <1>5, <1>6, <1>7, <1>8, <1>9, <1>10, <1>11 DEF ValidationNext

(* The SWC's state keeps its types: the error count stays below its bound,    *)
(* for any frames, repeated or lost.                                          *)
THEOREM ValidationTypes == ValidationSpec => []ValidationTypeOK
  <1>1. ValidationInv => ValidationTypeOK
    BY DEF ValidationInv
  <1> QED BY <1>1, InitValidationInv, StepValidationInv, PTL DEF ValidationSpec

(* What the SWC shows is never further behind the MCU than a whole turn of    *)
(* the counter per frame lost since, for any modulus and number of losses,    *)
(* with repeated frames and initial signals in between or not.                *)
THEOREM LossesCostOneTurn == ValidationSpec => []OneTurnPerLoss
  <1>1. ValidationInv => OneTurnPerLoss
    BY DEF ValidationInv
  <1> QED BY <1>1, InitValidationInv, StepValidationInv, PTL DEF ValidationSpec

(* When a frame of the MCU is accepted after others were not shown, and no    *)
(* error is counted for it, these were whole turns of the counter, or the     *)
(* frame follows the counter value 0.                                         *)
THEOREM GapsAreCounted == ValidationSpec => GapIsCounted
  <1>1. ValidationInv /\ [ValidationNext]_validationVars
          => [accepted /\ behind > 0 /\ behind' = 0 /\ mcuCounter' # mcuCounter =>
                behind % Modulus = 0 \/ lastE2ECounter = 0]_validationVars
    <2> SUFFICES ASSUME ValidationInv, ValidationNext, behind > 0, behind' = 0,
                        mcuCounter' # mcuCounter, lastE2ECounter # 0
                 PROVE  behind % Modulus = 0
      OBVIOUS
    <2>1. behind \in Nat /\ OneMoreBehind = behind + 1
      BY BehindIsExact
    <2>2. ~Lose /\ ~Announce /\ ~RunBegins /\ ~RunLoop /\ ~Shutdown /\ ~Repeat
      BY <2>1 DEF Lose, Announce, RunBegins, RunLoop, Shutdown, Repeat, histories
    <2>3. Deliver /\ ValidateE2E(mcuCounter)
      BY <2>1, <2>2 DEF ValidationNext, Deliver
    <2>4. /\ lastE2ECounter \in Nat
          /\ (lastE2ECounter + 1 + behind) % Modulus = (lastE2ECounter + 1) % Modulus
      BY <2>3, ModulusFacts DEF ValidateE2E, ExpectedCounter, ValidationInv, ValidationTypeOK,
                                CounterInv
    <2> QED BY <2>1, <2>4, ModWholeTurns
  <1> QED BY <1>1, InitValidationInv, StepValidationInv, PTL DEF ValidationSpec, GapIsCounted
-----------------------------------------------------------------------------
(***************************************************************************)
(* SomeIpMessage: any messages, sizes and number of objects.               *)
(***************************************************************************)
MessageInv == MessageTypeOK /\ WholeOrRefused

LEMMA PayloadIsSeq ==
  ASSUME NEW i \in Ids
  PROVE  /\ PayloadOf(i) \in Seq(Ids)
         /\ Len(PayloadOf(i)) = SizeOf[i]
         /\ SizeOf[i] \in Nat
         /\ (8 + SizeOf[i]) % Word = 8 + SizeOf[i]
         /\ (HeaderLen + SizeOf[i]) % Word = HeaderLen + SizeOf[i]
  <1>1. SizeOf[i] \in Nat
    BY SizeAssumption
  <1>2. PayloadOf(i) \in Seq(Ids) /\ Len(PayloadOf(i)) = SizeOf[i]
    BY <1>1 DEF PayloadOf
  <1>3. Word \in Nat \ {0} /\ HeaderLen = 16 /\ HeaderLen + SizeOf[i] < Word
    BY SizeAssumption, <1>1 DEF HeaderLen
  <1>4. \A x \in 0..Word - 1 : x % Word = x
    BY <1>3
  <1>5. 8 + SizeOf[i] \in 0..Word - 1 /\ HeaderLen + SizeOf[i] \in 0..Word - 1
    BY <1>1, <1>3
  <1> QED BY <1>1, <1>2, <1>4, <1>5

(* What is sent carries one message's header, length and payload: an object   *)
(* that is passed on has no other.                                            *)
LEMMA SentIsWhole ==
  ASSUME MessageInv, NEW b \in Sent
  PROVE  \E i \in Ids : b = [header |-> i, length |-> 8 + SizeOf[i], rest |-> PayloadOf(i)]
  <1>1. ASSUME NEW m, NEW i \in Ids, m.header = i, m.payload = PayloadOf(i)
        PROVE  Serialize(m) = [header |-> i, length |-> 8 + SizeOf[i], rest |-> PayloadOf(i)]
    BY <1>1, PayloadIsSeq DEF Serialize
  <1>2. CASE \E i \in Ids : b = Serialize(Built(i))
    BY <1>1, <1>2 DEF Built
  <1>3. CASE \E g \in Hops : ok[g] /\ b = Serialize(msg[g])
    BY <1>1, <1>3 DEF MessageInv, MessageTypeOK, WholeOrRefused
  <1> QED BY <1>2, <1>3 DEF Sent

(* The beginning of a buffer that another message runs into. *)
LEMMA RunTogether ==
  ASSUME NEW s \in Seq(Ids), NEW t \in Seq(Ids), NEW u \in Seq(Ids)
  PROVE  s \o t \o u \in Seq(Ids) /\ SubSeq(s \o t \o u, 1, Len(s)) = s
  <1> DEFINE v == t \o u
  <1>1. v \in Seq(Ids) /\ s \o v \in Seq(Ids)
    <2>1. v \in Seq(Ids)
      BY ConcatProperties, Zenon
    <2> HIDE DEF v
    <2> QED BY <2>1, ConcatProperties, Zenon
  <1>2. s \o t \o u = s \o (t \o u)
    BY ConcatAssociative
  <1>3. SubSeq(s \o (t \o u), 1, Len(s)) = s
    <2>1. CASE Len(s) = 0
      <3>1. s = <<>>
        BY <2>1
      <3>2. SubSeq(s \o (t \o u), 1, 0) = <<>>
        BY SubSeqEmpty
      <3> QED BY <2>1, <3>1, <3>2
    <2>2. CASE Len(s) # 0
      <3>1. 1 \in 1..Len(s) /\ Len(s) \in 1..Len(s)
        BY <2>2
      <3>2. SubSeq(s \o (t \o u), 1, Len(s)) = SubSeq(s, 1, Len(s))
        BY <1>1, <3>1, SubSeqOfConcat1
      <3>3. SubSeq(s, 1, Len(s)) = s
        BY SubSeqFull
      <3> QED BY <3>2, <3>3
    <2> QED BY <2>1, <2>2
  <1> QED BY <1>1, <1>2, <1>3

(* Of what arrives, the bytes the length asks for are the payload, if they    *)
(* are all there.                                                             *)
LEMMA ArrivalBegins ==
  ASSUME NEW i \in Ids, NEW b,
         b = [header |-> i, length |-> 8 + SizeOf[i], rest |-> PayloadOf(i)],
         NEW data \in Arrivals(b)
  PROVE  /\ data.header = i /\ data.length = 8 + SizeOf[i]
         /\ data.rest \in Seq(Ids)
         /\ Len(data.rest) >= SizeOf[i] => SubSeq(data.rest, 1, SizeOf[i]) = PayloadOf(i)
  <1>1. /\ b.rest = PayloadOf(i) /\ b.rest \in Seq(Ids) /\ Len(b.rest) = SizeOf[i]
        /\ SizeOf[i] \in Nat
    BY PayloadIsSeq
  <1>2. CASE \E n \in 0..Len(b.rest) : data = [b EXCEPT !.rest = SubSeq(b.rest, 1, n)]
    <2> PICK n \in 0..Len(b.rest) : data = [b EXCEPT !.rest = SubSeq(b.rest, 1, n)]
      BY <1>2
    <2>1. data.rest = SubSeq(b.rest, 1, n)
      OBVIOUS
    <2>2. data.rest \in Seq(Ids) /\ Len(data.rest) = n
      BY <1>1, <2>1, SubSeqProperties
    <2>3. Len(data.rest) >= SizeOf[i] => SubSeq(data.rest, 1, SizeOf[i]) = PayloadOf(i)
      <3> SUFFICES ASSUME n = SizeOf[i] PROVE SubSeq(data.rest, 1, SizeOf[i]) = PayloadOf(i)
        BY <1>1, <2>2
      <3>1. \A s \in Seq(Ids) : SubSeq(s, 1, Len(s)) = s
        BY SubSeqProperties
      <3> QED BY <1>1, <2>1, <3>1
    <2> QED BY <2>2, <2>3
  <1>3. CASE \E j \in Ids :
               data = [b EXCEPT !.rest = b.rest \o [k \in 1..HeaderLen |-> j] \o PayloadOf(j)]
    <2> PICK j \in Ids :
               data = [b EXCEPT !.rest = b.rest \o [k \in 1..HeaderLen |-> j] \o PayloadOf(j)]
      BY <1>3
    <2> DEFINE s == b.rest
               t == [k \in 1..HeaderLen |-> j]
               u == PayloadOf(j)
    <2>1. s \in Seq(Ids) /\ t \in Seq(Ids) /\ u \in Seq(Ids)
      BY <1>1, PayloadIsSeq DEF HeaderLen
    <2>2. data.rest = s \o t \o u
      OBVIOUS
    <2>3. s \o t \o u \in Seq(Ids) /\ SubSeq(s \o t \o u, 1, Len(s)) = s
      <3> HIDE DEF s, t, u
      <3> QED BY <2>1, RunTogether
    <2>4. data.rest \in Seq(Ids) /\ SubSeq(data.rest, 1, SizeOf[i]) = PayloadOf(i)
      BY <1>1, <2>2, <2>3, Zenon
    <2>5. data.header = i /\ data.length = 8 + SizeOf[i]
      OBVIOUS
    <2> QED BY <2>4, <2>5
  <1> QED BY <1>2, <1>3 DEF Arrivals

LEMMA StepMessageInv == MessageInv /\ [MessageNext]_messageVars => MessageInv'
  <1> SUFFICES ASSUME MessageInv, [MessageNext]_messageVars PROVE MessageInv'
    OBVIOUS
  <1> USE DEF MessageInv, MessageTypeOK, WholeOrRefused
  <1>1. ASSUME NEW h \in Hops, NEW b \in Sent, NEW data \in Arrivals(b), Deserialize(h, data)
        PROVE  MessageInv'
    <2> PICK i \in Ids : b = [header |-> i, length |-> 8 + SizeOf[i], rest |-> PayloadOf(i)]
      BY SentIsWhole
    <2>1. /\ data.header = i /\ data.length = 8 + SizeOf[i]
          /\ data.rest \in Seq(Ids)
          /\ Len(data.rest) >= SizeOf[i] => SubSeq(data.rest, 1, SizeOf[i]) = PayloadOf(i)
      BY ArrivalBegins
    <2>2. PayloadLen(data) = SizeOf[i] /\ SizeOf[i] \in Nat /\ PayloadOf(i) \in Seq(Ids)
      BY <2>1, PayloadIsSeq DEF PayloadLen
    <2>3. Size(data) < (HeaderLen + PayloadLen(data)) % Word <=> Len(data.rest) < SizeOf[i]
      <3> DEFINE l == Len(data.rest)
                 z == SizeOf[i]
      <3>1. l \in Nat /\ z \in Nat
        BY <2>1, <2>2
      <3>2. /\ Size(data) = HeaderLen + l
            /\ (HeaderLen + PayloadLen(data)) % Word = HeaderLen + z
        BY <2>2, PayloadIsSeq DEF Size
      <3> HIDE DEF l, z
      <3>3. HeaderLen + l < HeaderLen + z <=> l < z
        BY <3>1 DEF HeaderLen
      <3> QED BY <3>2, <3>3 DEF l, z
    <2>4. CASE Len(data.rest) < SizeOf[i]
      <3>1. /\ msg' = [msg EXCEPT ![h].header = i]
            /\ ok' = [ok EXCEPT ![h] = FALSE]
        BY <1>1, <2>1, <2>3, <2>4 DEF Deserialize
      <3> QED BY <3>1
    <2>5. CASE ~(Len(data.rest) < SizeOf[i])
      <3>1. SubSeq(data.rest, 1, PayloadLen(data)) = PayloadOf(i)
        BY <2>1, <2>2, <2>5
      <3>2. /\ msg' = [msg EXCEPT ![h].header = i, ![h].payload = PayloadOf(i)]
            /\ ok' = [ok EXCEPT ![h] = TRUE]
        BY <1>1, <2>1, <2>3, <2>5, <3>1 DEF Deserialize
      <3>3. /\ msg'[h].header = i /\ msg'[h].payload = PayloadOf(i)
            /\ msg' \in [Hops -> [header: Ids, payload: Seq(Ids)]]
            /\ \A g \in Hops \ {h} : msg'[g] = msg[g] /\ ok'[g] = ok[g]
        BY <2>2, <3>2
      <3>4. MessageTypeOK'
        BY <3>2, <3>3
      <3>5. WholeOrRefused'
        BY <3>3
      <3> QED BY <3>4, <3>5
    <2> QED BY <2>4, <2>5
  <1>2. ASSUME NEW h \in Hops, DeserializeRunt(h) PROVE MessageInv'
    BY <1>2 DEF DeserializeRunt
  <1>3. CASE UNCHANGED messageVars
    BY <1>3 DEF messageVars
  <1> QED BY <1>1, <1>2, <1>3 DEF MessageNext

(* Every object holds a header and bytes of messages that exist, accepted or  *)
(* not, and a message is accepted whole or not at all: over any number of     *)
(* hops and reuses, for any sizes that fit the 32-bit length, with buffers    *)
(* cut or run together.                                                       *)
THEOREM MessagesAreWhole == MessageSpec => [](MessageTypeOK /\ WholeOrRefused)
  <1>1. MessageInit => MessageInv
    <2>1. <<>> \in Seq(Ids)
      OBVIOUS
    <2> QED BY <2>1 DEF MessageInit, MessageInv, MessageTypeOK, WholeOrRefused
  <1>2. MessageInv => MessageTypeOK /\ WholeOrRefused
    BY DEF MessageInv
  <1> QED BY <1>1, <1>2, StepMessageInv, PTL DEF MessageSpec

(* Nothing that arrives whole is refused: an object of any history takes from *)
(* a whole buffer exactly the message it was made of.                         *)
THEOREM WholeMessagesAreTaken ==
  \A h \in Hops, i \in Ids :
    MessageTypeOK /\ Deserialize(h, Serialize(Built(i))) => ok'[h] /\ msg'[h] = Built(i)
  <1> SUFFICES ASSUME NEW h \in Hops, NEW i \in Ids, MessageTypeOK,
                      Deserialize(h, Serialize(Built(i)))
               PROVE  ok'[h] /\ msg'[h] = Built(i)
    OBVIOUS
  <1> DEFINE b == Serialize(Built(i))
  <1>1. b = [header |-> i, length |-> 8 + SizeOf[i], rest |-> PayloadOf(i)]
    BY PayloadIsSeq DEF Serialize, Built
  <1>2. Deserialize(h, b)
    OBVIOUS
  <1> HIDE DEF b
  <1>3. PayloadLen(b) = SizeOf[i] /\ Size(b) = HeaderLen + SizeOf[i] /\ SizeOf[i] \in Nat
    BY <1>1, PayloadIsSeq DEF PayloadLen, Size
  <1>4. ~(Size(b) < (HeaderLen + PayloadLen(b)) % Word)
    BY <1>3, PayloadIsSeq DEF HeaderLen
  <1>5. SubSeq(b.rest, 1, PayloadLen(b)) = PayloadOf(i)
    <2>1. SubSeq(PayloadOf(i), 1, Len(PayloadOf(i))) = PayloadOf(i)
      BY PayloadIsSeq, SubSeqFull
    <2> QED BY <1>1, <1>3, <2>1, PayloadIsSeq
  <1>6. /\ msg' = [msg EXCEPT ![h].header = i, ![h].payload = PayloadOf(i)]
        /\ ok' = [ok EXCEPT ![h] = TRUE]
    BY <1>1, <1>2, <1>4, <1>5 DEF Deserialize
  <1> QED BY <1>6 DEF MessageTypeOK, Built
=============================================================================
