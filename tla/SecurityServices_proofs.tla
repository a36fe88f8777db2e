------------------------ MODULE SecurityServices_proofs ------------------------
(***************************************************************************)
(* Identity management and the key store, for every set of threads,        *)
(* subjects, policies and key materials, and every width of the key ids.   *)
(***************************************************************************)
EXTENDS SecurityServices, TLAPS

(* A step of the process is a step of one service or of none. *)
LEMMA OneService == [Next]_vars => [IamNext]_iamVars /\ [KeyNext]_keyVars
BY DEF Next, vars
-----------------------------------------------------------------------------
(* The types of ara::iam. *)
LEMMA IamTypeInit == IamInit => IamTypeOK
<1> SUFFICES ASSUME IamInit PROVE IamTypeOK
  OBVIOUS
<1>1. [op |-> "free", granted |-> FALSE] \in Returned
  BY DEF Returned
<1>2. call \in [Threads -> Returned \cup Issuing \cup Checking]
  BY <1>1 DEF IamInit
<1>3. subjects \in [Subjects -> [roles : SUBSET Roles, revoked : BOOLEAN] \cup {NoRecord}]
  BY DEF IamInit
<1> QED
  BY <1>2, <1>3 DEF IamInit, IamTypeOK

LEMMA IamTypeStep == IamTypeOK /\ [IamNext]_iamVars => IamTypeOK'
<1> SUFFICES ASSUME IamTypeOK, [IamNext]_iamVars PROVE IamTypeOK'
  OBVIOUS
<1> USE DEF IamTypeOK, Steps, Returns
<1>1. CASE Initialize
  BY <1>1, PoliciesAssumption DEF Initialize
<1>2. ASSUME NEW policy \in Extras, RegisterPolicy(policy) PROVE IamTypeOK'
  BY <1>2, PoliciesAssumption DEF RegisterPolicy
<1>4. ASSUME NEW th \in Threads, NEW s \in Subjects, NEW roles \in RoleSets, MakeToken(th, s, roles)
      PROVE  IamTypeOK'
  BY <1>4, RolesAssumption, LifetimeAssumption DEF MakeToken, Issuing, IdentityToken
<1>5. ASSUME NEW th \in Threads, RegisterSubject(th) PROVE IamTypeOK'
  <2>1. call[th].token \in IdentityToken
    BY <1>5 DEF RegisterSubject, Returned, Issuing, Checking
  <2> QED
    BY <1>5, <2>1 DEF RegisterSubject, Returned, IdentityToken
<1>6. ASSUME NEW th \in Threads, DecideAccess(th) PROVE IamTypeOK'
  BY <1>6 DEF DecideAccess, Returned, Allows
<1>7. ASSUME NEW s \in Subjects, RevokeToken(s) PROVE IamTypeOK'
  <2>1. CASE subjects[s] = NoRecord
    BY <1>7, <2>1 DEF RevokeToken
  <2>2. CASE subjects[s] # NoRecord
    <3>1. subjects[s].roles \in SUBSET Roles
      BY <2>2
    <3>2. /\ subjects' = [subjects EXCEPT ![s] = [roles |-> subjects[s].roles, revoked |-> TRUE]]
          /\ barred' = barred \cup {s}
          /\ UNCHANGED <<policies, now, call>>
      BY <1>7, <2>2 DEF RevokeToken
    <3> QED
      BY <3>1, <3>2
  <2> QED
    BY <2>1, <2>2
<1>8. ASSUME NEW th \in Threads, NEW token \in Tokens, NEW request \in Requests,
             BeginCheckAccess(th, token, request)
      PROVE  IamTypeOK'
  <2>1. CASE ~IsValid(token)
    <3>1. [op |-> "free", granted |-> FALSE] \in Returned
      BY DEF Returned
    <3>2. call' = [call EXCEPT ![th] = [op |-> "free", granted |-> FALSE]]
      BY <1>8, <2>1 DEF BeginCheckAccess
    <3> QED
      BY <1>8, <3>1, <3>2 DEF BeginCheckAccess
  <2>2. CASE IsValid(token)
    <3>1. [op |-> "check", token |-> token, request |-> request] \in Checking
      BY RequestsAssumption, TokensAssumption DEF Checking
    <3> QED
      BY <1>8, <2>2, <3>1 DEF BeginCheckAccess
  <2> QED
    BY <2>1, <2>2
<1>9. CASE Tick
  BY <1>9 DEF Tick
<1>10. CASE UNCHANGED iamVars
  BY <1>10 DEF iamVars
<1> QED
  BY <1>1, <1>2, <1>4, <1>5, <1>6, <1>7, <1>8, <1>9, <1>10 DEF IamNext

(* A subject is barred exactly while its record is revoked. *)
BarredIffRevoked == \A s \in Subjects : s \in barred <=> Revoked(s)

IamInv == IamTypeOK /\ BarredIffRevoked

LEMMA IamInvInit == IamInit => IamInv
BY IamTypeInit, NoRecordAssumption
DEF IamInit, IamInv, BarredIffRevoked, Revoked

LEMMA BarredStep == IamInv /\ [IamNext]_iamVars => BarredIffRevoked'
<1> SUFFICES ASSUME IamTypeOK, BarredIffRevoked, [IamNext]_iamVars PROVE BarredIffRevoked'
  BY DEF IamInv
<1> USE NoRecordAssumption DEF BarredIffRevoked, Revoked
<1>1. ASSUME UNCHANGED <<subjects, barred>> PROVE BarredIffRevoked'
  BY <1>1
<1>2. ASSUME NEW th \in Threads, RegisterSubject(th) PROVE BarredIffRevoked'
  <2>1. call[th].token.subjectId \in Subjects
    BY <1>2 DEF RegisterSubject, IamTypeOK, Returned, Issuing, Checking, IdentityToken
  <2> QED
    BY <1>2, <2>1 DEF RegisterSubject, IamTypeOK
<1>3. ASSUME NEW s \in Subjects, RevokeToken(s) PROVE BarredIffRevoked'
  <2>1. CASE subjects[s] = NoRecord
    BY <1>1, <1>3, <2>1 DEF RevokeToken
  <2>2. CASE subjects[s] # NoRecord
    <3>1. subjects[s].roles \in SUBSET Roles
      BY <2>2 DEF IamTypeOK
    <3>2. /\ subjects' = [subjects EXCEPT ![s] = [roles |-> subjects[s].roles, revoked |-> TRUE]]
          /\ barred' = barred \cup {s}
      BY <1>3, <2>2 DEF RevokeToken
    <3>3. [roles |-> subjects[s].roles, revoked |-> TRUE] \in [roles : SUBSET Roles, revoked : BOOLEAN]
      BY <3>1
    <3> QED
      BY <3>2, <3>3 DEF IamTypeOK
  <2> QED
    BY <2>1, <2>2
<1> QED
  BY <1>1, <1>2, <1>3
  DEF IamNext, Initialize, RegisterPolicy, MakeToken, DecideAccess,
      BeginCheckAccess, Tick, iamVars

LEMMA IamInvStep == IamInv /\ [IamNext]_iamVars => IamInv'
BY IamTypeStep, BarredStep DEF IamInv
-----------------------------------------------------------------------------
(* The only step that grants is the decision under the lock. *)
LEMMA GrantIsDecided ==
  ASSUME IamTypeOK, [IamNext]_iamVars, NEW th \in Threads, Grants(th)
  PROVE  /\ Allows(call[th].token, call[th].request)
         /\ call[th].token \in IdentityToken
<1> USE DEF Grants, IamTypeOK
<1>1. call[th].token \in IdentityToken
  BY DEF Returned, Issuing, Checking
<1>2. call'[th] # call[th] /\ call'[th] = [op |-> "free", granted |-> TRUE]
  OBVIOUS
<1>3. ASSUME NEW x \in Threads, NEW next, Steps(x, next) PROVE x = th /\ call'[th] = next
  BY <1>2, <1>3 DEF Steps
<1>4. ASSUME NEW x \in Threads, DecideAccess(x) PROVE Allows(call[th].token, call[th].request)
  <2>1. x = th
    BY <1>3, <1>4 DEF DecideAccess, Returns
  <2> DEFINE g == Allows(call[x].token, call[x].request)
  <2>2. Steps(x, [op |-> "free", granted |-> g])
    BY <1>4 DEF DecideAccess, Returns
  <2> HIDE DEF g
  <2>3. call'[th] = [op |-> "free", granted |-> g]
    BY <1>3, <2>2
  <2>4. g = TRUE
    BY <1>2, <2>3
  <2> QED
    BY <2>1, <2>4 DEF g
<1>5. ASSUME NEW x \in Threads, RegisterSubject(x) PROVE FALSE
  BY <1>3, <1>5 DEF RegisterSubject, Returns
<1>6. ASSUME NEW x \in Threads, NEW s \in Subjects, NEW roles \in RoleSets, MakeToken(x, s, roles) PROVE FALSE
  BY <1>3, <1>6 DEF MakeToken
<1>7. ASSUME NEW x \in Threads, NEW token \in Tokens, NEW request \in Requests,
             BeginCheckAccess(x, token, request)
      PROVE  FALSE
  BY <1>3, <1>7 DEF BeginCheckAccess, Returns, Steps
<1>8. ASSUME UNCHANGED call PROVE FALSE
  BY <1>2, <1>8
<1> QED
  BY <1>1, <1>4, <1>5, <1>6, <1>7, <1>8
  DEF IamNext, Initialize, RegisterPolicy, RevokeToken, Tick, iamVars

LEMMA RevocationStep ==
  IamInv /\ [IamNext]_iamVars =>
    \A th \in Threads : Grants(th) => call[th].token.subjectId \notin barred
BY GrantIsDecided DEF IamInv, BarredIffRevoked, Allows, IdentityToken

LEMMA PoliciesGrow == [IamNext]_iamVars => policies \subseteq policies'
BY DEF IamNext, Initialize, RegisterPolicy, MakeToken, RegisterSubject, RevokeToken,
       BeginCheckAccess, DecideAccess, Tick, iamVars

LEMMA StableStep ==
  IamInv /\ [IamNext]_iamVars =>
    \A token \in Tokens, request \in Requests :
       Allows(token, request) /\ ~Allows(token, request)' => token.subjectId \in barred'
<1> SUFFICES ASSUME IamInv, [IamNext]_iamVars, NEW token \in Tokens, NEW request \in Requests,
                    Allows(token, request), ~Allows(token, request)'
             PROVE  token.subjectId \in barred'
  OBVIOUS
<1>1. GrantedBy(token.roles, request)'
  BY PoliciesGrow DEF Allows, GrantedBy
<1>2. Revoked(token.subjectId)'
  BY <1>1 DEF Allows
<1>3. token.subjectId \in Subjects
  BY TokensAssumption DEF IdentityToken
<1> QED
  BY <1>2, <1>3, IamInvStep DEF IamInv, BarredIffRevoked

(* The types of ara::crypto. *)
LEMMA KeyTypeInit == KeyInit => KeyTypeOK
BY MaxKeyIdAssumption DEF KeyInit, KeyTypeOK, KeyIds

LEMMA KeyTypeStep == KeyTypeOK /\ [KeyNext]_keyVars => KeyTypeOK'
<1> SUFFICES ASSUME KeyTypeOK, [KeyNext]_keyVars PROVE KeyTypeOK'
  OBVIOUS
<1> USE DEF KeyTypeOK
<1>1. ASSUME NEW material \in Materials, DrawId(material) PROVE KeyTypeOK'
  <2>1. nextKeyId' \in KeyIds
    BY <1>1, MaxKeyIdAssumption DEF DrawId, KeyIds
  <2> QED
    BY <1>1, <2>1 DEF DrawId, Bound
<1>2. ASSUME NEW key \in generating, StoreKey(key) PROVE KeyTypeOK'
  BY <1>2 DEF StoreKey, Bound
<1>3. ASSUME NEW id \in KeyIds, LoadKey(id) PROVE KeyTypeOK'
  BY <1>3 DEF LoadKey, Bound
<1>4. ASSUME NEW key \in handles, Encrypt(key) PROVE KeyTypeOK'
  BY <1>4 DEF Encrypt, Found, Bound
<1>5. CASE UNCHANGED keyVars
  BY <1>5 DEF keyVars
<1> QED
  BY <1>1, <1>2, <1>3, <1>4, <1>5 DEF KeyNext

(* No step changes a record. *)
LEMMA RecordsStay ==
  ASSUME KeyTypeOK, [KeyNext]_keyVars, NEW id \in KeyIds, keyStore[id] # NoKey
  PROVE  keyStore'[id] = keyStore[id]
<1>1. ASSUME NEW key \in generating, StoreKey(key) PROVE keyStore'[id] = keyStore[id]
  BY <1>1 DEF StoreKey, KeyTypeOK
<1> QED
  BY <1>1 DEF KeyNext, DrawId, LoadKey, Encrypt, keyVars

(* A text is bound to the record of its key. *)
TextsAreBound == \A text \in texts : keyStore[text.id] = text.material

LEMMA TextsStep == KeyTypeOK /\ TextsAreBound /\ [KeyNext]_keyVars => TextsAreBound'
<1> SUFFICES ASSUME KeyTypeOK, TextsAreBound, [KeyNext]_keyVars, NEW text \in texts'
             PROVE  keyStore'[text.id] = text.material
  BY DEF TextsAreBound
<1>1. CASE text \in texts
  <2>1. text.id \in KeyIds /\ keyStore[text.id] = text.material /\ keyStore[text.id] # NoKey
    BY <1>1, NoKeyAssumption DEF KeyTypeOK, TextsAreBound, Bound
  <2> QED
    BY <2>1, RecordsStay
<1>2. CASE text \notin texts
  <2>1. PICK key \in handles : Encrypt(key)
    BY <1>2 DEF KeyNext, DrawId, StoreKey, LoadKey, keyVars
  <2> QED
    BY <1>2, <2>1 DEF Encrypt
<1> QED
  BY <1>1, <1>2

LEMMA BoundIsReadable == KeyTypeOK /\ TextsAreBound => StaysReadable
BY NoKeyAssumption DEF KeyTypeOK, TextsAreBound, StaysReadable, Decrypt, Verify, Found, Bound
-----------------------------------------------------------------------------
(* The ids drawn until the counter comes round. *)
Drawn(id) == id \in 1..drawn \/ (id = 0 /\ drawn = MaxKeyId + 1)

(* Until then the counter is ahead of every id in use, calls under way have   *)
(* ids of their own without a record, and handles agree with their records.   *)
FreshIds ==
  drawn <= MaxKeyId + 1 =>
    /\ drawn <= MaxKeyId => nextKeyId = (IF drawn = MaxKeyId THEN 0 ELSE drawn + 1)
    /\ \A id \in KeyIds : keyStore[id] # NoKey => Drawn(id)
    /\ \A key \in generating : Drawn(key.id) /\ keyStore[key.id] = NoKey
    /\ \A key, other \in generating : key.id = other.id => key = other
    /\ \A key \in handles : keyStore[key.id] = key.material

LEMMA FreshInit == KeyInit => FreshIds
BY MaxKeyIdAssumption DEF KeyInit, FreshIds, KeyIds

LEMMA FreshStep == KeyTypeOK /\ FreshIds /\ [KeyNext]_keyVars => FreshIds'
<1> SUFFICES ASSUME KeyTypeOK, FreshIds, [KeyNext]_keyVars, drawn' <= MaxKeyId + 1
             PROVE  FreshIds'
  BY DEF FreshIds
<1> USE MaxKeyIdAssumption DEF KeyTypeOK, Bound
<1>1. ASSUME NEW material \in Materials, DrawId(material) PROVE FreshIds'
  <2>1. drawn <= MaxKeyId /\ drawn' = drawn + 1 /\ keyStore' = keyStore /\ handles' = handles
    BY <1>1 DEF DrawId
  <2>2. nextKeyId = (IF drawn = MaxKeyId THEN 0 ELSE drawn + 1) /\ nextKeyId \in KeyIds
    BY <2>1 DEF FreshIds
  <2>3. ~Drawn(nextKeyId) /\ (nextKeyId \in 1..drawn' \/ (nextKeyId = 0 /\ drawn' = MaxKeyId + 1))
    <3>1. drawn \in Nat /\ MaxKeyId \in Nat
      OBVIOUS
    <3>2. CASE drawn = MaxKeyId
      BY <2>1, <2>2, <3>1, <3>2 DEF Drawn
    <3>3. CASE drawn # MaxKeyId
      BY <2>1, <2>2, <3>1, <3>3 DEF Drawn
    <3> QED
      BY <3>2, <3>3
  <2>4. \A id \in KeyIds : Drawn(id) => Drawn(id)'
    BY <2>1 DEF Drawn, KeyIds
  <2>5. drawn' <= MaxKeyId => nextKeyId' = (IF drawn' = MaxKeyId THEN 0 ELSE drawn' + 1)
    BY <1>1, <2>1, <2>2 DEF DrawId
  <2>6. keyStore[nextKeyId] = NoKey /\ \A key \in generating : key.id # nextKeyId
    BY <2>1, <2>2, <2>3 DEF FreshIds
  <2>7. generating' = generating \cup {[id |-> nextKeyId, material |-> material]}
    BY <1>1 DEF DrawId
  <2>8. \A key \in generating' : Drawn(key.id)' /\ keyStore'[key.id] = NoKey
    <3> SUFFICES ASSUME NEW key \in generating'
                 PROVE  Drawn(key.id)' /\ keyStore'[key.id] = NoKey
      OBVIOUS
    <3>1. CASE key \in generating
      BY <2>1, <2>4, <3>1 DEF FreshIds
    <3>2. CASE key.id = nextKeyId
      BY <2>1, <2>3, <2>6, <3>2 DEF Drawn
    <3> QED
      BY <2>7, <3>1, <3>2
  <2>9. \A key, other \in generating' : key.id = other.id => key = other
    BY <2>1, <2>6, <2>7 DEF FreshIds
  <2>10. \A id \in KeyIds : keyStore'[id] # NoKey => Drawn(id)'
    BY <2>1, <2>4 DEF FreshIds
  <2>11. \A key \in handles' : keyStore'[key.id] = key.material
    BY <2>1 DEF FreshIds
  <2> QED
    BY <2>5, <2>8, <2>9, <2>10, <2>11 DEF FreshIds
<1>2. ASSUME NEW key \in generating, StoreKey(key) PROVE FreshIds'
  <2>1. drawn' = drawn /\ nextKeyId' = nextKeyId
    BY <1>2 DEF StoreKey
  <2>2. keyStore[key.id] = NoKey /\ Drawn(key.id) /\ key.id \in KeyIds /\ key.material \in Materials
    BY <2>1 DEF FreshIds
  <2>3. /\ keyStore' = [keyStore EXCEPT ![key.id] = key.material]
        /\ generating' = generating \ {key}
        /\ handles' = handles \cup {key}
    BY <1>2, <2>2 DEF StoreKey
  <2>4. \A id : Drawn(id)' <=> Drawn(id)
    BY <2>1 DEF Drawn
  <2>5. \A other \in generating' : other.id # key.id
    BY <2>1, <2>3 DEF FreshIds
  <2>6. \A id \in KeyIds : keyStore'[id] # NoKey => Drawn(id)'
    BY <2>1, <2>2, <2>3, <2>4 DEF FreshIds
  <2>7. \A other \in generating' : Drawn(other.id)' /\ keyStore'[other.id] = NoKey
    BY <2>1, <2>3, <2>4, <2>5 DEF FreshIds
  <2>8. \A other \in handles' : keyStore'[other.id] = other.material
    <3>1. \A other \in handles : keyStore[other.id] = other.material /\ other.id # key.id
      BY <2>1, <2>2, NoKeyAssumption DEF FreshIds
    <3> QED
      BY <2>2, <2>3, <3>1
  <2> QED
    BY <2>1, <2>3, <2>6, <2>7, <2>8 DEF FreshIds
<1>3. ASSUME NEW id \in KeyIds, LoadKey(id) PROVE FreshIds'
  BY <1>3 DEF LoadKey, FreshIds, Drawn
<1>4. ASSUME NEW key \in handles, Encrypt(key) PROVE FreshIds'
  BY <1>4 DEF Encrypt, FreshIds, Drawn
<1>5. CASE UNCHANGED keyVars
  BY <1>5 DEF keyVars, FreshIds, Drawn
<1> QED
  BY <1>1, <1>2, <1>3, <1>4, <1>5 DEF KeyNext

LEMMA FreshIsOwn == KeyTypeOK /\ FreshIds => HandlesAreOwn
BY NoKeyAssumption DEF KeyTypeOK, FreshIds, HandlesAreOwn, Bound
-----------------------------------------------------------------------------
KeyInv == KeyTypeOK /\ TextsAreBound /\ FreshIds

LEMMA KeyInvInit == KeyInit => KeyInv
BY KeyTypeInit, FreshInit DEF KeyInv, KeyInit, TextsAreBound

LEMMA KeyInvStep == KeyInv /\ [KeyNext]_keyVars => KeyInv'
BY KeyTypeStep, TextsStep, FreshStep DEF KeyInv

(* Every variable of the two services keeps its type.                        *)
THEOREM SecurityTypes == Spec => []TypeOK
<1>1. Init => TypeOK
  BY IamTypeInit, KeyTypeInit DEF Init, TypeOK
<1>2. TypeOK /\ [Next]_vars => TypeOK'
  BY OneService, IamTypeStep, KeyTypeStep DEF TypeOK
<1> QED
  BY <1>1, <1>2, PTL DEF Spec

LEMMA IamInvHolds == Spec => []IamInv
<1>1. Init => IamInv
  BY IamInvInit DEF Init
<1>2. IamInv /\ [Next]_vars => IamInv'
  BY OneService, IamInvStep
<1> QED
  BY <1>1, <1>2, PTL DEF Spec

LEMMA KeyInvHolds == Spec => []KeyInv
<1>1. Init => KeyInv
  BY KeyInvInit DEF Init
<1>2. KeyInv /\ [Next]_vars => KeyInv'
  BY OneService, KeyInvStep
<1> QED
  BY <1>1, <1>2, PTL DEF Spec

(* Nothing is granted to a subject between its revocation and its next       *)
(* registration, whatever calls were under way.                              *)
THEOREM RevocationIsEffective == Spec => RevocationHolds
<1>1. IamInv /\ [Next]_vars =>
        [\A th \in Threads : Grants(th) => call[th].token.subjectId \notin barred]_iamVars
  BY OneService, RevocationStep
<1> QED
  BY <1>1, IamInvHolds, PTL DEF Spec, RevocationHolds

(* Only a revocation takes away what a token allows.                         *)
THEOREM AccessStays == Spec => AccessIsStable
<1>1. IamInv /\ [Next]_vars =>
        [\A token \in Tokens, request \in Requests :
           Allows(token, request) /\ ~Allows(token, request)' => token.subjectId \in barred']_iamVars
  BY OneService, StableStep
<1> QED
  BY <1>1, IamInvHolds, PTL DEF Spec, AccessIsStable

(* What was encrypted under an id stays readable under it, also when the     *)
(* 32-bit ids have come round.                                               *)
THEOREM TextsStayReadable == Spec => []StaysReadable
<1>1. KeyInv => StaysReadable
  BY BoundIsReadable DEF KeyInv
<1> QED
  BY <1>1, KeyInvHolds, PTL

(* Until the ids come round, a handle stands for the key it was returned     *)
(* for, however the calls of GenerateKey overlap.                            *)
THEOREM KeysAreOwn == Spec => []HandlesAreOwn
<1>1. KeyInv => HandlesAreOwn
  BY FreshIsOwn DEF KeyInv
<1> QED
  BY <1>1, KeyInvHolds, PTL
=============================================================================
