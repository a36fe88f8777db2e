---------------------------- MODULE IdentityAccess ----------------------------
(***************************************************************************)
(* ara::iam: runtime tokens, revocation and policy checks.  The singleton  *)
(* has one mutex_, but IssueRuntimeToken makes the token before it takes   *)
(* it, and CheckAccess reads the clock before it takes it: each is a call  *)
(* of two steps, between which other threads go on.                        *)
(***************************************************************************)
EXTENDS Naturals

CONSTANTS
  Threads,      (* who calls                                                *)
  Subjects,     (* application names                                        *)
  Roles,
  RoleSets,     (* the sets of roles applications are started with          *)
  Resources,
  Defaults,     (* the policies Initialize() loads                          *)
  Extras,       (* policies that are registered besides                     *)
  Requests,     (* what the applications ask for                            *)
  Tokens,       (* the tokens they present, issued or made up               *)
  Lifetime,     (* 3600 seconds                                             *)
  MaxTime,      (* bound: how far the clock goes                            *)
  NoRecord      (* a subject that has never been registered                 *)

VARIABLES
  subjects,       (* subjects_: roles and revoked of each subject           *)
  policies,       (* policies_, whose order and repetitions do not matter   *)
  now,            (* the system clock, in seconds                           *)
  call,           (* what each thread is doing, or whether its last call    *)
                  (* returned kGranted                                      *)
  barred          (* history: subjects revoked since their last registration*)

iamVars == <<subjects, policies, now, call, barred>>

AccessLevel == 0..4    (* kNone .. kSecurity *)

IdentityToken ==
  [subjectId : Subjects, notBefore : Nat, notAfter : Nat, roles : SUBSET Roles]
AccessPolicy == [resourceId : Resources, role : Roles, level : AccessLevel]
Request == [resourceId : Resources, level : AccessLevel]
Returned == [op : {"free"}, granted : BOOLEAN]
Issuing == [op : {"issue"}, token : IdentityToken]
Checking == [op : {"check"}, token : IdentityToken, request : Request]

ASSUME RolesAssumption == RoleSets \subseteq SUBSET Roles
ASSUME PoliciesAssumption == Defaults \cup Extras \subseteq AccessPolicy
ASSUME RequestsAssumption == Requests \subseteq Request
ASSUME TokensAssumption == Tokens \subseteq IdentityToken
ASSUME LifetimeAssumption == Lifetime \in Nat
ASSUME NoRecordAssumption == NoRecord \notin [roles : SUBSET Roles, revoked : BOOLEAN]

IamTypeOK ==
  /\ subjects \in [Subjects -> [roles : SUBSET Roles, revoked : BOOLEAN] \cup {NoRecord}]
  /\ policies \subseteq AccessPolicy
  /\ now \in Nat
  /\ call \in [Threads -> Returned \cup Issuing \cup Checking]
  /\ barred \subseteq Subjects

IamInit ==
  /\ subjects = [s \in Subjects |-> NoRecord]
  /\ policies = {}
  /\ now = 0
  /\ call = [th \in Threads |-> [op |-> "free", granted |-> FALSE]]
  /\ barred = {}
-----------------------------------------------------------------------------
Steps(th, next) == call' = [call EXCEPT ![th] = next]
Returns(th, granted) == Steps(th, [op |-> "free", granted |-> granted])

(* The policies are those of SOC-SW-001 3.12; a second call adds them again. *)
Initialize ==
  /\ policies' = policies \cup Defaults
  /\ UNCHANGED <<subjects, now, call, barred>>

RegisterPolicy(policy) ==
  /\ policies' = policies \cup {policy}
  /\ UNCHANGED <<subjects, now, call, barred>>

(* IssueRuntimeToken up to the lock: the token and its validity from now on. *)
MakeToken(th, appId, roles) ==
  /\ call[th].op = "free"
  /\ Steps(th, [op |-> "issue",
                token |-> [subjectId |-> appId, notBefore |-> now,
                           notAfter |-> now + Lifetime, roles |-> roles]])
  /\ UNCHANGED <<subjects, policies, now, barred>>

(* The record is stored over any other, as not revoked; the token is returned. *)
RegisterSubject(th) ==
  LET token == call[th].token
  IN  /\ call[th].op = "issue"
      /\ subjects' = [subjects EXCEPT ![token.subjectId] =
                        [roles |-> token.roles, revoked |-> FALSE]]
      /\ barred' = barred \ {token.subjectId}
      /\ Returns(th, FALSE)
      /\ UNCHANGED <<policies, now>>

(* Unknown subjects cannot be revoked: the call changes nothing. *)
RevokeToken(subjectId) ==
  /\ \/ /\ subjects[subjectId] # NoRecord
        /\ subjects' = [subjects EXCEPT ![subjectId] = [roles |-> @.roles, revoked |-> TRUE]]
        /\ barred' = barred \cup {subjectId}
     \/ subjects[subjectId] = NoRecord /\ UNCHANGED <<subjects, barred>>
  /\ UNCHANGED <<policies, now, call>>
-----------------------------------------------------------------------------
(* A subject has a name: the empty one is none of Subjects. *)
IsValid(token) == now >= token.notBefore /\ now <= token.notAfter

(* VerifyIdentity: the certificate chain is not looked at. *)
VerifyIdentity(token) == IsValid(token)

(* CheckAccess up to the lock, with whatever token the caller has put together: *)
(* the signature is not looked at.                                             *)
BeginCheckAccess(th, token, request) ==
  /\ call[th].op = "free"
  /\ \/ ~IsValid(token) /\ Returns(th, FALSE)
     \/ /\ IsValid(token)
        /\ Steps(th, [op |-> "check", token |-> token, request |-> request])
  /\ UNCHANGED <<subjects, policies, now, barred>>

Revoked(subjectId) == subjects[subjectId] # NoRecord /\ subjects[subjectId].revoked

(* A policy for one of the roles, of at least the level. *)
GrantedBy(roles, request) ==
  \E role \in roles, policy \in policies :
    /\ policy.resourceId = request.resourceId
    /\ policy.role = role
    /\ policy.level >= request.level

(* GetRoles: the roles of the last registration, revoked or not. *)
GetRoles(subjectId) ==
  IF subjects[subjectId] = NoRecord THEN {} ELSE subjects[subjectId].roles

(* Mutant: the roles of the record instead of the roles of the token. *)
AllowsByRecord(token, request) ==
  ~Revoked(token.subjectId) /\ GrantedBy(GetRoles(token.subjectId), request)

(* The decision: not revoked, and a policy for one of the token's roles. *)
Allows(token, request) == ~Revoked(token.subjectId) /\ GrantedBy(token.roles, request)

(* Mutant: the revocation is read before the lock. *)
DecideWithoutRecord(th) ==
  /\ call[th].op = "check"
  /\ \/ Returns(th, Allows(call[th].token, call[th].request))
     \/ Returns(th, GrantedBy(call[th].token.roles, call[th].request))
  /\ UNCHANGED <<subjects, policies, now, barred>>

(* CheckAccess under the lock; the audit callback that is told only observes. *)
DecideAccess(th) ==
  /\ call[th].op = "check"
  /\ Returns(th, Allows(call[th].token, call[th].request))
  /\ UNCHANGED <<subjects, policies, now, barred>>

Tick ==
  /\ now < MaxTime
  /\ now' = now + 1
  /\ UNCHANGED <<subjects, policies, call, barred>>

IamNext ==
  \/ Initialize
  \/ \E policy \in Extras : RegisterPolicy(policy)
  \/ \E th \in Threads, s \in Subjects, roles \in RoleSets : MakeToken(th, s, roles)
  \/ \E th \in Threads : RegisterSubject(th) \/ DecideAccess(th)
  \/ \E s \in Subjects : RevokeToken(s)
  \/ \E th \in Threads, token \in Tokens, request \in Requests : BeginCheckAccess(th, token, request)
  \/ Tick
-----------------------------------------------------------------------------
Grants(th) == call[th].op = "check" /\ call'[th] = [op |-> "free", granted |-> TRUE]

(* From RevokeToken of a known subject until its next registration nothing    *)
(* is granted to it: not to a check that was past IsValid already, not by any *)
(* token, issued before or made up.  (A token that was being issued meanwhile *)
(* registers the subject again: iam.cpp:126-132 stores over the revocation.)  *)
RevocationHolds ==
  [][\A th \in Threads : Grants(th) => call[th].token.subjectId \notin barred]_iamVars

(* What a token allows it goes on allowing until its subject is revoked,      *)
(* whatever policies are added and whatever roles the subject is given by     *)
(* later tokens.                                                              *)
AccessIsStable ==
  [][\A token \in Tokens, request \in Requests :
       Allows(token, request) /\ ~Allows(token, request)' => token.subjectId \in barred']_iamVars
=============================================================================
