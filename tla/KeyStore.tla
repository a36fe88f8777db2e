------------------------------- MODULE KeyStore -------------------------------
(***************************************************************************)
(* ara::crypto: the key store behind the provider, its handles, and what   *)
(* is encrypted under them.  GenerateKey draws an id from an atomic        *)
(* counter and stores the record under g_keyStoreMutex in a later step;    *)
(* every other operation takes the mutex once.  An id is drawn by one call *)
(* at a time, so the calls in between are told apart by it.                *)
(***************************************************************************)
EXTENDS Naturals, FiniteSets

CONSTANTS
  MaxKeyId,     (* 2^32 - 1: the counter goes from here to 0                *)
  Materials,    (* key material, from a generator the threads share without *)
                (* a lock: any value                                        *)
  NoKey,        (* an id without a record                                   *)
  MaxKeys       (* bound: how many keys are generated                       *)

KeyIds == 0..MaxKeyId

ASSUME MaxKeyIdAssumption == MaxKeyId \in Nat \ {0}
ASSUME NoKeyAssumption == NoKey \notin Materials

VARIABLES
  nextKeyId,    (* g_nextKeyId                                              *)
  keyStore,     (* g_keyStore: the material of each id                      *)
  generating,   (* the GenerateKey calls that have an id and no record yet  *)
  handles,      (* the valid CryptoKeys: the id, and the material they were *)
                (* returned for                                             *)
  texts,        (* what has been encrypted: the key's id and the material   *)
  drawn         (* history: how many ids have been drawn                    *)

keyVars == <<nextKeyId, keyStore, generating, handles, texts, drawn>>

Bound == [id : KeyIds, material : Materials]

KeyTypeOK ==
  /\ nextKeyId \in KeyIds
  /\ keyStore \in [KeyIds -> Materials \cup {NoKey}]
  /\ generating \subseteq Bound
  /\ handles \subseteq Bound
  /\ texts \subseteq Bound
  /\ drawn \in Nat

KeyInit ==
  /\ nextKeyId = 1
  /\ keyStore = [id \in KeyIds |-> NoKey]
  /\ generating = {}
  /\ handles = {}
  /\ texts = {}
  /\ drawn = 0
-----------------------------------------------------------------------------
(* A mutant: the id is the number of records there are, plus one. *)
DrawIdFromSize(material) ==
  /\ drawn < MaxKeys
  /\ drawn' = drawn + 1
  /\ nextKeyId' = nextKeyId
  /\ LET id == (Cardinality({i \in KeyIds : keyStore[i] # NoKey}) + 1) % (MaxKeyId + 1)
     IN  generating' = generating \cup {[id |-> id, material |-> material]}
  /\ UNCHANGED <<keyStore, handles, texts>>

(* GenerateKey draws the material and then the id. *)
DrawId(material) ==
  /\ drawn < MaxKeys
  /\ drawn' = drawn + 1
  /\ nextKeyId' = IF nextKeyId = MaxKeyId THEN 0 ELSE nextKeyId + 1
  /\ generating' = generating \cup {[id |-> nextKeyId, material |-> material]}
  /\ UNCHANGED <<keyStore, handles, texts>>

(* A mutant: the record is assigned instead of emplaced. *)
StoreKeyOver(key) ==
  /\ key \in generating
  /\ generating' = generating \ {key}
  /\ keyStore' = [keyStore EXCEPT ![key.id] = key.material]
  /\ handles' = handles \cup {key}
  /\ UNCHANGED <<nextKeyId, texts, drawn>>

(* emplace() keeps a record that is there; the handle is returned either way. *)
StoreKey(key) ==
  /\ key \in generating
  /\ generating' = generating \ {key}
  /\ keyStore' = [keyStore EXCEPT ![key.id] = IF @ = NoKey THEN key.material ELSE @]
  /\ handles' = handles \cup {key}
  /\ UNCHANGED <<nextKeyId, texts, drawn>>

(* LoadKey of an id without a record returns a handle that is not valid. *)
LoadKey(id) ==
  /\ keyStore[id] # NoKey
  /\ handles' = handles \cup {[id |-> id, material |-> keyStore[id]]}
  /\ UNCHANGED <<nextKeyId, keyStore, generating, texts, drawn>>

(* Every operation with a valid handle looks for its record. *)
Found(key) == keyStore[key.id] # NoKey

(* Encrypt: the text is combined with the material of the record, whatever    *)
(* the handle was returned for.  kKeyNotFound leaves no text.                 *)
Encrypt(key) ==
  /\ texts' = IF Found(key) THEN texts \cup {[id |-> key.id, material |-> keyStore[key.id]]}
                            ELSE texts
  /\ UNCHANGED <<nextKeyId, keyStore, generating, handles, drawn>>

(* Decrypt gives the text back when it combines the same material.  The tag   *)
(* is the same for every text, so another material is not noticed.            *)
Decrypt(key, text) ==
  CASE ~Found(key) -> "kKeyNotFound"
    [] Found(key) /\ keyStore[key.id] = text.material -> "kSuccess"
    [] OTHER -> "wrong text"

(* Generate computes from the material of the record; Verify computes again. *)
Verify(key, mac) ==
  CASE ~Found(key) -> "kKeyNotFound"
    [] Found(key) /\ keyStore[key.id] = mac.material -> "kSuccess"
    [] OTHER -> "kAuthFailed"

KeyNext ==
  \/ \E material \in Materials : DrawId(material)
  \/ \E key \in generating : StoreKey(key)
  \/ \E id \in KeyIds : LoadKey(id)
  \/ \E key \in handles : Encrypt(key)
-----------------------------------------------------------------------------
(* What was encrypted, or authenticated, under a handle is decrypted, and     *)
(* verified, under every handle with its id at any later time: also when the  *)
(* ids have come round and one is given out again.                            *)
StaysReadable ==
  \A text \in texts, key \in handles :
    key.id = text.id => /\ Decrypt(key, text) = "kSuccess"
                        /\ Verify(key, text) = "kSuccess"

(* Until the ids come round, every handle stands for the key it was returned  *)
(* for, and no two calls of GenerateKey have the same id, however they        *)
(* overlap.                                                                   *)
HandlesAreOwn ==
  drawn <= MaxKeyId + 1 =>
    /\ \A key \in handles : keyStore[key.id] = key.material
    /\ \A key \in generating, other \in generating \cup handles : key.id = other.id => key = other
=============================================================================
