--------------------------- MODULE SomeIpMessage ---------------------------
(***************************************************************************)
(* SomeIpMessage::Serialize and Deserialize, on message objects that are   *)
(* used again and again: every hop keeps one, fills it from the buffers    *)
(* that reach it, and may serialise it for the others.  A buffer may have  *)
(* lost its end or may hold the beginning of the next message too.         *)
(*                                                                         *)
(* The header fields but the length travel together, as the name of the    *)
(* message; a byte of a payload is the name of the message it belongs to.  *)
(***************************************************************************)
EXTENDS Naturals, Sequences

CONSTANTS
  Word,      (* 2^32: the modulus of uint32_t           *)
  Ids,       (* the messages applications send ...      *)
  SizeOf,    (* ... and the payload size of each        *)
  Hops       (* the holders of a message object         *)

HeaderLen == 16

ASSUME SizeAssumption ==
  Word \in Nat /\ SizeOf \in [Ids -> Nat] /\ \A i \in Ids : HeaderLen + SizeOf[i] < Word

VARIABLES
  msg,   (* the object of each hop; header.length is never read or set *)
  ok     (* what Deserialize last returned to it                      *)

messageVars == <<msg, ok>>

(* A buffer has the header, its length on the wire and the bytes that follow. *)
Size(data) == HeaderLen + Len(data.rest)

PayloadOf(i) == [k \in 1..SizeOf[i] |-> i]

MessageTypeOK ==
  /\ msg \in [Hops -> [header: Ids, payload: Seq(Ids)]]
  /\ ok \in [Hops -> BOOLEAN]

(* A new object: nothing in its header is initialised. *)
MessageInit ==
  /\ msg \in [Hops -> [header: Ids, payload: {<<>>}]]
  /\ ok = [h \in Hops |-> FALSE]
-----------------------------------------------------------------------------
(* A mutant: the length on the wire is that of the payload alone. *)
SerializePayloadLength(m) ==
  [header |-> m.header, length |-> Len(m.payload), rest |-> m.payload]

(* The length on the wire is computed; header.length is not looked at. *)
Serialize(m) ==
  [header |-> m.header, length |-> (8 + Len(m.payload)) % Word, rest |-> m.payload]

PayloadLen(data) == IF data.length >= 8 THEN data.length - 8 ELSE 0

(* The header is filled in before the size is tested. *)
Deserialize(h, data) ==
  IF Size(data) < (HeaderLen + PayloadLen(data)) % Word
  THEN /\ msg' = [msg EXCEPT ![h].header = data.header]
       /\ ok' = [ok EXCEPT ![h] = FALSE]
  ELSE /\ msg' = [msg EXCEPT ![h].header = data.header,
                             ![h].payload = SubSeq(data.rest, 1, PayloadLen(data))]
       /\ ok' = [ok EXCEPT ![h] = TRUE]

(* A buffer shorter than a header. *)
DeserializeRunt(h) == ok' = [ok EXCEPT ![h] = FALSE] /\ UNCHANGED msg

(* What arrives of a buffer: some or all of it, or all of it and the next. *)
Arrivals(b) ==
  {[b EXCEPT !.rest = SubSeq(b.rest, 1, n)] : n \in 0..Len(b.rest)}
    \cup {[b EXCEPT !.rest = b.rest \o [k \in 1..HeaderLen |-> i] \o PayloadOf(i)] : i \in Ids}

(* A message an application has built. *)
Built(i) == [header |-> i, payload |-> PayloadOf(i)]

(* Only a message that was accepted is passed on. *)
Sent == {Serialize(Built(i)) : i \in Ids} \cup {Serialize(msg[g]) : g \in {g \in Hops : ok[g]}}

MessageNext ==
  \E h \in Hops :
    \/ \E b \in Sent : \E data \in Arrivals(b) : Deserialize(h, data)
    \/ DeserializeRunt(h)

MessageSpec == MessageInit /\ [][MessageNext]_messageVars
-----------------------------------------------------------------------------
(* A message is accepted whole or not at all: over any number of hops, with   *)
(* objects that held other messages before and buffers cut or run together,   *)
(* an accepted message has exactly the payload its sender gave it.            *)
WholeOrRefused == \A h \in Hops : ok[h] => msg[h].payload = PayloadOf(msg[h].header)
=============================================================================
