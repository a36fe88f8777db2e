------------------------- MODULE VehicleSignalFrame -------------------------
(***************************************************************************)
(* The SOME/IP notification that carries one VehicleSignal sample, and the *)
(* decision VehicleSignalProxy::ParseAndDispatch takes on a received       *)
(* datagram.  A datagram is abstracted to the fields the decision reads;   *)
(* the six signal values and the CRC arithmetic are abstracted to one bit, *)
(* crcOk: whether e2e_crc8 over the first 18 payload bytes equals e2e_crc. *)
(***************************************************************************)
EXTENDS Naturals

CONSTANTS
  Word,       (* 2^32 in the code: the modulus of uint32_t arithmetic.      *)
  BufSize     (* kBufSize, the size of the receive buffer (1024).           *)

HeaderLen == 16                       \* SomeIpHeader_t
PayloadSize == 20                     \* sizeof(VehicleSignalPayload_t)
SVC_ID_VEHICLE_SIGNAL == 4097         \* 0x1001
VEHICLE_SIGNAL_EVT_ID == 32769        \* 0x8001
SOMEIP_MSG_NOTIFICATION == 2

ASSUME WordAssumption == Word \in Nat /\ Word > HeaderLen + PayloadSize
ASSUME BufSizeAssumption == BufSize \in Nat /\ BufSize >= HeaderLen + PayloadSize

(* What a datagram on the port can look like; `len` is its UDP length, which *)
(* the header's own `length` field need not agree with.                      *)
Frame == [len: Nat, serviceId: Nat, methodId: Nat, length: 0..Word - 1,
          msgType: Nat, crcOk: BOOLEAN, counter: Nat, session: Nat]

(* VehicleSignalSample, as far as the properties tell samples apart. *)
Sample == [counter: Nat, session: Nat]

SampleOf(f) == [counter |-> f.counter, session |-> f.session]

(* recv() cuts a datagram that is longer than the buffer. *)
RecvLen(f) == IF f.len > BufSize THEN BufSize ELSE f.len

PayloadLen(f) == IF f.length >= 8 THEN f.length - 8 ELSE 0

(* The early returns of ParseAndDispatch, in its order. *)
Truncated(f) == RecvLen(f) < HeaderLen + PayloadSize

Foreign(f) == \/ f.serviceId # SVC_ID_VEHICLE_SIGNAL
              \/ f.methodId # VEHICLE_SIGNAL_EVT_ID

BadLength(f) == \/ PayloadLen(f) < PayloadSize
                \/ RecvLen(f) < (HeaderLen + PayloadLen(f)) % Word

Ignored(f) == ~Truncated(f) /\ Foreign(f)

Malformed(f) ==
  \/ Truncated(f)
  \/ ~Foreign(f) /\ (f.msgType # SOMEIP_MSG_NOTIFICATION \/ BadLength(f))

WellFormed(f) == ~Ignored(f) /\ ~Malformed(f)

CrcMismatch(f) == WellFormed(f) /\ ~f.crcOk

Accepted(f) == WellFormed(f) /\ f.crcOk
=============================================================================
