------------------------- MODULE MCVehicleSignalSwc -------------------------
(***************************************************************************)
(* A small instance of VehicleSignalSwc: 6-bit lengths in the header, a    *)
(* 40-byte receive buffer, a queue of two samples.                         *)
(***************************************************************************)
EXTENDS VehicleSignalSwc

Notification(n) ==
  [len |-> 36, serviceId |-> SVC_ID_VEHICLE_SIGNAL,
   methodId |-> VEHICLE_SIGNAL_EVT_ID, length |-> 28,
   msgType |-> SOMEIP_MSG_NOTIFICATION, crcOk |-> TRUE,
   counter |-> n, session |-> n]

Good1 == Notification(1)
Good2 == Notification(2)
BadCrc == [Good1 EXCEPT !.crcOk = FALSE]
OtherService == [Good1 EXCEPT !.serviceId = 4098]
Request == [Good1 EXCEPT !.msgType = 0]
Short == [Good1 EXCEPT !.len = 20]
Empty == [Good1 EXCEPT !.len = 0]
Oversized == [Good2 EXCEPT !.len = 63]
DeclaresMore == [Good2 EXCEPT !.length = 31]
DeclaresAlmostWord == [Good2 EXCEPT !.length = Word - 1]

AllDatagrams == {Good1, Good2, BadCrc, OtherService, Request, Short, Empty,
                 Oversized, DeclaresMore, DeclaresAlmostWord}
=============================================================================
