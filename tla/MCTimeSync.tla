----------------------------- MODULE MCTimeSync -----------------------------
(* TimeSync with a second of three nanoseconds and a uint32_t of four bits. *)
EXTENDS TimeSync

DriverBases == [p \in Providers |-> IF p = "stbm" THEN "kVehicleTime" ELSE "kGpsTime"]
UpAndDown == {-2, 2}
=============================================================================
