--------------------------- MODULE MCSafetyMonitor ---------------------------
(* SafetyMonitor with the byte cut to the enumerators and one value beyond. *)
EXTENDS SafetyMonitor

TwoGroups == {"Infotainment", "OTA"}

Report(level, violation) == [safetyLevel |-> level, asilViolation |-> violation]

AllReports == {Report(level, violation) : level \in SafetyLevel, violation \in BOOLEAN}
=============================================================================
