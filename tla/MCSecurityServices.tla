-------------------------- MODULE MCSecurityServices --------------------------
(* Instance: an application that is started as either of two roles; reading *)
(* is allowed to one of them by default, writing to the other one later.    *)
EXTENDS SecurityServices, TLC

CONSTANT VehicleSignalService

RolesHere == {"DriveAssist", "Diagnostic"}
RoleSetsHere == {{role} : role \in RolesHere}
DefaultsHere == {[resourceId |-> VehicleSignalService, role |-> "DriveAssist", level |-> 1]}
ExtrasHere == {[resourceId |-> VehicleSignalService, role |-> "Diagnostic", level |-> 2]}
TokensHere == [subjectId : Subjects, notBefore : 0..MaxTime, notAfter : 0..MaxTime + Lifetime,
               roles : RoleSetsHere]
RequestsHere == {[resourceId |-> VehicleSignalService, level |-> 1]}

(* Neither a thread nor a key material is treated differently from another. *)
Symmetry == Permutations(Threads) \cup Permutations(Materials)
=============================================================================
