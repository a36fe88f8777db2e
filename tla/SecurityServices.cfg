SPECIFICATION Spec
CONSTANTS
  VehicleSignalService = VehicleSignalService
  Threads = {t1, t2}
  Subjects = {app}
  Roles <- RolesHere
  RoleSets <- RoleSetsHere
  Resources = {VehicleSignalService}
  Defaults <- DefaultsHere
  Extras <- ExtrasHere
  Requests <- RequestsHere
  Tokens <- TokensHere
  Lifetime = 0
  MaxTime = 1
  NoRecord = NoRecord
  MaxKeyId = 1
  Materials = {m1, m2}
  NoKey = NoKey
  MaxKeys = 3
SYMMETRY Symmetry
INVARIANTS
  StaysReadable
  HandlesAreOwn
PROPERTIES
  RevocationHolds
  AccessIsStable
