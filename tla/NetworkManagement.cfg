SPECIFICATION Spec
CONSTANTS
  Networks = {ipc, external}
  Handles = {h1, h2, h3, h4}
  NoNetwork = NoNetwork
INVARIANTS
  NeverAwakeUnheld
PROPERTIES
  ImplementsSharedNetwork
