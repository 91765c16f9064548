\* Two threads set, use and revoke a credential that expires; a closure may panic.
SPECIFICATION CredentialSpec
CONSTANTS
  Thread = {h1, h2}
  Ttl = 1
  MaxCalls = 3
  MaxTime = 3
SYMMETRY ThreadSymmetry
INVARIANTS
  CredentialTypeOK
  AuditBalanced
  UsesCounted
PROPERTIES
  ExpiryIsFinal
CHECK_DEADLOCK FALSE
