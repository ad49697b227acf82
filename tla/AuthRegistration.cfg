CONSTANTS
  None = None
  op1 = op1 op2 = op2 u1 = u1 c1 = c1 c2 = c2 c3 = c3 k1 = k1 k2 = k2 k3 = k3
  m1 = m1 m2 = m2 m3 = m3 s1 = s1 s2 = s2 s3 = s3 r1 = r1 r2 = r2 p1 = p1 p2 = p2
  UserId = {op1, u1}
  CredentialId = {c1, c2, c3}
  CapabilityId = {k1, k2}
  CeremonyId = {m1, m2}
  SessionId = {s1}
  RecoveryId = {r1, r2}
  Task = {p1, p2}
  CeremonyTtl = 1 CapabilityTtl = 1 SessionIdleTtl = 1 SessionAbsoluteTtl = 2
  MaxWindow = 1 MaxLag = 0 MaxTime = 1 MaxEpoch = 2 MaxCsrf = 1
  RotationDecodes = TRUE
  InitialOperators = {op1}
  Enrolled <- OperatorEnrolled
  SignedIn <- OperatorSignedIn
SPECIFICATION RegistrationRunSpec
ACTION_CONSTRAINT RegistrationRunBounds
SYMMETRY RegistrationRunSymmetry
CHECK_DEADLOCK FALSE
INVARIANT TypeOK OpenCapabilityIsCurrent CapabilityRegistersOnce CeremonyRegistersOnce CompletedRecoveryHasFreshPasskey
PROPERTY RegistrationIsCurrent ImplementsTokenAuthority
