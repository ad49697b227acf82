CONSTANTS
  None = None NoBackup = NoBackup
  op1 = op1 c1 = c1 c2 = c2 k1 = k1 k2 = k2 m1 = m1 m2 = m2 s1 = s1 s2 = s2 r1 = r1 p1 = p1
  UserId = {op1}
  CredentialId = {c1, c2}
  CapabilityId = {k1, k2}
  CeremonyId = {m1, m2}
  SessionId = {s1, s2}
  RecoveryId = {r1}
  Task = {p1}
  CeremonyTtl = 1 CapabilityTtl = 1 SessionIdleTtl = 1 SessionAbsoluteTtl = 2
  MaxWindow = 1 MaxLag = 0 MaxTime = 0 MaxEpoch = 3 MaxCsrf = 0
  RotationDecodes = TRUE
  InitialOperators = {}
  Enrolled <- NobodyEnrolled
  SignedIn <- NobodySignedIn
SPECIFICATION RestoreSpec
CHECK_DEADLOCK FALSE
INVARIANT RestoredAuthorityIsDead
PROPERTY RestoredTokensRegisterNothing
