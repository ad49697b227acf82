CONSTANTS
  None = None op1 = op1 u1 = u1 c1 = c1 c2 = c2 c3 = c3 s1 = s1
  Owner = u1 Browser = browser Console = console MaxFaults = 3
  UserId = {op1, u1}
  CredentialId = {c1, c2, c3}
  CapabilityId = {k1, k2, k3, k4}
  CeremonyId = {m1, m2, m3, m4, m5, m6, m7, m8}
  SessionId = {s1, s2, s3, s4, s5}
  RecoveryId = {r1, r2, r3, r4}
  Task = {browser, console}
  CeremonyTtl = 1 CapabilityTtl = 1 SessionIdleTtl = 9 SessionAbsoluteTtl = 9
  MaxWindow = 0 MaxLag = 0 MaxTime = 3 MaxEpoch = 9 MaxCsrf = 0
  RotationDecodes = TRUE
  InitialOperators = {op1}
  Enrolled <- BothEnrolled
  SignedIn <- OperatorSignedIn
SPECIFICATION RecoverySpec
CHECK_DEADLOCK FALSE
PROPERTY UserRecovers
