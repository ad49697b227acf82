CONSTANTS
  None = None op1 = op1 u1 = u1 u2 = u2 c1 = c1 c2 = c2 s1 = s1 t1 = t1 t2 = t2 t3 = t3
  Eager = {t1} MaxTrouble = 6 MaxRetryTrouble = 3
  UserId = {op1, u1, u2}
  CredentialId = {c1, c2}
  CapabilityId = {k1}
  CeremonyId = {m1, m2, m3, m4, m5, m6, m7, m8, m9}
  SessionId = {s1, s2, s3, s4, s5, s6, s7}
  RecoveryId = {}
  Task = {t1, t2, t3}
  CeremonyTtl = 1 CapabilityTtl = 1 SessionIdleTtl = 1 SessionAbsoluteTtl = 2
  MaxWindow = 0 MaxLag = 0 MaxTime = 3 MaxEpoch = 1 MaxCsrf = 9
  RotationDecodes = TRUE
  InitialOperators = {op1}
  Enrolled <- BothEnrolled
  SignedIn <- OperatorSignedIn
SPECIFICATION MCSpec
CHECK_DEADLOCK FALSE
INVARIANT TabActsAsShown
PROPERTY EagerTabSucceeds
