CONSTANTS
  None = None
  op = op u = u c = c s = s l = l k = k m1 = m1 m2 = m2 b1 = b1 b2 = b2 r1 = r1 r2 = r2
  Tx = {t1, t2, t3}
  Row = {op, u, c, s, l, k, m1, m2, b1, b2, r1, r2}
  Operators = {op}
  Databases <- Starts
  Calls <- AllCalls
SPECIFICATION Spec
SYMMETRY TxSymmetry
INVARIANT AuthenticatedSessionWasCurrent EpochCountsInvalidations OnlyRotationDeadlocks CapabilityRegistersOnce BootstrapIsExclusive
PROPERTY CommitsImplementSessionAuthority InvalidationReachesOlderAuthority
