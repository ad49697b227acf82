CONSTANTS
  Nothing = Nothing
  PeerId = {a, b, c}
  PublicKey = {k1, k2, k3}
  FirstHost = 2 LastHost = 3
  MaxGeneration = 8
  GatewayId = {g1}
  GeneratedAt = {t1, t2}
  Publisher = {u1, u2}
  AckTask = {q1, q2}
  Guest = a GuestKey = k1 MaxDelivered = 3 MaxRaced = 2
  Generation = {1, 2, 3} ManifestDigest = {d1, d2} MaxList = 3
  Year = {0, 1, 4, 100, 1900, 2000, 2023, 2024, 9999}
  MaxLength = 2
SPECIFICATION MCSpec
CHECK_DEADLOCK FALSE
INVARIANT ManifestBuilds NoAddressLeaks RecordedWasApplied ConflictsAgreeOnPeers
INVARIANT PollIgnoresListOrder AcceptsExactlyInstants TextIdentifiesValue
PROPERTY AddressesAreStable GenerationNamesPolicy PolicyConverges RecordConverges
