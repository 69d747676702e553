CONSTANTS
  B = 2
  SizeBytes = 2
  FieldBytes = 2
  SubBytes = 1
  DigestBytes = 1
  P = 3
  MAX_RUN_LEN = 3
  NRow = 4
  NReq = 1
  PathLen = 2
  Embed <- MCEmbed
  Geometries <- MCGeometries
  Proofs <- MCProofs
SPECIFICATION Spec
INVARIANTS TypeOK Canonical RoundTrip
CHECK_DEADLOCK FALSE
