CONSTANTS
  Container = {a, b}
  Digest = {d1, d2}
  PolicyDigest = {p}
  MaxLedger = 3
  MaxAttempts = 2
  HistoryMax = 2
  Fault = {"seal", "software", "trim", "dump", "rewind"}
  Torn = Torn
  Live = Live
SPECIFICATION Spec
SYMMETRY Symmetry
CHECK_DEADLOCK FALSE
INVARIANTS VerdictExact AcceptedWasRecorded
PROPERTY RejectedHasCause
