CONSTANTS
  a = a
  b = b
  m = m
  Jobs = {a, b, m}
  ScheduledJobs = {a, b}
  Slots = {s1, s2}
  NoKey = NoKey
  NoLease = NoLease
  Key <- MCKey
  Rank <- MCRank
  MaxAttempts <- MCMaxAttempts
  MaxClaims = 1
CONSTRAINT OneGate
SYMMETRY SlotSymmetry
SPECIFICATION Spec
INVARIANTS SlotRunAgreement JobRunAgreement OccurrenceAgreement KeyExclusion RetryBudget
PROPERTIES VerdictsAreFinal ImplementsLifecycle
