CONSTANTS
  vec = vec
  sem = sem
  con = con
  r1 = r1
  r2 = r2
  oneapi = oneapi
  Items = {vec, sem, con}
  Kind <- MCKind
  Mode <- MCMode
  Revision <- MCRevision
  Bucket <- MCBucket
  MaxAttempts = 1
  CircuitThreshold = 2
  SoftLimit = 1
  MaxDispatches = 2
CONSTRAINT FourDispatches
SPECIFICATION OutboxSpec
INVARIANTS LeaseAgreement TaskAgreement ReservationAgreement BreakerAgreement AttemptBudget
PROPERTIES ItemVerdictsFinal
