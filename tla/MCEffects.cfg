CONSTANTS
  doc = doc
  r1 = r1
  oneapi = oneapi
  Items = {doc}
  Kind <- MCResource
  Mode <- MCMode
  Revision <- MCRevision
  Bucket <- MCBucket
  MaxAttempts = 2
  CircuitThreshold = 1
  SoftLimit = 1
  MaxDispatches = 3
  MaxObservations = 2
  MaxCrashes = 1
  MaxAnswers = 2
  Objects = {1, 2}
  Snapshots = {1}
  Shared = {2}
  MaxVersions = 2
  MaxPlans = 2
  DailyQuota = 2
  MaxDeaths = 1
  ActionCount = 2
  Runners = {1, 2}
  Reviews = {d1}
  Executors = {1, 2}
  MaxOutages = 1
SPECIFICATION EffectsSpec
INVARIANTS OnePostPerTry OnlyThePlannedIsRemoved VerdictsMatchTheDisk NothingUnattended PerformedAsApproved PerformedOnce CarriedOut
PROPERTIES TaskVerdictsFinal ImplementsRemoteWrite
CHECK_DEADLOCK FALSE
