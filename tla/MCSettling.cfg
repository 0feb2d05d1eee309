CONSTANTS
  doc = doc
  r1 = r1
  oneapi = oneapi
  Items = {doc}
  Kind <- MCResource
  Mode <- MCMode
  Revision <- MCRevision
  Bucket <- MCBucket
  MaxAttempts = 1
  CircuitThreshold = 1
  SoftLimit = 1
  MaxDispatches = 2
  MaxObservations = 2
  MaxCrashes = 1
  MaxAnswers = 2
  a = a
  w1 = w1
  NoText = NoText
SPECIFICATION SettlingSpec
PROPERTIES ItemsSettle WatchedTasksSettle AdmittedTextsSettle
