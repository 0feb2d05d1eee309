CONSTANTS
  a = a
  b = b
  w1 = w1
  Texts = {a, b}
  NoText = NoText
  Writers = {w1}
  MaxAttempts = 1
  MaxObservations = 2
  Laggards = {a}
  Overlooks = FALSE
  Imports = FALSE
  MaxMishaps = 0
SPECIFICATION MemorySpec
INVARIANT ReplicaInStep
