CONSTANTS
  a = a
  b = b
  w1 = w1
  Texts = {a, b}
  NoText = NoText
  Writers = {w1}
  MaxAttempts = 1
  MaxObservations = 2
  Laggards = {a}
  Overlooks = TRUE
  Imports = FALSE
  MaxMishaps = 1
  module = module
  Canonical = {module}
  registry = registry
  dispatcher = dispatcher
  worker = worker
  Grace = 2
  MaxChanges = 3
  MaxDeaths = 1
SPECIFICATION MirrorsSpec
INVARIANTS DeliveredIsProven  FewNotices AlertsFollow
PROPERTY NewerStands
CHECK_DEADLOCK FALSE
