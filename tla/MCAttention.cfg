CONSTANTS
  module = module
  Canonical = {module}
  registry = registry
  dispatcher = dispatcher
  worker = worker
  Grace = 2
  MaxChanges = 5
  MaxDeaths = 0
SPECIFICATION AttentionSpec
INVARIANT RecurrenceReopens
