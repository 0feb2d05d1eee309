CONSTANTS
  sync = sync
  plan1 = plan1
  plan2 = plan2
  ana1 = ana1
  Jobs = {sync, plan1, plan2, ana1}
  ScheduledJobs = {sync, plan1, plan2}
  Upstream = {sync}
  Slots = {s1, s2}
  NoKey = NoKey
  NoLease = NoLease
  Key <- MCKey
  Rank <- MCRank
  MaxAttempts <- MCMaxAttempts
  Feeder <- MCFeeder
  Try <- MCTry
  MaxClaims = 7
  MaxCrashes = 2
  ProviderLimit = 1
  MaxModelAttempts = 2
  MaxLimits = 2
  Schedules <- MCSchedules
  Moments <- MCMoments
  MaxGaps = 3
SPECIFICATION DispatcherSpec
INVARIANTS OneThreadPerRun CompletionIsEarned PlannerHasItsManifest ConsumedIsDecided CatchUpAccounts CompletedIsAnswered FewGoUnanswered CallsInTurn
PROPERTIES JobsSettle EventsResolve
