CONSTANTS
  sync = sync
  plan1 = plan1
  plan2 = plan2
  Jobs = {sync, plan1, plan2}
  ScheduledJobs = {sync, plan1, plan2}
  Upstream = {sync}
  Slots = {s1, s2}
  NoKey = NoKey
  NoLease = NoLease
  Key <- MCKey
  Rank <- MCRank
  MaxAttempts <- MCMaxAttempts
  Feeder <- MCFeeder
  Try <- MCTry
  MaxClaims = 1
  MaxCrashes = 2
SPECIFICATION ChainSpec
INVARIANT NoRefreshLost
