SPECIFICATION ServicesSpec
CONSTANTS
  o1 = o1
  d1 = d1
  d2 = d2
  s1 = s1
  s2 = s2
  m1 = m1
  c1 = c1
  c2 = c2
  x1 = x1
  x2 = x2
  v1 = v1
  Owners = {o1}
  Payouts = {d1, d2}
  Amounts = {1, 2}
  Reward = 1
  MaxEarned = 2
  Desks = {s1, s2}
  NoRow = NoRow
  Members = {m1}
  Clerks = {c1, c2}
  Changes <- MCChanges
  Ratings = {1500}
  Spans = {12}
  MaxIdle = 36
  MaxRevisions = 3
  Calls = {1, 2}
  Simple = {x1, x2}
  FetchLimit = 2
  Twins = {1}
  Visits = {v1}
  MaxMishaps = 1
  Suspects <- MCSuspects
  Logs <- MCLogs
  MinRingSize = 3
  Payloads <- MCPayloads
  Ranges <- MCRanges
  Languages = {"fr", "xx"}
  BatchSize = 2
  MaxServed = 2
  MaxFaults = 1
INVARIANTS WalletInv NeverOverdrawn DecayInv  CollusionInv ExecutionInv ResultsFollowItems
PROPERTIES DecisionsAreFinal
CHECK_DEADLOCK FALSE
