SPECIFICATION AdminFairSpec
CONSTANTS
  t1 = t1
  t2 = t2
  r1 = r1
  r2 = r2
  list = list
  w1 = w1
  w2 = w2
  d1 = d1
  d2 = d2
  a1 = a1
  a2 = a2
  Admin = admin
  Keep = keep
  Tasks <- TwoTasks
  RuleIds <- OneRule
  Owners <- MCOwners
  RewriteIds <- TwoRewrites
  Domains <- TwoDomains
  Answers <- OneAnswer
  MayAbandon = TRUE
  MaxCommits = 3
INVARIANTS ShowsCommitted ReloadsOwnWrite RestsFresh
PROPERTIES ImplementsEngine ImplementsContract NoResurrection Recovers
