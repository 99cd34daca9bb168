SPECIFICATION ListSpec
CONSTANTS
  t1 = t1
  t2 = t2
  r1 = r1
  r2 = r2
  admin = admin
  l1 = l1
  Tasks <- TwoTasks
  RuleIds <- TwoRules
  Owners <- MCOwners
  RewriteIds <- None
  Domains <- None
  Answers <- None
  Lists <- OneList
  Offers <- OffersOne
  MayAbandon = TRUE
  MaxFailures = 1
  MaxCommits = 3
INVARIANT NoOrphans
PROPERTIES ListsImplementEngine OthersUntouched ReplacedWhole
SYMMETRY Interchangeable
