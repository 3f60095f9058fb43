SPECIFICATION FairSpec
CONSTANTS
  b1 = b1
  d1 = d1
  d2 = d2
  c1 = c1
  c2 = c2
  Files <- ThreeFiles
  Boards = {d1, d2}
  Batches = {b1}
  Contents = {c1, c2}
  Images = {c1}
  BoardOf <- BoardOfThree
  BatchOf <- BatchOfThree
  ContentOf <- ContentOfThree
  Poll = poll
  Requests = {r1}
  MaxCrashes = 1
  Environments <- Watching
INVARIANT TypeOK
INVARIANT NoDuplicates
INVARIANT RowsMatchFiles
PROPERTY EveryFileIngested
