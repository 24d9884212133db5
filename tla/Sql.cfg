SPECIFICATION FairSpec
CONSTANTS
  s1 = s1  s2 = s2  s3 = s3  A = A  B = B  main = main  annex = annex  o1 = o1  o2 = o2
  Sessions = {s1, s2, s3}
  Skus = {A, B}
  Locations = {main, annex}
  Orders = {o1, o2}
  Scripts <- MCScripts
  Seeded <- MCSeeded
  Seed = Seed
  None = None
INVARIANT TypeOK
PROPERTIES NoOverwrite NothingStale OrdersWhole SessionsEnd
