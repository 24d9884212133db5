SPECIFICATION FairSpec
CONSTANTS
  p1 = p1  p2 = p2  r1 = r1  r2 = r2  t1 = t1  t2 = t2
  Processes = {p1, p2}
  Requests = {r1, r2}
  Tokens = {t1}
  Lifetimes <- MCLifetimes
  DefaultTtl = 2
  MaxTime = 3
  None = None
INVARIANTS TypeOK AdmittedRightly RefusedRightly
PROPERTY TokensEnd
