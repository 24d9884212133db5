SPECIFICATION FairSpec
CONSTANTS
  w1 = w1  w2 = w2  w3 = w3  o1 = o1  main = main  annex = annex  d1 = d1  d2 = d2
  Writers = {w1, w2, w3}
  Orders = {o1}
  Locations = {main, annex}
  EventOf <- MCEventOf
  Dispatchers = {d1, d2}
  Nobody = Nobody
  BatchSize = 2
  Builds <- MCBuilds
  MaxFailures = 1
  MaxAborts = 1
INVARIANTS TypeOK Together SentWasDelivered NoLockCycle
PROPERTIES SentForGood OnceUnlessInterrupted DeliversOnceMended
