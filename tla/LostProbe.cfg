SPECIFICATION Spec
CONSTANTS
  t1 = t1  t2 = t2  t3 = t3  confirmation = confirmation  allocated = allocated
  Tasks = {t1, t2, t3}
  Keys = {confirmation, allocated}
  KeyOf <- MCKeyOf
  FailureThreshold = 2
  MaxAttempts = 2
  MaxFailures = 2
INVARIANT NeverStuck
