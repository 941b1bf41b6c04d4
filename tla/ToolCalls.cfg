SPECIFICATION FairSpec
CONSTANTS
  t1 = t1  t2 = t2  c1 = c1  c2 = c2
  Window = Window  First = First
  Turns = {t1, t2}
  Calls = {c1, c2}
  N = 2
  M = 2
  Rounds = 2
INVARIANTS TypeOK LeakOnlyByTwins AloneUnlessSlotless
PROPERTIES AdmittedUnlessBlocked
CHECK_DEADLOCK FALSE
