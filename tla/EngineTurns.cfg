SPECIFICATION FairSpec
CONSTANTS
  t1 = t1  t2 = t2  t3 = t3  t4 = t4
  s1 = s1  s2 = s2  s3 = s3
  r1 = r1  r2 = r2  r3 = r3  r4 = r4
  NoTurn = NoTurn  NoSession = NoSession
  Turns = {t1, t2, t3, t4}
  Sessions = {s1, s2, s3}
  Requests = {r1, r2}
  SessionOf <- TwoAlike
  RequestOf <- BothRetried
  N = 2
  MaxSessions = 1
  MaxDrops = 1
INVARIANTS TypeOK NoConcurrentRetry PendingOwned OverlapOnlyByEviction
PROPERTIES QueuedStartUnlessStuck
CHECK_DEADLOCK FALSE
