SPECIFICATION Spec
CONSTANTS
  t1 = t1  t2 = t2  t3 = t3  t4 = t4
  s1 = s1  s2 = s2  s3 = s3
  r1 = r1  r2 = r2  r3 = r3  r4 = r4
  NoTurn = NoTurn  NoSession = NoSession
  Turns = {t1, t2, t3, t4}
  Sessions = {s1, s2, s3}
  Requests = {r1, r2, r3, r4}
  SessionOf <- TwoAlike
  RequestOf <- AllDistinct
  MaxSessions = 2
  N = 1
  MaxDrops = 1
INVARIANT SlotsReturned
CHECK_DEADLOCK FALSE
