SPECIFICATION Spec
CONSTANTS
  s1 = s1  s2 = s2  d1 = d1  d2 = d2  c1 = c1  c2 = c2
  NoSession = NoSession
  Sessions = {s1, s2}
  Conns = {c1, c2}
  Devices = {d1}
  Lease = 1
  MaxPending = 1
  MaxTimeouts = 1
  Suspending = {d1}
  SlowStart = {d1}
  Interlocked = {d1}
INVARIANT HaltNotAbandoned
CHECK_DEADLOCK FALSE
