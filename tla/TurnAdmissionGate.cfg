SPECIFICATION FairSpec
CONSTANTS
  N = 1
  Turns = {t1}
  Ops = {o1, o2}
  GateOps = {o1, o2}
  GateBound = 2
  NoOp = NoOp
PROPERTIES ExclusiveServed
