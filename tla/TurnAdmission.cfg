SPECIFICATION FairSpec
CONSTANTS
  N = 2
  Turns = {t1, t2, t3}
  Ops = {o1, o2}
  GateOps = {o1}
  GateBound = 2
  NoOp = NoOp
INVARIANTS TypeOK PermitsConserved ExclusiveAlone MetricsExact
PROPERTIES ImplementsContract TurnsAdmitted ExclusiveServed
