SPECIFICATION Spec
CONSTANTS
  Gateways = {g1}
  Tools = {t1, t2}
  Providers = {codex, other}
  Codex = codex
  MaxOps = 4
  MaxCrashes = 0
INVARIANT DecisionsPersist
CHECK_DEADLOCK FALSE
