SPECIFICATION Spec
CONSTANTS
  Gateways = {g1, g2}
  Tools = {t1, t2}
  Providers = {codex, other}
  Codex = codex
  MaxOps = 4
  MaxCrashes = 1
INVARIANTS WholeFiles RecordsKept
CHECK_DEADLOCK FALSE
