CONSTANTS
  t1 = t1
  t2 = t2
  Tasks = {t1, t2}
  Limit = 2
  Uses <- AllUses
SPECIFICATION Spec
INVARIANTS NoOrphans ResetRetiresTasks OutcomeReachesParent
CHECK_DEADLOCK FALSE
