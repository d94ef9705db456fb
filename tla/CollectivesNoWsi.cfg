SPECIFICATION CollSpec
CONSTANTS
  Waiters = {t1, t2}
  Keys = {k1}
  Allocs = {a1, a2, a3}
  MaxWorks = 1
  MaxPlans = 1
  Nothing = Nothing
SYMMETRY Symmetry
INVARIANT HandlesUsable
CHECK_DEADLOCK FALSE
