SPECIFICATION Spec
CONSTANTS
  t1 = t1  t2 = t2
  Shell = {t1, t2}
  MaxSecrets = 5
  MaxMade = 2
  MaxCalls = 4
  MaxUpsets = 2
SYMMETRY Symmetry
INVARIANT NameIsFree
INVARIANT KeysMatch
INVARIANT RunsAsConfigured
 
CHECK_DEADLOCK FALSE
