CONSTANTS
  Msgs = {m1, m2}
  Salts = {t1, t2}
  Handles = {h1, h2}
  MaxAttempt = 3
  CtrVals = 3
  ExpandSk = FALSE
  ExpandPk = FALSE
  None = None
SPECIFICATION Spec
PROPERTIES
  SolvedSucceeds
