CONSTANTS
  c1 = c1
  c2 = c2
  c3 = c3
  u1 = u1
  u2 = u2
  Clauses = {c1, c2, c3}
  Keys = {"a"}
  Uses = {u1, u2}
  Retractors = {u1}
  OwnCuts = TRUE
  MaxStamp = 5
  NULL = NULL
SYMMETRY Symm
SPECIFICATION Spec
INVARIANT TypeOK
INVARIANT ReferencesValid
INVARIANT IndexConsistent
INVARIANT NoGarbage
PROPERTY RefinesView
CHECK_DEADLOCK FALSE
