SPECIFICATION Spec
CONSTANTS
  c1 = c1
  c2 = c2
  p1 = p1
  p2 = p2
  n1 = n1
  d1 = d1
  d2 = d2
  None = None
  Creates = {c1, c2}
  Patches = {p1, p2, n1}
  Deletes = {d1, d2}
  TargetOf <- MCTargetOf
  Fields <- MCFields
  Titles = {"old", "new"}
  TitleOf <- MCTitleOf
  DoneOf <- MCDoneOf
  Null = {n1}
  MaxFaults = 1
INVARIANTS
  PatchesStand
  AnswersAgree
SYMMETRY MCSymmetry
\* The requests are finite in number.
CHECK_DEADLOCK FALSE
