SPECIFICATION Spec
CONSTANTS
  Requests = {q1, q2, q3}
  Triggers = {hug, pat, kiss}
  Defaults = {hug, pat}
  DefaultText = DefaultText
  Absent = Absent
  RedisFails = TRUE
SYMMETRY Symmetry
INVARIANTS
  TypeOK
  DefaultsFound
  AddedByOne
PROPERTIES
  SeedKeepsResponses
CHECK_DEADLOCK FALSE
