SPECIFICATION Spec
CONSTANTS
  Requests = {q1, q2, q3}
  Triggers = {hug}
  Defaults = {hug}
  DefaultText = DefaultText
  Absent = Absent
  RedisFails = TRUE
PROPERTY RemovalsKept
CHECK_DEADLOCK FALSE
