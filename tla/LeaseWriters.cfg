SPECIFICATION Spec
CONSTANTS
  None = None
  Torn = Torn
  Repairs = {"repair"}
  Reviews = {"review", "other"}
  Instances = {1, 2}
INVARIANTS
  OneRunWrites
CHECK_DEADLOCK FALSE
