CONSTANTS
  Links = {"a", "b"}
  MaxReferences = 6
  MaxConditions = 2
SPECIFICATION FilterSpec
INVARIANT RefsAreReusable
CHECK_DEADLOCK FALSE
