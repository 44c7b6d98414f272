SPECIFICATION Spec
CONSTANT Inputs <- Lists
INVARIANT SelectsLeast
CHECK_DEADLOCK FALSE
