CONSTANT Users = {u1}
SPECIFICATION Spec
INVARIANT Released
CHECK_DEADLOCK FALSE
