CONSTANT
  Fetches = {f1, f2}
SPECIFICATION Spec
INVARIANT ResponseKept
