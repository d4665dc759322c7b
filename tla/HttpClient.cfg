CONSTANT
  Fetches = {f1, f2}
SPECIFICATION LiveSpec
INVARIANT TypeOK
PROPERTIES FetchSpec FetchReturns
