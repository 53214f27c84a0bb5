SPECIFICATION RouteSpec
CONSTANTS
  num_rows = 4
  num_cols = 5
INVARIANTS 
  RoutesCloseTheLoop
  SameEndsBothWays
