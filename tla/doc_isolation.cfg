SPECIFICATION Spec
CONSTANTS
  Names = {orders, billing}
  Namespaces = {teamA, teamB}
  MaxRoutes = 2
  None = None
INVARIANT DedicatedVPC
CHECK_DEADLOCK FALSE
