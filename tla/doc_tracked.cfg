SPECIFICATION Spec
CONSTANTS
  small = small
  large = large
  bogus = bogus
  s10 = s10
  s20 = s20
  ValidClasses = {small, large}
  UnknownClasses = {bogus}
  Sizes = {s10, s20}
  NoIP = NoIP
  NoObject = NoObject
  m1 = m1
  v1 = v1
  VpcIPs = {v1}
  MgmtIPs = {m1}
  Specs <- OneSpec
  Faults = {}
  MaxGeneration = 1
  MaxIncarnations = 1
  MaxFailedDeletes = 0
  MaxRoutes = 0
INVARIANT TrackedAreCleanedUp
CHECK_DEADLOCK FALSE
