SPECIFICATION Spec
CONSTANTS
  small = small
  large = large
  bogus = bogus
  s10 = s10
  s20 = s20
  ValidClasses = {small, large}
  UnknownClasses = {bogus}
  Sizes = {s10, s20}
  NoIP = NoIP
  NoObject = NoObject
  m1 = m1
  v1 = v1
  VpcIPs = {v1}
  MgmtIPs = {m1}
  Specs <- OneSpec
  Faults = {"crash", "api"}
  MaxGeneration = 1
  MaxIncarnations = 2
  MaxFailedDeletes = 1
  MaxRoutes = 2
INVARIANT IInv
INVARIANT ViewInv
PROPERTY CreatesForStored
PROPERTY ShowsInstanceView
CHECK_DEADLOCK FALSE
