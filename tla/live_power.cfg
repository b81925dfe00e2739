SPECIFICATION FairSpec
CONSTANTS
  small = small
  large = large
  bogus = bogus
  s10 = s10
  s20 = s20
  ValidClasses = {small, large}
  UnknownClasses = {bogus}
  Sizes = {s10, s20}
  NoIP = NoIP
  NoObject = NoObject
  v1 = v1
  v2 = v2
  VpcIPs = {v1, v2}
  MgmtIPs = {}
  Specs <- PowerSpecs
  Faults = {"crash", "api"}
  MaxGeneration = 2
  MaxIncarnations = 1
  MaxFailedDeletes = 0
  MaxRoutes = 0
PROPERTY Settles
PROPERTY StopTakesEffect
PROPERTY EndpointConverges
CHECK_DEADLOCK FALSE
