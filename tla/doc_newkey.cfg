SPECIFICATION Spec
CONSTANTS
  Requests = {r1, r2}
  Inputs <- ListCall
  k1 = k1
  k2 = k2
  Keys = {k1, k2}
  NoHeader = NoHeader
  NoBearer = NoBearer
  Values = {"admin", "operator ", "viewer", "root"}
  TrimSpace <- MCTrimSpace
  NoValue = NoValue
  InitialSecret <- OneKey
  NoSecret = NoSecret
  NewSecrets <- EditedSecrets
  Namespaces = {"default", "other"}
  defaultNamespace = "default"
  TenantsFiles <- Files
  NoTenant = NoTenant
  Unreadable = Unreadable
  NoObject = NoObject
  MaxKeyEdits = 1
  MaxEdits = 0
  MaxFaults = 0
INVARIANT NewKeyAccepted
CHECK_DEADLOCK FALSE
