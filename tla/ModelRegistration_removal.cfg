\* A credential is added and removed while the catalog goroutine registers it.
\* The system stops when the bounds are reached.
SPECIFICATION Spec
CONSTANTS
  a = a  b = b  m1 = m1  m2 = m2  p = p  q = q  i1 = i1  i2 = i2
  Clients = {a, b}
  Models = {m1, m2}
  Providers = {p, q}
  NoProvider = NoProvider
  QuotaWindow = 1
  Auth = a
  Inputs = {i1, i2}
  Off = Off
  Gone = Gone
  Offers <- TheOffers
  OtherOffer <- BothOffer
  MaxEpoch = 2
  MaxUpdates = 2
  MaxCatalog = 2
  MaxResults = 0
  MaxClock = 2
INVARIANTS RemovalUnregisters
CHECK_DEADLOCK FALSE
