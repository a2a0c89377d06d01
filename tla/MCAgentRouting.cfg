SPECIFICATION Spec
CONSTANTS
  c1 = c1
  c2 = c2
  s1 = s1
  s2 = s2
  a1 = a1
  Clients = {c1, c2}
  Subs = {s1}
  Actions = {a1}
  Owner <- MCOwner
  Shared = TRUE
  MaxConns = 2
  MaxEvents = 1
INVARIANTS
  RoutingInv
  ResultIsOnlyAnswer
  DisconnectReported
  SubscriptionsReleased
CHECK_DEADLOCK FALSE
