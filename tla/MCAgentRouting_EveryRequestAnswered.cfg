SPECIFICATION Spec
CONSTANTS
  c1 = c1
  c2 = c2
  s1 = s1
  s2 = s2
  a1 = a1
  Clients = {c1, c2}
  Subs = {}
  Actions = {a1}
  Owner <- MCOwner
  Shared = FALSE
  MaxConns = 1
  MaxEvents = 0
INVARIANTS
  EveryRequestAnswered
CHECK_DEADLOCK FALSE
