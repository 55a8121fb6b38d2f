SPECIFICATION HostedSpec
CONSTANTS
  r1 = r1
  m1 = m1
  c1 = c1
  c2 = c2
  Runtimes <- MCRuntimes
  CompiledModels <- MCModels
  ExecutionContexts <- MCContexts
  Admitters <- MCAdmitters
  MaxIdentity = 4
  MaxTicket = 3
CHECK_DEADLOCK FALSE
INVARIANTS TypeOK AlwaysValid IdentitiesLast AcceptedIsHonoured CountsAreExact ParentOutlivesChildren
PROPERTIES KeepsPromise CloseEnds
