\* A guest's thread, two requests, two agents, one of them a supervisor.
SPECIFICATION FairSpec
CONSTANTS
  g1 = g1  g2 = g2  t1 = t1  c1 = c1  c2 = c2
  None = None  Same = Same
  Agents = {g1, g2}
  Rotation = {g1}
  Supervisors = {g2}
  Leavers = {g1}
  Threads = {t1}
  Guests = {t1}
  Updates <- MCUpdates
  Callers = {c1, c2}
  MaxMessages = 3
  MaxAttempts = 2
  MaxFaults = 1
INVARIANTS
  WaitingIsArmed
  OwnerlessIsExcused
PROPERTIES
  WaitingEnds
  RoutingKeepsOwners
CHECK_DEADLOCK FALSE
