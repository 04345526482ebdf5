SPECIFICATION FairSpec
CONSTANTS
  Clients = {c1, c2, c3}
  MAX_CONTROL_CONNS = 1
  MAX_BUSY_CONNS = 1
  Requests <- ReadyProbe
  NoRequest = NoRequest
INVARIANTS PermitsMatchTasks AnswersAreCurrent
PROPERTIES ConnectionsEnd StopIsHeard
CHECK_DEADLOCK FALSE
