\* One broadcast to named users, one request, one database error or restart.
CONSTANTS
  a1 = a1
  None = None
  Broadcasts = {b1}
  ApprovalRequired = {}
  QuietTargets = {}
  Templated = {}
  Creator <- MCCreator
  Admins = {a1}
  Users = {u1}
  Handlers = {h1}
  Pollers = {p1}
  MaxTime = 1
  Quiet = {}
  MaxFailures = 1
SPECIFICATION Spec
INVARIANTS
  SentIsRecorded
CHECK_DEADLOCK FALSE
