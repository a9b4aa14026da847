\* One broadcast to a segment (approval and quiet hours), two requests and
\* two polls at once.  The system stops when the clock does and all is sent.
CONSTANTS
  a1 = a1
  None = None
  Broadcasts = {segment}
  ApprovalRequired = {segment}
  QuietTargets = {segment}
  Templated = {}
  Creator <- MCCreator
  Admins = {a1, a2}
  Users = {u1}
  Handlers = {h1, h2}
  Pollers = {p1, p2}
  MaxTime = 2
  Quiet <- MCQuiet
  MaxFailures = 1
SPECIFICATION FairSpec
INVARIANTS
  SignedOff
PROPERTIES
  NotBeforePlanned
  RejectionIsFinal
  ScheduledIsSent
CHECK_DEADLOCK FALSE
