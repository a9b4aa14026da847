\* Two broadcasts, one to a segment (approval and quiet hours) and a templated
\* one to premium users (quiet hours only); one request and one poll at once.
\* The system stops when the clock does and all is sent.
CONSTANTS
  a1 = a1
  None = None
  Broadcasts = {segment, premium}
  ApprovalRequired = {segment}
  QuietTargets = {segment, premium}
  Templated = {premium}
  Creator <- MCCreator
  Admins = {a1, a2}
  Users = {u1, u2}
  Handlers = {h1}
  Pollers = {p1}
  MaxTime = 2
  Quiet <- MCQuiet
  MaxFailures = 1
SPECIFICATION Spec
INVARIANT
  CopiesBounded
CHECK_DEADLOCK FALSE
