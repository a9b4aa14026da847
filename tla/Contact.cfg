\* Two people, two requests at once, one message, three calls or two posts; one
\* boost a month and three posts to boost.  A request that can write no more
\* stays where it is.
CONSTANTS
  None = None
  Workers = {w1, w2}
  A = A
  B = B
  p1 = p1
  p2 = p2
  p3 = p3
  People = {A, B}
  MaxMessages = 1
  MaxCalls = 3
  Members = {A, B}
  Posts = {p1, p2}
  AuthorOf <- MCAuthorOf
  OwnPosts = {p1, p2, p3}
  FREE_BOOSTS_PER_MONTH = 1
  creator = creator
  freelancer = freelancer
  editor = editor
  q1 = q1
  q2 = q2
  q3 = q3
  q4 = q4
  Nobody = None
  Folk = {creator, freelancer, editor}
  RoleOf <- MCRoleOf
  SlugsOf <- MCSlugsOf
  WallPosts = {q1, q2, q3, q4}
  CreatedAt <- MCCreatedAt
  Limits = {1, 2}
  WriterOf <- MCWriterOf
  WantedOf <- MCWantedOf
  MaxChanges = 2
  EarlierReports <- MCEarlierReports
  SlaSample = 1
  SignedUpAt <- MCSignedUpAt
SPECIFICATION Spec
INVARIANTS
  TypeOK
  ListsAreBusted
  FewRinging
  BoostsAreRationed
  BrowsingOpens
  FiguresAgree
PROPERTIES
  NothingNewWhenClosed
  ReactionsAreOnesOwn
  OverIsOver
  BlockedStayAway
  TakenDownStaysDown
SYMMETRY Interchangeable
CHECK_DEADLOCK FALSE
