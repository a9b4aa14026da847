\* Two requests at once between a creator and two freelancers, at most two rows:
\* of one pair or of two.  No symmetry: RequestsFinish is a liveness
\* property.
CONSTANTS
  c1 = c1
  f1 = f1
  None = None
  Users = {c1, f1, f2}
  Role <- MCRole
  PremiumUsers = {}
  Posts = {}
  PostOwner <- MCPostOwner
  Workers = {w1, w2}
  CollabIds = {i1, i2}
  Quota = 1
  Months = 1
  MayBlock = {}
SPECIFICATION FairSpec
INVARIANTS
  TypeOK
  AcceptedHasConversation
PROPERTIES
  LinkedOnlyByAccept
  ImplementsContact
  RequestsFinish
