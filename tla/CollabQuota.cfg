\* Two requests at once, a post to ask about besides no post, three rows and
\* two months: rows for one more request than the quota and the concurrency
\* together allow.
CONSTANTS
  c1 = c1
  f1 = f1
  None = None
  Users = {c1, f1}
  Role <- MCRole
  PremiumUsers = {}
  Posts = {p1}
  PostOwner <- MCPostOwner
  Workers = {w1, w2}
  CollabIds = {i1, i2, i3}
  Quota = 1
  Months = 2
  MayBlock = {}
SPECIFICATION Spec
SYMMETRY Symmetry
INVARIANT
  QuotaOvershootBounded
