\* The receiver responds while the sender cancels.
CONSTANTS
  c1 = c1
  f1 = f1
  None = None
  Users = {c1, f1}
  Role <- MCRole
  PremiumUsers = {}
  Posts = {}
  PostOwner <- MCPostOwner
  Workers = {w1, w2}
  CollabIds = {i1, i2}
  Quota = 1
  Months = 1
  MayBlock = {}
SPECIFICATION Spec
SYMMETRY Symmetry
PROPERTY
  AcceptedNotCancelled
