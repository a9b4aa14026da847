\* One request at a time between a creator and a freelancer, who may block
\* the creator; two months and three rows, so that the quota is met.
CONSTANTS
  c1 = c1
  f1 = f1
  None = None
  Users = {c1, f1}
  Role <- MCRole
  PremiumUsers = {f1}
  Posts = {p1}
  PostOwner <- MCPostOwner
  Workers = {w1}
  CollabIds = {i1, i2, i3}
  Quota = 1
  Months = 2
  MayBlock <- MCBlocks
SPECIFICATION Spec
SYMMETRY Symmetry
PROPERTIES
  ImplementsProtocol
