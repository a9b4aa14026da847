\* Three users of two people, two requests at once, two rows of each kind and
\* two deliveries by Instagram; the subscriptions are those of one
\* person, one at each billing system.
CONSTANTS
  None = None
  Workers = {w1, w2}
  x = x
  y = y
  z = z
  IgUsers = {x, y, z}
  AccountOf <- MCAccountOf
  Handles = {h1, h2}
  MaxIgs = 2
  MaxDeliveries = 2
  SocialUsers = {x, y, z}
  HolderOf <- MCAccountOf
  Channels = {c1}
  SocialRows = {r1, r2}
  Subscribers = {x, y}
  PayerOf <- MCAccountOf
  RazorpayIds = {s1}
  Purchases = {o1}
  PushUsers = {x, y}
  Phones = {f1, f2}
  Others = {x, y}
SPECIFICATION Spec
INVARIANTS
  TypeOK
  PhonesAsAsked
  OncePerPerson
PROPERTIES
  ExclusiveHandles
  FirstIsPermanent
  OnlyOwnAccountUndoes
  CancelledBeforeClosed
SYMMETRY Interchangeable
CHECK_DEADLOCK FALSE
