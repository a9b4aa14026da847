\* One user, who may start two subscriptions at Razorpay, one request at a time.
CONSTANTS
  None = None
  Workers = {w1}
  x = x
  y = y
  z = z
  IgUsers = {x, y, z}
  AccountOf <- MCAccountOf
  Handles = {h1}
  MaxIgs = 1
  MaxDeliveries = 1
  SocialUsers = {x, y, z}
  HolderOf <- MCAccountOf
  Channels = {c1}
  SocialRows = {r1}
  Subscribers = {x}
  PayerOf <- MCAccountOf
  RazorpayIds = {s1, s2}
  Purchases = {o1}
  PushUsers = {x}
  Phones = {f1}
  Others = {x}
SPECIFICATION Spec
INVARIANTS
  BillingEndsWithAccount
SYMMETRY Interchangeable
CHECK_DEADLOCK FALSE
