\* Two requests at once for two roles of one number, for the codes and tickets
\* of one or two people, for the profiles of two, and for a team of two admins.
\* Requests stop coming when the rows have run out.
CONSTANTS
  None = None
  Workers = {w1, w2}
  Numbers = {n1}
  ROLES = {CREATOR, FREELANCER}
  AccountIds = {a1, a2}
  UserIds = {u1, u2}
  TokenIds = {t1}
  Legacy = {u1}
  OTP_MAX_ATTEMPTS = 2
  MaxOtps = 3
  EMAIL_OTP_MAX_ATTEMPTS = 2
  MaxEmails = 2
  Mobiles = {m1, m2}
  Emails = {e1, e2}
  MaxTickets = 2
  Staff = {s1, s2}
  x = x
  y = y
  z = z
  ProfileUsers = {x, y, z}
  PersonOf <- MCPersonOf
  TableOf <- MCTableOf
  Unlinked = {z}
  Mails = {e1}
  AdminIds = {d1, d2}
  Secrets = {k1}
SPECIFICATION Spec
INVARIANTS
  TypeOK
  OneUserPerRole
  GuessesAreLimited
  EmailsAreProven
  EntriesBounded
PROPERTIES
  AccountsClose
  LoginAloneSucceeds
  CodesStaySettled
  SupersRemain
  NoWayIn
SYMMETRY Interchangeable
CHECK_DEADLOCK FALSE
