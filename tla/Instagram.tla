----------------------------- MODULE Instagram -----------------------------
(***************************************************************************)
(* Connecting Instagram accounts to a user by a direct message             *)
(* (modules/instagram/instagram.service.js).  Whoever sees a row's code    *)
(* may send it, from any Instagram account, and Meta may deliver a message *)
(* more than once.  The follower counts and the profiles' copies of the    *)
(* handle are left out.                                                    *)
(***************************************************************************)
EXTENDS Requests, Naturals, Sequences

CONSTANTS
  IgUsers,       \* users
  AccountOf,     \* the account of each user
  Handles,       \* Instagram usernames
  MaxIgs,        \* bound: how many verifications are started or shared
  MaxDeliveries  \* bound: how many messages and shared handles there are

ASSUME IgConstants == MaxDeliveries \in Nat

VARIABLES
  igs,    \* table InstagramVerification, oldest row first
  igClock \* messages delivered and handles shared, the time of verifiedAt

igVars == <<igs, igClock, job>>

InstagramVerificationStatus == {"PENDING", "VERIFIED", "EXPIRED", "FAILED", "REMOVED"}

\* verifiedAt is the time the delivery began, or 0.
IgRow == [user : IgUsers, handle : Handles, status : InstagramVerificationStatus,
          expired : BOOLEAN, verifiedAt : 0..MaxDeliveries]

IgStages == {"own", "expireIgs", "createIg", "shareIg", "mayRemove",
             "removeIg", "expireIg", "sender", "failIg", "verifyIg"}

IgJob == {Idle}
         \cup [at : {"own", "expireIgs", "createIg", "shareIg"},
               user : IgUsers, handle : Handles, verifiedAt : 0..MaxDeliveries]
         \cup [at : {"mayRemove", "removeIg", "expireIg", "failIg"}, row : DOMAIN igs]
         \cup [at : {"sender", "verifyIg"}, row : DOMAIN igs, now : 1..MaxDeliveries]

IgInit ==
  /\ igs = <<>>
  /\ igClock = 0
  /\ job = NoJobs

\* The rows of a user, and of a user's account, with this status.
IgsOf(u, status) == {r \in DOMAIN igs : igs[r].status = status /\ igs[r].user = u}

AccountIgs(a, h, status) ==
  {r \in DOMAIN igs : /\ igs[r].status = status /\ igs[r].handle = h
                      /\ AccountOf[igs[r].user] = a}

\* Somebody else's account has connected the handle.
TakenByOther(u, h) ==
  \E v \in IgUsers : /\ AccountOf[v] # AccountOf[u]
                     /\ AccountIgs(AccountOf[v], h, "VERIFIED") # {}

Owns(u, h) == \E r \in IgsOf(u, "VERIFIED") : igs[r].handle = h

Entering(at, u, h, time) == [at |-> at, user |-> u, handle |-> h, verifiedAt |-> time]

---------------------------------------------------------------------------
(* startVerification and reuseVerifiedAccount *)

\* Mutant: other accounts are not looked at.
CheckOthersNot(w, u, h) ==
  /\ Begin(w, Entering("own", u, h, 0))
  /\ UNCHANGED <<igs, igClock>>

CheckOthers(w, u, h) ==
  /\ ~TakenByOther(u, h)
  /\ Begin(w, Entering("own", u, h, 0))
  /\ UNCHANGED <<igs, igClock>>

CheckOwn(w) ==
  LET j == job[w]
  IN  /\ j.at = "own"
      /\ IF Owns(j.user, j.handle) THEN Finish(w)
         ELSE GoTo(w, [j EXCEPT !.at = "expireIgs"])
      /\ UNCHANGED <<igs, igClock>>

ExpirePendingIgs(w) ==
  LET j == job[w]
  IN  /\ j.at = "expireIgs"
      /\ igs' = [r \in DOMAIN igs |-> IF r \in IgsOf(j.user, "PENDING")
                                      THEN [igs[r] EXCEPT !.status = "EXPIRED"] ELSE igs[r]]
      /\ GoTo(w, [j EXCEPT !.at = "createIg"])
      /\ UNCHANGED igClock

CreateIg(w) ==
  LET j == job[w]
      shared == j.at = "shareIg"
  IN  /\ j.at \in {"createIg", "shareIg"}
      /\ Len(igs) < MaxIgs
      /\ igs' = Append(igs, [user |-> j.user, handle |-> j.handle,
                             status |-> IF shared THEN "VERIFIED" ELSE "PENDING",
                             expired |-> FALSE, verifiedAt |-> j.verifiedAt])
      /\ Finish(w)
      /\ UNCHANGED igClock

\* A handle that another role of the same person has connected.
ReuseVerified(w, u, h) ==
  /\ ~Owns(u, h)
  /\ AccountIgs(AccountOf[u], h, "VERIFIED") # {}
  /\ igClock < MaxDeliveries
  /\ igClock' = igClock + 1
  /\ Begin(w, Entering("shareIg", u, h, igClock'))
  /\ UNCHANGED igs

---------------------------------------------------------------------------
(* removeAccount and getVerificationStatus *)

ReadToRemove(w, r) ==
  /\ igs[r].status = "VERIFIED"
  /\ Begin(w, [at |-> "mayRemove", row |-> r])
  /\ UNCHANGED <<igs, igClock>>

\* The rows of r's user that were verified first.
Earliest(u) ==
  {r \in IgsOf(u, "VERIFIED") :
     \A q \in IgsOf(u, "VERIFIED") : igs[r].verifiedAt <= igs[q].verifiedAt}

\* Mutant: the first account may be removed.
CheckNothing(w) ==
  /\ job[w].at = "mayRemove"
  /\ GoTo(w, [job[w] EXCEPT !.at = "removeIg"])
  /\ UNCHANGED <<igs, igClock>>

CheckFirst(w) ==
  LET r == job[w].row
  IN  /\ job[w].at = "mayRemove"
      /\ IF r \in Earliest(igs[r].user) THEN Finish(w)
         ELSE GoTo(w, [job[w] EXCEPT !.at = "removeIg"])
      /\ UNCHANGED <<igs, igClock>>

ReadToExpire(w, r) ==
  /\ igs[r].status = "PENDING" /\ igs[r].expired
  /\ Begin(w, [at |-> "expireIg", row |-> r])
  /\ UNCHANGED <<igs, igClock>>

---------------------------------------------------------------------------
(* handleWebhookMessage *)

\* A message with the code of row r arrives, and Instagram is asked who sent
\* it.
FindByCode(w, r) ==
  /\ igs[r].status = "PENDING" /\ ~igs[r].expired
  /\ igClock < MaxDeliveries
  /\ igClock' = igClock + 1
  /\ Begin(w, [at |-> "sender", row |-> r, now |-> igClock'])
  /\ UNCHANGED igs

\* The sender is the handle, or somebody else, or nobody knows.
CheckSender(w, same) ==
  LET j == job[w]
  IN  /\ j.at = "sender"
      /\ GoTo(w, IF same THEN [j EXCEPT !.at = "verifyIg"]
                 ELSE [at |-> "failIg", row |-> j.row])
      /\ UNCHANGED <<igs, igClock>>

VerifyIg(w) ==
  LET j == job[w]
  IN  /\ j.at = "verifyIg"
      /\ igs' = [igs EXCEPT ![j.row].status = "VERIFIED", ![j.row].verifiedAt = j.now]
      /\ Finish(w)
      /\ UNCHANGED igClock

\* The other statuses, written like it whatever the row has become.
SettleIg(w) ==
  LET j == job[w]
  IN  /\ j.at \in {"removeIg", "expireIg", "failIg"}
      /\ igs' = [igs EXCEPT ![j.row].status =
                   CASE j.at = "removeIg" -> "REMOVED"
                     [] j.at = "expireIg" -> "EXPIRED"
                     [] j.at = "failIg" -> "FAILED"]
      /\ Finish(w)
      /\ UNCHANGED igClock

IgDeadlinePasses(r) ==
  /\ igs[r].status = "PENDING" /\ ~igs[r].expired
  /\ igs' = [igs EXCEPT ![r].expired = TRUE]
  /\ UNCHANGED <<igClock, job>>

---------------------------------------------------------------------------
IgStep(w) ==
  \/ CheckOwn(w) \/ ExpirePendingIgs(w) \/ CreateIg(w) \/ CheckFirst(w)
  \/ \E same \in BOOLEAN : CheckSender(w, same)
  \/ VerifyIg(w) \/ SettleIg(w)

IgNext ==
  \/ \E w \in Workers :
       \/ IgStep(w)
       \/ \E u \in IgUsers, h \in Handles : CheckOthers(w, u, h) \/ ReuseVerified(w, u, h)
       \/ \E r \in DOMAIN igs : ReadToRemove(w, r) \/ ReadToExpire(w, r) \/ FindByCode(w, r)
  \/ \E r \in DOMAIN igs : IgDeadlinePasses(r)

IgSpec == IgInit /\ [][IgNext]_igVars

---------------------------------------------------------------------------
(* Properties *)

IgTypeOK ==
  /\ \A r \in DOMAIN igs : igs[r] \in IgRow
  /\ igClock \in 0..MaxDeliveries
  /\ job \in [Workers -> IgJob]

\* Worker w has read row r.
Holds(w, r) == job[w].at \in IgStages \ {"own", "expireIgs", "createIg", "shareIg"}
               /\ job[w].row = r

\* Account a alone has connected handle h, and no other account has passed
\* the check that would let it.
Exclusive(a, h) ==
  /\ AccountIgs(a, h, "VERIFIED") # {}
  /\ \A r \in DOMAIN igs :
       igs[r].handle = h /\ AccountOf[igs[r].user] # a
       => igs[r].status \notin {"PENDING", "VERIFIED"} /\ \A w \in Workers : ~Holds(w, r)
  /\ \A w \in Workers :
       job[w].at \in {"own", "expireIgs", "createIg", "shareIg"} /\ job[w].handle = h
       => AccountOf[job[w].user] = a

\* "Block if this handle is already verified under a genuinely different
\* account": a handle that one account alone has, with no other at work on
\* it, stays that account's own until it gives it up.
ExclusiveHandles ==
  [][\A u \in IgUsers, h \in Handles :
       LET a == AccountOf[u]
       IN  Exclusive(a, h) /\ AccountIgs(a, h, "VERIFIED")' # {}
           => Exclusive(a, h)']_igVars

\* Row r is u's first, and no removal or delivery under way can change that.
Anchored(u, r) ==
  /\ r \in Earliest(u)
  /\ \A w \in Workers :
       /\ Holds(w, r) => job[w].at = "mayRemove"
       /\ job[w].at \in {"sender", "verifyIg"} /\ igs[job[w].row].user = u
          => job[w].now > igs[r].verifiedAt
       /\ job[w].at = "shareIg" /\ job[w].user = u => job[w].verifiedAt > igs[r].verifiedAt

\* "The first Instagram account verified is permanent", whatever removals and
\* deliveries race from then on.
FirstIsPermanent ==
  [][\A u \in IgUsers, r \in DOMAIN igs : Anchored(u, r) => Anchored(u, r)']_igVars

=============================================================================
