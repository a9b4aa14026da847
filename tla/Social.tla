------------------------------- MODULE Social -------------------------------
(***************************************************************************)
(* Connecting the YouTube channel or Facebook page of a user by OAuth      *)
(* (modules/social-verifications/socialVerification.service.js), on one    *)
(* platform.  The browser comes back to the callback with any code, as     *)
(* often as it likes; the platform names a channel or refuses.             *)
(***************************************************************************)
EXTENDS Requests

CONSTANTS
  SocialUsers,  \* users
  HolderOf,     \* the account of each user
  Channels,     \* channels and pages
  SocialRows    \* rows table SocialVerification may get

VARIABLE socials  \* table SocialVerification

socialVars == <<socials, job>>

SocialVerificationStatus == {"PENDING", "VERIFIED", "FAILED", "EXPIRED"}

SocialRow == [user : SocialUsers, status : SocialVerificationStatus,
              channel : Channels \cup {None}, expired : BOOLEAN]

ASSUME SocialConstants == None \notin Channels \cup SocialRow

SocialJob == {Idle} \cup [at : {"start"}, user : SocialUsers]
             \cup [at : {"exchange", "failSocial", "expireSocial"}, row : SocialRows,
                   user : SocialUsers]
             \cup [at : {"others", "drop", "connect"}, row : SocialRows,
                   user : SocialUsers, channel : Channels]

SocialInit == socials = [r \in SocialRows |-> None] /\ job = NoJobs

Exists(r) == socials[r] # None

Pending(r) == Exists(r) /\ socials[r].status = "PENDING"

\* The rows in which users of u's account, or of others, have connected c.
Connected(u, c, own) ==
  {r \in SocialRows :
     /\ Exists(r) /\ socials[r].status = "VERIFIED" /\ socials[r].channel = c
     /\ (HolderOf[socials[r].user] = HolderOf[u]) = own}

AtRow(at, r, u) == [at |-> at, row |-> r, user |-> u]

Fail(w) == GoTo(w, AtRow("failSocial", job[w].row, job[w].user))

\* A new row is none that a request remembers.
Unused(r) == ~Exists(r) /\ \A w \in Busy : job[w].at # "start" => job[w].row # r

---------------------------------------------------------------------------
(* start and status *)

ExpirePendingSocials(w, u) ==
  /\ socials' = [r \in SocialRows |->
                   IF Pending(r) /\ socials[r].user = u
                   THEN [socials[r] EXCEPT !.status = "EXPIRED"] ELSE socials[r]]
  /\ Begin(w, [at |-> "start", user |-> u])

CreateSocial(w) ==
  /\ job[w].at = "start"
  /\ \E r \in SocialRows :
       /\ Unused(r)
       /\ socials' = [socials EXCEPT ![r] = [user |-> job[w].user, status |-> "PENDING",
                                             channel |-> None, expired |-> FALSE]]
  /\ Finish(w)

ReadStatus(w, r) ==
  /\ Pending(r) /\ socials[r].expired
  /\ Begin(w, AtRow("expireSocial", r, socials[r].user))
  /\ UNCHANGED socials

ExpireSocial(w) ==
  LET r == job[w].row
  IN  /\ job[w].at = "expireSocial"
      /\ socials' = IF Exists(r) THEN [socials EXCEPT ![r].status = "EXPIRED"] ELSE socials
      /\ Finish(w)

---------------------------------------------------------------------------
(* complete *)

\* The callback with the state of row r, or with the platform's error.
Callback(w, r, error) ==
  /\ Pending(r)
  /\ Begin(w, AtRow(IF error \/ socials[r].expired THEN "failSocial" ELSE "exchange",
                    r, socials[r].user))
  /\ UNCHANGED socials

\* The platform takes a code once.
Exchange(w, c) ==
  /\ job[w].at = "exchange"
  /\ IF c = None THEN Fail(w)
     ELSE GoTo(w, [at |-> "others", row |-> job[w].row, user |-> job[w].user,
                   channel |-> c])
  /\ UNCHANGED socials

CheckOtherAccounts(w) ==
  LET j == job[w]
  IN  /\ j.at = "others"
      /\ IF Connected(j.user, j.channel, FALSE) # {} THEN Fail(w)
         ELSE GoTo(w, [j EXCEPT !.at = "drop"])
      /\ UNCHANGED socials

\* Mutant: whoever's row has the channel is dropped.
DropAny(w) ==
  LET j == job[w]
      connected == {r \in SocialRows : /\ Exists(r) /\ socials[r].status = "VERIFIED"
                                       /\ socials[r].channel = j.channel}
  IN  /\ j.at = "drop"
      /\ socials' = [r \in SocialRows |-> IF r \in connected THEN None ELSE socials[r]]
      /\ GoTo(w, [j EXCEPT !.at = "connect"])

\* The account's earlier rows of the channel are deleted, which may be this
\* very one.
DropOwn(w) ==
  LET j == job[w]
  IN  /\ j.at = "drop"
      /\ socials' = [r \in SocialRows |->
                       IF r \in Connected(j.user, j.channel, TRUE)
                       THEN None ELSE socials[r]]
      /\ GoTo(w, [j EXCEPT !.at = "connect"])

\* The unique index is over channels, whatever the rows' status.
Connect(w) ==
  LET j == job[w]
      taken == \E r \in SocialRows \ {j.row} : Exists(r) /\ socials[r].channel = j.channel
  IN  /\ j.at = "connect"
      /\ IF ~Exists(j.row) \/ taken
         THEN Fail(w) /\ UNCHANGED socials
         ELSE /\ socials' = [socials EXCEPT ![j.row].status = "VERIFIED",
                                            ![j.row].channel = j.channel]
              /\ Finish(w)

\* Whatever went wrong, and whatever the row has become.
FailSocial(w) ==
  LET r == job[w].row
  IN  /\ job[w].at = "failSocial"
      /\ socials' = IF Exists(r) THEN [socials EXCEPT ![r].status = "FAILED"] ELSE socials
      /\ Finish(w)

SocialDeadlinePasses(r) ==
  /\ Pending(r) /\ ~socials[r].expired
  /\ socials' = [socials EXCEPT ![r].expired = TRUE]
  /\ UNCHANGED job

---------------------------------------------------------------------------
SocialNext ==
  \/ \E w \in Workers :
       \/ \E u \in SocialUsers : ExpirePendingSocials(w, u)
       \/ CreateSocial(w) \/ ExpireSocial(w)
       \/ \E r \in SocialRows :
            ReadStatus(w, r) \/ \E error \in BOOLEAN : Callback(w, r, error)
       \/ \E c \in Channels \cup {None} : Exchange(w, c)
       \/ CheckOtherAccounts(w) \/ DropOwn(w) \/ Connect(w) \/ FailSocial(w)
  \/ \E r \in SocialRows : SocialDeadlinePasses(r)

SocialSpec == SocialInit /\ [][SocialNext]_socialVars

---------------------------------------------------------------------------
(* Properties *)

SocialTypeOK ==
  /\ socials \in [SocialRows -> SocialRow \cup {None}]
  /\ job \in [Workers -> SocialJob]

\* "A sibling role is not another user", but others are: what an account has
\* connected is undone by requests of that account only, whatever callbacks of
\* others are under way.
OnlyOwnAccountUndoes ==
  [][\A r \in SocialRows :
       Exists(r) /\ socials[r].status = "VERIFIED" /\ socials'[r] # socials[r]
       => \E w \in Workers :
            /\ job'[w] # job[w] /\ job[w] # Idle
            /\ HolderOf[job[w].user] = HolderOf[socials[r].user]]_socialVars

=============================================================================
