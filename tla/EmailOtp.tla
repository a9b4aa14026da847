------------------------------ MODULE EmailOtp ------------------------------
(***************************************************************************)
(* The verification of one user's email address by a code                  *)
(* (services/email/emailOtp.service.js).  Unlike a code by SMS, a code is  *)
(* checked by the id of its row, and has a status.                         *)
(***************************************************************************)
EXTENDS Requests, Naturals, FiniteSets, Sequences

CONSTANTS
  EMAIL_OTP_MAX_ATTEMPTS,
  MaxEmails                \* bound: how many codes are sent

VARIABLE emails  \* table EmailVerification of this user and address, oldest first

emailVars == <<emails, job>>

ASSUME EmailConstants == EMAIL_OTP_MAX_ATTEMPTS \in Nat \ {0}

EmailVerificationStatus == {"PENDING", "VERIFIED", "EXPIRED", "FAILED"}

EmailRow == [status : EmailVerificationStatus, attempts : Nat,
             cooling : BOOLEAN, expired : BOOLEAN]

EmailJob == {Idle} \cup [at : {"expireEarlier", "createEmail"}]
            \cup [at : {"missEmail"}, email : DOMAIN emails]
            \cup [at : {"settleEmail"}, email : DOMAIN emails,
                  status : EmailVerificationStatus]

EmailInit == emails = <<>> /\ job = NoJobs

---------------------------------------------------------------------------
(* startEmailVerification *)

CheckEmailCooldown(w) ==
  /\ \A i \in DOMAIN emails : ~emails[i].cooling
  /\ Begin(w, [at |-> "expireEarlier"])
  /\ UNCHANGED emails

ExpireEarlier(w) ==
  /\ job[w].at = "expireEarlier"
  /\ emails' = [i \in DOMAIN emails |->
                  IF emails[i].status = "PENDING"
                  THEN [emails[i] EXCEPT !.status = "EXPIRED"] ELSE emails[i]]
  /\ GoTo(w, [at |-> "createEmail"])

CreateEmail(w) ==
  /\ job[w].at = "createEmail"
  /\ Len(emails) < MaxEmails
  /\ emails' = Append(emails, [status |-> "PENDING", attempts |-> 0,
                               cooling |-> TRUE, expired |-> FALSE])
  /\ Finish(w)

---------------------------------------------------------------------------
(* verifyEmailCode *)

SettleAs(i, status) == [at |-> "settleEmail", email |-> i, status |-> status]

\* A code that is verified or no longer valid is answered at once.
FindEmail(w, i, right) ==
  LET e == emails[i]
  IN  /\ e.status = "PENDING"
      /\ Begin(w, CASE e.expired -> SettleAs(i, "EXPIRED")
                    [] ~e.expired /\ e.attempts >= EMAIL_OTP_MAX_ATTEMPTS
                         -> SettleAs(i, "FAILED")
                    [] ~e.expired /\ e.attempts < EMAIL_OTP_MAX_ATTEMPTS
                         -> IF right THEN SettleAs(i, "VERIFIED")
                            ELSE [at |-> "missEmail", email |-> i])
      /\ UNCHANGED emails

CountEmailAttempt(w) ==
  LET i == job[w].email
  IN  /\ job[w].at = "missEmail"
      /\ emails' = [emails EXCEPT ![i].attempts = @ + 1]
      /\ IF emails[i].attempts + 1 >= EMAIL_OTP_MAX_ATTEMPTS
         THEN GoTo(w, SettleAs(i, "FAILED")) ELSE Finish(w)

\* The status is written whatever the row has become.
SettleEmail(w) ==
  /\ job[w].at = "settleEmail"
  /\ emails' = [emails EXCEPT ![job[w].email].status = job[w].status]
  /\ Finish(w)

EmailTimePasses(i) ==
  /\ emails' \in {[emails EXCEPT ![i].cooling = FALSE],
                  [emails EXCEPT ![i].expired = TRUE]}
  /\ UNCHANGED job

EmailNext ==
  \/ \E w \in Workers :
       \/ CheckEmailCooldown(w) \/ ExpireEarlier(w) \/ CreateEmail(w)
       \/ \E i \in DOMAIN emails, right \in BOOLEAN : FindEmail(w, i, right)
       \/ CountEmailAttempt(w) \/ SettleEmail(w)
  \/ \E i \in DOMAIN emails : EmailTimePasses(i)

EmailSpec == EmailInit /\ [][EmailNext]_emailVars

---------------------------------------------------------------------------
(* Properties *)

EmailTypeOK ==
  /\ \A i \in DOMAIN emails : emails[i] \in EmailRow
  /\ job \in [Workers -> EmailJob]

AtEmail(i) ==
  {w \in Workers : job[w].at \in {"missEmail", "settleEmail"} /\ job[w].email = i}

\* A code nobody may guess any more is no longer pending: what took the last
\* attempt, or a request still at it, fails it.
ExhaustedEmailsFail ==
  \A i \in DOMAIN emails :
    emails[i].attempts >= EMAIL_OTP_MAX_ATTEMPTS
    => emails[i].status # "PENDING" \/ AtEmail(i) # {}

SettledEmail(i) == emails[i].status # "PENDING" /\ AtEmail(i) = {}

\* isEmailVerifiedForUser: the outcome of a verification that no request is at
\* stays; asking for another code takes a verified address back no more than
\* it revives an expired code.
SettledEmailsStay ==
  [][\A i \in DOMAIN emails :
       SettledEmail(i) => SettledEmail(i)' /\ emails'[i].status = emails[i].status
    ]_emailVars

=============================================================================
