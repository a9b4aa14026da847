------------------------------ MODULE PhoneOtp ------------------------------
(***************************************************************************)
(* The one-time passwords of one mobile number                             *)
(* (services/otp/otp.service.js): sending one, with its cooldown, and      *)
(* checking one, with its limit of attempts.  A code that was typed is     *)
(* right or wrong; delivering one by SMS changes nothing here.             *)
(***************************************************************************)
EXTENDS Requests, Naturals, Sequences, FiniteSetsExt

CONSTANTS
  OTP_MAX_ATTEMPTS,
  MaxOtps            \* bound: how many codes are sent

VARIABLE otps  \* table Otp, oldest row first

otpVars == <<otps, job>>

ASSUME OtpConstants == OTP_MAX_ATTEMPTS \in Nat /\ IsFiniteSet(Workers)

OtpRow == [attempts : Nat, isUsed : BOOLEAN, cooling : BOOLEAN, expired : BOOLEAN]

OtpStages == {"invalidate", "insert", "miss", "burn", "use"}

OtpJob == {Idle} \cup [at : {"invalidate", "insert"}]
          \cup [at : {"miss", "burn", "use"}, otp : DOMAIN otps]

OtpInit == otps = <<>> /\ job = NoJobs

Usable == {i \in DOMAIN otps : ~otps[i].isUsed /\ ~otps[i].expired}

---------------------------------------------------------------------------
(* sendOtp *)

CheckCooldown(w) ==
  /\ \A i \in DOMAIN otps : ~otps[i].cooling
  /\ Begin(w, [at |-> "invalidate"])
  /\ UNCHANGED otps

InvalidateOtps(w) ==
  /\ job[w].at = "invalidate"
  /\ otps' = [i \in DOMAIN otps |->
                IF i \in Usable THEN [otps[i] EXCEPT !.isUsed = TRUE] ELSE otps[i]]
  /\ GoTo(w, [at |-> "insert"])

InsertOtp(w) ==
  /\ job[w].at = "insert"
  /\ Len(otps) < MaxOtps
  /\ otps' = Append(otps, [attempts |-> 0, isUsed |-> FALSE,
                           cooling |-> TRUE, expired |-> FALSE])
  /\ Finish(w)

---------------------------------------------------------------------------
(* verifyOtp *)

\* Mutant: one attempt more.
ExhaustedLate(attempts) == attempts > OTP_MAX_ATTEMPTS

Exhausted(attempts) == attempts >= OTP_MAX_ATTEMPTS

\* What the handler does with row i, given whether the code is right.
Verdict(i, right) ==
  IF Exhausted(otps[i].attempts) THEN "burn"
  ELSE IF right THEN "use" ELSE "miss"

\* Mutant: the newest code, used or not.
FindOtpUsed(w, right) ==
  /\ otps # <<>> /\ ~otps[Len(otps)].expired
  /\ Begin(w, [at |-> Verdict(Len(otps), right), otp |-> Len(otps)])
  /\ UNCHANGED otps

\* The newest unused code, unless it has expired.
FindOtp(w, right) ==
  LET unused == {i \in DOMAIN otps : ~otps[i].isUsed}
  IN  /\ unused # {}
      /\ LET i == Max(unused)
         IN  ~otps[i].expired /\ Begin(w, [at |-> Verdict(i, right), otp |-> i])
      /\ UNCHANGED otps

\* A wrong code: the attempt is counted, the last one burns the code.
CountAttempt(w) ==
  LET i == job[w].otp
  IN  /\ job[w].at = "miss"
      /\ otps' = [otps EXCEPT ![i].attempts = @ + 1]
      /\ IF Exhausted(otps[i].attempts + 1)
         THEN GoTo(w, [job[w] EXCEPT !.at = "burn"]) ELSE Finish(w)

\* Burnt, or used for a login.
UseOtp(w) ==
  /\ job[w].at \in {"burn", "use"}
  /\ otps' = [otps EXCEPT ![job[w].otp].isUsed = TRUE]
  /\ Finish(w)

OtpTimePasses(i) ==
  /\ otps' \in {[otps EXCEPT ![i].cooling = FALSE], [otps EXCEPT ![i].expired = TRUE]}
  /\ UNCHANGED job

OtpNext ==
  \/ \E w \in Workers :
       \/ CheckCooldown(w) \/ InvalidateOtps(w) \/ InsertOtp(w)
       \/ \E right \in BOOLEAN : FindOtp(w, right)
       \/ CountAttempt(w) \/ UseOtp(w)
  \/ \E i \in DOMAIN otps : OtpTimePasses(i)

OtpSpec == OtpInit /\ [][OtpNext]_otpVars

---------------------------------------------------------------------------
(* Properties *)

OtpTypeOK ==
  /\ \A i \in DOMAIN otps : otps[i] \in OtpRow
  /\ job \in [Workers -> OtpJob]

\* OTP_MAX_ATTEMPTS: checks that race read the count before it grows, so a
\* code takes as many wrong guesses more as other requests are in flight, and
\* none once it is past the limit.
OtpGuessLimit ==
  \A i \in DOMAIN otps :
    otps[i].attempts + Cardinality({w \in Workers : job[w] = [at |-> "miss", otp |-> i]})
      < OTP_MAX_ATTEMPTS + Cardinality(Workers)

\* "Invalidate previous unused OTPs": requests in flight at once are all that
\* can leave more than one code usable.
OtpsUsable ==
  Cardinality(Usable) + Cardinality({w \in Workers : job[w].at = "insert"})
    <= Cardinality(Workers)

SpentOtp(i) ==
  otps[i].isUsed /\ \A w \in Workers : job[w].at \in {"miss", "burn", "use"}
                                       => job[w].otp # i

\* A code that was used or invalidated, and that no request has read, lets
\* nobody in again.
SpentOtpsStaySpent == [][\A i \in DOMAIN otps : SpentOtp(i) => SpentOtp(i)']_otpVars

=============================================================================
