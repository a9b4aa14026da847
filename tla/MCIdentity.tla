----------------------------- MODULE MCIdentity -----------------------------
(***************************************************************************)
(* Who somebody is: accounts, codes by SMS and email, event tickets,       *)
(* profiles and admins, for TLC.  No table is shared between these         *)
(* components and no call goes from one to another once it began, so that  *)
(* interleaving them adds nothing: each behaviour is one of the component  *)
(* in focus.                                                               *)
(***************************************************************************)
EXTENDS Accounts, PhoneOtp, EmailOtp, Events, Profiles, Admins, TLC

CONSTANTS x, y, z  \* users; x and y are roles of one person

VARIABLE focus  \* the component whose requests are served

identityVars ==
  <<accountsVars, otps, emails, eventVars, profileVars, adminVars, focus>>

MCPersonOf == [u \in {x, y, z} |-> IF u = z THEN "other" ELSE "same"]

MCTableOf == [u \in {x, y, z} |-> IF u = y THEN "FREELANCER" ELSE "CREATOR"]

Init ==
  /\ focus \in {"accounts", "phone", "email", "events", "profiles", "admins"}
  /\ OtpInit /\ EmailInit /\ EventInit /\ ProfileInit
  /\ IF focus = "accounts" THEN AccountsInit
     ELSE /\ accounts = [a \in AccountIds |-> None]
          /\ users = [u \in UserIds |-> None]
          /\ tokens = [t \in TokenIds |-> None] /\ overlapped = {}
  /\ IF focus = "admins" THEN AdminInit
     ELSE admins = [a \in AdminIds |-> None] /\ sessions = {} /\ met = {}

Rest(c) ==
  /\ focus = c /\ UNCHANGED focus
  /\ c # "accounts" => UNCHANGED <<accounts, users, tokens, overlapped>>
  /\ c # "phone" => UNCHANGED otps
  /\ c # "email" => UNCHANGED emails
  /\ c # "events" => UNCHANGED <<registrations, entries>>
  /\ c # "profiles" => UNCHANGED <<profiles, verified, gone>>
  /\ c # "admins" => UNCHANGED <<admins, sessions, met>>

Next ==
  \/ Rest("accounts") /\ AccountsNext
  \/ Rest("phone") /\ OtpNext
  \/ Rest("email") /\ EmailNext
  \/ Rest("events") /\ EventNext
  \/ Rest("profiles") /\ ProfileNext
  \/ Rest("admins") /\ AdminNext

Spec == Init /\ [][Next]_identityVars

\* No property is temporal beyond single steps.
Interchangeable ==
  Permutations(Workers) \cup Permutations(AccountIds)
  \cup Permutations(UserIds \ Legacy) \cup Permutations(ROLES)

\* Every row and every request is of its type.
TypeOK ==
  /\ focus = "accounts" => AccountsTypeOK
  /\ focus = "phone" => OtpTypeOK
  /\ focus = "email" => EmailTypeOK
  /\ focus = "events" => EventTypeOK
  /\ focus = "profiles" => ProfileTypeOK
  /\ focus = "admins" => AdminTypeOK

\* OTP_MAX_ATTEMPTS and EMAIL_OTP_MAX_ATTEMPTS: the two kinds of codes are
\* limited in how often they are guessed and how many are good at once.
GuessesAreLimited == OtpGuessLimit /\ OtpsUsable /\ ExhaustedEmailsFail

\* What became of a code stays, unless a request is at the code.
CodesStaySettled == SpentOtpsStaySpent /\ SettledEmailsStay

\* A deleteAccount that met no other request closes the account, and neither a
\* token nor a moderator opens one again that no request was at when it closed.
AccountsClose == DeletionCloses /\ ClosedForGood /\ DeletionIsFinal

=============================================================================
