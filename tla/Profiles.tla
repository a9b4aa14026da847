------------------------------ MODULE Profiles ------------------------------
(***************************************************************************)
(* The email addresses of profiles (modules/_shared/profileService.js): a  *)
(* user has one profile, in the table of the user's role, and what the     *)
(* roles of one account share is kept in step.  Only the email is modelled *)
(* here; an update that does not mention it writes none.                   *)
(***************************************************************************)
EXTENDS Requests

CONSTANTS
  ProfileUsers,
  PersonOf,      \* the account of each user, or who has none
  TableOf,       \* the role of each user, which names the profile's table
  Unlinked,      \* users from before there were accounts, who have none
  Mails          \* email addresses

VARIABLES
  profiles,  \* tables CreatorProfile and FreelancerProfile: the email of each user
  verified,  \* table EmailVerification: who has VERIFIED which address
  gone       \* users who are DELETED

profileVars == <<profiles, verified, gone, job>>

\* The empty string, which clears an email; null; and a deleted row's email,
\* "deleted_" and more, which is unique to its user.
Blank == "blank"
NoEmail == "null"
Tombstone == "tombstone"

ASSUME ProfileConstants ==
  /\ DOMAIN PersonOf = ProfileUsers /\ DOMAIN TableOf = ProfileUsers
  /\ Unlinked \subseteq ProfileUsers
  /\ \A u \in Unlinked, v \in ProfileUsers : PersonOf[u] = PersonOf[v] => u = v
  /\ ({Blank, NoEmail, Tombstone} \cup {None}) \cap Mails = {}
  /\ None \notin ProfileUsers \cup {Blank, NoEmail, Tombstone}

Writable == Mails \cup {Blank, NoEmail}

WriteStages == {"insertProfile", "updateProfile", "sibling", "sync"}

ProfileJob ==
  {Idle}
  \cup [at : {"available", "verified"}, user : ProfileUsers, email : Mails,
        old : Writable \cup {Tombstone, None}]
  \cup [at : WriteStages, user : ProfileUsers, email : Writable]
  \cup [at : {"tombstone"}, person : {PersonOf[u] : u \in ProfileUsers},
        named : SUBSET ProfileUsers]

ProfileInit ==
  /\ profiles = [u \in ProfileUsers |-> None]
  /\ verified = {} /\ gone = {}
  /\ job = NoJobs

\* email is @unique in each of the two tables; nulls do not count.
UniqueEmail(u, email) ==
  email # NoEmail =>
    \A v \in ProfileUsers \ {u} : TableOf[v] = TableOf[u] => profiles[v] # email

---------------------------------------------------------------------------
(* createProfile and updateProfile *)

Writes(stage, u, email) == [at |-> stage, user |-> u, email |-> email]

\* The checks are passed.
Passed(j) ==
  Writes(IF j.old = None THEN "insertProfile" ELSE "updateProfile", j.user, j.email)

\* The body of a signup has an address.
CreateProfile(w, u, email) ==
  /\ u \notin gone /\ profiles[u] = None
  /\ Begin(w, [at |-> "available", user |-> u, email |-> email, old |-> None])
  /\ UNCHANGED <<profiles, verified, gone>>

UpdateProfile(w, u, email) ==
  /\ u \notin gone /\ profiles[u] # None
  /\ Begin(w, IF email \in Mails
              THEN [at |-> "available", user |-> u, email |-> email, old |-> profiles[u]]
              ELSE Writes("updateProfile", u, email))
  /\ UNCHANGED <<profiles, verified, gone>>

\* Mutant: only a change of address is asked for a verified one.
ensureEmailAvailableOnly(w) ==
  LET j == job[w]
      taken == \E v \in ProfileUsers :
                 /\ TableOf[v] = TableOf[j.user] /\ profiles[v] = j.email
                 /\ PersonOf[v] # PersonOf[j.user]
  IN  /\ j.at = "available"
      /\ IF taken THEN Finish(w)
         ELSE GoTo(w, IF j.email = j.old \/ j.old = None THEN Passed(j)
                      ELSE [j EXCEPT !.at = "verified"])
      /\ UNCHANGED <<profiles, verified, gone>>

\* Other accounts are looked for in the user's own table.  An address that
\* does not change is not asked for again.
ensureEmailAvailable(w) ==
  LET j == job[w]
      taken == \E v \in ProfileUsers :
                 /\ TableOf[v] = TableOf[j.user] /\ profiles[v] = j.email
                 /\ PersonOf[v] # PersonOf[j.user]
  IN  /\ j.at = "available"
      /\ IF taken THEN Finish(w)
         ELSE GoTo(w, IF j.email = j.old THEN Passed(j)
                      ELSE [j EXCEPT !.at = "verified"])
      /\ UNCHANGED <<profiles, verified, gone>>

ensureEmailVerified(w) ==
  LET j == job[w]
  IN  /\ j.at = "verified"
      /\ IF <<j.user, j.email>> \in verified THEN GoTo(w, Passed(j))
         ELSE Finish(w)
      /\ UNCHANGED <<profiles, verified, gone>>

\* The second of two at once fails at a unique index.
InsertProfile(w) ==
  LET j == job[w]
  IN  /\ j.at = "insertProfile"
      /\ profiles' = IF profiles[j.user] = None /\ UniqueEmail(j.user, j.email)
                     THEN [profiles EXCEPT ![j.user] = j.email] ELSE profiles
      /\ Finish(w)
      /\ UNCHANGED <<verified, gone>>

WriteProfile(w) ==
  LET j == job[w]
  IN  /\ j.at = "updateProfile"
      /\ IF UniqueEmail(j.user, j.email)
         THEN /\ profiles' = [profiles EXCEPT ![j.user] = j.email]
              /\ GoTo(w, [j EXCEPT !.at = "sibling"])
         ELSE Finish(w) /\ UNCHANGED profiles
      /\ UNCHANGED <<verified, gone>>

\* The profile the account has in the other role, if any.
FindSibling(w) ==
  LET j == job[w]
      siblings == {v \in ProfileUsers \ gone : /\ PersonOf[v] = PersonOf[j.user]
                                               /\ TableOf[v] # TableOf[j.user]
                                               /\ profiles[v] # None}
  IN  /\ j.at = "sibling"
      /\ IF siblings = {} THEN Finish(w)
         ELSE \E v \in siblings :
                GoTo(w, Writes("sync", v, j.email))
      /\ UNCHANGED <<profiles, verified, gone>>

\* A clash is swallowed.
SyncSibling(w) ==
  LET j == job[w]
  IN  /\ j.at = "sync"
      /\ profiles' = IF UniqueEmail(j.user, j.email)
                     THEN [profiles EXCEPT ![j.user] = j.email] ELSE profiles
      /\ Finish(w)
      /\ UNCHANGED <<verified, gone>>

---------------------------------------------------------------------------
\* The end of verifyEmailCode: module EmailOtp.
VerifyEmail(u, email) ==
  /\ u \notin gone
  /\ verified' = verified \cup {<<u, email>>}
  /\ UNCHANGED <<profiles, gone, job>>

\* Deleting the account frees the addresses of the profiles it has read: those
\* of the account's users, none of a user without an account.
ReadProfiles(w, u) ==
  /\ u \notin gone
  /\ Begin(w, [at |-> "tombstone", person |-> PersonOf[u],
               named |-> {v \in ProfileUsers \ Unlinked :
                           PersonOf[v] = PersonOf[u] /\ profiles[v] \in Mails \cup {Tombstone}}])
  /\ UNCHANGED <<profiles, verified, gone>>

TombstoneEmails(w) ==
  LET j == job[w]
  IN  /\ j.at = "tombstone"
      /\ profiles' = [u \in ProfileUsers |->
                        IF u \in j.named THEN Tombstone ELSE profiles[u]]
      /\ gone' = gone \cup {u \in ProfileUsers : PersonOf[u] = j.person}
      /\ Finish(w)
      /\ UNCHANGED verified

---------------------------------------------------------------------------
ProfileNext ==
  \/ \E w \in Workers :
       \/ ensureEmailAvailable(w) \/ ensureEmailVerified(w)
       \/ InsertProfile(w) \/ WriteProfile(w) \/ FindSibling(w) \/ SyncSibling(w)
       \/ TombstoneEmails(w)
       \/ \E u \in ProfileUsers :
            \/ ReadProfiles(w, u)
            \/ \E email \in Mails : CreateProfile(w, u, email)
            \/ \E email \in Writable : UpdateProfile(w, u, email)
  \/ \E u \in ProfileUsers, email \in Mails : VerifyEmail(u, email)

ProfileSpec == ProfileInit /\ [][ProfileNext]_profileVars

---------------------------------------------------------------------------
(* Properties *)

ProfileTypeOK ==
  /\ profiles \in [ProfileUsers -> Writable \cup {Tombstone, None}]
  /\ verified \subseteq ProfileUsers \X Mails
  /\ gone \subseteq ProfileUsers
  /\ job \in [Workers -> ProfileJob]

\* "Please verify this email address": the address in a profile was verified
\* by its user or, through the profiles kept in step, by the same person in
\* the other role, whatever changes between the checks and the write.
EmailsAreProven ==
  \A u \in ProfileUsers : profiles[u] \in Mails =>
    \E v \in ProfileUsers : PersonOf[v] = PersonOf[u] /\ <<v, profiles[u]>> \in verified

=============================================================================
