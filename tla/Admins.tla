------------------------------- MODULE Admins -------------------------------
(***************************************************************************)
(* The admins of the back office (modules/admin/admin.service.js,          *)
(* middlewares/adminAuthMiddleware.js): logging in by password and, once   *)
(* it is enabled, a second factor; setting that up and turning it off; and *)
(* the team, which super admins manage.  A row is known by its email, and  *)
(* none is ever deleted.  The password and the log of activities are left  *)
(* out; a login with a second factor is two requests of one worker, and an *)
(* update changes one column.                                              *)
(***************************************************************************)
EXTENDS Requests

CONSTANTS
  AdminIds,  \* the emails of admins
  Secrets    \* secrets of the second factor

VARIABLES
  admins,    \* table AdminUser
  sessions,  \* admins with a valid access token
  met        \* history: updates of the team under way that have met another

adminVars == <<admins, sessions, met, job>>

ASSUME AdminConstants == None \notin AdminIds \cup Secrets

AdminRole == {"SUPER_ADMIN", "MODERATOR"}

AdminUser == [role : AdminRole, isActive : BOOLEAN,
              secret : Secrets \cup {None}, enabled : BOOLEAN]

ASSUME AdminRows == None \notin AdminUser \cup AdminRole \cup BOOLEAN

\* What updateAdmin is asked for; None leaves a column alone.
Changes == [role : AdminRole, isActive : {None}] \cup [role : {None}, isActive : BOOLEAN]

AdminJob ==
  {Idle}
  \cup [at : {"password", "secondFactor", "code", "setup", "enable", "disable"}, actor : AdminIds]
  \cup [at : {"insertAdmin"}, actor : AdminIds, admin : AdminIds, role : AdminRole]
  \cup [at : {"updateAdmin"}, actor : AdminIds, admin : AdminIds, change : Changes]

NewAdmin(role) == [role |-> role, isActive |-> TRUE, secret |-> None, enabled |-> FALSE]

\* The first super admin comes with the database.
AdminInit ==
  /\ \E a \in AdminIds :
       admins = [b \in AdminIds |-> IF b = a THEN NewAdmin("SUPER_ADMIN") ELSE None]
  /\ sessions = {} /\ met = {}
  /\ job = NoJobs

Active(a) == admins[a] # None /\ admins[a].isActive

Supers == {a \in AdminIds : Active(a) /\ admins[a].role = "SUPER_ADMIN"}

authenticateAdmin(a) == a \in sessions /\ Active(a)

requireSuperAdmin(a) == a \in sessions /\ a \in Supers

---------------------------------------------------------------------------
(* loginAdmin and verifyTwoFactorLogin *)

\* With a second factor the client gets an ADMIN_2FA_PENDING token, and comes
\* back with it and a code.
LoginAdmin(w, a) ==
  /\ Active(a)
  /\ Begin(w, [at |-> IF admins[a].enabled THEN "secondFactor" ELSE "password",
               actor |-> a])
  /\ UNCHANGED <<admins, sessions, met>>

\* Mutant: who was deactivated since the password may go on.
VerifyOfAnybody(w, s) ==
  LET a == job[w].actor
  IN  /\ job[w].at = "secondFactor"
      /\ IF admins[a].secret = s THEN GoTo(w, [job[w] EXCEPT !.at = "code"])
         ELSE Finish(w)
      /\ UNCHANGED <<admins, sessions, met>>

\* s is the secret the code was made with.
VerifyTwoFactorLogin(w, s) ==
  LET a == job[w].actor
  IN  /\ job[w].at = "secondFactor"
      /\ IF Active(a) /\ admins[a].secret = s THEN GoTo(w, [job[w] EXCEPT !.at = "code"])
         ELSE Finish(w)
      /\ UNCHANGED <<admins, sessions, met>>

GrantSession(w) ==
  /\ job[w].at \in {"password", "code"}
  /\ sessions' = sessions \cup {job[w].actor}
  /\ Finish(w)
  /\ UNCHANGED <<admins, met>>

\* After eight hours.
SessionExpires(a) ==
  /\ sessions' = sessions \ {a}
  /\ UNCHANGED <<admins, met, job>>

---------------------------------------------------------------------------
(* setupTwoFactor, enableTwoFactor and disableTwoFactor *)

SetUp(w, a) ==
  /\ authenticateAdmin(a)
  /\ Begin(w, [at |-> "setup", actor |-> a])
  /\ UNCHANGED <<admins, sessions, met>>

\* Also when the second factor is enabled already.
WriteSecret(w, s) ==
  /\ job[w].at = "setup"
  /\ admins' = [admins EXCEPT ![job[w].actor].secret = s]
  /\ Finish(w)
  /\ UNCHANGED <<sessions, met>>

ConfirmSecret(w, a, s) ==
  /\ authenticateAdmin(a) /\ admins[a].secret = s
  /\ Begin(w, [at |-> "enable", actor |-> a])
  /\ UNCHANGED <<admins, sessions, met>>

\* Whatever the secret has become.
WriteEnabled(w) ==
  /\ job[w].at = "enable"
  /\ admins' = [admins EXCEPT ![job[w].actor].enabled = TRUE]
  /\ Finish(w)
  /\ UNCHANGED <<sessions, met>>

TurnOff(w, a) ==
  /\ authenticateAdmin(a)
  /\ Begin(w, [at |-> "disable", actor |-> a])
  /\ UNCHANGED <<admins, sessions, met>>

WriteDisabled(w) ==
  /\ job[w].at = "disable"
  /\ admins' = [admins EXCEPT ![job[w].actor].enabled = FALSE,
                              ![job[w].actor].secret = None]
  /\ Finish(w)
  /\ UNCHANGED <<sessions, met>>

---------------------------------------------------------------------------
(* createAdmin and updateAdmin *)

FindAdmin(w, a, b, role) ==
  /\ requireSuperAdmin(a) /\ admins[b] = None
  /\ Begin(w, [at |-> "insertAdmin", actor |-> a, admin |-> b, role |-> role])
  /\ UNCHANGED <<admins, sessions, met>>

\* The second of two with one email fails at the unique index.
InsertAdmin(w) ==
  LET j == job[w]
  IN  /\ j.at = "insertAdmin"
      /\ admins' = IF admins[j.admin] = None
                   THEN [admins EXCEPT ![j.admin] = NewAdmin(j.role)] ELSE admins
      /\ Finish(w)
      /\ UNCHANGED <<sessions, met>>

\* "You can't change your own role or deactivate your own account".
OnOneself(a, b, change) ==
  a = b /\ (change.role # None \/ change.isActive = FALSE)

Updating == {w \in Workers : job[w].at = "updateAdmin"}

Meet(w) == met' = met \cup IF Updating = {} THEN {} ELSE Updating \cup {w}

\* Mutant: oneself may be demoted like anybody.
CheckUpdateOfAnybody(w, a, b, change) ==
  /\ requireSuperAdmin(a) /\ admins[b] # None
  /\ Begin(w, [at |-> "updateAdmin", actor |-> a, admin |-> b, change |-> change])
  /\ Meet(w)
  /\ UNCHANGED <<admins, sessions>>

CheckUpdate(w, a, b, change) ==
  /\ requireSuperAdmin(a) /\ ~OnOneself(a, b, change) /\ admins[b] # None
  /\ Begin(w, [at |-> "updateAdmin", actor |-> a, admin |-> b, change |-> change])
  /\ Meet(w)
  /\ UNCHANGED <<admins, sessions>>

\* Whatever the actor has become.
WriteUpdate(w) ==
  LET j == job[w]
      Kept(old, new) == IF new = None THEN old ELSE new
  IN  /\ j.at = "updateAdmin"
      /\ admins' = [admins EXCEPT ![j.admin].role = Kept(@, j.change.role),
                                  ![j.admin].isActive = Kept(@, j.change.isActive)]
      /\ Finish(w) /\ met' = met \ {w}
      /\ UNCHANGED sessions

---------------------------------------------------------------------------
AdminArrive(w) ==
  \E a \in AdminIds :
    \/ LoginAdmin(w, a) \/ SetUp(w, a) \/ TurnOff(w, a)
    \/ \E s \in Secrets : ConfirmSecret(w, a, s)
    \/ \E b \in AdminIds :
         \/ \E role \in AdminRole : FindAdmin(w, a, b, role)
         \/ \E change \in Changes : CheckUpdate(w, a, b, change)

AdminStep(w) ==
  \/ GrantSession(w) \/ WriteEnabled(w) \/ WriteDisabled(w)
  \/ InsertAdmin(w) \/ WriteUpdate(w)
  \/ \E s \in Secrets : VerifyTwoFactorLogin(w, s) \/ WriteSecret(w, s)

AdminNext ==
  \/ \E w \in Workers : AdminArrive(w) \/ AdminStep(w)
  \/ \E a \in AdminIds : SessionExpires(a)

AdminSpec == AdminInit /\ [][AdminNext]_adminVars

---------------------------------------------------------------------------
(* Properties *)

AdminTypeOK ==
  /\ admins \in [AdminIds -> AdminUser \cup {None}]
  /\ sessions \subseteq AdminIds /\ met \subseteq Workers
  /\ job \in [Workers -> AdminJob]

\* "You can't change your own role or deactivate your own account": the last
\* active super admin goes only by an update of the team that met another one.
\* Two super admins who demote each other at once do leave none.
SupersRemain ==
  [][Supers # {} /\ Supers' = {}
     => \E w \in met : job[w].at = "updateAdmin" /\ job'[w] = Idle]_adminVars

Acting(a, stages) == \E w \in Workers : job[w].at \in stages /\ job[w].actor = a

ActorStages ==
  {"password", "code", "setup", "enable", "disable", "insertAdmin", "updateAdmin"}

\* A deactivated admin, once requests of theirs are answered, gets no session
\* and does nothing with the tokens they have until somebody activates them;
\* and once "password alone isn't enough", no login by password gets through
\* until the second factor is turned off.
NoWayIn ==
  [][\A a \in AdminIds :
       /\ admins[a] # None /\ ~Active(a) /\ ~Acting(a, ActorStages)
          => Active(a)' \/ ~Acting(a, ActorStages)'
       /\ admins[a] # None /\ admins[a].enabled /\ ~Acting(a, {"password"})
          => ~admins'[a].enabled \/ ~Acting(a, {"password"})']_adminVars

=============================================================================
