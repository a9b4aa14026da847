------------------------------ MODULE Accounts ------------------------------
(***************************************************************************)
(* Accounts, the users (one per role) of an account, and their refresh     *)
(* tokens: logging in, switching the role, selecting a profile, rotating   *)
(* and revoking tokens, deleting the account (modules/auth/auth.service.js *)
(* and services/token/token.service.js) and an admin's suspensions and     *)
(* deletions (modules/admin/admin.service.js).                             *)
(*                                                                         *)
(* Statements that change nothing modelled (lastLoginAt, categoryId,       *)
(* reading back a row whose id is known) are part of the next action.  The *)
(* proof of who logs in, a one-time password or a Firebase token, is taken *)
(* as given; what deleting an account does to posts, follows and           *)
(* subscriptions is left to other modules.                                 *)
(***************************************************************************)
EXTENDS Requests

CONSTANTS
  Numbers,      \* mobile numbers
  ROLES,        \* the roles /auth takes, CREATOR and FREELANCER
  AccountIds,   \* rows table Account may get
  UserIds,      \* rows table User may get
  TokenIds,     \* rows table RefreshToken may get
  Legacy        \* users who may be from before accounts existed

VARIABLES
  accounts,   \* table Account: the number of each row
  users,      \* table User
  tokens,     \* table RefreshToken
  overlapped  \* history: workers that met another one since they started

accountsVars == <<accounts, users, tokens, job, overlapped>>

---------------------------------------------------------------------------
(* Data *)

UserStatus == {"ACTIVE", "SUSPENDED", "DELETED"}

\* What is deleted gets a number nobody can dial, unique to it: a deleted row's
\* number is the row itself.
Tombstones == UserIds \cup AccountIds

User == [account : AccountIds \cup {None}, number : Numbers \cup Tombstones,
         role : ROLES, status : UserStatus]

RefreshToken == [user : UserIds, live : BOOLEAN]

ASSUME AccountConstants ==
  /\ Legacy \subseteq UserIds
  /\ Numbers \cap Tombstones = {} /\ UserIds \cap AccountIds = {}
  /\ None \notin Numbers \cup Tombstones
  /\ None \notin User \cup RefreshToken

LoginKinds == {"otp", "firebase"}

EntryStages == {"findLegacy", "upsert", "attach", "findUser", "create", "refetch"}

Entry == [at : EntryStages, kind : LoginKinds \cup {"switch"},
          number : Numbers \cup UserIds, role : ROLES,
          account : AccountIds \cup {None}, legacy : UserIds \cup {None}]

AccountsJob ==
  {Idle}
  \cup Entry
  \cup [at : {"issue"}, user : UserIds]
  \cup [at : {"select"}, account : AccountIds \cup {None},
               number : Numbers \cup UserIds]
  \cup [at : {"revoke"}, token : TokenIds, user : UserIds]
  \cup [at : {"delete"}, account : AccountIds \cup {None}, profiles : SUBSET UserIds]
  \cup [at : {"moderate"}, user : UserIds, status : UserStatus]

Existing == {u \in UserIds : users[u] # None}

Live(u) == users[u] # None /\ users[u].status # "DELETED"

\* A request may come from u: authenticate looks at the status every time.
Authenticated(u) == users[u] # None /\ users[u].status = "ACTIVE"

\* A request starts, and meets those that are being served.
Start(w, j) ==
  /\ Begin(w, j)
  /\ overlapped' = overlapped \cup IF Busy = {} THEN {} ELSE Busy \cup {w}

Continue(w, j) == GoTo(w, j) /\ UNCHANGED overlapped

Answer(w) == Finish(w) /\ overlapped' = overlapped \ {w}

Issue(u) == [at |-> "issue", user |-> u]

\* Mutant: a plain unique index, which also counts deleted rows.
IndexAllowsPlain(u, a, r, status) ==
  a # None =>
    \A x \in Existing \ {u} : ~(users[x].account = a /\ users[x].role = r)

\* The partial unique index User_accountId_role_live_key lets row u have this
\* account, role and status.
IndexAllows(u, a, r, status) ==
  a # None /\ status # "DELETED" =>
    \A x \in UserIds \ {u} : ~(Live(x) /\ users[x].account = a /\ users[x].role = r)

AccountsInit ==
  /\ accounts = [a \in AccountIds |-> None]
  /\ \E old \in SUBSET Legacy : \E r \in [old -> ROLES], n \in [old -> Numbers] :
       users = [u \in UserIds |->
                  IF u \in old THEN [account |-> None, number |-> n[u],
                                        role |-> r[u], status |-> "ACTIVE"]
                  ELSE None]
  /\ tokens = [t \in TokenIds |-> None]
  /\ job = NoJobs
  /\ overlapped = {}

---------------------------------------------------------------------------
(* completeOtp, verifyFirebaseToken and switchRole *)

\* A Firebase login looks for a suspended user of any role, a login by
\* password only at the user it is going to use.
TurnedAway(kind, us) ==
  kind = "firebase" /\ \E u \in us : users[u].status = "SUSPENDED"

OfAccount(a) == {u \in Existing : users[u].account = a}

FindAccount(w, n, r, kind) ==
  LET found == {a \in AccountIds : accounts[a] = n}
      entry == [at |-> "findLegacy", kind |-> kind, number |-> n, role |-> r,
                account |-> None, legacy |-> None]
  IN  /\ IF found = {}
         THEN Start(w, entry)
         ELSE \E a \in found :
                /\ ~TurnedAway(kind, OfAccount(a))
                /\ Start(w, [entry EXCEPT !.at = "findUser", !.account = a])
      /\ UNCHANGED <<accounts, users, tokens>>

FindLegacy(w) ==
  LET j == job[w]
      found == {u \in Existing : users[u].account = None /\ users[u].number = j.number}
  IN  /\ j.at = "findLegacy"
      /\ IF found = {}
         THEN Continue(w, [j EXCEPT !.at = "upsert"])
         ELSE \E u \in found :
                IF TurnedAway(j.kind, {u}) THEN Answer(w)
                ELSE Continue(w, [j EXCEPT !.at = "upsert", !.legacy = u])
      /\ UNCHANGED <<accounts, users, tokens>>

\* account.upsert: the account of the number, created if there is none.
UpsertAccount(w) ==
  LET j == job[w]
      next == IF j.legacy = None THEN "findUser" ELSE "attach"
      found == {a \in AccountIds : accounts[a] = j.number}
  IN  /\ j.at = "upsert"
      /\ \E a \in IF found # {} THEN found
                  ELSE {x \in AccountIds : accounts[x] = None} :
           /\ accounts' = [accounts EXCEPT ![a] = j.number]
           /\ Continue(w, [j EXCEPT !.at = next, !.account = a])
      /\ UNCHANGED <<users, tokens>>

\* The user from before accounts becomes one of the account, unless the
\* account has its role by now.
AttachLegacy(w) ==
  LET j == job[w]
      u == users[j.legacy]
  IN  /\ j.at = "attach"
      /\ IF IndexAllows(j.legacy, j.account, u.role, u.status)
         THEN /\ users' = [users EXCEPT ![j.legacy].account = j.account]
              /\ Continue(w, [j EXCEPT !.at = "findUser", !.legacy = None])
         ELSE Answer(w) /\ UNCHANGED users
      /\ UNCHANGED <<accounts, tokens>>

\* The users of the account and role.
RoleUsers(j) == {u \in OfAccount(j.account) : Live(u) /\ users[u].role = j.role}

\* Only a login by password turns a suspended user away here.
UseRoleUser(w, u) ==
  IF job[w].kind = "otp" /\ users[u].status = "SUSPENDED"
  THEN Answer(w) ELSE Continue(w, Issue(u))

FindRoleUser(w) ==
  LET j == job[w]
  IN  /\ j.at = "findUser"
      /\ IF RoleUsers(j) = {} THEN Continue(w, [j EXCEPT !.at = "create"])
         ELSE \E u \in RoleUsers(j) : UseRoleUser(w, u)
      /\ UNCHANGED <<accounts, users, tokens>>

\* Mutant: without the unique index.
CreateRoleUserUnindexed(w) ==
  LET j == job[w]
  IN  /\ j.at = "create"
      /\ \E u \in UserIds \ Existing :
           /\ users' = [users EXCEPT ![u] = [account |-> j.account, number |-> j.number,
                                             role |-> j.role, status |-> "ACTIVE"]]
           /\ Continue(w, Issue(u))
      /\ UNCHANGED <<accounts, tokens>>

\* The loser of a race for the index (P2002) fetches the winner.
CreateRoleUser(w) ==
  LET j == job[w]
  IN  /\ j.at = "create"
      /\ \E u \in UserIds \ Existing :
           IF IndexAllows(u, j.account, j.role, "ACTIVE")
           THEN /\ users' = [users EXCEPT ![u] = [account |-> j.account,
                                                  number |-> j.number,
                                                  role |-> j.role, status |-> "ACTIVE"]]
                /\ Continue(w, Issue(u))
           ELSE Continue(w, [j EXCEPT !.at = "refetch"]) /\ UNCHANGED users
      /\ UNCHANGED <<accounts, tokens>>

RefetchWinner(w) ==
  LET j == job[w]
  IN  /\ j.at = "refetch"
      /\ IF RoleUsers(j) = {} THEN Answer(w)
         ELSE \E u \in RoleUsers(j) : UseRoleUser(w, u)
      /\ UNCHANGED <<accounts, users, tokens>>

\* authMiddleware's check of the status is part of this read of the user, as
\* it is in SelectProfile and ReadToDelete.
SwitchRole(w, u, r) ==
  /\ Authenticated(u)
  /\ Start(w, [at |-> IF users[u].account = None THEN "upsert" ELSE "findUser",
               kind |-> "switch", number |-> users[u].number, role |-> r,
               account |-> users[u].account,
               legacy |-> IF users[u].account = None THEN u ELSE None])
  /\ UNCHANGED <<accounts, users, tokens>>

---------------------------------------------------------------------------
(* selectProfile *)

SelectProfile(w, u) ==
  /\ Authenticated(u)
  /\ Start(w, [at |-> "select", account |-> users[u].account,
               number |-> users[u].number])
  /\ UNCHANGED <<accounts, users, tokens>>

\* Any profile of the account, or of the number if there is no account.
ReadTarget(w) ==
  LET j == job[w]
  IN  /\ j.at = "select"
      /\ \E u \in Existing :
           IF (IF j.account # None THEN users[u].account = j.account
               ELSE users[u].number = j.number)
           THEN Continue(w, Issue(u)) ELSE Answer(w)
      /\ UNCHANGED <<accounts, users, tokens>>

---------------------------------------------------------------------------
(* Refresh tokens *)

\* A new row is none that a request remembers.
issueTokens(w) ==
  /\ job[w].at = "issue"
  /\ \E t \in TokenIds :
       /\ tokens[t] = None
       /\ \A x \in Workers : job[x].at = "revoke" => job[x].token # t
       /\ tokens' = [tokens EXCEPT ![t] = [user |-> job[w].user, live |-> TRUE]]
  /\ Answer(w)
  /\ UNCHANGED <<accounts, users>>

ReadToken(w, t) ==
  /\ tokens[t] # None /\ tokens[t].live
  /\ Start(w, [at |-> "revoke", token |-> t, user |-> tokens[t].user])
  /\ UNCHANGED <<accounts, users, tokens>>

\* The old token is revoked whatever it has become; the owner's status does
\* not matter.  A row that was pruned meanwhile is an error.
RevokeOld(w) ==
  LET j == job[w]
  IN  /\ j.at = "revoke"
      /\ IF tokens[j.token] = None
         THEN Answer(w) /\ UNCHANGED tokens
         ELSE /\ tokens' = [tokens EXCEPT ![j.token].live = FALSE]
              /\ Continue(w, Issue(j.user))
      /\ UNCHANGED <<accounts, users>>

logout(t) ==
  /\ tokens[t] # None /\ tokens[t].live
  /\ tokens' = [tokens EXCEPT ![t].live = FALSE]
  /\ UNCHANGED <<accounts, users, job, overlapped>>

\* A token expires and the daily job deletes its row.
pruneExpiredRefreshToken(t) ==
  /\ tokens[t] # None
  /\ tokens' = [tokens EXCEPT ![t] = None]
  /\ UNCHANGED <<accounts, users, job, overlapped>>

---------------------------------------------------------------------------
(* deleteAccount *)

\* The profiles of the account are read once; cancelling their subscriptions
\* takes a call to Razorpay each.  authMiddleware's read of the status is
\* merged with this one.
ReadToDelete(w, u) ==
  LET a == users[u].account
  IN  /\ Authenticated(u)
      /\ Start(w, [at |-> "delete", account |-> a,
                   profiles |-> IF a = None THEN {u} ELSE OfAccount(a)])
      /\ UNCHANGED <<accounts, users, tokens>>

\* Mutant: the refresh tokens are forgotten.
CommitDeletionOnly(w) ==
  LET j == job[w]
  IN  /\ j.at = "delete"
      /\ accounts' = [a \in AccountIds |-> IF a = j.account THEN a ELSE accounts[a]]
      /\ users' = [u \in UserIds |->
                     IF u \in j.profiles
                     THEN [users[u] EXCEPT !.status = "DELETED", !.number = u]
                     ELSE users[u]]
      /\ Answer(w)
      /\ UNCHANGED tokens

\* One transaction: the numbers become tombstones, users are DELETED and their
\* tokens revoked.
CommitDeletion(w) ==
  LET j == job[w]
  IN  /\ j.at = "delete"
      /\ accounts' = [a \in AccountIds |-> IF a = j.account THEN a ELSE accounts[a]]
      /\ users' = [u \in UserIds |->
                     IF u \in j.profiles
                     THEN [users[u] EXCEPT !.status = "DELETED", !.number = u]
                     ELSE users[u]]
      /\ tokens' = [t \in TokenIds |->
                      IF tokens[t] # None /\ tokens[t].user \in j.profiles
                      THEN [tokens[t] EXCEPT !.live = FALSE] ELSE tokens[t]]
      /\ Answer(w)

---------------------------------------------------------------------------
(* suspendUser, unsuspendUser, deleteUser and bulkSuspendUsers *)

\* An admin may give u this status.
Moderable(u, status) ==
  /\ users[u].status # "DELETED"
  /\ (status = "SUSPENDED") => users[u].status # "SUSPENDED"
  /\ (status = "ACTIVE") => users[u].status = "SUSPENDED"

ReadToModerate(w, u, status) ==
  /\ users[u] # None /\ Moderable(u, status)
  /\ Start(w, [at |-> "moderate", user |-> u, status |-> status])
  /\ UNCHANGED <<accounts, users, tokens>>

\* Mutant: a suspension is written as what the admin called it, a ban.
WriteModerationAsBanned(w) ==
  LET j == job[w]
  IN  /\ j.at = "moderate"
      /\ users' = [users EXCEPT ![j.user].status =
                      IF j.status = "SUSPENDED" THEN "BANNED" ELSE j.status]
      /\ Answer(w)
      /\ UNCHANGED <<accounts, tokens>>

\* The status is written whatever the user has become, as long as the index
\* allows it.
WriteModeration(w) ==
  LET j == job[w]
      u == users[j.user]
  IN  /\ j.at = "moderate"
      /\ users' = IF IndexAllows(j.user, u.account, u.role, j.status)
                  THEN [users EXCEPT ![j.user].status = j.status] ELSE users
      /\ Answer(w)
      /\ UNCHANGED <<accounts, tokens>>

\* One statement, which looks at the status itself.
bulkSuspendUsers(us) ==
  /\ \E u \in us : Authenticated(u)
  /\ users' = [u \in UserIds |->
                 IF u \in us /\ Authenticated(u)
                 THEN [users[u] EXCEPT !.status = "SUSPENDED"] ELSE users[u]]
  /\ UNCHANGED <<accounts, tokens, job, overlapped>>

---------------------------------------------------------------------------
AccountsStep(w) ==
  \/ FindLegacy(w) \/ UpsertAccount(w) \/ AttachLegacy(w)
  \/ FindRoleUser(w) \/ CreateRoleUser(w) \/ RefetchWinner(w)
  \/ ReadTarget(w) \/ issueTokens(w) \/ RevokeOld(w)
  \/ CommitDeletion(w) \/ WriteModeration(w)

AccountsArrive(w) ==
  \/ \E n \in Numbers, r \in ROLES, kind \in LoginKinds : FindAccount(w, n, r, kind)
  \/ \E u \in UserIds :
       \/ \E r \in ROLES : SwitchRole(w, u, r)
       \/ SelectProfile(w, u)
       \/ ReadToDelete(w, u)
       \/ \E status \in UserStatus : ReadToModerate(w, u, status)
  \/ \E t \in TokenIds : ReadToken(w, t)

AccountsNext ==
  \/ \E w \in Workers : AccountsArrive(w) \/ AccountsStep(w)
  \/ \E t \in TokenIds : logout(t) \/ pruneExpiredRefreshToken(t)
  \/ \E us \in SUBSET UserIds : bulkSuspendUsers(us)

AccountsSpec == AccountsInit /\ [][AccountsNext]_accountsVars

---------------------------------------------------------------------------
(* Properties *)

AccountsTypeOK ==
  /\ accounts \in [AccountIds -> Numbers \cup Tombstones \cup {None}]
  /\ users \in [UserIds -> User \cup {None}]
  /\ tokens \in [TokenIds -> RefreshToken \cup {None}]
  /\ job \in [Workers -> AccountsJob]
  /\ overlapped \subseteq Busy

\* The incident of 2026-08-06: an account has one user in a role who is not
\* deleted, whatever logins, role switches, attached legacy users, deletions
\* and a late unsuspension race for it.
OneUserPerRole ==
  \A u, v \in UserIds :
    /\ Live(u) /\ Live(v)
    /\ users[u].account # None /\ users[u].account = users[v].account
    /\ users[u].role = users[v].role
    => u = v

\* Nobody can act as a user of a, log in to one or refresh a session of one.
Closed(a) ==
  /\ accounts[a] = a
  /\ \A u \in OfAccount(a) : users[u].status = "DELETED" /\ users[u].number = u
  /\ \A t \in TokenIds : tokens[t] # None /\ tokens[t].live
                         => users[tokens[t].user].account # a

\* "The whole account and all profiles": a deletion that met no other request
\* closes the account, whatever older requests left behind.
DeletionCloses ==
  [][\A a \in AccountIds :
       accounts'[a] = a /\ accounts[a] # a /\ overlapped = {}
       => Closed(a)']_accountsVars

\* Worker w has read a row of account a.
WorksOn(w, a) ==
  LET j == job[w]
  IN  CASE j.at \in EntryStages -> j.account = a \/ j.legacy \in OfAccount(a)
        [] j.at \in {"issue", "revoke", "moderate"} -> j.user \in OfAccount(a)
        [] j.at = "select" ->
             IF j.account # None THEN j.account = a ELSE j.number \in OfAccount(a)
        [] j.at = "delete" -> j.account = a
        [] OTHER -> FALSE

Sealed(a) == Closed(a) /\ \A w \in Workers : ~WorksOn(w, a)

\* A closed account no request is at work on stays that way for good: no
\* login, token, switch, profile or admin brings a part of it back, whatever
\* goes on in the account the same person has opened since.
ClosedForGood == [][\A a \in AccountIds : Sealed(a) => Sealed(a)']_accountsVars

Final(u) ==
  /\ users[u] # None /\ users[u].status = "DELETED"
  /\ \A w \in Workers : job[w].at = "moderate" => job[w].user # u

\* A user who is deleted while no admin is deciding on them stays deleted, and
\* no admin decides on them again.
DeletionIsFinal == [][\A u \in UserIds : Final(u) => Final(u)']_accountsVars

\* DELETED is not a ban: a login that meets no other request ends as a user
\* who may act, in a living account of the number, unless a user of that
\* number or account is suspended.
LoginAloneSucceeds ==
  [][\A w \in Workers :
       LET j == job[w]
           left == job'[w].at \notin EntryStages
           suspended == \E u \in Existing :
                          /\ users[u].status = "SUSPENDED"
                          /\ \/ users[u].number = j.number
                             \/ u \in OfAccount(j.account)
           entered == \E u \in UserIds :
                        /\ job'[w] = Issue(u)
                        /\ users'[u].status = "ACTIVE"
                        /\ accounts'[users'[u].account] = j.number
       IN  /\ j.at \in EntryStages /\ j.kind \in LoginKinds /\ left
           /\ w \notin overlapped
           => entered \/ suspended]_accountsVars

=============================================================================
