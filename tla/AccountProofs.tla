--------------------------- MODULE AccountProofs ----------------------------
(***************************************************************************)
(* Accounts, their users and refresh tokens, for any number of requests,   *)
(* accounts, users and tokens: one user in each role, what deleting an     *)
(* account closes, and what a login that meets no other request comes to.  *)
(***************************************************************************)
EXTENDS Accounts, TLAPS

---------------------------------------------------------------------------
(* Accounts *)

\* What a request remembers of the tables is still there.
Remembers(j) ==
  /\ j.at \in EntryStages =>
       /\ j.legacy # None => j.legacy \in Existing
       /\ j.account # None => accounts[j.account] # None
       /\ j.at = "attach" => j.legacy # None
       /\ j.at \in {"attach", "findUser", "create", "refetch"} => j.account # None
  /\ j.at \in {"issue", "revoke", "moderate"} => j.user \in Existing
  /\ j.at = "delete" => j.profiles \subseteq Existing

\* Rows point at rows.  Nobody has the tombstone of a row without an account
\* but that row.
RowsFit ==
  /\ \A u \in Existing :
       /\ users[u].number \in Numbers \cup UserIds
       /\ users[u].account = None => users[u].number \in Numbers \cup {u}
       /\ users[u].account # None => accounts[users[u].account] # None
  /\ \A t \in TokenIds : tokens[t] # None => tokens[t].user \in Existing

\* The tables.
AccountsRows ==
  /\ accounts \in [AccountIds -> Numbers \cup Tombstones \cup {None}]
  /\ users \in [UserIds -> User \cup {None}]
  /\ tokens \in [TokenIds -> RefreshToken \cup {None}]
  /\ RowsFit

\* The inductive invariant of the accounts.
AccountsInv ==
  /\ AccountsRows
  /\ job \in [Workers -> AccountsJob]
  /\ \A w \in Workers : Remembers(job[w])
  /\ overlapped \subseteq Busy

\* No row goes away.
RowsStay ==
  /\ \A u \in UserIds : users[u] # None => users'[u] # None
  /\ \A a \in AccountIds : accounts[a] # None => accounts'[a] # None

\* The sets of names and rows do not overlap.
LEMMA AccountsNames ==
  /\ Numbers \cap UserIds = {} /\ Numbers \cap AccountIds = {} /\ UserIds \cap AccountIds = {}
  /\ None \notin Numbers /\ None \notin UserIds /\ None \notin AccountIds
  /\ None \notin User /\ None \notin RefreshToken
  /\ Legacy \subseteq UserIds
  BY AccountConstants DEF Tombstones

\* The record a request is at, by the stage.
LEMMA AccountsFields ==
  ASSUME NEW j \in AccountsJob
  PROVE  /\ j.at \in EntryStages => j \in Entry
         /\ j.at = "issue" => j \in [at : {"issue"}, user : UserIds]
         /\ j.at = "select" => j \in [at : {"select"}, account : AccountIds \cup {None},
                                      number : Numbers \cup UserIds]
         /\ j.at = "revoke" => j \in [at : {"revoke"}, token : TokenIds, user : UserIds]
         /\ j.at = "delete" => j \in [at : {"delete"}, account : AccountIds \cup {None},
                                      profiles : SUBSET UserIds]
         /\ j.at = "moderate" => j \in [at : {"moderate"}, user : UserIds, status : UserStatus]
         /\ j.at = "idle" <=> j = Idle
  BY DEF AccountsJob, Entry, EntryStages, Idle

\* What is remembered stays true while no row goes away.
LEMMA RemembersOn ==
  ASSUME NEW j \in AccountsJob, Remembers(j), RowsStay
  PROVE  Remembers(j)'
  <1>1. CASE j.at \in EntryStages
    <2>1. j.legacy \in UserIds \cup {None} /\ j.account \in AccountIds \cup {None}
      BY <1>1, AccountsFields DEF Entry
    <2> QED
      BY <1>1, <2>1 DEF Remembers, RowsStay, Existing, EntryStages
  <1>2. CASE j.at \in {"issue", "revoke", "moderate"}
    BY <1>2 DEF Remembers, RowsStay, Existing, EntryStages
  <1>3. CASE j.at = "delete"
    BY <1>3 DEF Remembers, RowsStay, Existing, EntryStages
  <1>4. CASE j.at \notin EntryStages \cup {"issue", "revoke", "moderate", "delete"}
    BY <1>4 DEF Remembers
  <1> QED
    BY <1>1, <1>2, <1>3, <1>4

\* A step of one request, which is at j then.
LEMMA AccountsMove ==
  ASSUME AccountsInv, AccountsRows', RowsStay,
         NEW w \in Workers, NEW j \in AccountsJob, Remembers(j)',
         \/ Start(w, j) /\ j # Idle
         \/ Continue(w, j) /\ j # Idle /\ job[w] # Idle
         \/ Answer(w) /\ j = Idle
  PROVE  AccountsInv'
  <1>1. job' = [job EXCEPT ![w] = j]
    BY DEF Start, Continue, Answer, Begin, GoTo, Finish
  <1>2. job' \in [Workers -> AccountsJob]
    BY <1>1 DEF AccountsInv
  <1>3. \A x \in Workers : Remembers(job[x])'
    <2> SUFFICES ASSUME NEW x \in Workers PROVE Remembers(job[x])'
      OBVIOUS
    <2> DEFINE i == job'[x]
    <2>1. i = IF x = w THEN j ELSE job[x]
      BY <1>1 DEF AccountsInv
    <2>2. job[x] \in AccountsJob /\ Remembers(job[x])
      BY DEF AccountsInv
    <2>3. CASE x = w
      BY <2>1, <2>3
    <2>4. CASE x # w
      BY <2>1, <2>2, <2>4, RemembersOn
    <2> QED
      BY <2>3, <2>4
  <1>4. overlapped' \subseteq Busy'
    BY <1>1 DEF AccountsInv, Start, Continue, Answer, Begin, Busy
  <1> QED
    BY <1>2, <1>3, <1>4 DEF AccountsInv

\* Tables that nobody writes.
LEMMA AccountsUnwritten ==
  ASSUME AccountsInv, UNCHANGED <<accounts, users, tokens>>
  PROVE  AccountsRows' /\ RowsStay
  BY DEF AccountsInv, AccountsRows, RowsFit, RowsStay, Existing

\* findAccount of a login reads one account of the number or none.
LEMMA AccountsFindAccount ==
  ASSUME AccountsInv, NEW w \in Workers,
         NEW n \in Numbers, NEW r \in ROLES, NEW kind \in LoginKinds,
         FindAccount(w, n, r, kind)
  PROVE  AccountsInv' /\ RowsStay
  <1>1. AccountsRows' /\ RowsStay
    BY AccountsUnwritten DEF FindAccount
  <1> DEFINE entry == [at |-> "findLegacy", kind |-> kind, number |-> n, role |-> r,
                       account |-> None, legacy |-> None]
  <1>a. \/ Start(w, entry)
        \/ \E a \in AccountIds : /\ accounts[a] = n
                                 /\ Start(w, [entry EXCEPT !.at = "findUser", !.account = a])
    BY DEF FindAccount
  <1>b. entry \in Entry
    BY DEF Entry, EntryStages
  <1>2. PICK j : /\ Start(w, j) /\ j \in Entry /\ j.legacy = None
                 /\ \/ j.at = "findLegacy" /\ j.account = None
                    \/ j.at = "findUser" /\ accounts[j.account] = n
                       /\ j.account \in AccountIds
    <2>1. CASE Start(w, entry)
      BY <1>b, <2>1
    <2>2. ASSUME NEW a \in AccountIds, accounts[a] = n,
                 Start(w, [entry EXCEPT !.at = "findUser", !.account = a])
          PROVE  \E j : /\ Start(w, j) /\ j \in Entry /\ j.legacy = None
                        /\ j.at = "findUser" /\ accounts[j.account] = n
                        /\ j.account \in AccountIds
      <3> HIDE DEF entry
      <3>1. entry \in Entry /\ entry.legacy = None
        BY <1>b DEF entry
      <3>2. PICK j : j = [entry EXCEPT !.at = "findUser", !.account = a]
        OBVIOUS
      <3>3. /\ j \in Entry /\ j.legacy = None /\ j.at = "findUser" /\ j.account = a
        BY <3>1, <3>2 DEF Entry, EntryStages
      <3> QED
        BY <2>2, <3>2, <3>3
    <2> QED
      BY <1>a, <2>1, <2>2
  <1>3. accounts' = accounts /\ n # None
    BY AccountsNames DEF FindAccount
  <1>4. j \in AccountsJob /\ j # Idle /\ Remembers(j)'
    BY <1>2, <1>3, AccountsNames DEF AccountsJob, Remembers, Entry, EntryStages, Idle
  <1> QED
    BY <1>1, <1>2, <1>4, AccountsMove

\* The legacy user of the number is read before the account is written.
LEMMA AccountsFindLegacy ==
  ASSUME AccountsInv, NEW w \in Workers, FindLegacy(w)
  PROVE  AccountsInv' /\ RowsStay
  <1>1. AccountsRows' /\ RowsStay
    BY AccountsUnwritten DEF FindLegacy
  <1>2. job[w] \in Entry /\ job[w] # Idle /\ Remembers(job[w]) /\ job[w].at = "findLegacy"
    BY AccountsFields DEF AccountsInv, FindLegacy, EntryStages, Idle
  <1>3. CASE Answer(w)
    <2>1. Idle \in AccountsJob /\ Remembers(Idle)'
      BY DEF AccountsJob, Idle, Remembers, EntryStages
    <2> QED
      BY <1>1, <1>3, <2>1, AccountsMove
  <1>4. CASE ~Answer(w)
    <2>a. PICK u \in Existing \cup {job[w].legacy} :
            Continue(w, [job[w] EXCEPT !.at = "upsert", !.legacy = u])
      <3>1. [job[w] EXCEPT !.at = "upsert"]
              = [job[w] EXCEPT !.at = "upsert", !.legacy = job[w].legacy]
        BY <1>2 DEF Entry
      <3> QED
        BY <1>4, <3>1 DEF FindLegacy
    <2>b. PICK j : j = [job[w] EXCEPT !.at = "upsert", !.legacy = u]
      OBVIOUS
    <2>1. /\ Continue(w, j) /\ j \in Entry /\ j.at = "upsert"
          /\ j.account = job[w].account
          /\ j.legacy # None => j.legacy \in Existing
      BY <1>2, <2>a, <2>b DEF Entry, EntryStages, Existing, Remembers
    <2>2. j \in AccountsJob /\ j # Idle
      BY <2>1 DEF AccountsJob, Idle
    <2>3. Remembers(j)
      BY <1>2, <2>1 DEF Remembers, EntryStages
    <2> QED
      BY <1>1, <1>2, <2>1, <2>2, <2>3, RemembersOn, AccountsMove
  <1> QED
    BY <1>3, <1>4

\* The account is made, or one of that number taken.
LEMMA AccountsUpsert ==
  ASSUME AccountsInv, NEW w \in Workers, UpsertAccount(w)
  PROVE  AccountsInv' /\ RowsStay
  <1>1. job[w] \in Entry /\ job[w] # Idle /\ Remembers(job[w]) /\ job[w].at = "upsert"
    BY AccountsFields DEF AccountsInv, UpsertAccount, EntryStages, Idle
  <1>2. PICK a \in AccountIds :
          /\ accounts' = [accounts EXCEPT ![a] = job[w].number]
          /\ Continue(w, [job[w] EXCEPT
               !.at = IF job[w].legacy = None THEN "findUser" ELSE "attach",
               !.account = a])
    BY DEF UpsertAccount
  <1>3. job[w].number \in Numbers \cup UserIds /\ job[w].number # None
    BY <1>1, AccountsNames DEF Entry
  <1>4. users' = users /\ tokens' = tokens
    BY DEF UpsertAccount
  <1>5. AccountsRows' /\ RowsStay
    <2>1. accounts' \in [AccountIds -> Numbers \cup Tombstones \cup {None}]
      BY <1>2, <1>3 DEF AccountsInv, AccountsRows, Tombstones
    <2>2. \A b \in AccountIds : accounts[b] # None => accounts'[b] # None
      BY <1>2, <1>3 DEF AccountsInv, AccountsRows
    <2> QED
      BY <1>4, <2>1, <2>2 DEF AccountsInv, AccountsRows, RowsFit, RowsStay, Existing, User
  <1>a. PICK j : j = [job[w] EXCEPT
               !.at = IF job[w].legacy = None THEN "findUser" ELSE "attach",
               !.account = a]
    OBVIOUS
  <1>6. /\ Continue(w, j) /\ j \in Entry
        /\ j.at = IF job[w].legacy = None THEN "findUser" ELSE "attach"
        /\ j.account = a /\ j.legacy = job[w].legacy
    BY <1>1, <1>2, <1>a DEF Entry, EntryStages
  <1>7. j \in AccountsJob /\ j # Idle
    BY <1>6 DEF AccountsJob, Idle
  <1>8. Remembers(j)'
    <2>1. accounts'[a] # None
      BY <1>2, <1>3 DEF AccountsInv, AccountsRows
    <2> QED
      BY <1>1, <1>4, <1>6, <2>1, AccountsNames DEF Remembers, EntryStages, Existing
  <1> QED
    BY <1>1, <1>5, <1>6, <1>7, <1>8, AccountsMove

\* The legacy user gets the account.
LEMMA AccountsAttach ==
  ASSUME AccountsInv, NEW w \in Workers, AttachLegacy(w)
  PROVE  AccountsInv' /\ RowsStay
  <1>1. job[w] \in Entry /\ job[w] # Idle /\ Remembers(job[w]) /\ job[w].at = "attach"
    BY AccountsFields DEF AccountsInv, AttachLegacy, EntryStages, Idle
  <1>2. /\ job[w].legacy \in UserIds /\ users[job[w].legacy] \in User
        /\ job[w].account \in AccountIds /\ accounts[job[w].account] # None
    BY <1>1 DEF Remembers, EntryStages, Entry, Existing, AccountsInv, AccountsRows
  <1>3. CASE Answer(w) /\ UNCHANGED users
    <2>1. AccountsRows' /\ RowsStay
      BY <1>3, AccountsUnwritten DEF AttachLegacy
    <2>2. Idle \in AccountsJob /\ Remembers(Idle)'
      BY DEF AccountsJob, Idle, Remembers, EntryStages
    <2> QED
      BY <1>3, <2>1, <2>2, AccountsMove
  <1>4. CASE /\ users' = [users EXCEPT ![job[w].legacy].account = job[w].account]
             /\ Continue(w, [job[w] EXCEPT !.at = "findUser", !.legacy = None])
    <2>1. accounts' = accounts /\ tokens' = tokens
      BY DEF AttachLegacy
    <2>2. users' \in [UserIds -> User \cup {None}]
      BY <1>2, <1>4 DEF User, AccountsInv, AccountsRows
    <2>3. \A u \in UserIds : users[u] # None <=> users'[u] # None
      BY <1>2, <1>4, <2>2, AccountsNames DEF User, AccountsInv, AccountsRows
    <2>4. RowsFit'
      BY <1>2, <1>4, <2>1, <2>3, AccountsNames DEF RowsFit, Existing, User, AccountsInv, AccountsRows
    <2>5. AccountsRows' /\ RowsStay
      BY <2>1, <2>2, <2>3, <2>4 DEF AccountsInv, AccountsRows, RowsStay
    <2>a. PICK j : j = [job[w] EXCEPT !.at = "findUser", !.legacy = None]
      OBVIOUS
    <2>6. /\ Continue(w, j) /\ j \in Entry /\ j.at = "findUser"
          /\ j.account = job[w].account /\ j.legacy = None
      BY <1>1, <1>4, <2>a DEF Entry, EntryStages
    <2>7. j \in AccountsJob /\ j # Idle /\ Remembers(j)'
      BY <1>2, <2>1, <2>6, AccountsNames DEF AccountsJob, Idle, Remembers, EntryStages
    <2> QED
      BY <1>1, <2>5, <2>6, <2>7, AccountsMove
  <1> QED
    BY <1>3, <1>4 DEF AttachLegacy

\* What follows a read that ends a login, or goes on to issue tokens to u.
LEMMA AccountsIssue ==
  ASSUME AccountsInv, UNCHANGED <<accounts, users, tokens>>,
         NEW w \in Workers, NEW u \in Existing, job[w] # Idle,
         Answer(w) \/ Continue(w, Issue(u))
  PROVE  AccountsInv' /\ RowsStay
  <1>1. AccountsRows' /\ RowsStay
    BY AccountsUnwritten
  <1>2. /\ Idle \in AccountsJob /\ Remembers(Idle)'
        /\ Issue(u) \in AccountsJob /\ Issue(u) # Idle /\ Remembers(Issue(u))
    BY DEF AccountsJob, Idle, Remembers, EntryStages, Issue, Existing
  <1>3. PICK j : j = Issue(u)
    OBVIOUS
  <1>4. Remembers(j)'
    BY <1>1, <1>2, <1>3, RemembersOn
  <1> QED
    BY <1>1, <1>2, <1>3, <1>4, AccountsMove

\* The user of the role is read, by a login and by who lost a race.
LEMMA AccountsFindUser ==
  ASSUME AccountsInv, NEW w \in Workers, FindRoleUser(w) \/ RefetchWinner(w)
  PROVE  AccountsInv' /\ RowsStay
  <1>1. /\ job[w] \in Entry /\ job[w] # Idle /\ Remembers(job[w])
        /\ job[w].at \in {"findUser", "refetch"}
    BY AccountsFields DEF AccountsInv, FindRoleUser, RefetchWinner, EntryStages, Idle
  <1>2. UNCHANGED <<accounts, users, tokens>>
    BY DEF FindRoleUser, RefetchWinner
  <1>3. CASE \E u \in RoleUsers(job[w]) : UseRoleUser(w, u)
    <2>1. \A u \in RoleUsers(job[w]) : u \in Existing
      BY DEF RoleUsers, OfAccount
    <2> QED
      BY <1>1, <1>2, <1>3, <2>1, AccountsIssue DEF UseRoleUser
  <1>4. CASE Answer(w)
    <2>1. Idle \in AccountsJob /\ Remembers(Idle)'
      BY DEF AccountsJob, Idle, Remembers, EntryStages
    <2> QED
      BY <1>2, <1>4, <2>1, AccountsUnwritten, AccountsMove
  <1>5. CASE Continue(w, [job[w] EXCEPT !.at = "create"])
    <2>1. PICK j : /\ Continue(w, j) /\ j \in Entry /\ j.at = "create"
                   /\ j.account = job[w].account /\ j.legacy = job[w].legacy
      BY <1>1, <1>5 DEF Entry, EntryStages
    <2>2. j \in AccountsJob /\ j # Idle /\ Remembers(j)
      BY <1>1, <2>1 DEF AccountsJob, Idle, Remembers, EntryStages
    <2> QED
      BY <1>1, <1>2, <2>1, <2>2, AccountsUnwritten, RemembersOn, AccountsMove
  <1> QED
    BY <1>3, <1>4, <1>5 DEF FindRoleUser, RefetchWinner

\* The user of the role is made, unless the index has one.
LEMMA AccountsCreate ==
  ASSUME AccountsInv, NEW w \in Workers, CreateRoleUser(w)
  PROVE  AccountsInv' /\ RowsStay
  <1>1. job[w] \in Entry /\ job[w] # Idle /\ Remembers(job[w]) /\ job[w].at = "create"
    BY AccountsFields DEF AccountsInv, CreateRoleUser, EntryStages, Idle
  <1>2. /\ job[w].account \in AccountIds /\ accounts[job[w].account] # None
        /\ job[w].number \in Numbers \cup UserIds /\ job[w].role \in ROLES
    BY <1>1 DEF Remembers, EntryStages, Entry
  <1>3. CASE Continue(w, [job[w] EXCEPT !.at = "refetch"]) /\ UNCHANGED users
    <2>1. PICK j : j = [job[w] EXCEPT !.at = "refetch"]
      OBVIOUS
    <2>2. /\ Continue(w, j) /\ j \in Entry /\ j.at = "refetch"
          /\ j.account = job[w].account /\ j.legacy = job[w].legacy
      BY <1>1, <1>3, <2>1 DEF Entry, EntryStages
    <2>3. j \in AccountsJob /\ j # Idle /\ Remembers(j)
      BY <1>1, <2>2 DEF AccountsJob, Idle, Remembers, EntryStages
    <2>4. UNCHANGED <<accounts, users, tokens>>
      BY <1>3 DEF CreateRoleUser
    <2> QED
      BY <1>1, <2>2, <2>3, <2>4, AccountsUnwritten, RemembersOn, AccountsMove
  <1>4. CASE \E u \in UserIds \ Existing :
               /\ users' = [users EXCEPT ![u] =
                              [account |-> job[w].account, number |-> job[w].number,
                               role |-> job[w].role, status |-> "ACTIVE"]]
               /\ Continue(w, Issue(u))
    <2> DEFINE row == [account |-> job[w].account, number |-> job[w].number,
                       role |-> job[w].role, status |-> "ACTIVE"]
    <2>1. PICK u \in UserIds \ Existing :
            users' = [users EXCEPT ![u] = row] /\ Continue(w, Issue(u))
      BY <1>4
    <2>2. row \in User /\ row # None
      BY <1>2, AccountsNames DEF User, UserStatus, Tombstones
    <2>3. row.account # None /\ row.account = job[w].account
          /\ row.number \in Numbers \cup UserIds
      BY <1>2, AccountsNames
    <2> HIDE DEF row
    <2>4. accounts' = accounts /\ tokens' = tokens
      BY DEF CreateRoleUser
    <2>5. users' \in [UserIds -> User \cup {None}]
      BY <2>1, <2>2 DEF AccountsInv, AccountsRows
    <2>6. \A v \in UserIds : users'[v] = IF v = u THEN row ELSE users[v]
      BY <2>1 DEF AccountsInv, AccountsRows
    <2>7. RowsFit'
      BY <1>2, <2>2, <2>3, <2>4, <2>6 DEF RowsFit, Existing, AccountsInv, AccountsRows
    <2>8. AccountsRows' /\ RowsStay
      BY <2>2, <2>4, <2>5, <2>6, <2>7 DEF AccountsInv, AccountsRows, RowsStay
    <2>9. PICK j : j = Issue(u)
      OBVIOUS
    <2>10. j \in AccountsJob /\ j # Idle /\ Remembers(j)'
      BY <2>2, <2>6, <2>9 DEF AccountsJob, Idle, Remembers, EntryStages, Issue, Existing
    <2> QED
      BY <1>1, <2>1, <2>8, <2>9, <2>10, AccountsMove
  <1> QED
    BY <1>3, <1>4 DEF CreateRoleUser

\* switchRole begins.
LEMMA AccountsSwitch ==
  ASSUME AccountsInv, NEW w \in Workers, NEW u \in UserIds, NEW r \in ROLES,
         SwitchRole(w, u, r)
  PROVE  AccountsInv' /\ RowsStay
  <1>1. AccountsRows' /\ RowsStay
    BY AccountsUnwritten DEF SwitchRole
  <1>2. /\ u \in Existing /\ users[u] \in User
        /\ users[u].number \in Numbers \cup UserIds
        /\ users[u].account # None => accounts[users[u].account] # None
    BY DEF SwitchRole, Authenticated, Existing, AccountsInv, AccountsRows, RowsFit
  <1>3. PICK j : j = [at |-> IF users[u].account = None THEN "upsert" ELSE "findUser",
               kind |-> "switch", number |-> users[u].number, role |-> r,
               account |-> users[u].account,
               legacy |-> IF users[u].account = None THEN u ELSE None]
    OBVIOUS
  <1>4. Start(w, j)
    BY <1>3 DEF SwitchRole
  <1>5. j \in Entry /\ Remembers(j)
    BY <1>2, <1>3 DEF Entry, EntryStages, LoginKinds, Remembers, User
  <1>6. j \in AccountsJob /\ j # Idle
    BY <1>5 DEF AccountsJob, Entry, EntryStages, Idle
  <1> QED
    BY <1>1, <1>4, <1>5, <1>6, RemembersOn, AccountsMove

\* selectProfile begins.
LEMMA AccountsSelect ==
  ASSUME AccountsInv, NEW w \in Workers, NEW u \in UserIds, SelectProfile(w, u)
  PROVE  AccountsInv' /\ RowsStay
  <1>1. AccountsRows' /\ RowsStay
    BY AccountsUnwritten DEF SelectProfile
  <1>2. users[u] \in User /\ users[u].number \in Numbers \cup UserIds
    BY DEF SelectProfile, Authenticated, Existing, AccountsInv, AccountsRows, RowsFit
  <1>3. PICK j : j = [at |-> "select", account |-> users[u].account,
                      number |-> users[u].number]
    OBVIOUS
  <1>4. Start(w, j) /\ j \in AccountsJob /\ j # Idle /\ Remembers(j)
    BY <1>2, <1>3 DEF SelectProfile, AccountsJob, Idle, Remembers, EntryStages, User
  <1> QED
    BY <1>1, <1>4, RemembersOn, AccountsMove

\* selectProfile finds who is selected.
LEMMA AccountsReadTarget ==
  ASSUME AccountsInv, NEW w \in Workers, ReadTarget(w)
  PROVE  AccountsInv' /\ RowsStay
  <1>1. job[w] # Idle /\ UNCHANGED <<accounts, users, tokens>>
    BY DEF ReadTarget, Idle
  <1>2. \E u \in Existing : Answer(w) \/ Continue(w, Issue(u))
    BY DEF ReadTarget
  <1> QED
    BY <1>1, <1>2, AccountsIssue

\* A refresh token is written.
LEMMA AccountsIssueTokens ==
  ASSUME AccountsInv, NEW w \in Workers, issueTokens(w)
  PROVE  AccountsInv' /\ RowsStay
  <1>1. job[w].user \in Existing /\ job[w] # Idle
    BY DEF AccountsInv, issueTokens, Remembers, EntryStages, Idle
  <1>2. PICK t \in TokenIds :
          tokens' = [tokens EXCEPT ![t] = [user |-> job[w].user, live |-> TRUE]]
    BY DEF issueTokens
  <1>3. accounts' = accounts /\ users' = users /\ Answer(w)
    BY DEF issueTokens
  <1>4. [user |-> job[w].user, live |-> TRUE] \in RefreshToken
    BY <1>1 DEF RefreshToken, Existing
  <1>5. tokens' \in [TokenIds -> RefreshToken \cup {None}]
    BY <1>2, <1>4 DEF AccountsInv, AccountsRows
  <1>6. \A s \in TokenIds : tokens'[s] # None => tokens'[s].user \in Existing
    BY <1>1, <1>2 DEF AccountsInv, AccountsRows, RowsFit
  <1>7. AccountsRows' /\ RowsStay
    BY <1>3, <1>5, <1>6 DEF AccountsInv, AccountsRows, RowsFit, RowsStay, Existing
  <1>8. Idle \in AccountsJob /\ Remembers(Idle)'
    BY DEF AccountsJob, Idle, Remembers, EntryStages
  <1> QED
    BY <1>3, <1>7, <1>8, AccountsMove

\* A refresh begins.
LEMMA AccountsReadToken ==
  ASSUME AccountsInv, NEW w \in Workers, NEW t \in TokenIds, ReadToken(w, t)
  PROVE  AccountsInv' /\ RowsStay
  <1>1. AccountsRows' /\ RowsStay
    BY AccountsUnwritten DEF ReadToken
  <1>2. PICK j : j = [at |-> "revoke", token |-> t, user |-> tokens[t].user]
    OBVIOUS
  <1>3. tokens[t].user \in Existing
    BY DEF ReadToken, AccountsInv, AccountsRows, RowsFit
  <1>4. Start(w, j) /\ j \in AccountsJob /\ j # Idle /\ Remembers(j)
    BY <1>2, <1>3 DEF ReadToken, AccountsJob, Idle, Remembers, EntryStages, Existing
  <1> QED
    BY <1>1, <1>4, RemembersOn, AccountsMove

\* Writing tokens of the same users.
LEMMA AccountsTokens ==
  ASSUME AccountsInv, UNCHANGED <<accounts, users>>,
         tokens' \in [TokenIds -> RefreshToken \cup {None}],
         \A t \in TokenIds :
           tokens'[t] # None => tokens[t] # None /\ tokens'[t].user = tokens[t].user
  PROVE  AccountsRows' /\ RowsStay
  BY DEF AccountsInv, AccountsRows, RowsFit, RowsStay, Existing

\* The old token is revoked, if it is live still.
LEMMA AccountsRevoke ==
  ASSUME AccountsInv, NEW w \in Workers, RevokeOld(w)
  PROVE  AccountsInv' /\ RowsStay
  <1>1. /\ job[w] \in [at : {"revoke"}, token : TokenIds, user : UserIds]
        /\ job[w] # Idle /\ Remembers(job[w]) /\ UNCHANGED <<accounts, users>>
    BY AccountsFields DEF AccountsInv, RevokeOld, Idle
  <1>2. CASE Answer(w) /\ UNCHANGED tokens
    <2>1. Idle \in AccountsJob /\ Remembers(Idle)'
      BY DEF AccountsJob, Idle, Remembers, EntryStages
    <2> QED
      BY <1>1, <1>2, <2>1, AccountsUnwritten, AccountsMove
  <1>3. CASE /\ tokens[job[w].token] # None
             /\ tokens' = [tokens EXCEPT ![job[w].token].live = FALSE]
             /\ Continue(w, Issue(job[w].user))
    <2>1. tokens[job[w].token] \in RefreshToken
      BY <1>1, <1>3 DEF AccountsInv, AccountsRows
    <2>2. tokens' \in [TokenIds -> RefreshToken \cup {None}]
      BY <1>1, <1>3, <2>1 DEF AccountsInv, AccountsRows, RefreshToken
    <2>3. \A t \in TokenIds :
            tokens'[t] # None => tokens[t] # None /\ tokens'[t].user = tokens[t].user
      BY <1>1, <1>3, <2>1 DEF AccountsInv, AccountsRows, RefreshToken
    <2>4. AccountsRows' /\ RowsStay
      BY <1>1, <2>2, <2>3, AccountsTokens
    <2>5. PICK j : j = Issue(job[w].user)
      OBVIOUS
    <2>6. j \in AccountsJob /\ j # Idle /\ Remembers(j)
      BY <1>1, <2>5 DEF AccountsJob, Idle, Remembers, EntryStages, Issue
    <2> QED
      BY <1>1, <1>3, <2>4, <2>5, <2>6, RemembersOn, AccountsMove
  <1> QED
    BY <1>2, <1>3 DEF RevokeOld

\* Tokens end by logout and with time.
LEMMA AccountsTokenEnds ==
  ASSUME AccountsInv, NEW t \in TokenIds, logout(t) \/ pruneExpiredRefreshToken(t)
  PROVE  AccountsInv' /\ RowsStay
  <1>1. tokens[t] \in RefreshToken /\ UNCHANGED <<accounts, users, job, overlapped>>
    BY DEF logout, pruneExpiredRefreshToken, AccountsInv, AccountsRows
  <1>2. /\ tokens' \in [TokenIds -> RefreshToken \cup {None}]
        /\ \A s \in TokenIds :
             tokens'[s] # None => tokens[s] # None /\ tokens'[s].user = tokens[s].user
    <2>1. CASE tokens' = [tokens EXCEPT ![t].live = FALSE]
      <3>1. PICK row : row = [tokens[t] EXCEPT !.live = FALSE]
        OBVIOUS
      <3>2. row \in RefreshToken /\ row.user = tokens[t].user
        BY <1>1, <3>1 DEF RefreshToken
      <3>3. tokens' = [tokens EXCEPT ![t] = row]
        BY <2>1, <3>1
      <3> QED
        BY <1>1, <3>2, <3>3, AccountsNames DEF AccountsInv, AccountsRows
    <2>2. CASE tokens' = [tokens EXCEPT ![t] = None]
      BY <2>2 DEF AccountsInv, AccountsRows
    <2> QED
      BY <2>1, <2>2 DEF logout, pruneExpiredRefreshToken
  <1>3. AccountsRows' /\ RowsStay
    BY <1>1, <1>2, AccountsTokens
  <1>4. \A w \in Workers : job[w] \in AccountsJob /\ Remembers(job[w])
    BY DEF AccountsInv
  <1>5. \A w \in Workers : Remembers(job[w])'
    BY <1>1, <1>3, <1>4, RemembersOn
  <1> QED
    BY <1>1, <1>3, <1>5 DEF AccountsInv, Busy

\* Writing users without touching their account.
LEMMA AccountsUsers ==
  ASSUME AccountsInv, users' \in [UserIds -> User \cup {None}],
         \A u \in UserIds : users[u] = None <=> users'[u] = None,
         \A u \in Existing : /\ users'[u].account = users[u].account
                             /\ users'[u].number \in {users[u].number, u},
         \A a \in AccountIds : accounts[a] # None => accounts'[a] # None
  PROVE  /\ \A u \in Existing' :
              /\ users'[u].number \in Numbers \cup UserIds
              /\ users'[u].account = None => users'[u].number \in Numbers \cup {u}
              /\ users'[u].account # None => accounts'[users'[u].account] # None
         /\ Existing' = Existing /\ RowsStay
  <1>1. Existing' = Existing /\ RowsStay
    BY DEF RowsStay, Existing
  <1>2. ASSUME NEW u \in Existing
        PROVE  /\ users'[u].number \in Numbers \cup UserIds
               /\ users'[u].account = None => users'[u].number \in Numbers \cup {u}
               /\ users'[u].account # None => accounts'[users'[u].account] # None
    <2>1. u \in UserIds /\ users[u] \in User
      BY DEF Existing, AccountsInv, AccountsRows
    <2> QED
      BY <2>1 DEF AccountsInv, AccountsRows, RowsFit, User
  <1> QED
    BY <1>1, <1>2

\* deleteAccount reads the profiles of the account.
LEMMA AccountsReadToDelete ==
  ASSUME AccountsInv, NEW w \in Workers, NEW u \in UserIds, ReadToDelete(w, u)
  PROVE  AccountsInv' /\ RowsStay
  <1>1. AccountsRows' /\ RowsStay
    BY AccountsUnwritten DEF ReadToDelete
  <1>2. u \in Existing /\ users[u].account \in AccountIds \cup {None}
    BY DEF ReadToDelete, Authenticated, Existing, AccountsInv, AccountsRows, User
  <1>3. PICK j : j = [at |-> "delete", account |-> users[u].account,
                      profiles |-> IF users[u].account = None THEN {u}
                                   ELSE OfAccount(users[u].account)]
    OBVIOUS
  <1>4. j.profiles \in SUBSET UserIds /\ j.profiles \subseteq Existing
    BY <1>2, <1>3 DEF OfAccount, Existing
  <1>5. Start(w, j) /\ j \in AccountsJob /\ j # Idle /\ Remembers(j)
    BY <1>2, <1>3, <1>4 DEF ReadToDelete, AccountsJob, Idle, Remembers, EntryStages
  <1> QED
    BY <1>1, <1>5, RemembersOn, AccountsMove

\* deleteAccount writes.
LEMMA AccountsCommitDeletion ==
  ASSUME AccountsInv, NEW w \in Workers, CommitDeletion(w)
  PROVE  AccountsInv' /\ RowsStay
  <1> DEFINE S == job[w].profiles
  <1>a. job[w].at = "delete" /\ Remembers(job[w])
    BY DEF CommitDeletion, AccountsInv
  <1>1. S \subseteq Existing /\ job[w] # Idle
    BY <1>a DEF Remembers, Idle
  <1>2. /\ accounts' = [a \in AccountIds |-> IF a = job[w].account THEN a ELSE accounts[a]]
        /\ users' = [u \in UserIds |->
                       IF u \in S THEN [users[u] EXCEPT !.status = "DELETED", !.number = u]
                       ELSE users[u]]
        /\ tokens' = [t \in TokenIds |->
                        IF tokens[t] # None /\ tokens[t].user \in S
                        THEN [tokens[t] EXCEPT !.live = FALSE] ELSE tokens[t]]
        /\ Answer(w)
    BY DEF CommitDeletion
  <1> HIDE DEF S
  <1>3. /\ accounts' \in [AccountIds -> Numbers \cup Tombstones \cup {None}]
        /\ \A a \in AccountIds : accounts[a] # None => accounts'[a] # None
    BY <1>2, AccountsNames DEF AccountsInv, AccountsRows, Tombstones
  <1>4. /\ users' \in [UserIds -> User \cup {None}]
        /\ \A u \in UserIds : users[u] = None <=> users'[u] = None
        /\ \A u \in Existing : /\ users'[u].account = users[u].account
                               /\ users'[u].number \in {users[u].number, u}
    <2>1. ASSUME NEW u \in UserIds
          PROVE  /\ users'[u] \in User \cup {None}
                 /\ users[u] = None <=> users'[u] = None
                 /\ u \in Existing => /\ users'[u].account = users[u].account
                                      /\ users'[u].number \in {users[u].number, u}
      <3>1. CASE u \in S
        <4>1. users[u] \in User /\ users[u] # None
          BY <1>1, <3>1 DEF Existing, AccountsInv, AccountsRows
        <4> QED
          BY <1>2, <3>1, <4>1, AccountsNames DEF User, UserStatus, Tombstones
      <3>2. CASE u \notin S
        BY <1>2, <3>2 DEF AccountsInv, AccountsRows
      <3> QED
        BY <3>1, <3>2
    <2> QED
      BY <1>2, <2>1 DEF Existing
  <1>5. /\ tokens' \in [TokenIds -> RefreshToken \cup {None}]
        /\ \A t \in TokenIds :
             tokens'[t] # None => tokens[t] # None /\ tokens'[t].user = tokens[t].user
    <2>1. ASSUME NEW t \in TokenIds
          PROVE  /\ tokens'[t] \in RefreshToken \cup {None}
                 /\ tokens'[t] # None
                    => tokens[t] # None /\ tokens'[t].user = tokens[t].user
      <3>1. tokens[t] \in RefreshToken \cup {None}
        BY DEF AccountsInv, AccountsRows
      <3> QED
        BY <1>2, <3>1 DEF RefreshToken
    <2> QED
      BY <1>2, <2>1
  <1>6. AccountsRows' /\ RowsStay
    BY <1>3, <1>4, <1>5, AccountsUsers DEF AccountsInv, AccountsRows, RowsFit
  <1>7. Idle \in AccountsJob /\ Remembers(Idle)'
    BY DEF AccountsJob, Idle, Remembers, EntryStages
  <1> QED
    BY <1>1, <1>2, <1>6, <1>7, AccountsMove

\* An admin looks at a user.
LEMMA AccountsReadToModerate ==
  ASSUME AccountsInv, NEW w \in Workers, NEW u \in UserIds, NEW status \in UserStatus,
         ReadToModerate(w, u, status)
  PROVE  AccountsInv' /\ RowsStay
  <1>1. AccountsRows' /\ RowsStay
    BY AccountsUnwritten DEF ReadToModerate
  <1>2. PICK j : j = [at |-> "moderate", user |-> u, status |-> status]
    OBVIOUS
  <1>3. Start(w, j) /\ j \in AccountsJob /\ j # Idle /\ Remembers(j)
    BY <1>2 DEF ReadToModerate, AccountsJob, Idle, Remembers, EntryStages, Existing
  <1> QED
    BY <1>1, <1>3, RemembersOn, AccountsMove

\* An admin writes a status.
LEMMA AccountsModerate ==
  ASSUME AccountsInv, NEW w \in Workers, WriteModeration(w)
  PROVE  AccountsInv' /\ RowsStay
  <1>1. /\ job[w] \in [at : {"moderate"}, user : UserIds, status : UserStatus]
        /\ job[w].user \in Existing /\ job[w] # Idle
    BY AccountsFields DEF AccountsInv, WriteModeration, Remembers, EntryStages, Idle
  <1>2. users[job[w].user] \in User /\ job[w].status \in UserStatus
    BY <1>1 DEF Existing, AccountsInv, AccountsRows
  <1>3. UNCHANGED <<accounts, tokens>> /\ Answer(w)
        /\ \/ users' = users
           \/ users' = [users EXCEPT ![job[w].user].status = job[w].status]
    BY DEF WriteModeration
  <1>4. /\ users' \in [UserIds -> User \cup {None}]
        /\ \A u \in UserIds : users[u] = None <=> users'[u] = None
        /\ \A u \in Existing : /\ users'[u].account = users[u].account
                               /\ users'[u].number \in {users[u].number, u}
    <2>1. CASE users' = users
      BY <2>1 DEF AccountsInv, AccountsRows
    <2>2. CASE users' = [users EXCEPT ![job[w].user].status = job[w].status]
      BY <1>1, <1>2, <2>2, AccountsNames DEF AccountsInv, AccountsRows, User, Existing
    <2> QED
      BY <1>3, <2>1, <2>2
  <1>5. AccountsRows' /\ RowsStay
    BY <1>3, <1>4, AccountsUsers DEF AccountsInv, AccountsRows, RowsFit
  <1>6. Idle \in AccountsJob /\ Remembers(Idle)'
    BY DEF AccountsJob, Idle, Remembers, EntryStages
  <1> QED
    BY <1>1, <1>3, <1>5, <1>6, AccountsMove

\* bulkSuspendUsers writes all at once.
LEMMA AccountsBulk ==
  ASSUME AccountsInv, NEW us \in SUBSET UserIds, bulkSuspendUsers(us)
  PROVE  AccountsInv' /\ RowsStay
  <1>1. UNCHANGED <<accounts, tokens, job, overlapped>>
    BY DEF bulkSuspendUsers
  <1>2. users' = [u \in UserIds |->
                   IF u \in us /\ Authenticated(u)
                   THEN [users[u] EXCEPT !.status = "SUSPENDED"] ELSE users[u]]
    BY DEF bulkSuspendUsers
  <1>3. ASSUME NEW u \in UserIds
        PROVE  /\ users'[u] \in User \cup {None}
               /\ users[u] = None <=> users'[u] = None
               /\ u \in Existing => /\ users'[u].account = users[u].account
                                    /\ users'[u].number \in {users[u].number, u}
    <2>1. users[u] \in User \cup {None}
      BY DEF AccountsInv, AccountsRows
    <2>2. CASE u \in us /\ Authenticated(u)
      BY <1>2, <2>1, <2>2, AccountsNames DEF Authenticated, User, UserStatus
    <2>3. CASE ~(u \in us /\ Authenticated(u))
      BY <1>2, <2>1, <2>3
    <2> QED
      BY <2>2, <2>3
  <1>4. users' \in [UserIds -> User \cup {None}]
    BY <1>2, <1>3
  <1>5. AccountsRows' /\ RowsStay
    BY <1>1, <1>3, <1>4, AccountsUsers DEF AccountsInv, AccountsRows, RowsFit, Existing
  <1>6. \A w \in Workers : job[w] \in AccountsJob /\ Remembers(job[w])
    BY DEF AccountsInv
  <1>7. \A w \in Workers : Remembers(job[w])'
    BY <1>1, <1>5, <1>6, RemembersOn
  <1> QED
    BY <1>1, <1>5, <1>7 DEF AccountsInv, Busy

\* Only legacy users are there at first.
LEMMA AccountsStarted ==
  ASSUME AccountsInit
  PROVE  AccountsInv /\ (OneUserPerRole /\ overlapped = {} /\ job = NoJobs)
  <1>a. PICK old \in SUBSET Legacy :
          \E r \in [old -> ROLES], n \in [old -> Numbers] :
            users = [u \in UserIds |->
                       IF u \in old THEN [account |-> None, number |-> n[u],
                                             role |-> r[u], status |-> "ACTIVE"]
                       ELSE None]
    BY DEF AccountsInit
  <1>1. PICK r \in [old -> ROLES], n \in [old -> Numbers] :
          users = [u \in UserIds |->
                     IF u \in old THEN [account |-> None, number |-> n[u],
                                           role |-> r[u], status |-> "ACTIVE"]
                     ELSE None]
    BY <1>a
  <1>2. ASSUME NEW u \in UserIds
        PROVE  /\ users[u] \in User \cup {None}
               /\ users[u] # None => users[u].account = None /\ users[u].number \in Numbers
    <2>1. CASE u \in old
      <3>1. r[u] \in ROLES /\ n[u] \in Numbers
        BY <2>1
      <3> QED
        BY <1>1, <2>1, <3>1 DEF User, UserStatus
    <2>2. CASE u \notin old
      BY <1>1, <2>2
    <2> QED
      BY <2>1, <2>2
  <1>3. AccountsRows
    BY <1>1, <1>2 DEF AccountsInit, AccountsRows, RowsFit, Existing
  <1>4. \A w \in Workers : job[w] = Idle
    BY DEF AccountsInit, NoJobs
  <1>5. AccountsInv
    BY <1>3, <1>4 DEF AccountsInit, AccountsInv, NoJobs, AccountsJob, Remembers, Idle,
                      EntryStages
  <1>6. OneUserPerRole
    BY <1>2 DEF OneUserPerRole, Live
  <1> QED
    BY <1>5, <1>6 DEF AccountsInit

\* No step breaks AccountsInv or removes a row.
LEMMA AccountsKept ==
  ASSUME AccountsInv, [AccountsNext]_accountsVars
  PROVE  AccountsInv' /\ RowsStay
  <1>1. CASE UNCHANGED accountsVars
    <2>1. RowsStay /\ AccountsRows'
      BY <1>1, AccountsUnwritten DEF accountsVars
    <2>2. \A w \in Workers : Remembers(job[w])'
      BY <1>1, <2>1, RemembersOn DEF accountsVars, AccountsInv
    <2> QED
      BY <1>1, <2>1, <2>2 DEF accountsVars, AccountsInv, Busy
  <1>2. ASSUME NEW w \in Workers, AccountsArrive(w)
        PROVE  AccountsInv' /\ RowsStay
    BY <1>2, AccountsFindAccount, AccountsSwitch, AccountsSelect, AccountsReadToDelete,
       AccountsReadToModerate, AccountsReadToken DEF AccountsArrive
  <1>3. ASSUME NEW w \in Workers, AccountsStep(w)
        PROVE  AccountsInv' /\ RowsStay
    BY <1>3, AccountsFindLegacy, AccountsUpsert, AccountsAttach, AccountsFindUser,
       AccountsCreate, AccountsReadTarget, AccountsIssueTokens, AccountsRevoke,
       AccountsCommitDeletion, AccountsModerate DEF AccountsStep
  <1> QED
    BY <1>1, <1>2, <1>3, AccountsTokenEnds, AccountsBulk DEF AccountsNext

\* Every row and request is of its type, and rows point at rows.
THEOREM AccountsTyped == AccountsSpec => []AccountsTypeOK
  <1>1. AccountsInv => AccountsTypeOK
    BY DEF AccountsInv, AccountsRows, AccountsTypeOK
  <1> QED
    BY <1>1, AccountsStarted, AccountsKept, PTL DEF AccountsSpec

---------------------------------------------------------------------------
\* How an action writes the users: none comes to life in an account but through
\* the index.
LEMMA UserWrites ==
  ASSUME AccountsInv, AccountsNext
  PROVE  \/ \E u \in UserIds :
              /\ \A v \in UserIds \ {u} : users'[v] = users[v]
              /\ Live(u)' /\ users'[u].account # None
                 => \A v \in UserIds \ {u} :
                      ~(Live(v) /\ users[v].account = users'[u].account
                                /\ users[v].role = users'[u].role)
         \/ \A u \in UserIds :
              Live(u)' => /\ Live(u) /\ users'[u].account = users[u].account
                          /\ users'[u].role = users[u].role
  <1> DEFINE Indexed(u) ==
               /\ \A v \in UserIds \ {u} : users'[v] = users[v]
               /\ Live(u)' /\ users'[u].account # None
                  => \A v \in UserIds \ {u} :
                       ~(Live(v) /\ users[v].account = users'[u].account
                                 /\ users[v].role = users'[u].role)
             Fewer == \A u \in UserIds :
                        Live(u)' => /\ Live(u) /\ users'[u].account = users[u].account
                                    /\ users'[u].role = users[u].role
  <1>1. SUFFICES (\E u \in UserIds : Indexed(u)) \/ Fewer
    OBVIOUS
  <1>2. users' = users => Fewer
    BY DEF Live
  <1>3. \A u \in UserIds : users[u] \in User \cup {None}
    BY DEF AccountsInv, AccountsRows
  <1>4. ASSUME NEW w \in Workers, AttachLegacy(w)
        PROVE  (\E u \in UserIds : Indexed(u)) \/ Fewer
    <2>1. job[w].legacy \in UserIds /\ users[job[w].legacy] \in User
      <3>1. job[w] \in Entry /\ Remembers(job[w]) /\ job[w].at = "attach"
        BY <1>4, AccountsFields DEF AccountsInv, AttachLegacy, EntryStages
      <3> QED
        BY <3>1 DEF Remembers, EntryStages, Entry, Existing, AccountsInv, AccountsRows
    <2>2. CASE users' = users
      BY <1>2, <2>2
    <2>3. CASE /\ users' = [users EXCEPT ![job[w].legacy].account = job[w].account]
               /\ IndexAllows(job[w].legacy, job[w].account,
                              users[job[w].legacy].role, users[job[w].legacy].status)
      <3>1. PICK u \in UserIds : u = job[w].legacy
        BY <2>1
      <3>2. PICK row : row = [users[u] EXCEPT !.account = job[w].account]
        OBVIOUS
      <3>3. /\ row.role = users[u].role /\ row.status = users[u].status
            /\ row.account = job[w].account
        BY <2>1, <3>1, <3>2 DEF User
      <3>4. users'[u] = row /\ \A v \in UserIds \ {u} : users'[v] = users[v]
        BY <2>3, <3>1, <3>2 DEF AccountsInv, AccountsRows
      <3>5. Indexed(u)
        BY <2>3, <3>1, <3>3, <3>4 DEF IndexAllows, Live
      <3> QED
        BY <3>5
    <2> QED
      BY <1>4, <2>2, <2>3 DEF AttachLegacy
  <1>5. ASSUME NEW w \in Workers, CreateRoleUser(w)
        PROVE  (\E u \in UserIds : Indexed(u)) \/ Fewer
    <2>1. CASE users' = users
      BY <1>2, <2>1
    <2>2. CASE \E u \in UserIds :
                 /\ IndexAllows(u, job[w].account, job[w].role, "ACTIVE")
                 /\ users' = [users EXCEPT ![u] =
                      [account |-> job[w].account, number |-> job[w].number,
                       role |-> job[w].role, status |-> "ACTIVE"]]
      <3>1. PICK u \in UserIds :
                 /\ IndexAllows(u, job[w].account, job[w].role, "ACTIVE")
                 /\ users' = [users EXCEPT ![u] =
                      [account |-> job[w].account, number |-> job[w].number,
                       role |-> job[w].role, status |-> "ACTIVE"]]
        BY <2>2
      <3>2. /\ users'[u] = [account |-> job[w].account, number |-> job[w].number,
                            role |-> job[w].role, status |-> "ACTIVE"]
            /\ \A v \in UserIds \ {u} : users'[v] = users[v]
        BY <3>1 DEF AccountsInv, AccountsRows
      <3>3. Indexed(u)
        BY <3>1, <3>2 DEF IndexAllows
      <3> QED
        BY <3>3
    <2> QED
      BY <1>5, <2>1, <2>2 DEF CreateRoleUser
  <1>6. ASSUME NEW w \in Workers, CommitDeletion(w)
        PROVE  Fewer
    <2>1. job[w].profiles \subseteq Existing
      <3>1. job[w].at = "delete" /\ Remembers(job[w])
        BY <1>6 DEF CommitDeletion, AccountsInv
      <3> QED
        BY <3>1 DEF Remembers
    <2>2. ASSUME NEW u \in UserIds, Live(u)' PROVE users'[u] = users[u]
      <3>1. CASE u \in job[w].profiles
        <4>1. users[u] \in User
          BY <1>3, <2>1, <3>1 DEF Existing
        <4>2. users'[u].status = "DELETED"
          BY <1>6, <3>1, <4>1 DEF CommitDeletion, User
        <4> QED
          BY <2>2, <4>2 DEF Live
      <3>2. CASE u \notin job[w].profiles
        BY <1>6, <3>2 DEF CommitDeletion
      <3> QED
        BY <3>1, <3>2
    <2> QED
      BY <2>2 DEF Live
  <1>7. ASSUME NEW w \in Workers, WriteModeration(w)
        PROVE  (\E u \in UserIds : Indexed(u)) \/ Fewer
    <2>1. job[w].user \in UserIds /\ users[job[w].user] \in User
      BY <1>7 DEF AccountsInv, AccountsRows, WriteModeration, Remembers, EntryStages, Existing
    <2>2. CASE users' = users
      BY <1>2, <2>2
    <2>3. CASE /\ users' = [users EXCEPT ![job[w].user].status = job[w].status]
               /\ IndexAllows(job[w].user, users[job[w].user].account,
                              users[job[w].user].role, job[w].status)
      <3>1. PICK u \in UserIds : u = job[w].user
        BY <2>1
      <3>2. PICK row : row = [users[u] EXCEPT !.status = job[w].status]
        OBVIOUS
      <3>3. /\ row.role = users[u].role /\ row.status = job[w].status
            /\ row.account = users[u].account
        BY <2>1, <3>1, <3>2 DEF User
      <3>4. users'[u] = row /\ \A v \in UserIds \ {u} : users'[v] = users[v]
        BY <2>3, <3>1, <3>2 DEF AccountsInv, AccountsRows
      <3>5. Indexed(u)
        BY <2>3, <3>1, <3>3, <3>4 DEF IndexAllows, Live
      <3> QED
        BY <3>5
    <2> QED
      BY <1>7, <2>2, <2>3 DEF WriteModeration
  <1>8. ASSUME NEW us \in SUBSET UserIds, bulkSuspendUsers(us)
        PROVE  Fewer
    BY <1>3, <1>8 DEF bulkSuspendUsers, Live, Authenticated, User
  <1>9. ASSUME NEW w \in Workers, AccountsArrive(w) PROVE users' = users
    BY <1>9 DEF AccountsArrive, FindAccount, SwitchRole, SelectProfile, ReadToDelete,
                ReadToModerate, ReadToken
  <1>10. ASSUME NEW w \in Workers, AccountsStep(w)
         PROVE  (\E u \in UserIds : Indexed(u)) \/ Fewer
    BY <1>2, <1>4, <1>5, <1>6, <1>7, <1>10
       DEF AccountsStep, FindLegacy, UpsertAccount, FindRoleUser, RefetchWinner, ReadTarget,
           issueTokens, RevokeOld
  <1> QED
    BY <1>2, <1>8, <1>9, <1>10 DEF AccountsNext, logout, pruneExpiredRefreshToken

\* No step gives an account a second living user in a role.
LEMMA OneUserKept ==
  ASSUME AccountsInv, OneUserPerRole, [AccountsNext]_accountsVars
  PROVE  OneUserPerRole'
  <1>1. CASE UNCHANGED accountsVars
    BY <1>1 DEF accountsVars, OneUserPerRole, Live
  <1>2. CASE AccountsNext
    <2>1. CASE \A u \in UserIds :
              Live(u)' => /\ Live(u) /\ users'[u].account = users[u].account
                          /\ users'[u].role = users[u].role
      BY <2>1 DEF OneUserPerRole
    <2>2. CASE \E u \in UserIds :
              /\ \A v \in UserIds \ {u} : users'[v] = users[v]
              /\ Live(u)' /\ users'[u].account # None
                 => \A v \in UserIds \ {u} :
                      ~(Live(v) /\ users[v].account = users'[u].account
                                /\ users[v].role = users'[u].role)
      BY <2>2 DEF OneUserPerRole, Live
    <2> QED
      BY <1>2, <2>1, <2>2, UserWrites
  <1> QED
    BY <1>1, <1>2

\* The unique index on account and role: however logins, role switches and
\* moderators race, an account has one living user in each role.
THEOREM AccountHasOneUserPerRole == AccountsSpec => []OneUserPerRole
  BY AccountsStarted, AccountsKept, OneUserKept, PTL DEF AccountsSpec

---------------------------------------------------------------------------
\* A closed account.

\* A request at j works on account a with users us.
AtWork(j, us, a) ==
  CASE j.at \in EntryStages -> j.account = a \/ j.legacy \in us
    [] j.at \in {"issue", "revoke", "moderate"} -> j.user \in us
    [] j.at = "select" -> IF j.account # None THEN j.account = a ELSE j.number \in us
    [] j.at = "delete" -> j.account = a
    [] OTHER -> FALSE

\* WorksOn in terms of AtWork.
LEMMA AtWorkIs ==
  \A w \in Workers, a \in AccountIds : WorksOn(w, a) <=> AtWork(job[w], OfAccount(a), a)
  BY DEF WorksOn, AtWork

\* AtWork by the stage.
LEMMA AtWorkAt ==
  ASSUME NEW j, NEW us, NEW a
  PROVE  /\ j.at \in EntryStages
            => (AtWork(j, us, a) <=> j.account = a \/ j.legacy \in us)
         /\ j.at \in {"issue", "revoke", "moderate"} => (AtWork(j, us, a) <=> j.user \in us)
         /\ j.at = "select"
            => (AtWork(j, us, a) <=> IF j.account # None THEN j.account = a ELSE j.number \in us)
         /\ j.at = "delete" => (AtWork(j, us, a) <=> j.account = a)
         /\ j.at = "idle" => ~AtWork(j, us, a)
  BY DEF AtWork, EntryStages

\* A step of worker w, to j.
LEMMA SealedMove ==
  ASSUME NEW a \in AccountIds, Sealed(a), Closed(a)', OfAccount(a)' = OfAccount(a),
         AccountsInv, NEW w \in Workers, NEW j, job' = [job EXCEPT ![w] = j],
         ~AtWork(j, OfAccount(a), a)
  PROVE  Sealed(a)'
  <1>1. ASSUME NEW x \in Workers PROVE ~AtWork(job'[x], OfAccount(a), a)
    <2>1. CASE x = w
      BY <2>1 DEF AccountsInv
    <2>2. CASE x # w
      BY <2>2, AtWorkIs DEF AccountsInv, Sealed
    <2> QED
      BY <2>1, <2>2
  <1>2. \A x \in Workers : WorksOn(x, a)' <=> AtWork(job'[x], OfAccount(a)', a)
    BY DEF WorksOn, AtWork
  <1> QED
    BY <1>1, <1>2 DEF Sealed

\* Nothing is written.
LEMMA ClosedUnwritten ==
  ASSUME NEW a \in AccountIds, Closed(a), UNCHANGED <<accounts, users, tokens>>
  PROVE  Closed(a)' /\ OfAccount(a)' = OfAccount(a)
  BY DEF Closed, OfAccount, Existing

\* The users of a closed account do nothing.
LEMMA ClosedUsers ==
  ASSUME AccountsInv, NEW a \in AccountIds, Closed(a)
  PROVE  /\ \A u \in OfAccount(a) : u \in Existing /\ ~Live(u) /\ ~Authenticated(u)
         /\ None \notin OfAccount(a) /\ a # None
         /\ \A n \in Numbers : n \notin OfAccount(a) /\ accounts[a] # n
         /\ \A u \in UserIds : accounts[a] # u
  BY AccountsNames DEF Closed, OfAccount, Existing, Live, Authenticated

\* No request comes to work on a closed account.
LEMMA ClosedArrive ==
  ASSUME AccountsInv, NEW a \in AccountIds, Sealed(a), NEW w \in Workers, AccountsArrive(w)
  PROVE  Sealed(a)'
  <1>1. Closed(a)' /\ OfAccount(a)' = OfAccount(a)
    BY ClosedUnwritten DEF AccountsArrive, FindAccount, SwitchRole, SelectProfile,
       ReadToDelete, ReadToModerate, ReadToken, Sealed
  <1>2. Closed(a)
    BY DEF Sealed
  <1>3. ASSUME NEW j, Start(w, j), ~AtWork(j, OfAccount(a), a) PROVE Sealed(a)'
    BY <1>1, <1>3, SealedMove DEF Start, Begin
  <1>4. ASSUME NEW n \in Numbers, NEW r \in ROLES, NEW kind \in LoginKinds,
               FindAccount(w, n, r, kind)
        PROVE  Sealed(a)'
    <2> DEFINE entry == [at |-> "findLegacy", kind |-> kind, number |-> n, role |-> r,
                         account |-> None, legacy |-> None]
    <2>1. CASE Start(w, entry)
      <3>1. ~AtWork(entry, OfAccount(a), a)
        BY <1>2, ClosedUsers, AtWorkAt DEF EntryStages
      <3> QED
        BY <1>3, <2>1, <3>1
    <2>2. CASE \E b \in AccountIds : /\ accounts[b] = n
                     /\ Start(w, [entry EXCEPT !.at = "findUser", !.account = b])
      <3>1. PICK b \in AccountIds : /\ accounts[b] = n
                     /\ Start(w, [entry EXCEPT !.at = "findUser", !.account = b])
        BY <2>2
      <3>2. PICK j : j = [entry EXCEPT !.at = "findUser", !.account = b]
        OBVIOUS
      <3>3. j.at = "findUser" /\ j.account = b /\ j.legacy = None
        BY <3>2
      <3>4. ~AtWork(j, OfAccount(a), a)
        BY <1>2, <3>1, <3>3, ClosedUsers, AtWorkAt DEF EntryStages
      <3> QED
        BY <1>3, <3>1, <3>2, <3>4
    <2> QED
      BY <1>4, <2>1, <2>2 DEF FindAccount
  <1>5. ASSUME NEW u \in UserIds, Authenticated(u)
        PROVE  /\ u \in Existing \ OfAccount(a) /\ users[u].account # a
               /\ users[u].account = None => users[u].number \notin OfAccount(a)
    <2>1. u \in Existing \ OfAccount(a)
      BY <1>2, <1>5, ClosedUsers DEF Authenticated, Existing
    <2>2. users[u].account # a
      BY <2>1 DEF OfAccount
    <2>3. users[u].account = None => users[u].number \in Numbers \cup {u}
      BY <2>1 DEF AccountsInv, AccountsRows, RowsFit
    <2> QED
      BY <1>2, <2>1, <2>2, <2>3, ClosedUsers
  <1>6. ASSUME NEW u \in UserIds, NEW r \in ROLES, SwitchRole(w, u, r) PROVE Sealed(a)'
    <2>1. PICK j : j = [at |-> IF users[u].account = None THEN "upsert" ELSE "findUser",
               kind |-> "switch", number |-> users[u].number, role |-> r,
               account |-> users[u].account,
               legacy |-> IF users[u].account = None THEN u ELSE None]
      OBVIOUS
    <2>2. /\ j.at \in EntryStages /\ j.account = users[u].account /\ j.legacy \in {u, None}
      BY <2>1 DEF EntryStages
    <2>3. ~AtWork(j, OfAccount(a), a)
      BY <1>2, <1>5, <1>6, <2>2, ClosedUsers, AtWorkAt DEF SwitchRole
    <2> QED
      BY <1>3, <1>6, <2>1, <2>3 DEF SwitchRole
  <1>7. ASSUME NEW u \in UserIds, SelectProfile(w, u) PROVE Sealed(a)'
    <2>1. PICK j : j = [at |-> "select", account |-> users[u].account,
                        number |-> users[u].number]
      OBVIOUS
    <2>2. ~AtWork(j, OfAccount(a), a)
      BY <1>5, <1>7, <2>1, AtWorkAt DEF SelectProfile
    <2> QED
      BY <1>3, <1>7, <2>1, <2>2 DEF SelectProfile
  <1>8. ASSUME NEW u \in UserIds, ReadToDelete(w, u) PROVE Sealed(a)'
    <2>1. PICK j : j = [at |-> "delete", account |-> users[u].account,
                        profiles |-> IF users[u].account = None THEN {u}
                                     ELSE OfAccount(users[u].account)]
      OBVIOUS
    <2>2. ~AtWork(j, OfAccount(a), a)
      BY <1>5, <1>8, <2>1, AtWorkAt DEF ReadToDelete
    <2> QED
      BY <1>3, <1>8, <2>1, <2>2 DEF ReadToDelete
  <1>9. ASSUME NEW u \in UserIds, NEW status \in UserStatus, ReadToModerate(w, u, status)
        PROVE  Sealed(a)'
    <2>1. PICK j : j = [at |-> "moderate", user |-> u, status |-> status]
      OBVIOUS
    <2>2. u \notin OfAccount(a)
      BY <1>2, <1>9, ClosedUsers DEF ReadToModerate, Moderable, Live
    <2>3. ~AtWork(j, OfAccount(a), a)
      BY <2>1, <2>2, AtWorkAt
    <2> QED
      BY <1>3, <1>9, <2>1, <2>3 DEF ReadToModerate
  <1>10. ASSUME NEW t \in TokenIds, ReadToken(w, t) PROVE Sealed(a)'
    <2>1. PICK j : j = [at |-> "revoke", token |-> t, user |-> tokens[t].user]
      OBVIOUS
    <2>2. tokens[t].user \notin OfAccount(a)
      BY <1>2, <1>10 DEF ReadToken, Closed, OfAccount
    <2>3. ~AtWork(j, OfAccount(a), a)
      BY <2>1, <2>2, AtWorkAt
    <2> QED
      BY <1>3, <1>10, <2>1, <2>3 DEF ReadToken
  <1> QED
    BY <1>4, <1>6, <1>7, <1>8, <1>9, <1>10 DEF AccountsArrive

\* Users whom writing leaves in their accounts, and what is closed deleted.
LEMMA ClosedWritten ==
  ASSUME AccountsInv, NEW a \in AccountIds, Closed(a), accounts'[a] = a,
         \A u \in UserIds : \/ users'[u] = users[u]
                            \/ /\ u \notin OfAccount(a)
                               /\ users'[u] = None \/ users'[u].account # a
                            \/ /\ u \in OfAccount(a)
                               /\ users'[u] # None /\ users'[u].account = a
                               /\ users'[u].status = "DELETED" /\ users'[u].number = u,
         \A t \in TokenIds : tokens'[t] # None /\ tokens'[t].live
            => /\ tokens'[t].user \in Existing
               /\ tokens'[t].user \notin OfAccount(a),
         RowsStay
  PROVE  Closed(a)' /\ OfAccount(a)' = OfAccount(a)
  <1>1. \A u \in UserIds : u \in OfAccount(a)' <=> u \in OfAccount(a)
    BY DEF OfAccount, Existing
  <1>2. OfAccount(a)' = OfAccount(a)
    BY <1>1 DEF OfAccount, Existing
  <1>3. \A u \in OfAccount(a) : users'[u].status = "DELETED" /\ users'[u].number = u
    BY DEF Closed, OfAccount, Existing
  <1>4. \A t \in TokenIds : tokens'[t] # None /\ tokens'[t].live
            => users'[tokens'[t].user].account # a
    BY <1>1 DEF OfAccount, Existing, RowsStay
  <1> QED
    BY <1>2, <1>3, <1>4 DEF Closed

\* A live token is of no user of a closed account.
LEMMA ClosedTokens ==
  ASSUME AccountsInv, NEW a \in AccountIds, Closed(a)
  PROVE  \A t \in TokenIds : tokens[t] # None /\ tokens[t].live
            => tokens[t].user \in Existing /\ tokens[t].user \notin OfAccount(a)
  BY DEF Closed, OfAccount, AccountsInv, AccountsRows, RowsFit

\* No request under way opens a closed account.
LEMMA ClosedStep ==
  ASSUME AccountsInv, NEW a \in AccountIds, Sealed(a), NEW w \in Workers, AccountsStep(w)
  PROVE  Sealed(a)'
  <1> DEFINE us == OfAccount(a)
  <1>1. Closed(a) /\ ~AtWork(job[w], us, a)
    BY AtWorkIs DEF Sealed
  <1>2. ASSUME UNCHANGED <<accounts, users, tokens>>
        PROVE  Closed(a)' /\ OfAccount(a)' = OfAccount(a)
    BY <1>1, <1>2, ClosedUnwritten
  <1>3. ASSUME NEW j, job' = [job EXCEPT ![w] = j], ~AtWork(j, us, a),
               Closed(a)', OfAccount(a)' = OfAccount(a)
        PROVE  Sealed(a)'
    BY <1>3, SealedMove
  <1>4. ~AtWork(Idle, us, a) /\ \A u : u \notin us => ~AtWork(Issue(u), us, a)
    BY AtWorkAt DEF Idle, Issue
  <1>5. /\ \A u \in us : u \in Existing /\ ~Live(u) /\ ~Authenticated(u)
        /\ None \notin us /\ a # None
        /\ \A n \in Numbers \cup UserIds : accounts[a] # n
    BY <1>1, ClosedUsers
  <1>6. /\ AccountsInv' /\ RowsStay
        /\ job[w] \in AccountsJob /\ Remembers(job[w])
    BY AccountsKept DEF AccountsNext, AccountsInv
  <1>7. \A t \in TokenIds : tokens[t] # None /\ tokens[t].live
            => tokens[t].user \in Existing /\ tokens[t].user \notin us
    BY <1>1, ClosedTokens
  <1>8. ASSUME job[w].at \in EntryStages
        PROVE  job[w] \in Entry /\ job[w].account # a /\ job[w].legacy \notin us
    BY <1>1, <1>6, <1>8, AccountsFields, AtWorkAt
  <1> HIDE DEF us
  <1>9. ASSUME Answer(w), UNCHANGED <<accounts, users, tokens>> PROVE Sealed(a)'
    BY <1>2, <1>3, <1>4, <1>9 DEF Answer, Finish
  <1>10. ASSUME NEW u, u \notin us, Continue(w, Issue(u)), UNCHANGED <<accounts, users, tokens>>
         PROVE  Sealed(a)'
    BY <1>2, <1>3, <1>4, <1>10 DEF Continue, GoTo
  <1>11. CASE FindLegacy(w)
    <2>1. PICK u \in (UserIds \ us) \cup {job[w].legacy} :
            \/ Answer(w)
            \/ Continue(w, [job[w] EXCEPT !.at = "upsert", !.legacy = u])
      <3>1. job[w] \in Entry
        BY <1>8, <1>11 DEF FindLegacy, EntryStages
      <3>2. [job[w] EXCEPT !.at = "upsert"]
              = [job[w] EXCEPT !.at = "upsert", !.legacy = job[w].legacy]
        BY <3>1 DEF Entry
      <3>3. \A u \in Existing : users[u].account = None => u \in UserIds \ us
        BY <1>5 DEF Existing, us, OfAccount
      <3> QED
        BY <1>11, <3>2, <3>3 DEF FindLegacy
    <2>2. UNCHANGED <<accounts, users, tokens>>
      BY <1>11 DEF FindLegacy
    <2>3. CASE Answer(w)
      BY <1>9, <2>2, <2>3
    <2>4. CASE Continue(w, [job[w] EXCEPT !.at = "upsert", !.legacy = u])
      <3>1. PICK j : j = [job[w] EXCEPT !.at = "upsert", !.legacy = u]
        OBVIOUS
      <3>2. job[w] \in Entry /\ job[w].account # a /\ job[w].legacy \notin us
        BY <1>8, <1>11 DEF FindLegacy, EntryStages
      <3>3. j.at = "upsert" /\ j.account # a /\ j.legacy \notin us
        BY <2>1, <3>1, <3>2 DEF Entry
      <3>4. ~AtWork(j, us, a)
        BY <3>3, AtWorkAt DEF EntryStages
      <3> QED
        BY <1>2, <1>3, <2>2, <2>4, <3>1, <3>4 DEF Continue, GoTo
    <2> QED
      BY <2>1, <2>3, <2>4
  <1>12. CASE UpsertAccount(w)
    <2>1. PICK b \in AccountIds :
          /\ accounts[b] = job[w].number \/ accounts[b] = None
          /\ accounts' = [accounts EXCEPT ![b] = job[w].number]
          /\ Continue(w, [job[w] EXCEPT
               !.at = IF job[w].legacy = None THEN "findUser" ELSE "attach",
               !.account = b])
      BY <1>12 DEF UpsertAccount
    <2>2. job[w] \in Entry /\ job[w].legacy \notin us
      BY <1>8, <1>12 DEF UpsertAccount, EntryStages
    <2>3. b # a
      BY <1>1, <1>5, <2>1, <2>2 DEF Entry, Closed
    <2>4. users' = users /\ tokens' = tokens /\ accounts'[a] = a
      BY <1>1, <1>12, <2>1, <2>3 DEF UpsertAccount, Closed, AccountsInv, AccountsRows
    <2>5. Closed(a)' /\ OfAccount(a)' = OfAccount(a)
      BY <1>1, <1>6, <1>7, <2>4, ClosedWritten DEF us
    <2>6. PICK j : j = [job[w] EXCEPT
               !.at = IF job[w].legacy = None THEN "findUser" ELSE "attach",
               !.account = b]
      OBVIOUS
    <2>7. j.at \in EntryStages /\ j.account = b /\ j.legacy = job[w].legacy
      BY <2>2, <2>6 DEF Entry, EntryStages
    <2>8. ~AtWork(j, us, a)
      BY <2>2, <2>3, <2>7, AtWorkAt
    <2> QED
      BY <1>3, <2>1, <2>5, <2>6, <2>8 DEF Continue, GoTo
  <1>13. CASE AttachLegacy(w)
    <2>1. job[w] \in Entry /\ job[w].account # a /\ job[w].legacy \notin us
      BY <1>8, <1>13 DEF AttachLegacy, EntryStages
    <2>2. CASE Answer(w) /\ UNCHANGED users
      BY <1>9, <1>13, <2>2 DEF AttachLegacy
    <2>3. CASE /\ users' = [users EXCEPT ![job[w].legacy].account = job[w].account]
               /\ Continue(w, [job[w] EXCEPT !.at = "findUser", !.legacy = None])
      <3>1. job[w].at = "attach" /\ accounts' = accounts /\ tokens' = tokens
        BY <1>13 DEF AttachLegacy
      <3>2. job[w].legacy \in UserIds /\ users[job[w].legacy] \in User
        BY <1>6, <2>1, <3>1 DEF Remembers, EntryStages, Entry, Existing, AccountsInv, AccountsRows
      <3>3. users'[job[w].legacy].account # a
        BY <2>1, <2>3, <3>2 DEF User, AccountsInv, AccountsRows
      <3>4. \A u \in UserIds \ {job[w].legacy} : users'[u] = users[u]
        BY <2>3 DEF AccountsInv, AccountsRows
      <3>5. Closed(a)' /\ OfAccount(a)' = OfAccount(a)
        BY <1>1, <1>6, <1>7, <2>1, <3>1, <3>3, <3>4, ClosedWritten DEF us, Closed
      <3>6. PICK j : j = [job[w] EXCEPT !.at = "findUser", !.legacy = None]
        OBVIOUS
      <3>7. j.at \in EntryStages /\ j.account = job[w].account /\ j.legacy = None
        BY <2>1, <3>6 DEF Entry, EntryStages
      <3>8. ~AtWork(j, us, a)
        BY <1>5, <2>1, <3>7, AtWorkAt
      <3> QED
        BY <1>3, <2>3, <3>5, <3>6, <3>8 DEF Continue, GoTo
    <2> QED
      BY <1>13, <2>2, <2>3 DEF AttachLegacy
  <1>14. CASE FindRoleUser(w) \/ RefetchWinner(w)
    <2>1. job[w] \in Entry /\ job[w].account # a /\ job[w].legacy \notin us
      BY <1>8, <1>14 DEF FindRoleUser, RefetchWinner, EntryStages
    <2>2. UNCHANGED <<accounts, users, tokens>>
      BY <1>14 DEF FindRoleUser, RefetchWinner
    <2>3. \A u \in RoleUsers(job[w]) : u \notin us
      BY <1>5 DEF RoleUsers
    <2>4. CASE \E u \in RoleUsers(job[w]) : Answer(w) \/ Continue(w, Issue(u))
      BY <1>9, <1>10, <2>2, <2>3, <2>4
    <2>5. CASE Continue(w, [job[w] EXCEPT !.at = "create"])
      <3>1. PICK j : j = [job[w] EXCEPT !.at = "create"]
        OBVIOUS
      <3>2. j.at \in EntryStages /\ j.account = job[w].account /\ j.legacy = job[w].legacy
        BY <2>1, <3>1 DEF Entry, EntryStages
      <3>3. ~AtWork(j, us, a)
        BY <2>1, <3>2, AtWorkAt
      <3> QED
        BY <1>2, <1>3, <2>2, <2>5, <3>1, <3>3 DEF Continue, GoTo
    <2> QED
      BY <1>9, <1>14, <2>2, <2>4, <2>5 DEF FindRoleUser, RefetchWinner, UseRoleUser
  <1>15. CASE CreateRoleUser(w)
    <2>1. job[w] \in Entry /\ job[w].account # a /\ job[w].legacy \notin us
      BY <1>8, <1>15 DEF CreateRoleUser, EntryStages
    <2>2. accounts' = accounts /\ tokens' = tokens
      BY <1>15 DEF CreateRoleUser
    <2>3. CASE Continue(w, [job[w] EXCEPT !.at = "refetch"]) /\ UNCHANGED users
      <3>1. PICK j : j = [job[w] EXCEPT !.at = "refetch"]
        OBVIOUS
      <3>2. j.at \in EntryStages /\ j.account = job[w].account /\ j.legacy = job[w].legacy
        BY <2>1, <3>1 DEF Entry, EntryStages
      <3>3. ~AtWork(j, us, a)
        BY <2>1, <3>2, AtWorkAt
      <3> QED
        BY <1>2, <1>3, <2>2, <2>3, <3>1, <3>3 DEF Continue, GoTo
    <2>4. CASE \E u \in UserIds \ Existing :
               /\ users' = [users EXCEPT ![u] =
                              [account |-> job[w].account, number |-> job[w].number,
                               role |-> job[w].role, status |-> "ACTIVE"]]
               /\ Continue(w, Issue(u))
      <3>1. PICK u \in UserIds \ Existing :
               /\ users' = [users EXCEPT ![u] =
                              [account |-> job[w].account, number |-> job[w].number,
                               role |-> job[w].role, status |-> "ACTIVE"]]
               /\ Continue(w, Issue(u))
        BY <2>4
      <3>2. /\ users'[u].account # a /\ u \notin us
            /\ \A v \in UserIds \ {u} : users'[v] = users[v]
        BY <1>5, <2>1, <3>1 DEF AccountsInv, AccountsRows
      <3>3. Closed(a)' /\ OfAccount(a)' = OfAccount(a)
        BY <1>1, <1>6, <1>7, <2>2, <3>2, ClosedWritten DEF us, Closed
      <3> QED
        BY <1>3, <1>4, <3>1, <3>2, <3>3 DEF Continue, GoTo
    <2> QED
      BY <1>15, <2>3, <2>4 DEF CreateRoleUser
  <1>16. CASE ReadTarget(w)
    <2>1. UNCHANGED <<accounts, users, tokens>>
      BY <1>16 DEF ReadTarget
    <2>2. IF job[w].account # None THEN job[w].account # a ELSE job[w].number \notin us
      BY <1>1, <1>16, AtWorkAt DEF ReadTarget
    <2>3. \A u \in us : users[u].account = a /\ users[u].number = u
      BY <1>1 DEF Closed, us, OfAccount
    <2>4. \E u \in Existing : Answer(w) \/ (Continue(w, Issue(u)) /\ u \notin us)
      BY <1>16, <2>2, <2>3 DEF ReadTarget
    <2> QED
      BY <1>9, <1>10, <2>1, <2>4
  <1>17. CASE issueTokens(w)
    <2>1. job[w].user \in Existing /\ job[w].user \notin us
      BY <1>1, <1>6, <1>17, AtWorkAt DEF issueTokens, Remembers
    <2>2. PICK t \in TokenIds :
            tokens' = [tokens EXCEPT ![t] = [user |-> job[w].user, live |-> TRUE]]
      BY <1>17 DEF issueTokens
    <2>3. accounts' = accounts /\ users' = users /\ Answer(w)
      BY <1>17 DEF issueTokens
    <2>4. \A s \in TokenIds : tokens'[s] # None /\ tokens'[s].live
            => tokens'[s].user \in Existing /\ tokens'[s].user \notin us
      BY <1>7, <2>1, <2>2 DEF AccountsInv, AccountsRows
    <2>5. Closed(a)' /\ OfAccount(a)' = OfAccount(a)
      BY <1>1, <1>6, <2>3, <2>4, ClosedWritten DEF us, Closed
    <2> QED
      BY <1>3, <1>4, <2>3, <2>5 DEF Answer, Finish
  <1>18. CASE RevokeOld(w)
    <2>1. job[w] \in [at : {"revoke"}, token : TokenIds, user : UserIds]
      BY <1>6, <1>18, AccountsFields DEF RevokeOld
    <2>2. job[w].user \notin us
      BY <1>1, <1>18, AtWorkAt DEF RevokeOld
    <2>3. accounts' = accounts /\ users' = users
      BY <1>18 DEF RevokeOld
    <2>4. CASE Answer(w) /\ UNCHANGED tokens
      BY <1>9, <2>3, <2>4
    <2>5. CASE /\ tokens[job[w].token] # None
               /\ tokens' = [tokens EXCEPT ![job[w].token].live = FALSE]
               /\ Continue(w, Issue(job[w].user))
      <3>1. tokens[job[w].token] \in RefreshToken
        BY <2>1, <2>5 DEF AccountsInv, AccountsRows
      <3>2. ~tokens'[job[w].token].live
        BY <2>1, <2>5, <3>1 DEF AccountsInv, AccountsRows, RefreshToken
      <3>3. \A s \in TokenIds \ {job[w].token} : tokens'[s] = tokens[s]
        BY <2>5 DEF AccountsInv, AccountsRows
      <3>4. Closed(a)' /\ OfAccount(a)' = OfAccount(a)
        BY <1>1, <1>6, <1>7, <2>3, <3>2, <3>3, ClosedWritten DEF us, Closed
      <3> QED
        BY <1>3, <1>4, <2>2, <2>5, <3>4 DEF Continue, GoTo
    <2> QED
      BY <1>18, <2>4, <2>5 DEF RevokeOld
  <1>19. CASE CommitDeletion(w)
    <2> DEFINE S == job[w].profiles
    <2>1. S \subseteq Existing
      BY <1>6, <1>19 DEF CommitDeletion, Remembers
    <2>2. /\ accounts'[a] = IF a = job[w].account THEN a ELSE accounts[a]
          /\ \A u \in UserIds : users'[u] =
               IF u \in S THEN [users[u] EXCEPT !.status = "DELETED", !.number = u]
               ELSE users[u]
          /\ \A t \in TokenIds : tokens'[t] =
               IF tokens[t] # None /\ tokens[t].user \in S
               THEN [tokens[t] EXCEPT !.live = FALSE] ELSE tokens[t]
          /\ Answer(w)
      BY <1>19 DEF CommitDeletion
    <2> HIDE DEF S
    <2>3. \A u \in S : /\ users'[u].account = users[u].account
                       /\ users'[u].status = "DELETED" /\ users'[u].number = u
      <3>1. ASSUME NEW u \in S
            PROVE  /\ users'[u].account = users[u].account
                   /\ users'[u].status = "DELETED" /\ users'[u].number = u
        <4>1. u \in UserIds /\ users[u] \in User
          BY <2>1, <3>1 DEF Existing, AccountsInv, AccountsRows
        <4> QED
          BY <2>2, <3>1, <4>1 DEF User
      <3> QED
        BY <3>1
    <2>4. \A u \in UserIds : \/ users'[u] = users[u]
                             \/ /\ u \notin us
                                /\ users'[u] = None \/ users'[u].account # a
                             \/ /\ u \in us
                                /\ users'[u] # None /\ users'[u].account = a
                                /\ users'[u].status = "DELETED" /\ users'[u].number = u
      BY <1>6, <2>1, <2>2, <2>3 DEF us, OfAccount, Existing, RowsStay
    <2>5. ASSUME NEW t \in TokenIds, tokens'[t] # None, tokens'[t].live
          PROVE  tokens'[t].user \in Existing /\ tokens'[t].user \notin us
      <3>1. tokens[t] \in RefreshToken \cup {None}
        BY DEF AccountsInv, AccountsRows
      <3>2. tokens'[t] = tokens[t]
        BY <2>2, <2>5, <3>1 DEF RefreshToken
      <3> QED
        BY <1>7, <2>5, <3>2
    <2>6. Closed(a)' /\ OfAccount(a)' = OfAccount(a)
      BY <1>1, <1>6, <2>2, <2>4, <2>5, ClosedWritten DEF us, Closed
    <2> QED
      BY <1>3, <1>4, <2>2, <2>6 DEF Answer, Finish
  <1>20. CASE WriteModeration(w)
    <2>1. job[w].user \notin us
      BY <1>1, <1>20, AtWorkAt DEF WriteModeration
    <2>2. job[w].user \in UserIds /\ users[job[w].user] \in User
      BY <1>6, <1>20 DEF WriteModeration, Remembers, EntryStages, Existing, AccountsInv,
         AccountsRows
    <2>3. accounts' = accounts /\ tokens' = tokens /\ Answer(w)
      BY <1>20 DEF WriteModeration
    <2>4. \A u \in UserIds : \/ users'[u] = users[u]
                             \/ u \notin us /\ users'[u].account # a
      <3>1. CASE users' = users
        BY <3>1
      <3>2. CASE users' = [users EXCEPT ![job[w].user].status = job[w].status]
        <4>1. users'[job[w].user].account = users[job[w].user].account
          BY <2>2, <3>2 DEF AccountsInv, AccountsRows, User
        <4>2. users[job[w].user].account # a
          BY <2>1, <2>2, AccountsNames DEF us, OfAccount, Existing
        <4> QED
          BY <2>1, <3>2, <4>1, <4>2 DEF AccountsInv, AccountsRows
      <3> QED
        BY <1>20, <3>1, <3>2 DEF WriteModeration
    <2>5. Closed(a)' /\ OfAccount(a)' = OfAccount(a)
      BY <1>1, <1>6, <1>7, <2>3, <2>4, ClosedWritten DEF us, Closed
    <2> QED
      BY <1>3, <1>4, <2>3, <2>5 DEF Answer, Finish
  <1> QED
    BY <1>11, <1>12, <1>13, <1>14, <1>15, <1>16, <1>17, <1>18, <1>19, <1>20 DEF AccountsStep

\* No step opens a closed account or brings a request to it.
LEMMA ClosedKept ==
  ASSUME AccountsInv, NEW a \in AccountIds, Sealed(a), [AccountsNext]_accountsVars
  PROVE  Sealed(a)'
  <1>1. CASE UNCHANGED accountsVars
    BY <1>1 DEF accountsVars, Sealed, Closed, WorksOn, OfAccount, Existing
  <1>2. ASSUME Closed(a)', OfAccount(a)' = OfAccount(a), job' = job PROVE Sealed(a)'
    BY <1>2 DEF Sealed, WorksOn
  <1>3. Closed(a)
    BY DEF Sealed
  <1>4. ASSUME NEW t \in TokenIds, logout(t) \/ pruneExpiredRefreshToken(t)
        PROVE  Sealed(a)'
    <2>1. tokens[t] \in RefreshToken /\ UNCHANGED <<accounts, users, job>> /\ RowsStay
      BY <1>4 DEF logout, pruneExpiredRefreshToken, AccountsInv, AccountsRows, RowsStay
    <2>2. tokens'[t] = None \/ ~tokens'[t].live
      BY <1>4, <2>1 DEF logout, pruneExpiredRefreshToken, AccountsInv, AccountsRows, RefreshToken
    <2>3. \A s \in TokenIds \ {t} : tokens'[s] = tokens[s]
      BY <1>4 DEF logout, pruneExpiredRefreshToken, AccountsInv, AccountsRows
    <2>4. Closed(a)' /\ OfAccount(a)' = OfAccount(a)
      BY <1>3, <2>1, <2>2, <2>3, ClosedTokens, ClosedWritten DEF Closed
    <2> QED
      BY <1>2, <2>1, <2>4
  <1>5. ASSUME NEW us \in SUBSET UserIds, bulkSuspendUsers(us) PROVE Sealed(a)'
    <2>1. UNCHANGED <<accounts, tokens, job>> /\ RowsStay
      BY <1>5, AccountsBulk DEF bulkSuspendUsers
    <2>2. ASSUME NEW u \in UserIds
          PROVE users'[u] = users[u] \/ (u \notin OfAccount(a) /\ users'[u].account # a)
      <3>1. CASE u \in us /\ Authenticated(u)
        <4>1. users[u] \in User /\ u \notin OfAccount(a) /\ users[u].account # a
          BY <1>3, <3>1, ClosedUsers DEF Authenticated, AccountsInv, AccountsRows, OfAccount,
             Existing
        <4>2. users'[u].account # a
          BY <1>5, <3>1, <4>1 DEF bulkSuspendUsers, User
        <4> QED
          BY <4>1, <4>2
      <3>2. CASE ~(u \in us /\ Authenticated(u))
        BY <1>5, <3>2 DEF bulkSuspendUsers
      <3> QED
        BY <3>1, <3>2
    <2>3. Closed(a)' /\ OfAccount(a)' = OfAccount(a)
      BY <1>3, <2>1, <2>2, ClosedTokens, ClosedWritten DEF Closed
    <2> QED
      BY <1>2, <2>1, <2>3
  <1> QED
    BY <1>1, <1>4, <1>5, ClosedArrive, ClosedStep DEF AccountsNext

\* A closed account that nobody is at work on stays that way, for any number
\* of requests, accounts and users.
THEOREM ClosedStaysClosed == AccountsSpec => ClosedForGood
  <1>1. AccountsInv /\ [AccountsNext]_accountsVars
        => [\A a \in AccountIds : Sealed(a) => Sealed(a)']_accountsVars
    BY ClosedKept
  <1> QED
    BY <1>1, AccountsStarted, AccountsKept, PTL DEF AccountsSpec, ClosedForGood

---------------------------------------------------------------------------
\* Requests that meet no other.

\* What a request that met no other knows of the tables: the account of its
\* number, and that it has no user in the role before it creates one.
LoneLogin(w) ==
  LET j == job[w]
  IN  /\ j.at \in {"findLegacy", "upsert"}
         => \A a \in AccountIds : accounts[a] # j.number
      /\ j.at \in {"attach", "findUser", "create"} => accounts[j.account] = j.number
      /\ j.at = "attach" => OfAccount(j.account) = {}
      /\ j.at = "create" => RoleUsers(j) = {}
      /\ j.at # "refetch"

\* A request that met no other.
Lone(w) ==
  /\ job[w].at = "delete" /\ job[w].account # None
     => job[w].profiles = OfAccount(job[w].account)
  /\ job[w].at \in EntryStages /\ job[w].kind \in LoginKinds => LoneLogin(w)

\* Requests that are served at once have met, and others know the tables.
LoneRequests ==
  /\ \A v, w \in Busy : v # w => v \in overlapped
  /\ \A w \in Workers \ overlapped : Lone(w)

\* A step of one request leaves the others knowing what they know.
LEMMA LoneMove ==
  ASSUME AccountsInv, LoneRequests, NEW w \in Workers, NEW j,
         \/ Start(w, j)
         \/ Continue(w, j) /\ job[w] # Idle
         \/ Answer(w) /\ j = Idle /\ job[w] # Idle,
         w \notin overlapped' => Lone(w)'
  PROVE  LoneRequests'
  <1>1. \A x \in Workers : job'[x] = IF x = w THEN j ELSE job[x]
    BY DEF Start, Continue, Answer, Begin, GoTo, Finish, AccountsInv
  <1>2. \A x \in Workers : x \in Busy' => x \in Busy \cup {w}
    BY <1>1 DEF Busy
  <1>3. \A u, v \in Busy' : u # v => u \in overlapped'
    <2> SUFFICES ASSUME NEW u \in Busy', NEW v \in Busy', u # v PROVE u \in overlapped'
      OBVIOUS
    <2>1. u \in Busy \cup {w} /\ v \in Busy \cup {w}
      BY <1>2 DEF Busy
    <2>2. CASE Start(w, j)
      <3>1. Busy # {} /\ overlapped' = overlapped \cup Busy \cup {w}
        BY <2>1, <2>2 DEF Start
      <3> QED
        BY <2>1, <3>1
    <2>3. CASE Continue(w, j) /\ job[w] # Idle
      <3>1. w \in Busy
        BY <2>3 DEF Busy
      <3> QED
        BY <2>1, <2>3, <3>1 DEF LoneRequests, Continue
    <2>4. CASE Answer(w) /\ j = Idle
      <3>1. u \in Busy /\ v \in Busy /\ u # w
        BY <1>1, <2>4 DEF Busy
      <3> QED
        BY <2>4, <3>1 DEF LoneRequests, Answer
    <2> QED
      BY <2>2, <2>3, <2>4
  <1>4. ASSUME NEW x \in Workers \ overlapped', x # w PROVE Lone(x)'
    <2>1. job'[x] = Idle
      <3>1. CASE Start(w, j)
        BY <1>1, <1>4, <3>1 DEF Start, Busy
      <3>2. CASE Continue(w, j) /\ job[w] # Idle
        BY <1>1, <1>4, <3>2 DEF Continue, Busy, LoneRequests
      <3>3. CASE Answer(w) /\ j = Idle /\ job[w] # Idle
        BY <1>1, <1>4, <3>3 DEF Answer, Busy, LoneRequests
      <3> QED
        BY <3>1, <3>2, <3>3
    <2> QED
      BY <2>1 DEF Lone, Idle, EntryStages
  <1> QED
    BY <1>3, <1>4 DEF LoneRequests

\* Only logins from here know of the tables.
LEMMA LoneElsewhere ==
  ASSUME NEW w, job[w].at \notin EntryStages \cup {"delete"} \/ job[w].kind = "switch",
         job[w].at # "delete"
  PROVE  Lone(w)
  BY DEF Lone, LoginKinds

\* A request that comes in knows of no table, or meets another.
LEMMA LoneArrive ==
  ASSUME AccountsInv, LoneRequests, NEW w \in Workers, AccountsArrive(w)
  PROVE  LoneRequests'
  <1>1. UNCHANGED <<accounts, users, tokens>>
    BY DEF AccountsArrive, FindAccount, SwitchRole, SelectProfile,
       ReadToDelete, ReadToModerate, ReadToken
  <1>3. ASSUME NEW j, Start(w, j), Lone(w)' PROVE LoneRequests'
    BY <1>3, LoneMove
  <1>4. ASSUME NEW n \in Numbers, NEW r \in ROLES, NEW kind \in LoginKinds,
               FindAccount(w, n, r, kind)
        PROVE  LoneRequests'
    <2> DEFINE entry == [at |-> "findLegacy", kind |-> kind, number |-> n, role |-> r,
                         account |-> None, legacy |-> None]
    <2>1. CASE Start(w, entry) /\ \A a \in AccountIds : accounts[a] # n
      <3>1. job'[w] = entry
        BY <2>1 DEF Start, Begin, AccountsInv
      <3>2. Lone(w)'
        BY <1>1, <2>1, <3>1 DEF Lone, LoneLogin
      <3> QED
        BY <1>3, <2>1, <3>2
    <2>2. ASSUME NEW b \in AccountIds, accounts[b] = n,
                 Start(w, [entry EXCEPT !.at = "findUser", !.account = b])
          PROVE  LoneRequests'
      <3>1. PICK j : j = [entry EXCEPT !.at = "findUser", !.account = b]
        OBVIOUS
      <3>2. j.at = "findUser" /\ j.account = b /\ j.number = n
        BY <3>1
      <3>3. job'[w] = j
        BY <2>2, <3>1 DEF Start, Begin, AccountsInv
      <3>4. Lone(w)'
        BY <1>1, <2>2, <3>2, <3>3 DEF Lone, LoneLogin
      <3> QED
        BY <1>3, <2>2, <3>1, <3>4
    <2> QED
      BY <1>4, <2>1, <2>2 DEF FindAccount
  <1>5. ASSUME NEW u \in UserIds, NEW r \in ROLES, SwitchRole(w, u, r) PROVE LoneRequests'
    <2>1. PICK j : j = [at |-> IF users[u].account = None THEN "upsert" ELSE "findUser",
               kind |-> "switch", number |-> users[u].number, role |-> r,
               account |-> users[u].account,
               legacy |-> IF users[u].account = None THEN u ELSE None]
      OBVIOUS
    <2>2. Start(w, j) /\ job'[w] = j
      BY <1>5, <2>1 DEF SwitchRole, Start, Begin, AccountsInv
    <2>3. Lone(w)'
      BY <2>1, <2>2 DEF Lone, LoginKinds
    <2> QED
      BY <1>3, <2>2, <2>3
  <1>6. ASSUME NEW u \in UserIds, ReadToDelete(w, u) PROVE LoneRequests'
    <2>1. PICK j : j = [at |-> "delete", account |-> users[u].account,
                        profiles |-> IF users[u].account = None THEN {u}
                                     ELSE OfAccount(users[u].account)]
      OBVIOUS
    <2>2. Start(w, j) /\ job'[w] = j
      BY <1>6, <2>1 DEF ReadToDelete, Start, Begin, AccountsInv
    <2>3. OfAccount(users[u].account)' = OfAccount(users[u].account)
      BY <1>1 DEF OfAccount, Existing
    <2>4. Lone(w)'
      BY <1>1, <2>1, <2>2, <2>3 DEF Lone, EntryStages, OfAccount, Existing
    <2> QED
      BY <1>3, <2>2, <2>4
  <1>7. ASSUME NEW j, Start(w, j), j.at \in {"select", "moderate", "revoke"}
        PROVE  LoneRequests'
    <2>1. job'[w] = j
      BY <1>7 DEF Start, Begin, AccountsInv
    <2>2. Lone(w)'
      BY <1>7, <2>1 DEF Lone, EntryStages
    <2> QED
      BY <1>3, <1>7, <2>2
  <1>8. ASSUME NEW u \in UserIds, SelectProfile(w, u) PROVE LoneRequests'
    BY <1>7, <1>8 DEF SelectProfile
  <1>9. ASSUME NEW u \in UserIds, NEW status \in UserStatus, ReadToModerate(w, u, status)
        PROVE  LoneRequests'
    BY <1>7, <1>9 DEF ReadToModerate
  <1>10. ASSUME NEW t \in TokenIds, ReadToken(w, t) PROVE LoneRequests'
    BY <1>7, <1>10 DEF ReadToken
  <1> QED
    BY <1>4, <1>5, <1>6, <1>8, <1>9, <1>10 DEF AccountsArrive

\* The requests nobody serves by a worker.
LEMMA LoneQuiet ==
  ASSUME AccountsInv, LoneRequests, UNCHANGED <<accounts, job, overlapped>>,
         \A u \in UserIds : /\ users[u] = None <=> users'[u] = None
                            /\ u \in Existing => /\ users'[u].account = users[u].account
                                                 /\ users'[u].role = users[u].role
                                                 /\ Live(u)' <=> Live(u)
  PROVE  LoneRequests'
  <1>1. Existing' = Existing
    BY DEF Existing
  <1>2. ASSUME NEW a PROVE OfAccount(a)' = OfAccount(a)
    <2>1. {u \in Existing : users'[u].account = a} = {u \in Existing : users[u].account = a}
      BY DEF Existing
    <2> QED
      BY <1>1, <2>1 DEF OfAccount
  <1>3. ASSUME NEW w \in Workers PROVE RoleUsers(job[w])' = RoleUsers(job[w])
    <2>1. PICK j : j = job[w]
      OBVIOUS
    <2>2. j = job'[w] /\ OfAccount(j.account)' = OfAccount(j.account)
      BY <1>2, <2>1
    <2>3. {u \in OfAccount(j.account) : Live(u)' /\ users'[u].role = j.role}
            = {u \in OfAccount(j.account) : Live(u) /\ users[u].role = j.role}
      BY DEF OfAccount, Existing
    <2> QED
      BY <2>1, <2>2, <2>3 DEF RoleUsers, OfAccount
  <1>4. ASSUME NEW w \in Workers, Lone(w) PROVE Lone(w)'
    <2>1. PICK j : j = job[w] /\ j = job'[w]
      OBVIOUS
    <2>2. OfAccount(j.account)' = OfAccount(j.account) /\ RoleUsers(j)' = RoleUsers(j)
      BY <1>2, <1>3, <2>1 DEF RoleUsers
    <2> QED
      BY <1>4, <2>1, <2>2 DEF Lone, LoneLogin
  <1> QED
    BY <1>4 DEF LoneRequests, Busy

\* A step of a request alone leaves it knowing the tables.
LEMMA LoneStep ==
  ASSUME AccountsInv, LoneRequests, NEW w \in Workers, AccountsStep(w)
  PROVE  LoneRequests'
  <1>1. job[w] \in AccountsJob /\ Remembers(job[w]) /\ AccountsInv'
    BY AccountsKept DEF AccountsNext, AccountsInv
  <1>2. job[w] # Idle
    <2>1. Idle.at = "idle"
      BY DEF Idle
    <2>2. FindLegacy(w) \/ UpsertAccount(w) \/ AttachLegacy(w) => job[w].at # "idle"
      BY DEF FindLegacy, UpsertAccount, AttachLegacy
    <2>3. FindRoleUser(w) \/ CreateRoleUser(w) \/ RefetchWinner(w) => job[w].at # "idle"
      BY DEF FindRoleUser, CreateRoleUser, RefetchWinner
    <2>4. ReadTarget(w) \/ issueTokens(w) \/ RevokeOld(w) => job[w].at # "idle"
      BY DEF ReadTarget, issueTokens, RevokeOld
    <2>5. CommitDeletion(w) => job[w].at # "idle"
      BY DEF CommitDeletion
    <2>6. WriteModeration(w) => job[w].at # "idle"
      BY DEF WriteModeration
    <2> QED
      BY <2>1, <2>2, <2>3, <2>4, <2>5, <2>6 DEF AccountsStep
  <1>3. CASE Answer(w)
    <2>1. job'[w] = Idle
      BY <1>3 DEF Answer, Finish, AccountsInv
    <2>2. Lone(w)'
      BY <2>1 DEF Lone, Idle, EntryStages
    <2> QED
      BY <1>2, <1>3, <2>2, LoneMove
  <1>4. ASSUME NEW u, Continue(w, Issue(u)) PROVE LoneRequests'
    <2>1. job'[w] = Issue(u)
      BY <1>4 DEF Continue, GoTo, AccountsInv
    <2>2. Lone(w)'
      BY <2>1 DEF Lone, Issue, EntryStages
    <2> QED
      BY <1>2, <1>4, <2>2, LoneMove
  <1>5. ASSUME NEW j \in Entry, Continue(w, j), job[w] \in Entry,
               j.kind = job[w].kind, j.number = job[w].number, j.role = job[w].role,
               LoneLogin(w) /\ job[w].at \in EntryStages => LoneLogin(w)'
        PROVE  LoneRequests'
    <2>1. job'[w] = j
      BY <1>5 DEF Continue, GoTo, AccountsInv
    <2>2. ASSUME w \notin overlapped' PROVE Lone(w)'
      <3>1. Lone(w)
        BY <1>5, <2>2 DEF Continue, LoneRequests
      <3> QED
        BY <1>5, <2>1, <3>1 DEF Lone, Entry, EntryStages
    <2> QED
      BY <1>2, <1>5, <2>2, LoneMove
  <1>6. CASE FindLegacy(w) /\ ~Answer(w)
    <2>1. job[w] \in Entry /\ job[w].at = "findLegacy"
      BY <1>1, <1>6, AccountsFields DEF FindLegacy, EntryStages
    <2>2. PICK u \in UserIds \cup {None} :
            Continue(w, [job[w] EXCEPT !.at = "upsert", !.legacy = u])
      <3>1. [job[w] EXCEPT !.at = "upsert"]
              = [job[w] EXCEPT !.at = "upsert", !.legacy = job[w].legacy]
        BY <2>1 DEF Entry
      <3>2. job[w].legacy \in UserIds \cup {None}
        BY <2>1 DEF Entry
      <3> QED
        BY <1>6, <3>1, <3>2 DEF FindLegacy, Existing
    <2>3. PICK j : j = [job[w] EXCEPT !.at = "upsert", !.legacy = u]
      OBVIOUS
    <2>4. /\ j \in Entry /\ j.at = "upsert" /\ j.kind = job[w].kind
          /\ j.number = job[w].number /\ j.role = job[w].role
      BY <2>1, <2>3 DEF Entry, EntryStages
    <2>5. job'[w] = j /\ accounts' = accounts
      BY <1>6, <2>2, <2>3 DEF FindLegacy, Continue, GoTo, AccountsInv
    <2>6. LoneLogin(w) => LoneLogin(w)'
      BY <2>1, <2>4, <2>5 DEF LoneLogin
    <2> QED
      BY <1>5, <2>1, <2>2, <2>3, <2>4, <2>6
  <1>7. CASE UpsertAccount(w)
    <2>1. job[w] \in Entry /\ job[w].at = "upsert"
      BY <1>1, <1>7, AccountsFields DEF UpsertAccount, EntryStages
    <2>2. PICK a \in AccountIds :
          /\ accounts[a] = job[w].number \/ accounts[a] = None
          /\ accounts' = [accounts EXCEPT ![a] = job[w].number]
          /\ Continue(w, [job[w] EXCEPT
               !.at = IF job[w].legacy = None THEN "findUser" ELSE "attach",
               !.account = a])
      BY <1>7 DEF UpsertAccount
    <2>3. PICK j : j = [job[w] EXCEPT
               !.at = IF job[w].legacy = None THEN "findUser" ELSE "attach",
               !.account = a]
      OBVIOUS
    <2>4. /\ j \in Entry /\ j.at \in {"findUser", "attach"} /\ j.kind = job[w].kind
          /\ j.number = job[w].number /\ j.role = job[w].role /\ j.account = a
      BY <2>1, <2>3 DEF Entry, EntryStages
    <2>5. job'[w] = j /\ users' = users /\ accounts'[a] = j.number
      BY <1>7, <2>2, <2>3, <2>4 DEF UpsertAccount, Continue, GoTo, AccountsInv, AccountsRows
    <2>6. ASSUME LoneLogin(w) PROVE LoneLogin(w)'
      <3>1. accounts[a] = None
        BY <2>1, <2>2, <2>6 DEF LoneLogin
      <3>2. OfAccount(a) = {}
        BY <3>1, AccountsNames DEF OfAccount, AccountsInv, AccountsRows, RowsFit
      <3>3. OfAccount(a)' = {}
        BY <2>5, <3>2 DEF OfAccount, Existing
      <3> QED
        BY <2>4, <2>5, <3>3 DEF LoneLogin
    <2> QED
      BY <1>5, <2>1, <2>2, <2>3, <2>4, <2>6
  <1>8. CASE AttachLegacy(w) /\ ~Answer(w)
    <2>1. job[w] \in Entry /\ job[w].at = "attach"
      BY <1>1, <1>8, AccountsFields DEF AttachLegacy, EntryStages
    <2>2. Continue(w, [job[w] EXCEPT !.at = "findUser", !.legacy = None])
      BY <1>8 DEF AttachLegacy
    <2>3. PICK j : j = [job[w] EXCEPT !.at = "findUser", !.legacy = None]
      OBVIOUS
    <2>4. /\ j \in Entry /\ j.at = "findUser" /\ j.kind = job[w].kind
          /\ j.number = job[w].number /\ j.role = job[w].role
          /\ j.account = job[w].account
      BY <2>1, <2>3 DEF Entry, EntryStages
    <2>5. job'[w] = j /\ accounts' = accounts
      BY <1>8, <2>2, <2>3 DEF AttachLegacy, Continue, GoTo, AccountsInv
    <2>6. LoneLogin(w) => LoneLogin(w)'
      BY <2>1, <2>4, <2>5 DEF LoneLogin
    <2> QED
      BY <1>5, <2>1, <2>2, <2>3, <2>4, <2>6
  <1>9. CASE FindRoleUser(w) /\ ~Answer(w) /\ RoleUsers(job[w]) = {}
    <2>1. job[w] \in Entry /\ job[w].at = "findUser"
      BY <1>1, <1>9, AccountsFields DEF FindRoleUser, EntryStages
    <2>2. Continue(w, [job[w] EXCEPT !.at = "create"])
      BY <1>9 DEF FindRoleUser
    <2>3. PICK j : j = [job[w] EXCEPT !.at = "create"]
      OBVIOUS
    <2>4. /\ j \in Entry /\ j.at = "create" /\ j.kind = job[w].kind
          /\ j.number = job[w].number /\ j.role = job[w].role
          /\ j.account = job[w].account
      BY <2>1, <2>3 DEF Entry, EntryStages
    <2>5. job'[w] = j /\ UNCHANGED <<accounts, users>>
      BY <1>9, <2>2, <2>3 DEF FindRoleUser, Continue, GoTo, AccountsInv
    <2>6. RoleUsers(j)' = {}
      BY <1>9, <2>4, <2>5 DEF RoleUsers, OfAccount, Existing, Live
    <2>7. LoneLogin(w) => LoneLogin(w)'
      BY <2>1, <2>4, <2>5, <2>6 DEF LoneLogin, RoleUsers
    <2> QED
      BY <1>5, <2>1, <2>2, <2>3, <2>4, <2>7
  <1>10. CASE CreateRoleUser(w) /\ ~\E u : Continue(w, Issue(u))
    <2>1. job[w] \in Entry /\ job[w].at = "create"
      BY <1>1, <1>10, AccountsFields DEF CreateRoleUser, EntryStages
    <2>2. PICK u \in UserIds : ~IndexAllows(u, job[w].account, job[w].role, "ACTIVE")
      BY <1>10 DEF CreateRoleUser
    <2>3. RoleUsers(job[w]) # {}
      BY <2>2 DEF IndexAllows, RoleUsers, OfAccount, Existing, Live
    <2>4. Continue(w, [job[w] EXCEPT !.at = "refetch"])
      BY <1>10 DEF CreateRoleUser
    <2>5. PICK j : j = [job[w] EXCEPT !.at = "refetch"]
      OBVIOUS
    <2>6. /\ j \in Entry /\ j.kind = job[w].kind /\ j.number = job[w].number
          /\ j.role = job[w].role
      BY <2>1, <2>5 DEF Entry, EntryStages
    <2>7. ~LoneLogin(w)
      BY <2>1, <2>3 DEF LoneLogin
    <2> QED
      BY <1>5, <2>1, <2>4, <2>5, <2>6, <2>7
  <1> QED
    BY <1>3, <1>4, <1>6, <1>7, <1>8, <1>9, <1>10
       DEF AccountsStep, FindRoleUser, RefetchWinner, UseRoleUser, ReadTarget, issueTokens,
           RevokeOld, CommitDeletion, WriteModeration, CreateRoleUser

\* No step breaks LoneRequests.
LEMMA LoneKept ==
  ASSUME AccountsInv, LoneRequests, [AccountsNext]_accountsVars
  PROVE  LoneRequests'
  <1>1. ASSUME UNCHANGED <<accounts, users, job, overlapped>> PROVE LoneRequests'
    BY <1>1, LoneQuiet DEF Live
  <1>2. ASSUME NEW us \in SUBSET UserIds, bulkSuspendUsers(us) PROVE LoneRequests'
    <2>1. ASSUME NEW u \in UserIds
          PROVE  /\ users[u] = None <=> users'[u] = None
                 /\ u \in Existing => /\ users'[u].account = users[u].account
                                      /\ users'[u].role = users[u].role
                                      /\ Live(u)' <=> Live(u)
      <3>1. CASE u \in us /\ Authenticated(u)
        <4>1. users[u] \in User /\ Live(u)
          BY <3>1 DEF Authenticated, AccountsInv, AccountsRows, Live
        <4>2. users'[u] = [users[u] EXCEPT !.status = "SUSPENDED"]
          BY <1>2, <3>1 DEF bulkSuspendUsers
        <4>3. /\ users'[u] \in User /\ users'[u].account = users[u].account
              /\ users'[u].role = users[u].role /\ users'[u].status = "SUSPENDED"
          BY <4>1, <4>2 DEF User, UserStatus
        <4> QED
          BY <4>1, <4>3, AccountsNames DEF Live, Existing
      <3>2. CASE ~(u \in us /\ Authenticated(u))
        BY <1>2, <3>2 DEF bulkSuspendUsers, Live
      <3> QED
        BY <3>1, <3>2
    <2> QED
      BY <1>2, <2>1, LoneQuiet DEF bulkSuspendUsers
  <1> QED
    BY <1>1, <1>2, LoneArrive, LoneStep
       DEF AccountsNext, accountsVars, logout, pruneExpiredRefreshToken

\* Nobody is there at first.
LEMMA LoneStarted == job = NoJobs /\ overlapped = {} => LoneRequests
  BY DEF LoneRequests, NoJobs, Busy, Lone, Idle, EntryStages

\* A deletion that met nobody closes the account.
LEMMA DeletionClosed ==
  ASSUME AccountsInv, LoneRequests, AccountsNext, NEW a \in AccountIds,
         accounts'[a] = a, accounts[a] # a, overlapped = {}
  PROVE  Closed(a)'
  <1>1. PICK w \in Workers : CommitDeletion(w) \/ UpsertAccount(w)
    BY DEF AccountsNext, AccountsArrive, AccountsStep, FindAccount, SwitchRole, SelectProfile,
       ReadToDelete, ReadToModerate, ReadToken, FindLegacy, AttachLegacy, FindRoleUser,
       CreateRoleUser, RefetchWinner, ReadTarget, issueTokens, RevokeOld, WriteModeration,
       logout, pruneExpiredRefreshToken, bulkSuspendUsers
  <1>2. CASE UpsertAccount(w)
    <2>1. job[w].number \in Numbers \cup UserIds
      BY <1>2, AccountsFields DEF UpsertAccount, AccountsInv, EntryStages, Entry
    <2>2. accounts'[a] \in {accounts[a], job[w].number}
      BY <1>2 DEF UpsertAccount, AccountsInv, AccountsRows
    <2> QED
      BY <2>1, <2>2, AccountsNames
  <1>3. CASE CommitDeletion(w)
    <2> DEFINE S == job[w].profiles
    <2>1. job[w].account = a
      BY <1>3 DEF CommitDeletion
    <2>2. S = OfAccount(a)
      BY <1>3, <2>1, AccountsNames DEF CommitDeletion, LoneRequests, Lone
    <2>3. /\ \A u \in UserIds : users'[u] =
               IF u \in S THEN [users[u] EXCEPT !.status = "DELETED", !.number = u]
               ELSE users[u]
          /\ \A t \in TokenIds : tokens'[t] =
               IF tokens[t] # None /\ tokens[t].user \in S
               THEN [tokens[t] EXCEPT !.live = FALSE] ELSE tokens[t]
      BY <1>3 DEF CommitDeletion
    <2> HIDE DEF S
    <2>4. ASSUME NEW u \in S
          PROVE  /\ users'[u].account = users[u].account
                 /\ users'[u].status = "DELETED" /\ users'[u].number = u
      <3>1. u \in UserIds /\ users[u] \in User
        BY <2>2 DEF OfAccount, Existing, AccountsInv, AccountsRows
      <3> QED
        BY <2>3, <3>1 DEF User
    <2>5. \A u \in UserIds : u \in OfAccount(a)' => u \in S
      BY <2>2, <2>3, <2>4 DEF OfAccount, Existing
    <2>6. \A u \in OfAccount(a)' : users'[u].status = "DELETED" /\ users'[u].number = u
      BY <2>4, <2>5 DEF OfAccount, Existing
    <2>7. ASSUME NEW t \in TokenIds, tokens'[t] # None, tokens'[t].live
          PROVE  users'[tokens'[t].user].account # a
      <3>1. tokens[t] \in RefreshToken \cup {None}
        BY DEF AccountsInv, AccountsRows
      <3>2. tokens'[t] = tokens[t] /\ tokens[t].user \in Existing \ S
        BY <2>3, <2>7, <3>1 DEF RefreshToken, AccountsInv, AccountsRows, RowsFit
      <3>3. users'[tokens[t].user] = users[tokens[t].user]
        BY <2>3, <3>2 DEF Existing
      <3> QED
        BY <2>2, <3>2, <3>3 DEF OfAccount
    <2> QED
      BY <2>6, <2>7 DEF Closed
  <1> QED
    BY <1>1, <1>2, <1>3

\* A deletion that met no other request closes the account.
THEOREM DeletionClosesAccount == AccountsSpec => DeletionCloses
  <1>1. AccountsInv /\ LoneRequests /\ [AccountsNext]_accountsVars
        => [\A a \in AccountIds :
              accounts'[a] = a /\ accounts[a] # a /\ overlapped = {}
              => Closed(a)']_accountsVars
    BY DeletionClosed
  <1>2. AccountsInit => AccountsInv /\ LoneRequests
    BY AccountsStarted, LoneStarted
  <1> QED
    BY <1>1, <1>2, AccountsKept, LoneKept, PTL DEF AccountsSpec, DeletionCloses

\* Only an admin changes the status of who is deleted.
LEMMA DeletedStays ==
  ASSUME AccountsInv, AccountsNext, NEW u \in UserIds, Final(u)
  PROVE  users'[u] # None /\ users'[u].status = "DELETED"
  <1>1. users[u] \in User /\ users[u].status = "DELETED" /\ users'[u] # None
    BY AccountsKept DEF Final, AccountsInv, AccountsRows, RowsStay
  <1>2. ASSUME NEW w \in Workers, AccountsArrive(w) PROVE users' = users
    BY <1>2 DEF AccountsArrive, FindAccount, SwitchRole, SelectProfile, ReadToDelete,
                ReadToModerate, ReadToken
  <1>3. ASSUME NEW w \in Workers, AccountsStep(w), users' # users
        PROVE  users'[u].status = "DELETED"
    <2>1. CASE AttachLegacy(w)
      <3>1. users'[u] = users[u] \/ users'[u] = [users[u] EXCEPT !.account = job[w].account]
        BY <1>3, <2>1 DEF AttachLegacy, AccountsInv, AccountsRows
      <3> QED
        BY <1>1, <3>1 DEF User
    <2>2. CASE CreateRoleUser(w)
      BY <1>1, <1>3, <2>2 DEF CreateRoleUser, Existing, AccountsInv, AccountsRows, Final
    <2>3. CASE CommitDeletion(w)
      BY <1>1, <2>3 DEF CommitDeletion, User
    <2>4. CASE WriteModeration(w)
      BY <1>1, <1>3, <2>4 DEF WriteModeration, Final, AccountsInv, AccountsRows
    <2> QED
      BY <1>3, <2>1, <2>2, <2>3, <2>4
         DEF AccountsStep, FindLegacy, UpsertAccount, FindRoleUser, RefetchWinner, ReadTarget,
             issueTokens, RevokeOld
  <1>4. ASSUME NEW us \in SUBSET UserIds, bulkSuspendUsers(us)
        PROVE  users'[u].status = "DELETED"
    BY <1>1, <1>4 DEF bulkSuspendUsers, Authenticated
  <1> QED
    BY <1>1, <1>2, <1>3, <1>4 DEF AccountsNext, logout, pruneExpiredRefreshToken

\* Where a request to moderate comes from.
LEMMA ModeratesWhom ==
  ASSUME AccountsInv, AccountsNext, NEW x \in Workers, job'[x].at = "moderate"
  PROVE  \/ job'[x] = job[x]
         \/ \E u \in UserIds : job'[x].user = u /\ users[u].status # "DELETED"
  <1>1. ASSUME NEW w \in Workers, NEW j, job' = [job EXCEPT ![w] = j], j.at # "moderate"
        PROVE  job'[x] = job[x]
    BY <1>1 DEF AccountsInv
  <1>2. ASSUME NEW w \in Workers, Answer(w) PROVE job'[x] = job[x]
    BY <1>1, <1>2 DEF Answer, Finish, Idle
  <1>3. ASSUME NEW w \in Workers, NEW u, Continue(w, Issue(u)) PROVE job'[x] = job[x]
    BY <1>1, <1>3 DEF Continue, GoTo, Issue
  <1>4. ASSUME NEW w \in Workers, NEW j, Start(w, j), j.at # "moderate" PROVE job'[x] = job[x]
    BY <1>1, <1>4 DEF Start, Begin
  <1>5. ASSUME NEW w \in Workers, AccountsArrive(w)
        PROVE  \/ job'[x] = job[x]
               \/ \E u \in UserIds : job'[x].user = u /\ users[u].status # "DELETED"
    <2>1. ASSUME NEW n \in Numbers, NEW r \in ROLES, NEW kind \in LoginKinds,
                 FindAccount(w, n, r, kind)
          PROVE  job'[x] = job[x]
      BY <1>4, <2>1 DEF FindAccount
    <2>2. ASSUME NEW u \in UserIds, NEW r \in ROLES, SwitchRole(w, u, r)
          PROVE  job'[x] = job[x]
      <3>1. PICK j : /\ Start(w, j)
                     /\ j.at = IF users[u].account = None THEN "upsert" ELSE "findUser"
        BY <2>2 DEF SwitchRole
      <3> QED
        BY <1>4, <3>1
    <2>3. ASSUME NEW u \in UserIds, SelectProfile(w, u) \/ ReadToDelete(w, u)
          PROVE  job'[x] = job[x]
      BY <1>4, <2>3 DEF SelectProfile, ReadToDelete
    <2>4. ASSUME NEW t \in TokenIds, ReadToken(w, t) PROVE job'[x] = job[x]
      BY <1>4, <2>4 DEF ReadToken
    <2>5. ASSUME NEW u \in UserIds, NEW status \in UserStatus, ReadToModerate(w, u, status)
          PROVE  job'[x] = job[x] \/ (job'[x].user = u /\ users[u].status # "DELETED")
      BY <2>5 DEF ReadToModerate, Moderable, Start, Begin, AccountsInv
    <2> QED
      BY <1>5, <2>1, <2>2, <2>3, <2>4, <2>5 DEF AccountsArrive
  <1>6. ASSUME NEW w \in Workers, AccountsStep(w) PROVE job'[x] = job[x]
    <2>1. CASE FindLegacy(w) \/ UpsertAccount(w) \/ AttachLegacy(w) \/ FindRoleUser(w)
               \/ CreateRoleUser(w)
      <3>1. job[w] \in Entry
        BY <2>1, AccountsFields DEF FindLegacy, UpsertAccount, AttachLegacy, FindRoleUser,
           CreateRoleUser, AccountsInv, EntryStages
      <3>2. ASSUME NEW at, at # "moderate",
                   NEW j, Continue(w, j), j.at = at
            PROVE  job'[x] = job[x]
        BY <1>1, <3>2 DEF Continue, GoTo
      <3>3. CASE FindLegacy(w)
        <4>1. \/ Answer(w)
              \/ Continue(w, [job[w] EXCEPT !.at = "upsert"])
              \/ \E u : Continue(w, [job[w] EXCEPT !.at = "upsert", !.legacy = u])
          BY <3>3 DEF FindLegacy
        <4>2. /\ [job[w] EXCEPT !.at = "upsert"].at = "upsert"
              /\ \A u : [job[w] EXCEPT !.at = "upsert", !.legacy = u].at = "upsert"
          BY <3>1 DEF Entry
        <4> QED
          BY <1>2, <3>2, <4>1, <4>2
      <3>4. CASE UpsertAccount(w)
        <4>1. \A a, at : [job[w] EXCEPT !.at = at, !.account = a].at = at
          BY <3>1 DEF Entry
        <4> QED
          BY <3>2, <3>4, <4>1 DEF UpsertAccount
      <3>5. CASE AttachLegacy(w)
        <4>1. [job[w] EXCEPT !.at = "findUser", !.legacy = None].at = "findUser"
          BY <3>1 DEF Entry
        <4> QED
          BY <1>2, <3>2, <3>5, <4>1 DEF AttachLegacy
      <3>6. CASE FindRoleUser(w) \/ CreateRoleUser(w)
        <4>1. \A at : [job[w] EXCEPT !.at = at].at = at
          BY <3>1 DEF Entry
        <4> QED
          BY <1>2, <1>3, <3>2, <3>6, <4>1 DEF FindRoleUser, CreateRoleUser, UseRoleUser
      <3> QED
        BY <2>1, <3>3, <3>4, <3>5, <3>6
    <2>2. CASE RefetchWinner(w) \/ ReadTarget(w) \/ issueTokens(w) \/ RevokeOld(w)
               \/ CommitDeletion(w) \/ WriteModeration(w)
      BY <1>2, <1>3, <2>2 DEF RefetchWinner, UseRoleUser, ReadTarget, issueTokens, RevokeOld,
         CommitDeletion, WriteModeration
    <2> QED
      BY <1>6, <2>1, <2>2 DEF AccountsStep
  <1> QED
    BY <1>5, <1>6 DEF AccountsNext, logout, pruneExpiredRefreshToken, bulkSuspendUsers

\* No step takes somebody back who is deleted for good.
LEMMA FinalKept ==
  ASSUME AccountsInv, AccountsNext, NEW u \in UserIds, Final(u)
  PROVE  Final(u)'
  <1>1. users'[u] # None /\ users'[u].status = "DELETED"
    BY DeletedStays
  <1>2. ASSUME NEW w \in Workers, job'[w].at = "moderate" PROVE job'[w].user # u
    BY <1>2, ModeratesWhom DEF Final
  <1> QED
    BY <1>1, <1>2 DEF Final

\* Who is deleted while no admin decides on them stays so.
THEOREM DeletedStayDeleted == AccountsSpec => DeletionIsFinal
  <1>1. AccountsInv /\ [AccountsNext]_accountsVars
        => [\A u \in UserIds : Final(u) => Final(u)']_accountsVars
    BY FinalKept
  <1> QED
    BY <1>1, AccountsStarted, AccountsKept, PTL DEF AccountsSpec, DeletionIsFinal

\* A login that met no other request ends as LoginAloneSucceeds wants it.
LEMMA LoginEnds ==
  ASSUME AccountsInv, LoneRequests, AccountsNext, NEW w \in Workers,
         job[w].at \in EntryStages, job[w].kind \in LoginKinds,
         job'[w].at \notin EntryStages, w \notin overlapped
  PROVE  \/ \E u \in UserIds : /\ job'[w] = Issue(u)
                               /\ users'[u].status = "ACTIVE"
                               /\ accounts'[users'[u].account] = job[w].number
         \/ \E u \in Existing : /\ users[u].status = "SUSPENDED"
                                /\ \/ users[u].number = job[w].number
                                   \/ u \in OfAccount(job[w].account)
  <1>1. job[w] \in Entry /\ Remembers(job[w]) /\ job[w].at # "idle"
    BY AccountsFields DEF AccountsInv, EntryStages
  <1>2. LoneLogin(w)
    BY DEF LoneRequests, Lone
  <1>3. job'[w] # job[w]
    OBVIOUS
  <1>4. AccountsStep(w)
    <2>1. ASSUME NEW v \in Workers, AccountsArrive(v) PROVE FALSE
      <3>1. PICK j : job[v] = Idle /\ job' = [job EXCEPT ![v] = j]
        BY <2>1 DEF AccountsArrive, FindAccount, SwitchRole, SelectProfile, ReadToDelete,
           ReadToModerate, ReadToken, Start, Begin
      <3>2. v # w
        BY <1>1, <3>1 DEF Idle
      <3> QED
        BY <1>3, <3>1, <3>2 DEF AccountsInv
    <2>2. ASSUME NEW v \in Workers, AccountsStep(v) PROVE v = w
      <3>1. PICK j : job' = [job EXCEPT ![v] = j]
        <4>1. FindLegacy(v) \/ UpsertAccount(v) \/ AttachLegacy(v)
              => \E j : job' = [job EXCEPT ![v] = j]
          BY DEF FindLegacy, UpsertAccount, AttachLegacy, Continue, GoTo, Answer, Finish
        <4>2. FindRoleUser(v) \/ CreateRoleUser(v) \/ RefetchWinner(v) \/ ReadTarget(v)
              => \E j : job' = [job EXCEPT ![v] = j]
          BY DEF FindRoleUser, CreateRoleUser, RefetchWinner, UseRoleUser, ReadTarget,
             Continue, GoTo, Answer, Finish
        <4>3. issueTokens(v) \/ RevokeOld(v) \/ CommitDeletion(v) \/ WriteModeration(v)
              => \E j : job' = [job EXCEPT ![v] = j]
          BY DEF issueTokens, RevokeOld, CommitDeletion, WriteModeration,
             Continue, GoTo, Answer, Finish
        <4> QED
          BY <2>2, <4>1, <4>2, <4>3 DEF AccountsStep
      <3> QED
        BY <1>3, <3>1 DEF AccountsInv
    <2> QED
      BY <1>3, <2>1, <2>2 DEF AccountsNext, logout, pruneExpiredRefreshToken, bulkSuspendUsers
  <1>5. ASSUME NEW j, Continue(w, j) PROVE job'[w] = j
    BY <1>5 DEF Continue, GoTo, AccountsInv
  <1>6. CASE FindLegacy(w)
    <2>1. Answer(w)
      <3>1. /\ [job[w] EXCEPT !.at = "upsert"].at = "upsert"
            /\ \A u : [job[w] EXCEPT !.at = "upsert", !.legacy = u].at = "upsert"
        BY <1>1 DEF Entry
      <3> QED
        BY <1>5, <1>6, <3>1 DEF FindLegacy, EntryStages
    <2> DEFINE found == {u \in Existing : users[u].account = None
                                          /\ users[u].number = job[w].number}
    <2>2. found # {}
      <3>1. SUFFICES ASSUME found = {} PROVE FALSE
        OBVIOUS
      <3>2. Continue(w, [job[w] EXCEPT !.at = "upsert"])
        BY <1>6, <3>1 DEF FindLegacy
      <3>3. [job[w] EXCEPT !.at = "upsert"].at = "upsert"
        BY <1>1 DEF Entry
      <3> QED
        BY <1>5, <3>2, <3>3 DEF EntryStages
    <2>3. PICK u \in found :
            \/ TurnedAway(job[w].kind, {u})
            \/ Continue(w, [job[w] EXCEPT !.at = "upsert", !.legacy = u])
      BY <1>6, <2>2 DEF FindLegacy
    <2>4. [job[w] EXCEPT !.at = "upsert", !.legacy = u].at = "upsert"
      BY <1>1 DEF Entry
    <2>5. TurnedAway(job[w].kind, {u})
      BY <1>5, <2>3, <2>4 DEF EntryStages
    <2> QED
      BY <2>3, <2>5 DEF TurnedAway
  <1>7. CASE UpsertAccount(w)
    <2>1. PICK at \in {"findUser", "attach"}, a \in AccountIds :
            Continue(w, [job[w] EXCEPT !.at = at, !.account = a])
      BY <1>7 DEF UpsertAccount
    <2>2. [job[w] EXCEPT !.at = at, !.account = a].at = at
      BY <1>1 DEF Entry
    <2> QED
      BY <1>5, <2>1, <2>2 DEF EntryStages
  <1>8. CASE AttachLegacy(w)
    <2>1. [job[w] EXCEPT !.at = "findUser", !.legacy = None].at = "findUser"
      BY <1>1 DEF Entry
    <2>2. ~IndexAllows(job[w].legacy, job[w].account, users[job[w].legacy].role,
                       users[job[w].legacy].status)
      BY <1>5, <1>8, <2>1 DEF AttachLegacy, EntryStages
    <2>3. OfAccount(job[w].account) = {}
      BY <1>2, <1>8 DEF LoneLogin, AttachLegacy
    <2> QED
      BY <2>2, <2>3 DEF IndexAllows, OfAccount, Existing, Live
  <1>9. CASE FindRoleUser(w)
    <2>1. accounts[job[w].account] = job[w].number /\ UNCHANGED <<accounts, users>>
      BY <1>2, <1>9 DEF LoneLogin, FindRoleUser
    <2>2. RoleUsers(job[w]) # {}
      <3>1. [job[w] EXCEPT !.at = "create"].at = "create"
        BY <1>1 DEF Entry
      <3> QED
        BY <1>5, <1>9, <3>1 DEF FindRoleUser, EntryStages
    <2>3. PICK u \in RoleUsers(job[w]) : UseRoleUser(w, u)
      BY <1>9, <2>2 DEF FindRoleUser
    <2>4. /\ u \in UserIds /\ u \in OfAccount(job[w].account) /\ u \in Existing
          /\ users[u].account = job[w].account /\ users[u].status \in {"ACTIVE", "SUSPENDED"}
      <3>1. /\ u \in UserIds /\ u \in OfAccount(job[w].account) /\ u \in Existing
            /\ users[u].account = job[w].account /\ Live(u)
        BY <2>3 DEF RoleUsers, OfAccount, Existing
      <3>2. users[u] \in User
        BY <3>1 DEF Existing, AccountsInv, AccountsRows
      <3> QED
        BY <3>1, <3>2 DEF Live, User, UserStatus
    <2> QED
      BY <1>5, <2>1, <2>3, <2>4 DEF UseRoleUser
  <1>10. CASE CreateRoleUser(w)
    <2>1. /\ accounts[job[w].account] = job[w].number /\ accounts' = accounts
          /\ RoleUsers(job[w]) = {}
      BY <1>2, <1>10 DEF LoneLogin, CreateRoleUser
    <2>2. ASSUME NEW u \in UserIds \ Existing
          PROVE IndexAllows(u, job[w].account, job[w].role, "ACTIVE")
      BY <2>1 DEF IndexAllows, RoleUsers, OfAccount, Existing, Live
    <2>3. PICK u \in UserIds \ Existing :
            /\ users' = [users EXCEPT ![u] =
                           [account |-> job[w].account, number |-> job[w].number,
                            role |-> job[w].role, status |-> "ACTIVE"]]
            /\ Continue(w, Issue(u))
      BY <1>10, <2>2 DEF CreateRoleUser
    <2>4. users'[u] = [account |-> job[w].account, number |-> job[w].number,
                       role |-> job[w].role, status |-> "ACTIVE"]
      BY <2>3 DEF AccountsInv, AccountsRows
    <2> QED
      BY <1>5, <2>1, <2>3, <2>4
  <1>11. CASE RefetchWinner(w)
    BY <1>2, <1>11 DEF LoneLogin, RefetchWinner
  <1> QED
    BY <1>4, <1>6, <1>7, <1>8, <1>9, <1>10, <1>11
       DEF AccountsStep, ReadTarget, issueTokens, RevokeOld, CommitDeletion, WriteModeration,
           EntryStages

\* A login that met no other request ends as an active user in a living
\* account of the number, unless one of that number is suspended.
THEOREM LoneLoginsSucceed == AccountsSpec => LoginAloneSucceeds
  <1> DEFINE Succeeds ==
        \A w \in Workers :
          LET j == job[w]
              left == job'[w].at \notin EntryStages
              suspended == \E u \in Existing :
                             /\ users[u].status = "SUSPENDED"
                             /\ \/ users[u].number = j.number
                                \/ u \in OfAccount(j.account)
              entered == \E u \in UserIds :
                           /\ job'[w] = Issue(u)
                           /\ users'[u].status = "ACTIVE"
                           /\ accounts'[users'[u].account] = j.number
          IN  /\ j.at \in EntryStages /\ j.kind \in LoginKinds /\ left
              /\ w \notin overlapped
              => entered \/ suspended
  <1>1. AccountsInv /\ LoneRequests /\ [AccountsNext]_accountsVars => [Succeeds]_accountsVars
    BY LoginEnds
  <1>2. AccountsInit => AccountsInv /\ LoneRequests
    BY AccountsStarted, LoneStarted
  <1> QED
    BY <1>1, <1>2, AccountsKept, LoneKept, PTL DEF AccountsSpec, LoginAloneSucceeds


=============================================================================
