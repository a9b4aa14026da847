--------------------------- MODULE Collaboration ---------------------------
(***************************************************************************)
(* Collaboration requests and the conversations they unlock                *)
(* (modules/collaborations/collaboration.service.js, the conversation      *)
(* opening of modules/conversations/conversation.service.js, the guard of  *)
(* modules/blocks/block.service.js).                                       *)
(*                                                                         *)
(* Every HTTP request is served by a worker.  A handler is a sequence of   *)
(* database statements separated by awaits; one action below is what a     *)
(* worker does up to and including one statement, so any two requests      *)
(* interleave at every await.  A read that only feeds a check is taken in  *)
(* the same step as the check; what the handler remembers of it across an  *)
(* await is kept in the worker's job.  A rejected request has no effect    *)
(* and is a step back to Idle, or no step when the first read rejects it.  *)
(*                                                                         *)
(* The database is Postgres at READ COMMITTED: a statement is atomic, an   *)
(* UPDATE waits for the transaction that holds the row, and what a         *)
(* $transaction wrote becomes visible when it commits.                     *)
(***************************************************************************)
EXTENDS Integers, FiniteSets, Roles

CONSTANTS
  Users,          \* user rows: one per role of an account
  Role,           \* the role of each user
  PremiumUsers,   \* users with isPremium (not limited by the quota)
  Posts,          \* post rows
  PostOwner,      \* the userId of each post
  Workers,        \* requests being served at once
  CollabIds,      \* ids of collaboration rows: the bound on the table
  Quota,          \* FREE_COLLAB_REQUESTS_PER_MONTH
  Months,         \* calendar months 1..Months: the bound on the clock
  MayBlock,       \* the pairs <<u, v>> for which u may block v
  None            \* null

VARIABLES
  rows,        \* table Collaboration: a row per id, or None
  convs,       \* table Conversation: per pair, its collaborationId, or None
  blocks,      \* table Block: the pairs <<blocker, blocked>>
  openPosts,   \* posts that are active and neither COMPLETED nor CLOSED
  month,       \* the current calendar month
  job          \* what each worker is doing

vars == <<rows, convs, blocks, openPosts, month, job>>

---------------------------------------------------------------------------
(* Data *)

STATUSES == {"PENDING", "ACCEPTED", "DECLINED", "CANCELLED", "COMPLETED"}

Row == [sender : Users, receiver : Users, post : Posts \cup {None},
        status : STATUSES, month : 1..Months]

\* The unordered pairs of distinct users: the key of a conversation.
Pairs == {{u, v} : u, v \in Users} \ {{u} : u \in Users}

ASSUME ConstantsOK ==
  /\ Role \in [Users -> ROLES]
  /\ PremiumUsers \subseteq Users
  /\ PostOwner \in [Posts -> Users]
  /\ IsFiniteSet(Workers) /\ Workers # {}
  /\ IsFiniteSet(CollabIds)
  /\ Quota \in Nat \ {0}
  /\ Months \in Nat \ {0}
  /\ MayBlock \subseteq Users \X Users
  /\ None \notin Users \cup Posts \cup CollabIds \cup Pairs \cup Row \cup STATUSES

\* Statements of the transaction that accepts a request: the row is locked.
TxStages == {"findConv", "keep", "relink", "insert"}

\* createCollaboration after its assertNotBlocked.
CreateStages == {"quota", "post", "find", "write"}

OpenStages == {"openFind", "openCollab", "openCreate"}

Stages == {"idle", "update"} \cup CreateStages \cup TxStages \cup OpenStages

Job == [at : Stages,
        user : Users \cup {None},      \* the sender of a new request
        other : Users \cup {None},     \* its receiver
        pair : Pairs \cup {None},      \* the pair to open a conversation for
        post : Posts \cup {None},
        row : CollabIds \cup {None},   \* the collaboration it has read
        to : STATUSES \cup {None}]     \* the status it will write

Idle == [at |-> "idle", user |-> None, other |-> None, pair |-> None,
         post |-> None, row |-> None, to |-> None]

orderedPair(u, v) == {u, v}

isBlockedBetween(u, v) == <<u, v>> \in blocks \/ <<v, u>> \in blocks

Used == {i \in CollabIds : rows[i] # None}

Parties(i) == orderedPair(rows[i].sender, rows[i].receiver)

\* The rows for one (sender, receiver, post).
Matching(s, r, p) ==
  {i \in Used : /\ rows[i].sender = s
                /\ rows[i].receiver = r
                /\ rows[i].post = p}

\* The rows the monthly quota counts for user u.
CreatedThisMonth(u) ==
  {i \in Used : rows[i].sender = u /\ rows[i].month = month}

\* Mutant: <= for <.
underQuotaInclusive(u) ==
  u \in PremiumUsers \/ Cardinality(CreatedThisMonth(u)) <= Quota

underQuota(u) ==
  u \in PremiumUsers \/ Cardinality(CreatedThisMonth(u)) < Quota

\* A row that the transaction of some worker has updated and not committed.
Locked(i) == \E w \in Workers : job[w].at \in TxStages /\ job[w].row = i

Creating == {w \in Workers : job[w].at \in CreateStages}

Finish(w) == job' = [job EXCEPT ![w] = Idle]

\* The handler goes on to its next statement if ok, otherwise it throws.
Continue(w, ok, next) ==
  job' = [job EXCEPT ![w] = IF ok THEN [@ EXCEPT !.at = next] ELSE Idle]

Init ==
  /\ rows = [i \in CollabIds |-> None]
  /\ convs = [pr \in Pairs |-> None]
  /\ blocks = {}
  /\ openPosts = Posts
  /\ month = 1
  /\ job = [w \in Workers |-> Idle]

---------------------------------------------------------------------------
(* createCollaboration *)

\* The self check and assertNotBlocked.  The last conjunct is the bound of
\* the model: a worker starts only if the table has an id left for its row.
RequestCollab(w, s, r, p) ==
  /\ job[w] = Idle
  /\ s # r
  /\ ~isBlockedBetween(s, r)
  /\ Cardinality(CollabIds \ Used) > Cardinality(Creating)
  /\ job' = [job EXCEPT ![w] = [Idle EXCEPT !.at = "quota", !.user = s,
                                            !.other = r, !.post = p]]
  /\ UNCHANGED <<rows, convs, blocks, openPosts, month>>

\* getCollabRequestQuota counts the rows created since the 1st.
CheckQuota(w) ==
  /\ job[w].at = "quota"
  /\ Continue(w, underQuota(job[w].user), "post")
  /\ UNCHANGED <<rows, convs, blocks, openPosts, month>>

\* The receiver's role and, if the request names a post, its owner and
\* lifecycle.
CheckPost(w) ==
  /\ job[w].at = "post"
  /\ Continue(w, /\ Role[job[w].other] \in OPPOSITE_FEED_ROLE[Role[job[w].user]]
                 /\ \/ job[w].post = None
                    \/ /\ job[w].post \in openPosts
                       /\ PostOwner[job[w].post] = job[w].other,
              "find")
  /\ UNCHANGED <<rows, convs, blocks, openPosts, month>>

\* Mutant: only a pending request is refused.
FindExistingPending(w) ==
  LET found == Matching(job[w].user, job[w].other, job[w].post)
  IN  /\ job[w].at = "find"
      /\ \/ /\ found = {}
            /\ Continue(w, TRUE, "write")
         \/ \E i \in found :
              job' = [job EXCEPT ![w] =
                        IF rows[i].status = "PENDING" THEN Idle
                        ELSE [Idle EXCEPT !.at = "write", !.row = i]]
      /\ UNCHANGED <<rows, convs, blocks, openPosts, month>>

\* findFirst on (sender, receiver, post): any matching row, or null.
FindExisting(w) ==
  LET found == Matching(job[w].user, job[w].other, job[w].post)
  IN  /\ job[w].at = "find"
      /\ \/ /\ found = {}
            /\ Continue(w, TRUE, "write")
         \/ \E i \in found :
              job' = [job EXCEPT ![w] =
                        IF rows[i].status \in {"PENDING", "ACCEPTED"} THEN Idle
                        ELSE [Idle EXCEPT !.at = "write", !.row = i]]
      /\ UNCHANGED <<rows, convs, blocks, openPosts, month>>

\* No row was found: INSERT.  The unique index (senderId, receiverId, postId)
\* refuses a second row for a post; a null postId equals no other.
InsertRequest(w) ==
  LET j == job[w]
  IN  /\ j.at = "write" /\ j.row = None
      /\ \/ /\ j.post = None \/ Matching(j.user, j.other, j.post) = {}
            /\ \E i \in CollabIds \ Used :
                 rows' = [rows EXCEPT ![i] =
                            [sender |-> j.user, receiver |-> j.other,
                             post |-> j.post, status |-> "PENDING",
                             month |-> month]]
         \/ /\ j.post # None /\ Matching(j.user, j.other, j.post) # {}
            /\ UNCHANGED rows
      /\ Finish(w)
      /\ UNCHANGED <<convs, blocks, openPosts, month>>

\* A row was found closed: UPDATE it to PENDING by id.  Its createdAt stays.
ResendRequest(w) ==
  /\ job[w].at = "write" /\ job[w].row # None
  /\ ~Locked(job[w].row)
  /\ rows' = [rows EXCEPT ![job[w].row].status = "PENDING"]
  /\ Finish(w)
  /\ UNCHANGED <<convs, blocks, openPosts, month>>

---------------------------------------------------------------------------
(* respondToCollaboration and cancelCollaboration: read the row and check  *)
(* it, then, after an await, update it by id whatever it has become.       *)

StartUpdate(w, i, to) ==
  /\ job[w] = Idle
  /\ job' = [job EXCEPT ![w] = [Idle EXCEPT !.at = "update", !.row = i,
                                            !.to = to]]
  /\ UNCHANGED <<rows, convs, blocks, openPosts, month>>

ReadToRespond(w, u, i, to) ==
  /\ to \in {"ACCEPTED", "DECLINED"}
  /\ rows[i].receiver = u
  /\ rows[i].status = "PENDING"
  /\ StartUpdate(w, i, to)

ReadToComplete(w, u, i) ==
  /\ u \in Parties(i)
  /\ rows[i].status = "ACCEPTED"
  /\ Role[u] = "CREATOR"
  /\ StartUpdate(w, i, "COMPLETED")

ReadToCancel(w, u, i) ==
  /\ rows[i].sender = u
  /\ rows[i].status = "PENDING"
  /\ StartUpdate(w, i, "CANCELLED")

\* Mutant: the action is written for the status.
UpdateStatusToAction(w) ==
  /\ job[w].at = "update" /\ job[w].to # "ACCEPTED"
  /\ ~Locked(job[w].row)
  /\ rows' = [rows EXCEPT ![job[w].row].status =
                IF job[w].to = "DECLINED" THEN "DECLINE" ELSE job[w].to]
  /\ Finish(w)
  /\ UNCHANGED <<convs, blocks, openPosts, month>>

\* Mutant: every request of the pair is written.
UpdateStatusOfPair(w) ==
  LET written == {i \in Used : Parties(i) = Parties(job[w].row)}
  IN  /\ job[w].at = "update" /\ job[w].to # "ACCEPTED"
      /\ ~Locked(job[w].row)
      /\ rows' = [i \in CollabIds |->
                    IF i \in written THEN [rows[i] EXCEPT !.status = job[w].to]
                    ELSE rows[i]]
      /\ Finish(w)
      /\ UNCHANGED <<convs, blocks, openPosts, month>>

\* Decline, complete and cancel write one row and are done.
UpdateStatus(w) ==
  /\ job[w].at = "update" /\ job[w].to # "ACCEPTED"
  /\ ~Locked(job[w].row)
  /\ rows' = [rows EXCEPT ![job[w].row].status = job[w].to]
  /\ Finish(w)
  /\ UNCHANGED <<convs, blocks, openPosts, month>>

\* Mutant: no transaction, the status is visible before the conversation is.
BeginAcceptUncommitted(w) ==
  /\ job[w].at = "update" /\ job[w].to = "ACCEPTED"
  /\ ~Locked(job[w].row)
  /\ rows' = [rows EXCEPT ![job[w].row].status = "ACCEPTED"]
  /\ Continue(w, TRUE, "findConv")
  /\ UNCHANGED <<convs, blocks, openPosts, month>>

\* Accept opens a transaction whose first statement updates, and locks, the
\* row.
BeginAccept(w) ==
  /\ job[w].at = "update" /\ job[w].to = "ACCEPTED"
  /\ ~Locked(job[w].row)
  /\ Continue(w, TRUE, "findConv")
  /\ UNCHANGED <<rows, convs, blocks, openPosts, month>>

\* The transaction looks for the pair's conversation ...
FindConversation(w) ==
  LET i == job[w].row
      linked == convs[Parties(i)]
  IN  /\ job[w].at = "findConv"
      /\ Continue(w, TRUE, CASE linked = None -> "insert"
                             [] linked = i    -> "keep"
                             [] OTHER         -> "relink")
      /\ UNCHANGED <<rows, convs, blocks, openPosts, month>>

\* ... links it to this collaboration, creating it if it found none, and
\* commits.
CommitAccept(w) ==
  LET i == job[w].row
  IN  /\ \/ job[w].at \in {"keep", "relink"}
         \/ job[w].at = "insert" /\ convs[Parties(i)] = None
      /\ rows' = [rows EXCEPT ![i].status = "ACCEPTED"]
      /\ convs' = IF job[w].at = "keep" THEN convs
                  ELSE [convs EXCEPT ![Parties(i)] = i]
      /\ Finish(w)
      /\ UNCHANGED <<blocks, openPosts, month>>

\* Mutant: the insert is retried inside the transaction that keeps failing.
RollbackAcceptRetry(w) ==
  /\ job[w].at = "insert" /\ convs[Parties(job[w].row)] # None
  /\ Continue(w, TRUE, "insert")
  /\ UNCHANGED <<rows, convs, blocks, openPosts, month>>

\* The unique index on the pair refuses the insert: the transaction rolls
\* back and the request stays as it was.
RollbackAccept(w) ==
  /\ job[w].at = "insert" /\ convs[Parties(job[w].row)] # None
  /\ Finish(w)
  /\ UNCHANGED <<rows, convs, blocks, openPosts, month>>

---------------------------------------------------------------------------
(* openConversationWith *)

OpenConversation(w, u, v) ==
  /\ job[w] = Idle
  /\ u # v
  /\ ~isBlockedBetween(u, v)
  /\ job' = [job EXCEPT ![w] = [Idle EXCEPT !.at = "openFind",
                                            !.pair = orderedPair(u, v)]]
  /\ UNCHANGED <<rows, convs, blocks, openPosts, month>>

\* An existing conversation is returned as it is.
OpenFind(w) ==
  /\ job[w].at = "openFind"
  /\ Continue(w, convs[job[w].pair] = None, "openCollab")
  /\ UNCHANGED <<rows, convs, blocks, openPosts, month>>

\* Mutant: the status filter is missing.
OpenCollabAnyStatus(w) ==
  LET found == {i \in Used : Parties(i) = job[w].pair}
  IN  /\ job[w].at = "openCollab"
      /\ \/ found = {} /\ Finish(w)
         \/ \E i \in found :
              job' = [job EXCEPT ![w] = [@ EXCEPT !.at = "openCreate", !.row = i]]
      /\ UNCHANGED <<rows, convs, blocks, openPosts, month>>

\* Without one the pair needs an ACCEPTED collaboration, in any direction.
OpenCollab(w) ==
  LET accepted == {i \in Used : /\ rows[i].status = "ACCEPTED"
                                /\ Parties(i) = job[w].pair}
  IN  /\ job[w].at = "openCollab"
      /\ \/ accepted = {} /\ Finish(w)
         \/ \E i \in accepted :
              job' = [job EXCEPT ![w] = [@ EXCEPT !.at = "openCreate", !.row = i]]
      /\ UNCHANGED <<rows, convs, blocks, openPosts, month>>

\* The unique indexes on the pair and on collaborationId may refuse the row.
OpenCreate(w) ==
  LET pair == job[w].pair
      i == job[w].row
  IN  /\ job[w].at = "openCreate"
      /\ IF convs[pair] = None /\ \A pr \in Pairs : convs[pr] # i
         THEN convs' = [convs EXCEPT ![pair] = i]
         ELSE UNCHANGED convs
      /\ Finish(w)
      /\ UNCHANGED <<rows, blocks, openPosts, month>>

---------------------------------------------------------------------------
(* Requests of one effective statement, and the environment *)

\* block and unblock: whatever the handler reads first, the pair's row exists
\* after the one and not after the other.
Block(w, u, v) ==
  /\ job[w] = Idle
  /\ u # v
  /\ blocks' = blocks \cup {<<u, v>>}
  /\ UNCHANGED <<rows, convs, openPosts, month, job>>

Unblock(w, u, v) ==
  /\ job[w] = Idle
  /\ blocks' = blocks \ {<<u, v>>}
  /\ UNCHANGED <<rows, convs, openPosts, month, job>>

\* The owner or a moderator opens the post to requests (OPEN, restore) or
\* closes it to them (COMPLETED, CLOSED, delete).
SetPostStatus(w, p) ==
  /\ job[w] = Idle
  /\ \/ openPosts' = openPosts \cup {p}
     \/ openPosts' = openPosts \ {p}
  /\ UNCHANGED <<rows, convs, blocks, month, job>>

\* The process restarts or the database connection is lost: an uncommitted
\* transaction is rolled back, a statement that ran stays done.
Abort(w) ==
  /\ job[w] # Idle
  /\ Finish(w)
  /\ UNCHANGED <<rows, convs, blocks, openPosts, month>>

NextMonth ==
  /\ month < Months
  /\ month' = month + 1
  /\ UNCHANGED <<rows, convs, blocks, openPosts, job>>

---------------------------------------------------------------------------
\* The next statement of a request being served.
Step(w) ==
  \/ CheckQuota(w) \/ CheckPost(w) \/ FindExisting(w)
  \/ InsertRequest(w) \/ ResendRequest(w)
  \/ UpdateStatus(w)
  \/ BeginAccept(w) \/ FindConversation(w) \/ CommitAccept(w) \/ RollbackAccept(w)
  \/ OpenFind(w) \/ OpenCollab(w) \/ OpenCreate(w)

\* A request that arrives.
Arrive(w) ==
  \/ \E s, r \in Users, p \in Posts \cup {None} : RequestCollab(w, s, r, p)
  \/ \E u \in Users, i \in Used :
       \/ \E to \in STATUSES : ReadToRespond(w, u, i, to)
       \/ ReadToComplete(w, u, i)
       \/ ReadToCancel(w, u, i)
  \/ \E u, v \in Users : OpenConversation(w, u, v)
  \/ \E pr \in MayBlock : Block(w, pr[1], pr[2]) \/ Unblock(w, pr[1], pr[2])
  \/ \E p \in Posts : SetPostStatus(w, p)

Next ==
  \/ \E w \in Workers : Arrive(w) \/ Step(w) \/ Abort(w)
  \/ NextMonth

Spec == Init /\ [][Next]_vars

\* The event loop and the database go on with every request; a worker that
\* waits for a locked row gets it, since Postgres grants row locks in order
\* of arrival: strong fairness of each worker's next statement.
FairSpec == Spec /\ \A w \in Workers : SF_vars(Step(w))

---------------------------------------------------------------------------
(* Properties of any number of concurrent requests *)

TypeOK ==
  /\ rows \in [CollabIds -> Row \cup {None}]
  /\ convs \in [Pairs -> CollabIds \cup {None}]
  /\ blocks \subseteq Users \X Users
  /\ openPosts \subseteq Posts
  /\ month \in 1..Months
  /\ job \in [Workers -> Job]

\* A conversation is linked to a collaboration of exactly its two
\* participants, however accepts, re-sends and conversation openings
\* interleave: the chat lock of sendMessage reads the status of that row.
ConversationMatchesPair ==
  \A pr \in Pairs : convs[pr] # None => /\ rows[convs[pr]] # None
                                        /\ Parties(convs[pr]) = pr

\* Whoever has, or has had and completed, an accepted collaboration has a
\* conversation: the accepting transaction of respondToCollaboration never
\* leaves the one without the other, even if it dies between its statements,
\* loses the race to create the conversation, or a COMPLETE that read an old
\* row writes late.
AcceptedHasConversation ==
  \A i \in Used : rows[i].status \in {"ACCEPTED", "COMPLETED"}
                    => convs[Parties(i)] # None

\* A conversation is never unlinked, and is linked only to a request that the
\* same step accepts.  So openConversationWith never creates one: whenever it
\* reaches its create, the accept it found has already done so.
LinkByAccept ==
  \A pr \in Pairs : convs'[pr] # convs[pr] =>
    /\ convs'[pr] # None
    /\ rows'[convs'[pr]].status = "ACCEPTED"
    /\ \E w \in Workers : job[w].at \in TxStages /\ job[w].row = convs'[pr]

LinkedOnlyByAccept == [][LinkByAccept]_vars

\* The quota is counted before, and the row inserted after, several awaits.
\* A free user's concurrent creates overshoot it by at most the number of
\* requests being served, less one, also when the month turns between the two.
QuotaOvershootBounded ==
  \A u \in Users \ PremiumUsers :
    Cardinality(CreatedThisMonth(u)) <= Quota + Cardinality(Workers) - 1

\* Every request is answered: no cycle of row locks, no wait without end.
RequestsFinish == \A w \in Workers : job[w] # Idle ~> job[w] = Idle

---------------------------------------------------------------------------
(* What the code's comments say, which concurrent requests refute *)

\* "Prevent duplicate PENDING requests for the same (sender, receiver, post)"
NoDuplicatePending ==
  \A i, k \in Used : /\ rows[i].status = "PENDING" /\ rows[k].status = "PENDING"
                     /\ rows[i].sender = rows[k].sender
                     /\ rows[i].receiver = rows[k].receiver
                     /\ rows[i].post = rows[k].post
                     => i = k

\* "Only pending requests can be cancelled": an accepted one never is.
AcceptedNotCancelled ==
  [][\A i \in Used : rows[i].status = "ACCEPTED"
                       => rows'[i].status # "CANCELLED"]_vars

=============================================================================
