------------------------ MODULE CollaborationProofs ------------------------
(***************************************************************************)
(* Proofs about Collaboration, for any number of users, posts, workers and *)
(* rows.                                                                   *)
(***************************************************************************)
EXTENDS CollaborationSerial, CollaborationContact, FiniteSetTheorems, TLAPS

(***************************************************************************)
(* What a worker remembers between two statements is still about existing  *)
(* rows and real users: rows are never removed and never change parties.   *)
(***************************************************************************)
JobOK ==
  \A w \in Workers :
    LET j == job[w]
    IN  /\ j.at \in CreateStages /\ j.row = None =>
             j.user \in Users /\ j.other \in Users /\ j.user # j.other
        /\ j.at \in TxStages \cup {"update", "openCreate"} => j.row # None
        /\ j.at = "update" => j.to # None
        /\ j.row # None => rows[j.row] # None
        /\ j.at \in OpenStages => j.pair # None

RowsOK == \A i \in Used : rows[i].sender # rows[i].receiver

BaseInv == TypeOK /\ JobOK /\ RowsOK

(***************************************************************************)
(* The conversation of a pair exists before any worker relies on it.       *)
(***************************************************************************)
ConvJobOK ==
  \A w \in Workers :
    LET j == job[w]
    IN  /\ j.at = "update" /\ j.to = "COMPLETED" => convs[Parties(j.row)] # None
        /\ j.at \in {"keep", "relink"} => convs[Parties(j.row)] # None
        /\ j.at = "openCreate" => Parties(j.row) = j.pair /\ convs[j.pair] # None

ConvInv == ConversationMatchesPair /\ AcceptedHasConversation /\ ConvJobOK

---------------------------------------------------------------------------
(* Helpers *)

\* The parties of a used row key a conversation.
LEMMA PartiesInPairs ==
  ASSUME BaseInv, NEW i \in Used
  PROVE  Parties(i) \in Pairs
  <1>1. rows[i] \in Row
    BY DEF BaseInv, TypeOK, Used
  <1>2. rows[i].sender # rows[i].receiver
    BY DEF BaseInv, RowsOK
  <1> QED
    BY <1>1, <1>2 DEF Parties, orderedPair, Pairs, Row

\* None is not a row, not an id, not a pair, not a status.
LEMMA NoneIsNothing ==
  /\ None \notin Users /\ None \notin Posts /\ None \notin CollabIds
  /\ None \notin Pairs /\ None \notin Row /\ None \notin STATUSES
  BY ConstantsOK

\* Idle is a state of a worker.
LEMMA IdleIsJob == Idle \in Job
  BY DEF Idle, Job, Stages

\* Finishing touches only the job of the worker.
LEMMA FinishJob ==
  ASSUME TypeOK, NEW w \in Workers, Finish(w)
  PROVE  /\ job' \in [Workers -> Job]
         /\ job'[w] = Idle
         /\ \A x \in Workers \ {w} : job'[x] = job[x]
  BY IdleIsJob DEF TypeOK, Finish

\* Continuing changes only where the worker is, or makes it idle.
LEMMA ContinueJob ==
  ASSUME TypeOK, NEW w \in Workers, NEW ok, NEW next \in Stages,
         Continue(w, ok, next)
  PROVE  /\ job' \in [Workers -> Job]
         /\ \/ job'[w] = Idle
            \/ ok /\ job'[w] = [job[w] EXCEPT !.at = next]
         /\ ok => job'[w] = [job[w] EXCEPT !.at = next]
         /\ \A x \in Workers \ {w} : job'[x] = job[x]
  <1>1. job[w] \in Job
    BY DEF TypeOK
  <1>2. [job[w] EXCEPT !.at = next] \in Job
    BY <1>1 DEF Job
  <1> QED
    BY <1>2, IdleIsJob DEF TypeOK, Continue

---------------------------------------------------------------------------
(* BaseInv *)

\* Initially the table is empty and every worker idle.
LEMMA BaseInit == Init => BaseInv
  BY ConstantsOK, IdleIsJob
  DEF Init, BaseInv, TypeOK, JobOK, RowsOK, Used, Idle, CreateStages, TxStages,
      OpenStages

\* What a step may do to the table: an existing row keeps everything but its
\* status; a new one is PENDING and between distinct users.
Grows ==
  \A i \in CollabIds :
    /\ rows'[i] \in Row \cup {None}
    /\ rows[i] # None =>
         /\ rows'[i] # None
         /\ rows'[i].sender = rows[i].sender
         /\ rows'[i].receiver = rows[i].receiver
         /\ rows'[i].post = rows[i].post
         /\ rows'[i].month = rows[i].month
    /\ rows[i] = None /\ rows'[i] # None =>
         /\ rows'[i].sender # rows'[i].receiver
         /\ rows'[i].status = "PENDING"
         /\ rows'[i].month = month

\* A step that leaves the table alone changes no row.
LEMMA SameRowsGrow ==
  ASSUME TypeOK, UNCHANGED rows
  PROVE  Grows /\ rows' \in [CollabIds -> Row \cup {None}]
  BY DEF TypeOK, Grows

\* The status of one existing row is written.
LEMMA StatusWriteGrows ==
  ASSUME TypeOK, NEW i \in Used, NEW to \in STATUSES,
         rows' = [rows EXCEPT ![i].status = to]
  PROVE  /\ Grows
         /\ rows' \in [CollabIds -> Row \cup {None}]
         /\ rows'[i].status = to
         /\ \A k \in CollabIds \ {i} : rows'[k] = rows[k]
  <1>1. i \in CollabIds /\ rows[i] \in Row /\ rows[i] # None
    BY DEF TypeOK, Used
  <1>2. /\ rows'[i] \in Row
        /\ rows'[i].sender = rows[i].sender
        /\ rows'[i].receiver = rows[i].receiver
        /\ rows'[i].post = rows[i].post
        /\ rows'[i].month = rows[i].month
        /\ rows'[i].status = to
    BY <1>1 DEF TypeOK, Row
  <1>3. \A k \in CollabIds \ {i} : rows'[k] = rows[k]
    BY <1>1 DEF TypeOK
  <1>4. rows' \in [CollabIds -> Row \cup {None}]
    <2>1. DOMAIN rows' = CollabIds /\ rows' = [k \in CollabIds |-> rows'[k]]
      BY <1>1 DEF TypeOK
    <2> QED
      BY <2>1, <1>2, <1>3 DEF TypeOK
  <1>5. rows'[i] # None
    BY <1>2, NoneIsNothing
  <1> QED
    BY <1>1, <1>2, <1>3, <1>4, <1>5 DEF Grows, TypeOK

\* The insert of a request adds one row, PENDING and between distinct users, and
\* changes none.
LEMMA InsertGrows ==
  ASSUME BaseInv, NEW w \in Workers, InsertRequest(w)
  PROVE  /\ Grows
         /\ rows' \in [CollabIds -> Row \cup {None}]
         /\ \A i \in Used : rows'[i] = rows[i]
  <1> DEFINE j == job[w]
             new == [sender |-> j.user, receiver |-> j.other, post |-> j.post,
                     status |-> "PENDING", month |-> month]
  <1>1. j \in Job /\ j.user \in Users /\ j.other \in Users /\ j.user # j.other
    BY DEF BaseInv, TypeOK, JobOK, InsertRequest, CreateStages
  <1>2. new \in Row
    BY <1>1 DEF BaseInv, TypeOK, Job, Row, STATUSES
  <1>3. CASE UNCHANGED rows
    BY <1>3, SameRowsGrow DEF BaseInv, Used
  <1>4. CASE \E i \in CollabIds \ Used : rows' = [rows EXCEPT ![i] = new]
    <2>1. PICK i \in CollabIds \ Used : rows' = [rows EXCEPT ![i] = new]
      BY <1>4
    <2>2. /\ rows[i] = None
          /\ rows'[i] = new
          /\ \A k \in CollabIds \ {i} : rows'[k] = rows[k]
      BY <2>1 DEF BaseInv, TypeOK, Used
    <2>3. /\ new.sender # new.receiver
          /\ new.status = "PENDING"
          /\ new.month = month
      BY <1>1
    <2>4. rows' \in [CollabIds -> Row \cup {None}]
      BY <2>1, <1>2 DEF BaseInv, TypeOK
    <2>5. \A k \in Used : k # i
      BY <2>2 DEF Used
    <2> HIDE DEF new
    <2>6. Grows
      BY <2>2, <2>3, <1>2 DEF Grows, BaseInv, TypeOK
    <2> QED
      BY <2>2, <2>4, <2>5, <2>6 DEF Used
  <1> QED
    BY <1>3, <1>4 DEF InsertRequest

\* The worker that writes a status is past a read of that row.
LEMMA RowOfJob ==
  ASSUME BaseInv, NEW w \in Workers, job[w].row # None
  PROVE  job[w].row \in Used
  <1>1. job[w].row \in CollabIds
    BY DEF BaseInv, TypeOK, Job
  <1> QED
    BY <1>1 DEF BaseInv, JobOK, Used

\* Every step of the system lets the table grow in this way only.
LEMMA NextGrows ==
  ASSUME BaseInv, [Next]_vars
  PROVE  Grows /\ rows' \in [CollabIds -> Row \cup {None}]
  <1> USE DEF BaseInv
  <1>1. CASE UNCHANGED rows
    BY <1>1, SameRowsGrow
  <1>2. ASSUME NEW w \in Workers, InsertRequest(w)
        PROVE  Grows /\ rows' \in [CollabIds -> Row \cup {None}]
    BY <1>2, InsertGrows
  <1>3. ASSUME NEW w \in Workers, ResendRequest(w)
        PROVE  Grows /\ rows' \in [CollabIds -> Row \cup {None}]
    BY <1>3, RowOfJob, StatusWriteGrows DEF ResendRequest, STATUSES
  <1>4. ASSUME NEW w \in Workers, UpdateStatus(w)
        PROVE  Grows /\ rows' \in [CollabIds -> Row \cup {None}]
    <2>1. job[w].row # None /\ job[w].to \in STATUSES
      BY <1>4 DEF UpdateStatus, TypeOK, JobOK, Job
    <2> QED
      BY <1>4, <2>1, RowOfJob, StatusWriteGrows DEF UpdateStatus
  <1>5. ASSUME NEW w \in Workers, CommitAccept(w)
        PROVE  Grows /\ rows' \in [CollabIds -> Row \cup {None}]
    <2>1. job[w].row # None
      BY <1>5 DEF CommitAccept, JobOK, TxStages
    <2> QED
      BY <1>5, <2>1, RowOfJob, StatusWriteGrows DEF CommitAccept, STATUSES
  <1>6. ASSUME NEW w \in Workers, Arrive(w) \/ Abort(w)
        PROVE  UNCHANGED rows
    BY <1>6 DEF Arrive, Abort, RequestCollab, ReadToRespond, ReadToComplete,
                ReadToCancel, StartUpdate, OpenConversation, Block, Unblock,
                SetPostStatus
  <1>7. ASSUME NEW w \in Workers, Step(w),
               ~InsertRequest(w), ~ResendRequest(w), ~UpdateStatus(w), ~CommitAccept(w)
        PROVE  UNCHANGED rows
    BY <1>7 DEF Step, CheckQuota, CheckPost, FindExisting, BeginAccept,
                FindConversation, RollbackAccept, OpenFind, OpenCollab, OpenCreate
  <1> QED
    BY <1>1, <1>2, <1>3, <1>4, <1>5, <1>6, <1>7 DEF Next, NextMonth, vars

\* Only worker w changes its job, to a well-typed one that fits the table.
Fits(w) ==
  /\ job' \in [Workers -> Job]
  /\ \A x \in Workers \ {w} : job'[x] = job[x]
  /\ LET j == job'[w]
     IN  /\ j.at \in CreateStages /\ j.row = None =>
              j.user \in Users /\ j.other \in Users /\ j.user # j.other
         /\ j.at \in TxStages \cup {"update", "openCreate"} => j.row # None
         /\ j.at = "update" => j.to # None
         /\ j.row # None => rows'[j.row] # None
         /\ j.at \in OpenStages => j.pair # None

\* If the worker that acts fits the table, and no row is lost, all workers do.
LEMMA FitsJobOK ==
  ASSUME BaseInv, Grows, NEW w \in Workers, Fits(w)
  PROVE  JobOK'
  <1>1. ASSUME NEW x \in Workers \ {w}
        PROVE  job'[x] = job[x] /\ (job[x].row # None => rows'[job[x].row] # None)
    BY RowOfJob DEF Fits, Grows, Used
  <1> QED
    BY <1>1 DEF BaseInv, JobOK, Fits

\* A worker that has finished fits.
LEMMA FinishFits ==
  ASSUME TypeOK, NEW w \in Workers, Finish(w)
  PROVE  Fits(w)
  BY FinishJob DEF Fits, Idle, CreateStages, TxStages, OpenStages

\* A worker that goes on fits, as long as it does not reach a stage that
\* needs something it has not got.
LEMMA ContinueFits ==
  ASSUME BaseInv, Grows, NEW w \in Workers, NEW ok, NEW next \in Stages,
         Continue(w, ok, next),
         \/ next \in CreateStages /\ job[w].at \in CreateStages
         \/ next \in TxStages /\ job[w].at \in TxStages \cup {"update"}
         \/ next \in OpenStages \ {"openCreate"} /\ job[w].at \in OpenStages
  PROVE  Fits(w)
  <1>1. job[w] \in Job
    BY DEF BaseInv, TypeOK
  <1>2. job[w].row # None => rows'[job[w].row] # None
    BY RowOfJob DEF Grows, Used
  <1>3. CASE job'[w] = Idle
    <2>1. job' \in [Workers -> Job] /\ \A x \in Workers \ {w} : job'[x] = job[x]
      BY ContinueJob DEF BaseInv
    <2>2. job'[w].at = "idle" /\ job'[w].row = None
      BY <1>3 DEF Idle
    <2> QED
      BY <2>1, <2>2 DEF Fits, CreateStages, TxStages, OpenStages
  <1>4. CASE job'[w] = [job[w] EXCEPT !.at = next]
    <2>1. /\ job'[w].at = next
          /\ job'[w].user = job[w].user
          /\ job'[w].other = job[w].other
          /\ job'[w].pair = job[w].pair
          /\ job'[w].row = job[w].row
          /\ job'[w].to = job[w].to
      BY <1>1, <1>4 DEF Job
    <2>2. job' \in [Workers -> Job] /\ \A x \in Workers \ {w} : job'[x] = job[x]
      BY ContinueJob DEF BaseInv
    <2> QED
      BY <2>1, <2>2, <1>2
      DEF BaseInv, JobOK, Fits, CreateStages, TxStages, OpenStages
  <1> QED
    BY <1>3, <1>4, ContinueJob DEF BaseInv

\* A worker that starts on, or goes on with, a row that exists.
LEMMA RowJobFits ==
  ASSUME BaseInv, UNCHANGED rows, NEW w \in Workers, NEW i \in Used,
         NEW j \in Job, j.row = i, j.at \notin {"quota", "post", "find"},
         j.at = "update" => j.to # None,
         j.at \in OpenStages => j.pair # None,
         job' = [job EXCEPT ![w] = j]
  PROVE  Fits(w)
  <1>1. rows'[i] # None /\ i # None
    BY NoneIsNothing DEF Used
  <1>2. job'[w] = j /\ \A x \in Workers \ {w} : job'[x] = job[x]
    BY DEF BaseInv, TypeOK
  <1>3. job' \in [Workers -> Job]
    BY DEF BaseInv, TypeOK
  <1> QED
    BY <1>1, <1>2, <1>3 DEF Fits

\* A worker that takes up a request fits the table.
LEMMA ArriveFits ==
  ASSUME BaseInv, NEW w \in Workers, Arrive(w)
  PROVE  UNCHANGED rows /\ (UNCHANGED job \/ Fits(w))
  <1> USE NoneIsNothing
  <1>1. ASSUME NEW s \in Users, NEW r \in Users, NEW p \in Posts \cup {None},
               RequestCollab(w, s, r, p)
        PROVE  UNCHANGED rows /\ Fits(w)
    <2> DEFINE j == [Idle EXCEPT !.at = "quota", !.user = s, !.other = r,
                                 !.post = p]
    <2>1. /\ j \in Job /\ j.at = "quota" /\ j.row = None
          /\ j.user = s /\ j.other = r
      BY IdleIsJob DEF Job, Idle, Stages, CreateStages
    <2>2. job' = [job EXCEPT ![w] = j] /\ s # r /\ UNCHANGED rows
      BY <1>1 DEF RequestCollab
    <2> HIDE DEF j
    <2>3. job' \in [Workers -> Job] /\ job'[w] = j
          /\ \A x \in Workers \ {w} : job'[x] = job[x]
      BY <2>1, <2>2 DEF BaseInv, TypeOK
    <2> QED
      BY <2>1, <2>2, <2>3 DEF Fits, CreateStages, TxStages, OpenStages
  <1>2. ASSUME NEW i \in Used, NEW to \in STATUSES, StartUpdate(w, i, to)
        PROVE  UNCHANGED rows /\ Fits(w)
    <2> DEFINE j == [Idle EXCEPT !.at = "update", !.row = i, !.to = to]
    <2>1. j \in Job /\ j.at = "update" /\ j.row = i /\ j.to # None
      BY IdleIsJob DEF Job, Idle, Stages, Used, STATUSES, Row
    <2>2. job' = [job EXCEPT ![w] = j] /\ UNCHANGED rows
      BY <1>2 DEF StartUpdate
    <2> HIDE DEF j
    <2> QED
      BY <2>1, <2>2, RowJobFits DEF OpenStages
  <1>3. ASSUME NEW u \in Users, NEW v \in Users, OpenConversation(w, u, v)
        PROVE  UNCHANGED rows /\ Fits(w)
    <2> DEFINE j == [Idle EXCEPT !.at = "openFind", !.pair = orderedPair(u, v)]
    <2>1. orderedPair(u, v) \in Pairs
      BY <1>3 DEF OpenConversation, orderedPair, Pairs
    <2>2. /\ j \in Job /\ j.at = "openFind" /\ j.row = None
          /\ j.pair \in Pairs
      BY <2>1, IdleIsJob DEF Job, Idle, Stages, OpenStages
    <2>3. job' = [job EXCEPT ![w] = j] /\ UNCHANGED rows
      BY <1>3 DEF OpenConversation
    <2> HIDE DEF j
    <2>4. job' \in [Workers -> Job] /\ job'[w] = j
          /\ \A x \in Workers \ {w} : job'[x] = job[x]
      BY <2>2, <2>3 DEF BaseInv, TypeOK
    <2> QED
      BY <2>2, <2>3, <2>4 DEF Fits, CreateStages, TxStages, OpenStages
  <1>4. "ACCEPTED" \in STATUSES /\ "COMPLETED" \in STATUSES /\ "CANCELLED" \in STATUSES
    BY DEF STATUSES
  <1>5. ASSUME NEW u \in Users, NEW i \in Used,
               \/ \E to \in STATUSES : ReadToRespond(w, u, i, to)
               \/ ReadToComplete(w, u, i)
               \/ ReadToCancel(w, u, i)
        PROVE  \E to \in STATUSES : StartUpdate(w, i, to)
    BY <1>4, <1>5 DEF ReadToRespond, ReadToComplete, ReadToCancel
  <1>6. ASSUME NEW pr \in MayBlock, Block(w, pr[1], pr[2]) \/ Unblock(w, pr[1], pr[2])
        PROVE  UNCHANGED <<rows, job>>
    BY <1>6 DEF Block, Unblock
  <1>7. ASSUME NEW p \in Posts, SetPostStatus(w, p)
        PROVE  UNCHANGED <<rows, job>>
    BY <1>7 DEF SetPostStatus
  <1> QED
    BY <1>1, <1>2, <1>3, <1>5, <1>6, <1>7 DEF Arrive


\* A worker that goes on with its request fits the table.
LEMMA StepFits ==
  ASSUME BaseInv, Grows, NEW w \in Workers, Step(w)
  PROVE  Fits(w)
  <1> USE NoneIsNothing
  <1>1. CASE CheckQuota(w)
    <2>1. Continue(w, underQuota(job[w].user), "post") /\ job[w].at = "quota"
      BY <1>1 DEF CheckQuota
    <2> QED
      BY <2>1, ContinueFits DEF Stages, CreateStages
  <1>2. CASE CheckPost(w)
    <2>1. /\ job[w].at = "post"
          /\ \E ok : Continue(w, ok, "find")
      BY <1>2 DEF CheckPost
    <2> QED
      BY <2>1, ContinueFits DEF Stages, CreateStages
  <1>3. CASE FindExisting(w)
    <2> DEFINE found == Matching(job[w].user, job[w].other, job[w].post)
    <2>1. job[w].at = "find" /\ UNCHANGED rows
      BY <1>3 DEF FindExisting
    <2>2. CASE Continue(w, TRUE, "write")
      BY <2>1, <2>2, ContinueFits DEF Stages, CreateStages
    <2>3. ASSUME NEW i \in found, Finish(w)
          PROVE  Fits(w)
      BY <2>3, FinishFits DEF BaseInv
    <2>4. ASSUME NEW i \in found,
                 job' = [job EXCEPT ![w] = [Idle EXCEPT !.at = "write", !.row = i]]
          PROVE  Fits(w)
      <3> DEFINE j == [Idle EXCEPT !.at = "write", !.row = i]
      <3>1. i \in Used
        BY DEF Matching
      <3>2. j \in Job /\ j.at = "write" /\ j.row = i
        BY <3>1, IdleIsJob DEF Job, Idle, Stages, CreateStages, Used
      <3>3. job' = [job EXCEPT ![w] = j]
        BY <2>4
      <3> HIDE DEF j
      <3> QED
        BY <2>1, <3>1, <3>2, <3>3, RowJobFits DEF OpenStages
    <2> QED
      BY <1>3, <2>2, <2>3, <2>4 DEF FindExisting, Finish
  <1>4. CASE InsertRequest(w) \/ ResendRequest(w) \/ UpdateStatus(w)
             \/ CommitAccept(w) \/ RollbackAccept(w) \/ OpenCreate(w)
    <2>1. Finish(w)
      BY <1>4 DEF InsertRequest, ResendRequest, UpdateStatus, CommitAccept,
                  RollbackAccept, OpenCreate
    <2> QED
      BY <2>1, FinishFits DEF BaseInv
  <1>5. CASE BeginAccept(w)
    BY <1>5, ContinueFits DEF BeginAccept, Stages, TxStages
  <1>6. CASE FindConversation(w)
    <2>1. /\ job[w].at = "findConv"
          /\ \E next \in {"keep", "relink", "insert"} : Continue(w, TRUE, next)
      BY <1>6 DEF FindConversation
    <2>2. PICK next \in {"keep", "relink", "insert"} : Continue(w, TRUE, next)
      BY <2>1
    <2>3. next \in Stages /\ next \in TxStages /\ job[w].at \in TxStages
      BY <2>1 DEF Stages, TxStages
    <2> QED
      BY <2>2, <2>3, ContinueFits
  <1>7. CASE OpenFind(w)
    <2>1. job[w].at = "openFind" /\ \E ok : Continue(w, ok, "openCollab")
      BY <1>7 DEF OpenFind
    <2> QED
      BY <2>1, ContinueFits DEF Stages, OpenStages
  <1>8. CASE OpenCollab(w)
    <2>1. job[w].at = "openCollab" /\ UNCHANGED rows
      BY <1>8 DEF OpenCollab
    <2>2. CASE Finish(w)
      BY <2>2, FinishFits DEF BaseInv
    <2>3. ASSUME NEW i \in Used,
                 job' = [job EXCEPT ![w] = [@ EXCEPT !.at = "openCreate", !.row = i]]
          PROVE  Fits(w)
      <3> DEFINE j == [job[w] EXCEPT !.at = "openCreate", !.row = i]
      <3>1. job[w] \in Job /\ job[w].pair # None
        BY <2>1 DEF BaseInv, TypeOK, JobOK, OpenStages
      <3>2. /\ j \in Job /\ j.at = "openCreate" /\ j.row = i
            /\ j.pair # None
        BY <3>1 DEF Job, Stages, OpenStages, Used
      <3>3. job' = [job EXCEPT ![w] = j]
        BY <2>3
      <3> HIDE DEF j
      <3> QED
        BY <2>1, <3>2, <3>3, RowJobFits
    <2> QED
      BY <1>8, <2>2, <2>3 DEF OpenCollab
  <1> QED
    BY <1>1, <1>2, <1>3, <1>4, <1>5, <1>6, <1>7, <1>8 DEF Step

\* Every row stays one between distinct users.
LEMMA RowsOKStep ==
  ASSUME BaseInv, Grows
  PROVE  RowsOK'
  BY DEF BaseInv, RowsOK, Used, Grows

\* A pair of distinct users keys a conversation, before and after.
LEMMA ConvsType ==
  ASSUME BaseInv, [Next]_vars
  PROVE  convs' \in [Pairs -> CollabIds \cup {None}]
  <1> USE DEF BaseInv
  <1>1. CASE UNCHANGED convs
    BY <1>1 DEF TypeOK
  <1>2. ASSUME NEW w \in Workers, CommitAccept(w)
        PROVE  convs' \in [Pairs -> CollabIds \cup {None}]
    <2>1. job[w].row # None
      BY <1>2 DEF CommitAccept, JobOK, TxStages
    <2>2. job[w].row \in Used
      BY <2>1, RowOfJob
    <2> QED
      BY <1>2, <2>2 DEF CommitAccept, TypeOK, Used
  <1>3. ASSUME NEW w \in Workers, OpenCreate(w)
        PROVE  convs' \in [Pairs -> CollabIds \cup {None}]
    BY <1>3 DEF OpenCreate, TypeOK, Job
  <1>4. ASSUME NEW w \in Workers, Arrive(w) \/ Abort(w)
        PROVE  UNCHANGED convs
    BY <1>4 DEF Arrive, Abort, RequestCollab, ReadToRespond, ReadToComplete,
                ReadToCancel, StartUpdate, OpenConversation, Block, Unblock,
                SetPostStatus
  <1>5. ASSUME NEW w \in Workers, Step(w), ~CommitAccept(w), ~OpenCreate(w)
        PROVE  UNCHANGED convs
    BY <1>5 DEF Step, CheckQuota, CheckPost, FindExisting, InsertRequest,
                ResendRequest, UpdateStatus, BeginAccept, FindConversation,
                RollbackAccept, OpenFind, OpenCollab
  <1> QED
    BY <1>1, <1>2, <1>3, <1>4, <1>5 DEF Next, NextMonth, vars

\* Blocks, posts and the clock.
LEMMA EnvironmentType ==
  ASSUME TypeOK, [Next]_vars
  PROVE  /\ blocks' \subseteq Users \X Users
         /\ openPosts' \subseteq Posts
         /\ month' \in 1..Months
  <1> USE ConstantsOK DEF TypeOK
  <1>1. CASE UNCHANGED <<blocks, openPosts, month>>
    BY <1>1
  <1>2. CASE NextMonth
    BY <1>2 DEF NextMonth
  <1>3. ASSUME NEW w \in Workers, NEW pr \in MayBlock,
               Block(w, pr[1], pr[2]) \/ Unblock(w, pr[1], pr[2])
        PROVE  blocks' \subseteq Users \X Users /\ UNCHANGED <<openPosts, month>>
    <2>1. pr = <<pr[1], pr[2]>>
      OBVIOUS
    <2> QED
      BY <1>3, <2>1 DEF Block, Unblock
  <1>4. ASSUME NEW w \in Workers, NEW p \in Posts, SetPostStatus(w, p)
        PROVE  openPosts' \subseteq Posts /\ UNCHANGED <<blocks, month>>
    BY <1>4 DEF SetPostStatus
  <1>5. ASSUME NEW w \in Workers, Step(w) \/ Abort(w)
        PROVE  UNCHANGED <<blocks, openPosts, month>>
    BY <1>5 DEF Step, Abort, CheckQuota, CheckPost, FindExisting, InsertRequest,
                ResendRequest, UpdateStatus, BeginAccept, FindConversation,
                CommitAccept, RollbackAccept, OpenFind, OpenCollab, OpenCreate
  <1>6. ASSUME NEW w \in Workers, Arrive(w),
               ~\E pr \in MayBlock : Block(w, pr[1], pr[2]) \/ Unblock(w, pr[1], pr[2]),
               ~\E p \in Posts : SetPostStatus(w, p)
        PROVE  UNCHANGED <<blocks, openPosts, month>>
    BY <1>6 DEF Arrive, RequestCollab, ReadToRespond, ReadToComplete,
                ReadToCancel, StartUpdate, OpenConversation
  <1> QED
    BY <1>1, <1>2, <1>3, <1>4, <1>5, <1>6 DEF Next, vars

\* BaseInv is inductive.
LEMMA BaseStep ==
  ASSUME BaseInv, [Next]_vars
  PROVE  BaseInv'
  <1>1. Grows /\ rows' \in [CollabIds -> Row \cup {None}]
    BY NextGrows
  <1>2. RowsOK'
    BY <1>1, RowsOKStep
  <1>3. job' \in [Workers -> Job] /\ JobOK'
    <2>1. CASE UNCHANGED job
      <3>1. \A w \in Workers : job[w].row # None => rows'[job[w].row] # None
        BY <1>1, RowOfJob DEF Grows, Used
      <3> QED
        BY <2>1, <3>1 DEF BaseInv, TypeOK, JobOK
    <2>2. ASSUME NEW w \in Workers, Arrive(w) \/ Step(w) \/ Abort(w)
          PROVE  UNCHANGED job \/ Fits(w)
      BY <2>2, <1>1, ArriveFits, StepFits, FinishFits DEF Abort, BaseInv
    <2>3. ASSUME NEW w \in Workers, Fits(w)
          PROVE  job' \in [Workers -> Job] /\ JobOK'
      BY <2>3, <1>1, FitsJobOK DEF Fits
    <2> QED
      BY <2>1, <2>2, <2>3 DEF Next, NextMonth, vars
  <1> QED
    BY <1>1, <1>2, <1>3, ConvsType, EnvironmentType DEF BaseInv, TypeOK

\* The tables and the jobs stay well-typed, and every job fits the tables.
THEOREM BaseInvariant == Spec => []BaseInv
  BY BaseInit, BaseStep, PTL DEF Spec

\* TypeOK holds of every reachable state, for any instance.
THEOREM TypeCorrect == Spec => []TypeOK
  <1>1. BaseInv => TypeOK
    BY DEF BaseInv
  <1> QED
    BY <1>1, BaseInvariant, PTL


---------------------------------------------------------------------------
(* Conversations *)

\* Initially there is neither a row nor a conversation.
LEMMA ConvInit == Init => ConvInv
  BY NoneIsNothing
  DEF Init, ConvInv, ConversationMatchesPair, AcceptedHasConversation, ConvJobOK,
      Used, Idle

\* The transaction of w commits and links pair pr to its row.
Links(w, pr) ==
  /\ job[w].at \in {"relink", "insert"}
  /\ job[w].row \in Used
  /\ pr = Parties(job[w].row)
  /\ convs'[pr] = job[w].row
  /\ rows'[job[w].row].status = "ACCEPTED"

\* openConversationWith's create always meets an existing conversation, so a
\* step changes a link only by committing an accept.
LEMMA LinkStep ==
  ASSUME BaseInv, ConvInv, [Next]_vars, NEW pr \in Pairs, convs'[pr] # convs[pr]
  PROVE  \E w \in Workers : Links(w, pr)
  <1>1. ASSUME NEW w \in Workers, CommitAccept(w)
        PROVE  \E x \in Workers : Links(x, pr)
    <2>1. job[w].row # None /\ job[w].at # "keep"
      BY <1>1 DEF CommitAccept, BaseInv, JobOK, TxStages
    <2>2. job[w].row \in Used
      BY <2>1, RowOfJob
    <2>3. pr = Parties(job[w].row) /\ convs'[pr] = job[w].row
      BY <1>1, <2>1 DEF CommitAccept, BaseInv, TypeOK
    <2>4. rows'[job[w].row].status = "ACCEPTED"
      BY <1>1, <2>2, StatusWriteGrows DEF CommitAccept, BaseInv, STATUSES
    <2> QED
      BY <1>1, <2>1, <2>2, <2>3, <2>4 DEF Links, CommitAccept
  <1>2. ASSUME NEW w \in Workers, OpenCreate(w)
        PROVE  FALSE
    BY <1>2 DEF OpenCreate, ConvInv, ConvJobOK
  <1>3. ASSUME NEW w \in Workers, Arrive(w) \/ Abort(w)
        PROVE  FALSE
    BY <1>3 DEF Arrive, Abort, RequestCollab, ReadToRespond, ReadToComplete,
                ReadToCancel, StartUpdate, OpenConversation, Block, Unblock,
                SetPostStatus
  <1>4. ASSUME NEW w \in Workers, Step(w), ~CommitAccept(w), ~OpenCreate(w)
        PROVE  FALSE
    BY <1>4 DEF Step, CheckQuota, CheckPost, FindExisting, InsertRequest,
                ResendRequest, UpdateStatus, BeginAccept, FindConversation,
                RollbackAccept, OpenFind, OpenCollab
  <1> QED
    BY <1>1, <1>2, <1>3, <1>4 DEF Next, NextMonth, vars

\* A row comes to be ACCEPTED or COMPLETED only by a commit of its accept or
\* by a COMPLETE.
LEMMA StatusStep ==
  ASSUME BaseInv, [Next]_vars, NEW i \in CollabIds, rows'[i] # None,
         rows'[i].status \in {"ACCEPTED", "COMPLETED"}
  PROVE  \/ i \in Used /\ rows'[i] = rows[i]
         \/ \E w \in Workers : CommitAccept(w) /\ job[w].row = i
         \/ \E w \in Workers : /\ UpdateStatus(w) /\ job[w].row = i
                               /\ job[w].to = "COMPLETED"
  <1>1. CASE rows'[i] = rows[i]
    BY <1>1 DEF Used
  <1>2. ASSUME NEW w \in Workers, InsertRequest(w)
        PROVE  i \in Used /\ rows'[i] = rows[i]
    BY <1>2, InsertGrows DEF Grows, Used
  <1>3. ASSUME NEW w \in Workers, ResendRequest(w)
        PROVE  i \in Used /\ rows'[i] = rows[i]
    <2>1. job[w].row \in Used /\ "PENDING" \in STATUSES
      BY <1>3, RowOfJob DEF ResendRequest, STATUSES
    <2>2. /\ rows'[job[w].row].status = "PENDING"
          /\ \A k \in CollabIds \ {job[w].row} : rows'[k] = rows[k]
      BY <1>3, <2>1, StatusWriteGrows DEF ResendRequest, BaseInv
    <2> QED
      BY <2>2 DEF Used
  <1>4. ASSUME NEW w \in Workers, UpdateStatus(w), rows'[i] # rows[i]
        PROVE  job[w].row = i /\ job[w].to = "COMPLETED"
    <2>1. job[w].row # None /\ job[w].to \in STATUSES /\ job[w].to # "ACCEPTED"
      BY <1>4 DEF UpdateStatus, BaseInv, TypeOK, JobOK, Job
    <2>2. /\ rows'[job[w].row].status = job[w].to
          /\ \A k \in CollabIds \ {job[w].row} : rows'[k] = rows[k]
      BY <1>4, <2>1, RowOfJob, StatusWriteGrows DEF UpdateStatus, BaseInv
    <2> QED
      BY <1>4, <2>1, <2>2
  <1>5. ASSUME NEW w \in Workers, CommitAccept(w), rows'[i] # rows[i]
        PROVE  job[w].row = i
    <2>1. job[w].row # None
      BY <1>5 DEF CommitAccept, BaseInv, JobOK, TxStages
    <2>2. \A k \in CollabIds \ {job[w].row} : rows'[k] = rows[k]
      BY <1>5, <2>1, RowOfJob, StatusWriteGrows DEF CommitAccept, BaseInv, STATUSES
    <2> QED
      BY <1>5, <2>2
  <1>6. ASSUME NEW w \in Workers, Arrive(w) \/ Abort(w)
        PROVE  rows' = rows
    BY <1>6 DEF Arrive, Abort, RequestCollab, ReadToRespond, ReadToComplete,
                ReadToCancel, StartUpdate, OpenConversation, Block, Unblock,
                SetPostStatus
  <1>7. ASSUME NEW w \in Workers, Step(w),
               ~InsertRequest(w), ~ResendRequest(w), ~UpdateStatus(w), ~CommitAccept(w)
        PROVE  rows' = rows
    BY <1>7 DEF Step, CheckQuota, CheckPost, FindExisting, BeginAccept,
                FindConversation, RollbackAccept, OpenFind, OpenCollab, OpenCreate
  <1> QED
    BY <1>1, <1>2, <1>3, <1>4, <1>5, <1>6, <1>7 DEF Next, NextMonth, vars


\* A link once made is never unmade.
LEMMA LinksStay ==
  ASSUME BaseInv, ConvInv, [Next]_vars, NEW pr \in Pairs, convs[pr] # None
  PROVE  convs'[pr] # None
  BY LinkStep, NoneIsNothing DEF Links, Used

\* The parties of a row after the step: the same as before.
PartiesNext(i) == orderedPair(rows'[i].sender, rows'[i].receiver)

\* A row stays, and so do its parties.
LEMMA PartiesStay ==
  ASSUME Grows, NEW i \in Used
  PROVE  rows'[i] # None /\ PartiesNext(i) = Parties(i)
  BY DEF Grows, Used, Parties, PartiesNext

\* A worker that is at one of the stages ConvJobOK speaks of has just seen
\* the conversation, or an accepted or completed row of the pair.
LEMMA ConvJobStep ==
  ASSUME BaseInv, ConvInv, [Next]_vars, NEW x \in Workers, job'[x] # job[x]
  PROVE  /\ job'[x].at = "update" /\ job'[x].to = "COMPLETED" =>
              /\ job'[x].row \in Used
              /\ convs[Parties(job'[x].row)] # None
         /\ job'[x].at \in {"keep", "relink"} =>
              /\ job'[x].row \in Used
              /\ convs[Parties(job'[x].row)] # None
         /\ job'[x].at = "openCreate" =>
              /\ job'[x].row \in Used
              /\ Parties(job'[x].row) = job'[x].pair
              /\ convs[job'[x].pair] # None
  <1> DEFINE Goal == /\ job'[x].at = "update" /\ job'[x].to = "COMPLETED" =>
                          /\ job'[x].row \in Used
                          /\ convs[Parties(job'[x].row)] # None
                     /\ job'[x].at \in {"keep", "relink"} =>
                          /\ job'[x].row \in Used
                          /\ convs[Parties(job'[x].row)] # None
                     /\ job'[x].at = "openCreate" =>
                          /\ job'[x].row \in Used
                          /\ Parties(job'[x].row) = job'[x].pair
                          /\ convs[job'[x].pair] # None
  <1> USE NoneIsNothing
  <1>1. job \in [Workers -> Job]
    BY DEF BaseInv, TypeOK
  <1>2. ASSUME Finish(x)
        PROVE  Goal
    <2>1. job'[x].at = "idle"
      BY <1>1, <1>2 DEF Finish, Idle
    <2> QED
      BY <2>1
  <1>3. ASSUME NEW ok, NEW next \in Stages \ {"update", "keep", "relink", "openCreate"},
               Continue(x, ok, next)
        PROVE  Goal
    <2>1. job'[x].at = "idle" \/ job'[x].at = next
      BY <1>1, <1>3 DEF Continue, Idle, Job
    <2> QED
      BY <2>1
  <1>4. CASE Arrive(x)
    <2>1. ASSUME NEW s \in Users, NEW r \in Users, NEW p \in Posts \cup {None},
                 RequestCollab(x, s, r, p)
          PROVE  Goal
      <3>1. job'[x].at = "quota"
        BY <1>1, <2>1 DEF RequestCollab, Idle
      <3> QED
        BY <3>1
    <2>2. ASSUME NEW u \in Users, NEW v \in Users, OpenConversation(x, u, v)
          PROVE  Goal
      <3>1. job'[x].at = "openFind"
        BY <1>1, <2>2 DEF OpenConversation, Idle
      <3> QED
        BY <3>1
    <2>3. ASSUME NEW i \in Used, NEW to \in STATUSES, StartUpdate(x, i, to)
          PROVE  job'[x].at = "update" /\ job'[x].row = i /\ job'[x].to = to
      BY <1>1, <2>3 DEF StartUpdate, Idle
    <2>4. ASSUME NEW u \in Users, NEW i \in Used, NEW to \in STATUSES,
                 ReadToRespond(x, u, i, to)
          PROVE  Goal
      <3>1. StartUpdate(x, i, to) /\ to # "COMPLETED"
        BY <2>4 DEF ReadToRespond
      <3> QED
        BY <3>1, <2>3
    <2>5. ASSUME NEW u \in Users, NEW i \in Used, ReadToCancel(x, u, i)
          PROVE  Goal
      <3>1. StartUpdate(x, i, "CANCELLED") /\ "CANCELLED" \in STATUSES
        BY <2>5 DEF ReadToCancel, STATUSES
      <3> QED
        BY <3>1, <2>3
    <2>6. ASSUME NEW u \in Users, NEW i \in Used, ReadToComplete(x, u, i)
          PROVE  Goal
      <3>1. StartUpdate(x, i, "COMPLETED") /\ "COMPLETED" \in STATUSES
        BY <2>6 DEF ReadToComplete, STATUSES
      <3>2. convs[Parties(i)] # None
        BY <2>6 DEF ReadToComplete, ConvInv, AcceptedHasConversation
      <3> QED
        BY <3>1, <3>2, <2>3
    <2>7. ASSUME UNCHANGED job
          PROVE  Goal
      BY <2>7
    <2> QED
      BY <1>4, <2>1, <2>2, <2>4, <2>5, <2>6, <2>7
      DEF Arrive, Block, Unblock, SetPostStatus
  <1>5. CASE CheckQuota(x) \/ CheckPost(x) \/ BeginAccept(x) \/ OpenFind(x)
    <2>1. \E ok : \E next \in {"post", "find", "findConv", "openCollab"} :
            Continue(x, ok, next)
      BY <1>5 DEF CheckQuota, CheckPost, BeginAccept, OpenFind
    <2>2. {"post", "find", "findConv", "openCollab"}
            \subseteq Stages \ {"update", "keep", "relink", "openCreate"}
      BY DEF Stages, CreateStages, TxStages, OpenStages
    <2> QED
      BY <2>1, <2>2, <1>3
  <1>6. CASE FindExisting(x)
    <2>1. CASE Continue(x, TRUE, "write")
      BY <2>1, <1>3 DEF Stages, CreateStages
    <2>2. ASSUME NEW i, job' = [job EXCEPT ![x] = IF rows[i].status \in {"PENDING", "ACCEPTED"}
                                                  THEN Idle
                                                  ELSE [Idle EXCEPT !.at = "write", !.row = i]]
          PROVE  Goal
      <3>1. job'[x].at \in {"idle", "write"}
        BY <1>1, <2>2 DEF Idle
      <3> QED
        BY <3>1
    <2> QED
      BY <1>6, <2>1, <2>2 DEF FindExisting
  <1>7. CASE InsertRequest(x) \/ ResendRequest(x) \/ UpdateStatus(x) \/ CommitAccept(x)
             \/ RollbackAccept(x) \/ OpenCreate(x) \/ Abort(x)
    BY <1>7, <1>2 DEF InsertRequest, ResendRequest, UpdateStatus, CommitAccept,
                      RollbackAccept, OpenCreate, Abort
  <1>8. CASE FindConversation(x)
    <2> DEFINE i == job[x].row
    <2>1. i \in Used
      BY <1>8, RowOfJob DEF FindConversation, BaseInv, JobOK, TxStages
    <2>2. CASE convs[Parties(i)] = None
      <3>1. Continue(x, TRUE, "insert")
        BY <1>8, <2>1, <2>2, NoneIsNothing DEF FindConversation, Used
      <3>2. "insert" \in Stages \ {"update", "keep", "relink", "openCreate"}
        BY DEF Stages, TxStages
      <3> QED
        BY <3>1, <3>2, <1>3
    <2>3. ASSUME convs[Parties(i)] # None
          PROVE  job'[x].at \in {"keep", "relink"} /\ job'[x].row = i
      BY <1>1, <1>8, <2>3 DEF FindConversation, Continue, Job
    <2> QED
      BY <2>1, <2>2, <2>3
  <1>9. CASE OpenCollab(x)
    <2>1. ASSUME NEW i \in Used, rows[i].status = "ACCEPTED", Parties(i) = job[x].pair,
                 job' = [job EXCEPT ![x] = [@ EXCEPT !.at = "openCreate", !.row = i]]
          PROVE  Goal
      <3>1. job'[x].at = "openCreate" /\ job'[x].row = i /\ job'[x].pair = job[x].pair
        BY <1>1, <2>1 DEF Job
      <3>2. convs[Parties(i)] # None
        BY <2>1 DEF ConvInv, AcceptedHasConversation
      <3> QED
        BY <2>1, <3>1, <3>2
    <2> QED
      BY <1>9, <1>2, <2>1 DEF OpenCollab
  <1>10. ASSUME NEW w \in Workers \ {x}, Arrive(w) \/ Step(w) \/ Abort(w)
         PROVE  FALSE
    <2>1. UNCHANGED job \/ Fits(w)
      BY <1>10, NextGrows, ArriveFits, StepFits, FinishFits DEF Abort, BaseInv
    <2> QED
      BY <2>1 DEF Fits
  <1> QED
    BY <1>4, <1>5, <1>6, <1>7, <1>8, <1>9, <1>10 DEF Next, Step, NextMonth, vars

\* ConvInv is inductive, relative to BaseInv.
LEMMA ConvStep ==
  ASSUME BaseInv, ConvInv, [Next]_vars
  PROVE  ConvInv'
  <1> USE NoneIsNothing
  <1>1. Grows
    BY NextGrows
  <1>2. ConversationMatchesPair'
    <2> SUFFICES ASSUME NEW pr \in Pairs, convs'[pr] # None
                 PROVE  rows'[convs'[pr]] # None /\ PartiesNext(convs'[pr]) = pr
      BY DEF ConversationMatchesPair, Parties, PartiesNext
    <2>1. convs'[pr] \in Used /\ Parties(convs'[pr]) = pr
      <3>1. CASE convs'[pr] = convs[pr]
        BY <3>1 DEF ConvInv, ConversationMatchesPair, BaseInv, TypeOK, Used
      <3>2. CASE convs'[pr] # convs[pr]
        BY <3>2, LinkStep DEF Links
      <3> QED
        BY <3>1, <3>2
    <2> QED
      BY <1>1, <2>1, PartiesStay
  <1>3. AcceptedHasConversation'
    <2> SUFFICES ASSUME NEW i \in CollabIds, rows'[i] # None,
                        rows'[i].status \in {"ACCEPTED", "COMPLETED"}
                 PROVE  convs'[PartiesNext(i)] # None
      BY DEF AcceptedHasConversation, Used, Parties, PartiesNext
    <2>1. CASE i \in Used /\ rows'[i] = rows[i]
      BY <1>1, <2>1, PartiesStay, PartiesInPairs, LinksStay
      DEF ConvInv, AcceptedHasConversation
    <2>2. ASSUME NEW w \in Workers, CommitAccept(w), job[w].row = i
          PROVE  convs'[PartiesNext(i)] # None
      <3>1. i \in Used
        BY <2>2, RowOfJob DEF CommitAccept, BaseInv, JobOK, TxStages
      <3>2. CASE job[w].at = "keep"
        BY <1>1, <2>2, <3>1, <3>2, PartiesStay, PartiesInPairs, LinksStay
        DEF ConvInv, ConvJobOK
      <3>3. CASE job[w].at # "keep"
        <4>1. convs'[Parties(i)] = i
          BY <2>2, <3>1, <3>3, PartiesInPairs DEF CommitAccept, BaseInv, TypeOK
        <4> QED
          BY <1>1, <3>1, <4>1, PartiesStay DEF Used
      <3> QED
        BY <3>2, <3>3
    <2>3. ASSUME NEW w \in Workers, UpdateStatus(w), job[w].row = i,
                 job[w].to = "COMPLETED"
          PROVE  convs'[PartiesNext(i)] # None
      <3>1. job[w].at = "update" /\ i \in Used
        BY <2>3, RowOfJob DEF UpdateStatus, BaseInv, JobOK
      <3> QED
        BY <1>1, <2>3, <3>1, PartiesStay, PartiesInPairs, LinksStay
        DEF ConvInv, ConvJobOK
    <2> QED
      BY <2>1, <2>2, <2>3, StatusStep
  <1>4. ConvJobOK'
    <2> SUFFICES ASSUME NEW x \in Workers
                 PROVE  LET j == job'[x]
                        IN  /\ j.at = "update" /\ j.to = "COMPLETED" =>
                                 convs'[PartiesNext(j.row)] # None
                            /\ j.at \in {"keep", "relink"} =>
                                 convs'[PartiesNext(j.row)] # None
                            /\ j.at = "openCreate" =>
                                 PartiesNext(j.row) = j.pair /\ convs'[j.pair] # None
      BY DEF ConvJobOK, Parties, PartiesNext
    <2> DEFINE j == job'[x]
               Seen == j.row \in Used /\ convs[Parties(j.row)] # None
    <2>1. /\ j.at = "update" /\ j.to = "COMPLETED" => Seen
          /\ j.at \in {"keep", "relink"} => Seen
          /\ j.at = "openCreate" => Seen /\ Parties(j.row) = j.pair
      <3>1. CASE job'[x] # job[x]
        BY <3>1, ConvJobStep
      <3>2. CASE job'[x] = job[x]
        <4>1. job[x].at \in {"update", "keep", "relink", "openCreate"} => job[x].row # None
          BY DEF BaseInv, JobOK, TxStages
        <4> QED
          BY <3>2, <4>1, RowOfJob DEF ConvInv, ConvJobOK
      <3> QED
        BY <3>1, <3>2
    <2>2. Seen => convs'[Parties(j.row)] # None /\ PartiesNext(j.row) = Parties(j.row)
      BY <1>1, PartiesInPairs, LinksStay, PartiesStay
    <2> QED
      BY <2>1, <2>2
  <1> QED
    BY <1>2, <1>3, <1>4 DEF ConvInv

\* BaseInv and ConvInv are invariants: what the theorems about conversations
\* rest on.
THEOREM ConvInvariant == Spec => [](BaseInv /\ ConvInv)
  <1>1. Init => BaseInv /\ ConvInv
    BY BaseInit, ConvInit
  <1>2. BaseInv /\ ConvInv /\ [Next]_vars => (BaseInv /\ ConvInv)'
    BY BaseStep, ConvStep
  <1> QED
    BY <1>1, <1>2, PTL DEF Spec

\* A conversation is linked to a collaboration of exactly its participants.
THEOREM ConversationsMatch == Spec => []ConversationMatchesPair
  <1>1. ConvInv => ConversationMatchesPair
    BY DEF ConvInv
  <1> QED
    BY <1>1, ConvInvariant, PTL

\* Accepting a request and opening the conversation are one: no interleaving
\* and no abort leaves an accepted or completed collaboration without one.
THEOREM AcceptedHaveConversations == Spec => []AcceptedHasConversation
  <1>1. ConvInv => AcceptedHasConversation
    BY DEF ConvInv
  <1> QED
    BY <1>1, ConvInvariant, PTL

\* Only the commit of an accept changes a link, and never to null; the create
\* of openConversationWith never succeeds.
THEOREM AcceptLinks == Spec => LinkedOnlyByAccept
  <1>1. BaseInv /\ ConvInv /\ [Next]_vars => LinkByAccept
    BY LinkStep, NoneIsNothing DEF LinkByAccept, Links, TxStages, Used
  <1>2. BaseInv /\ ConvInv /\ [Next]_vars => [LinkByAccept]_vars
    BY <1>1
  <1> QED
    BY <1>2, ConvInvariant, PTL DEF Spec, LinkedOnlyByAccept

---------------------------------------------------------------------------
(* Two users in contact *)

\* The collaborations of a pair that are ACCEPTED after the step.
AcceptedNext(pr) ==
  {i \in CollabIds : rows'[i] # None /\ PartiesNext(i) = pr /\ rows'[i].status = "ACCEPTED"}

\* Writing the status of a row changes what is accepted by that row at most.
LEMMA StatusWriteAccepts ==
  ASSUME BaseInv, NEW pr \in Pairs, NEW i \in Used, NEW to \in STATUSES,
         rows' = [rows EXCEPT ![i].status = to]
  PROVE  /\ to = "ACCEPTED" /\ Parties(i) = pr => AcceptedNext(pr) = AcceptedOf(pr) \cup {i}
         /\ to # "ACCEPTED" \/ Parties(i) # pr => AcceptedNext(pr) = AcceptedOf(pr) \ {i}
  <1>1. /\ Grows /\ rows'[i].status = to
        /\ \A k \in CollabIds \ {i} : rows'[k] = rows[k]
    BY StatusWriteGrows DEF BaseInv
  <1>2. /\ i \in CollabIds
        /\ \A k \in Used : rows'[k] # None /\ PartiesNext(k) = Parties(k)
    BY <1>1, PartiesStay DEF Used
  <1>3. ASSUME NEW k \in CollabIds \ {i}
        PROVE  k \in AcceptedNext(pr) <=> k \in AcceptedOf(pr)
    BY <1>1, <1>2 DEF AcceptedNext, AcceptedOf, Used
  <1>4. i \in AcceptedNext(pr) <=> to = "ACCEPTED" /\ Parties(i) = pr
    BY <1>1, <1>2 DEF AcceptedNext
  <1>5. AcceptedNext(pr) \subseteq CollabIds /\ AcceptedOf(pr) \subseteq CollabIds
    BY DEF AcceptedNext, AcceptedOf, Used
  <1> QED
    BY <1>2, <1>3, <1>4, <1>5

\* What a step does to the collaborations of a pair: nothing, end one, or accept
\* one and perhaps point the conversation at it.
LEMMA AcceptedMoves ==
  ASSUME BaseInv, ConvInv, [Next]_vars, NEW pr \in Pairs
  PROVE  \/ AcceptedNext(pr) = AcceptedOf(pr) /\ convs'[pr] = convs[pr]
         \/ /\ blocks' = blocks
            /\ \E i \in Used :
                 \/ AcceptedNext(pr) = AcceptedOf(pr) \ {i} /\ convs'[pr] = convs[pr]
                 \/ AcceptedNext(pr) = AcceptedOf(pr) \cup {i} /\ convs'[pr] \in {convs[pr], i}
  <1>1. CASE UNCHANGED <<rows, convs>>
    BY <1>1 DEF AcceptedNext, AcceptedOf, Used, Parties, PartiesNext
  <1>2. ASSUME NEW w \in Workers, InsertRequest(w)
        PROVE  AcceptedNext(pr) = AcceptedOf(pr) /\ convs'[pr] = convs[pr]
    <2>1. Grows /\ \A i \in Used : rows'[i] = rows[i]
      BY <1>2, InsertGrows
    <2>2. ASSUME NEW i \in CollabIds
          PROVE  i \in AcceptedNext(pr) <=> i \in AcceptedOf(pr)
      <3>1. CASE i \in Used
        BY <2>1, <3>1 DEF AcceptedNext, AcceptedOf, Used, Parties, PartiesNext
      <3>2. CASE i \notin Used
        BY <2>1, <3>2 DEF AcceptedNext, AcceptedOf, Used, Grows
      <3> QED
        BY <3>1, <3>2
    <2>3. convs' = convs
      BY <1>2 DEF InsertRequest
    <2> QED
      BY <2>2, <2>3 DEF AcceptedNext, AcceptedOf, Used
  <1>3. ASSUME NEW w \in Workers, ResendRequest(w)
        PROVE  \E i \in Used : /\ AcceptedNext(pr) = AcceptedOf(pr) \ {i}
                               /\ convs' = convs /\ blocks' = blocks
    <2>1. job[w].row \in Used /\ "PENDING" \in STATUSES
      BY <1>3, RowOfJob DEF ResendRequest, STATUSES
    <2>2. rows' = [rows EXCEPT ![job[w].row].status = "PENDING"]
      BY <1>3 DEF ResendRequest
    <2>3. AcceptedNext(pr) = AcceptedOf(pr) \ {job[w].row}
      BY <2>1, <2>2, StatusWriteAccepts
    <2> QED
      BY <1>3, <2>1, <2>3 DEF ResendRequest
  <1>4. ASSUME NEW w \in Workers, UpdateStatus(w)
        PROVE  \E i \in Used : /\ AcceptedNext(pr) = AcceptedOf(pr) \ {i}
                               /\ convs' = convs /\ blocks' = blocks
    <2>1. job[w].row # None /\ job[w].to \in STATUSES /\ job[w].to # "ACCEPTED"
      BY <1>4 DEF UpdateStatus, BaseInv, TypeOK, JobOK, Job
    <2>2. job[w].row \in Used
      BY <2>1, RowOfJob
    <2>3. AcceptedNext(pr) = AcceptedOf(pr) \ {job[w].row}
      BY <1>4, <2>1, <2>2, StatusWriteAccepts DEF UpdateStatus
    <2> QED
      BY <1>4, <2>2, <2>3 DEF UpdateStatus
  <1>5. ASSUME NEW w \in Workers, CommitAccept(w)
        PROVE  /\ blocks' = blocks
               /\ \E i \in Used :
                    \/ AcceptedNext(pr) = AcceptedOf(pr) \ {i} /\ convs'[pr] = convs[pr]
                    \/ AcceptedNext(pr) = AcceptedOf(pr) \cup {i} /\ convs'[pr] \in {convs[pr], i}
    <2> DEFINE i == job[w].row
    <2>1. i # None
      BY <1>5 DEF CommitAccept, BaseInv, JobOK, TxStages
    <2>2. i \in Used /\ "ACCEPTED" \in STATUSES
      BY <2>1, RowOfJob DEF STATUSES
    <2>3. /\ Parties(i) = pr => AcceptedNext(pr) = AcceptedOf(pr) \cup {i}
          /\ Parties(i) # pr => AcceptedNext(pr) = AcceptedOf(pr) \ {i}
      BY <1>5, <2>2, StatusWriteAccepts DEF CommitAccept
    <2>4. /\ Parties(i) = pr => convs'[pr] \in {convs[pr], i}
          /\ Parties(i) # pr => convs'[pr] = convs[pr]
          /\ blocks' = blocks
      BY <1>5 DEF CommitAccept, BaseInv, TypeOK
    <2> QED
      BY <2>2, <2>3, <2>4
  <1>6. ASSUME NEW w \in Workers, OpenCreate(w)
        PROVE  UNCHANGED <<rows, convs>>
    BY <1>6 DEF OpenCreate, ConvInv, ConvJobOK
  <1>7. ASSUME NEW w \in Workers, Arrive(w) \/ Abort(w)
        PROVE  UNCHANGED <<rows, convs>>
    BY <1>7 DEF Arrive, Abort, RequestCollab, ReadToRespond, ReadToComplete,
                ReadToCancel, StartUpdate, OpenConversation, Block, Unblock,
                SetPostStatus
  <1>8. ASSUME NEW w \in Workers, Step(w), ~InsertRequest(w), ~ResendRequest(w),
               ~UpdateStatus(w), ~CommitAccept(w), ~OpenCreate(w)
        PROVE  UNCHANGED <<rows, convs>>
    BY <1>8 DEF Step, CheckQuota, CheckPost, FindExisting, BeginAccept,
                FindConversation, RollbackAccept, OpenFind, OpenCollab
  <1>9. CASE NextMonth \/ UNCHANGED vars
    BY <1>1, <1>9 DEF NextMonth, vars
  <1> QED
    BY <1>1, <1>2, <1>3, <1>4, <1>5, <1>6, <1>7, <1>8, <1>9 DEF Next

\* For the module of their contact that is an accept, the end of a collaboration,
\* or nothing.
LEMMA ContactMoves ==
  ASSUME BaseInv, ConvInv, [Next]_vars, NEW pr \in Pairs
  PROVE  ContactOf(pr)!ContactNext \/ UNCHANGED ContactOf(pr)!contactVars
  <1> DEFINE A == AcceptedOf(pr)
             B == AcceptedNext(pr)
             cut == blocks \cap (pr \X pr) # {}
  <1>1. A' = B
    BY DEF AcceptedOf, AcceptedNext, Used, Parties, PartiesNext
  <1> USE DEF ContactOf!ContactNext, ContactOf!contactVars, ContactOf!CollaborationAccepted,
              ContactOf!CollaborationCompleted, ContactOf!BlockChanged,
              ContactOf!hasActiveCollaboration
  <1> HIDE DEF A, B, cut
  <1>2. CASE B = A /\ convs'[pr] = convs[pr]
    <2>1. /\ (convs[pr] \in A)' = (convs[pr] \in A)
          /\ (A \ {convs[pr]} # {})' = (A \ {convs[pr]} # {})
      BY <1>1, <1>2
    <2>2. cut' = cut \/ cut' = ~cut
      BY DEF cut
    <2> QED
      BY <2>1, <2>2 DEF A, cut
  <1>3. ASSUME blocks' = blocks, NEW i \in Used, B = A \ {i}, convs'[pr] = convs[pr]
        PROVE  ContactOf(pr)!CollaborationCompleted \/ UNCHANGED ContactOf(pr)!contactVars
    <2>1. cut' = cut
      BY <1>3 DEF cut
    <2>2. CASE i = convs[pr]
      <3>1. (convs[pr] \in A)' = FALSE /\ (A \ {convs[pr]} # {})' = (A \ {convs[pr]} # {})
        BY <1>1, <1>3, <2>2
      <3> QED
        BY <2>1, <3>1 DEF A, cut
    <2>3. CASE i # convs[pr]
      <3>1. /\ (convs[pr] \in A)' = (convs[pr] \in A)
            /\ (A \ {convs[pr]} # {})' => A \ {convs[pr]} # {}
        BY <1>1, <1>3, <2>3
      <3> QED
        BY <2>1, <3>1 DEF A, cut
    <2> QED
      BY <2>2, <2>3
  <1>4. ASSUME blocks' = blocks, NEW i \in Used, B = A \cup {i}, convs'[pr] \in {convs[pr], i}
        PROVE  ContactOf(pr)!CollaborationAccepted \/ UNCHANGED ContactOf(pr)!contactVars
    <2>1. cut' = cut
      BY <1>4 DEF cut
    <2>2. CASE convs'[pr] = i
      <3>1. /\ (convs[pr] \in A)' = TRUE
            /\ (A \ {convs[pr]} # {})' = (A \ {i} # {})
        BY <1>1, <1>4, <2>2
      <3>2. CASE i \notin A
        <4>1. (A \ {i} # {}) = (convs[pr] \in A \/ A \ {convs[pr]} # {})
          BY <3>2
        <4> QED
          BY <2>1, <3>1, <4>1 DEF A, cut
      <3>3. CASE i \in A /\ convs[pr] = i
        <4>1. /\ (convs[pr] \in A)' = (convs[pr] \in A)
              /\ (A \ {convs[pr]} # {})' = (A \ {convs[pr]} # {})
          BY <1>1, <1>4, <2>2, <3>3
        <4> QED
          BY <2>1, <4>1 DEF A, cut
      <3>4. CASE i \in A /\ convs[pr] # i
        <4>1. /\ A \ {convs[pr]} # {}
              /\ A \ {i} # {} \/ ~(convs[pr] \in A)
          BY <3>4
        <4> QED
          BY <2>1, <3>1, <4>1 DEF A, cut
      <3> QED
        BY <3>2, <3>3, <3>4
    <2>3. CASE convs'[pr] = convs[pr] /\ i = convs[pr]
      <3>1. /\ (convs[pr] \in A)' = TRUE
            /\ (A \ {convs[pr]} # {})' = (A \ {convs[pr]} # {})
        BY <1>1, <1>4, <2>3
      <3> QED
        BY <2>1, <3>1 DEF A, cut
    <2>4. CASE convs'[pr] = convs[pr] /\ i # convs[pr]
      <3>1. /\ (convs[pr] \in A)' = (convs[pr] \in A)
            /\ (A \ {convs[pr]} # {})' = TRUE
        BY <1>1, <1>4, <2>4
      <3> QED
        BY <2>1, <3>1 DEF A, cut
    <2> QED
      BY <1>4, <2>2, <2>3, <2>4
  <1> QED
    BY <1>2, <1>3, <1>4, AcceptedMoves DEF A, B

\* Strangers at first.
LEMMA ContactStarts ==
  ASSUME Init
  PROVE  \A pr \in Pairs : ContactOf(pr)!Strangers
  BY NoneIsNothing DEF Init, AcceptedOf, Used, ContactOf!Strangers

\* Each pair of users comes in and out of contact as module Contact says, for
\* any number of users, rows and requests.
THEOREM ContactIsAsSaid == Spec => ImplementsContact
  <1>1. BaseInv /\ ConvInv /\ [Next]_vars => [ContactStep]_vars
    BY ContactMoves DEF ContactStep
  <1> QED
    BY <1>1, ContactStarts, ConvInvariant, PTL DEF Spec, ImplementsContact

---------------------------------------------------------------------------
(***************************************************************************)
(* One worker implements CollabProtocol.  What it remembers is still true  *)
(* when it writes, since nobody else writes in between, and so there is at *)
(* most one row for a sender, a receiver and a post.                       *)
(***************************************************************************)

\* Protocol!Allowed, in terms of this module.
MayAsk(s, r, p) ==
  /\ s # r /\ ~isBlockedBetween(s, r)
  /\ Role[r] \in OPPOSITE_FEED_ROLE[Role[s]]
  /\ p # None => p \in openPosts /\ PostOwner[p] = r

MayAskAgain(i) == MayAsk(rows[i].sender, rows[i].receiver, rows[i].post)

\* What the job of w says of the database holds of it.
Current(w) ==
  LET j == job[w]
      i == j.row
  IN  /\ j.at \in {"quota", "post", "find"} => j.row = None
      /\ j.at \in {"quota", "post"} => j.user # j.other /\ ~isBlockedBetween(j.user, j.other)
      /\ j.at \in {"find", "write"} /\ i = None => MayAsk(j.user, j.other, j.post)
      /\ j.at = "write" /\ i = None => Matching(j.user, j.other, j.post) = {}
      /\ j.at = "write" /\ i # None =>
           MayAskAgain(i) /\ rows[i].status \notin {"PENDING", "ACCEPTED"}
      /\ j.at = "update" =>
           \/ j.to \in {"ACCEPTED", "DECLINED", "CANCELLED"} /\ rows[i].status = "PENDING"
           \/ /\ j.to = "COMPLETED" /\ rows[i].status = "ACCEPTED"
              /\ \E u \in Parties(i) : Role[u] = "CREATOR"
      /\ j.at \in TxStages => rows[i].status = "PENDING"
      /\ j.at = "keep" => convs[Parties(i)] = i

SameRequest(i, k) ==
  /\ rows[i].sender = rows[k].sender
  /\ rows[i].receiver = rows[k].receiver
  /\ rows[i].post = rows[k].post

OneRow == \A i, k \in Used : SameRequest(i, k) => i = k

SerialInv == OneRow /\ \A w \in Workers : Current(w)

\* An idle worker remembers nothing.
LEMMA IdleCurrent ==
  ASSUME NEW w \in Workers, job'[w] = Idle
  PROVE  Current(w)'
  BY DEF Current, Idle, TxStages

\* A step after which the table has the ids it had leaves one row per request.
LEMMA OneRowKept ==
  ASSUME Grows, Used' = Used, OneRow
  PROVE  OneRow'
  <1> SUFFICES ASSUME NEW i \in Used, NEW k \in Used, SameRequest(i, k)'
               PROVE  i = k
    BY DEF OneRow
  <1>1. SameRequest(i, k)
    BY DEF SameRequest, Grows, Used
  <1> QED
    BY <1>1 DEF OneRow

\* Writing a status adds no id.
LEMMA StatusWriteUsed ==
  ASSUME TypeOK, NEW i \in Used, NEW to \in STATUSES,
         rows' = [rows EXCEPT ![i].status = to]
  PROVE  Grows /\ Used' = Used
  <1>1. /\ Grows
        /\ \A k \in CollabIds \ {i} : rows'[k] = rows[k]
    BY StatusWriteGrows
  <1> QED
    BY <1>1 DEF Used, Grows

\* The table after a statement of a lone worker has one row per request.
LEMMA SerialOneRow ==
  ASSUME BaseInv, SerialInv, NEW w \in Workers, Arrive(w) \/ Step(w) \/ Abort(w)
  PROVE  OneRow'
  <1>0. TypeOK
    BY DEF BaseInv
  <1>1. CASE InsertRequest(w)
    <2>1. Grows
      BY <1>1, InsertGrows
    <2>2. CASE UNCHANGED rows
      BY <2>1, <2>2, OneRowKept DEF SerialInv, Used
    <2>3. ASSUME NEW n \in CollabIds \ Used,
                 rows' = [rows EXCEPT ![n] =
                            [sender |-> job[w].user, receiver |-> job[w].other,
                             post |-> job[w].post, status |-> "PENDING",
                             month |-> month]]
          PROVE  OneRow'
      <3>1. Matching(job[w].user, job[w].other, job[w].post) = {}
        BY <1>1 DEF SerialInv, Current, InsertRequest
      <3>2. /\ rows'[n].sender = job[w].user /\ rows'[n].receiver = job[w].other
            /\ rows'[n].post = job[w].post
            /\ \A k \in CollabIds \ {n} : rows'[k] = rows[k]
        BY <1>0, <2>3 DEF TypeOK
      <3>3. \A k \in Used' : k = n \/ k \in Used
        BY <3>2 DEF Used
      <3>4. \A k \in Used : k # n /\ ~SameRequest(n, k)' /\ ~SameRequest(k, n)'
        BY <3>1, <3>2 DEF Used, Matching, SameRequest
      <3>5. \A i, k \in Used : SameRequest(i, k)' => i = k
        BY <3>2 DEF SerialInv, OneRow, SameRequest, Used
      <3> QED
        BY <3>3, <3>4, <3>5 DEF OneRow
    <2> QED
      BY <1>1, <2>2, <2>3 DEF InsertRequest
  <1>2. CASE ResendRequest(w) \/ UpdateStatus(w) \/ CommitAccept(w)
    <2>1. job[w].row # None
      BY <1>2 DEF ResendRequest, UpdateStatus, CommitAccept, BaseInv, JobOK, TxStages
    <2>2. job[w].row \in Used
      BY <2>1, RowOfJob
    <2>3. PICK to \in STATUSES : rows' = [rows EXCEPT ![job[w].row].status = to]
      <3>1. job[w].at = "update" => job[w].to \in STATUSES
        BY <1>0, ConstantsOK DEF BaseInv, JobOK, TypeOK, Job
      <3> QED
        BY <1>2, <3>1 DEF ResendRequest, UpdateStatus, CommitAccept, STATUSES
    <2> QED
      BY <1>0, <2>2, <2>3, StatusWriteUsed, OneRowKept DEF SerialInv
  <1>3. CASE UNCHANGED rows
    BY <1>0, <1>3, SameRowsGrow, OneRowKept DEF SerialInv, Used
  <1> QED
    BY <1>1, <1>2, <1>3
       DEF Arrive, RequestCollab, ReadToRespond, ReadToComplete, ReadToCancel,
           StartUpdate, OpenConversation, Block, Unblock, SetPostStatus, Step,
           CheckQuota, CheckPost, FindExisting, BeginAccept, FindConversation,
           RollbackAccept, OpenFind, OpenCollab, OpenCreate, Abort

\* What a worker has seen when its statement begins is still so when it goes
\* on: it is the only one to change anything.
LEMMA SerialCurrent ==
  ASSUME BaseInv, SerialInv, NEW w \in Workers, Arrive(w) \/ Step(w) \/ Abort(w)
  PROVE  Current(w)'
  <1>0. /\ job \in [Workers -> Job] /\ Current(w) /\ TypeOK
        /\ None \notin STATUSES
    BY ConstantsOK DEF BaseInv, TypeOK, SerialInv
  <1>1. CASE job'[w] = Idle
    BY <1>1, IdleCurrent
  <1>2. ASSUME NEW s \in Users, NEW r \in Users, NEW p \in Posts \cup {None},
               RequestCollab(w, s, r, p)
        PROVE  Current(w)'
    <2>1. job'[w] = [Idle EXCEPT !.at = "quota", !.user = s, !.other = r, !.post = p]
      BY <1>0, <1>2 DEF RequestCollab
    <2>2. /\ job'[w].at = "quota" /\ job'[w].row = None
          /\ job'[w].user = s /\ job'[w].other = r
      BY <2>1 DEF Idle
    <2> QED
      BY <1>2, <2>2 DEF Current, RequestCollab, isBlockedBetween, TxStages
  <1>3. ASSUME NEW i \in Used, NEW to \in STATUSES, StartUpdate(w, i, to),
               \/ to \in {"ACCEPTED", "DECLINED", "CANCELLED"} /\ rows[i].status = "PENDING"
               \/ /\ to = "COMPLETED" /\ rows[i].status = "ACCEPTED"
                  /\ \E u \in Parties(i) : Role[u] = "CREATOR"
        PROVE  Current(w)'
    <2>1. job'[w] = [Idle EXCEPT !.at = "update", !.row = i, !.to = to]
      BY <1>0, <1>3 DEF StartUpdate
    <2>2. job'[w].at = "update" /\ job'[w].row = i /\ job'[w].to = to
      BY <2>1 DEF Idle
    <2>3. UNCHANGED rows
      BY <1>3 DEF StartUpdate
    <2> QED
      BY <1>3, <2>2, <2>3 DEF Current, Parties, TxStages
  <1>4. ASSUME UNCHANGED <<rows, convs, blocks, openPosts>>, NEW stage \in Stages,
               job'[w] = [job[w] EXCEPT !.at = stage],
               \/ job[w].at = "quota" /\ stage = "post"
               \/ /\ job[w].at = "post" /\ stage = "find"
                  /\ MayAsk(job[w].user, job[w].other, job[w].post)
               \/ /\ job[w].at = "find" /\ stage = "write"
                  /\ Matching(job[w].user, job[w].other, job[w].post) = {}
               \/ job[w].at = "update" /\ job[w].to = "ACCEPTED" /\ stage = "findConv"
               \/ job[w].at = "findConv" /\ stage \in {"insert", "relink"}
               \/ /\ job[w].at = "findConv" /\ stage = "keep"
                  /\ convs[Parties(job[w].row)] = job[w].row
               \/ stage \in OpenStages
        PROVE  Current(w)'
    <2>1. /\ job'[w].at = stage
          /\ job'[w].user = job[w].user /\ job'[w].other = job[w].other
          /\ job'[w].post = job[w].post /\ job'[w].row = job[w].row
          /\ job'[w].to = job[w].to
      BY <1>0, <1>4 DEF Job
    <2>2. /\ \A i : MayAskAgain(i)' = MayAskAgain(i) /\ Parties(i)' = Parties(i)
          /\ \A s, r, p : /\ MayAsk(s, r, p)' = MayAsk(s, r, p)
                          /\ Matching(s, r, p)' = Matching(s, r, p)
                          /\ isBlockedBetween(s, r)' = isBlockedBetween(s, r)
      BY <1>4 DEF MayAskAgain, MayAsk, Matching, Parties, isBlockedBetween, Used
    <2> QED
      BY <1>0, <1>4, <2>1, <2>2 DEF Current, TxStages, OpenStages
  <1>5. CASE Arrive(w)
    <2>1. ASSUME NEW u \in Users, NEW i \in Used,
                 \/ \E to \in STATUSES : ReadToRespond(w, u, i, to)
                 \/ ReadToComplete(w, u, i)
                 \/ ReadToCancel(w, u, i)
          PROVE  Current(w)'
      BY <1>3, <2>1 DEF ReadToRespond, ReadToComplete, ReadToCancel, STATUSES
    <2>2. ASSUME NEW u \in Users, NEW v \in Users, OpenConversation(w, u, v)
          PROVE  Current(w)'
      <3>1. job'[w].at = "openFind"
        BY <1>0, <2>2 DEF OpenConversation, Idle
      <3> QED
        BY <3>1 DEF Current, TxStages
    <2>3. CASE UNCHANGED job /\ job[w] = Idle
      BY <1>1, <2>3
    <2> QED
      BY <1>2, <1>5, <2>1, <2>2, <2>3 DEF Arrive, Block, Unblock, SetPostStatus
  <1>6. CASE CheckQuota(w)
    <2>1. Continue(w, underQuota(job[w].user), "post") /\ job[w].at = "quota"
      BY <1>6 DEF CheckQuota
    <2>2. job'[w] = Idle \/ job'[w] = [job[w] EXCEPT !.at = "post"]
      BY <1>0, <2>1, ContinueJob DEF Stages, CreateStages
    <2> QED
      BY <1>1, <1>4, <1>6, <2>1, <2>2 DEF CheckQuota, Stages, CreateStages
  <1>7. CASE CheckPost(w)
    <2> DEFINE ok == /\ Role[job[w].other] \in OPPOSITE_FEED_ROLE[Role[job[w].user]]
                     /\ \/ job[w].post = None
                        \/ /\ job[w].post \in openPosts
                           /\ PostOwner[job[w].post] = job[w].other
    <2>1. Continue(w, ok, "find") /\ job[w].at = "post"
      BY <1>7 DEF CheckPost
    <2>2. job'[w] = Idle \/ (ok /\ job'[w] = [job[w] EXCEPT !.at = "find"])
      <3>1. job' = [job EXCEPT ![w] = IF ok THEN [job[w] EXCEPT !.at = "find"] ELSE Idle]
        BY <1>0, <2>1 DEF Continue
      <3>2. CASE ok
        BY <1>0, <3>1, <3>2
      <3>3. CASE ~ok
        BY <1>0, <3>1, <3>3
      <3> QED
        BY <3>2, <3>3
    <2>3. ok => MayAsk(job[w].user, job[w].other, job[w].post)
      BY <1>0, <2>1 DEF Current, MayAsk
    <2> QED
      BY <1>1, <1>4, <1>7, <2>1, <2>2, <2>3 DEF CheckPost, Stages, CreateStages
  <1>8. CASE FindExisting(w)
    <2>1. /\ job[w].at = "find" /\ job[w].row = None
          /\ MayAsk(job[w].user, job[w].other, job[w].post)
      BY <1>0, <1>8 DEF FindExisting, Current
    <2>2. CASE /\ Matching(job[w].user, job[w].other, job[w].post) = {}
               /\ Continue(w, TRUE, "write")
      <3>1. job'[w] = [job[w] EXCEPT !.at = "write"]
        BY <1>0, <2>2, ContinueJob DEF Stages, CreateStages
      <3> QED
        BY <1>4, <1>8, <2>1, <2>2, <3>1 DEF FindExisting, Stages, CreateStages
    <2>3. ASSUME NEW i \in Matching(job[w].user, job[w].other, job[w].post),
                 rows[i].status \notin {"PENDING", "ACCEPTED"},
                 job'[w] = [Idle EXCEPT !.at = "write", !.row = i]
          PROVE  Current(w)'
      <3>1. job'[w].at = "write" /\ job'[w].row = i
        BY <2>3 DEF Idle
      <3>2. i # None /\ MayAskAgain(i)
        BY <2>1, <2>3, NoneIsNothing DEF Matching, MayAskAgain, Used
      <3>3. UNCHANGED <<rows, blocks, openPosts>>
        BY <1>8 DEF FindExisting
      <3>4. MayAskAgain(i)'
        BY <3>2, <3>3 DEF MayAskAgain, MayAsk, isBlockedBetween
      <3> QED
        BY <2>3, <3>1, <3>2, <3>3, <3>4 DEF Current, TxStages
    <2> QED
      BY <1>0, <1>1, <1>8, <2>2, <2>3 DEF FindExisting
  <1>9. CASE BeginAccept(w)
    <2>1. job'[w] = [job[w] EXCEPT !.at = "findConv"]
      BY <1>0, <1>9 DEF BeginAccept, Continue
    <2> QED
      BY <1>4, <1>9, <2>1 DEF BeginAccept, Stages, TxStages
  <1>10. CASE FindConversation(w)
    <2> DEFINE linked == convs[Parties(job[w].row)]
    <2>1. PICK stage \in {"insert", "keep", "relink"} :
            /\ Continue(w, TRUE, stage)
            /\ stage = "keep" => linked = job[w].row
      BY <1>10 DEF FindConversation
    <2>2. job'[w] = [job[w] EXCEPT !.at = stage]
      BY <1>0, <2>1 DEF Continue
    <2>3. stage \in Stages
      BY DEF Stages, TxStages
    <2> QED
      BY <1>4, <1>10, <2>1, <2>2, <2>3 DEF FindConversation
  <1>11. CASE OpenFind(w)
    <2>1. job'[w] = Idle \/ job'[w] = [job[w] EXCEPT !.at = "openCollab"]
      BY <1>0, <1>11, ContinueJob DEF OpenFind, Stages, OpenStages
    <2> QED
      BY <1>1, <1>4, <1>11, <2>1 DEF OpenFind, Stages, OpenStages
  <1>12. CASE OpenCollab(w)
    <2>1. job'[w] = Idle \/ job'[w].at = "openCreate"
      BY <1>0, <1>12 DEF OpenCollab, Finish, Job
    <2> QED
      BY <1>1, <2>1 DEF Current, TxStages
  <1> QED
    BY <1>0, <1>1, <1>5, <1>6, <1>7, <1>8, <1>9, <1>10, <1>11, <1>12, FinishJob
       DEF Step, InsertRequest, ResendRequest, UpdateStatus, CommitAccept,
           RollbackAccept, OpenCreate, Abort

\* SerialInv is inductive, if there is one worker.
LEMMA SerialStep ==
  ASSUME BaseInv, SerialInv, NEW w, Workers = {w}, [Next]_vars
  PROVE  SerialInv'
  <1>1. CASE Arrive(w) \/ Step(w) \/ Abort(w)
    BY <1>1, SerialOneRow, SerialCurrent DEF SerialInv
  <1>2. CASE UNCHANGED <<rows, convs, blocks, openPosts, job>>
    BY <1>2 DEF SerialInv, OneRow, SameRequest, Used, Current, MayAskAgain, MayAsk,
                isBlockedBetween, Matching, Parties
  <1> QED
    BY <1>1, <1>2 DEF Next, NextMonth, vars

---------------------------------------------------------------------------
(* Every step of one worker is one of the protocol *)

\* The protocol sees the same requests, pairs and permissions.
LEMMA SameView ==
  ASSUME BaseInv
  PROVE  /\ Protocol!Made = Used
         /\ \A i \in Used : Protocol!Pair(i) = Parties(i)
         /\ \A s, r, p : MayAsk(s, r, p) => Protocol!Allowed(s, r, p)
  <1>1. \A i \in Used : rows[i] \in Row /\ requestOf(rows[i]) # None
    BY NoneIsNoRequest DEF BaseInv, TypeOK, Used, Row, requestOf
  <1>2. Protocol!Made = Used
    BY <1>1 DEF Protocol!Made, Used, requestOf
  <1>3. \A i \in Used : Protocol!Pair(i) = Parties(i)
    BY <1>1 DEF Protocol!Pair, Used, requestOf, Parties, orderedPair
  <1>4. \A s, r, p : MayAsk(s, r, p) => Protocol!Allowed(s, r, p)
    BY DEF MayAsk, Protocol!Allowed, isBlockedBetween, Protocol!OPPOSITE_FEED_ROLE,
           OPPOSITE_FEED_ROLE
  <1> QED
    BY <1>2, <1>3, <1>4

\* Writing the status of a row is a move of the request.
LEMMA StatusWriteMoves ==
  ASSUME BaseInv, NEW i \in Used, NEW to \in STATUSES,
         rows' = [rows EXCEPT ![i].status = to]
  PROVE  Protocol!Move(i, rows[i].status, to)
  <1> DEFINE R == [k \in CollabIds |-> requestOf(rows[k])]
  <1>1. i \in CollabIds /\ rows[i] # None /\ rows[i] \in Row
    BY DEF BaseInv, TypeOK, Used
  <1>2. rows'[i] = [rows[i] EXCEPT !.status = to] /\ rows'[i] # None
    BY <1>1, StatusWriteGrows DEF BaseInv, TypeOK, Grows
  <1>3. requestOf(rows'[i]) = [requestOf(rows[i]) EXCEPT !.status = to]
    BY <1>1, <1>2 DEF requestOf, Row
  <1>4. \A k \in CollabIds \ {i} : requestOf(rows'[k]) = requestOf(rows[k])
    BY <1>1 DEF BaseInv, TypeOK
  <1>5. R' = [R EXCEPT ![i].status = to]
    BY <1>1, <1>3, <1>4
  <1>6. R[i].status = rows[i].status
    BY <1>1 DEF requestOf
  <1> QED
    BY <1>5, <1>6 DEF Protocol!Move

\* A row is made PENDING, or made at all, for a request that is allowed and that
\* no other row stands for: the protocol's Request.
LEMMA RequestIsMade ==
  ASSUME BaseInv, NEW s \in Users, NEW r \in Users, NEW p \in Posts \cup {None},
         MayAsk(s, r, p),
         \A k \in Matching(s, r, p) : rows[k].status \notin {"PENDING", "ACCEPTED"},
         NEW i \in IF Matching(s, r, p) = {} THEN CollabIds \ Used ELSE Matching(s, r, p),
         NEW row \in Row, rows' = [rows EXCEPT ![i] = row],
         row.sender = s, row.receiver = r, row.post = p, row.status = "PENDING",
         UNCHANGED <<convs, blocks, openPosts>>
  PROVE  Protocol!Request(s, r, p)
  <1> DEFINE R == [k \in CollabIds |-> requestOf(rows[k])]
             new == [sender |-> s, receiver |-> r, post |-> p, status |-> "PENDING"]
             made == {k \in Protocol!Made : [R[k] EXCEPT !.status = "PENDING"] = new}
  <1>1. made = Matching(s, r, p)
    <2>1. ASSUME NEW k \in Used
          PROVE  k \in Matching(s, r, p) <=> [R[k] EXCEPT !.status = "PENDING"] = new
      <3>1. rows[k] # None /\ k \in CollabIds
        BY DEF Used
      <3>2. [R[k] EXCEPT !.status = "PENDING"] =
              [sender |-> rows[k].sender, receiver |-> rows[k].receiver,
               post |-> rows[k].post, status |-> "PENDING"]
        BY <3>1 DEF requestOf
      <3> QED
        BY <3>2 DEF Matching
    <2> QED
      BY <2>1, SameView DEF Matching
  <1>2. \A k \in made : R[k].status \notin {"PENDING", "ACCEPTED"}
    <2>1. \A k \in Used : R[k].status = rows[k].status
      BY DEF Used, requestOf
    <2> QED
      BY <1>1, <2>1 DEF Matching
  <1>3. i \in IF made = {} THEN CollabIds \ Protocol!Made ELSE made
    BY <1>1, SameView
  <1>4. R' = [R EXCEPT ![i] = new]
    <2>1. i \in CollabIds
      BY DEF Matching, Used
    <2>2. rows'[i] = row /\ \A k \in CollabIds \ {i} : rows'[k] = rows[k]
      BY <2>1 DEF BaseInv, TypeOK
    <2>3. requestOf(row) = new
      BY NoneIsNothing DEF requestOf
    <2> HIDE DEF new, made
    <2>4. \A k \in CollabIds : requestOf(rows'[k]) = IF k = i THEN new ELSE requestOf(rows[k])
      BY <2>2, <2>3
    <2> QED
      BY <2>1, <2>4
  <1>5. Protocol!Allowed(s, r, p)
    BY SameView
  <1> QED
    BY <1>2, <1>3, <1>4, <1>5 DEF Protocol!Request

\* Inserting a request, or sending the one row of a request again, is the
\* protocol's Request; an insert that the index refuses changes nothing.
LEMMA SerialRequest ==
  ASSUME BaseInv, SerialInv, NEW w \in Workers, InsertRequest(w) \/ ResendRequest(w)
  PROVE  \/ UNCHANGED <<rows, convs, blocks, openPosts>>
         \/ \E s, r \in Users, p \in Posts \cup {None} : Protocol!Request(s, r, p)
  <1>0. TypeOK /\ Current(w) /\ job[w] \in Job
    BY DEF BaseInv, SerialInv, TypeOK
  <1>1. CASE InsertRequest(w) /\ ~UNCHANGED rows
    <2> DEFINE s == job[w].user
               r == job[w].other
               p == job[w].post
    <2>1. MayAsk(s, r, p) /\ Matching(s, r, p) = {}
      BY <1>0, <1>1 DEF InsertRequest, Current
    <2>2. s \in Users /\ r \in Users /\ p \in Posts \cup {None}
      BY <1>0, <1>1 DEF InsertRequest, BaseInv, JobOK, CreateStages, Job
    <2> DEFINE row == [sender |-> s, receiver |-> r, post |-> p, status |-> "PENDING",
                       month |-> month]
    <2>3. PICK i \in CollabIds \ Used : rows' = [rows EXCEPT ![i] = row]
      BY <1>1 DEF InsertRequest
    <2>4. /\ row \in Row /\ row.sender = s /\ row.receiver = r /\ row.post = p
          /\ row.status = "PENDING"
      BY <1>0, <2>2 DEF Row, STATUSES, TypeOK
    <2>5. UNCHANGED <<convs, blocks, openPosts>>
      BY <1>1 DEF InsertRequest
    <2> HIDE DEF s, r, p, row
    <2> QED
      BY <2>1, <2>2, <2>3, <2>4, <2>5, RequestIsMade
  <1>2. CASE ResendRequest(w)
    <2> DEFINE i == job[w].row
               s == rows[i].sender
               r == rows[i].receiver
               p == rows[i].post
               row == [rows[i] EXCEPT !.status = "PENDING"]
    <2>1. i \in Used
      BY <1>2, RowOfJob DEF ResendRequest
    <2>2. rows[i] \in Row
      BY <1>0, <2>1 DEF TypeOK, Used
    <2>3. /\ MayAsk(s, r, p)
          /\ rows[i].status \notin {"PENDING", "ACCEPTED"}
      BY <1>0, <1>2 DEF ResendRequest, Current, MayAskAgain
    <2>4. Matching(s, r, p) = {i}
      BY <2>1 DEF SerialInv, OneRow, SameRequest, Matching
    <2>5. s \in Users /\ r \in Users /\ p \in Posts \cup {None}
      BY <2>2 DEF Row
    <2>6. rows' = [rows EXCEPT ![i] = row]
      BY <1>0, <1>2, <2>1 DEF ResendRequest, TypeOK, Used
    <2>7. /\ row \in Row /\ row.sender = s /\ row.receiver = r /\ row.post = p
          /\ row.status = "PENDING"
      BY <2>2 DEF Row, STATUSES
    <2>8. UNCHANGED <<convs, blocks, openPosts>>
      BY <1>2 DEF ResendRequest
    <2>9. \A k \in Matching(s, r, p) : rows[k].status \notin {"PENDING", "ACCEPTED"}
      BY <2>3, <2>4
    <2>10. i \in IF Matching(s, r, p) = {} THEN CollabIds \ Used ELSE Matching(s, r, p)
      BY <2>4
    <2> HIDE DEF i, s, r, p, row
    <2> QED
      BY <2>3, <2>5, <2>6, <2>7, <2>8, <2>9, <2>10, RequestIsMade
  <1> QED
    BY <1>1, <1>2 DEF InsertRequest

\* A decline, cancel or completion is the protocol's Close: the row is still
\* in the status its request was let through for.
LEMMA SerialClose ==
  ASSUME BaseInv, SerialInv, NEW w \in Workers, UpdateStatus(w)
  PROVE  \E i \in Protocol!Made : Protocol!Close(i)
  <1> DEFINE i == job[w].row
             to == job[w].to
  <1>1. i \in Used
    BY RowOfJob DEF UpdateStatus, BaseInv, JobOK
  <1>2. to \in STATUSES
    BY ConstantsOK DEF UpdateStatus, BaseInv, JobOK, TypeOK, Job
  <1>3. Protocol!Move(i, rows[i].status, to)
    BY <1>1, <1>2, StatusWriteMoves DEF UpdateStatus
  <1>4. \/ to \in {"DECLINED", "CANCELLED"} /\ rows[i].status = "PENDING"
        \/ /\ to = "COMPLETED" /\ rows[i].status = "ACCEPTED"
           /\ \E u \in Parties(i) : Role[u] = "CREATOR"
    BY DEF UpdateStatus, SerialInv, Current
  <1>5. i \in Protocol!Made /\ Protocol!Pair(i) = Parties(i)
    BY <1>1, SameView
  <1>6. UNCHANGED <<convs, blocks, openPosts>>
    BY DEF UpdateStatus
  <1> HIDE DEF i, to
  <1> QED
    BY <1>3, <1>4, <1>5, <1>6 DEF Protocol!Close

\* A commit is the protocol's Accept: the request is pending, and a
\* conversation that is kept is linked to it already.
LEMMA SerialAccept ==
  ASSUME BaseInv, SerialInv, NEW w \in Workers, CommitAccept(w)
  PROVE  \E i \in Protocol!Made : Protocol!Accept(i)
  <1> DEFINE i == job[w].row
  <1>1. i \in Used
    BY RowOfJob DEF CommitAccept, BaseInv, JobOK, TxStages
  <1>2. rows[i].status = "PENDING"
    BY DEF CommitAccept, SerialInv, Current, TxStages
  <1>3. Protocol!Move(i, "PENDING", "ACCEPTED")
    BY <1>1, <1>2, StatusWriteMoves DEF CommitAccept, STATUSES
  <1>4. i \in Protocol!Made /\ Protocol!Pair(i) = Parties(i)
    BY <1>1, SameView
  <1>5. convs' = [convs EXCEPT ![Parties(i)] = i]
    <2>1. CASE job[w].at = "keep"
      <3>1. convs' = convs /\ convs[Parties(i)] = i
        BY <2>1 DEF CommitAccept, SerialInv, Current
      <3> QED
        BY <3>1 DEF BaseInv, TypeOK
    <2> QED
      BY <2>1 DEF CommitAccept
  <1>6. UNCHANGED <<blocks, openPosts>>
    BY DEF CommitAccept
  <1> HIDE DEF i
  <1> QED
    BY <1>3, <1>4, <1>5, <1>6 DEF Protocol!Accept

\* Every step is one operation of the protocol, or one it does not see.
LEMMA SerialRefines ==
  ASSUME BaseInv, ConvInv, SerialInv, [Next]_vars
  PROVE  [Protocol!Next]_(Protocol!vars)
  <1> DEFINE Unseen == UNCHANGED <<rows, convs, blocks, openPosts>>
  <1>1. Unseen => UNCHANGED Protocol!vars
    BY DEF Protocol!vars, requestOf
  <1>2. ASSUME NEW w \in Workers, InsertRequest(w) \/ ResendRequest(w)
        PROVE  Protocol!Next \/ Unseen
    BY <1>2, SerialRequest DEF Protocol!Next
  <1>3. ASSUME NEW w \in Workers, UpdateStatus(w) \/ CommitAccept(w)
        PROVE  Protocol!Next
    BY <1>3, SerialClose, SerialAccept DEF Protocol!Next
  <1>4. ASSUME UNCHANGED <<rows, convs>>,
               blocks' \subseteq Users \X Users, openPosts' \subseteq Posts
        PROVE  Protocol!Next
    BY <1>4 DEF Protocol!Next, Protocol!Environment, requestOf
  <1>5. ASSUME NEW w \in Workers, Arrive(w)
        PROVE  Protocol!Next \/ Unseen
    <2>1. CASE Unseen
      BY <2>1
    <2>2. CASE /\ UNCHANGED <<rows, convs>>
               /\ \/ \E pr \in MayBlock : Block(w, pr[1], pr[2]) \/ Unblock(w, pr[1], pr[2])
                  \/ \E p \in Posts : SetPostStatus(w, p)
      <3>1. blocks' \subseteq Users \X Users
        BY <2>2, ConstantsOK DEF Block, Unblock, SetPostStatus, BaseInv, TypeOK
      <3>2. openPosts' \subseteq Posts
        BY <2>2 DEF Block, Unblock, SetPostStatus, BaseInv, TypeOK
      <3> QED
        BY <1>4, <2>2, <3>1, <3>2
    <2> QED
      BY <1>5, <2>1, <2>2
         DEF Arrive, RequestCollab, ReadToRespond, ReadToComplete, ReadToCancel,
             StartUpdate, OpenConversation, Block, Unblock, SetPostStatus
  <1>6. ASSUME NEW w \in Workers, OpenCreate(w)
        PROVE  Unseen
    <2>1. convs[job[w].pair] # None
      BY <1>6 DEF OpenCreate, ConvInv, ConvJobOK
    <2> QED
      BY <1>6, <2>1 DEF OpenCreate
  <1>7. ASSUME NEW w \in Workers, Step(w) \/ Abort(w)
        PROVE  Protocol!Next \/ Unseen
    BY <1>2, <1>3, <1>6, <1>7
       DEF Step, CheckQuota, CheckPost, FindExisting, BeginAccept, FindConversation,
           RollbackAccept, OpenFind, OpenCollab, Abort
  <1> HIDE DEF Unseen
  <1>8. NextMonth \/ UNCHANGED vars => Unseen
    BY DEF NextMonth, vars, Unseen
  <1> QED
    BY <1>1, <1>5, <1>7, <1>8 DEF Next

\* ImplementsProtocol: served one at a time, the requests of any number of users
\* keep the promises of CollabProtocol, whatever else fails or restarts.
THEOREM SerialImplements ==
  ASSUME NEW w, Workers = {w}
  PROVE  Spec => ImplementsProtocol
  <1>1. Init => SerialInv
    BY DEF Init, SerialInv, OneRow, Used, Current, Idle, TxStages
  <1>2. BaseInv /\ SerialInv /\ [Next]_vars => SerialInv'
    BY SerialStep
  <1>3. Init => Protocol!Init
    BY DEF Init, Protocol!Init, Pairs, requestOf
  <1>4. BaseInv /\ ConvInv /\ SerialInv /\ [Next]_vars => [Protocol!Next]_(Protocol!vars)
    BY SerialRefines
  <1> QED
    BY ConvInvariant, <1>1, <1>2, <1>3, <1>4, PTL DEF Spec, ImplementsProtocol, Protocol!Spec

=============================================================================
