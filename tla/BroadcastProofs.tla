-------------------------- MODULE BroadcastProofs --------------------------
(***************************************************************************)
(* Proofs about Broadcast, for any number of broadcasts, admins, users,    *)
(* requests, overlapping polls, nights and failures.                       *)
(***************************************************************************)
EXTENDS Broadcast, FiniteSetTheorems, TLAPS

(***************************************************************************)
(* What a worker is doing is about broadcasts that exist, each once; a     *)
(* poller decides nothing, and who approves is not the creator.            *)
(***************************************************************************)
WorkerOK(w) ==
  /\ job[w].at = "idle" => job[w] = Idle
  /\ job[w].at # "idle" => job[w].b \in Broadcasts
  /\ job[w].b \notin job[w].queue
  /\ \A b \in Broadcasts : Holds(w, b) => rows[b] # None
  /\ w \in Pollers => job[w].at \notin {"approve", "schedule", "reject"}
  /\ job[w].at = "approve" => job[w].admin \in Admins \ {Creator[job[w].b]}

JobOK == \A w \in Workers : WorkerOK(w)

BaseInv == TypeOK /\ JobOK

---------------------------------------------------------------------------
(* Helpers *)

\* null is none of the other values.
LEMMA NoneIsNothing ==
  /\ None \notin Broadcasts /\ None \notin Admins /\ None \notin Times
  /\ None \notin BroadcastStatus /\ None \notin Row
  BY BroadcastConstants

\* A restart leaves each worker idle or at what it was doing.
LEMMA RestartResult ==
  ASSUME Restart
  PROVE  \A w \in Workers : job'[w] = Idle \/ job'[w] = job[w]
  BY DEF Restart

\* Idle is a state of a worker.
LEMMA IdleIsJob == Idle \in Job
  BY DEF Idle, Job

\* Finishing with a broadcast changes the one worker, to idle or to the start
\* of one of the broadcasts that are left.
LEMMA DoneResult ==
  ASSUME TypeOK, NEW w \in Workers, Done(w)
  PROVE  /\ job' \in [Workers -> Job]
         /\ \A v \in Workers \ {w} : job'[v] = job[v]
         /\ \/ job'[w] = Idle /\ job[w].queue = {}
            \/ \E b \in job[w].queue :
                 job'[w] = [Idle EXCEPT !.at = "execute", !.b = b,
                                        !.queue = job[w].queue \ {b}]
  <1>1. job \in [Workers -> Job]
    BY DEF TypeOK
  <1>2. CASE job[w].queue = {}
    BY <1>1, <1>2, IdleIsJob DEF Done
  <1>3. CASE job[w].queue # {}
    <2>1. PICK b \in job[w].queue :
            job' = [job EXCEPT ![w] = [Idle EXCEPT !.at = "execute", !.b = b,
                                                   !.queue = job[w].queue \ {b}]]
      BY <1>3 DEF Done
    <2>2. job[w].queue \subseteq Broadcasts
      BY <1>1 DEF Job
    <2>3. [Idle EXCEPT !.at = "execute", !.b = b, !.queue = job[w].queue \ {b}] \in Job
      BY <2>2 DEF Idle, Job, ExecuteStages
    <2> QED
      BY <1>1, <2>1, <2>3
  <1> QED
    BY <1>2, <1>3

\* Moving on to another stage changes nothing else.
LEMMA GoToResult ==
  ASSUME TypeOK, NEW w \in Workers,
         NEW stage \in {"idle", "approve", "schedule", "reject", "fail"} \cup ExecuteStages,
         GoTo(w, stage)
  PROVE  /\ job' \in [Workers -> Job]
         /\ \A v \in Workers \ {w} : job'[v] = job[v]
         /\ job'[w] = [job[w] EXCEPT !.at = stage]
         /\ job'[w].at = stage /\ job'[w].b = job[w].b
         /\ job'[w].queue = job[w].queue /\ job'[w].admin = job[w].admin
  BY DEF TypeOK, GoTo, Job

\* A worker that is not idle works on a row of the table.
LEMMA BusyOnRow ==
  ASSUME BaseInv, NEW w \in Workers, job[w].at # "idle"
  PROVE  job[w].b \in Broadcasts /\ rows[job[w].b] \in Row
  BY DEF BaseInv, TypeOK, JobOK, WorkerOK, Holds

\* A statement of a worker leaves the table alone or writes the row of the
\* broadcast it works on, whose planned time stays, whose scheduled time only a
\* deferral changes and whose approver only an approval.
LEMMA StepWritesOwnRow ==
  ASSUME BaseInv, NEW w \in Workers, Step(w)
  PROVE  /\ job[w].at # "idle" /\ job[w].b \in Broadcasts
         /\ rows[job[w].b] \in Row
         /\ \/ UNCHANGED rows
            \/ \E r \in Row :
                 /\ rows' = [rows EXCEPT ![job[w].b] = r]
                 /\ r.planned = rows[job[w].b].planned
                 /\ Defer(w) \/ r.scheduledFor = rows[job[w].b].scheduledFor
                 /\ r.approvedBy = IF job[w].at = "approve" THEN job[w].admin
                                   ELSE rows[job[w].b].approvedBy
  <1> DEFINE b == job[w].b
  <1>1. job[w].at # "idle"
    BY DEF Step, WriteApprover, WriteScheduled, WriteRejected, MarkFailed, Defer,
           LogDeferral, Resolve, InsertNotifications, WriteSent
  <1>2. b \in Broadcasts /\ rows[b] \in Row
    BY <1>1, BusyOnRow
  <1>3. CASE WriteApprover(w)
    <2>1. job[w].admin \in Admins
      BY <1>3 DEF WriteApprover, BaseInv, JobOK, WorkerOK
    <2>2. /\ [rows[b] EXCEPT !.approvedBy = job[w].admin] \in Row
          /\ [rows[b] EXCEPT !.approvedBy = job[w].admin].planned = rows[b].planned
          /\ [rows[b] EXCEPT !.approvedBy = job[w].admin].scheduledFor = rows[b].scheduledFor
          /\ [rows[b] EXCEPT !.approvedBy = job[w].admin].approvedBy = job[w].admin
      BY <1>2, <2>1 DEF Row
    <2> QED
      BY <1>1, <1>2, <1>3, <2>2 DEF WriteApprover
  <1>4. CASE WriteScheduled(w) \/ WriteRejected(w) \/ MarkFailed(w)
    <2>1. PICK status \in BroadcastStatus : rows' = [rows EXCEPT ![b].status = status]
      BY <1>4 DEF WriteScheduled, WriteRejected, MarkFailed, BroadcastStatus
    <2>2. /\ [rows[b] EXCEPT !.status = status] \in Row
          /\ [rows[b] EXCEPT !.status = status].planned = rows[b].planned
          /\ [rows[b] EXCEPT !.status = status].scheduledFor = rows[b].scheduledFor
          /\ [rows[b] EXCEPT !.status = status].approvedBy = rows[b].approvedBy
      BY <1>2 DEF Row
    <2>3. job[w].at # "approve"
      BY <1>4 DEF WriteScheduled, WriteRejected, MarkFailed
    <2> QED
      BY <1>1, <1>2, <2>1, <2>2, <2>3
  <1>5. CASE Defer(w)
    <2>1. PICK t \in Times : rows' = [rows EXCEPT ![b] = [@ EXCEPT !.status = "SCHEDULED",
                                                              !.scheduledFor = t]]
      BY <1>5 DEF Defer
    <2> DEFINE r == [rows[b] EXCEPT !.status = "SCHEDULED", !.scheduledFor = t]
    <2>2. r \in Row /\ r.planned = rows[b].planned /\ r.approvedBy = rows[b].approvedBy
      BY <1>2 DEF Row, BroadcastStatus
    <2>3. job[w].at # "approve"
      BY <1>5 DEF Defer
    <2> QED
      BY <1>1, <1>2, <1>5, <2>1, <2>2, <2>3
  <1>6. CASE WriteSent(w)
    <2>1. Cardinality(job[w].recipients) \in Nat
      BY BroadcastConstants, FS_Subset, FS_CardinalityType DEF BaseInv, TypeOK, Job
    <2> DEFINE r == [rows[b] EXCEPT !.status = "SENT",
                                    !.recipientCount = Cardinality(job[w].recipients)]
    <2>2. /\ r \in Row /\ r.planned = rows[b].planned
          /\ r.scheduledFor = rows[b].scheduledFor /\ r.approvedBy = rows[b].approvedBy
      BY <1>2, <2>1 DEF Row, BroadcastStatus
    <2> QED
      BY <1>1, <1>2, <1>6, <2>2 DEF WriteSent
  <1>7. CASE LogDeferral(w) \/ Resolve(w) \/ InsertNotifications(w)
    BY <1>1, <1>2, <1>7 DEF LogDeferral, Resolve, InsertNotifications
  <1> QED
    BY <1>3, <1>4, <1>5, <1>6, <1>7 DEF Step

---------------------------------------------------------------------------
(* Types *)

\* Every variable keeps its type.
LEMMA TypeStep ==
  ASSUME BaseInv, [Next]_vars
  PROVE  TypeOK'
  <1> USE DEF BaseInv
  <1>0. TypeOK /\ JobOK
    OBVIOUS
  <1>1. ASSUME NEW w \in Handlers, NEW b \in Broadcasts,
               NEW planned \in Times \cup {None}, NEW recipients \in SUBSET Users,
               broadcastNotification(w, b, planned, recipients)
        PROVE  TypeOK'
    <2>1. NewStatus(b, planned) \in BroadcastStatus
      BY DEF NewStatus, BroadcastStatus
    <2>2. Cardinality(recipients) \in Nat
      BY BroadcastConstants, FS_Subset, FS_CardinalityType
    <2>3. [status |-> NewStatus(b, planned), planned |-> planned,
           scheduledFor |-> planned, approvedBy |-> None,
           recipientCount |-> Cardinality(recipients)] \in Row
      BY <2>1, <2>2 DEF Row
    <2>4. [Idle EXCEPT !.at = "execute", !.b = b, !.precomputed = TRUE,
                       !.recipients = recipients] \in Job
      BY DEF Idle, Job, ExecuteStages
    <2>5. rows' \in [Broadcasts -> Row \cup {None}]
      BY <1>1, <2>3 DEF broadcastNotification, TypeOK
    <2>6. job' \in [Workers -> Job]
      BY <1>1, <2>4 DEF broadcastNotification, TypeOK, Workers
    <2> QED
      BY <1>1, <2>5, <2>6 DEF broadcastNotification, TypeOK
  <1>2. ASSUME NEW w \in Handlers, NEW b \in Broadcasts, NEW a \in Admins,
               NEW stage \in {"approve", "reject"}, StartDecision(w, a, b, stage)
        PROVE  TypeOK'
    <2>1. [Idle EXCEPT !.at = stage, !.b = b, !.admin = a] \in Job
      BY DEF Idle, Job
    <2>2. job' \in [Workers -> Job]
      BY <1>2, <2>1 DEF StartDecision, TypeOK, Workers
    <2> QED
      BY <1>2, <2>2 DEF StartDecision, Overlap, TypeOK
  <1>3. ASSUME NEW p \in Pollers, StartPoll(p)
        PROVE  TypeOK'
    <2>1. PICK b \in Due :
            job' = [job EXCEPT ![p] = [Idle EXCEPT !.at = "execute", !.b = b,
                                                   !.queue = Due \ {b}]]
      BY <1>3 DEF StartPoll, StartPollOn
    <2>2. [Idle EXCEPT !.at = "execute", !.b = b, !.queue = Due \ {b}] \in Job
      BY DEF Idle, Job, Due, ExecuteStages
    <2>3. job' \in [Workers -> Job]
      BY <2>1, <2>2 DEF TypeOK, Workers
    <2> QED
      BY <1>3, <2>3 DEF StartPoll, StartPollOn, Overlap, Due, TypeOK
  <1>4. ASSUME NEW w \in Workers, Step(w)
        PROVE  TypeOK'
    <2>0. job[w].b \in Broadcasts /\ rows' \in [Broadcasts -> Row \cup {None}]
      BY <1>4, StepWritesOwnRow DEF TypeOK
    <2>1. CASE WriteApprover(w) \/ Defer(w)
      <3>1. job' \in [Workers -> Job]
        BY <1>0, <2>1, GoToResult DEF WriteApprover, Defer, ExecuteStages
      <3> QED
        BY <2>0, <2>1, <3>1 DEF WriteApprover, Defer, TypeOK
    <2>2. CASE WriteScheduled(w) \/ WriteRejected(w) \/ MarkFailed(w)
               \/ LogDeferral(w) \/ WriteSent(w)
      <3>1. job' \in [Workers -> Job]
        BY <1>0, <2>2, DoneResult
           DEF WriteScheduled, WriteRejected, MarkFailed, LogDeferral, WriteSent
      <3> QED
        BY <2>0, <2>2, <3>1
           DEF WriteScheduled, WriteRejected, MarkFailed, LogDeferral, WriteSent, TypeOK
    <2>3. CASE Resolve(w)
      <3>1. PICK recipients \in IF job[w].precomputed THEN {job[w].recipients}
                                ELSE SUBSET Users :
              job' = [job EXCEPT ![w] =
                 [@ EXCEPT !.at = IF recipients = {} THEN "finish" ELSE "notify",
                           !.recipients = recipients]]
        BY <2>3 DEF Resolve
      <3>2. recipients \in SUBSET Users
        BY DEF TypeOK, Job
      <3>3. [job[w] EXCEPT !.at = IF recipients = {} THEN "finish" ELSE "notify",
                           !.recipients = recipients] \in Job
        BY <3>2 DEF TypeOK, Job, ExecuteStages
      <3>4. job' \in [Workers -> Job]
        BY <3>1, <3>3 DEF TypeOK
      <3> QED
        BY <2>3, <3>4 DEF Resolve, TypeOK
    <2>4. CASE InsertNotifications(w)
      <3>1. copies' \in [Broadcasts -> [Users -> Nat]]
        <4>1. [u \in Users |-> copies[job[w].b][u]
                              + IF u \in job[w].recipients THEN 1 ELSE 0] \in [Users -> Nat]
          BY <2>0 DEF TypeOK
        <4> QED
          BY <2>4, <4>1 DEF InsertNotifications, TypeOK
      <3>2. job' \in [Workers -> Job]
        BY <1>0, <2>4, GoToResult DEF InsertNotifications, ExecuteStages
      <3> QED
        BY <2>4, <3>1, <3>2 DEF InsertNotifications, TypeOK
    <2> QED
      BY <1>4, <2>1, <2>2, <2>3, <2>4 DEF Step
  <1>5. ASSUME NEW w \in Workers, Fail(w)
        PROVE  TypeOK'
    <2>1. job' \in [Workers -> Job]
      BY <1>0, <1>5, DoneResult, GoToResult DEF Fail
    <2> QED
      BY <1>5, <2>1, BroadcastConstants DEF Fail, TypeOK
  <1>6. CASE Restart
    <2>1. PICK ws \in SUBSET Workers :
            job' = [w \in Workers |-> IF w \in ws THEN Idle ELSE job[w]]
      BY <1>6 DEF Restart
    <2>2. job' \in [Workers -> Job]
      BY <2>1, IdleIsJob DEF TypeOK
    <2> QED
      BY <1>6, <2>2, BroadcastConstants DEF Restart, TypeOK
  <1>7. CASE Tick
    BY <1>7, BroadcastConstants DEF Tick, TypeOK, Times
  <1>8. CASE UNCHANGED vars
    BY <1>8 DEF vars, TypeOK
  <1> QED
    BY <1>1, <1>2, <1>3, <1>4, <1>5, <1>6, <1>7, <1>8
       DEF Next, Arrive, ReadToApprove, ReadToReject

---------------------------------------------------------------------------
(* Jobs *)

\* Rows are never removed, so what every worker but w holds stays a row.
LEMMA RowsStay ==
  ASSUME BaseInv, [Next]_vars, NEW b \in Broadcasts, rows[b] # None
  PROVE  rows'[b] # None
  <1>1. rows' \in [Broadcasts -> Row \cup {None}]
    BY TypeStep DEF TypeOK
  <1>2. rows \in [Broadcasts -> Row \cup {None}]
    BY DEF BaseInv, TypeOK
  <1>3. CASE UNCHANGED rows
    BY <1>3
  <1>4. ASSUME NEW w \in Workers, Step(w)
        PROVE  rows'[b] # None
    BY <1>2, <1>4, StepWritesOwnRow, NoneIsNothing
  <1>5. ASSUME NEW w \in Handlers, NEW c \in Broadcasts,
               NEW planned \in Times \cup {None}, NEW recipients \in SUBSET Users,
               broadcastNotification(w, c, planned, recipients)
        PROVE  rows'[b] # None
    BY <1>2, <1>5 DEF broadcastNotification
  <1> QED
    BY <1>3, <1>4, <1>5
       DEF Next, Arrive, ReadToApprove, ReadToReject, StartDecision, StartPoll,
           Fail, Restart, Tick, vars

\* An idle worker, and one that starts on, goes on with or goes over to rows
\* of the table, is well.
LEMMA WorkerStays ==
  ASSUME BaseInv, [Next]_vars, NEW w \in Workers, job'[w] = job[w]
  PROVE  WorkerOK(w)'
  BY RowsStay DEF BaseInv, JobOK, WorkerOK, Holds

\* A worker that has become idle is well.
LEMMA WorkerIdle ==
  ASSUME NEW w \in Workers, job'[w] = Idle
  PROVE  WorkerOK(w)'
  BY NoneIsNothing DEF WorkerOK, Holds, Idle

\* So is one that goes on to another stage of the broadcast it holds.
LEMMA WorkerGoesOn ==
  ASSUME BaseInv, [Next]_vars, NEW w \in Workers, NEW stage \in {"execute", "notify", "finish", "log", "fail", "schedule"},
         job[w].at # "idle", stage = "schedule" => w \notin Pollers,
         job'[w].at = stage, job'[w].b = job[w].b, job'[w].queue = job[w].queue
  PROVE  WorkerOK(w)'
  BY RowsStay DEF BaseInv, JobOK, WorkerOK, Holds

\* So is one that goes over to the next broadcast it has read.
LEMMA WorkerDone ==
  ASSUME BaseInv, [Next]_vars, NEW w \in Workers, Done(w)
  PROVE  WorkerOK(w)' /\ \A v \in Workers \ {w} : job'[v] = job[v]
  <1>1. CASE job'[w] = Idle
    BY <1>1, WorkerIdle, DoneResult DEF BaseInv
  <1>2. ASSUME NEW b \in job[w].queue,
               job'[w] = [Idle EXCEPT !.at = "execute", !.b = b,
                                      !.queue = job[w].queue \ {b}]
        PROVE  WorkerOK(w)'
    <2>1. job[w].queue \subseteq Broadcasts
      BY DEF BaseInv, TypeOK, Job
    <2>2. \A c \in job[w].queue : rows[c] # None
      BY <2>1 DEF BaseInv, JobOK, WorkerOK, Holds
    <2>3. \A c \in job[w].queue : rows'[c] # None
      BY <2>1, <2>2, RowsStay
    <2>4. /\ job'[w].at = "execute" /\ job'[w].b = b
          /\ job'[w].queue = job[w].queue \ {b}
      BY <1>2 DEF Idle
    <2> QED
      BY <2>1, <2>3, <2>4 DEF WorkerOK, Holds
  <1> QED
    BY <1>1, <1>2, DoneResult DEF BaseInv

\* Jobs stay consistent.
LEMMA JobStep ==
  ASSUME BaseInv, [Next]_vars
  PROVE  JobOK'
  <1>0. TypeOK /\ JobOK
    BY DEF BaseInv
  <1>1. ASSUME NEW w \in Handlers, NEW b \in Broadcasts,
               NEW planned \in Times \cup {None}, NEW recipients \in SUBSET Users,
               broadcastNotification(w, b, planned, recipients)
        PROVE  JobOK'
    <2>1. w \in Workers /\ w \notin Pollers
      BY BroadcastConstants DEF Workers
    <2>2. \A v \in Workers \ {w} : job'[v] = job[v]
      BY <1>0, <1>1 DEF broadcastNotification, TypeOK
    <2>3. rows'[b] # None
      <3>1. rows'[b] = [status |-> NewStatus(b, planned), planned |-> planned,
                        scheduledFor |-> planned, approvedBy |-> None,
                        recipientCount |-> Cardinality(recipients)]
        BY <1>0, <1>1 DEF broadcastNotification, TypeOK
      <3>2. rows'[b] \in Row
        <4>1. Cardinality(recipients) \in Nat
          BY BroadcastConstants, FS_Subset, FS_CardinalityType
        <4> QED
          BY <3>1, <4>1 DEF Row, NewStatus, BroadcastStatus
      <3> QED
        BY <3>2, NoneIsNothing
    <2>4. WorkerOK(w)'
      <3>1. CASE job'[w] = job[w]
        BY <2>1, <3>1, WorkerStays
      <3>2. CASE job'[w] = [Idle EXCEPT !.at = "execute", !.b = b, !.precomputed = TRUE,
                                       !.recipients = recipients]
        <4>1. job'[w].at = "execute" /\ job'[w].b = b /\ job'[w].queue = {}
          BY <3>2 DEF Idle
        <4> QED
          BY <2>1, <2>3, <4>1 DEF WorkerOK, Holds
      <3> QED
        BY <1>0, <1>1, <2>1, <3>1, <3>2 DEF broadcastNotification, TypeOK
    <2> QED
      BY <2>2, <2>4, WorkerStays DEF JobOK
  <1>2. ASSUME NEW w \in Handlers, NEW b \in Broadcasts, NEW a \in Admins,
               NEW stage \in {"approve", "reject"}, StartDecision(w, a, b, stage),
               Status(b) = "PENDING_APPROVAL", a # Creator[b]
        PROVE  JobOK'
    <2>1. w \in Workers /\ w \notin Pollers
      BY BroadcastConstants DEF Workers
    <2>2. \A v \in Workers \ {w} : job'[v] = job[v]
      BY <1>0, <1>2 DEF StartDecision, TypeOK
    <2>3. /\ job'[w].at = stage /\ job'[w].b = b /\ job'[w].queue = {}
          /\ job'[w].admin = a
      BY <1>0, <1>2, <2>1 DEF StartDecision, TypeOK, Idle
    <2>4. rows'[b] # None
      BY <1>2, NoneIsNothing DEF StartDecision, Status, BroadcastStatus
    <2>5. WorkerOK(w)'
      BY <1>2, <2>1, <2>3, <2>4 DEF WorkerOK, Holds
    <2> QED
      BY <2>2, <2>5, WorkerStays DEF JobOK
  <1>3. ASSUME NEW p \in Pollers, StartPoll(p)
        PROVE  JobOK'
    <2>1. PICK b \in Due :
            job' = [job EXCEPT ![p] = [Idle EXCEPT !.at = "execute", !.b = b,
                                                   !.queue = Due \ {b}]]
      BY <1>3 DEF StartPoll, StartPollOn
    <2>2. p \in Workers /\ \A v \in Workers \ {p} : job'[v] = job[v]
      BY <1>0, <2>1 DEF TypeOK, Workers
    <2>3. job'[p].at = "execute" /\ job'[p].b = b /\ job'[p].queue = Due \ {b}
      BY <1>0, <2>1, <2>2 DEF TypeOK, Idle
    <2>4. \A c \in Due : c \in Broadcasts /\ rows'[c] # None
      BY <1>3, NoneIsNothing DEF StartPoll, Due, Status, BroadcastStatus
    <2>5. WorkerOK(p)'
      BY <2>3, <2>4 DEF WorkerOK, Holds
    <2> QED
      BY <2>2, <2>5, WorkerStays DEF JobOK
  <1>4. ASSUME NEW w \in Workers, Step(w) \/ Fail(w)
        PROVE  JobOK'
    <2>1. CASE Done(w)
      BY <2>1, WorkerDone, WorkerStays DEF JobOK
    <2>2. ASSUME NEW stage \in {"execute", "notify", "finish", "log", "fail", "schedule"},
                 GoTo(w, stage), job[w].at # "idle", stage = "schedule" => w \notin Pollers
          PROVE  JobOK'
      <3>1. /\ job'[w].at = stage /\ job'[w].b = job[w].b
            /\ job'[w].queue = job[w].queue
            /\ \A v \in Workers \ {w} : job'[v] = job[v]
        BY <1>0, <2>2, GoToResult DEF ExecuteStages
      <3>2. WorkerOK(w)'
        BY <2>2, <3>1, WorkerGoesOn
      <3> QED
        BY <3>1, <3>2, WorkerStays DEF JobOK
    <2>3. CASE WriteApprover(w)
      BY <1>0, <2>2, <2>3 DEF WriteApprover, JobOK, WorkerOK
    <2>4. CASE Resolve(w)
      <3>1. PICK recipients :
              job' = [job EXCEPT ![w] =
                 [@ EXCEPT !.at = IF recipients = {} THEN "finish" ELSE "notify",
                           !.recipients = recipients]]
        BY <2>4 DEF Resolve
      <3>2. /\ job'[w].at \in {"finish", "notify"} /\ job'[w].b = job[w].b
            /\ job'[w].queue = job[w].queue
            /\ \A v \in Workers \ {w} : job'[v] = job[v]
        BY <1>0, <3>1 DEF TypeOK, Job
      <3>3. WorkerOK(w)'
        BY <2>4, <3>2, WorkerGoesOn DEF Resolve
      <3> QED
        BY <3>2, <3>3, WorkerStays DEF JobOK
    <2>5. CASE Defer(w) \/ InsertNotifications(w)
      BY <2>2, <2>5 DEF Defer, InsertNotifications
    <2>6. CASE Fail(w)
      BY <2>1, <2>2, <2>6 DEF Fail
    <2> QED
      BY <1>4, <2>1, <2>3, <2>4, <2>5, <2>6
         DEF Step, WriteScheduled, WriteRejected, MarkFailed, LogDeferral, WriteSent
  <1>5. CASE Restart
    <2>1. \A w \in Workers : job'[w] = Idle \/ job'[w] = job[w]
      BY <1>5, RestartResult
    <2>2. rows' = rows
      BY <1>5 DEF Restart
    <2> QED
      BY <2>1, <2>2, WorkerIdle, WorkerStays DEF JobOK
  <1>6. CASE Tick \/ UNCHANGED vars
    BY <1>6, WorkerStays DEF Tick, vars, JobOK
  <1> QED
    BY <1>1, <1>2, <1>3, <1>4, <1>5, <1>6 DEF Next, Arrive, ReadToApprove, ReadToReject

\* Initially no worker does anything.
LEMMA BaseInit == Init => BaseInv
  <1> SUFFICES ASSUME Init PROVE BaseInv
    OBVIOUS
  <1>1. TypeOK
    BY IdleIsJob, BroadcastConstants DEF Init, TypeOK, Times
  <1>2. \A w \in Workers : job[w] = Idle
    BY DEF Init
  <1>3. Idle.at = "idle" /\ Idle.b = None /\ Idle.queue = {}
    BY DEF Idle
  <1>4. JobOK
    BY <1>2, <1>3, NoneIsNothing DEF JobOK, WorkerOK, Holds
  <1> QED
    BY <1>1, <1>4 DEF BaseInv

\* The types, and the consistency of jobs, hold in every reachable state.
THEOREM BroadcastBase == Spec => []BaseInv
  <1>1. BaseInv /\ [Next]_vars => BaseInv'
    BY TypeStep, JobStep DEF BaseInv
  <1> QED
    BY BaseInit, <1>1, PTL DEF Spec

\* TypeOK: the variables of the broadcast model keep their types.
THEOREM BroadcastTypes == Spec => []TypeOK
  <1>1. BaseInv => TypeOK
    BY DEF BaseInv
  <1> QED
    BY BroadcastBase, <1>1, PTL

---------------------------------------------------------------------------
(***************************************************************************)
(* SignedOff is not inductive: a broadcast that waits in a poll's queue,   *)
(* that an approval is about to schedule, or whose sending has failed,     *)
(* must be signed off as well.                                             *)
(***************************************************************************)
Underway(w, b) ==
  \/ job[w].b = b /\ job[w].at \in ExecuteStages \cup {"schedule", "fail"}
  \/ b \in job[w].queue

Released(b) ==
  \/ Status(b) \in {"SCHEDULED", "SENT", "FAILED"}
  \/ \E u \in Users : copies[b][u] > 0
  \/ \E w \in Workers : Underway(w, b)

Signed(b) == rows[b] # None /\ rows[b].approvedBy \in Admins \ {Creator[b]}

SignInv == \A b \in ApprovalRequired : Released(b) => Signed(b)

\* An approval is only ever replaced by one of another second admin.
LEMMA SignedStays ==
  ASSUME BaseInv, [Next]_vars, NEW b \in Broadcasts, Signed(b)
  PROVE  Signed(b)'
  <1>0. rows'[b] # None
    BY RowsStay DEF Signed
  <1>1. CASE UNCHANGED rows
    BY <1>0, <1>1 DEF Signed
  <1>2. ASSUME NEW w \in Workers, Step(w)
        PROVE  Signed(b)'
    <2>1. job[w].at = "approve" => job[w].admin \in Admins \ {Creator[job[w].b]}
      BY DEF BaseInv, JobOK, WorkerOK
    <2> QED
      BY <1>0, <1>2, <2>1, StepWritesOwnRow DEF Signed, BaseInv, TypeOK
  <1>3. ASSUME NEW w \in Handlers, NEW c \in Broadcasts,
               NEW planned \in Times \cup {None}, NEW recipients \in SUBSET Users,
               broadcastNotification(w, c, planned, recipients)
        PROVE  Signed(b)'
    BY <1>0, <1>3 DEF broadcastNotification, Signed, BaseInv, TypeOK
  <1> QED
    BY <1>1, <1>2, <1>3
       DEF Next, Arrive, ReadToApprove, ReadToReject, StartDecision, StartPoll,
           Fail, Restart, Tick, vars

\* A worker that is done with its broadcast has no other one underway than
\* those of its queue.
LEMMA DoneUnderway ==
  ASSUME BaseInv, NEW w \in Workers, Done(w), NEW v \in Workers,
         NEW b \in Broadcasts, Underway(v, b)'
  PROVE  Underway(v, b)
  <1>1. CASE v # w
    BY <1>1, DoneResult DEF Underway, BaseInv
  <1>2. CASE v = w /\ job'[w] = Idle
    BY <1>2, NoneIsNothing DEF Underway, Idle
  <1>3. ASSUME v = w, NEW c \in job[w].queue,
               job'[w] = [Idle EXCEPT !.at = "execute", !.b = c,
                                      !.queue = job[w].queue \ {c}]
        PROVE  Underway(v, b)
    <2>1. job'[w].b = c /\ job'[w].queue = job[w].queue \ {c}
      BY <1>3 DEF Idle
    <2> QED
      BY <1>3, <2>1 DEF Underway
  <1> QED
    BY <1>1, <1>2, <1>3, DoneResult DEF BaseInv

\* A worker that now works on another broadcast than b and has not queued b
\* leaves b as it was.
LEMMA UnderwayOfOne ==
  ASSUME NEW w \in Workers, NEW b, \A v \in Workers : ~Underway(v, b),
         \A v \in Workers \ {w} : job'[v] = job[v],
         job'[w].b # b, b \notin job'[w].queue
  PROVE  \A v \in Workers : ~Underway(v, b)'
  BY DEF Underway

\* Only an approval by a second admin releases a broadcast.
LEMMA ReleasedWhenSigned ==
  ASSUME BaseInv, [Next]_vars, NEW b \in ApprovalRequired, ~Released(b), Released(b)'
  PROVE  Signed(b)'
  <1>0. /\ TypeOK /\ b \in Broadcasts
        /\ Status(b) \notin {"SCHEDULED", "SENT", "FAILED"}
        /\ \A u \in Users : ~(copies[b][u] > 0)
        /\ \A w \in Workers : ~Underway(w, b)
    BY BroadcastConstants DEF BaseInv, Released
  <1>1. ASSUME NEW w \in Handlers, NEW c \in Broadcasts,
               NEW planned \in Times \cup {None}, NEW recipients \in SUBSET Users,
               broadcastNotification(w, c, planned, recipients)
        PROVE  FALSE
    <2>1. CASE c # b
      <3>1. rows'[b] = rows[b] /\ UNCHANGED copies
        BY <1>0, <1>1, <2>1 DEF broadcastNotification, TypeOK
      <3>2. \A v \in Workers : ~Underway(v, b)'
        <4>1. w \in Workers /\ \A v \in Workers \ {w} : job'[v] = job[v]
          BY <1>0, <1>1 DEF broadcastNotification, TypeOK, Workers
        <4>2. CASE UNCHANGED job
          BY <1>0, <4>2 DEF Underway
        <4>3. CASE ~UNCHANGED job
          <5>1. job' = [job EXCEPT ![w] = [Idle EXCEPT !.at = "execute", !.b = c,
                                                       !.precomputed = TRUE,
                                                       !.recipients = recipients]]
            BY <1>1, <4>3 DEF broadcastNotification
          <5>2. job'[w].b = c /\ job'[w].queue = {}
            BY <1>0, <4>1, <5>1 DEF Idle, TypeOK
          <5> QED
            BY <1>0, <2>1, <4>1, <5>2, UnderwayOfOne
        <4> QED
          BY <4>2, <4>3
      <3> QED
        BY <1>0, <3>1, <3>2 DEF Released, Status
    <2>2. CASE c = b
      <3>1. NewStatus(b, planned) = "PENDING_APPROVAL"
        BY DEF NewStatus
      <3>2. rows'[b].status = "PENDING_APPROVAL" /\ UNCHANGED <<copies, job>>
        BY <1>0, <1>1, <2>2, <3>1 DEF broadcastNotification, TypeOK
      <3>3. Status(b)' \notin {"SCHEDULED", "SENT", "FAILED"}
        BY <3>2, NoneIsNothing DEF Status, BroadcastStatus
      <3> QED
        BY <1>0, <3>2, <3>3 DEF Released, Underway
    <2> QED
      BY <2>1, <2>2
  <1>2. ASSUME NEW w \in Handlers, NEW c \in Broadcasts, NEW a \in Admins,
               NEW stage \in {"approve", "reject"}, StartDecision(w, a, c, stage)
        PROVE  FALSE
    <2>1. \A v \in Workers : ~Underway(v, b)'
      BY <1>0, <1>2 DEF StartDecision, TypeOK, Underway, Idle, ExecuteStages
    <2> QED
      BY <1>0, <1>2, <2>1 DEF StartDecision, Released, Status
  <1>3. ASSUME NEW p \in Pollers, StartPoll(p)
        PROVE  FALSE
    <2>1. b \notin Due
      BY <1>0 DEF Due
    <2>2. \A v \in Workers : ~Underway(v, b)'
      BY <1>0, <1>3, <2>1 DEF StartPoll, StartPollOn, TypeOK, Underway, Idle
    <2> QED
      BY <1>0, <1>3, <2>2 DEF StartPoll, Released, Status
  <1>4. ASSUME NEW w \in Workers, Step(w)
        PROVE  Signed(b)'
    <2>1. CASE WriteApprover(w) /\ job[w].b = b
      <3>1. rows'[b] # None
        BY <1>0, <1>4, <2>1, StepWritesOwnRow, RowsStay, NoneIsNothing
      <3>2. rows'[b].approvedBy = job[w].admin
        BY <1>0, <2>1, <1>4, StepWritesOwnRow DEF WriteApprover, TypeOK, Row
      <3> QED
        BY <2>1, <3>1, <3>2 DEF WriteApprover, Signed, BaseInv, JobOK, WorkerOK
    <2>2. CASE WriteRejected(w) /\ job[w].b = b
      <3>1. rows'[b].status = "REJECTED"
        BY <1>0, <1>4, <2>2, StepWritesOwnRow DEF WriteRejected, TypeOK, Row
      <3>2. Status(b)' \notin {"SCHEDULED", "SENT", "FAILED"}
        BY <3>1, NoneIsNothing DEF Status, BroadcastStatus
      <3>3. \A v \in Workers : ~Underway(v, b)'
        BY <1>0, <2>2, DoneUnderway DEF WriteRejected
      <3> QED
        BY <1>0, <2>2, <3>2, <3>3 DEF WriteRejected, Released
    <2>3. CASE job[w].b # b
      <3>1. rows'[b] = rows[b] /\ copies'[b] = copies[b]
        BY <1>0, <1>4, <2>3, StepWritesOwnRow
           DEF Step, WriteApprover, WriteScheduled, WriteRejected, MarkFailed, Defer,
               LogDeferral, Resolve, InsertNotifications, WriteSent, TypeOK
      <3>2. \A v \in Workers : ~Underway(v, b)'
        <4>1. CASE Done(w)
          BY <1>0, <4>1, DoneUnderway
        <4>2. ASSUME NEW stage \in {"schedule", "execute", "notify", "finish", "log"},
                     GoTo(w, stage)
              PROVE  \A v \in Workers : ~Underway(v, b)'
          <5>1. /\ \A v \in Workers \ {w} : job'[v] = job[v]
                /\ job'[w].b = job[w].b /\ job'[w].queue = job[w].queue
            BY <1>0, <4>2, GoToResult DEF ExecuteStages
          <5>2. b \notin job[w].queue
            BY <1>0 DEF Underway
          <5> QED
            BY <1>0, <2>3, <5>1, <5>2, UnderwayOfOne
        <4>3. CASE Resolve(w)
          BY <1>0, <2>3, <4>3 DEF Resolve, TypeOK, Job, Underway
        <4> QED
          BY <1>4, <4>1, <4>2, <4>3
             DEF Step, WriteApprover, WriteScheduled, WriteRejected, MarkFailed, Defer,
                 LogDeferral, InsertNotifications, WriteSent
      <3> QED
        BY <1>0, <3>1, <3>2 DEF Released, Status
    <2>4. CASE job[w].b = b /\ ~WriteApprover(w) /\ ~WriteRejected(w)
      BY <1>0, <1>4, <2>4
         DEF Step, WriteScheduled, MarkFailed, Defer, LogDeferral, Resolve,
             InsertNotifications, WriteSent, Underway, ExecuteStages
    <2> QED
      BY <2>1, <2>2, <2>3, <2>4
  <1>5. ASSUME NEW w \in Workers, Fail(w)
        PROVE  FALSE
    <2>1. \A v \in Workers : ~Underway(v, b)'
      <3>1. CASE Done(w)
        BY <1>0, <3>1, DoneUnderway
      <3>2. CASE w \in Pollers /\ GoTo(w, "fail")
        <4>1. job[w].b # b
          <5>1. job[w].at \in ExecuteStages \cup {"schedule", "fail"} => job[w].b # b
            BY <1>0 DEF Underway
          <5>2. job[w].at \notin {"idle", "approve", "schedule", "reject"}
            BY <1>5, <3>2 DEF Fail, BaseInv, JobOK, WorkerOK
          <5> QED
            BY <1>0, <5>1, <5>2 DEF TypeOK, Job
        <4>2. /\ \A v \in Workers \ {w} : job'[v] = job[v]
              /\ job'[w].b = job[w].b /\ job'[w].queue = job[w].queue
          BY <1>0, <3>2, GoToResult
        <4>3. b \notin job[w].queue
          BY <1>0 DEF Underway
        <4> QED
          BY <1>0, <4>1, <4>2, <4>3, UnderwayOfOne
      <3> QED
        BY <1>5, <3>1, <3>2 DEF Fail
    <2> QED
      BY <1>0, <1>5, <2>1 DEF Fail, Released, Status
  <1>6. CASE Restart
    <2>1. \A v \in Workers : Underway(v, b)' => Underway(v, b)
      <3> SUFFICES ASSUME NEW v \in Workers
                   PROVE  Underway(v, b)' => Underway(v, b)
        OBVIOUS
      <3>1. CASE job'[v] = Idle
        BY <1>0, <3>1, NoneIsNothing DEF Underway, Idle
      <3>2. CASE job'[v] = job[v]
        BY <3>2 DEF Underway
      <3> QED
        BY <1>6, <3>1, <3>2, RestartResult
    <2> QED
      BY <1>0, <1>6, <2>1 DEF Restart, Released, Status
  <1>7. CASE Tick \/ UNCHANGED vars
    BY <1>0, <1>7 DEF Tick, vars, Released, Status, Underway
  <1> QED
    BY <1>1, <1>2, <1>3, <1>4, <1>5, <1>6, <1>7
       DEF Next, Arrive, ReadToApprove, ReadToReject

\* SignedOff: no broadcast of a broad target is scheduled, executed, failed or
\* seen by a user unless a second admin has approved it.
THEOREM BroadcastSignedOff == Spec => []SignedOff
  <1>1. Init => SignInv
    BY BroadcastConstants, NoneIsNothing
       DEF Init, SignInv, Released, Status, BroadcastStatus, Underway, Idle
  <1>2. BaseInv /\ SignInv /\ [Next]_vars => SignInv'
    <2> SUFFICES ASSUME BaseInv, SignInv, [Next]_vars,
                        NEW b \in ApprovalRequired, Released(b)'
                 PROVE  Signed(b)'
      BY DEF SignInv
    <2>1. CASE ~Released(b)
      BY <2>1, ReleasedWhenSigned
    <2>2. CASE Released(b)
      <3>1. Signed(b)
        BY <2>2 DEF SignInv
      <3> QED
        BY <3>1, SignedStays, BroadcastConstants
    <2> QED
      BY <2>1, <2>2
  <1>3. SignInv => SignedOff
    BY DEF SignInv, SignedOff, Released, Underway, Signed
  <1> QED
    BY BroadcastBase, <1>1, <1>2, <1>3, PTL DEF Spec

---------------------------------------------------------------------------
(***************************************************************************)
(* NotBeforePlanned: a row is never scheduled before its planned time, and *)
(* whatever is being executed, or waits in a poll's queue, is past it.     *)
(***************************************************************************)
PlannedOK(b) ==
  rows[b] # None /\ rows[b].planned # None =>
    rows[b].scheduledFor # None /\ rows[b].planned <= rows[b].scheduledFor

TimeHasCome(b) == rows[b].planned = None \/ rows[b].planned <= clock

Executing(w, b) ==
  \/ job[w].b = b /\ job[w].at \in ExecuteStages
  \/ b \in job[w].queue

PlanInv ==
  \A b \in Broadcasts :
    /\ PlannedOK(b)
    /\ \A w \in Workers : Executing(w, b) => TimeHasCome(b)

\* Rows keep the time they were planned for, and it does not come undone.
LEMMA TimeStaysCome ==
  ASSUME BaseInv, [Next]_vars, NEW b \in Broadcasts, rows[b] # None, TimeHasCome(b)
  PROVE  TimeHasCome(b)'
  <1>1. rows'[b].planned = rows[b].planned
    <2>1. ASSUME NEW w \in Workers, Step(w)
          PROVE  rows'[b].planned = rows[b].planned
      BY <2>1, StepWritesOwnRow DEF BaseInv, TypeOK
    <2>2. ASSUME NEW w \in Handlers, NEW c \in Broadcasts,
                 NEW planned \in Times \cup {None}, NEW recipients \in SUBSET Users,
                 broadcastNotification(w, c, planned, recipients)
          PROVE  rows'[b].planned = rows[b].planned
      BY <2>2 DEF broadcastNotification, BaseInv, TypeOK
    <2> QED
      BY <2>1, <2>2
         DEF Next, Arrive, ReadToApprove, ReadToReject, StartDecision, StartPoll,
             Fail, Restart, Tick, vars
  <1>2. clock \in Nat /\ (clock' = clock \/ clock' = clock + 1)
    <2>1. clock \in Nat
      BY BroadcastConstants DEF BaseInv, TypeOK, Times
    <2>2. ASSUME NEW w \in Workers, Step(w)
          PROVE  clock' = clock
      BY <2>2 DEF Step, WriteApprover, WriteScheduled, WriteRejected, MarkFailed, Defer,
                  LogDeferral, Resolve, InsertNotifications, WriteSent
    <2> QED
      BY <2>1, <2>2
         DEF Next, Arrive, broadcastNotification, ReadToApprove, ReadToReject,
             StartDecision, StartPoll, Fail, Restart, Tick, vars
  <1>3. rows[b].planned = None \/ rows[b].planned \in Nat
    BY BroadcastConstants DEF BaseInv, TypeOK, Row, Times
  <1> QED
    BY <1>1, <1>2, <1>3 DEF TimeHasCome

\* A worker that is done is next executing a broadcast of its queue, if any.
LEMMA DoneExecuting ==
  ASSUME BaseInv, NEW w \in Workers, Done(w), NEW v \in Workers,
         NEW b \in Broadcasts, Executing(v, b)'
  PROVE  Executing(v, b)
  <1>1. CASE v # w
    BY <1>1, DoneResult DEF Executing, BaseInv
  <1>2. CASE v = w /\ job'[w] = Idle
    BY <1>2, NoneIsNothing DEF Executing, Idle
  <1>3. ASSUME v = w, NEW c \in job[w].queue,
               job'[w] = [Idle EXCEPT !.at = "execute", !.b = c,
                                      !.queue = job[w].queue \ {c}]
        PROVE  Executing(v, b)
    <2>1. job'[w].b = c /\ job'[w].queue = job[w].queue \ {c}
      BY <1>3 DEF Idle
    <2> QED
      BY <1>3, <2>1 DEF Executing
  <1> QED
    BY <1>1, <1>2, <1>3, DoneResult DEF BaseInv

\* A broadcast begins to be executed only when its time has come.
LEMMA ExecutedInTime ==
  ASSUME BaseInv, PlanInv, [Next]_vars, NEW b \in Broadcasts, NEW v \in Workers,
         Executing(v, b)'
  PROVE  TimeHasCome(b)'
  <1>0. TypeOK
    BY DEF BaseInv
  <1>1. CASE Executing(v, b)
    <2>1. rows[b] # None
      BY <1>1 DEF Executing, BaseInv, JobOK, WorkerOK, Holds
    <2> QED
      BY <1>1, <2>1, TimeStaysCome DEF PlanInv
  <1>2. ASSUME NEW w \in Handlers, NEW c \in Broadcasts,
               NEW planned \in Times \cup {None}, NEW recipients \in SUBSET Users,
               broadcastNotification(w, c, planned, recipients), ~Executing(v, b)
        PROVE  TimeHasCome(b)'
    <2>1. /\ v = w /\ NewStatus(c, planned) = "SENT"
          /\ job'[w] = [Idle EXCEPT !.at = "execute", !.b = c, !.precomputed = TRUE,
                                    !.recipients = recipients]
      BY <1>0, <1>2 DEF broadcastNotification, TypeOK, Executing, Workers
    <2>2. job'[w].b = c /\ job'[w].queue = {}
      BY <2>1 DEF Idle
    <2>3. b = c
      BY <2>1, <2>2 DEF Executing
    <2>4. planned = None
      BY <2>1 DEF NewStatus
    <2> QED
      BY <1>0, <1>2, <2>3, <2>4 DEF broadcastNotification, TypeOK, TimeHasCome
  <1>3. ASSUME NEW w \in Handlers, NEW c \in Broadcasts, NEW a \in Admins,
               NEW stage \in {"approve", "reject"}, StartDecision(w, a, c, stage),
               ~Executing(v, b)
        PROVE  FALSE
    <2>1. w \in Workers /\ \A x \in Workers \ {w} : job'[x] = job[x]
      BY <1>0, <1>3 DEF StartDecision, TypeOK, Workers
    <2>2. job'[w].at = stage /\ job'[w].queue = {}
      BY <1>0, <1>3, <2>1 DEF StartDecision, TypeOK, Idle
    <2> QED
      BY <1>3, <2>1, <2>2 DEF Executing, ExecuteStages
  <1>4. ASSUME NEW p \in Pollers, StartPoll(p), ~Executing(v, b)
        PROVE  TimeHasCome(b)'
    <2>1. v = p /\ b \in Due
      BY <1>0, <1>4 DEF StartPoll, StartPollOn, TypeOK, Executing, Idle, Workers
    <2>2. rows[b] \in Row /\ rows[b].scheduledFor <= clock
      BY <1>0, <2>1, NoneIsNothing DEF Due, Status, TypeOK, BroadcastStatus
    <2>3. PlannedOK(b)
      BY DEF PlanInv
    <2>4. rows[b].planned # None => /\ rows[b].planned \in Int
                                    /\ rows[b].scheduledFor \in Int
                                    /\ rows[b].planned <= rows[b].scheduledFor
      BY <2>2, <2>3, NoneIsNothing, BroadcastConstants DEF PlannedOK, Row, Times
    <2>5. clock \in Int
      BY <1>0, BroadcastConstants DEF TypeOK, Times
    <2> QED
      BY <1>4, <2>2, <2>4, <2>5 DEF StartPoll, TimeHasCome
  <1>5. ASSUME NEW w \in Workers, Step(w), ~Executing(v, b)
        PROVE  TimeHasCome(b)'
    <2>1. ~Done(w)
      BY <1>5, DoneExecuting
    <2>2. CASE WriteApprover(w)
      <3> DEFINE later == rows[job[w].b].scheduledFor # None /\ rows[job[w].b].scheduledFor > clock
      <3>1. /\ job'[w].at = IF later THEN "schedule" ELSE "execute"
            /\ job'[w].b = job[w].b /\ job'[w].queue = job[w].queue
            /\ \A x \in Workers \ {w} : job'[x] = job[x]
        BY <1>0, <2>2, GoToResult DEF WriteApprover, ExecuteStages
      <3>2. v = w /\ job[w].b = b /\ ~later
        BY <1>5, <3>1 DEF Executing, ExecuteStages
      <3>3. rows[b] \in Row
        BY <1>5, <3>2, StepWritesOwnRow
      <3>4. rows[b].planned = None \/ rows[b].planned <= clock
        <4>1. PlannedOK(b) /\ rows[b] # None
          BY <3>3, NoneIsNothing DEF PlanInv
        <4>2. clock \in Int /\ rows[b].planned \in Int \cup {None}
              /\ rows[b].scheduledFor \in Int \cup {None}
          BY <1>0, <3>3, BroadcastConstants DEF TypeOK, Row, Times
        <4>3. rows[b].scheduledFor # None => rows[b].scheduledFor <= clock
          BY <3>2, <4>2
        <4> QED
          BY <4>1, <4>2, <4>3 DEF PlannedOK
      <3> QED
        BY <3>3, <3>4, TimeStaysCome, NoneIsNothing DEF TimeHasCome
    <2>3. CASE Defer(w) \/ InsertNotifications(w)
      <3>1. PICK stage \in {"log", "finish"} : GoTo(w, stage)
        BY <2>3 DEF Defer, InsertNotifications
      <3>2. /\ job'[w].b = job[w].b /\ job'[w].queue = job[w].queue
            /\ \A x \in Workers \ {w} : job'[x] = job[x]
        BY <1>0, <3>1, GoToResult DEF ExecuteStages
      <3>3. job[w].at \in ExecuteStages
        BY <2>3 DEF Defer, InsertNotifications, ExecuteStages
      <3> QED
        BY <1>5, <3>2, <3>3 DEF Executing
    <2>4. CASE Resolve(w)
      BY <1>0, <1>5, <2>4 DEF Resolve, TypeOK, Job, Executing, ExecuteStages
    <2> QED
      BY <1>5, <2>1, <2>2, <2>3, <2>4
         DEF Step, WriteScheduled, WriteRejected, MarkFailed, LogDeferral, WriteSent
  <1>6. ASSUME NEW w \in Workers, Fail(w), ~Executing(v, b)
        PROVE  FALSE
    <2>1. CASE Done(w)
      BY <1>6, <2>1, DoneExecuting
    <2>2. CASE GoTo(w, "fail")
      <3>1. /\ job'[w].at = "fail" /\ job'[w].queue = job[w].queue
            /\ \A x \in Workers \ {w} : job'[x] = job[x]
        BY <1>0, <2>2, GoToResult
      <3> QED
        BY <1>6, <3>1 DEF Executing, ExecuteStages
    <2> QED
      BY <1>6, <2>1, <2>2 DEF Fail
  <1>7. CASE Restart /\ ~Executing(v, b)
    <2>1. CASE job'[v] = Idle
      BY <1>7, <2>1, NoneIsNothing DEF Executing, Idle
    <2>2. CASE job'[v] = job[v]
      BY <1>7, <2>2 DEF Executing
    <2> QED
      BY <1>7, <2>1, <2>2, RestartResult
  <1>8. CASE (Tick \/ UNCHANGED vars) /\ ~Executing(v, b)
    BY <1>8 DEF Tick, vars, Executing
  <1> QED
    BY <1>1, <1>2, <1>3, <1>4, <1>5, <1>6, <1>7, <1>8
       DEF Next, Arrive, ReadToApprove, ReadToReject

\* No statement schedules a row before its planned time.
LEMMA PlannedStays ==
  ASSUME BaseInv, PlanInv, [Next]_vars, NEW b \in Broadcasts
  PROVE  PlannedOK(b)'
  <1>0. TypeOK /\ PlannedOK(b)
    BY DEF BaseInv, PlanInv
  <1>1. CASE rows'[b] = rows[b]
    BY <1>0, <1>1 DEF PlannedOK
  <1>2. ASSUME NEW w \in Handlers, NEW c \in Broadcasts,
               NEW planned \in Times \cup {None}, NEW recipients \in SUBSET Users,
               broadcastNotification(w, c, planned, recipients), rows'[b] # rows[b]
        PROVE  PlannedOK(b)'
    <2>1. /\ rows'[b].planned = planned /\ rows'[b].scheduledFor = planned
      BY <1>0, <1>2 DEF broadcastNotification, TypeOK
    <2>2. planned # None => planned \in Int
      BY <1>2, BroadcastConstants DEF Times
    <2> QED
      BY <2>1, <2>2 DEF PlannedOK
  <1>3. ASSUME NEW w \in Workers, Step(w), rows'[b] # rows[b]
        PROVE  PlannedOK(b)'
    <2>1. job[w].b = b /\ rows[b] \in Row /\ rows'[b] \in Row
      BY <1>0, <1>3, StepWritesOwnRow DEF TypeOK
    <2>2. CASE Defer(w)
      <3>1. PICK t \in Times :
              /\ t > clock
              /\ rows' = [rows EXCEPT ![b] = [@ EXCEPT !.status = "SCHEDULED",
                                                       !.scheduledFor = t]]
        BY <2>1, <2>2 DEF Defer, nextAllowedSendTime
      <3>2. rows'[b].planned = rows[b].planned /\ rows'[b].scheduledFor = t
        BY <1>0, <2>1, <3>1 DEF TypeOK, Row
      <3>3. TimeHasCome(b)
        BY <2>1, <2>2 DEF Defer, PlanInv, Executing, ExecuteStages
      <3>4. clock \in Int /\ t \in Int /\ (rows[b].planned # None => rows[b].planned \in Int)
        BY <1>0, <2>1, BroadcastConstants DEF TypeOK, Row, Times
      <3> QED
        BY <3>1, <3>2, <3>3, <3>4, NoneIsNothing DEF PlannedOK, TimeHasCome
    <2>3. CASE ~Defer(w)
      <3>1. /\ rows'[b].planned = rows[b].planned
            /\ rows'[b].scheduledFor = rows[b].scheduledFor
        BY <1>0, <1>3, <2>1, <2>3, StepWritesOwnRow DEF TypeOK
      <3> QED
        BY <1>0, <2>1, <3>1, NoneIsNothing DEF PlannedOK
    <2> QED
      BY <2>2, <2>3
  <1> QED
    BY <1>1, <1>2, <1>3
       DEF Next, Arrive, ReadToApprove, ReadToReject, StartDecision, StartPoll,
           Fail, Restart, Tick, vars

\* NotBeforePlanned: nobody is notified of a broadcast before its planned time.
THEOREM BroadcastOnTime == Spec => NotBeforePlanned
  <1>1. Init => PlanInv
    BY NoneIsNothing DEF Init, PlanInv, PlannedOK, Executing, Idle
  <1>2. BaseInv /\ PlanInv /\ [Next]_vars => PlanInv'
    BY PlannedStays, ExecutedInTime DEF PlanInv
  <1> DEFINE OnTime == \A b \in Broadcasts : copies'[b] # copies[b] =>
                         rows[b].planned = None \/ rows[b].planned <= clock
  <1>3. BaseInv /\ PlanInv /\ [Next]_vars => [OnTime]_vars
    <2> SUFFICES ASSUME BaseInv, PlanInv, [Next]_vars,
                        NEW b \in Broadcasts, copies'[b] # copies[b]
                 PROVE  TimeHasCome(b)
      BY DEF TimeHasCome
    <2>1. PICK w \in Workers : InsertNotifications(w)
      BY DEF Next, Arrive, broadcastNotification, ReadToApprove, ReadToReject,
             StartDecision, StartPoll, Step, WriteApprover, WriteScheduled,
             WriteRejected, MarkFailed, Defer, LogDeferral, Resolve, WriteSent, Fail,
             Restart, Tick, vars
    <2>2. job[w].b = b /\ job[w].at = "notify"
      BY <2>1 DEF InsertNotifications, BaseInv, TypeOK
    <2> QED
      BY <2>1, <2>2 DEF PlanInv, Executing, ExecuteStages
  <1> QED
    BY BroadcastBase, <1>1, <1>2, <1>3, PTL DEF Spec, NotBeforePlanned

---------------------------------------------------------------------------
(***************************************************************************)
(* CopiesBounded: of a broadcast that two workers never held at once, the  *)
(* regular copy goes out only on the way to "finish", from where it is     *)
(* SENT and never taken up again, unless a failure intervenes.             *)
(***************************************************************************)
Settled(b) ==
  \/ \E w \in Workers : job[w].b = b /\ job[w].at = "finish"
  \/ ~Held(b) /\ Status(b) = "SENT"

OneHolder(b) == \A v, w \in Workers : Holds(v, b) /\ Holds(w, b) => v = w

FewCopies(b) ==
  \A u \in Users : copies[b][u] <= failures + IF Settled(b) THEN 1 ELSE 0

CopiesInv == \A b \in Broadcasts \ overlapped : OneHolder(b) /\ FewCopies(b)

\* A broadcast that no worker takes up or writes about keeps its bound.
LEMMA CopiesUntouched ==
  ASSUME NEW b \in Broadcasts, FewCopies(b), OneHolder(b),
         rows'[b] = rows[b], copies'[b] = copies[b], failures' = failures,
         \A w \in Workers : Holds(w, b)' <=> Holds(w, b),
         \A w \in Workers : (job[w].b = b /\ job[w].at = "finish")
                              <=> (job'[w].b = b /\ job'[w].at = "finish")
  PROVE  OneHolder(b)' /\ FewCopies(b)'
  <1>1. Settled(b)' <=> Settled(b)
    BY DEF Settled, Held, Status
  <1> QED
    BY <1>1 DEF FewCopies, OneHolder

\* One that is not settled, and is taken up by one worker, keeps it as well.
LEMMA CopiesUnsettled ==
  ASSUME TypeOK, NEW b \in Broadcasts, FewCopies(b), ~Settled(b),
         copies'[b] = copies[b], failures' = failures
  PROVE  FewCopies(b)'
  BY BroadcastConstants DEF TypeOK, FewCopies

\* A worker that is done holds what it held, but the broadcast it is done with.
LEMMA DoneHolds ==
  ASSUME BaseInv, NEW w \in Workers, Done(w), NEW v \in Workers, NEW b \in Broadcasts
  PROVE  Holds(v, b)' <=> Holds(v, b) /\ ~(v = w /\ job[w].b = b)
  <1>0. job[w].b \notin job[w].queue
    BY DEF BaseInv, JobOK, WorkerOK
  <1>1. CASE v # w
    BY <1>1, DoneResult DEF Holds, BaseInv
  <1>2. CASE v = w /\ job'[w] = Idle /\ job[w].queue = {}
    BY <1>2, NoneIsNothing DEF Holds, Idle
  <1>3. ASSUME v = w, NEW c \in job[w].queue,
               job'[w] = [Idle EXCEPT !.at = "execute", !.b = c,
                                      !.queue = job[w].queue \ {c}]
        PROVE  Holds(v, b)' <=> Holds(v, b) /\ ~(v = w /\ job[w].b = b)
    <2>1. job'[w].b = c /\ job'[w].queue = job[w].queue \ {c}
      BY <1>3 DEF Idle
    <2> QED
      BY <1>0, <1>3, <2>1 DEF Holds
  <1> QED
    BY <1>1, <1>2, <1>3, DoneResult DEF BaseInv

\* Who has finished with a broadcast is not about to store an outcome.
LEMMA DoneStage ==
  ASSUME TypeOK, NEW w \in Workers, Done(w)
  PROVE  job'[w].at # "finish"
  <1>1. CASE job'[w] = Idle
    BY <1>1 DEF Idle
  <1>2. ASSUME NEW b \in job[w].queue,
               job'[w] = [Idle EXCEPT !.at = "execute", !.b = b,
                                      !.queue = job[w].queue \ {b}]
        PROVE  job'[w].at # "finish"
    BY <1>2 DEF Idle
  <1> QED
    BY <1>1, <1>2, DoneResult

\* What the statements of a worker do to the copies of a broadcast.
LEMMA CopiesStep ==
  ASSUME BaseInv, NEW b \in Broadcasts, OneHolder(b), FewCopies(b),
         NEW w \in Workers, Step(w)
  PROVE  OneHolder(b)' /\ FewCopies(b)'
  <1>0. TypeOK /\ job[w].b \notin job[w].queue
    BY DEF BaseInv, JobOK, WorkerOK
  <1>1. failures' = failures /\ (job[w].b # b => copies'[b] = copies[b])
    <2>1. CASE InsertNotifications(w)
      BY <1>0, <2>1 DEF InsertNotifications, TypeOK
    <2>2. CASE ~InsertNotifications(w)
      BY <2>2 DEF Step, WriteApprover, WriteScheduled, WriteRejected, MarkFailed, Defer,
                  LogDeferral, Resolve, WriteSent
    <2> QED
      BY <2>1, <2>2
  <1>2. CASE Done(w)
    <2>1. \A v \in Workers : Holds(v, b)' => Holds(v, b)
      BY <1>2, DoneHolds
    <2>2. OneHolder(b)'
      BY <2>1 DEF OneHolder
    <2>3. CASE job[w].b # b
      <3>1. rows'[b] = rows[b]
        BY <1>0, <2>3, StepWritesOwnRow DEF TypeOK
      <3>2. \A v \in Workers : (job[v].b = b /\ job[v].at = "finish")
                               <=> (job'[v].b = b /\ job'[v].at = "finish")
        BY <1>0, <1>2, <2>3, DoneResult, DoneStage
      <3>3. \A v \in Workers : Holds(v, b)' <=> Holds(v, b)
        BY <1>2, <2>3, DoneHolds
      <3> QED
        BY <1>1, <2>3, <3>1, <3>2, <3>3, CopiesUntouched
    <2>4. CASE job[w].b = b /\ ~WriteSent(w)
      <3>0. ~InsertNotifications(w)
        BY <1>0, <1>2, GoToResult, DoneStage DEF InsertNotifications, ExecuteStages
      <3>1. job[w].at # "finish" /\ copies'[b] = copies[b]
        BY <2>4, <3>0
           DEF Step, WriteApprover, WriteScheduled, WriteRejected, MarkFailed, Defer,
               LogDeferral, Resolve
      <3>2. ~Settled(b)
        BY <2>4, <3>1 DEF Settled, Held, Holds, OneHolder
      <3> QED
        BY <1>0, <1>1, <2>2, <3>1, <3>2, CopiesUnsettled
    <2>5. CASE job[w].b = b /\ WriteSent(w)
      <3>1. rows'[b].status = "SENT" /\ rows'[b] # None
        <4>1. rows[b] \in Row
          BY <2>5, StepWritesOwnRow
        <4>2. [rows[b] EXCEPT !.status = "SENT",
                              !.recipientCount = Cardinality(job[w].recipients)] \in Row
          <5>1. Cardinality(job[w].recipients) \in Nat
            BY <1>0, BroadcastConstants, FS_Subset, FS_CardinalityType DEF TypeOK, Job
          <5> QED
            BY <4>1, <5>1 DEF Row, BroadcastStatus
        <4> QED
          BY <1>0, <2>5, <4>1, <4>2, NoneIsNothing DEF WriteSent, TypeOK, Row
      <3>2. ~Held(b)'
        BY <1>2, <2>5, DoneHolds DEF Held, OneHolder, Holds
      <3>3. Settled(b)'
        BY <3>1, <3>2 DEF Settled, Status
      <3>4. copies' = copies /\ copies \in [Broadcasts -> [Users -> Nat]] /\ failures \in Nat
        BY <1>0, <2>5, BroadcastConstants DEF WriteSent, TypeOK
      <3>5. FewCopies(b)'
        BY <1>1, <3>3, <3>4 DEF FewCopies
      <3> QED
        BY <2>2, <3>5
    <2> QED
      BY <2>3, <2>4, <2>5
  <1>3. ASSUME NEW stage \in {"schedule", "execute", "notify", "finish", "log"},
               ~Done(w),
               \A v \in Workers \ {w} : job'[v] = job[v],
               job'[w].b = job[w].b, job'[w].queue = job[w].queue, job'[w].at = stage
        PROVE  OneHolder(b)' /\ FewCopies(b)'
    <2>1. \A v \in Workers : Holds(v, b)' <=> Holds(v, b)
      BY <1>3 DEF Holds
    <2>2. OneHolder(b)'
      BY <2>1 DEF OneHolder
    <2>3. CASE job[w].b # b
      <3>1. rows'[b] = rows[b]
        BY <1>0, <2>3, StepWritesOwnRow DEF TypeOK
      <3> QED
        BY <1>1, <1>3, <2>1, <2>3, <3>1, CopiesUntouched
    <2>4. CASE job[w].b = b
      <3>1. job[w].at # "finish"
        BY <1>3 DEF Step, WriteApprover, WriteScheduled, WriteRejected, MarkFailed, Defer,
                    LogDeferral, Resolve, InsertNotifications, WriteSent
      <3>2. ~Settled(b)
        BY <2>4, <3>1 DEF Settled, Held, Holds, OneHolder
      <3>3. CASE copies'[b] = copies[b]
        BY <1>0, <1>1, <2>2, <3>2, <3>3, CopiesUnsettled
      <3>4. CASE InsertNotifications(w) /\ copies'[b] # copies[b]
        <4>1. job'[w].at = "finish"
          BY <1>0, <3>4, GoToResult DEF InsertNotifications, ExecuteStages
        <4>2. Settled(b)'
          BY <1>3, <2>4, <4>1 DEF Settled
        <4>3. \A u \in Users : copies'[b][u] <= copies[b][u] + 1
          BY <1>0, <2>4, <3>4 DEF InsertNotifications, TypeOK
        <4>4. \A u \in Users : copies[b][u] \in Nat /\ copies[b][u] <= failures
          BY <1>0, <3>2, BroadcastConstants DEF FewCopies, TypeOK
        <4>5. /\ failures \in Nat
              /\ \A u \in Users : copies'[b][u] \in Nat
          BY <1>0, <2>4, <3>4, BroadcastConstants DEF InsertNotifications, TypeOK
        <4> QED
          BY <1>1, <2>2, <4>2, <4>3, <4>4, <4>5 DEF FewCopies
      <3>5. CASE ~InsertNotifications(w)
        <4>1. copies' = copies
          BY <3>5 DEF Step, WriteApprover, WriteScheduled, WriteRejected, MarkFailed,
                      Defer, LogDeferral, Resolve, WriteSent
        <4> QED
          BY <3>3, <4>1
      <3> QED
        BY <3>3, <3>4, <3>5
    <2> QED
      BY <2>3, <2>4
  <1>4. CASE WriteApprover(w) \/ Defer(w) \/ InsertNotifications(w)
    <2>1. PICK stage \in {"schedule", "execute", "log", "finish"} : GoTo(w, stage)
      BY <1>4 DEF WriteApprover, Defer, InsertNotifications
    <2> QED
      BY <1>0, <1>2, <1>3, <2>1, GoToResult DEF ExecuteStages
  <1>5. CASE Resolve(w)
    <2>1. PICK recipients :
            job' = [job EXCEPT ![w] =
               [@ EXCEPT !.at = IF recipients = {} THEN "finish" ELSE "notify",
                         !.recipients = recipients]]
      BY <1>5 DEF Resolve
    <2>2. /\ job'[w].at \in {"finish", "notify"} /\ job'[w].b = job[w].b
          /\ job'[w].queue = job[w].queue
          /\ \A v \in Workers \ {w} : job'[v] = job[v]
      BY <1>0, <2>1 DEF TypeOK, Job
    <2> QED
      BY <1>2, <1>3, <2>2
  <1> QED
    BY <1>2, <1>4, <1>5
       DEF Step, WriteScheduled, WriteRejected, MarkFailed, LogDeferral, WriteSent

\* A broadcast that is taken up by one worker, and by no other, is unsettled.
LEMMA CopiesTakenUp ==
  ASSUME BaseInv, NEW b \in Broadcasts, FewCopies(b), ~Held(b), Status(b) # "SENT",
         NEW w \in Workers, \A v \in Workers \ {w} : job'[v] = job[v],
         copies'[b] = copies[b], failures' = failures
  PROVE  OneHolder(b)' /\ FewCopies(b)'
  <1>1. ~Settled(b)
    BY DEF Settled, Held, Holds
  <1>2. OneHolder(b)'
    BY DEF OneHolder, Held, Holds
  <1> QED
    BY <1>1, <1>2, CopiesUnsettled DEF BaseInv

\* Every step keeps the bound of what has not been held by two workers.
LEMMA CopiesKept ==
  ASSUME BaseInv, CopiesInv, [Next]_vars, NEW b \in Broadcasts \ overlapped'
  PROVE  OneHolder(b)' /\ FewCopies(b)'
  <1>0. TypeOK
    BY DEF BaseInv
  <1>1. b \notin overlapped
    <2>1. ASSUME NEW w \in Workers, Step(w)
          PROVE  overlapped' = overlapped
      BY <2>1 DEF Step, WriteApprover, WriteScheduled, WriteRejected, MarkFailed, Defer,
                  LogDeferral, Resolve, InsertNotifications, WriteSent
    <2> QED
      BY <2>1 DEF Next, Arrive, broadcastNotification, ReadToApprove, ReadToReject,
                  StartDecision, StartPoll, StartPollOn, Overlap, Fail, Restart, Tick, vars
  <1>2. OneHolder(b) /\ FewCopies(b)
    BY <1>1 DEF CopiesInv
  <1>3. ASSUME NEW w \in Handlers, NEW c \in Broadcasts,
               NEW planned \in Times \cup {None}, NEW recipients \in SUBSET Users,
               broadcastNotification(w, c, planned, recipients)
        PROVE  OneHolder(b)' /\ FewCopies(b)'
    <2>1. w \in Workers /\ \A v \in Workers \ {w} : job'[v] = job[v]
      BY <1>0, <1>3 DEF broadcastNotification, TypeOK, Workers
    <2>2. UNCHANGED <<copies, failures>>
      BY <1>3 DEF broadcastNotification
    <2>3. CASE c = b
      <3>1. ~Held(b) /\ Status(b) # "SENT"
        BY <1>3, <2>3, NoneIsNothing
           DEF broadcastNotification, Held, BaseInv, JobOK, WorkerOK, Status, BroadcastStatus
      <3> QED
        BY <1>2, <2>1, <2>2, <3>1, CopiesTakenUp
    <2>4. CASE c # b
      <3>1. rows'[b] = rows[b]
        BY <1>0, <1>3, <2>4 DEF broadcastNotification, TypeOK
      <3>2. CASE UNCHANGED job
        BY <1>2, <2>2, <3>1, <3>2, CopiesUntouched DEF Holds
      <3>3. CASE ~UNCHANGED job
        <4>1. /\ job[w].b # b /\ job[w].queue = {}
              /\ job'[w].b = c /\ job'[w].queue = {}
          <5>1. job[w] = Idle
            BY <1>3 DEF broadcastNotification
          <5>2. job[w].b = None /\ job[w].queue = {}
            BY <5>1 DEF Idle
          <5>3. job' = [job EXCEPT ![w] = [Idle EXCEPT !.at = "execute", !.b = c,
                                                       !.precomputed = TRUE,
                                                       !.recipients = recipients]]
            BY <1>3, <3>3 DEF broadcastNotification
          <5>4. job'[w].b = c /\ job'[w].queue = {}
            BY <1>0, <2>1, <5>3 DEF Idle, TypeOK
          <5> QED
            BY <5>2, <5>4, NoneIsNothing
        <4> QED
          BY <1>2, <2>1, <2>2, <2>4, <3>1, <4>1, CopiesUntouched DEF Holds
      <3> QED
        BY <3>2, <3>3
    <2> QED
      BY <2>3, <2>4
  <1>4. ASSUME NEW w \in Handlers, NEW c \in Broadcasts, NEW a \in Admins,
               NEW stage \in {"approve", "reject"}, StartDecision(w, a, c, stage),
               Status(c) = "PENDING_APPROVAL"
        PROVE  OneHolder(b)' /\ FewCopies(b)'
    <2>1. w \in Workers /\ \A v \in Workers \ {w} : job'[v] = job[v]
      BY <1>0, <1>4 DEF StartDecision, TypeOK, Workers
    <2>2. UNCHANGED <<rows, copies, failures>>
      BY <1>4 DEF StartDecision
    <2>3. CASE c = b
      <3>1. ~Held(b)
        BY <1>4, <2>3 DEF StartDecision, Overlap
      <3> QED
        BY <1>2, <1>4, <2>1, <2>2, <2>3, <3>1, CopiesTakenUp
    <2>4. CASE c # b
      <3>1. /\ job[w].b # b /\ job[w].queue = {}
            /\ job'[w].b = c /\ job'[w].queue = {}
        BY <1>0, <1>4, <2>1, NoneIsNothing DEF StartDecision, TypeOK, Idle
      <3> QED
        BY <1>2, <2>1, <2>2, <2>4, <3>1, CopiesUntouched DEF Holds
    <2> QED
      BY <2>3, <2>4
  <1>5. ASSUME NEW p \in Pollers, StartPoll(p)
        PROVE  OneHolder(b)' /\ FewCopies(b)'
    <2>1. PICK c \in Due :
            job' = [job EXCEPT ![p] = [Idle EXCEPT !.at = "execute", !.b = c,
                                                   !.queue = Due \ {c}]]
      BY <1>5 DEF StartPoll, StartPollOn
    <2>2. /\ p \in Workers /\ \A v \in Workers \ {p} : job'[v] = job[v]
          /\ job'[p].at = "execute" /\ job'[p].b = c /\ job'[p].queue = Due \ {c}
      BY <1>0, <2>1 DEF TypeOK, Workers, Idle
    <2>3. UNCHANGED <<rows, copies, failures>>
      BY <1>5 DEF StartPoll
    <2>4. CASE b \in Due
      <3>1. ~Held(b) /\ Status(b) # "SENT"
        BY <1>5, <2>4 DEF StartPoll, StartPollOn, Overlap, Due
      <3> QED
        BY <1>2, <2>2, <2>3, <3>1, CopiesTakenUp
    <2>5. CASE b \notin Due
      <3>1. job[p].at = "idle" /\ job[p].b # b /\ job[p].queue = {}
        BY <1>5, NoneIsNothing DEF StartPoll, StartPollOn, Idle
      <3> QED
        BY <1>2, <2>2, <2>3, <2>5, <3>1, CopiesUntouched DEF Holds
    <2> QED
      BY <2>4, <2>5
  <1>6. ASSUME NEW w \in Workers, Step(w)
        PROVE  OneHolder(b)' /\ FewCopies(b)'
    BY <1>2, <1>6, CopiesStep
  <1>7. ASSUME failures' = failures + 1, copies' = copies,
               \A v \in Workers : Holds(v, b)' => Holds(v, b)
        PROVE  OneHolder(b)' /\ FewCopies(b)'
    <2>1. failures \in Nat /\ \A u \in Users : copies[b][u] \in Nat
      BY <1>0, BroadcastConstants DEF TypeOK
    <2>2. \A u \in Users : copies[b][u] <= failures + 1
      BY <1>2, <2>1 DEF FewCopies
    <2> QED
      BY <1>2, <1>7, <2>1, <2>2 DEF OneHolder, FewCopies
  <1>8. ASSUME NEW w \in Workers, Fail(w)
        PROVE  OneHolder(b)' /\ FewCopies(b)'
    <2>1. \A v \in Workers : Holds(v, b)' => Holds(v, b)
      <3>1. CASE Done(w)
        BY <3>1, DoneHolds
      <3>2. CASE GoTo(w, "fail")
        BY <1>0, <3>2, GoToResult DEF Holds
      <3> QED
        BY <1>8, <3>1, <3>2 DEF Fail
    <2> QED
      BY <1>7, <1>8, <2>1 DEF Fail
  <1>9. CASE Restart
    <2>1. \A v \in Workers : Holds(v, b)' => Holds(v, b)
      <3> SUFFICES ASSUME NEW v \in Workers
                   PROVE  Holds(v, b)' => Holds(v, b)
        OBVIOUS
      <3>1. CASE job'[v] = Idle
        BY <3>1, NoneIsNothing DEF Holds, Idle
      <3>2. CASE job'[v] = job[v]
        BY <3>2 DEF Holds
      <3> QED
        BY <1>9, <3>1, <3>2, RestartResult
    <2> QED
      BY <1>7, <1>9, <2>1 DEF Restart
  <1>10. CASE Tick \/ UNCHANGED vars
    BY <1>2, <1>10 DEF Tick, vars, OneHolder, FewCopies, Settled, Held, Holds, Status
  <1> QED
    BY <1>3, <1>4, <1>5, <1>6, <1>8, <1>9, <1>10
       DEF Next, Arrive, ReadToApprove, ReadToReject

\* CopiesBounded: without two workers on a broadcast, no user is notified of it
\* more often than once and once more per failure.
THEOREM BroadcastCopies == Spec => []CopiesBounded
  <1>1. Init => CopiesInv
    <2> SUFFICES ASSUME Init, NEW b \in Broadcasts
                 PROVE  OneHolder(b) /\ FewCopies(b)
      BY DEF CopiesInv
    <2>1. \A w \in Workers : ~Holds(w, b)
      BY NoneIsNothing DEF Init, Holds, Idle
    <2>2. failures = 0 /\ \A u \in Users : copies[b][u] = 0
      BY DEF Init
    <2> QED
      BY <2>1, <2>2 DEF OneHolder, FewCopies
  <1>2. BaseInv /\ CopiesInv /\ [Next]_vars => CopiesInv'
    BY CopiesKept DEF CopiesInv
  <1>3. BaseInv /\ CopiesInv => CopiesBounded
    <2> SUFFICES ASSUME BaseInv, CopiesInv, NEW b \in Broadcasts \ overlapped,
                        NEW u \in Users
                 PROVE  copies[b][u] <= 1 + failures
      BY DEF CopiesBounded
    <2>1. failures \in Nat /\ copies[b][u] \in Nat
      BY BroadcastConstants DEF BaseInv, TypeOK
    <2> QED
      BY <2>1 DEF CopiesInv, FewCopies
  <1> QED
    BY BroadcastBase, <1>1, <1>2, <1>3, PTL DEF Spec

---------------------------------------------------------------------------
(* A rejection that nobody is at work on is final *)

Unsent(b) == \A u \in Users : copies[b][u] = 0

\* A broadcast whose row is rejected and that no worker holds.
Dismissed(b) == Status(b) = "REJECTED" /\ ~Held(b)

\* Who does not hold a broadcast does not touch it: a statement of a worker
\* writes and notifies about the broadcast it is at, and takes up no other.
LEMMA StepLeavesOthers ==
  ASSUME BaseInv, NEW w \in Workers, Step(w), NEW b \in Broadcasts, ~Holds(w, b)
  PROVE  rows'[b] = rows[b] /\ copies'[b] = copies[b] /\ ~Holds(w, b)'
  <1>0. TypeOK
    BY DEF BaseInv
  <1>1. job[w].b \in Broadcasts /\ job[w].b # b
    BY StepWritesOwnRow DEF Holds
  <1>2. rows'[b] = rows[b]
    BY <1>0, <1>1, StepWritesOwnRow DEF TypeOK
  <1>3. CASE WriteApprover(w) \/ Defer(w)
    <2>1. PICK stage \in {"schedule"} \cup ExecuteStages : GoTo(w, stage)
      BY <1>3 DEF WriteApprover, Defer, ExecuteStages
    <2>2. ~Holds(w, b)'
      BY <1>0, <2>1, GoToResult DEF Holds
    <2> QED
      BY <1>2, <1>3, <2>2 DEF WriteApprover, Defer
  <1>4. CASE WriteScheduled(w) \/ WriteRejected(w) \/ MarkFailed(w)
             \/ LogDeferral(w) \/ WriteSent(w)
    <2>1. ~Holds(w, b)'
      BY <1>0, <1>4, DoneHolds
         DEF WriteScheduled, WriteRejected, MarkFailed, LogDeferral, WriteSent
    <2> QED
      BY <1>2, <1>4, <2>1
         DEF WriteScheduled, WriteRejected, MarkFailed, LogDeferral, WriteSent
  <1>5. CASE Resolve(w)
    BY <1>0, <1>2, <1>5 DEF Resolve, Holds, TypeOK, Job
  <1>6. CASE InsertNotifications(w)
    <2>1. ~Holds(w, b)'
      BY <1>0, <1>6, GoToResult DEF InsertNotifications, Holds, ExecuteStages
    <2>2. copies'[b] = copies[b]
      BY <1>0, <1>1, <1>6 DEF InsertNotifications, TypeOK
    <2> QED
      BY <1>2, <2>1, <2>2
  <1> QED
    BY <1>3, <1>4, <1>5, <1>6 DEF Step

\* No step takes up, rewrites or notifies about a dismissed broadcast: creating
\* needs a free row, a decision one that is pending and a poll one that is due.
LEMMA DismissedStep ==
  ASSUME BaseInv, [Next]_vars, NEW b \in Broadcasts, Dismissed(b)
  PROVE  Dismissed(b)' /\ copies'[b] = copies[b]
  <1>0. TypeOK
    BY DEF BaseInv
  <1>1. /\ Status(b) = "REJECTED" /\ rows[b] # None
        /\ \A v \in Workers : ~Holds(v, b)
    BY NoneIsNothing DEF Dismissed, Held, Status, BroadcastStatus
  <1>2. ASSUME rows'[b] = rows[b], copies'[b] = copies[b],
               \A v \in Workers : ~Holds(v, b)'
        PROVE  Dismissed(b)' /\ copies'[b] = copies[b]
    BY <1>1, <1>2 DEF Dismissed, Held, Status
  <1>3. ASSUME NEW w \in Workers, \A v \in Workers \ {w} : job'[v] = job[v],
               ~Holds(w, b)', rows'[b] = rows[b], copies'[b] = copies[b]
        PROVE  Dismissed(b)' /\ copies'[b] = copies[b]
    BY <1>1, <1>2, <1>3 DEF Holds
  <1>4. ASSUME NEW w \in Handlers, NEW c \in Broadcasts,
               NEW planned \in Times \cup {None}, NEW recipients \in SUBSET Users,
               broadcastNotification(w, c, planned, recipients)
        PROVE  Dismissed(b)' /\ copies'[b] = copies[b]
    <2>1. w \in Workers /\ \A v \in Workers \ {w} : job'[v] = job[v]
      BY <1>0, <1>4 DEF broadcastNotification, TypeOK, Workers
    <2>2. c # b /\ rows'[b] = rows[b] /\ copies'[b] = copies[b]
      BY <1>0, <1>1, <1>4 DEF broadcastNotification, TypeOK
    <2>3. CASE job' = [job EXCEPT ![w] = [Idle EXCEPT !.at = "execute", !.b = c,
                                                      !.precomputed = TRUE,
                                                      !.recipients = recipients]]
      <3>1. job'[w].b = c /\ job'[w].queue = {}
        BY <1>0, <2>1, <2>3 DEF Idle, TypeOK
      <3> QED
        BY <1>3, <2>1, <2>2, <3>1 DEF Holds
    <2>4. CASE UNCHANGED job
      BY <1>1, <1>3, <2>1, <2>2, <2>4 DEF Holds
    <2> QED
      BY <1>4, <2>3, <2>4 DEF broadcastNotification
  <1>5. ASSUME NEW w \in Handlers, NEW c \in Broadcasts, NEW a \in Admins,
               NEW stage \in {"approve", "reject"}, StartDecision(w, a, c, stage),
               Status(c) = "PENDING_APPROVAL"
        PROVE  Dismissed(b)' /\ copies'[b] = copies[b]
    <2>1. w \in Workers /\ \A v \in Workers \ {w} : job'[v] = job[v]
      BY <1>0, <1>5 DEF StartDecision, TypeOK, Workers
    <2>2. c # b
      BY <1>1, <1>5
    <2>3. job'[w].b = c /\ job'[w].queue = {}
      BY <1>0, <1>5, <2>1 DEF StartDecision, TypeOK, Idle
    <2> QED
      BY <1>3, <1>5, <2>1, <2>2, <2>3 DEF StartDecision, Holds
  <1>6. ASSUME NEW p \in Pollers, StartPoll(p)
        PROVE  Dismissed(b)' /\ copies'[b] = copies[b]
    <2>1. PICK c \in Due :
            job' = [job EXCEPT ![p] = [Idle EXCEPT !.at = "execute", !.b = c,
                                                   !.queue = Due \ {c}]]
      BY <1>6 DEF StartPoll, StartPollOn
    <2>2. /\ p \in Workers /\ \A v \in Workers \ {p} : job'[v] = job[v]
          /\ job'[p].b = c /\ job'[p].queue = Due \ {c}
      BY <1>0, <2>1 DEF TypeOK, Workers, Idle
    <2>3. b \notin Due
      BY <1>1 DEF Due
    <2> QED
      BY <1>3, <1>6, <2>2, <2>3 DEF StartPoll, Holds
  <1>7. ASSUME NEW w \in Workers, Step(w)
        PROVE  Dismissed(b)' /\ copies'[b] = copies[b]
    <2>1. \A v \in Workers \ {w} : job'[v] = job[v]
      <3>1. CASE Done(w)
        BY <1>0, <3>1, DoneResult
      <3>2. CASE \E stage \in {"schedule"} \cup ExecuteStages : GoTo(w, stage)
        BY <1>0, <3>2, GoToResult
      <3>3. CASE Resolve(w)
        BY <1>0, <3>3 DEF Resolve, TypeOK
      <3> QED
        BY <1>7, <3>1, <3>2, <3>3
           DEF Step, WriteApprover, WriteScheduled, WriteRejected, MarkFailed, Defer,
               LogDeferral, InsertNotifications, WriteSent, ExecuteStages
    <2> QED
      BY <1>1, <1>3, <1>7, <2>1, StepLeavesOthers
  <1>8. ASSUME NEW w \in Workers, Fail(w)
        PROVE  Dismissed(b)' /\ copies'[b] = copies[b]
    <2>1. \A v \in Workers \ {w} : job'[v] = job[v]
      BY <1>0, <1>8, DoneResult, GoToResult DEF Fail
    <2>2. ~Holds(w, b)'
      <3>1. CASE Done(w)
        BY <1>0, <1>1, <3>1, DoneHolds
      <3>2. CASE GoTo(w, "fail")
        BY <1>0, <1>1, <3>2, GoToResult DEF Holds
      <3> QED
        BY <1>8, <3>1, <3>2 DEF Fail
    <2> QED
      BY <1>3, <1>8, <2>1, <2>2 DEF Fail
  <1>9. CASE Restart
    <2>1. \A v \in Workers : ~Holds(v, b)'
      <3> SUFFICES ASSUME NEW v \in Workers
                   PROVE  ~Holds(v, b)'
        OBVIOUS
      <3>1. CASE job'[v] = Idle
        BY <3>1, NoneIsNothing DEF Holds, Idle
      <3>2. CASE job'[v] = job[v]
        BY <1>1, <3>2 DEF Holds
      <3> QED
        BY <1>9, <3>1, <3>2, RestartResult
    <2> QED
      BY <1>2, <1>9, <2>1 DEF Restart
  <1>10. CASE Tick \/ UNCHANGED vars
    BY <1>1, <1>2, <1>10 DEF Tick, vars, Holds
  <1> QED
    BY <1>4, <1>5, <1>6, <1>7, <1>8, <1>9, <1>10
       DEF Next, Arrive, ReadToApprove, ReadToReject

\* RejectionIsFinal: approvals, polls, deferrals and restarts included, nothing
\* changes the status of a rejected broadcast that no request or poll had in
\* hand, and if nobody had been notified of it nobody ever is.
THEOREM RejectedForGood == Spec => RejectionIsFinal
  <1> SUFFICES ASSUME NEW b \in Broadcasts
               PROVE  Spec =>
                 /\ [](Status(b) = "REJECTED" /\ ~Held(b) => [](Status(b) = "REJECTED"))
                 /\ [](Status(b) = "REJECTED" /\ ~Held(b) /\ Unsent(b) => []Unsent(b))
    BY DEF RejectionIsFinal, Unsent
  <1>1. Dismissed(b) <=> Status(b) = "REJECTED" /\ ~Held(b)
    BY DEF Dismissed
  <1>2. BaseInv /\ [Next]_vars /\ Dismissed(b) => Dismissed(b)'
    BY DismissedStep
  <1>3. BaseInv /\ [Next]_vars /\ Dismissed(b) /\ Unsent(b) => Unsent(b)'
    BY DismissedStep DEF Unsent
  <1> QED
    BY BroadcastBase, <1>1, <1>2, <1>3, PTL DEF Spec

=============================================================================
