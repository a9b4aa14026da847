----------------------------- MODULE Broadcast -----------------------------
(***************************************************************************)
(* Admin broadcasts: creating, approving, rejecting, scheduling, deferring *)
(* and sending them (modules/admin/admin.service.js, the 60 s poller       *)
(* jobs/sendScheduledBroadcasts.js, the fan-out of                         *)
(* services/push/push.service.js).                                         *)
(*                                                                         *)
(* A handler serves one HTTP request of an admin; a poller is one run of   *)
(* the timer.  Runs overlap: every process of the PM2 cluster              *)
(* (ecosystem.config.js) has its own timer, and setInterval starts the     *)
(* next run whether or not the last one is done.  Handlers and pollers     *)
(* both send through executeBroadcast.  As in Collaboration,               *)
(* an action is what a worker does up to and including one database        *)
(* statement, and workers interleave at every await.  Activity-log rows    *)
(* and push messages are left out; the notification rows, which are the    *)
(* durable record of a broadcast, are kept.                                *)
(***************************************************************************)
EXTENDS Integers, FiniteSets

CONSTANTS
  Broadcasts,        \* broadcasts an admin may create, each once
  ApprovalRequired,  \* those whose target is in APPROVAL_REQUIRED_TARGETS
  QuietTargets,      \* those whose target is in QUIET_HOURS_TARGETS
  Templated,         \* those with {{name}} in the title or the body
  Creator,           \* createdById of each broadcast
  Admins,            \* super admins
  Users,             \* users a broadcast may reach
  Handlers,          \* HTTP requests being served at once
  Pollers,           \* runs of the poller that may overlap
  MaxTime,           \* the bound on the clock
  Quiet,             \* the times within quiet hours
  MaxFailures,       \* the bound on database errors and restarts
  None               \* null

VARIABLES
  rows,       \* table Broadcast
  copies,     \* table Notification: rows per broadcast and user
  clock,      \* the time
  job,        \* what each worker is doing
  failures,   \* database errors and restarts so far
  overlapped  \* history: broadcasts two workers have held at once

vars == <<rows, copies, clock, job, failures, overlapped>>

---------------------------------------------------------------------------
(* Data *)

Workers == Handlers \cup Pollers

Times == 0..MaxTime

BroadcastStatus == {"SENT", "SCHEDULED", "PENDING_APPROVAL", "REJECTED", "FAILED"}

Row == [status : BroadcastStatus,
        planned : Times \cup {None},        \* history: the scheduledFor asked for
        scheduledFor : Times \cup {None},
        approvedBy : Admins \cup {None},
        recipientCount : Nat]

ASSUME BroadcastConstants ==
  /\ ApprovalRequired \subseteq Broadcasts
  /\ QuietTargets \subseteq Broadcasts
  /\ Templated \subseteq Broadcasts
  /\ Creator \in [Broadcasts -> Admins]
  /\ IsFiniteSet(Users)
  /\ Handlers \cap Pollers = {}
  /\ MaxTime \in Nat
  /\ Quiet \subseteq Times \ {MaxTime}
  /\ MaxFailures \in Nat
  /\ None \notin Broadcasts \cup Admins \cup BroadcastStatus
  /\ None \notin Times
  /\ None \notin Row

ExecuteStages == {"execute", "notify", "finish", "log"}

Job == [at : {"idle", "approve", "schedule", "reject", "fail"} \cup ExecuteStages,
        b : Broadcasts \cup {None},         \* the broadcast it works on
        queue : SUBSET Broadcasts,          \* poller: those it goes on to
        admin : Admins \cup {None},
        precomputed : BOOLEAN,              \* recipients are resolved already
        recipients : SUBSET Users]

Idle == [at |-> "idle", b |-> None, queue |-> {}, admin |-> None,
         precomputed |-> FALSE, recipients |-> {}]

Status(b) == IF rows[b] = None THEN None ELSE rows[b].status

Holds(w, b) == job[w].b = b \/ b \in job[w].queue

Held(b) == \E w \in Workers : Holds(w, b)

isWithinQuietHours == clock \in Quiet

\* t is the first time after now that is outside quiet hours.
nextAllowedSendTime(t) ==
  /\ t > clock /\ t \notin Quiet
  /\ \A s \in Times : s > clock /\ s < t => s \in Quiet

\* Worker w goes on with the stage of its broadcast.
GoTo(w, stage) == job' = [job EXCEPT ![w].at = stage]

\* The poller takes the next broadcast it has read, a handler answers.
Done(w) ==
  IF job[w].queue = {}
  THEN job' = [job EXCEPT ![w] = Idle]
  ELSE \E b \in job[w].queue :
         job' = [job EXCEPT ![w] = [Idle EXCEPT !.at = "execute", !.b = b,
                                                !.queue = job[w].queue \ {b}]]

Init ==
  /\ rows = [b \in Broadcasts |-> None]
  /\ copies = [b \in Broadcasts |-> [u \in Users |-> 0]]
  /\ clock = 0
  /\ job = [w \in Workers |-> Idle]
  /\ failures = 0
  /\ overlapped = {}

---------------------------------------------------------------------------
(* broadcastNotification *)

\* Mutant: the schedule is looked at before the approval.
NewStatusSchedulesFirst(b, planned) ==
  CASE planned # None -> "SCHEDULED"
    [] planned = None /\ b \in ApprovalRequired -> "PENDING_APPROVAL"
    [] OTHER -> "SENT"

\* A broadcast to be sent at once is SENT before it is sent.
NewStatus(b, planned) ==
  CASE b \in ApprovalRequired -> "PENDING_APPROVAL"
    [] b \notin ApprovalRequired /\ planned # None -> "SCHEDULED"
    [] OTHER -> "SENT"

\* The audience is resolved and the row inserted; the audience may be any.
broadcastNotification(w, b, planned, recipients) ==
  /\ job[w] = Idle
  /\ rows[b] = None
  /\ planned # None => planned > clock
  /\ rows' = [rows EXCEPT ![b] =
                [status |-> NewStatus(b, planned), planned |-> planned,
                 scheduledFor |-> planned, approvedBy |-> None,
                 recipientCount |-> Cardinality(recipients)]]
  /\ IF NewStatus(b, planned) = "SENT"
     THEN job' = [job EXCEPT ![w] = [Idle EXCEPT !.at = "execute", !.b = b,
                                                 !.precomputed = TRUE,
                                                 !.recipients = recipients]]
     ELSE UNCHANGED job
  /\ UNCHANGED <<copies, clock, failures, overlapped>>

---------------------------------------------------------------------------
(* approveBroadcast and rejectBroadcast *)

\* Worker w starts a job on the broadcasts bs.
Overlap(bs) == overlapped' = overlapped \cup {b \in bs : Held(b)}

StartDecision(w, a, b, stage) ==
  /\ job[w] = Idle
  /\ job' = [job EXCEPT ![w] = [Idle EXCEPT !.at = stage, !.b = b, !.admin = a]]
  /\ Overlap({b})
  /\ UNCHANGED <<rows, copies, clock, failures>>

\* Mutant: anything that was not sent may be approved.
ReadToApproveUnsent(w, a, b) ==
  /\ Status(b) \in {"PENDING_APPROVAL", "REJECTED"}
  /\ a # Creator[b]
  /\ StartDecision(w, a, b, "approve")

ReadToApprove(w, a, b) ==
  /\ Status(b) = "PENDING_APPROVAL"
  /\ a # Creator[b]
  /\ StartDecision(w, a, b, "approve")

ReadToReject(w, a, b) ==
  /\ Status(b) = "PENDING_APPROVAL"
  /\ a # Creator[b]
  /\ StartDecision(w, a, b, "reject")

\* Mutant: an approved broadcast is sent at once.
WriteApproverSend(w) ==
  LET b == job[w].b
  IN  /\ job[w].at = "approve"
      /\ rows' = [rows EXCEPT ![b].approvedBy = job[w].admin]
      /\ GoTo(w, "execute")
      /\ UNCHANGED <<copies, clock, failures, overlapped>>

\* The approver is stored whatever the row has become; a broadcast scheduled
\* for later waits for the poller, any other is sent by this request.
WriteApprover(w) ==
  LET b == job[w].b
      later == rows[b].scheduledFor # None /\ rows[b].scheduledFor > clock
  IN  /\ job[w].at = "approve"
      /\ rows' = [rows EXCEPT ![b].approvedBy = job[w].admin]
      /\ GoTo(w, IF later THEN "schedule" ELSE "execute")
      /\ UNCHANGED <<copies, clock, failures, overlapped>>

WriteScheduled(w) ==
  /\ job[w].at = "schedule"
  /\ rows' = [rows EXCEPT ![job[w].b].status = "SCHEDULED"]
  /\ Done(w)
  /\ UNCHANGED <<copies, clock, failures, overlapped>>

WriteRejected(w) ==
  /\ job[w].at = "reject"
  /\ rows' = [rows EXCEPT ![job[w].b].status = "REJECTED"]
  /\ Done(w)
  /\ UNCHANGED <<copies, clock, failures, overlapped>>

---------------------------------------------------------------------------
(* sendDueBroadcasts *)

Due == {b \in Broadcasts : Status(b) = "SCHEDULED" /\ rows[b].scheduledFor <= clock}

StartPollOn(p, due) ==
  /\ job[p] = Idle
  /\ due # {}
  /\ \E b \in due :
       job' = [job EXCEPT ![p] = [Idle EXCEPT !.at = "execute", !.b = b,
                                              !.queue = due \ {b}]]
  /\ Overlap(due)

\* Mutant: a poll claims what it sends by marking it SENT.
StartPollClaims(p) ==
  /\ StartPollOn(p, Due)
  /\ rows' = [b \in Broadcasts |->
                IF b \in Due THEN [rows[b] EXCEPT !.status = "SENT"] ELSE rows[b]]
  /\ UNCHANGED <<copies, clock, failures>>

\* A run reads all that is due and sends it one by one.
StartPoll(p) ==
  /\ StartPollOn(p, Due)
  /\ UNCHANGED <<rows, copies, clock, failures>>

\* A broadcast that threw is marked FAILED, whatever it has become.
MarkFailed(w) ==
  /\ job[w].at = "fail"
  /\ rows' = [rows EXCEPT ![job[w].b].status = "FAILED"]
  /\ Done(w)
  /\ UNCHANGED <<copies, clock, failures, overlapped>>

---------------------------------------------------------------------------
(* executeBroadcast *)

InQuietHours(w) == job[w].b \in QuietTargets /\ isWithinQuietHours

\* Quiet hours put the broadcast off; the log entry is one more await.
Defer(w) ==
  /\ job[w].at = "execute" /\ InQuietHours(w)
  /\ \E t \in Times :
       /\ nextAllowedSendTime(t)
       /\ rows' = [rows EXCEPT ![job[w].b] = [@ EXCEPT !.status = "SCHEDULED",
                                                      !.scheduledFor = t]]
  /\ GoTo(w, "log")
  /\ UNCHANGED <<copies, clock, failures, overlapped>>

LogDeferral(w) ==
  /\ job[w].at = "log"
  /\ Done(w)
  /\ UNCHANGED <<rows, copies, clock, failures, overlapped>>

\* The recipients are resolved anew unless the caller has just done so.
Resolve(w) ==
  /\ job[w].at = "execute" /\ ~InQuietHours(w)
  /\ \E recipients \in IF job[w].precomputed THEN {job[w].recipients}
                       ELSE SUBSET Users :
       job' = [job EXCEPT ![w] =
                 [@ EXCEPT !.at = IF recipients = {} THEN "finish" ELSE "notify",
                           !.recipients = recipients]]
  /\ UNCHANGED <<rows, copies, clock, failures, overlapped>>

\* One notification row per recipient.  sendPersonalizedBroadcast swallows the
\* error of this statement and goes on; otherwise it throws (see Fail).
InsertNotifications(w) ==
  LET j == job[w]
  IN  /\ j.at = "notify"
      /\ \/ copies' = [copies EXCEPT ![j.b] =
                         [u \in Users |-> @[u] + IF u \in j.recipients THEN 1 ELSE 0]]
         \/ j.b \in Templated /\ UNCHANGED copies
      /\ GoTo(w, "finish")
      /\ UNCHANGED <<rows, clock, failures, overlapped>>

\* Mutant: the status is not written.
WriteSentCountOnly(w) ==
  /\ job[w].at = "finish"
  /\ rows' = [rows EXCEPT ![job[w].b] =
                [@ EXCEPT !.recipientCount = Cardinality(job[w].recipients)]]
  /\ Done(w)
  /\ UNCHANGED <<copies, clock, failures, overlapped>>

\* The push is out and the outcome stored.
WriteSent(w) ==
  /\ job[w].at = "finish"
  /\ rows' = [rows EXCEPT ![job[w].b] =
                [@ EXCEPT !.status = "SENT",
                          !.recipientCount = Cardinality(job[w].recipients)]]
  /\ Done(w)
  /\ UNCHANGED <<copies, clock, failures, overlapped>>

---------------------------------------------------------------------------
(* Failures and time *)

\* A statement fails: the request answers with an error; the poller marks the
\* broadcast FAILED, and ignores it if that fails too.
Fail(w) ==
  /\ job[w].at # "idle"
  /\ failures < MaxFailures
  /\ failures' = failures + 1
  /\ IF w \in Pollers /\ job[w].at # "fail" THEN GoTo(w, "fail") ELSE Done(w)
  /\ UNCHANGED <<rows, copies, clock, overlapped>>

\* A process restarts: whatever its workers ws were doing is not gone on with.
Restart ==
  /\ failures < MaxFailures
  /\ failures' = failures + 1
  /\ \E ws \in SUBSET Workers :
       job' = [w \in Workers |-> IF w \in ws THEN Idle ELSE job[w]]
  /\ UNCHANGED <<rows, copies, clock, overlapped>>

Tick ==
  /\ clock < MaxTime
  /\ clock' = clock + 1
  /\ UNCHANGED <<rows, copies, job, failures, overlapped>>

---------------------------------------------------------------------------
Step(w) ==
  \/ WriteApprover(w) \/ WriteScheduled(w) \/ WriteRejected(w) \/ MarkFailed(w)
  \/ Defer(w) \/ LogDeferral(w)
  \/ Resolve(w) \/ InsertNotifications(w) \/ WriteSent(w)

Arrive(w) ==
  \E b \in Broadcasts :
    \/ \E planned \in Times \cup {None}, recipients \in SUBSET Users :
         broadcastNotification(w, b, planned, recipients)
    \/ \E a \in Admins : ReadToApprove(w, a, b) \/ ReadToReject(w, a, b)

Next ==
  \/ \E w \in Handlers : Arrive(w)
  \/ \E p \in Pollers : StartPoll(p)
  \/ \E w \in Workers : Step(w) \/ Fail(w)
  \/ Restart
  \/ Tick

Spec == Init /\ [][Next]_vars

\* Time passes, the interval timer fires, and no handler is starved.  MaxTime
\* is outside quiet hours: every night ends.
FairSpec ==
  /\ Spec
  /\ WF_vars(Tick)
  /\ \A p \in Pollers : WF_vars(StartPoll(p))
  /\ \A w \in Workers : WF_vars(Step(w))

---------------------------------------------------------------------------
(* Properties *)

TypeOK ==
  /\ rows \in [Broadcasts -> Row \cup {None}]
  /\ copies \in [Broadcasts -> [Users -> Nat]]
  /\ clock \in Times
  /\ job \in [Workers -> Job]
  /\ failures \in 0..MaxFailures
  /\ overlapped \subseteq Broadcasts

\* "A single admin can't accidentally blast Everyone by themselves": whoever
\* sees a broadcast of a broad target, or finds it scheduled, sent, failed or
\* being executed, can name a second admin who approved it, however creating,
\* approving, rejecting, deferring and polling interleave.
SignedOff ==
  \A b \in ApprovalRequired :
    \/ Status(b) \in {"SCHEDULED", "SENT", "FAILED"}
    \/ \E u \in Users : copies[b][u] > 0
    \/ \E w \in Workers : job[w].b = b /\ job[w].at \in ExecuteStages
    => rows[b].approvedBy \in Admins \ {Creator[b]}

\* A rejection that meets no request in flight is final: nothing changes the
\* status any more, and if nobody had been notified nobody will be.
RejectionIsFinal ==
  \A b \in Broadcasts :
    LET rejected == Status(b) = "REJECTED"
        unsent == \A u \in Users : copies[b][u] = 0
    IN  /\ [](rejected /\ ~Held(b) => []rejected)
        /\ [](rejected /\ ~Held(b) /\ unsent => []unsent)

\* Nobody is notified before the time the broadcast was scheduled for, by an
\* early approval ("approving early shouldn't fire a broadcast that was
\* deliberately scheduled for later"), a poll or a deferral.
NotBeforePlanned ==
  [][\A b \in Broadcasts : copies'[b] # copies[b] =>
       rows[b].planned = None \/ rows[b].planned <= clock]_vars

\* Of a broadcast that never had two workers on it, every user gets one
\* notification, and at most one more for every failure on the way.
CopiesBounded ==
  \A b \in Broadcasts \ overlapped, u \in Users : copies[b][u] <= 1 + failures

\* All the users a broadcast counts as recipients have a notification row.
Recorded(b) ==
  rows[b].recipientCount <= Cardinality({u \in Users : copies[b][u] > 0})

\* A scheduled broadcast is sent and on record, or visibly failed or rejected,
\* in the end: nights, restarts and overlapping polls only put it off.
ScheduledIsSent ==
  \A b \in Broadcasts \ Templated :
    Status(b) = "SCHEDULED" ~> \/ Status(b) \in {"FAILED", "REJECTED"}
                               \/ Status(b) = "SENT" /\ Recorded(b)

---------------------------------------------------------------------------
(* What a comment says, which a failure refutes *)

\* "In-app notification center entry for every recipient ... this is the
\* durable record they'll still see": of a broadcast that is SENT, once no
\* request is working on it.
SentIsRecorded ==
  \A b \in Broadcasts \ Templated :
    Status(b) = "SENT" /\ ~Held(b) => Recorded(b)

=============================================================================
