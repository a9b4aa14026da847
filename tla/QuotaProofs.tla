---------------------------- MODULE QuotaProofs ----------------------------
(***************************************************************************)
(* The monthly quota of collaboration requests, for any number of workers: *)
(* how far requests served at once can overshoot what getCollabRequestQuota *)
(* counts.                                                                 *)
(***************************************************************************)
EXTENDS CollaborationProofs

\* The workers that have been let past the quota for user u, and have not
\* yet found a row to re-send or inserted one.
PassedStages == {"post", "find", "write"}

Passed(u) == {w \in Workers : /\ job[w].at \in PassedStages
                              /\ job[w].row = None
                              /\ job[w].user = u}

\* No row is from the future, and the rows made this month together with the
\* ones about to be made are within the bound.
MonthsOK == \A i \in Used : rows[i].month <= month

Counted == \A u \in Users \ PremiumUsers :
             Cardinality(CreatedThisMonth(u)) + Cardinality(Passed(u))
               <= Quota + Cardinality(Workers) - 1

QuotaInv == MonthsOK /\ Counted

\* The two sets after a step.
CreatedNext(u) == {i \in CollabIds : /\ rows'[i] # None
                                     /\ rows'[i].sender = u
                                     /\ rows'[i].month = month'}

PassedNext(u) == {w \in Workers : /\ job'[w].at \in PassedStages
                                  /\ job'[w].row = None
                                  /\ job'[w].user = u}

CountedNext(u) == Cardinality(CreatedNext(u)) + Cardinality(PassedNext(u))
                    <= Quota + Cardinality(Workers) - 1

---------------------------------------------------------------------------
(* Counting *)

\* Sets of ids and of workers are finite, and no larger than the whole.
LEMMA Sizes ==
  ASSUME NEW C \in SUBSET CollabIds, NEW P \in SUBSET Workers
  PROVE  /\ IsFiniteSet(C) /\ Cardinality(C) \in Nat
         /\ IsFiniteSet(P) /\ Cardinality(P) \in Nat
         /\ Cardinality(P) <= Cardinality(Workers)
         /\ Cardinality(Workers) \in Nat \ {0}
         /\ Quota \in Nat \ {0}
  <1>1. IsFiniteSet(CollabIds) /\ IsFiniteSet(Workers) /\ Workers # {}
    BY ConstantsOK
  <1>2. IsFiniteSet(C) /\ IsFiniteSet(P) /\ Cardinality(P) <= Cardinality(Workers)
    BY <1>1, FS_Subset
  <1>3. Cardinality(Workers) # 0
    BY <1>1, FS_EmptySet
  <1> QED
    BY <1>1, <1>2, <1>3, FS_CardinalityType, ConstantsOK

\* Neither set gains an element.
LEMMA CountShrinks ==
  ASSUME Counted, NEW u \in Users \ PremiumUsers,
         CreatedNext(u) \subseteq CreatedThisMonth(u),
         PassedNext(u) \subseteq Passed(u)
  PROVE  CountedNext(u)
  <1> DEFINE C == CreatedThisMonth(u)
             P == Passed(u)
  <1>1. C \in SUBSET CollabIds /\ P \in SUBSET Workers
    BY DEF CreatedThisMonth, Used, Passed
  <1>2. CreatedNext(u) \in SUBSET CollabIds /\ PassedNext(u) \in SUBSET Workers
    BY DEF CreatedNext, PassedNext
  <1>3. Cardinality(C) + Cardinality(P) <= Quota + Cardinality(Workers) - 1
    BY DEF Counted
  <1>4. /\ Cardinality(CreatedNext(u)) <= Cardinality(C)
        /\ Cardinality(PassedNext(u)) <= Cardinality(P)
    BY <1>1, Sizes, FS_Subset
  <1> HIDE DEF C, P
  <1> QED
    BY <1>1, <1>2, <1>3, <1>4, Sizes DEF CountedNext

\* A worker is let past the quota: then the count was below it.
LEMMA CountPasses ==
  ASSUME NEW u \in Users \ PremiumUsers,
         CreatedNext(u) = CreatedThisMonth(u),
         Cardinality(CreatedThisMonth(u)) < Quota
  PROVE  CountedNext(u)
  <1>1. /\ CreatedThisMonth(u) \in SUBSET CollabIds
        /\ PassedNext(u) \in SUBSET Workers
    BY DEF CreatedThisMonth, Used, PassedNext
  <1> QED
    BY <1>1, Sizes DEF CountedNext

\* One row is made by a worker that had been let past.
LEMMA CountMoves ==
  ASSUME Counted, NEW u \in Users \ PremiumUsers, NEW i \in CollabIds,
         NEW w \in Passed(u),
         CreatedNext(u) \subseteq CreatedThisMonth(u) \cup {i},
         PassedNext(u) \subseteq Passed(u) \ {w}
  PROVE  CountedNext(u)
  <1> DEFINE C == CreatedThisMonth(u)
             P == Passed(u)
  <1>1. C \in SUBSET CollabIds /\ P \in SUBSET Workers
    BY DEF CreatedThisMonth, Used, Passed
  <1>2. CreatedNext(u) \in SUBSET CollabIds /\ PassedNext(u) \in SUBSET Workers
    BY DEF CreatedNext, PassedNext
  <1>3. Cardinality(C) + Cardinality(P) <= Quota + Cardinality(Workers) - 1
    BY DEF Counted
  <1>4. IsFiniteSet(C) /\ IsFiniteSet(P)
    BY <1>1, Sizes
  <1>5. Cardinality(C \cup {i}) <= Cardinality(C) + 1 /\ IsFiniteSet(C \cup {i})
    BY <1>1, <1>4, FS_AddElement, Sizes
  <1>6. Cardinality(P \ {w}) = Cardinality(P) - 1 /\ IsFiniteSet(P \ {w})
    BY <1>4, FS_RemoveElement
  <1>7. /\ Cardinality(CreatedNext(u)) <= Cardinality(C \cup {i})
        /\ Cardinality(PassedNext(u)) <= Cardinality(P \ {w})
    BY <1>5, <1>6, FS_Subset
  <1>8. Cardinality(C \cup {i}) \in Nat /\ Cardinality(P \ {w}) \in Nat
    BY <1>5, <1>6, FS_CardinalityType
  <1> HIDE DEF C, P
  <1> QED
    BY <1>1, <1>2, <1>3, <1>5, <1>6, <1>7, <1>8, Sizes DEF CountedNext

\* A new month: nothing is counted yet.
LEMMA CountRestarts ==
  ASSUME NEW u \in Users, CreatedNext(u) = {}
  PROVE  CountedNext(u)
  <1>1. PassedNext(u) \in SUBSET Workers /\ {} \in SUBSET CollabIds
    BY DEF PassedNext
  <1>2. Cardinality(CreatedNext(u)) = 0
    BY FS_EmptySet
  <1> QED
    BY <1>1, <1>2, Sizes DEF CountedNext

---------------------------------------------------------------------------
(* The steps *)

\* Only CheckQuota lets a worker past the quota.
LEMMA PassedShrinks ==
  ASSUME BaseInv, [Next]_vars, ~\E w \in Workers : CheckQuota(w), NEW u \in Users
  PROVE  PassedNext(u) \subseteq Passed(u)
  <1> SUFFICES ASSUME NEW x \in Workers, job'[x] # job[x],
                      job'[x].at \in PassedStages, job'[x].row = None,
                      job'[x].user = u
               PROVE  /\ job[x].at \in PassedStages
                      /\ job[x].row = None
                      /\ job[x].user = u
    BY DEF PassedNext, Passed
  <1> USE DEF PassedStages
  <1>1. job \in [Workers -> Job]
    BY DEF BaseInv, TypeOK
  <1>2. ~Finish(x)
    BY <1>1 DEF Finish, Idle
  <1>3. ~\E ok : \E next \in {"findConv", "keep", "relink", "insert", "openCollab"} :
            Continue(x, ok, next)
    BY <1>1 DEF Continue, Idle, Job
  <1>4. CASE Arrive(x)
    <2>1. ASSUME NEW i, NEW to, StartUpdate(x, i, to)
          PROVE  FALSE
      <3>1. job'[x].at = "update"
        BY <1>1, <2>1 DEF StartUpdate, Idle
      <3> QED
        BY <3>1
    <2>2. ASSUME NEW s, NEW r, NEW p, RequestCollab(x, s, r, p)
          PROVE  FALSE
      <3>1. job'[x].at = "quota"
        BY <1>1, <2>2 DEF RequestCollab, Idle
      <3> QED
        BY <3>1
    <2>3. ASSUME NEW v, NEW z, OpenConversation(x, v, z)
          PROVE  FALSE
      <3>1. job'[x].at = "openFind"
        BY <1>1, <2>3 DEF OpenConversation, Idle
      <3> QED
        BY <3>1
    <2>4. job' # job
      OBVIOUS
    <2> QED
      BY <1>4, <2>1, <2>2, <2>3, <2>4
      DEF Arrive, ReadToRespond, ReadToComplete, ReadToCancel, Block, Unblock,
          SetPostStatus
  <1>5. CASE CheckPost(x)
    <2>1. job[x].at = "post" /\ \E ok : Continue(x, ok, "find")
      BY <1>5 DEF CheckPost
    <2> QED
      BY <1>1, <2>1 DEF Continue, Idle, Job
  <1>6. CASE FindExisting(x)
    <2>1. job[x].at = "find"
      BY <1>6 DEF FindExisting
    <2>2. CASE Continue(x, TRUE, "write")
      BY <1>1, <2>1, <2>2 DEF Continue, Job
    <2>3. ASSUME NEW i \in Used,
                 job' = [job EXCEPT ![x] =
                           IF rows[i].status \in {"PENDING", "ACCEPTED"} THEN Idle
                           ELSE [Idle EXCEPT !.at = "write", !.row = i]]
          PROVE  FALSE
      <3>1. i # None
        BY NoneIsNothing DEF Used
      <3> QED
        BY <1>1, <2>3, <3>1 DEF Idle
    <2> QED
      BY <1>6, <2>2, <2>3 DEF FindExisting, Matching
  <1>7. CASE OpenCollab(x)
    <2>1. ASSUME NEW i,
                 job' = [job EXCEPT ![x] = [@ EXCEPT !.at = "openCreate", !.row = i]]
          PROVE  FALSE
      BY <1>1, <2>1 DEF Job
    <2> QED
      BY <1>2, <1>7, <2>1 DEF OpenCollab
  <1>8. ~(BeginAccept(x) \/ FindConversation(x) \/ OpenFind(x))
    BY <1>3 DEF BeginAccept, FindConversation, OpenFind
  <1>9. ~(InsertRequest(x) \/ ResendRequest(x) \/ UpdateStatus(x) \/ CommitAccept(x)
          \/ RollbackAccept(x) \/ OpenCreate(x) \/ Abort(x))
    BY <1>2 DEF InsertRequest, ResendRequest, UpdateStatus, CommitAccept,
                RollbackAccept, OpenCreate, Abort
  <1>10. ASSUME NEW w \in Workers \ {x}, Arrive(w) \/ Step(w) \/ Abort(w)
         PROVE  FALSE
    <2>1. UNCHANGED job \/ Fits(w)
      BY <1>10, NextGrows, ArriveFits, StepFits, FinishFits DEF Abort, BaseInv
    <2> QED
      BY <2>1 DEF Fits
  <1> QED
    BY <1>4, <1>5, <1>6, <1>7, <1>8, <1>9, <1>10 DEF Next, Step, NextMonth, vars

\* Rows are only made by InsertRequest: any other step of the month leaves
\* the count as it is.
LEMMA CreatedStays ==
  ASSUME BaseInv, [Next]_vars, UNCHANGED month, ~\E w \in Workers : InsertRequest(w),
         NEW u \in Users
  PROVE  CreatedNext(u) = CreatedThisMonth(u)
  <1>1. Grows
    BY NextGrows
  <1>2. \A i \in CollabIds : rows[i] = None => rows'[i] = None
    <2>1. ASSUME NEW w \in Workers, ResendRequest(w) \/ UpdateStatus(w) \/ CommitAccept(w)
          PROVE  /\ job[w].row \in Used
                 /\ \E to : rows' = [rows EXCEPT ![job[w].row].status = to]
      <3>1. job[w].row # None
        BY <2>1 DEF ResendRequest, UpdateStatus, CommitAccept, BaseInv, JobOK, TxStages
      <3> QED
        BY <2>1, <3>1, RowOfJob DEF ResendRequest, UpdateStatus, CommitAccept
    <2>2. ASSUME NEW w \in Workers, ResendRequest(w) \/ UpdateStatus(w) \/ CommitAccept(w)
          PROVE  \A i \in CollabIds : rows[i] = None => rows'[i] = None
      BY <2>1, <2>2 DEF Used, BaseInv, TypeOK
    <2>3. ASSUME NEW w \in Workers, Arrive(w) \/ Abort(w)
          PROVE  rows' = rows
      BY <2>3, ArriveFits DEF Abort
    <2>4. ASSUME NEW w \in Workers, Step(w), ~InsertRequest(w), ~ResendRequest(w),
                 ~UpdateStatus(w), ~CommitAccept(w)
          PROVE  rows' = rows
      BY <2>4 DEF Step, CheckQuota, CheckPost, FindExisting, BeginAccept,
                  FindConversation, RollbackAccept, OpenFind, OpenCollab, OpenCreate
    <2> QED
      BY <2>2, <2>3, <2>4 DEF Next, NextMonth, vars
  <1> QED
    BY <1>1, <1>2 DEF Grows, CreatedNext, CreatedThisMonth, Used

\* Initially nothing is counted and nobody has passed the check.
LEMMA QuotaInit == Init => QuotaInv
  <1> SUFFICES ASSUME Init PROVE QuotaInv
    OBVIOUS
  <1>1. Used = {} /\ \A u : CreatedThisMonth(u) = {} /\ Passed(u) = {}
    BY DEF Init, Used, CreatedThisMonth, Passed, PassedStages, Idle
  <1>2. Quota \in Nat \ {0} /\ Cardinality(Workers) \in Nat
    BY Sizes
  <1>3. Cardinality({}) = 0
    BY FS_EmptySet
  <1> QED
    BY <1>1, <1>2, <1>3 DEF QuotaInv, MonthsOK, Counted

\* QuotaInv is inductive, relative to BaseInv.
LEMMA QuotaStep ==
  ASSUME BaseInv, QuotaInv, [Next]_vars
  PROVE  QuotaInv'
  <1>1. Grows
    BY NextGrows
  <1>2. month \in Nat /\ (month' = month \/ (month' = month + 1 /\ NextMonth))
    <2>1. ASSUME NEW w \in Workers, Arrive(w) \/ Step(w) \/ Abort(w)
          PROVE  month' = month
      BY <2>1 DEF Arrive, Abort, RequestCollab, ReadToRespond, ReadToComplete,
                  ReadToCancel, StartUpdate, OpenConversation, Block, Unblock,
                  SetPostStatus, Step, CheckQuota, CheckPost, FindExisting,
                  InsertRequest, ResendRequest, UpdateStatus, BeginAccept,
                  FindConversation, CommitAccept, RollbackAccept, OpenFind,
                  OpenCollab, OpenCreate
    <2> QED
      BY <2>1, ConstantsOK DEF Next, NextMonth, vars, BaseInv, TypeOK
  <1>3. MonthsOK'
    <2>1. \A i \in Used : rows[i].month \in Nat
      BY ConstantsOK DEF Used, BaseInv, TypeOK, Row
    <2> QED
      BY <1>1, <1>2, <2>1 DEF QuotaInv, MonthsOK, Grows, Used
  <1>4. ASSUME NEW u \in Users \ PremiumUsers
        PROVE  CountedNext(u)
    <2>1. CASE month' = month + 1
      <3>1. CreatedNext(u) = {}
        <4>1. \A i \in CollabIds : rows'[i] = rows[i]
          BY <1>2, <2>1 DEF NextMonth
        <4>2. \A i \in Used : rows[i].month \in Nat /\ rows[i].month <= month
          BY ConstantsOK DEF QuotaInv, MonthsOK, Used, BaseInv, TypeOK, Row
        <4> QED
          BY <1>2, <2>1, <4>1, <4>2 DEF CreatedNext, Used
      <3> QED
        BY <3>1, CountRestarts
    <2>2. ASSUME UNCHANGED month, NEW w \in Workers, CheckQuota(w)
          PROVE  CountedNext(u)
      <3>1. rows' = rows /\ CreatedNext(u) = CreatedThisMonth(u)
        BY <2>2 DEF CheckQuota, CreatedNext, CreatedThisMonth, Used
      <3>2. job \in [Workers -> Job] /\ Continue(w, underQuota(job[w].user), "post")
        BY <2>2 DEF CheckQuota, BaseInv, TypeOK
      <3>3. CASE underQuota(job[w].user) /\ job[w].user = u
        BY <3>1, <3>3, CountPasses DEF underQuota
      <3>4. CASE ~(underQuota(job[w].user) /\ job[w].user = u)
        <4>1. w \notin PassedNext(u)
          BY <3>2, <3>4 DEF Continue, Idle, Job, PassedNext, PassedStages
        <4>2. \A x \in Workers \ {w} : job'[x] = job[x]
          BY <3>2 DEF Continue
        <4>3. PassedNext(u) \subseteq Passed(u)
          BY <4>1, <4>2 DEF PassedNext, Passed
        <4> QED
          BY <3>1, <4>3, CountShrinks DEF QuotaInv
      <3> QED
        BY <3>3, <3>4
    <2>3. ASSUME UNCHANGED month, NEW w \in Workers, InsertRequest(w)
          PROVE  CountedNext(u)
      <3>1. job \in [Workers -> Job] /\ Finish(w)
        BY <2>3 DEF InsertRequest, BaseInv, TypeOK
      <3>2. PassedNext(u) \subseteq Passed(u) \ {w}
        BY <3>1 DEF Finish, Idle, PassedNext, Passed, PassedStages
      <3>3. CASE UNCHANGED rows
        <4>1. CreatedNext(u) = CreatedThisMonth(u)
          BY <2>3, <3>3 DEF CreatedNext, CreatedThisMonth, Used
        <4> QED
          BY <3>2, <4>1, CountShrinks DEF QuotaInv
      <3>4. ASSUME NEW i \in CollabIds \ Used,
                   rows' = [rows EXCEPT ![i] =
                              [sender |-> job[w].user, receiver |-> job[w].other,
                               post |-> job[w].post, status |-> "PENDING",
                               month |-> month]]
            PROVE  CountedNext(u)
        <4>1. /\ rows'[i].sender = job[w].user
              /\ \A k \in CollabIds \ {i} : rows'[k] = rows[k]
          BY <3>4 DEF BaseInv, TypeOK
        <4>2. CASE job[w].user = u
          <5>1. w \in Passed(u)
            BY <2>3, <4>2 DEF InsertRequest, Passed, PassedStages
          <5>2. CreatedNext(u) \subseteq CreatedThisMonth(u) \cup {i}
            BY <2>3, <4>1 DEF CreatedNext, CreatedThisMonth, Used
          <5> QED
            BY <3>2, <5>1, <5>2, CountMoves DEF QuotaInv
        <4>3. CASE job[w].user # u
          <5>1. CreatedNext(u) \subseteq CreatedThisMonth(u)
            BY <2>3, <4>1, <4>3 DEF CreatedNext, CreatedThisMonth, Used
          <5> QED
            BY <3>2, <5>1, CountShrinks DEF QuotaInv
        <4> QED
          BY <4>2, <4>3
      <3> QED
        BY <2>3, <3>3, <3>4 DEF InsertRequest
    <2>4. ASSUME UNCHANGED month, ~\E w \in Workers : CheckQuota(w),
                 ~\E w \in Workers : InsertRequest(w)
          PROVE  CountedNext(u)
      BY <2>4, PassedShrinks, CreatedStays, CountShrinks DEF QuotaInv
    <2> QED
      BY <1>2, <2>1, <2>2, <2>3, <2>4
  <1>5. Counted'
    BY <1>4 DEF Counted, CountedNext, CreatedNext, PassedNext, CreatedThisMonth,
                Passed, Used
  <1> QED
    BY <1>3, <1>5 DEF QuotaInv

\* A free user's rows of a month exceed the quota by less than the number of
\* requests being served: the quota is exact when they are served one by one.
THEOREM QuotaBound == Spec => []QuotaOvershootBounded
  <1>1. BaseInv /\ QuotaInv => QuotaOvershootBounded
    <2> SUFFICES ASSUME QuotaInv, NEW u \in Users \ PremiumUsers
                 PROVE  Cardinality(CreatedThisMonth(u))
                          <= Quota + Cardinality(Workers) - 1
      BY DEF QuotaOvershootBounded
    <2>1. /\ CreatedThisMonth(u) \in SUBSET CollabIds
          /\ Passed(u) \in SUBSET Workers
      BY DEF CreatedThisMonth, Used, Passed
    <2> QED
      BY <2>1, Sizes DEF QuotaInv, Counted
  <1>2. Init => BaseInv /\ QuotaInv
    BY BaseInit, QuotaInit
  <1>3. BaseInv /\ QuotaInv /\ [Next]_vars => (BaseInv /\ QuotaInv)'
    BY BaseStep, QuotaStep
  <1> QED
    BY <1>1, <1>2, <1>3, PTL DEF Spec

=============================================================================
