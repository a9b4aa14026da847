---------------------------- MODULE ContactProofs ----------------------------
(***************************************************************************)
(* Proofs about two people in contact: their chat, their calls and who     *)
(* follows whom, for any number of requests, messages and calls; and, at   *)
(* the end, of all that module MCContact puts together, what people browse *)
(* among them.                                                             *)
(***************************************************************************)
EXTENDS MCContact, FeedProofs, SequenceTheorems, WellFoundedInduction

---------------------------------------------------------------------------
(* Calls *)

\* The requests about to ring for p.
RingJobs(p) == {w \in Workers : job[w].at = "ring" /\ job[w].user = p}

\* The inductive invariant of calls.
CallInv ==
  /\ calls \in Seq(Call)
  /\ job \in [Workers -> CallJob]
  /\ {current, another, blocked} \subseteq BOOLEAN
  /\ FewRinging

\* What a request of each stage holds.
LEMMA CallFields ==
  ASSUME NEW j \in CallJob
  PROVE  /\ j.at \in {"collaboration", "expireRinging", "ring"} =>
              j \in [at : {"collaboration", "expireRinging", "ring"}, user : People]
         /\ j.at = "update" =>
              j \in [at : {"update"}, call : DOMAIN calls,
                     status : {"ACTIVE", "DECLINED", "ENDED"}]
         /\ j = Idle <=> j.at = "idle"
  BY DEF CallJob, Idle

\* What the table holds.
LEMMA CallRows ==
  ASSUME calls \in Seq(Call)
  PROVE  /\ Len(calls) \in Nat /\ DOMAIN calls = 1..Len(calls)
         /\ \A c \in DOMAIN calls : /\ calls[c] \in Call /\ calls[c].caller \in People
                                    /\ calls[c].status \in CallStatus
  <1>1. Len(calls) \in Nat /\ DOMAIN calls = 1..Len(calls)
    OBVIOUS
  <1>2. ASSUME NEW c \in 1..Len(calls) PROVE calls[c] \in Call
    OBVIOUS
  <1>3. \A row \in Call : row.caller \in People /\ row.status \in CallStatus
    BY DEF Call
  <1> QED
    BY <1>1, <1>2, <1>3

\* Sets of requests are finite.
LEMMA WorkSizes ==
  ASSUME NEW W \in SUBSET Workers
  PROVE  /\ IsFiniteSet(W) /\ Cardinality(W) \in Nat
         /\ Cardinality(W) <= Cardinality(Workers) /\ Cardinality(Workers) \in Nat
  BY BoostConstants, FS_Subset, FS_CardinalityType

\* And so are sets of calls.
LEMMA CallSizes ==
  ASSUME calls \in Seq(Call), NEW R \in SUBSET DOMAIN calls
  PROVE  IsFiniteSet(R) /\ Cardinality(R) \in Nat
  <1>1. IsFiniteSet(DOMAIN calls)
    BY CallRows, FS_Interval
  <1> QED
    BY <1>1, FS_Subset, FS_CardinalityType

\* A step by which no more calls of p ring, and no more are about to.
LEMMA RingingShrinks ==
  ASSUME CallInv, calls' \in Seq(Call), NEW p \in People,
         RingingOf(p)' \subseteq RingingOf(p), RingJobs(p)' \subseteq RingJobs(p)
  PROVE  Cardinality(RingingOf(p)') + Cardinality(RingJobs(p)') <= Cardinality(Workers)
  <1>1. RingingOf(p) \in SUBSET DOMAIN calls /\ RingJobs(p) \in SUBSET Workers
    BY DEF RingingOf, RingJobs
  <1>2. RingingOf(p)' \in SUBSET DOMAIN calls /\ RingJobs(p)' \in SUBSET Workers
    BY <1>1
  <1>3. Cardinality(RingingOf(p)) + Cardinality(RingJobs(p)) <= Cardinality(Workers)
    BY DEF CallInv, FewRinging, RingJobs
  <1>4. /\ Cardinality(RingingOf(p)') <= Cardinality(RingingOf(p))
        /\ Cardinality(RingJobs(p)') <= Cardinality(RingJobs(p))
    BY <1>1, FS_Subset, WorkSizes, CallSizes DEF CallInv
  <1>5. /\ Cardinality(RingingOf(p)) \in Nat /\ Cardinality(RingJobs(p)) \in Nat
        /\ Cardinality(RingingOf(p)') \in Nat /\ Cardinality(RingJobs(p)') \in Nat
        /\ Cardinality(Workers) \in Nat
    BY <1>1, <1>2, WorkSizes, CallSizes, FS_Subset, FS_CardinalityType DEF CallInv
  <1> QED
    BY <1>3, <1>4, <1>5

\* Calls of p that ring are missed.
Missing(p) ==
  \A c \in DOMAIN calls :
    /\ calls'[c].caller = calls[c].caller
    /\ calls'[c].status = IF c \in RingingOf(p) THEN "MISSED" ELSE calls[c].status

\* One call gets a status.
Becoming(q, status) ==
  \A c \in DOMAIN calls :
    /\ calls'[c].caller = calls[c].caller
    /\ calls'[c].status = IF c = q THEN status ELSE calls[c].status

\* A step of worker w to j: what it does to calls, and to which requests.
CallMoves(w, j) ==
  /\ job' = [job EXCEPT ![w] = j] /\ UNCHANGED contactVars
  /\ \/ /\ calls' = calls
        /\ \/ j = Idle
           \/ j.at = "collaboration" /\ ~blocked /\ j.user \in People
           \/ /\ job[w].at = "collaboration" /\ j.at = "expireRinging"
              /\ j.user = job[w].user /\ hasActiveCollaboration
           \/ j.at = "update" /\ Answerable(j.call, j.status) /\ j.call \in DOMAIN calls
     \/ /\ job[w].at = "expireRinging" /\ j.at = "ring" /\ j.user = job[w].user
        /\ calls' \in [DOMAIN calls -> Call] /\ Missing(j.user)
     \/ /\ job[w].at = "ring" /\ j = Idle
        /\ calls' = Append(calls, [caller |-> job[w].user, status |-> "RINGING"])
     \/ /\ job[w].at = "update" /\ j = Idle
        /\ calls' \in [DOMAIN calls -> Call] /\ Becoming(job[w].call, job[w].status)

\* Every step of a request is such a step.
LEMMA CallStepping ==
  ASSUME CallInv, [CallNext]_callVars
  PROVE  \/ \E w \in Workers : \E j \in CallJob : CallMoves(w, j)
         \/ ContactNext /\ UNCHANGED <<calls, job>>
         \/ UNCHANGED callVars
  <1>1. ASSUME NEW w \in Workers, NEW p \in People, CheckBlock(w, p)
        PROVE  \E j \in CallJob : CallMoves(w, j)
    <2>1. PICK j : j = [at |-> "collaboration", user |-> p]
      OBVIOUS
    <2>2. j \in CallJob /\ j.at = "collaboration" /\ j.user = p
      BY <2>1 DEF CallJob
    <2> QED
      BY <1>1, <2>1, <2>2 DEF CheckBlock, Begin, CallMoves
  <1>2. ASSUME NEW w \in Workers, CheckCollaboration(w)
        PROVE  \E j \in CallJob : CallMoves(w, j)
    <2>1. job[w] \in [at : {"collaboration", "expireRinging", "ring"}, user : People]
      BY <1>2, CallFields DEF CheckCollaboration, CallInv
    <2>2. PICK j : j = [job[w] EXCEPT !.at = "expireRinging"]
      OBVIOUS
    <2>3. j \in CallJob /\ j.at = "expireRinging" /\ j.user = job[w].user
      BY <2>1, <2>2 DEF CallJob
    <2>4. CASE hasActiveCollaboration
      BY <1>2, <2>2, <2>3, <2>4 DEF CheckCollaboration, GoTo, CallMoves
    <2>5. CASE ~hasActiveCollaboration
      BY <1>2, <2>5 DEF CheckCollaboration, Finish, CallMoves, CallJob
    <2> QED
      BY <2>4, <2>5
  <1>3. ASSUME NEW w \in Workers, ExpireRinging(w)
        PROVE  \E j \in CallJob : CallMoves(w, j)
    <2>1. job[w] \in [at : {"collaboration", "expireRinging", "ring"}, user : People]
      BY <1>3, CallFields DEF ExpireRinging, CallInv
    <2>2. PICK j : j = [job[w] EXCEPT !.at = "ring"]
      OBVIOUS
    <2>3. j \in CallJob /\ j.at = "ring" /\ j.user = job[w].user
      BY <2>1, <2>2 DEF CallJob
    <2>4. ASSUME NEW c \in DOMAIN calls
          PROVE  /\ calls'[c] \in Call /\ calls'[c].caller = calls[c].caller
                 /\ calls'[c].status = IF c \in RingingOf(j.user) THEN "MISSED"
                                       ELSE calls[c].status
      <3>1. calls[c] \in Call
        BY CallRows DEF CallInv
      <3>2. PICK row : row = [calls[c] EXCEPT !.status = "MISSED"]
        OBVIOUS
      <3>3. row \in Call /\ row.caller = calls[c].caller /\ row.status = "MISSED"
        BY <3>1, <3>2 DEF Call, CallStatus
      <3> QED
        BY <1>3, <2>3, <3>1, <3>2, <3>3 DEF ExpireRinging
    <2> QED
      BY <1>3, <2>2, <2>3, <2>4 DEF ExpireRinging, GoTo, CallMoves, Missing
  <1>4. ASSUME NEW w \in Workers, Ring(w)
        PROVE  \E j \in CallJob : CallMoves(w, j)
    BY <1>4 DEF Ring, Finish, CallMoves, CallJob
  <1>5. ASSUME NEW w \in Workers, NEW c \in DOMAIN calls,
               NEW status \in {"ACTIVE", "DECLINED", "ENDED"}, FindCall(w, c, status)
        PROVE  \E j \in CallJob : CallMoves(w, j)
    <2>1. PICK j : j = [at |-> "update", call |-> c, status |-> status]
      OBVIOUS
    <2>2. j \in CallJob /\ j.at = "update" /\ j.call = c /\ j.status = status
      BY <2>1 DEF CallJob
    <2> QED
      BY <1>5, <2>1, <2>2 DEF FindCall, Begin, CallMoves
  <1>6. ASSUME NEW w \in Workers, UpdateCall(w)
        PROVE  \E j \in CallJob : CallMoves(w, j)
    <2>1. /\ job[w].call \in DOMAIN calls
          /\ job[w].status \in {"ACTIVE", "DECLINED", "ENDED"}
      BY <1>6, CallFields DEF UpdateCall, CallInv
    <2>2. PICK q : q = job[w].call
      OBVIOUS
    <2>3. PICK row : row = [calls[q] EXCEPT !.status = job[w].status]
      OBVIOUS
    <2>4. row \in Call /\ row.caller = calls[q].caller /\ row.status = job[w].status
      BY <2>1, <2>2, <2>3, CallRows DEF CallInv, Call, CallStatus
    <2>5. calls' = [calls EXCEPT ![q] = row]
      BY <1>6, <2>2, <2>3 DEF UpdateCall
    <2>6. ASSUME NEW c \in DOMAIN calls
          PROVE  /\ calls'[c] \in Call /\ calls'[c].caller = calls[c].caller
                 /\ calls'[c].status = IF c = q THEN job[w].status ELSE calls[c].status
      BY <2>4, <2>5, CallRows DEF CallInv
    <2>7. calls' \in [DOMAIN calls -> Call]
      BY <2>5, <2>6
    <2> QED
      BY <1>6, <2>2, <2>6, <2>7 DEF UpdateCall, Finish, CallMoves, CallJob, Becoming
  <1> QED
    BY <1>1, <1>2, <1>3, <1>4, <1>5, <1>6 DEF CallNext

\* A table with a row more, or with the same rows.
LEMMA CallTable ==
  ASSUME CallInv, NEW w \in Workers, NEW j \in CallJob, CallMoves(w, j)
  PROVE  /\ calls' \in Seq(Call) /\ DOMAIN calls \subseteq DOMAIN calls'
         /\ \/ /\ DOMAIN calls' = DOMAIN calls /\ Len(calls') = Len(calls)
               /\ \/ calls' = calls
                  \/ /\ job[w].at = "expireRinging" /\ j.at = "ring" /\ j.user = job[w].user
                     /\ Missing(j.user)
                  \/ /\ job[w].at = "update" /\ j = Idle
                     /\ job[w].status \in {"ACTIVE", "DECLINED", "ENDED"}
                     /\ Becoming(job[w].call, job[w].status)
            \/ /\ job[w].at = "ring" /\ j = Idle /\ Len(calls) + 1 \notin DOMAIN calls
               /\ DOMAIN calls' = DOMAIN calls \cup {Len(calls) + 1}
               /\ calls'[Len(calls) + 1] = [caller |-> job[w].user, status |-> "RINGING"]
               /\ \A c \in DOMAIN calls : calls'[c] = calls[c]
  <1>1. ASSUME calls' \in [DOMAIN calls -> Call]
        PROVE  calls' \in Seq(Call) /\ DOMAIN calls' = DOMAIN calls /\ Len(calls') = Len(calls)
    <2>1. calls' \in [1..Len(calls) -> Call] /\ Len(calls) \in Nat
      BY <1>1, CallRows DEF CallInv
    <2>2. calls' \in Seq(Call)
      BY <2>1, SeqDef
    <2>3. DOMAIN calls' = DOMAIN calls
      BY <1>1
    <2>4. Len(calls') = Len(calls)
      BY <2>1, <2>2
    <2> QED
      BY <2>2, <2>3, <2>4
  <1>2. CASE calls' = calls
    BY <1>2 DEF CallInv
  <1>3. CASE /\ job[w].at = "ring" /\ j = Idle
             /\ calls' = Append(calls, [caller |-> job[w].user, status |-> "RINGING"])
    <2>1. job[w].user \in People
      BY <1>3, CallFields DEF CallInv
    <2>2. PICK row : row = [caller |-> job[w].user, status |-> "RINGING"]
      OBVIOUS
    <2>3. row \in Call
      BY <2>1, <2>2 DEF Call, CallStatus
    <2>4. /\ Append(calls, row) \in Seq(Call) /\ Len(calls) \in Nat
          /\ DOMAIN calls = 1..Len(calls)
          /\ DOMAIN Append(calls, row) = 1..(Len(calls) + 1)
          /\ Append(calls, row)[Len(calls) + 1] = row
          /\ \A c \in 1..Len(calls) : Append(calls, row)[c] = calls[c]
      BY <2>3 DEF CallInv
    <2>5. /\ 1..(Len(calls) + 1) = 1..Len(calls) \cup {Len(calls) + 1}
          /\ Len(calls) + 1 \notin 1..Len(calls)
      BY <2>4
    <2> QED
      BY <1>3, <2>2, <2>4, <2>5
  <1>4. CASE /\ job[w].at = "expireRinging" /\ j.at = "ring" /\ j.user = job[w].user
             /\ calls' \in [DOMAIN calls -> Call] /\ Missing(j.user)
    BY <1>1, <1>4
  <1>5. CASE /\ job[w].at = "update" /\ j = Idle
             /\ calls' \in [DOMAIN calls -> Call] /\ Becoming(job[w].call, job[w].status)
    <2>1. job[w].status \in {"ACTIVE", "DECLINED", "ENDED"}
      BY <1>5, CallFields DEF CallInv
    <2> QED
      BY <1>1, <1>5, <2>1
  <1> QED
    BY <1>2, <1>3, <1>4, <1>5 DEF CallMoves

\* No step of a request breaks the invariant.
LEMMA CallMoved ==
  ASSUME CallInv, NEW w \in Workers, NEW j \in CallJob, CallMoves(w, j)
  PROVE  CallInv'
  <1>1. job' = [job EXCEPT ![w] = j]
    BY DEF CallMoves
  <1>2. job' \in [Workers -> CallJob']
    <2>1. CallJob \subseteq CallJob'
      BY CallTable DEF CallJob
    <2> QED
      BY <1>1, <2>1 DEF CallInv
  <1>3. ({current, another, blocked} \subseteq BOOLEAN)'
    BY DEF CallMoves, contactVars, CallInv
  <1>4. ASSUME NEW p \in People
        PROVE  Cardinality(RingingOf(p)') + Cardinality(RingJobs(p)') <= Cardinality(Workers)
    <2>1. CASE job[w].at = "expireRinging" /\ j.at = "ring" /\ j.user = p
      <3>1. RingingOf(p)' = {}
        <4>1. calls' \in [DOMAIN calls -> Call] /\ Missing(p)
          BY <2>1 DEF Idle, CallMoves
        <4> QED
          BY <4>1 DEF Missing, RingingOf
      <3>2. RingJobs(p)' \in SUBSET Workers
        BY DEF RingJobs
      <3>3. Cardinality(RingingOf(p)') = 0
        BY <3>1, FS_EmptySet
      <3> QED
        BY <3>2, <3>3, WorkSizes
    <2>2. CASE job[w].at = "ring" /\ j = Idle /\ job[w].user = p /\ DOMAIN calls' # DOMAIN calls
      <3> DEFINE n == Len(calls) + 1
      <3>1. /\ n \notin DOMAIN calls /\ DOMAIN calls' = DOMAIN calls \cup {n}
            /\ calls'[n] = [caller |-> job[w].user, status |-> "RINGING"]
            /\ \A c \in DOMAIN calls : calls'[c] = calls[c]
        BY <2>2, CallTable
      <3> HIDE DEF n
      <3>2. RingingOf(p)' = RingingOf(p) \cup {n} /\ n \notin RingingOf(p)
        BY <2>2, <3>1 DEF RingingOf
      <3>3. RingJobs(p)' = RingJobs(p) \ {w} /\ w \in RingJobs(p)
        BY <1>1, <2>2 DEF RingJobs, CallInv, Idle
      <3>4. RingingOf(p) \in SUBSET DOMAIN calls /\ RingJobs(p) \in SUBSET Workers
        BY DEF RingingOf, RingJobs
      <3>5. /\ Cardinality(RingingOf(p)') = Cardinality(RingingOf(p)) + 1
            /\ Cardinality(RingJobs(p)') = Cardinality(RingJobs(p)) - 1
        <4>1. IsFiniteSet(RingingOf(p)) /\ IsFiniteSet(RingJobs(p))
          BY <3>4, WorkSizes, CallSizes DEF CallInv
        <4>2. Cardinality(RingingOf(p) \cup {n}) = Cardinality(RingingOf(p)) + 1
          BY <3>2, <4>1, FS_AddElement
        <4>3. Cardinality(RingJobs(p) \ {w}) = Cardinality(RingJobs(p)) - 1
          BY <3>3, <4>1, FS_RemoveElement
        <4> QED
          BY <3>2, <3>3, <4>2, <4>3
      <3>6. Cardinality(RingingOf(p)) + Cardinality(RingJobs(p)) <= Cardinality(Workers)
        BY DEF CallInv, FewRinging, RingJobs
      <3>7. /\ Cardinality(RingingOf(p)) \in Nat /\ Cardinality(RingJobs(p)) \in Nat
            /\ Cardinality(Workers) \in Nat
        BY <3>4, WorkSizes, CallSizes DEF CallInv
      <3> QED
        BY <3>5, <3>6, <3>7
    <2>3. CASE /\ ~(job[w].at = "expireRinging" /\ j.at = "ring" /\ j.user = p)
               /\ ~(job[w].at = "ring" /\ j = Idle /\ job[w].user = p /\ DOMAIN calls' # DOMAIN calls)
      <3>1. RingJobs(p)' \subseteq RingJobs(p)
        BY <1>1, <2>3 DEF CallMoves, RingJobs, CallInv, Idle
      <3>2. RingingOf(p)' \subseteq RingingOf(p)
        <4>1. CASE DOMAIN calls' # DOMAIN calls
          <5>1. job[w].at = "ring" /\ j = Idle /\ job[w].user # p
            BY <2>3, <4>1, CallTable
          <5>2. PICK n : /\ DOMAIN calls' = DOMAIN calls \cup {n}
                         /\ calls'[n] = [caller |-> job[w].user, status |-> "RINGING"]
                         /\ \A c \in DOMAIN calls : calls'[c] = calls[c]
            BY <4>1, CallTable
          <5>3. calls'[n].caller # p
            BY <5>1, <5>2
          <5> QED
            BY <5>2, <5>3 DEF RingingOf
        <4>2. CASE DOMAIN calls' = DOMAIN calls
          <5>1. ASSUME NEW c \in DOMAIN calls, calls'[c].status = "RINGING"
                PROVE  calls[c].status = "RINGING" /\ calls'[c].caller = calls[c].caller
            BY <4>2, <5>1, CallTable DEF Missing, Becoming
          <5> QED
            BY <4>2, <5>1 DEF RingingOf
        <4> QED
          BY <4>1, <4>2
      <3> QED
        BY <3>1, <3>2, CallTable, RingingShrinks
    <2> QED
      BY <2>1, <2>2, <2>3
  <1>5. FewRinging'
    BY <1>4 DEF FewRinging, RingJobs
  <1> QED
    BY <1>2, <1>3, <1>5, CallTable DEF CallInv

\* No step of the component breaks the invariant.
LEMMA CallKept ==
  ASSUME CallInv, [CallNext]_callVars
  PROVE  CallInv'
  <1>1. CASE UNCHANGED callVars
    BY <1>1 DEF callVars, contactVars, CallInv, CallJob, FewRinging, RingingOf
  <1>2. CASE ContactNext /\ UNCHANGED <<calls, job>>
    <2>1. job' = job /\ ({current, another, blocked} \subseteq BOOLEAN)'
      BY <1>2 DEF ContactNext, CollaborationAccepted, CollaborationCompleted, BlockChanged,
         hasActiveCollaboration, CallInv
    <2> QED
      BY <1>2, <2>1 DEF CallInv, CallJob, FewRinging, RingingOf
  <1> QED
    BY <1>1, <1>2, CallStepping, CallMoved

\* There are no calls at first.
LEMMA CallStarted ==
  ASSUME CallInit
  PROVE  CallInv
  <1>1. calls = <<>> /\ calls \in Seq(Call)
        /\ job \in [Workers -> CallJob] /\ \A w \in Workers : job[w].at = "idle"
    BY DEF CallInit, NoJobs, CallJob, Idle
  <1>2. ({current, another, blocked} \subseteq BOOLEAN)
    BY DEF CallInit, ContactInit
  <1>3. ASSUME NEW p \in People
        PROVE  Cardinality(RingingOf(p)) + Cardinality(RingJobs(p)) <= Cardinality(Workers)
    <2>1. RingingOf(p) = {} /\ RingJobs(p) = {}
      BY <1>1 DEF RingingOf, RingJobs
    <2>2. Cardinality(Workers) \in Nat
      BY BoostConstants, FS_CardinalityType
    <2> QED
      BY <2>1, <2>2, FS_EmptySet
  <1>4. FewRinging
    BY <1>3 DEF FewRinging, RingJobs
  <1> QED
    BY <1>1, <1>2, <1>4 DEF CallInv

\* A call that is over stays so.
LEMMA OverKept ==
  ASSUME CallInv, [CallNext]_callVars, NEW c \in DOMAIN calls, Over(c)
  PROVE  Over(c)'
  <1>1. CASE UNCHANGED <<calls, job>>
    BY <1>1 DEF Over
  <1>2. ASSUME NEW w \in Workers, NEW j \in CallJob, CallMoves(w, j)
        PROVE  Over(c)'
    <2>1. calls'[c].status \in {"ENDED", "DECLINED", "MISSED"}
      <3>1. CASE DOMAIN calls' # DOMAIN calls
        BY <1>2, <3>1, CallTable DEF Over
      <3>2. CASE DOMAIN calls' = DOMAIN calls
        <4>1. job[w].at = "update" /\ job[w].call = c => job[w].status # "ACTIVE"
          BY DEF Over
        <4> QED
          BY <1>2, <3>2, <4>1, CallTable DEF Over, Missing, Becoming, RingingOf
      <3> QED
        BY <3>1, <3>2
    <2>2. j.at = "update" /\ j.call = c => j.status # "ACTIVE"
      BY <1>2 DEF CallMoves, Answerable, Over, Idle
    <2>3. \A v \in Workers : job'[v].at = "update" /\ job'[v].call = c => job'[v].status # "ACTIVE"
      BY <1>2, <2>2 DEF CallMoves, CallInv, Over
    <2> QED
      BY <2>1, <2>3 DEF Over
  <1> QED
    BY <1>1, <1>2, CallStepping
       DEF callVars, ContactNext, CollaborationAccepted, CollaborationCompleted, BlockChanged

\* While contact is closed and no request is past the checks, nobody rings.
LEMMA CallsClosed ==
  ASSUME CallInv, [CallNext]_callVars
  PROVE  NoNewCalls
  <1> SUFFICES ASSUME CallsShut
               PROVE  Len(calls') = Len(calls) /\ (Opening \/ CallsShut')
    BY DEF NoNewCalls
  <1>1. CASE UNCHANGED callVars
    BY <1>1 DEF callVars, contactVars, CallsShut, hasActiveCollaboration
  <1>2. CASE ContactNext /\ UNCHANGED <<calls, job>>
    <2>1. job' = job
      BY <1>2 DEF ContactNext, CollaborationAccepted, CollaborationCompleted, BlockChanged
    <2> QED
      BY <1>2, <2>1 DEF Opening, CallsShut, CallInv
  <1>3. ASSUME NEW w \in Workers, NEW j \in CallJob, CallMoves(w, j)
        PROVE  Len(calls') = Len(calls) /\ CallsShut'
    <2>1. job' = [job EXCEPT ![w] = j] /\ UNCHANGED <<current, another, blocked>>
      BY <1>3 DEF CallMoves, contactVars
    <2>2. job[w].at \notin {"expireRinging", "ring"}
      BY DEF CallsShut
    <2>3. Len(calls') = Len(calls)
      BY <1>3, <2>2, CallTable
    <2>4. \/ j.at \notin {"collaboration", "expireRinging", "ring"}
          \/ j.at = "collaboration" /\ ~blocked
          \/ job[w].at = "collaboration" /\ j.at = "expireRinging" /\ hasActiveCollaboration
      BY <1>3, <2>2 DEF CallMoves, Idle
    <2>5. \A v \in Workers : job'[v].at = IF v = w THEN j.at ELSE job[v].at
      BY <2>1 DEF CallInv
    <2>6. CallsShut'
      BY <2>1, <2>4, <2>5 DEF CallsShut, hasActiveCollaboration
    <2> QED
      BY <2>3, <2>6
  <1> QED
    BY <1>1, <1>2, <1>3, CallStepping

\* Only as many calls of a caller ring as there are requests, and every call
\* and request is of its type.
THEOREM FewCallsRing == CallSpec => [](CallTypeOK /\ FewRinging)
  <1>1. CallInv => CallTypeOK /\ FewRinging
    BY CallRows DEF CallInv, CallTypeOK
  <1> QED
    BY <1>1, CallStarted, CallKept, PTL DEF CallSpec

\* A call that is over never becomes active or rings again.
THEOREM CallsEnd == CallSpec => OverIsOver
  <1>1. CallInv /\ [CallNext]_callVars
        => [\A c \in DOMAIN calls : Over(c) => Over(c)']_callVars
    BY OverKept
  <1> QED
    BY <1>1, CallStarted, CallKept, PTL DEF CallSpec, OverIsOver

---------------------------------------------------------------------------
(* Chat *)

\* The inductive invariant of the chat.
ChatInv ==
  /\ messages \in Seq(Message)
  /\ lists \in [People -> List \cup {None}]
  /\ job \in [Workers -> ChatJob]
  /\ {current, another, blocked} \subseteq BOOLEAN
  /\ ListsAreBusted

\* A request to react, whichever checks it has passed.
Toggling(j) == "message" \in DOMAIN j /\ j.at \notin {"edit", "erase"}

\* The records of those who react.
ToReact == [at : {"conversation", "active", "unblocked", "react"}, user : People,
            message : DOMAIN messages, reactions : SUBSET People]

\* And of those who send.
ToSend == [at : {"active", "unblocked", "post"}, user : People]

\* What a request of each stage holds.
LEMMA ChatFields ==
  ASSUME NEW j \in ChatJob
  PROVE  /\ j.at \in {"conversation", "react"} => j \in ToReact
         /\ j.at = "post" => j \in ToSend
         /\ j.at \in {"active", "unblocked"} => j \in ToReact \/ j \in ToSend
         /\ j.at \in {"edit", "erase"} => j \in [at : {"edit", "erase"}, message : DOMAIN messages]
         /\ j.at = "bust" => j \in [at : {"bust"}, users : SUBSET People]
         /\ j.at = "markRead" => j \in [at : {"markRead"}, user : People]
         /\ j.at = "fill" => j \in [at : {"fill"}, user : People, unread : Nat]
         /\ j = Idle <=> j.at = "idle"
  BY DEF ChatJob, Idle, ToReact, ToSend

\* Who holds a message and does not edit or erase it reacts to it.
LEMMA ChatToggles ==
  /\ \A j \in ToReact : Toggling(j)
  /\ \A j \in ToSend : ~Toggling(j)
  /\ ~Toggling(Idle)
  /\ \A at, q : ~Toggling([at |-> at, users |-> q]) /\ ~Toggling([at |-> at, user |-> q])
  /\ \A q, n : ~Toggling([at |-> "fill", user |-> q, unread |-> n])
  /\ \A q : ~Toggling([at |-> "edit", message |-> q]) /\ ~Toggling([at |-> "erase", message |-> q])
  BY DEF Toggling, ToReact, ToSend, Idle

\* What the table holds.
LEMMA MessageRows ==
  ASSUME messages \in Seq(Message)
  PROVE  /\ Len(messages) \in Nat /\ DOMAIN messages = 1..Len(messages)
         /\ \A m \in DOMAIN messages :
              /\ messages[m] \in Message /\ messages[m].sender \in People
              /\ messages[m].isRead \in BOOLEAN /\ messages[m].reactions \in SUBSET People
  <1>1. Len(messages) \in Nat /\ DOMAIN messages = 1..Len(messages)
    OBVIOUS
  <1>2. ASSUME NEW m \in 1..Len(messages) PROVE messages[m] \in Message
    OBVIOUS
  <1>3. \A row \in Message : /\ row.sender \in People /\ row.isRead \in BOOLEAN
                             /\ row.reactions \in SUBSET People
    BY DEF Message
  <1> QED
    BY <1>1, <1>2, <1>3

\* Messages are counted.
LEMMA UnreadCounts ==
  ASSUME messages \in Seq(Message), NEW p
  PROVE  Unread(p) \in Nat
  <1>1. IsFiniteSet(DOMAIN messages) /\ UnreadBy(p) \subseteq DOMAIN messages
    BY MessageRows, FS_Interval DEF UnreadBy
  <1> QED
    BY <1>1, FS_Subset, FS_CardinalityType DEF Unread

\* A message is written to by w: who sent it and whether it is read stays, and
\* a reaction is lost only to a request that did not have it or takes it away.
Rewriting(w) ==
  \A m \in DOMAIN messages :
    /\ messages'[m].sender = messages[m].sender /\ messages'[m].isRead = messages[m].isRead
    /\ \/ messages'[m].reactions = messages[m].reactions
       \/ /\ job[w].at = "react" /\ m = job[w].message
          /\ \A p \in job[w].reactions \ {job[w].user} : p \in messages'[m].reactions

\* What p has not read is read.
Rereading(p) ==
  \A m \in DOMAIN messages :
    /\ messages'[m].sender = messages[m].sender
    /\ messages'[m].reactions = messages[m].reactions
    /\ messages'[m].isRead = IF m \in UnreadBy(p) THEN TRUE ELSE messages[m].isRead

\* A list that is cached, right only when the count is.
Filling(u) ==
  \E row \in List : /\ lists' = [lists EXCEPT ![u] = row]
                    /\ row.right = TRUE => row.unread = Unread(u)

\* A step of worker w to j.
ChatMoves(w, j) ==
  /\ job' = [job EXCEPT ![w] = j] /\ UNCHANGED contactVars
  /\ j.at = "unblocked" => hasActiveCollaboration
  /\ j.at \in {"post", "react"} => ~blocked /\ job[w].at = "unblocked"
  /\ Toggling(j) =>
       \/ /\ Toggling(job[w]) /\ j.user = job[w].user /\ j.message = job[w].message
          /\ j.reactions = job[w].reactions
       \/ j.message \in DOMAIN messages /\ j.reactions = messages[j.message].reactions
  /\ \/ messages' = messages /\ lists' = lists /\ job[w].at # "bust"
     \/ /\ job[w].at = "post" /\ j = [at |-> "bust", users |-> People] /\ lists' = lists
        /\ \E row \in Message : messages' = Append(messages, row)
     \/ /\ job[w].at # "bust" /\ lists' = lists
        /\ messages' \in [DOMAIN messages -> Message] /\ Rewriting(w)
     \/ /\ job[w].at = "markRead" /\ lists' = lists /\ job[w].user \in People
        /\ UnreadBy(job[w].user) = {} \/ j = [at |-> "bust", users |-> {job[w].user}]
        /\ messages' \in [DOMAIN messages -> Message] /\ Rereading(job[w].user)
     \/ /\ job[w].at = "bust" /\ messages' = messages
        /\ lists' = [p \in People |-> IF p \in job[w].users THEN None ELSE lists[p]]
     \/ /\ job[w].at = "fill" /\ messages' = messages /\ job[w].user \in People
        /\ Filling(job[w].user)

\* A step that only goes on to j.
LEMMA ChatGoesOn ==
  ASSUME NEW w \in Workers, NEW j \in ChatJob, job' = [job EXCEPT ![w] = j],
         UNCHANGED <<messages, lists, contactVars>>, job[w].at # "bust",
         j.at = "unblocked" => hasActiveCollaboration,
         j.at \in {"post", "react"} => ~blocked /\ job[w].at = "unblocked",
         Toggling(j) =>
           \/ /\ Toggling(job[w]) /\ j.user = job[w].user /\ j.message = job[w].message
              /\ j.reactions = job[w].reactions
           \/ j.message \in DOMAIN messages /\ j.reactions = messages[j.message].reactions
  PROVE  \E i \in ChatJob : ChatMoves(w, i)
  BY DEF ChatMoves

\* A request that has nothing to do but end.
LEMMA ChatIdle ==
  /\ Idle \in ChatJob /\ Idle.at = "idle" /\ ~Toggling(Idle)
  BY ChatToggles DEF ChatJob, Idle

\* A message is sent.
LEMMA ChatRead ==
  ASSUME ChatInv, NEW w \in Workers, NEW p \in People, ReadConversation(w, p)
  PROVE  \E j \in ChatJob : ChatMoves(w, j)
  <1>1. PICK j : j = [at |-> AfterConversation, user |-> p]
    OBVIOUS
  <1>2. /\ j \in ToSend /\ j.at \in {"unblocked", "active"}
        /\ j.at = "unblocked" => current
    BY <1>1 DEF ToSend, AfterConversation
  <1>3. j \in ChatJob /\ ~Toggling(j)
    BY <1>2, ChatToggles DEF ChatJob, ToSend
  <1>4. /\ job' = [job EXCEPT ![w] = j] /\ UNCHANGED <<messages, lists, contactVars>>
        /\ job[w].at # "bust"
    BY <1>1 DEF ReadConversation, Begin, Idle
  <1>5. /\ j.at = "unblocked" => hasActiveCollaboration
        /\ j.at \notin {"post", "react"}
    BY <1>2 DEF hasActiveCollaboration
  <1> QED
    BY <1>3, <1>4, <1>5, ChatGoesOn

\* A message is read to react to it.
LEMMA ChatReadMessage ==
  ASSUME ChatInv, NEW w \in Workers, NEW p \in People, NEW m \in DOMAIN messages,
         ReadMessage(w, p, m)
  PROVE  \E j \in ChatJob : ChatMoves(w, j)
  <1>1. PICK j : j = [at |-> "conversation", user |-> p, message |-> m,
                      reactions |-> messages[m].reactions]
    OBVIOUS
  <1>2. messages[m].reactions \in SUBSET People
    BY MessageRows DEF ChatInv
  <1>3. /\ j \in ChatJob /\ j.at = "conversation" /\ j.message = m
        /\ j.reactions = messages[m].reactions
    BY <1>1, <1>2 DEF ChatJob
  <1>4. /\ job' = [job EXCEPT ![w] = j] /\ UNCHANGED <<messages, lists, contactVars>>
        /\ job[w].at # "bust"
    BY <1>1 DEF ReadMessage, Begin, Idle
  <1>5. j.at \notin {"unblocked", "post", "react"}
    BY <1>3
  <1> QED
    BY <1>3, <1>4, <1>5, ChatGoesOn

\* Another stage of sending or reacting.
LEMMA ChatStaged ==
  ASSUME ChatInv, NEW w \in Workers, NEW at,
         \/ job[w] \in ToReact /\ at \in {"active", "unblocked", "react"}
         \/ job[w] \in ToSend /\ at \in {"active", "unblocked", "post"}
  PROVE  \E j \in ChatJob :
           /\ j = [job[w] EXCEPT !.at = at] /\ j.at = at
           /\ Toggling(j) => /\ Toggling(job[w]) /\ j.user = job[w].user
                             /\ j.message = job[w].message /\ j.reactions = job[w].reactions
  <1>1. PICK j : j = [job[w] EXCEPT !.at = at]
    OBVIOUS
  <1>2. CASE job[w] \in ToReact /\ at \in {"active", "unblocked", "react"}
    <2>1. /\ j \in ToReact /\ j.at = at /\ j.user = job[w].user
          /\ j.message = job[w].message /\ j.reactions = job[w].reactions
      BY <1>1, <1>2 DEF ToReact
    <2>2. j \in ChatJob
      BY <2>1 DEF ChatJob, ToReact
    <2> QED
      BY <1>1, <1>2, <2>1, <2>2, ChatToggles
  <1>3. CASE job[w] \in ToSend /\ at \in {"active", "unblocked", "post"}
    <2>1. j \in ToSend /\ j.at = at
      BY <1>1, <1>3 DEF ToSend
    <2>2. j \in ChatJob
      BY <2>1 DEF ChatJob, ToSend
    <2> QED
      BY <1>1, <2>1, <2>2, ChatToggles
  <1> QED
    BY <1>2, <1>3

\* The conversation of the message is read.
LEMMA ChatConversation ==
  ASSUME ChatInv, NEW w \in Workers, ReactConversation(w)
  PROVE  \E j \in ChatJob : ChatMoves(w, j)
  <1>1. job[w] \in ToReact /\ AfterConversation \in {"active", "unblocked"}
    BY ChatFields DEF ReactConversation, ChatInv, AfterConversation
  <1>2. PICK j \in ChatJob :
          /\ j = [job[w] EXCEPT !.at = AfterConversation] /\ j.at = AfterConversation
          /\ Toggling(j) => /\ Toggling(job[w]) /\ j.user = job[w].user
                            /\ j.message = job[w].message /\ j.reactions = job[w].reactions
    BY <1>1, ChatStaged
  <1>3. j.at = "unblocked" => hasActiveCollaboration
    BY <1>2 DEF AfterConversation, hasActiveCollaboration
  <1> QED
    BY <1>1, <1>2, <1>3, ChatGoesOn DEF ReactConversation, GoTo

\* The collaborations of the two are looked at.
LEMMA ChatActive ==
  ASSUME ChatInv, NEW w \in Workers, CheckActive(w)
  PROVE  \E j \in ChatJob : ChatMoves(w, j)
  <1>1. CASE hasActiveCollaboration
    <2>1. job[w] \in ToReact \/ job[w] \in ToSend
      BY ChatFields DEF CheckActive, ChatInv
    <2>2. PICK j \in ChatJob :
            /\ j = [job[w] EXCEPT !.at = "unblocked"] /\ j.at = "unblocked"
            /\ Toggling(j) => /\ Toggling(job[w]) /\ j.user = job[w].user
                              /\ j.message = job[w].message /\ j.reactions = job[w].reactions
      BY <2>1, ChatStaged
    <2> QED
      BY <1>1, <2>2, ChatGoesOn DEF CheckActive, GoTo
  <1>2. CASE ~hasActiveCollaboration
    BY <1>2, ChatIdle, ChatGoesOn DEF CheckActive, Finish
  <1> QED
    BY <1>1, <1>2

\* And whether one has blocked the other.
LEMMA ChatUnblocked ==
  ASSUME ChatInv, NEW w \in Workers, CheckUnblocked(w)
  PROVE  \E j \in ChatJob : ChatMoves(w, j)
  <1>1. CASE blocked
    BY <1>1, ChatIdle, ChatGoesOn DEF CheckUnblocked, Finish
  <1>2. ASSUME ~blocked, NEW at \in {"react", "post"},
               job' = [job EXCEPT ![w] = [job[w] EXCEPT !.at = at]],
               \/ job[w] \in ToReact /\ at = "react"
               \/ job[w] \in ToSend /\ at = "post"
        PROVE  \E j \in ChatJob : ChatMoves(w, j)
    <2>1. PICK j \in ChatJob :
            /\ j = [job[w] EXCEPT !.at = at] /\ j.at = at
            /\ Toggling(j) => /\ Toggling(job[w]) /\ j.user = job[w].user
                              /\ j.message = job[w].message /\ j.reactions = job[w].reactions
      BY <1>2, ChatStaged
    <2> QED
      BY <1>2, <2>1, ChatGoesOn DEF CheckUnblocked
  <1>3. job[w].at = "unblocked" /\ (job[w] \in ToReact \/ job[w] \in ToSend)
    BY ChatFields DEF CheckUnblocked, ChatInv
  <1>4. job[w] \in ToReact => Reacts(w)
    BY DEF ToReact, Reacts
  <1>5. job[w] \in ToSend => ~Reacts(w)
    BY DEF ToSend, Reacts
  <1> QED
    BY <1>1, <1>2, <1>3, <1>4, <1>5 DEF CheckUnblocked, GoTo

\* The message is written.
LEMMA ChatCreated ==
  ASSUME ChatInv, NEW w \in Workers, CreateMessage(w)
  PROVE  \E j \in ChatJob : ChatMoves(w, j)
  <1>1. PICK j : j = [at |-> "bust", users |-> People]
    OBVIOUS
  <1>2. j \in ChatJob /\ j.at = "bust" /\ ~Toggling(j)
    BY <1>1, ChatToggles DEF ChatJob
  <1>3. PICK row : row = [sender |-> job[w].user, content |-> TRUE, isDeleted |-> FALSE,
                          isRead |-> FALSE, reactions |-> {}]
    OBVIOUS
  <1>4. job[w].user \in People
    BY ChatFields DEF ChatInv, CreateMessage, ToSend
  <1>5. row \in Message
    BY <1>3, <1>4 DEF Message
  <1>6. /\ job' = [job EXCEPT ![w] = j] /\ UNCHANGED contactVars /\ lists' = lists
        /\ messages' = Append(messages, row) /\ job[w].at = "post"
    BY <1>1, <1>3 DEF CreateMessage, GoTo
  <1> QED
    BY <1>1, <1>2, <1>5, <1>6 DEF ChatMoves

\* A row that is rewritten in place.
LEMMA RowRewritten ==
  ASSUME ChatInv, NEW n \in DOMAIN messages, NEW row \in Message,
         messages' = [messages EXCEPT ![n] = row],
         row.sender = messages[n].sender, row.isRead = messages[n].isRead
  PROVE  /\ messages' \in [DOMAIN messages -> Message]
         /\ \A m \in DOMAIN messages :
              /\ messages'[m].sender = messages[m].sender
              /\ messages'[m].isRead = messages[m].isRead
              /\ messages'[m].reactions = IF m = n THEN row.reactions ELSE messages[m].reactions
  <1>1. \A m \in DOMAIN messages : messages[m] \in Message
    BY MessageRows DEF ChatInv
  <1>2. messages \in [DOMAIN messages -> Message]
    BY <1>1 DEF ChatInv
  <1> QED
    BY <1>2

\* The reactions are written.
LEMMA ChatReacted ==
  ASSUME ChatInv, NEW w \in Workers, WriteReaction(w)
  PROVE  \E j \in ChatJob : ChatMoves(w, j)
  <1>1. /\ job[w].message \in DOMAIN messages /\ job[w].user \in People
        /\ job[w].reactions \in SUBSET People /\ job[w].at = "react"
    BY ChatFields DEF ChatInv, WriteReaction, ToReact
  <1>2. PICK n : n = job[w].message
    OBVIOUS
  <1>3. PICK r : r = IF job[w].user \in job[w].reactions
                     THEN job[w].reactions \ {job[w].user}
                     ELSE job[w].reactions \cup {job[w].user}
    OBVIOUS
  <1>4. /\ r \in SUBSET People
        /\ \A p \in job[w].reactions \ {job[w].user} : p \in r
    BY <1>1, <1>3
  <1>5. PICK row : row = [messages[n] EXCEPT !.reactions = r]
    OBVIOUS
  <1>6. /\ row \in Message /\ row.sender = messages[n].sender
        /\ row.isRead = messages[n].isRead /\ row.reactions = r
    BY <1>1, <1>2, <1>4, <1>5, MessageRows DEF ChatInv, Message
  <1>7. /\ messages' = [messages EXCEPT ![n] = row]
        /\ job' = [job EXCEPT ![w] = Idle] /\ UNCHANGED contactVars /\ lists' = lists
    BY <1>2, <1>3, <1>5 DEF WriteReaction, Finish
  <1>8. messages' \in [DOMAIN messages -> Message] /\ Rewriting(w)
    BY <1>1, <1>2, <1>4, <1>6, <1>7, RowRewritten DEF Rewriting
  <1> QED
    BY <1>1, <1>7, <1>8, ChatIdle DEF ChatMoves

\* The message to edit or to erase is read.
LEMMA ChatReadOwn ==
  ASSUME ChatInv, NEW w \in Workers, NEW m \in DOMAIN messages, NEW at \in {"edit", "erase"},
         ReadOwn(w, m, at)
  PROVE  \E j \in ChatJob : ChatMoves(w, j)
  <1>1. PICK j : j = [at |-> at, message |-> m]
    OBVIOUS
  <1>2. j \in ChatJob /\ j.at \in {"edit", "erase"}
    BY <1>1 DEF ChatJob
  <1>3. ~Toggling(j)
    BY <1>2 DEF Toggling
  <1>4. /\ job' = [job EXCEPT ![w] = j] /\ UNCHANGED <<messages, lists, contactVars>>
        /\ job[w].at # "bust"
    BY <1>1 DEF ReadOwn, Begin, Idle
  <1>5. j.at \notin {"unblocked", "post", "react"}
    BY <1>2
  <1> QED
    BY <1>2, <1>3, <1>4, <1>5, ChatGoesOn

\* Message n becomes row, of which only content or deletion is new.
Rewording(n, row) ==
  /\ messages' = [messages EXCEPT ![n] = row]
  /\ messages[n] \in Message => /\ row \in Message /\ row.sender = messages[n].sender
                                /\ row.isRead = messages[n].isRead
                                /\ row.reactions = messages[n].reactions

\* A message of which only content or deletion is written.
LEMMA ChatReworded ==
  ASSUME ChatInv, NEW w \in Workers, NEW n, NEW row,
         job[w].at \in {"edit", "erase"}, n = job[w].message,
         Rewording(n, row),
         Finish(w), lists' = lists, UNCHANGED contactVars
  PROVE  \E j \in ChatJob : ChatMoves(w, j)
  <1>1. n \in DOMAIN messages
    BY ChatFields DEF ChatInv
  <1>2. /\ row \in Message /\ row.sender = messages[n].sender
        /\ row.isRead = messages[n].isRead /\ row.reactions = messages[n].reactions
    BY <1>1, MessageRows DEF ChatInv, Rewording
  <1>3. messages' \in [DOMAIN messages -> Message] /\ Rewriting(w)
    BY <1>1, <1>2, RowRewritten DEF Rewriting, Rewording
  <1>4. job' = [job EXCEPT ![w] = Idle] /\ job[w].at # "bust"
    BY DEF Finish
  <1> QED
    BY <1>3, <1>4, ChatIdle DEF ChatMoves

\* It is edited.
LEMMA ChatEdited ==
  ASSUME ChatInv, NEW w \in Workers, EditMessage(w)
  PROVE  \E j \in ChatJob : ChatMoves(w, j)
  <1>1. PICK n : n = job[w].message
    OBVIOUS
  <1>2. PICK row : row = [messages[n] EXCEPT !.content = TRUE]
    OBVIOUS
  <1>3. messages[n] \in Message => /\ row \in Message /\ row.sender = messages[n].sender
                                   /\ row.isRead = messages[n].isRead
                                   /\ row.reactions = messages[n].reactions
    BY <1>2 DEF Message
  <1>4. job[w].at \in {"edit", "erase"} /\ messages' = [messages EXCEPT ![n] = row]
    BY <1>1, <1>2 DEF EditMessage
  <1>5. Finish(w) /\ lists' = lists /\ UNCHANGED contactVars
    BY DEF EditMessage
  <1>6. Rewording(n, row)
    BY <1>3, <1>4 DEF Rewording
  <1> QED
    BY <1>1, <1>4, <1>5, <1>6, ChatReworded

\* Or erased.
LEMMA ChatErased ==
  ASSUME ChatInv, NEW w \in Workers, EraseMessage(w)
  PROVE  \E j \in ChatJob : ChatMoves(w, j)
  <1>1. PICK n : n = job[w].message
    OBVIOUS
  <1>2. PICK row : row = [messages[n] EXCEPT !.content = FALSE, !.isDeleted = TRUE]
    OBVIOUS
  <1>3. messages[n] \in Message => /\ row \in Message /\ row.sender = messages[n].sender
                                   /\ row.isRead = messages[n].isRead
                                   /\ row.reactions = messages[n].reactions
    BY <1>2 DEF Message
  <1>4. job[w].at \in {"edit", "erase"} /\ n \in DOMAIN messages
    BY <1>1, ChatFields DEF EraseMessage, ChatInv
  <1>5. messages' = [messages EXCEPT ![n] = row]
    BY <1>1, <1>2, <1>4 DEF EraseMessage
  <1>6. Finish(w) /\ lists' = lists /\ UNCHANGED contactVars
    BY DEF EraseMessage
  <1>7. Rewording(n, row)
    BY <1>3, <1>5 DEF Rewording
  <1> QED
    BY <1>1, <1>4, <1>6, <1>7, ChatReworded

\* A page of messages is fetched.
LEMMA ChatFetched ==
  ASSUME ChatInv, NEW w \in Workers, NEW p \in People, FetchPage(w, p)
  PROVE  \E j \in ChatJob : ChatMoves(w, j)
  <1>1. PICK j : j = [at |-> "markRead", user |-> p]
    OBVIOUS
  <1>2. j \in ChatJob /\ j.at = "markRead" /\ ~Toggling(j)
    BY <1>1, ChatToggles DEF ChatJob
  <1>3. /\ job' = [job EXCEPT ![w] = j] /\ UNCHANGED <<messages, lists, contactVars>>
        /\ job[w].at # "bust"
    BY <1>1 DEF FetchPage, Begin, Idle
  <1>4. j.at \notin {"unblocked", "post", "react"}
    BY <1>2
  <1> QED
    BY <1>2, <1>3, <1>4, ChatGoesOn

\* What the other sent is marked as read.
LEMMA ChatMarked ==
  ASSUME ChatInv, NEW w \in Workers, MarkRead(w)
  PROVE  \E j \in ChatJob : ChatMoves(w, j)
  <1>1. PICK p \in People : p = job[w].user
    BY ChatFields DEF ChatInv, MarkRead
  <1>2. \A m \in DOMAIN messages : messages[m] \in Message
    BY MessageRows DEF ChatInv
  <1>3. messages' = [m \in DOMAIN messages |->
                       IF m \in UnreadBy(p) THEN [messages[m] EXCEPT !.isRead = TRUE]
                       ELSE messages[m]]
    BY <1>1 DEF MarkRead
  <1>4. ASSUME NEW m \in DOMAIN messages
        PROVE  /\ messages'[m] \in Message
               /\ messages'[m].sender = messages[m].sender
               /\ messages'[m].reactions = messages[m].reactions
               /\ messages'[m].isRead = IF m \in UnreadBy(p) THEN TRUE ELSE messages[m].isRead
    <2>1. [messages[m] EXCEPT !.isRead = TRUE] \in Message
      BY <1>2 DEF Message
    <2> QED
      BY <1>2, <1>3, <2>1 DEF Message
  <1>5. messages' \in [DOMAIN messages -> Message] /\ Rereading(p)
    BY <1>3, <1>4 DEF Rereading
  <1>6. job[w].at = "markRead" /\ lists' = lists /\ UNCHANGED contactVars
    BY DEF MarkRead
  <1>7. CASE UnreadBy(p) = {}
    <2>1. job' = [job EXCEPT ![w] = Idle]
      BY <1>1, <1>7 DEF MarkRead, Finish
    <2> QED
      BY <1>1, <1>5, <1>6, <1>7, <2>1, ChatIdle DEF ChatMoves
  <1>8. CASE UnreadBy(p) # {}
    <2>1. PICK j : j = [at |-> "bust", users |-> {p}]
      OBVIOUS
    <2>2. j \in ChatJob /\ j.at = "bust" /\ ~Toggling(j)
      BY <2>1, ChatToggles DEF ChatJob
    <2>3. job' = [job EXCEPT ![w] = j]
      BY <1>1, <1>8, <2>1 DEF MarkRead, GoTo
    <2> QED
      BY <1>1, <1>5, <1>6, <2>1, <2>2, <2>3 DEF ChatMoves
  <1> QED
    BY <1>7, <1>8

\* Lists are dropped from the cache.
LEMMA ChatBusted ==
  ASSUME ChatInv, NEW w \in Workers, BustLists(w)
  PROVE  \E j \in ChatJob : ChatMoves(w, j)
  <1>1. /\ job' = [job EXCEPT ![w] = Idle] /\ UNCHANGED contactVars /\ job[w].at = "bust"
        /\ messages' = messages
        /\ lists' = [p \in People |-> IF p \in job[w].users THEN None ELSE lists[p]]
    BY DEF BustLists, Finish
  <1> QED
    BY <1>1, ChatIdle DEF ChatMoves

\* A list that is not cached is computed.
LEMMA ChatComputed ==
  ASSUME ChatInv, NEW w \in Workers, NEW p \in People, ComputeList(w, p)
  PROVE  \E j \in ChatJob : ChatMoves(w, j)
  <1>1. PICK j : j = [at |-> "fill", user |-> p, unread |-> Unread(p)]
    OBVIOUS
  <1>2. Unread(p) \in Nat
    BY UnreadCounts DEF ChatInv
  <1>3. j \in ChatJob /\ j.at = "fill" /\ ~Toggling(j)
    BY <1>1, <1>2, ChatToggles DEF ChatJob
  <1>4. /\ job' = [job EXCEPT ![w] = j] /\ UNCHANGED <<messages, lists, contactVars>>
        /\ job[w].at # "bust"
    BY <1>1 DEF ComputeList, Begin, Idle
  <1>5. j.at \notin {"unblocked", "post", "react"}
    BY <1>3
  <1> QED
    BY <1>3, <1>4, <1>5, ChatGoesOn

\* And cached.
LEMMA ChatFilled ==
  ASSUME ChatInv, NEW w \in Workers, FillList(w)
  PROVE  \E j \in ChatJob : ChatMoves(w, j)
  <1>1. job[w].user \in People /\ job[w].unread \in Nat /\ job[w].at = "fill"
    BY ChatFields DEF ChatInv, FillList
  <1>2. PICK u : u = job[w].user
    OBVIOUS
  <1>3. PICK r \in BOOLEAN : r = (job[w].unread = Unread(u))
    OBVIOUS
  <1>4. PICK row : row = [unread |-> job[w].unread, right |-> r]
    OBVIOUS
  <1>5. row \in List /\ row.unread = job[w].unread /\ row.right = r
    BY <1>1, <1>4 DEF List
  <1>6. row.right = TRUE => row.unread = Unread(u)
    BY <1>3, <1>5
  <1>7. lists' = [lists EXCEPT ![u] = row]
    BY <1>2, <1>3, <1>4, Zenon DEF FillList
  <1>8. Filling(u)
    BY <1>5, <1>6, <1>7 DEF Filling
  <1>9. /\ job' = [job EXCEPT ![w] = Idle] /\ UNCHANGED contactVars /\ messages' = messages
    BY DEF FillList, Finish
  <1> QED
    BY <1>1, <1>2, <1>8, <1>9, ChatIdle DEF ChatMoves

\* Every step is one of a request, or a list expires, or contact changes.
LEMMA ChatStepping ==
  ASSUME ChatInv, [ChatNext]_chatVars
  PROVE  \/ \E w \in Workers : \E j \in ChatJob : ChatMoves(w, j)
         \/ \E p \in People : ListExpires(p)
         \/ ContactNext /\ UNCHANGED <<messages, lists, job>>
         \/ UNCHANGED chatVars
  <1>1. ASSUME NEW w \in Workers, ChatArrive(w)
        PROVE  \E j \in ChatJob : ChatMoves(w, j)
    BY <1>1, ChatRead, ChatReadMessage, ChatFetched, ChatComputed, ChatReadOwn DEF ChatArrive
  <1>2. ASSUME NEW w \in Workers, ChatStep(w)
        PROVE  \E j \in ChatJob : ChatMoves(w, j)
    BY <1>2, ChatConversation, ChatActive, ChatUnblocked, ChatCreated, ChatReacted,
       ChatEdited, ChatErased, ChatMarked, ChatBusted, ChatFilled DEF ChatStep
  <1> QED
    BY <1>1, <1>2 DEF ChatNext

\* A table with a row more, or with the same rows.
LEMMA ChatTable ==
  ASSUME ChatInv, NEW w \in Workers, NEW j \in ChatJob, ChatMoves(w, j)
  PROVE  /\ messages' \in Seq(Message) /\ DOMAIN messages \subseteq DOMAIN messages'
         /\ \/ /\ DOMAIN messages' = DOMAIN messages /\ Len(messages') = Len(messages)
               /\ job[w].at # "post" \/ messages' = messages \/ Rewriting(w)
            \/ /\ job[w].at = "post" /\ j = [at |-> "bust", users |-> People] /\ lists' = lists
               /\ \A m \in DOMAIN messages : messages'[m] = messages[m]
  <1>1. ASSUME messages' \in [DOMAIN messages -> Message]
        PROVE  /\ messages' \in Seq(Message) /\ DOMAIN messages' = DOMAIN messages
               /\ Len(messages') = Len(messages)
    <2>1. messages' \in [1..Len(messages) -> Message] /\ Len(messages) \in Nat
      BY <1>1, MessageRows DEF ChatInv
    <2>2. messages' \in Seq(Message)
      BY <2>1, SeqDef
    <2>3. Len(messages') = Len(messages)
      BY <2>1, <2>2
    <2> QED
      BY <1>1, <2>2, <2>3
  <1>2. CASE messages' = messages
    BY <1>2 DEF ChatInv
  <1>3. ASSUME job[w].at = "post", j = [at |-> "bust", users |-> People], lists' = lists,
               NEW row \in Message, messages' = Append(messages, row)
        PROVE  /\ messages' \in Seq(Message) /\ DOMAIN messages \subseteq DOMAIN messages'
               /\ \A m \in DOMAIN messages : messages'[m] = messages[m]
    <2>1. /\ Append(messages, row) \in Seq(Message) /\ Len(messages) \in Nat
          /\ DOMAIN messages = 1..Len(messages)
          /\ DOMAIN Append(messages, row) = 1..(Len(messages) + 1)
          /\ \A m \in 1..Len(messages) : Append(messages, row)[m] = messages[m]
      BY DEF ChatInv
    <2>2. 1..Len(messages) \subseteq 1..(Len(messages) + 1)
      BY <2>1
    <2> QED
      BY <1>3, <2>1, <2>2
  <1> QED
    BY <1>1, <1>2, <1>3 DEF ChatMoves

\* A message counts for p as it did.
LEMMA UnreadStays ==
  ASSUME NEW p, DOMAIN messages' = DOMAIN messages,
         \A m \in DOMAIN messages :
           m \in UnreadBy(p) <=> messages'[m].sender # p /\ ~messages'[m].isRead
  PROVE  Unread(p)' = Unread(p)
  <1>1. UnreadBy(p)' = UnreadBy(p)
    BY DEF UnreadBy
  <1> QED
    BY <1>1 DEF Unread

\* A request that is about to drop p's list is so until it has.
LEMMA BustStays ==
  ASSUME ChatInv, NEW w \in Workers, NEW j, job' = [job EXCEPT ![w] = j], NEW p,
         ~(job[w].at = "bust" /\ p \in job[w].users),
         \E v \in Workers : job[v].at = "bust" /\ p \in job[v].users
  PROVE  \E v \in Workers : job'[v].at = "bust" /\ p \in job'[v].users
  BY DEF ChatInv

\* No step of a request makes a list wrong that nobody is about to drop.
LEMMA ListsMoved ==
  ASSUME ChatInv, NEW w \in Workers, NEW j \in ChatJob, ChatMoves(w, j)
  PROVE  ListsAreBusted'
  <1>1. job' = [job EXCEPT ![w] = j] /\ job'[w] = j
    BY DEF ChatMoves, ChatInv
  <1> SUFFICES ASSUME NEW p \in People, lists'[p] # None, lists'[p].right
               PROVE  \/ lists'[p].unread = Unread(p)'
                      \/ \E v \in Workers : job'[v].at = "bust" /\ p \in job'[v].users
    BY DEF ListsAreBusted
  <1>2. ASSUME lists'[p] = lists[p], ~(job[w].at = "bust" /\ p \in job[w].users),
               Unread(p)' = Unread(p)
        PROVE  \/ lists'[p].unread = Unread(p)'
               \/ \E v \in Workers : job'[v].at = "bust" /\ p \in job'[v].users
    <2>1. \/ lists[p].unread = Unread(p)
          \/ \E v \in Workers : job[v].at = "bust" /\ p \in job[v].users
      BY <1>2 DEF ChatInv, ListsAreBusted
    <2> QED
      BY <1>1, <1>2, <2>1, BustStays
  <1>3. CASE messages' = messages /\ lists' = lists /\ job[w].at # "bust"
    BY <1>2, <1>3 DEF Unread, UnreadBy
  <1>4. CASE j = [at |-> "bust", users |-> People]
    BY <1>1, <1>4
  <1>5. CASE /\ job[w].at # "bust" /\ lists' = lists
             /\ messages' \in [DOMAIN messages -> Message] /\ Rewriting(w)
    <2>1. Unread(p)' = Unread(p)
      BY <1>5, UnreadStays DEF Rewriting, UnreadBy
    <2> QED
      BY <1>2, <1>5, <2>1
  <1>6. CASE /\ job[w].at = "markRead" /\ lists' = lists /\ job[w].user \in People
             /\ UnreadBy(job[w].user) = {} \/ j = [at |-> "bust", users |-> {job[w].user}]
             /\ messages' \in [DOMAIN messages -> Message] /\ Rereading(job[w].user)
    <2>1. PICK q \in People : q = job[w].user
      BY <1>6
    <2>2. CASE p = q /\ UnreadBy(q) # {}
      BY <1>1, <1>6, <2>1, <2>2
    <2>3. CASE UnreadBy(q) = {}
      <3>1. Unread(p)' = Unread(p)
        BY <1>6, <2>1, <2>3, UnreadStays DEF Rereading, UnreadBy
      <3> QED
        BY <1>2, <1>6, <3>1
    <2>4. CASE p # q
      <3>1. \A m \in DOMAIN messages : messages[m].sender \in {p, q}
        BY <2>4, ChatConstants, MessageRows DEF ChatInv
      <3>2. \A m \in DOMAIN messages :
              /\ messages'[m].sender = messages[m].sender
              /\ messages[m].sender # p => messages'[m].isRead = messages[m].isRead \/ m \in UnreadBy(q)
        BY <1>6, <2>1 DEF Rereading
      <3>3. \A m \in DOMAIN messages : m \in UnreadBy(q) => messages[m].sender = p
        BY <3>1 DEF UnreadBy
      <3>4. \A m \in DOMAIN messages :
              m \in UnreadBy(p) <=> messages'[m].sender # p /\ ~messages'[m].isRead
        BY <3>2, <3>3 DEF UnreadBy
      <3>5. Unread(p)' = Unread(p)
        BY <1>6, <3>4, UnreadStays
      <3> QED
        BY <1>2, <1>6, <3>5
    <2> QED
      BY <2>2, <2>3, <2>4
  <1>7. CASE /\ job[w].at = "bust" /\ messages' = messages
             /\ lists' = [q \in People |-> IF q \in job[w].users THEN None ELSE lists[q]]
    <2>1. p \notin job[w].users /\ lists'[p] = lists[p]
      BY <1>7
    <2> QED
      BY <1>2, <1>7, <2>1 DEF Unread, UnreadBy
  <1>8. CASE /\ job[w].at = "fill" /\ messages' = messages /\ job[w].user \in People
             /\ Filling(job[w].user)
    <2>1. PICK row \in List : /\ lists' = [lists EXCEPT ![job[w].user] = row]
                              /\ row.right = TRUE => row.unread = Unread(job[w].user)
      BY <1>8 DEF Filling
    <2>2. Unread(p)' = Unread(p)
      BY <1>8 DEF Unread, UnreadBy
    <2>3. CASE p = job[w].user
      <3>1. lists'[p] = row
        BY <1>8, <2>1, <2>3 DEF ChatInv
      <3>2. row.right = TRUE
        BY <3>1 DEF List
      <3> QED
        BY <2>1, <2>2, <2>3, <3>1, <3>2
    <2>4. CASE p # job[w].user
      <3>1. lists'[p] = lists[p]
        BY <2>1, <2>4 DEF ChatInv
      <3> QED
        BY <1>2, <1>8, <2>2, <3>1
    <2> QED
      BY <2>3, <2>4
  <1> QED
    BY <1>3, <1>4, <1>5, <1>6, <1>7, <1>8 DEF ChatMoves

\* No step of a request breaks the invariant.
LEMMA ChatMoved ==
  ASSUME ChatInv, NEW w \in Workers, NEW j \in ChatJob, ChatMoves(w, j)
  PROVE  ChatInv'
  <1>1. job' = [job EXCEPT ![w] = j] /\ UNCHANGED contactVars
    BY DEF ChatMoves
  <1>2. ChatJob \subseteq ChatJob'
    BY ChatTable DEF ChatJob
  <1>3. job' \in [Workers -> ChatJob']
    BY <1>1, <1>2 DEF ChatInv
  <1>4. lists' \in [People -> List \cup {None}]
    <2>1. lists \in [People -> List \cup {None}]
      BY DEF ChatInv
    <2>2. CASE lists' = lists
      BY <2>1, <2>2
    <2>3. CASE lists' = [p \in People |-> IF p \in job[w].users THEN None ELSE lists[p]]
      BY <2>1, <2>3
    <2>4. CASE job[w].user \in People /\ Filling(job[w].user)
      BY <2>1, <2>4 DEF Filling
    <2> QED
      BY <2>2, <2>3, <2>4 DEF ChatMoves
  <1>5. ({current, another, blocked} \subseteq BOOLEAN)'
    BY <1>1 DEF ChatInv, contactVars
  <1> QED
    BY <1>3, <1>4, <1>5, ChatTable, ListsMoved DEF ChatInv

\* No step of the component breaks the invariant.
LEMMA ChatKept ==
  ASSUME ChatInv, [ChatNext]_chatVars
  PROVE  ChatInv'
  <1>1. CASE UNCHANGED chatVars
    BY <1>1 DEF chatVars, contactVars, ChatInv, ChatJob, ListsAreBusted, Unread, UnreadBy
  <1>2. CASE ContactNext /\ UNCHANGED <<messages, lists, job>>
    <2>1. job' = job /\ ({current, another, blocked} \subseteq BOOLEAN)'
      BY <1>2 DEF ContactNext, CollaborationAccepted, CollaborationCompleted, BlockChanged,
         hasActiveCollaboration, ChatInv
    <2> QED
      BY <1>2, <2>1 DEF ChatInv, ChatJob, ListsAreBusted, Unread, UnreadBy
  <1>3. ASSUME NEW p \in People, ListExpires(p)
        PROVE  ChatInv'
    <2>1. /\ lists' \in [People -> List \cup {None}]
          /\ \A q \in People : lists'[q] = None \/ lists'[q] = lists[q]
          /\ messages' = messages /\ job' = job /\ UNCHANGED contactVars
      BY <1>3 DEF ListExpires, ChatInv
    <2>2. ListsAreBusted'
      BY <2>1 DEF ChatInv, ListsAreBusted, Unread, UnreadBy
    <2> QED
      BY <2>1, <2>2 DEF ChatInv, ChatJob, contactVars
  <1> QED
    BY <1>1, <1>2, <1>3, ChatStepping, ChatMoved

\* There are no messages at first.
LEMMA ChatStarted ==
  ASSUME ChatInit
  PROVE  ChatInv
  <1>1. messages \in Seq(Message) /\ lists \in [People -> List \cup {None}]
    BY DEF ChatInit
  <1>2. job \in [Workers -> ChatJob]
    BY DEF ChatInit, NoJobs, ChatJob, Idle
  <1>3. ListsAreBusted
    BY DEF ChatInit, ListsAreBusted
  <1>4. ({current, another, blocked} \subseteq BOOLEAN)
    BY DEF ChatInit, ContactInit
  <1> QED
    BY <1>1, <1>2, <1>3, <1>4 DEF ChatInv

\* What a step of a request does to the reactions.
LEMMA ReactionsMoved ==
  ASSUME ChatInv, NEW w \in Workers, NEW j \in ChatJob, ChatMoves(w, j), NEW m \in DOMAIN messages
  PROVE  \/ messages'[m].reactions = messages[m].reactions
         \/ /\ job[w] \in ToReact /\ job[w].at = "react" /\ m = job[w].message
            /\ \A p \in job[w].reactions \ {job[w].user} : p \in messages'[m].reactions
  <1>1. job[w].at = "react" => job[w] \in ToReact
    BY ChatFields DEF ChatInv
  <1>2. \/ messages'[m].reactions = messages[m].reactions
        \/ Rewriting(w) \/ Rereading(job[w].user)
    BY ChatTable DEF ChatMoves
  <1> QED
    BY <1>1, <1>2 DEF Rewriting, Rereading

\* A reaction goes only by a request of the one who reacted.
LEMMA ReactionsKept ==
  ASSUME ChatInv, [ChatNext]_chatVars, NEW m \in DOMAIN messages, NEW p \in People,
         Reacted(p, m)
  PROVE  Reacted(p, m)' \/ TogglesBy(p, m)' # {}
  <1>1. CASE UNCHANGED <<messages, job>>
    BY <1>1 DEF Reacted, TogglesBy, Reacts
  <1>2. ASSUME NEW w \in Workers, NEW j \in ChatJob, ChatMoves(w, j), TogglesBy(p, m)' = {}
        PROVE  Reacted(p, m)'
    <2>1. /\ job' = [job EXCEPT ![w] = j] /\ job'[w] = j
          /\ \A v \in Workers : v # w => job'[v] = job[v]
      BY <1>2 DEF ChatMoves, ChatInv
    <2>2. /\ p \in messages[m].reactions /\ TogglesBy(p, m) = {}
          /\ \A q \in People : \A v \in TogglesBy(q, m) : p \in job[v].reactions
      BY DEF Reacted
    <2>3. \A v \in Workers : Toggling(job[v]) /\ job[v].message = m => v \in TogglesBy(job[v].user, m)
      BY DEF Toggling, TogglesBy, Reacts
    <2>4. p \in messages'[m].reactions
      <3>1. ASSUME job[w] \in ToReact, m = job[w].message
            PROVE  p \in job[w].reactions \ {job[w].user}
        <4>1. w \in TogglesBy(job[w].user, m) /\ job[w].user \in People
          BY <2>3, <3>1, ChatToggles DEF ToReact
        <4> QED
          BY <2>2, <4>1
      <3> QED
        BY <1>2, <2>2, <3>1, ReactionsMoved
    <2>5. ASSUME NEW q \in People, NEW v \in Workers, Toggling(job'[v]), job'[v].message = m,
                 job'[v].user = q
          PROVE  p \in job'[v].reactions
      <3>1. CASE v # w
        <4>1. v \in TogglesBy(q, m)
          BY <2>1, <2>3, <2>5, <3>1
        <4> QED
          BY <2>1, <2>2, <3>1, <4>1
      <3>2. CASE v = w
        <4>1. CASE /\ Toggling(job[w]) /\ j.user = job[w].user /\ j.message = job[w].message
                   /\ j.reactions = job[w].reactions
          <5>1. w \in TogglesBy(q, m)
            BY <2>1, <2>3, <2>5, <3>2, <4>1
          <5> QED
            BY <2>1, <2>2, <3>2, <4>1, <5>1
        <4>2. CASE j.reactions = messages[j.message].reactions
          BY <2>1, <2>2, <2>5, <3>2, <4>2
        <4> QED
          BY <1>2, <2>1, <2>5, <3>2, <4>1, <4>2 DEF ChatMoves
      <3> QED
        BY <3>1, <3>2
    <2>6. \A q \in People : \A v \in TogglesBy(q, m)' : p \in job'[v].reactions
      BY <2>5 DEF TogglesBy, Toggling, Reacts
    <2> QED
      BY <1>2, <2>4, <2>6 DEF Reacted
  <1> QED
    BY <1>1, <1>2, ChatStepping
       DEF chatVars, ListExpires, ContactNext, CollaborationAccepted, CollaborationCompleted,
           BlockChanged

\* While contact is closed and no request is past the check that would tell,
\* nobody sends or reacts.
LEMMA ChatClosed ==
  ASSUME ChatInv, [ChatNext]_chatVars
  PROVE  NoNewMessages
  <1> SUFFICES ASSUME ChatShut
               PROVE  /\ Len(messages') = Len(messages)
                      /\ \A m \in DOMAIN messages : messages'[m].reactions = messages[m].reactions
                      /\ Opening \/ ChatShut'
    BY DEF NoNewMessages
  <1>1. CASE UNCHANGED <<messages, job, contactVars>>
    BY <1>1 DEF contactVars, ChatShut, hasActiveCollaboration
  <1>2. CASE ContactNext /\ UNCHANGED <<messages, lists, job>>
    <2>1. job' = job
      BY <1>2 DEF ContactNext, CollaborationAccepted, CollaborationCompleted, BlockChanged
    <2> QED
      BY <1>2, <2>1 DEF Opening, ChatShut, ChatInv
  <1>3. ASSUME NEW w \in Workers, NEW j \in ChatJob, ChatMoves(w, j)
        PROVE  /\ Len(messages') = Len(messages)
               /\ \A m \in DOMAIN messages : messages'[m].reactions = messages[m].reactions
               /\ ChatShut'
    <2>1. job' = [job EXCEPT ![w] = j] /\ UNCHANGED <<current, another, blocked>>
      BY <1>3 DEF ChatMoves, contactVars
    <2>2. job[w].at \notin {"post", "react"}
      BY DEF ChatShut
    <2>3. Len(messages') = Len(messages)
      BY <1>3, <2>2, ChatTable
    <2>4. \A m \in DOMAIN messages : messages'[m].reactions = messages[m].reactions
      BY <1>3, <2>2, ReactionsMoved
    <2>5. /\ j.at = "unblocked" => hasActiveCollaboration
          /\ j.at \in {"post", "react"} => ~blocked /\ job[w].at = "unblocked"
      BY <1>3 DEF ChatMoves
    <2>6. \A v \in Workers : job'[v].at = IF v = w THEN j.at ELSE job[v].at
      BY <2>1 DEF ChatInv
    <2>7. ChatShut'
      BY <2>1, <2>5, <2>6 DEF ChatShut, hasActiveCollaboration
    <2> QED
      BY <2>3, <2>4, <2>7
  <1> QED
    BY <1>1, <1>2, <1>3, ChatStepping DEF chatVars, ListExpires

\* Every message, cached list and request is of its type, and a count that was
\* right when it was cached is dropped when it no longer is.
THEOREM ListsDropped == ChatSpec => [](ChatTypeOK /\ ListsAreBusted)
  <1>1. ChatInv => ChatTypeOK /\ ListsAreBusted
    BY MessageRows DEF ChatInv, ChatTypeOK
  <1> QED
    BY <1>1, ChatStarted, ChatKept, PTL DEF ChatSpec

\* No one's reaction is taken away by the requests of another, unless the other
\* read the reactions before it was there.
THEOREM ReactionsKeep == ChatSpec => ReactionsAreOnesOwn
  <1>1. ChatInv /\ [ChatNext]_chatVars
        => [\A m \in DOMAIN messages : \A p \in People :
              Reacted(p, m) => Reacted(p, m)' \/ TogglesBy(p, m)' # {}]_chatVars
    BY ReactionsKept
  <1> QED
    BY <1>1, ChatStarted, ChatKept, PTL DEF ChatSpec, ReactionsAreOnesOwn

---------------------------------------------------------------------------
(* Follows *)

\* No step breaks the types of who follows whom and of the requests.
LEMMA FollowKept ==
  ASSUME FollowTypeOK, [FollowNext]_followVars
  PROVE  FollowTypeOK'
  <1> USE DEF FollowTypeOK
  <1>1. ASSUME NEW w \in Workers, NEW p \in People, AssertNotBlocked(w, p)
        PROVE  FollowTypeOK'
    BY <1>1 DEF AssertNotBlocked, Begin, FollowJob, contactVars
  <1>2. ASSUME NEW w \in Workers, FindFollow(w) PROVE FollowTypeOK'
    <2>1. job[w] \in [at : {"existing", "create"}, user : People]
      BY <1>2 DEF FindFollow, FollowJob, Idle
    <2>2. [job[w] EXCEPT !.at = "create"] \in FollowJob /\ Idle \in FollowJob
      BY <2>1 DEF FollowJob
    <2> QED
      BY <1>2, <2>2 DEF FindFollow, GoTo, Finish, contactVars
  <1>3. ASSUME NEW w \in Workers, CreateFollow(w) PROVE FollowTypeOK'
    <2>1. job[w].user \in People
      BY <1>3 DEF CreateFollow, FollowJob, Idle
    <2> QED
      BY <1>3, <2>1 DEF CreateFollow, Finish, FollowJob, contactVars
  <1>4. ASSUME NEW p \in People, unfollow(p) PROVE FollowTypeOK'
    BY <1>4 DEF unfollow, contactVars
  <1>5. CASE ContactNext /\ UNCHANGED <<follows, job>>
    BY <1>5 DEF ContactNext, CollaborationAccepted, CollaborationCompleted, BlockChanged,
       hasActiveCollaboration
  <1>6. CASE UNCHANGED followVars
    BY <1>6 DEF followVars, contactVars
  <1> QED
    BY <1>1, <1>2, <1>3, <1>4, <1>5, <1>6 DEF FollowNext

\* Nobody follows at first.
LEMMA FollowStarted ==
  ASSUME FollowInit
  PROVE  FollowTypeOK
  BY DEF FollowInit, ContactInit, FollowTypeOK, FollowJob, NoJobs

\* While one has blocked the other and no request is past the check, a step
\* makes nobody follow.
LEMMA FollowsClosed ==
  ASSUME FollowTypeOK, [FollowNext]_followVars
  PROVE  NoNewFollows
  <1> SUFFICES ASSUME FollowsShut
               PROVE  follows' \subseteq follows /\ (Opening \/ FollowsShut')
    BY DEF NoNewFollows
  <1> USE DEF FollowTypeOK, FollowsShut
  <1>1. ASSUME NEW w \in Workers, NEW p \in People, AssertNotBlocked(w, p) PROVE FALSE
    BY <1>1 DEF AssertNotBlocked
  <1>2. ASSUME NEW w \in Workers, FindFollow(w) \/ CreateFollow(w) PROVE FALSE
    BY <1>2 DEF FindFollow, CreateFollow
  <1>3. ASSUME NEW p \in People, unfollow(p)
        PROVE  follows' \subseteq follows /\ FollowsShut'
    BY <1>3 DEF unfollow, contactVars
  <1>4. CASE ContactNext /\ UNCHANGED <<follows, job>>
    <2>1. job' = job /\ (Opening \/ blocked')
      BY <1>4 DEF ContactNext, CollaborationAccepted, CollaborationCompleted, BlockChanged,
         Opening
    <2> QED
      BY <1>4, <2>1
  <1>5. CASE UNCHANGED followVars
    BY <1>5 DEF followVars, contactVars
  <1> QED
    BY <1>1, <1>2, <1>3, <1>4, <1>5 DEF FollowNext

---------------------------------------------------------------------------
(* Browsing *)

\* Nobody has changed anything at first.
LEMMA BrowseStarted ==
  ASSUME BrowseInit
  PROVE  BrowseTypeOK
  <1>1. PICK premium \in SUBSET Folk :
          who = [u \in Folk |-> [status |-> "ACTIVE", isProfileCompleted |-> TRUE,
                                 isDiscoverable |-> TRUE, isPremium |-> u \in premium]]
    BY DEF BrowseInit
  <1>2. ASSUME NEW u \in Folk
        PROVE  who[u] \in Account
    <2>1. (u \in premium) \in BOOLEAN
      OBVIOUS
    <2>2. PICK b \in BOOLEAN : b = (u \in premium)
      BY <2>1
    <2>3. who[u] = [status |-> "ACTIVE", isProfileCompleted |-> TRUE,
                    isDiscoverable |-> TRUE, isPremium |-> b]
      BY <1>1, <2>2, Zenon
    <2> QED
      BY <2>3 DEF Account, Standing
  <1>3. who \in [Folk -> Account]
    BY <1>1, <1>2
  <1>4. wall \in [WallPosts -> WallPost]
    BY DEF BrowseInit, WallPost
  <1>5. 0 \in 0..MaxChanges
    BY BrowseConstants
  <1>6. EarlierReports \subseteq Report
    BY BrowseConstants DEF Report
  <1> QED
    BY <1>3, <1>4, <1>5, <1>6 DEF BrowseInit, BrowseTypeOK

\* A request that writes is counted.
LEMMA ChangeCounts ==
  ASSUME BrowseTypeOK, Change
  PROVE  changed' \in 0..MaxChanges
  BY BrowseConstants DEF BrowseTypeOK, Change

\* No step breaks the types.
LEMMA BrowseKept ==
  ASSUME BrowseTypeOK, [BrowseNext]_browseVars
  PROVE  BrowseTypeOK'
  <1> USE DEF BrowseTypeOK
  <1>1. ASSUME NEW p \in WallPosts, PostChanges(p)
        PROVE  BrowseTypeOK'
    <2>1. wall[p] \in WallPost
      OBVIOUS
    <2>2. /\ \A s \in {"OPEN", "COMPLETED", "CLOSED"} : [wall[p] EXCEPT !.status = s] \in WallPost
          /\ [wall[p] EXCEPT !.isActive = FALSE] \in WallPost
          /\ [wall[p] EXCEPT !.boosted = TRUE] \in WallPost
          /\ [wall[p] EXCEPT !.isHidden = TRUE] \in WallPost
          /\ [wall[p] EXCEPT !.isActive = TRUE, !.isHidden = FALSE] \in WallPost
      BY <2>1 DEF WallPost
    <2>3. [wall EXCEPT ![p].isActive = TRUE, ![p].isHidden = FALSE]
            = [wall EXCEPT ![p] = [wall[p] EXCEPT !.isActive = TRUE, !.isHidden = FALSE]]
      BY <2>1 DEF WallPost
    <2>4. \E row \in WallPost : wall' = [wall EXCEPT ![p] = row]
      BY <1>1, <2>2, <2>3 DEF PostChanges
    <2>5. wall' \in [WallPosts -> WallPost]
      BY <2>4
    <2> QED
      BY <1>1, <2>5, ChangeCounts DEF PostChanges
  <1>2. ASSUME NEW p \in WallPosts, PostAges(p)
        PROVE  BrowseTypeOK'
    <2>1. wall[p] \in WallPost
      OBVIOUS
    <2>2. /\ [wall[p] EXCEPT !.expired = TRUE] \in WallPost
          /\ [wall[p] EXCEPT !.boosted = FALSE] \in WallPost
      BY <2>1 DEF WallPost
    <2>3. \E row \in WallPost : wall' = [wall EXCEPT ![p] = row]
      BY <1>2, <2>2 DEF PostAges
    <2>4. wall' \in [WallPosts -> WallPost]
      BY <2>3
    <2> QED
      BY <1>2, <2>4, ChangeCounts DEF PostAges
  <1>3. ASSUME NEW u \in Folk, NEW s \in Standing, StandingChanges(u, s)
        PROVE  BrowseTypeOK'
    <2>1. who' \in [Folk -> Account]
      BY <1>3 DEF StandingChanges, Account, Standing
    <2> QED
      BY <1>3, <2>1, ChangeCounts DEF StandingChanges
  <1>4. ASSUME NEW u \in Folk, AccountChanges(u)
        PROVE  BrowseTypeOK'
    <2>1. who[u] \in Account
      OBVIOUS
    <2>2. ASSUME NEW b \in BOOLEAN
          PROVE  /\ [who[u] EXCEPT !.isProfileCompleted = b] \in Account
                 /\ [who[u] EXCEPT !.isPremium = b] \in Account
                 /\ [who[u] EXCEPT !.isDiscoverable = b] \in Account
      BY <2>1 DEF Account
    <2>3. \E row \in Account : who' = [who EXCEPT ![u] = row]
      <3>1. PICK x \in BOOLEAN : x = ~who[u].isProfileCompleted
        OBVIOUS
      <3>2. PICK y \in BOOLEAN : y = ~who[u].isPremium
        OBVIOUS
      <3>3. PICK z \in BOOLEAN : z = ~who[u].isDiscoverable
        OBVIOUS
      <3>4. \/ who' = [who EXCEPT ![u] = [who[u] EXCEPT !.isProfileCompleted = x]]
            \/ who' = [who EXCEPT ![u] = [who[u] EXCEPT !.isPremium = y]]
            \/ who' = [who EXCEPT ![u] = [who[u] EXCEPT !.isDiscoverable = z]]
        BY <1>4, <3>1, <3>2, <3>3, Zenon DEF AccountChanges
      <3> QED
        BY <2>2, <3>4
    <2>4. who' \in [Folk -> Account]
      BY <2>3
    <2> QED
      BY <1>4, <2>4, ChangeCounts DEF AccountChanges
  <1>5. ASSUME NEW u \in Folk, NEW v \in Folk, Cut(u, v)
        PROVE  BrowseTypeOK'
    <2>1. PICK row : row = [by |-> u, target |-> v, autoGenerated |-> TRUE, status |-> "PENDING"]
      OBVIOUS
    <2>2. row \in Report
      BY <2>1 DEF Report
    <2>3. \/ cuts' = cuts \cup {<<u, v>>} /\ reports' = reports \cup {row}
          \/ cuts' = cuts \ {<<u, v>>} /\ reports' = reports
      BY <1>5, <2>1 DEF Cut
    <2>4. reports' \subseteq Report /\ cuts' \subseteq Folk \X Folk
      BY <2>2, <2>3
    <2> QED
      BY <1>5, <2>4, ChangeCounts DEF Cut
  <1>6. ASSUME NEW u \in Folk, NEW v \in Folk, FansChange(u, v)
        PROVE  BrowseTypeOK'
    <2>1. fans' \subseteq Folk \X Folk
      BY <1>6 DEF FansChange
    <2> QED
      BY <1>6, <2>1, ChangeCounts DEF FansChange
  <1>7. ASSUME NEW u \in Folk, NEW p \in WallPosts, BookmarksChange(u, p)
        PROVE  BrowseTypeOK'
    <2>1. bookmarks' \subseteq Folk \X WallPosts
      BY <1>7 DEF BookmarksChange
    <2> QED
      BY <1>7, <2>1, ChangeCounts DEF BookmarksChange
  <1>8. ASSUME NEW u \in Folk, NEW target \in Folk \cup WallPosts, createReport(u, target)
        PROVE  BrowseTypeOK'
    <2>1. [by |-> u, target |-> target, autoGenerated |-> FALSE, status |-> "PENDING"] \in Report
      BY DEF Report
    <2>2. reports' \subseteq Report
      BY <1>8, <2>1 DEF createReport
    <2> QED
      BY <1>8, <2>2, ChangeCounts DEF createReport
  <1>9. ASSUME NEW u \in Folk, NEW s \in {"PENDING", "VERIFIED"}, AttemptsChange(u, s)
        PROVE  BrowseTypeOK'
    <2>1. attempts' \in [Folk -> SUBSET {"PENDING", "VERIFIED"}]
      BY <1>9 DEF AttemptsChange
    <2> QED
      BY <1>9, <2>1, ChangeCounts DEF AttemptsChange
  <1>10. ASSUME NEW r \in reports, NEW s \in {"REVIEWED", "DISMISSED"}, reviewReport(r, s)
         PROVE  BrowseTypeOK'
    <2>1. [r EXCEPT !.status = s] \in Report
      BY DEF Report
    <2>2. reports' \subseteq Report
      BY <1>10, <2>1 DEF reviewReport
    <2> QED
      BY <1>10, <2>2, ChangeCounts DEF reviewReport
  <1>11. CASE UNCHANGED browseVars
    BY <1>11 DEF browseVars
  <1> QED
    BY <1>1, <1>2, <1>3, <1>4, <1>5, <1>6, <1>7, <1>8, <1>9, <1>10, <1>11 DEF BrowseNext

---------------------------------------------------------------------------
(* What users and admins are shown *)

\* A profile lists the posts that open, and no list names a post or a person
\* that does not.
LEMMA ListedOpens ==
  ASSUME NEW v \in Viewers
  PROVE  ListsOpen(v)
  <1>1. v # Nobody => v \in Folk /\ ActiveUser(v)
    BY DEF Viewers
  <1>2. ASSUME NEW u \in Folk
        PROVE  listUserPosts(u, v) = {p \in WrittenBy(u) : getPostById(p, v)}
    <2>1. ASSUME NEW p \in WrittenBy(u)
          PROVE  p \in listUserPosts(u, v) <=> getPostById(p, v)
      <3>1. WriterOf[p] = u
        BY DEF WrittenBy
      <3>2. v = u => ActiveUser(u)
        BY <1>1, BrowseConstants
      <3> QED
        BY <3>1, <3>2 DEF listUserPosts, getPostById, notExpired
    <2>2. listUserPosts(u, v) \subseteq WrittenBy(u)
      BY DEF listUserPosts
    <2> QED
      BY <2>1, <2>2
  <1>3. \A p \in listSavedPosts(v) : getPostById(p, v) \/ wall[p].status = "CLOSED"
    BY DEF listSavedPosts, getPostById, notExpired
  <1>4. \A u \in Shown(v) : getUserById(u)
    <2>1. \A u \in searchProfiles(v) \cup listSuggestions(v) : ActiveUser(u)
      BY DEF searchProfiles, listSuggestions
    <2>2. \A slug : \A u \in listByCategory(v, slug) : ActiveUser(u)
      BY DEF listByCategory
    <2>3. \A f : \A u \in listFollowing(f, v) \cup listFollowers(f, v) : ActiveUser(u)
      BY DEF listFollowing, listFollowers
    <2> QED
      BY <2>1, <2>2, <2>3 DEF Shown, getUserById
  <1> QED
    BY <1>2, <1>3, <1>4 DEF ListsOpen

\* Sets with no element in common are as large as their union.
LEMMA DisjointSizes ==
  ASSUME NEW S, NEW T, IsFiniteSet(S), IsFiniteSet(T), S \cap T = {}
  PROVE  /\ IsFiniteSet(S \cup T)
         /\ Cardinality(S \cup T) = Cardinality(S) + Cardinality(T)
  <1>1. Cardinality(S \cap T) = 0
    BY FS_EmptySet
  <1>2. Cardinality(S) \in Nat /\ Cardinality(T) \in Nat
    BY FS_CardinalityType
  <1>3. /\ IsFiniteSet(S \cup T)
        /\ Cardinality(S \cup T) = Cardinality(S) + Cardinality(T) - Cardinality(S \cap T)
    BY FS_Union
  <1> QED
    BY <1>1, <1>2, <1>3

\* The posts of ps that are newer than p.
NewerIn(ps, p) == {q \in ps : CreatedAt[q] > CreatedAt[p]}

\* A strict subset of a finite set is smaller.
LEMMA SmallerSubset ==
  ASSUME NEW S, NEW T, IsFiniteSet(T), S \subseteq T
  PROVE  /\ IsFiniteSet(S) /\ Cardinality(S) \in Nat /\ Cardinality(T) \in Nat
         /\ Cardinality(S) <= Cardinality(T)
         /\ S # T => Cardinality(S) < Cardinality(T)
  <1>1. /\ IsFiniteSet(S) /\ Cardinality(S) <= Cardinality(T)
        /\ Cardinality(S) = Cardinality(T) => S = T
    BY FS_Subset
  <1>2. Cardinality(S) \in Nat /\ Cardinality(T) \in Nat
    BY <1>1, FS_CardinalityType
  <1> QED
    BY <1>1, <1>2

\* As many posts are newer than one of n posts as there are numbers below n.
LEMMA RanksOfPosts ==
  ASSUME NEW ps \in SUBSET WallPosts
  PROVE  /\ \A p \in ps : Cardinality(NewerIn(ps, p)) \in 0..(Cardinality(ps) - 1)
         /\ \A p, q \in ps : Cardinality(NewerIn(ps, p)) = Cardinality(NewerIn(ps, q)) => p = q
         /\ \A n \in 0..(Cardinality(ps) - 1) : \E p \in ps : Cardinality(NewerIn(ps, p)) = n
  <1> DEFINE rank(p) == Cardinality(NewerIn(ps, p))
             below == 0..(Cardinality(ps) - 1)
             ranks == [p \in ps |-> rank(p)]
  <1>1. IsFiniteSet(ps) /\ Cardinality(ps) \in Nat
    BY BrowseConstants, FS_Subset, FS_CardinalityType
  <1>2. \A p \in ps : CreatedAt[p] \in Nat
    BY BrowseConstants
  <1>3. ASSUME NEW p \in ps PROVE rank(p) \in below
    <2>1. NewerIn(ps, p) \subseteq ps /\ p \notin NewerIn(ps, p)
      BY <1>2 DEF NewerIn
    <2> QED
      BY <1>1, <2>1, SmallerSubset
  <1>4. ASSUME NEW p \in ps, NEW q \in ps, CreatedAt[p] > CreatedAt[q]
        PROVE  rank(p) < rank(q)
    <2>1. NewerIn(ps, p) \subseteq NewerIn(ps, q)
      BY <1>2, <1>4 DEF NewerIn
    <2>2. p \in NewerIn(ps, q) /\ p \notin NewerIn(ps, p)
      BY <1>2, <1>4 DEF NewerIn
    <2>3. IsFiniteSet(NewerIn(ps, q))
      BY <1>1, FS_Subset DEF NewerIn
    <2> QED
      BY <2>1, <2>2, <2>3, SmallerSubset
  <1>5. ASSUME NEW p \in ps, NEW q \in ps, rank(p) = rank(q) PROVE p = q
    <2>1. rank(p) \in Nat
      BY <1>3
    <2>2. ~(CreatedAt[p] > CreatedAt[q]) /\ ~(CreatedAt[q] > CreatedAt[p])
      BY <1>4, <1>5, <2>1
    <2> QED
      BY <1>2, <2>2, BrowseConstants
  <1>6. ranks \in Injection(ps, below)
    BY <1>3, <1>5 DEF Injection, IsInjective
  <1>7. IsFiniteSet(below) /\ Cardinality(below) = Cardinality(ps)
    BY <1>1, FS_Interval
  <1>8. ranks \in Surjection(ps, below)
    BY <1>6, <1>7, FS_Injection
  <1>9. \A n \in below : \E p \in ps : ranks[p] = n
    BY <1>8 DEF Surjection
  <1> QED
    BY <1>3, <1>5, <1>9

\* The posts of one writer.
By(ps, u) == {p \in ps : WriterOf[p] = u}

\* Rounds are ranks among the posts of a writer.
LEMMA Rounds ==
  ASSUME NEW ps \in SUBSET WallPosts
  PROVE  /\ \A p \in ps : round(ps, p) \in Nat
         /\ \A p, q \in ps : WriterOf[p] = WriterOf[q] /\ round(ps, p) = round(ps, q) => p = q
         /\ \A qs \in SUBSET ps : \A p \in qs : round(qs, p) <= round(ps, p)
         /\ \A p \in ps, n \in Nat : n <= round(ps, p) =>
              \E q \in ps : WriterOf[q] = WriterOf[p] /\ round(ps, q) = n
  <1>1. \A qs \in SUBSET ps : \A p \in qs :
           round(qs, p) = Cardinality(NewerIn(By(qs, WriterOf[p]), p))
    <2> SUFFICES ASSUME NEW qs \in SUBSET ps, NEW p \in qs
                 PROVE  round(qs, p) = Cardinality(NewerIn(By(qs, WriterOf[p]), p))
      OBVIOUS
    <2>1. NewerIn(By(qs, WriterOf[p]), p)
            = {q \in qs : WriterOf[q] = WriterOf[p] /\ CreatedAt[q] > CreatedAt[p]}
      BY DEF NewerIn, By
    <2> QED
      BY <2>1 DEF round
  <1>2. ASSUME NEW p \in ps
        PROVE  /\ round(ps, p) \in Nat /\ round(ps, p) < Cardinality(By(ps, WriterOf[p]))
               /\ Cardinality(By(ps, WriterOf[p])) \in Nat
               /\ \A q \in ps : WriterOf[p] = WriterOf[q] /\ round(ps, p) = round(ps, q) => p = q
               /\ \A n \in Nat : n <= round(ps, p) =>
                    \E q \in ps : WriterOf[q] = WriterOf[p] /\ round(ps, q) = n
    <2> DEFINE mine == By(ps, WriterOf[p])
    <2>1. mine \in SUBSET WallPosts /\ p \in mine /\ IsFiniteSet(mine)
      BY BrowseConstants, FS_Subset DEF By
    <2>2. \A q \in mine : round(ps, q) = Cardinality(NewerIn(mine, q))
      BY <1>1 DEF By
    <2>3. /\ \A q \in mine : round(ps, q) \in 0..(Cardinality(mine) - 1)
          /\ \A q, x \in mine : round(ps, q) = round(ps, x) => q = x
          /\ \A n \in 0..(Cardinality(mine) - 1) : \E q \in mine : round(ps, q) = n
      <3> HIDE DEF mine
      <3>1. /\ \A q \in mine : Cardinality(NewerIn(mine, q)) \in 0..(Cardinality(mine) - 1)
            /\ \A q, x \in mine : Cardinality(NewerIn(mine, q)) = Cardinality(NewerIn(mine, x))
                                    => q = x
            /\ \A n \in 0..(Cardinality(mine) - 1) :
                 \E q \in mine : Cardinality(NewerIn(mine, q)) = n
        BY <2>1, RanksOfPosts
      <3> QED
        BY <2>2, <3>1
    <2>4. Cardinality(mine) \in Nat
      BY <2>1, FS_CardinalityType
    <2>5. \A q \in ps : WriterOf[p] = WriterOf[q] => q \in mine
      BY DEF By
    <2>6. \A q \in mine : q \in ps /\ WriterOf[q] = WriterOf[p]
      BY DEF By
    <2>7. round(ps, p) \in Nat /\ round(ps, p) < Cardinality(mine)
      BY <2>1, <2>3, <2>4
    <2> HIDE DEF mine
    <2>8. \A n \in Nat : n <= round(ps, p) =>
                    \E q \in ps : WriterOf[q] = WriterOf[p] /\ round(ps, q) = n
      BY <2>3, <2>4, <2>6, <2>7
    <2> QED
      BY <2>1, <2>3, <2>4, <2>5, <2>7, <2>8 DEF mine
  <1>3. ASSUME NEW qs \in SUBSET ps, NEW p \in qs
        PROVE  round(qs, p) <= round(ps, p)
    <2>1. IsFiniteSet(By(ps, WriterOf[p]))
      BY BrowseConstants, FS_Subset DEF By
    <2>2. IsFiniteSet(NewerIn(By(ps, WriterOf[p]), p))
      BY <2>1, FS_Subset DEF NewerIn
    <2>3. NewerIn(By(qs, WriterOf[p]), p) \subseteq NewerIn(By(ps, WriterOf[p]), p)
      BY DEF NewerIn, By
    <2> QED
      BY <1>1, <2>2, <2>3, SmallerSubset
  <1> QED
    BY <1>2, <1>3

\* Taking posts out of a list brings none of the others further back.
LEMMA FewerComeBefore ==
  ASSUME NEW ps \in SUBSET WallPosts, NEW qs \in SUBSET ps, NEW p \in qs
  PROVE  /\ IsFiniteSet(Before(ps, diversifyByAuthor(ps), p))
         /\ Cardinality(Before(qs, diversifyByAuthor(qs), p))
              <= Cardinality(Before(ps, diversifyByAuthor(ps), p))
  <1> DEFINE few == Before(qs, diversifyByAuthor(qs), p)
             many == Before(ps, diversifyByAuthor(ps), p)
             same(q) == CHOOSE x \in ps : WriterOf[x] = WriterOf[q] /\ round(ps, x) = round(qs, q)
             shift == [q \in few |-> same(q)]
  <1>1. /\ \A x \in ps : round(ps, x) \in Nat
        /\ \A x \in qs : round(qs, x) \in Nat /\ round(qs, x) <= round(ps, x)
    BY Rounds
  <1>2. ASSUME NEW q \in few
        PROVE  /\ same(q) \in ps /\ WriterOf[same(q)] = WriterOf[q]
               /\ round(ps, same(q)) = round(qs, q)
    <2>1. q \in qs
      BY DEF Before
    <2>2. \E x \in ps : WriterOf[x] = WriterOf[q] /\ round(ps, x) = round(qs, q)
      BY <1>1, <2>1, Rounds
    <2> QED
      BY <2>2
  <1>3. ASSUME NEW q \in few PROVE same(q) \in many
    <2>1. /\ q \in qs
          /\ \/ round(qs, q) < round(qs, p)
             \/ round(qs, q) = round(qs, p) /\ userOrder(qs, WriterOf[q], WriterOf[p])
      BY DEF Before, diversifyByAuthor
    <2>2. CASE round(qs, q) < round(ps, p)
      BY <1>1, <1>2, <2>2 DEF Before, diversifyByAuthor
    <2>3. CASE round(qs, q) >= round(ps, p)
      <3>1. round(qs, q) = round(qs, p) /\ round(qs, p) = round(ps, p)
            /\ userOrder(qs, WriterOf[q], WriterOf[p])
        BY <1>1, <2>1, <2>3
      <3>2. PICK x \in qs : /\ WriterOf[x] = WriterOf[q]
                            /\ \A y \in qs : WriterOf[y] = WriterOf[p]
                                             => CreatedAt[x] > CreatedAt[y]
        BY <3>1 DEF userOrder
      <3>3. {y \in ps : WriterOf[y] = WriterOf[p] /\ CreatedAt[y] > CreatedAt[p]} \subseteq qs
        <4> DEFINE newer(s) == {y \in s : WriterOf[y] = WriterOf[p] /\ CreatedAt[y] > CreatedAt[p]}
        <4>1. IsFiniteSet(newer(ps)) /\ newer(qs) \subseteq newer(ps)
          BY BrowseConstants, FS_Subset
        <4>2. Cardinality(newer(qs)) = Cardinality(newer(ps))
          BY <3>1 DEF round
        <4>3. newer(qs) = newer(ps)
          BY <4>1, <4>2, SmallerSubset
        <4> QED
          BY <4>3
      <3>4. \A y \in ps : CreatedAt[y] \in Nat
        BY BrowseConstants
      <3>5. \A y \in ps : WriterOf[y] = WriterOf[p] => CreatedAt[x] > CreatedAt[y]
        <4> SUFFICES ASSUME NEW y \in ps, WriterOf[y] = WriterOf[p]
                     PROVE  CreatedAt[x] > CreatedAt[y]
          OBVIOUS
        <4>1. CASE CreatedAt[y] > CreatedAt[p]
          BY <3>2, <3>3, <4>1
        <4>2. CASE ~(CreatedAt[y] > CreatedAt[p])
          <5>1. CreatedAt[x] > CreatedAt[p]
            BY <3>2
          <5>2. x \in ps /\ p \in ps
            OBVIOUS
          <5> QED
            BY <3>4, <4>2, <5>1, <5>2
        <4> QED
          BY <4>1, <4>2
      <3>6. userOrder(ps, WriterOf[q], WriterOf[p])
        BY <3>2, <3>5 DEF userOrder
      <3>7. round(ps, same(q)) = round(ps, p)
            /\ userOrder(ps, WriterOf[same(q)], WriterOf[p])
        BY <1>2, <3>1, <3>6
      <3> QED
        BY <1>2, <3>7 DEF Before, diversifyByAuthor
    <2> QED
      BY <1>1, <2>1, <2>2, <2>3
  <1>4. ASSUME NEW q \in few, NEW x \in few, same(q) = same(x) PROVE q = x
    <2>1. q \in qs /\ x \in qs /\ WriterOf[q] = WriterOf[x] /\ round(qs, q) = round(qs, x)
      BY <1>2, <1>4 DEF Before
    <2>2. \A y, z \in qs : WriterOf[y] = WriterOf[z] /\ round(qs, y) = round(qs, z) => y = z
      <3>1. qs \in SUBSET WallPosts
        OBVIOUS
      <3> QED
        BY <3>1, Rounds
    <2> QED
      BY <2>1, <2>2
  <1> HIDE DEF same
  <1>5. shift \in Injection(few, many)
    BY <1>3, <1>4 DEF Injection, IsInjective
  <1>6. IsFiniteSet(many)
    BY BrowseConstants, FS_Subset DEF Before
  <1> QED
    BY <1>5, <1>6, FS_Injection

\* r posts come before the one that is on page r \div limit + 1, which is not
\* after the last of the pages that show more than r posts.
LEMMA PageOfRank ==
  ASSUME NEW limit \in Nat \ {0}, NEW total \in Nat, NEW r \in Nat
  PROVE  /\ r \div limit \in Nat
         /\ r \in ((r \div limit + 1) - 1) * limit .. (r \div limit + 1) * limit - 1
         /\ r < total => r \div limit + 1 \in 1..totalPages(total, limit)
         /\ r >= limit => r \div limit >= 1
         /\ totalPages(total, limit) \in Nat
  <1> DEFINE q == r \div limit
             last == (total + limit - 1) \div limit
  <1>1. \A n \in Nat : n \div limit \in Nat /\ (n \div limit) * limit <= n
                       /\ n < (n \div limit) * limit + limit
    OBVIOUS
  <1>2. q \in Nat /\ q * limit <= r /\ r < q * limit + limit
    BY <1>1
  <1>3. last \in Nat /\ total + limit - 1 < last * limit + limit
    BY <1>1
  <1> HIDE DEF q, last
  <1>4. \A m, n \in Nat : m <= n => m * limit <= n * limit
    OBVIOUS
  <1>5. q * limit \in Nat /\ last * limit \in Nat /\ (q + 1) * limit = q * limit + limit
    BY <1>2, <1>3
  <1>6. r < total => q + 1 <= last
    <2> SUFFICES ASSUME r < total, last <= q PROVE FALSE
      BY <1>2, <1>3
    <2>1. last * limit <= q * limit
      BY <1>2, <1>3, <1>4
    <2> QED
      BY <2>1, <1>2, <1>3, <1>5
  <1>7. r >= limit => q >= 1
    <2> SUFFICES ASSUME r >= limit, q = 0 PROVE FALSE
      BY <1>2
    <2>1. q * limit = 0
      OBVIOUS
    <2> QED
      BY <2>1, <1>2
  <1>8. r \in ((q + 1) - 1) * limit .. (q + 1) * limit - 1
    BY <1>2, <1>5
  <1> QED
    BY <1>2, <1>3, <1>6, <1>7, <1>8 DEF q, last, totalPages

\* What comes before a post in the feed: posts by premium users, and others
\* only before those of the others.
LEMMA BeforeInFeed ==
  ASSUME NEW ps \in SUBSET WallPosts, NEW p \in ps
  PROVE  /\ p \in Premium(ps) =>
              Before(ps, feedOrder(ps), p)
                = Before(Premium(ps), diversifyByAuthor(Premium(ps)), p)
         /\ p \notin Premium(ps) =>
              Before(ps, feedOrder(ps), p)
                = Premium(ps) \cup Before(ps \ Premium(ps),
                                          diversifyByAuthor(ps \ Premium(ps)), p)
         /\ p \notin Before(ps, feedOrder(ps), p)
  <1>1. \A qs : diversifyByAuthor(qs) \subseteq qs \X qs
    BY DEF diversifyByAuthor
  <1>2. Premium(ps) \subseteq ps
    BY DEF Premium
  <1>3. \A qs \in SUBSET WallPosts : \A x \in qs : <<x, x>> \notin diversifyByAuthor(qs)
    <2> SUFFICES ASSUME NEW qs \in SUBSET WallPosts, NEW x \in qs,
                        <<x, x>> \in diversifyByAuthor(qs)
                 PROVE  FALSE
      OBVIOUS
    <2>1. ~(round(qs, x) < round(qs, x))
      BY Rounds
    <2>2. PICK y \in qs : WriterOf[y] = WriterOf[x] /\ CreatedAt[y] > CreatedAt[y]
      BY <2>1 DEF diversifyByAuthor, userOrder
    <2> QED
      BY <2>2, BrowseConstants
  <1> HIDE DEF Premium
  <1>4. p \in Premium(ps) =>
          Before(ps, feedOrder(ps), p)
            = Before(Premium(ps), diversifyByAuthor(Premium(ps)), p)
    BY <1>1, <1>2 DEF Before, feedOrder
  <1>5. p \notin Premium(ps) =>
          Before(ps, feedOrder(ps), p)
            = Premium(ps) \cup Before(ps \ Premium(ps), diversifyByAuthor(ps \ Premium(ps)), p)
    BY <1>1, <1>2 DEF Before, feedOrder
  <1>6. p \notin Before(ps, feedOrder(ps), p)
    BY <1>1, <1>2, <1>3 DEF Before, feedOrder
  <1> QED
    BY <1>4, <1>5, <1>6

\* Of n posts fewer than n come before one of them, and no more when some of
\* the others are taken out.
LEMMA RanksInFeed ==
  ASSUME NEW ps \in SUBSET WallPosts, NEW qs \in SUBSET ps, NEW p \in qs
  PROVE  /\ Cardinality(Before(qs, feedOrder(qs), p)) \in Nat
         /\ Cardinality(Before(ps, feedOrder(ps), p)) \in Nat
         /\ Cardinality(Before(qs, feedOrder(qs), p)) <= Cardinality(Before(ps, feedOrder(ps), p))
         /\ Cardinality(ps) \in Nat
         /\ Cardinality(Before(ps, feedOrder(ps), p)) < Cardinality(ps)
  <1>1. /\ IsFiniteSet(ps) /\ IsFiniteSet(qs)
        /\ Before(ps, feedOrder(ps), p) \subseteq ps /\ Before(qs, feedOrder(qs), p) \subseteq qs
    BY BrowseConstants, FS_Subset DEF Before
  <1>2. Cardinality(ps) \in Nat /\ Cardinality(Before(ps, feedOrder(ps), p)) < Cardinality(ps)
        /\ Cardinality(Before(ps, feedOrder(ps), p)) \in Nat
    BY <1>1, BeforeInFeed, SmallerSubset
  <1>3. Cardinality(Before(qs, feedOrder(qs), p)) \in Nat
    BY <1>1, SmallerSubset
  <1>4. Premium(qs) \subseteq Premium(ps) /\ qs \ Premium(qs) \subseteq ps \ Premium(ps)
        /\ Premium(ps) \subseteq ps /\ (p \in Premium(qs) <=> p \in Premium(ps))
        /\ Premium(qs) \subseteq qs
    BY DEF Premium
  <1>5. \A s : Before(s, diversifyByAuthor(s), p) \subseteq s
    BY DEF Before
  <1>6. CASE p \in Premium(ps)
    <2>1. Cardinality(Before(Premium(qs), diversifyByAuthor(Premium(qs)), p))
            <= Cardinality(Before(Premium(ps), diversifyByAuthor(Premium(ps)), p))
      BY <1>4, <1>6, FewerComeBefore
    <2> QED
      BY <1>2, <1>3, <1>4, <1>6, <2>1, BeforeInFeed
  <1>7. CASE p \notin Premium(ps)
    <2> DEFINE few == Before(qs \ Premium(qs), diversifyByAuthor(qs \ Premium(qs)), p)
               many == Before(ps \ Premium(ps), diversifyByAuthor(ps \ Premium(ps)), p)
    <2>1. Cardinality(few) <= Cardinality(many)
      BY <1>4, <1>7, FewerComeBefore
    <2>2. /\ few \subseteq qs \ Premium(qs) /\ many \subseteq ps \ Premium(ps)
          /\ Before(qs, feedOrder(qs), p) = Premium(qs) \cup few
          /\ Before(ps, feedOrder(ps), p) = Premium(ps) \cup many
      BY <1>4, <1>5, <1>7, BeforeInFeed
    <2> HIDE DEF few, many
    <2>3. /\ IsFiniteSet(few) /\ IsFiniteSet(many)
          /\ IsFiniteSet(Premium(ps)) /\ IsFiniteSet(Premium(qs))
          /\ Premium(qs) \cap few = {} /\ Premium(ps) \cap many = {}
      BY <1>1, <1>4, <2>2, FS_Subset
    <2>4. /\ Cardinality(Premium(qs) \cup few) = Cardinality(Premium(qs)) + Cardinality(few)
          /\ Cardinality(Premium(ps) \cup many) = Cardinality(Premium(ps)) + Cardinality(many)
      BY <2>3, DisjointSizes
    <2>5. Cardinality(Premium(qs)) <= Cardinality(Premium(ps))
          /\ Cardinality(Premium(qs)) \in Nat /\ Cardinality(Premium(ps)) \in Nat
      BY <1>4, <2>3, SmallerSubset
    <2>6. Cardinality(few) \in Nat /\ Cardinality(many) \in Nat
      BY <2>3, FS_CardinalityType
    <2> QED
      BY <1>2, <1>3, <2>1, <2>2, <2>4, <2>5, <2>6
  <1> QED
    BY <1>2, <1>3, <1>6, <1>7

\* Turning the pages of the feed shows all of the posts that the query finds,
\* and no others: boosted posts on the first page, and the others where fewer
\* come before them or on the page where they would be without the boosts.
LEMMA PagesShowAll ==
  ASSUME NEW v, NEW limit \in Nat \ {0}
  PROVE  FeedPages(v, limit) = feedWhere(v)
  <1> DEFINE ps == feedWhere(v)
             onTop == {p \in ps : wall[p].boosted}
             r(s, p) == Cardinality(Before(s, feedOrder(s), p))
             last == totalPages(Cardinality(ps), limit)
  <1>1. ps \in SUBSET WallPosts /\ IsFiniteSet(ps) /\ IsFiniteSet(onTop)
    BY BrowseConstants, FS_Subset DEF feedWhere
  <1>2. getFeed(v, 1, limit).items = onTop \cup Slice(ps \ onTop, feedOrder(ps \ onTop), 1, limit)
    BY DEF getFeed
  <1>3. \A page \in Int : page # 1 =>
          getFeed(v, page, limit).items = Slice(ps, feedOrder(ps), page, limit)
    BY DEF getFeed
  <1>4. getFeed(v, 1, limit).total = Cardinality(ps)
    <2>1. getFeed(v, 1, limit).total = Cardinality(ps \ onTop) + Cardinality(onTop)
      BY DEF getFeed, FeedTotal
    <2>2. /\ Cardinality(ps \ onTop) = Cardinality(ps) - Cardinality(ps \cap onTop)
          /\ Cardinality(ps) \in Nat /\ Cardinality(onTop) \in Nat
      BY <1>1, FS_Difference, FS_CardinalityType
    <2>3. ps \cap onTop = onTop
      OBVIOUS
    <2> QED
      BY <2>1, <2>2, <2>3
  <1>5. FeedPages(v, limit) = UNION {getFeed(v, page, limit).items : page \in 1..last}
    BY <1>4 DEF FeedPages
  <1>6. Cardinality(ps) \in Nat /\ last \in Nat
    BY <1>1, FS_CardinalityType, PageOfRank
  <1> HIDE DEF ps
  <1>7. ASSUME NEW p \in FeedPages(v, limit) PROVE p \in ps
    <2>1. PICK page \in 1..last : p \in getFeed(v, page, limit).items
      BY <1>5
    <2>2. page \in Int
      BY <1>6
    <2>3. p \in onTop \/ \E s \in SUBSET ps : p \in Slice(s, feedOrder(s), page, limit)
      BY <1>2, <1>3, <2>1, <2>2
    <2> QED
      BY <2>3 DEF Slice
  <1>8. ASSUME NEW p \in ps PROVE p \in FeedPages(v, limit)
    <2>1. r(ps, p) \in Nat /\ r(ps, p) < Cardinality(ps)
      BY <1>1, RanksInFeed
    <2> DEFINE rank == r(ps, p)
    <2> HIDE DEF r
    <2>2. /\ rank \div limit \in Nat /\ rank \div limit + 1 \in 1..last
          /\ rank \in ((rank \div limit + 1) - 1) * limit .. (rank \div limit + 1) * limit - 1
          /\ rank >= limit => rank \div limit >= 1
      BY <1>6, <2>1, PageOfRank
    <2>3. 1 \in 1..last
      BY <1>6, <2>2
    <2>4. CASE p \in onTop
      BY <1>2, <1>5, <2>3, <2>4
    <2>5. CASE p \notin onTop /\ rank < limit
      <3>1. p \in ps \ onTop /\ ps \ onTop \in SUBSET ps
        BY <2>5
      <3>2. r(ps \ onTop, p) \in Nat /\ r(ps \ onTop, p) <= rank
        BY <1>1, <3>1, RanksInFeed DEF r
      <3>3. r(ps \ onTop, p) \in (1 - 1) * limit .. 1 * limit - 1
        BY <2>1, <2>5, <3>2
      <3>4. p \in Slice(ps \ onTop, feedOrder(ps \ onTop), 1, limit)
        BY <3>1, <3>3 DEF Slice, r
      <3> QED
        BY <1>2, <1>5, <2>3, <3>4
    <2>6. CASE rank >= limit
      <3> DEFINE page == rank \div limit + 1
      <3>1. page \in Int /\ page # 1 /\ page \in 1..last
            /\ rank \in (page - 1) * limit .. page * limit - 1
        BY <2>2, <2>6
      <3> HIDE DEF page
      <3>2. p \in Slice(ps, feedOrder(ps), page, limit)
        BY <3>1 DEF Slice, r
      <3> QED
        BY <1>3, <1>5, <3>1, <3>2
    <2> QED
      BY <2>1, <2>4, <2>5, <2>6
  <1> QED
    BY <1>7, <1>8 DEF ps

\* The feed's filter is the one of the page of a post, of those roles, people and
\* labels that the viewer is not kept from: no one's own posts are in it.
LEMMA FeedHasWhatOpens ==
  ASSUME NEW v \in Viewers
  PROVE  FeedOpens(v)
  <1>1. \A p \in WallPosts :
          RoleOf[WriterOf[p]] \in TargetRoles(v) => v # WriterOf[p]
    BY BrowseConstants DEF TargetRoles, OPPOSITE_FEED_ROLE
  <1>2. feedWhere(v)
          = {p \in WallPosts :
               /\ getPostById(p, v) /\ RoleOf[WriterOf[p]] \in TargetRoles(v)
               /\ v = Nobody \/ ~(isBlockedBetween(v, WriterOf[p]) \/ HiddenLabel(v, p))}
    BY <1>1 DEF feedWhere, getPostById, notExpired, HiddenLabel
  <1>3. \A limit \in Limits : FeedPages(v, limit) = feedWhere(v)
    BY BrowseConstants, PagesShowAll
  <1> QED
    BY <1>2, <1>3 DEF FeedOpens

\* Turning the pages of a list of posts shows all that it selects.
LEMMA OfficeShowsAll ==
  ASSUME NEW status, NEW limit \in Nat \ {0}
  PROVE  OfficePosts(status, limit)
           = {p \in listPostsWhere(status) :
                status = "reported" => shapePost(p) = "reported"}
  <1> DEFINE ps == listPostsWhere(status)
             last == totalPages(Cardinality(ps), limit)
  <1>1. ps \in SUBSET WallPosts /\ IsFiniteSet(ps) /\ Cardinality(ps) \in Nat
    BY BrowseConstants, FS_Subset, FS_CardinalityType DEF listPostsWhere
  <1>2. \A page \in 1..last :
          listPosts(status, page, limit)
            = {p \in Slice(ps, NewestFirst(ps), page, limit) :
                 status = "reported" => shapePost(p) = "reported"}
    BY DEF listPosts
  <1>3. OfficePosts(status, limit) = UNION {listPosts(status, page, limit) : page \in 1..last}
    BY DEF OfficePosts
  <1> HIDE DEF ps
  <1>4. ASSUME NEW p \in ps
        PROVE  \E page \in 1..last : p \in Slice(ps, NewestFirst(ps), page, limit)
    <2> DEFINE rank == Cardinality(NewerIn(ps, p))
               page == rank \div limit + 1
    <2>1. rank \in 0..(Cardinality(ps) - 1)
      BY <1>1, RanksOfPosts
    <2>2. Before(ps, NewestFirst(ps), p) = NewerIn(ps, p)
      BY DEF Before, NewestFirst, NewerIn
    <2> HIDE DEF rank
    <2>3. page \in 1..last /\ rank \in (page - 1) * limit .. page * limit - 1
      <3>1. rank \in Nat /\ rank < Cardinality(ps)
        BY <1>1, <2>1
      <3> QED
        BY <1>1, <3>1, PageOfRank
    <2> QED
      BY <2>2, <2>3 DEF Slice, rank
  <1>5. \A page : Slice(ps, NewestFirst(ps), page, limit) \subseteq ps
    BY DEF Slice
  <1> HIDE DEF last
  <1> QED
    BY <1>2, <1>3, <1>4, <1>5 DEF ps

\* The lists of posts have what their labels say, and what the dashboard counts.
LEMMA PagesShowLabels ==
  ASSUME BrowseTypeOK
  PROVE  PagesAgree
  <1> DEFINE labelled(status) == {p \in WallPosts : shapePost(p) = status}
  <1> SUFFICES ASSUME NEW limit \in Limits
               PROVE  /\ \A status \in {"hidden", "deleted", "reported"} :
                           OfficePosts(status, limit) = labelled(status)
                      /\ OfficePosts("active", limit) = labelled("active") \cup labelled("reported")
                      /\ getDashboardStats.activePosts = Cardinality(OfficePosts("active", limit))
                      /\ getDashboardStats.deletedPosts = Cardinality(OfficePosts("deleted", limit))
    BY DEF PagesAgree
  <1>1. /\ limit \in Nat \ {0}
        /\ \A p \in WallPosts : wall[p].isActive \in BOOLEAN /\ wall[p].isHidden \in BOOLEAN
    BY BrowseConstants DEF BrowseTypeOK, WallPost
  <1>2. /\ listPostsWhere("hidden") = {p \in WallPosts : wall[p].isActive /\ wall[p].isHidden}
        /\ listPostsWhere("deleted") = {p \in WallPosts : ~wall[p].isActive}
        /\ listPostsWhere("active") = {p \in WallPosts : wall[p].isActive /\ ~wall[p].isHidden}
        /\ listPostsWhere("reported") = WallPosts
    BY <1>1 DEF listPostsWhere
  <1>3. /\ labelled("hidden") = {p \in WallPosts : wall[p].isActive /\ wall[p].isHidden}
        /\ labelled("deleted") = {p \in WallPosts : ~wall[p].isActive}
        /\ labelled("active") \cup labelled("reported")
             = {p \in WallPosts : wall[p].isActive /\ ~wall[p].isHidden}
    BY <1>1 DEF shapePost
  <1>4. /\ OfficePosts("hidden", limit) = listPostsWhere("hidden")
        /\ OfficePosts("deleted", limit) = listPostsWhere("deleted")
        /\ OfficePosts("active", limit) = listPostsWhere("active")
        /\ OfficePosts("reported", limit)
             = {p \in listPostsWhere("reported") : shapePost(p) = "reported"}
    BY <1>1, OfficeShowsAll
  <1>5. /\ getDashboardStats.activePosts
             = Cardinality({p \in WallPosts : wall[p].isActive /\ ~wall[p].isHidden})
        /\ getDashboardStats.deletedPosts = Cardinality({p \in WallPosts : ~wall[p].isActive})
    BY DEF getDashboardStats
  <1>6. /\ OfficePosts("hidden", limit) = labelled("hidden")
        /\ OfficePosts("deleted", limit) = labelled("deleted")
        /\ OfficePosts("active", limit) = labelled("active") \cup labelled("reported")
    BY <1>2, <1>3, <1>4
  <1>7. OfficePosts("reported", limit) = labelled("reported")
    BY <1>2, <1>4
  <1>8. /\ getDashboardStats.activePosts = Cardinality(OfficePosts("active", limit))
        /\ getDashboardStats.deletedPosts = Cardinality(OfficePosts("deleted", limit))
    BY <1>2, <1>4, <1>5
  <1> HIDE DEF labelled
  <1> QED
    BY <1>6, <1>7, <1>8

\* Two parts of a finite set that have nothing in common and nothing left out.
LEMMA PartsAddUp ==
  ASSUME NEW S, IsFiniteSet(S), NEW P, NEW Q, P \cup Q = S, P \cap Q = {}
  PROVE  /\ Cardinality(S) = Cardinality(P) + Cardinality(Q)
         /\ Cardinality(S) \in Nat /\ Cardinality(P) \in Nat /\ Cardinality(Q) \in Nat
  <1>1. /\ P \in SUBSET S /\ Q \in SUBSET S
        /\ IsFiniteSet(P) /\ IsFiniteSet(Q)
    BY FS_Subset
  <1>2. /\ Cardinality(S) \in Nat /\ Cardinality(P) \in Nat /\ Cardinality(Q) \in Nat
        /\ Cardinality(P \cap Q) = 0
    BY <1>1, FS_CardinalityType, FS_EmptySet
  <1>3. Cardinality(P \cup Q) = Cardinality(P) + Cardinality(Q) - Cardinality(P \cap Q)
    BY <1>1, FS_Union
  <1>4. Cardinality(S) = Cardinality(P) + Cardinality(Q) - 0
    BY <1>2, <1>3
  <1> QED
    BY <1>2, <1>4

\* There are finitely many reports one could file.
LEMMA ReportsAreFinite ==
  ASSUME BrowseTypeOK
  PROVE  IsFiniteSet(reports)
  <1> DEFINE Targets == Folk \cup WallPosts
             States == {"PENDING", "REVIEWED", "DISMISSED"}
             Parts == (Folk \X Targets) \X (BOOLEAN \X States)
             f == [x \in Parts |-> [by |-> x[1][1], target |-> x[1][2],
                                    autoGenerated |-> x[2][1], status |-> x[2][2]]]
  <1>1. IsFiniteSet(Targets)
    BY BrowseConstants, FS_Union
  <1>2. IsFiniteSet(BOOLEAN) /\ IsFiniteSet(States)
    <2>1. BOOLEAN = {TRUE} \cup {FALSE} /\ States = {"PENDING"} \cup ({"REVIEWED"} \cup {"DISMISSED"})
      OBVIOUS
    <2>2. /\ IsFiniteSet({TRUE}) /\ IsFiniteSet({FALSE}) /\ IsFiniteSet({"PENDING"})
          /\ IsFiniteSet({"REVIEWED"}) /\ IsFiniteSet({"DISMISSED"})
      BY FS_Singleton
    <2>3. IsFiniteSet({"REVIEWED"} \cup {"DISMISSED"})
      BY <2>2, FS_Union
    <2>4. IsFiniteSet({"PENDING"} \cup ({"REVIEWED"} \cup {"DISMISSED"}))
      BY <2>2, <2>3, FS_Union
    <2>5. IsFiniteSet({TRUE} \cup {FALSE})
      BY <2>2, FS_Union
    <2> QED
      BY <2>1, <2>4, <2>5
  <1> HIDE DEF Targets, States
  <1>3. IsFiniteSet(Parts)
    <2>1. IsFiniteSet(Folk \X Targets) /\ IsFiniteSet(BOOLEAN \X States)
      BY <1>1, <1>2, BrowseConstants, FS_Product
    <2> QED
      BY <2>1, FS_Product
  <1>4. f \in Surjection(Parts, Report)
    <2>1. f \in [Parts -> Report]
      BY DEF Report, Targets, States
    <2>2. ASSUME NEW r \in Report
          PROVE  \E x \in Parts : f[x] = r
      <3> DEFINE x == <<<<r.by, r.target>>, <<r.autoGenerated, r.status>>>>
      <3>1. x \in Parts
        BY DEF Report, Targets, States
      <3>2. f[x] = r
        <4>1. f[x] = [by |-> r.by, target |-> r.target,
                      autoGenerated |-> r.autoGenerated, status |-> r.status]
          BY <3>1
        <4> QED
          BY <4>1 DEF Report
      <3> QED
        BY <3>1, <3>2
    <2> QED
      BY <2>1, <2>2 DEF Surjection
  <1>5. IsFiniteSet(Report)
    BY <1>3, <1>4, FS_Surjection
  <1> QED
    BY <1>5, FS_Subset DEF BrowseTypeOK

\* The users that are kept, by role and by what is missing from their profile.
LEMMA CountsAgree ==
  ASSUME BrowseTypeOK
  PROVE  CountsAddUp
  <1> DEFINE kept == {u \in Folk : who[u].status # "DELETED"}
             done == {u \in kept : who[u].isProfileCompleted}
             of(us, role) == {u \in us : RoleOf[u] = role}
  <1>1. IsFiniteSet(kept) /\ IsFiniteSet(done)
    BY BrowseConstants, FS_Subset
  <1>2. \A u \in Folk : RoleOf[u] \in {"CREATOR", "FREELANCER"}
    BY BrowseConstants
  <1>3. of(kept, "BRAND") = {}
    BY <1>2
  <1>4. Cardinality(kept) = Cardinality(of(kept, "CREATOR")) + Cardinality(of(kept, "FREELANCER"))
    <2>1. /\ of(kept, "CREATOR") \cup of(kept, "FREELANCER") = kept
          /\ of(kept, "CREATOR") \cap of(kept, "FREELANCER") = {}
      BY <1>2
    <2> HIDE DEF kept, of
    <2> QED
      BY <1>1, <2>1, PartsAddUp
  <1>5. Cardinality(done) = Cardinality(of(done, "CREATOR")) + Cardinality(of(done, "FREELANCER"))
    <2>1. /\ of(done, "CREATOR") \cup of(done, "FREELANCER") = done
          /\ of(done, "CREATOR") \cap of(done, "FREELANCER") = {}
      BY <1>2
    <2> HIDE DEF done, of
    <2> QED
      BY <1>1, <2>1, PartsAddUp
  <1>6. Cardinality(kept) = Cardinality(done) + Cardinality(kept \ done)
    <2>1. done \cup (kept \ done) = kept /\ done \cap (kept \ done) = {}
      OBVIOUS
    <2> HIDE DEF kept, done
    <2> QED
      BY <1>1, <2>1, PartsAddUp
  <1>7. /\ listCreators = of(kept, "CREATOR") /\ listFreelancers = of(kept, "FREELANCER")
        /\ listUsers("suspended") = {u \in Folk : who[u].status = "SUSPENDED"}
    BY DEF listCreators, listFreelancers, OfRole, listUsers, Statuses
  <1>8. /\ getDashboardStats.totalUsers = Cardinality(kept)
        /\ getDashboardStats.totalCreators = Cardinality(of(kept, "CREATOR"))
        /\ getDashboardStats.totalFreelancers = Cardinality(of(kept, "FREELANCER"))
        /\ getDashboardStats.totalBrands = Cardinality(of(kept, "BRAND"))
        /\ getDashboardStats.suspendedAccounts
             = Cardinality({u \in Folk : who[u].status = "SUSPENDED"})
        /\ getDashboardStats.totalCompletedProfiles = Cardinality(done)
        /\ getDashboardStats.totalIncompleteProfiles = Cardinality(kept \ done)
        /\ getDashboardStats.completedCreators = Cardinality(of(done, "CREATOR"))
        /\ getDashboardStats.completedFreelancers = Cardinality(of(done, "FREELANCER"))
    BY DEF getDashboardStats
  <1>9. Cardinality(of(kept, "BRAND")) = 0 /\ Cardinality(of(kept, "CREATOR")) \in Nat
        /\ Cardinality(of(kept, "FREELANCER")) \in Nat
    BY <1>1, <1>3, FS_EmptySet, FS_Subset, FS_CardinalityType
  <1> HIDE DEF kept, done, of
  <1>10. Cardinality(kept) = Cardinality(of(kept, "CREATOR"))
                             + Cardinality(of(kept, "FREELANCER"))
                             + Cardinality(of(kept, "BRAND"))
    BY <1>4, <1>9
  <1> QED
    BY <1>10, <1>5, <1>6, <1>7, <1>8 DEF CountsAddUp

\* The reports, by status, and no more of those reviewed than fit.
LEMMA SamplesFit ==
  ASSUME BrowseTypeOK
  PROVE  SamplesAgree
  <1> DEFINE open == {r \in reports : r.status = "PENDING"}
             closed == {r \in reports : r.status \in {"REVIEWED", "DISMISSED"}}
  <1>1. open \cup closed = reports /\ open \cap closed = {}
    BY DEF BrowseTypeOK, Report
  <1>2. listReports("") = reports /\ listReports("PENDING") = open
    BY DEF listReports
  <1>3. IsFiniteSet(reports) /\ IsFiniteSet(open) /\ IsFiniteSet(closed)
    BY ReportsAreFinite, FS_Subset
  <1>4. /\ getReportSlaStats.pendingCount = Cardinality(open)
        /\ getReportSlaStats.sampleSize
             = IF Cardinality(closed) > SlaSample THEN SlaSample ELSE Cardinality(closed)
    BY DEF getReportSlaStats
  <1> HIDE DEF open, closed
  <1>5. Cardinality(reports) = Cardinality(open) + Cardinality(closed)
    BY <1>1, <1>3, PartsAddUp
  <1>6. Cardinality(open) \in Nat /\ Cardinality(closed) \in Nat /\ SlaSample \in Nat
    BY <1>3, FS_CardinalityType, SignedUpConstants
  <1>7. PICK a, b, n : /\ a = getReportSlaStats.pendingCount
                       /\ b = getReportSlaStats.sampleSize /\ n = Cardinality(closed)
    OBVIOUS
  <1>8. a \in Nat /\ n \in Nat /\ b = IF n > SlaSample THEN SlaSample ELSE n
    BY <1>4, <1>6, <1>7
  <1>9. a + b <= a + n /\ (b = SlaSample \/ a + b = a + n)
    BY <1>6, <1>8
  <1>10. a = Cardinality(listReports("PENDING")) /\ a + n = Cardinality(listReports(""))
    BY <1>2, <1>4, <1>5, <1>7
  <1> QED
    BY <1>7, <1>9, <1>10 DEF SamplesAgree

\* The window of a minute has it.
LEMMA InItsWindow ==
  ASSUME NEW t \in Nat
  PROVE  t \in fiveHourBucketStart(t)..(fiveHourBucketStart(t) + 299)
  <1> DEFINE d == (t + IST) % 1440
             n == d \div 300
  <1>1. d \in Nat
    BY DEF IST
  <1>2. n \in Nat /\ 300 * n <= d /\ d <= 300 * n + 299
    <2> HIDE DEF d
    <2> QED
      BY <1>1
  <1>3. fiveHourBucketStart(t) = (t - d) + 300 * n
    <2>1. fiveHourBucketStart(t) = ((t + IST) - d) + 300 * n - IST
      BY DEF fiveHourBucketStart
    <2> HIDE DEF d, n
    <2> QED
      BY <1>1, <1>2, <2>1 DEF IST
  <1> HIDE DEF d, n
  <1> QED
    BY <1>1, <1>2, <1>3

\* Each of those whose profile is incomplete is listed once.
LEMMA DroppedOffOnce ==
  ASSUME BrowseTypeOK
  PROVE  DroppedOffAgree
  <1> DEFINE open == {u \in Folk : who[u].status # "DELETED" /\ ~who[u].isProfileCompleted}
             f == [u \in open |-> <<u, igStatus(u)>>]
  <1>1. IsFiniteSet(open)
    BY BrowseConstants, FS_Subset
  <1>2. f \in Bijection(open, listDroppedOffUsers)
    <2>1. f \in [open -> listDroppedOffUsers]
      BY DEF listDroppedOffUsers
    <2>2. \A u, v \in open : f[u] = f[v] => u = v
      OBVIOUS
    <2>3. \A x \in listDroppedOffUsers : \E u \in open : f[u] = x
      BY DEF listDroppedOffUsers
    <2> HIDE DEF open, f
    <2> QED
      BY <2>1, <2>2, <2>3 DEF Bijection, Injection, IsInjective, Surjection
  <1>3. Cardinality(listDroppedOffUsers) = Cardinality(open)
    <2> HIDE DEF open, f
    <2> QED
      BY <1>1, <1>2, FS_Bijection DEF ExistsBijection
  <1>4. getDashboardStats.totalIncompleteProfiles = Cardinality(open)
    <2>1. {u \in Folk : who[u].status # "DELETED"}
            \ {u \in {u \in Folk : who[u].status # "DELETED"} : who[u].isProfileCompleted} = open
      OBVIOUS
    <2> HIDE DEF open
    <2> QED
      BY <2>1 DEF getDashboardStats
  <1>5. ASSUME NEW u \in FunnelUsers
        PROVE  \E start \in DOMAIN getSignupFunnel : SignedUpAt[u] \in start..(start + 299)
    <2>1. u \in Folk /\ SignedUpAt[u] \in Nat
      BY SignedUpConstants DEF FunnelUsers
    <2>2. fiveHourBucketStart(SignedUpAt[u]) \in DOMAIN getSignupFunnel
      BY DEF getSignupFunnel
    <2> QED
      BY <2>1, <2>2, InItsWindow
  <1> QED
    BY <1>3, <1>4, <1>5 DEF DroppedOffAgree

\* What size says of every set of windows of the funnel is what a column of them
\* adds up to.
IsSumOf(size, column) ==
  /\ size \in [SUBSET DOMAIN getSignupFunnel -> Nat]
  /\ size[{}] = 0
  /\ \A s \in SUBSET DOMAIN getSignupFunnel : \A b \in s :
       size[s] = getSignupFunnel[b][column] + size[s \ {b}]

\* The fold over the windows of the funnel is the one function on sets of windows
\* that adds them one by one.
LEMMA SumOfWindows ==
  ASSUME NEW column, NEW size, IsFiniteSet(DOMAIN getSignupFunnel), IsSumOf(size, column)
  PROVE  FunnelSum(column) = size[DOMAIN getSignupFunnel]
  <1> DEFINE S == DOMAIN getSignupFunnel
             f(b) == getSignupFunnel[b][column]
             pick(s) == CHOOSE b \in s : TRUE
             sums(g) == g = [s \in SUBSET S |-> IF s = {} THEN 0 ELSE f(pick(s)) + g[s \ {pick(s)}]]
             iter == CHOOSE g : sums(g)
  <1> USE DEF IsSumOf
  <1>1. \A s \in SUBSET S : s # {} => pick(s) \in s
    OBVIOUS
  <1>2. FunnelSum(column) = iter[S]
    BY DEF FunnelSum, MapThenSumSet, MapThenFoldSet
  <1>3. sums(size)
    <2>1. \A s \in SUBSET S :
            size[s] = IF s = {} THEN 0 ELSE f(pick(s)) + size[s \ {pick(s)}]
      BY <1>1
    <2> HIDE DEF pick
    <2> QED
      BY <2>1
  <1>4. sums(iter)
    <2> HIDE DEF sums
    <2> QED
      BY <1>3
  <1> HIDE DEF iter
  <1>5. \A s \in SUBSET S :
          iter[s] = IF s = {} THEN 0 ELSE f(pick(s)) + iter[s \ {pick(s)}]
    <2> HIDE DEF pick
    <2> QED
      BY <1>4
  <1>6. ASSUME NEW s \in SUBSET S, iter[s] # size[s]
        PROVE  FALSE
    <2> DEFINE off == {t \in SUBSET S : iter[t] # size[t]}
    <2>1. IsWellFoundedOn(StrictSubsetOrdering(S), SUBSET S)
      BY FS_StrictSubsetOrderingWellFounded, FS_FiniteSubsetsOfFinite
    <2>2. PICK t \in off : \A u \in off : <<u, t>> \notin StrictSubsetOrdering(S)
      <3>1. off \subseteq SUBSET S /\ off # {}
        BY <1>6
      <3> HIDE DEF off
      <3> QED
        BY <2>1, <3>1, WFMin
    <2>3. t \in SUBSET S /\ iter[t] # size[t]
      OBVIOUS
    <2>4. t # {}
      BY <1>5, <2>3
    <2> DEFINE u == t \ {pick(t)}
    <2>5. u \in SUBSET S /\ u \subseteq t /\ u # t
      BY <1>1, <2>3, <2>4
    <2>6. iter[u] = size[u]
      BY <2>2, <2>3, <2>5 DEF StrictSubsetOrdering
    <2>7. iter[t] = size[t]
      <3>1. pick(t) \in t
        BY <1>1, <2>3, <2>4
      <3>2. iter[t] = f(pick(t)) + iter[u]
        BY <1>5, <2>3, <2>4
      <3> HIDE DEF pick
      <3>3. size[t] = f(pick(t)) + size[u]
        BY <2>3, <3>1
      <3> QED
        BY <2>6, <3>2, <3>3
    <2> QED
      BY <2>3, <2>7
  <1> QED
    BY <1>2, <1>6

\* A column that counts, in each window, those of us who signed up in it.
LEMMA ColumnCounts ==
  ASSUME NEW us \in SUBSET FunnelUsers, NEW column,
         \A b \in DOMAIN getSignupFunnel :
           getSignupFunnel[b][column]
             = Cardinality({u \in us : fiveHourBucketStart(SignedUpAt[u]) = b})
  PROVE  FunnelSum(column) = Cardinality(us)
  <1> DEFINE start(u) == fiveHourBucketStart(SignedUpAt[u])
             windows == {start(u) : u \in FunnelUsers}
             within(s) == {u \in us : start(u) \in s}
             size == [s \in SUBSET windows |-> Cardinality(within(s))]
  <1>1. DOMAIN getSignupFunnel = windows
    BY DEF getSignupFunnel
  <1>2. IsFiniteSet(FunnelUsers) /\ IsFiniteSet(windows)
    <2>1. IsFiniteSet(FunnelUsers)
      BY BrowseConstants, FS_Subset DEF FunnelUsers
    <2>2. [u \in FunnelUsers |-> start(u)] \in Surjection(FunnelUsers, windows)
      BY DEF Surjection
    <2> HIDE DEF windows
    <2> QED
      BY <2>1, <2>2, FS_Surjection
  <1>3. \A s : IsFiniteSet(within(s)) /\ Cardinality(within(s)) \in Nat
    BY <1>2, FS_Subset, FS_CardinalityType
  <1>4. size \in [SUBSET windows -> Nat]
    BY <1>3
  <1>5. size[{}] = 0
    BY FS_EmptySet
  <1>6. ASSUME NEW s \in SUBSET windows, NEW b \in s
        PROVE  size[s] = getSignupFunnel[b][column] + size[s \ {b}]
    <2>1. getSignupFunnel[b][column] = Cardinality({u \in us : start(u) = b})
      BY <1>1
    <2>2. /\ within(s) = within({b}) \cup within(s \ {b})
          /\ within({b}) \cap within(s \ {b}) = {}
          /\ within({b}) = {u \in us : start(u) = b}
      OBVIOUS
    <2> HIDE DEF within
    <2>3. Cardinality(within(s)) = Cardinality(within({b})) + Cardinality(within(s \ {b}))
      BY <1>3, <2>2, DisjointSizes
    <2> QED
      BY <2>1, <2>2, <2>3
  <1>7. within(windows) = us
    OBVIOUS
  <1>8. size[windows] = Cardinality(us)
    BY <1>7
  <1> HIDE DEF windows, size
  <1>9. FunnelSum(column) = size[windows]
    <2>1. IsSumOf(size, column)
      BY <1>1, <1>4, <1>5, <1>6 DEF IsSumOf
    <2>2. FunnelSum(column) = size[DOMAIN getSignupFunnel]
      BY <1>1, <1>2, <2>1, SumOfWindows
    <2> QED
      BY <1>1, <2>2
  <1> QED
    BY <1>8, <1>9

\* The columns of a window.
LEMMA WindowColumns ==
  ASSUME NEW b \in DOMAIN getSignupFunnel
  PROVE  LET at == {u \in FunnelUsers : fiveHourBucketStart(SignedUpAt[u]) = b}
             open == {u \in at : ~who[u].isProfileCompleted}
             stage(s) == Cardinality({u \in open : igStatus(u) = s})
         IN  /\ getSignupFunnel[b]["total"] = Cardinality(at)
             /\ getSignupFunnel[b]["completed"] = Cardinality(at \ open)
             /\ getSignupFunnel[b]["neverStartedInstagram"] = stage("NEVER_STARTED_INSTAGRAM")
             /\ getSignupFunnel[b]["instagramPendingOrFailed"] = stage("PENDING")
             /\ getSignupFunnel[b]["instagramVerifiedNotCompleted"] = stage("VERIFIED")
  BY DEF getSignupFunnel

\* The windows of the funnel share out the users that are kept: those who are
\* done, and those who stopped at each stage.
LEMMA FunnelAddsUp ==
  ASSUME BrowseTypeOK
  PROVE  FunnelAgrees
  <1> DEFINE start(u) == fiveHourBucketStart(SignedUpAt[u])
             done == {u \in FunnelUsers : who[u].isProfileCompleted}
             open == FunnelUsers \ done
             stage(s) == {u \in open : igStatus(u) = s}
             in(us, b) == {u \in us : start(u) = b}
  <1>1. ASSUME NEW b \in DOMAIN getSignupFunnel
        PROVE  /\ getSignupFunnel[b]["total"] = Cardinality(in(FunnelUsers, b))
               /\ getSignupFunnel[b]["completed"] = Cardinality(in(done, b))
               /\ getSignupFunnel[b]["neverStartedInstagram"]
                    = Cardinality(in(stage("NEVER_STARTED_INSTAGRAM"), b))
               /\ getSignupFunnel[b]["instagramPendingOrFailed"]
                    = Cardinality(in(stage("PENDING"), b))
               /\ getSignupFunnel[b]["instagramVerifiedNotCompleted"]
                    = Cardinality(in(stage("VERIFIED"), b))
    <2> DEFINE at == in(FunnelUsers, b)
               left == {u \in at : ~who[u].isProfileCompleted}
    <2>1. at \ left = in(done, b)
      OBVIOUS
    <2>2. \A s : {u \in left : igStatus(u) = s} = in(stage(s), b)
      OBVIOUS
    <2>3. /\ getSignupFunnel[b]["total"] = Cardinality(at)
          /\ getSignupFunnel[b]["completed"] = Cardinality(at \ left)
          /\ getSignupFunnel[b]["neverStartedInstagram"]
               = Cardinality({u \in left : igStatus(u) = "NEVER_STARTED_INSTAGRAM"})
          /\ getSignupFunnel[b]["instagramPendingOrFailed"]
               = Cardinality({u \in left : igStatus(u) = "PENDING"})
          /\ getSignupFunnel[b]["instagramVerifiedNotCompleted"]
               = Cardinality({u \in left : igStatus(u) = "VERIFIED"})
      BY WindowColumns
    <2> QED
      BY <2>1, <2>2, <2>3
  <1>2. /\ FunnelSum("total") = Cardinality(FunnelUsers)
        /\ FunnelSum("completed") = Cardinality(done)
        /\ FunnelSum("neverStartedInstagram") = Cardinality(stage("NEVER_STARTED_INSTAGRAM"))
        /\ FunnelSum("instagramPendingOrFailed") = Cardinality(stage("PENDING"))
        /\ FunnelSum("instagramVerifiedNotCompleted") = Cardinality(stage("VERIFIED"))
    <2>1. /\ done \in SUBSET FunnelUsers /\ FunnelUsers \in SUBSET FunnelUsers
          /\ \A s : stage(s) \in SUBSET FunnelUsers
      OBVIOUS
    <2> HIDE DEF done, stage
    <2> QED
      BY <1>1, <2>1, ColumnCounts
  <1>3. /\ getDashboardStats.totalUsers = Cardinality(FunnelUsers)
        /\ getDashboardStats.totalCompletedProfiles = Cardinality(done)
        /\ getDashboardStats.totalIncompleteProfiles = Cardinality(open)
    BY DEF getDashboardStats, FunnelUsers
  <1>4. Cardinality(stage("NEVER_STARTED_INSTAGRAM")) + Cardinality(stage("PENDING"))
          + Cardinality(stage("VERIFIED")) = Cardinality(open)
    <2>1. IsFiniteSet(open) /\ \A s : stage(s) \subseteq open
      BY BrowseConstants, FS_Subset DEF FunnelUsers
    <2>2. /\ open = (stage("NEVER_STARTED_INSTAGRAM") \cup stage("PENDING")) \cup stage("VERIFIED")
          /\ stage("NEVER_STARTED_INSTAGRAM") \cap stage("PENDING") = {}
          /\ (stage("NEVER_STARTED_INSTAGRAM") \cup stage("PENDING")) \cap stage("VERIFIED") = {}
      BY DEF igStatus
    <2> HIDE DEF open, stage
    <2>3. \A s : IsFiniteSet(stage(s))
      BY <2>1, FS_Subset
    <2>4. /\ IsFiniteSet(stage("NEVER_STARTED_INSTAGRAM") \cup stage("PENDING"))
          /\ Cardinality(stage("NEVER_STARTED_INSTAGRAM") \cup stage("PENDING"))
               = Cardinality(stage("NEVER_STARTED_INSTAGRAM")) + Cardinality(stage("PENDING"))
      BY <2>2, <2>3, DisjointSizes
    <2>5. Cardinality((stage("NEVER_STARTED_INSTAGRAM") \cup stage("PENDING")) \cup stage("VERIFIED"))
            = Cardinality(stage("NEVER_STARTED_INSTAGRAM") \cup stage("PENDING"))
              + Cardinality(stage("VERIFIED"))
      BY <2>2, <2>3, <2>4, DisjointSizes
    <2> QED
      BY <2>2, <2>4, <2>5
  <1>5. Cardinality(listDroppedOffUsers) = Cardinality(open)
    BY <1>3, DroppedOffOnce DEF DroppedOffAgree
  <1> HIDE DEF done, open, stage
  <1> QED
    BY <1>2, <1>3, <1>4, <1>5 DEF FunnelAgrees

\* The export filters as the list does, and a broadcast as the lists of active
\* users do.
LEMMA FiltersAgree ==
  ASSUME BrowseTypeOK
  PROVE  ExportsAgree /\ BroadcastsReachListed
  <1>1. ExportsAgree
    BY DEF ExportsAgree, exportUsersCsv, listUsers, Statuses
  <1>2. /\ listUsers("active") = {u \in Folk : ActiveUser(u)}
        /\ \A u \in Folk : ActiveUser(u) => who[u].status # "DELETED"
    BY DEF listUsers, Statuses, ActiveUser
  <1>3. /\ BROADCAST_TARGETS.all = listUsers("active")
        /\ BROADCAST_TARGETS.creators = listUsers("active") \cap listCreators
        /\ BROADCAST_TARGETS.freelancers = listUsers("active") \cap listFreelancers
    BY <1>2 DEF BROADCAST_TARGETS, listCreators, listFreelancers, OfRole
  <1>4. BROADCAST_TARGETS.incomplete_profile
          = {u \in listUsers("active") : <<u, igStatus(u)>> \in listDroppedOffUsers}
    BY <1>2 DEF BROADCAST_TARGETS, listDroppedOffUsers
  <1>5. ASSUME NEW slug \in UNION {SlugsOf[u] : u \in Folk}
        PROVE  listUsers("active") \cap (getCategoryBreakdown("CREATOR", slug)
                                         \cup getCategoryBreakdown("FREELANCER", slug))
                 = CategoryTarget(slug) \ BROADCAST_TARGETS.incomplete_profile
    <2>1. \A u \in Folk : RoleOf[u] \in {"CREATOR", "FREELANCER"}
      BY BrowseConstants
    <2> QED
      BY <1>2, <2>1 DEF getCategoryBreakdown, OfRole, CategoryTarget, BROADCAST_TARGETS
  <1>6. ASSUME NEW role \in {"CREATOR", "FREELANCER"}
        PROVE  BROADCAST_TARGETS.premium \cap SegmentTarget([role |-> role])
                 = SegmentTarget([role |-> role, isPremium |-> TRUE])
    <2>1. \A u \in Folk : who[u].isPremium \in BOOLEAN
      BY DEF BrowseTypeOK, Account
    <2> QED
      BY <2>1 DEF BROADCAST_TARGETS, SegmentTarget
  <1> QED
    BY <1>1, <1>3, <1>4, <1>5, <1>6 DEF BroadcastsReachListed

---------------------------------------------------------------------------
(* MCContact *)

\* What a component that is not in focus keeps is as it was at first.
Untouched ==
  /\ focus \notin {"chat", "lists"} => messages = <<>> /\ lists = [p \in People |-> None]
  /\ focus # "calls" => calls = <<>>
  /\ focus # "feeds" => /\ posts = [p \in Posts |-> None] /\ blocks = {}
                        /\ \A w \in Workers : job[w].at # "fillFeed"
                        /\ feeds = NoFeeds
  /\ focus # "boosts" => boosted = {}

\* The component in focus keeps its invariant.
Focused ==
  \/ focus \in {"chat", "lists"} /\ ChatInv
  \/ focus = "calls" /\ CallInv
  \/ focus = "follows" /\ FollowTypeOK
  \/ focus = "feeds" /\ FeedTypeOK /\ ReadPostsExist
  \/ focus = "boosts" /\ BoostTypeOK /\ BoostsAreRationed
  \/ focus = "browse" /\ BrowseTypeOK /\ job = NoJobs

ContactInv == Focused /\ Untouched

\* Only a request of the feeds fills a feed.
LEMMA OnlyFeedsFill ==
  Focused => (focus # "feeds" => \A w \in Workers : job[w].at # "fillFeed")
  <1> SUFFICES ASSUME Focused, focus # "feeds", NEW w \in Workers
               PROVE  job[w].at # "fillFeed"
    OBVIOUS
  <1>1. CASE ChatInv
    BY <1>1, ChatFields DEF ChatInv, ChatJob, Idle
  <1>2. CASE CallInv
    BY <1>2 DEF CallInv, CallJob, Idle
  <1>3. CASE FollowTypeOK
    BY <1>3 DEF FollowTypeOK, FollowJob, Idle
  <1>4. CASE BoostTypeOK
    BY <1>4 DEF BoostTypeOK, BoostJob, Idle
  <1>5. CASE job = NoJobs
    BY <1>5 DEF NoJobs, Idle
  <1> QED
    BY <1>1, <1>2, <1>3, <1>4, <1>5 DEF Focused

\* Behaviours begin in one of the components.
LEMMA ContactStarted ==
  ASSUME Init
  PROVE  ContactInv
  <1>1. Focused
    <2>1. CASE focus \in {"chat", "lists"}
      BY <2>1, ChatStarted DEF Init, Focused
    <2>2. CASE focus = "calls"
      BY <2>2, CallStarted DEF Init, Focused
    <2>3. CASE focus = "follows"
      BY <2>3, FollowStarted DEF Init, Focused
    <2>4. CASE focus = "feeds"
      BY <2>4, FeedStarted DEF Init, Focused
    <2>5. CASE focus = "boosts"
      BY <2>5, BoostStarted, RationStarted DEF Init, Focused
    <2>6. CASE focus = "browse"
      BY <2>6, BrowseStarted DEF Init, Focused, ChatInit
    <2> QED
      BY <2>1, <2>2, <2>3, <2>4, <2>5, <2>6 DEF Init
  <1>2. Untouched
    BY DEF Init, Untouched, ChatInit, CallInit, FeedInit, BoostInit, NoJobs, Idle
  <1> QED
    BY <1>1, <1>2 DEF ContactInv

\* A step is one of the component in focus, and of nothing else.
LEMMA ContactStep ==
  ASSUME [Next]_<<chatVars, calls, follows, feedVars, boostVars, browseVars, focus>>
  PROVE  /\ focus' = focus
         /\ focus \in {"chat", "lists"} => [ChatNext]_chatVars
         /\ focus = "calls" => [CallNext]_callVars
         /\ focus = "follows" => [FollowNext]_followVars
         /\ focus = "feeds" => [FeedNext]_feedVars
         /\ focus = "boosts" => [BoostNext]_boostVars
         /\ focus = "browse" => [BrowseNext]_browseVars /\ job' = job
         /\ focus \notin {"chat", "lists"} => messages' = messages /\ lists' = lists
         /\ focus # "calls" => calls' = calls
         /\ focus # "feeds" => posts' = posts /\ blocks' = blocks /\ feeds' = feeds
         /\ focus # "boosts" => boosted' = boosted
  <1>1. CASE UNCHANGED <<chatVars, calls, follows, feedVars, boostVars, browseVars, focus>>
    BY <1>1 DEF chatVars, callVars, followVars, feedVars, boostVars
  <1>2. CASE Next
    BY <1>2 DEF Next, Rest
  <1> QED
    BY <1>1, <1>2

\* No step breaks the invariant of the component in focus.
LEMMA ContactKept ==
  ASSUME ContactInv, [Next]_<<chatVars, calls, follows, feedVars, boostVars, browseVars, focus>>
  PROVE  ContactInv'
  <1>1. Focused'
    <2>1. CASE focus \in {"chat", "lists"} /\ ChatInv
      BY <2>1, ContactStep, ChatKept DEF Focused
    <2>2. CASE focus = "calls" /\ CallInv
      BY <2>2, ContactStep, CallKept DEF Focused
    <2>3. CASE focus = "follows" /\ FollowTypeOK
      BY <2>3, ContactStep, FollowKept DEF Focused
    <2>4. CASE focus = "feeds" /\ FeedTypeOK /\ ReadPostsExist
      BY <2>4, ContactStep, FeedTypesKept, ReadPostsKept DEF Focused
    <2>5. CASE focus = "boosts" /\ BoostTypeOK /\ BoostsAreRationed
      BY <2>5, ContactStep, BoostTypesKept, RationKept DEF Focused
    <2>6. CASE focus = "browse" /\ BrowseTypeOK /\ job = NoJobs
      BY <2>6, ContactStep, BrowseKept DEF Focused, NoJobs
    <2> QED
      BY <2>1, <2>2, <2>3, <2>4, <2>5, <2>6 DEF ContactInv, Focused
  <1>2. focus' # "feeds" => \A w \in Workers : job'[w].at # "fillFeed"
    <2>1. (focus # "feeds" => \A w \in Workers : job[w].at # "fillFeed")'
      BY <1>1, OnlyFeedsFill, PTL
    <2> QED
      BY <2>1
  <1>3. Untouched'
    BY <1>2, ContactStep DEF ContactInv, Untouched, NoFeeds
  <1> QED
    BY <1>1, <1>3 DEF ContactInv

\* What the components in focus promise of a state.
LEMMA ContactPromises ==
  ASSUME ContactInv
  PROVE  TypeOK /\ ListsAreBusted /\ FewRinging /\ BoostsAreRationed
  <1>1. TypeOK
    BY MessageRows, CallRows
       DEF ContactInv, Focused, TypeOK, ChatInv, ChatTypeOK, CallInv, CallTypeOK
  <1>2. ListsAreBusted
    <2>1. CASE focus \notin {"chat", "lists"}
      BY <2>1 DEF ContactInv, Untouched, ListsAreBusted
    <2> QED
      BY <2>1 DEF ContactInv, Focused, ChatInv
  <1>3. FewRinging
    <2>1. CASE focus # "calls"
      <3>1. \A p \in People : RingingOf(p) = {}
        <4>1. calls = <<>>
          BY <2>1 DEF ContactInv, Untouched
        <4> QED
          BY <4>1 DEF RingingOf
      <3>2. \A p \in People : RingJobs(p) \in SUBSET Workers
        BY DEF RingJobs
      <3>3. ASSUME NEW p \in People
            PROVE  Cardinality(RingingOf(p)) + Cardinality(RingJobs(p)) <= Cardinality(Workers)
        <4>1. Cardinality(RingingOf(p)) = 0
          BY <3>1, FS_EmptySet
        <4> QED
          BY <3>2, <4>1, WorkSizes
      <3> QED
        BY <3>3 DEF FewRinging, RingJobs
    <2> QED
      BY <2>1 DEF ContactInv, Focused, CallInv
  <1>4. BoostsAreRationed
    <2>1. CASE focus # "boosts"
      <3>1. boosted = {} /\ {} \in SUBSET OwnPosts /\ Boosting \in SUBSET Workers
        BY <2>1 DEF ContactInv, Untouched, Boosting
      <3>2. Cardinality(boosted) = 0
        BY <3>1, FS_EmptySet
      <3>3. /\ Cardinality(Boosting) \in Nat /\ Cardinality(Boosting) <= Cardinality(Workers)
            /\ Cardinality(Workers) \in Nat \ {0} /\ FREE_BOOSTS_PER_MONTH \in Nat \ {0}
        BY <3>1, BoostSizes
      <3> QED
        BY <3>2, <3>3 DEF BoostsAreRationed
    <2> QED
      BY <2>1 DEF ContactInv, Focused
  <1> QED
    BY <1>1, <1>2, <1>3, <1>4

\* Every row, cached list and request of a component in focus is of its type;
\* a right count in a list is dropped when it no longer is; no more calls of one
\* ring than there are requests; and boosts keep to their allowance.
THEOREM ContactIsSafe ==
  Spec => [](TypeOK /\ ListsAreBusted /\ FewRinging /\ BoostsAreRationed)
  BY ContactStarted, ContactKept, ContactPromises, PTL DEF Spec

\* Once contact closes, requests past the checks are the last to add a message,
\* a reaction, a call or a follow, until it opens.
THEOREM NothingAddedOnceClosed == Spec => NothingNewWhenClosed
  <1>1. ContactInv /\ [Next]_<<chatVars, calls, follows, feedVars, boostVars, browseVars, focus>>
        => /\ [(focus \in {"chat", "lists"}) => NoNewMessages]_chatVars
           /\ [focus = "calls" => NoNewCalls]_callVars
           /\ [focus = "follows" => NoNewFollows]_followVars
    BY ContactStep, ChatClosed, CallsClosed, FollowsClosed DEF ContactInv, Focused
  <1> QED
    BY <1>1, ContactStarted, ContactKept, PTL DEF Spec, NothingNewWhenClosed

\* No one's reaction is taken away by the requests of another, unless the other
\* read the reactions before it was there.
THEOREM ReactionsAreKept == Spec => ReactionsAreOnesOwn
  <1>1. ContactInv /\ [Next]_<<chatVars, calls, follows, feedVars, boostVars, browseVars, focus>>
        => [\A m \in DOMAIN messages : \A p \in People :
              Reacted(p, m) => Reacted(p, m)' \/ TogglesBy(p, m)' # {}]_chatVars
    <2>1. ASSUME focus \notin {"chat", "lists"}, ContactInv PROVE DOMAIN messages = {}
      BY <2>1 DEF ContactInv, Untouched
    <2> QED
      BY <2>1, ContactStep, ReactionsKept DEF ContactInv, Focused
  <1> QED
    BY <1>1, ContactStarted, ContactKept, PTL DEF Spec, ReactionsAreOnesOwn

\* A call that is over never becomes active or rings again.
THEOREM CallsStayOver == Spec => OverIsOver
  <1>1. ContactInv /\ [Next]_<<chatVars, calls, follows, feedVars, boostVars, browseVars, focus>>
        => [\A c \in DOMAIN calls : Over(c) => Over(c)']_callVars
    <2>1. ASSUME focus # "calls", ContactInv PROVE DOMAIN calls = {}
      BY <2>1 DEF ContactInv, Untouched
    <2> QED
      BY <2>1, ContactStep, OverKept DEF ContactInv, Focused
  <1> QED
    BY <1>1, ContactStarted, ContactKept, PTL DEF Spec, OverIsOver

\* Neither the posts of an author one has blocked nor a post that was taken
\* down come back to a feed they were dropped from.
THEOREM FeedsStayClean == Spec => BlockedStayAway /\ TakenDownStaysDown
  <1>1. ContactInv /\ [Next]_<<chatVars, calls, follows, feedVars, boostVars, browseVars, focus>>
        => [BlockedStep]_feedVars /\ [TakenDownStep]_feedVars
    <2> SUFFICES ASSUME ContactInv,
                        [Next]_<<chatVars, calls, follows, feedVars, boostVars, browseVars, focus>>
                 PROVE  [BlockedStep]_feedVars /\ [TakenDownStep]_feedVars
      OBVIOUS
    <2>1. CASE focus = "feeds"
      BY <2>1, ContactStep, BlockedKept, TakenDownKept DEF ContactInv, Focused
    <2>2. CASE focus # "feeds"
      <3>1. Untouched' /\ focus' # "feeds"
        BY <2>2, ContactStep, ContactKept DEF ContactInv
      <3>2. /\ blocks' = {} /\ \A p \in Posts : posts'[p] = None
            /\ \A v \in Members : feeds'[v] = None
            /\ \A w \in Workers : job'[w].at # "fillFeed"
        BY <3>1 DEF Untouched, NoFeeds
      <3>3. BlockedStep
        BY <3>2 DEF BlockedStep
      <3>4. TakenDownStep
        BY <3>2 DEF TakenDownStep, TakenDown, Visible, Showing
      <3> QED
        BY <3>3, <3>4
    <2> QED
      BY <2>1, <2>2
  <1> QED
    BY <1>1, ContactStarted, ContactKept, PTL
       DEF Spec, BlockedStayAway, TakenDownStaysDown, BlockedStep, TakenDownStep

\* Whatever a viewer is shown, in the feed or in a list of posts or people, opens;
\* and turning the pages of a feed or of a profile shows every post that opens,
\* for any number of posts, boosts, premium writers and posts on a page.
THEOREM WhatIsShownOpens == Spec => []BrowsingOpens
  <1>1. \A v \in Viewers : FeedOpens(v) /\ ListsOpen(v)
    BY FeedHasWhatOpens, ListedOpens
  <1>2. TypeOK => BrowsingOpens
    BY <1>1 DEF BrowsingOpens, ShownOpens
  <1> QED
    BY ContactIsSafe, <1>2, PTL

\* The figures that admins are shown fit each other: the dashboard, the funnel
\* and the lists add up, the export is the list, the pages of posts show what is
\* counted, and a broadcast reaches those it lists who are active.
THEOREM OfficeIsConsistent == Spec => []FiguresAgree
  <1>1. TypeOK => FiguresAgree
    BY CountsAgree, SamplesFit, FunnelAddsUp, DroppedOffOnce, PagesShowLabels, FiltersAgree
       DEF TypeOK, FiguresAgree, OfficeAgrees
  <1> QED
    BY ContactIsSafe, <1>1, PTL

=============================================================================
