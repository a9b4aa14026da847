------------------------------- MODULE Calls -------------------------------
(***************************************************************************)
(* Calls between two people (modules/calls/calls.service.js).  Either may  *)
(* ring the other; pushes and the media channel are left out.              *)
(***************************************************************************)
EXTENDS Contact, Requests, Naturals, FiniteSets, Sequences

CONSTANT MaxCalls  \* bound: how many calls are made

VARIABLE calls  \* table Call, oldest row first

callVars == <<calls, contactVars, job>>

CallStatus == {"RINGING", "ACTIVE", "ENDED", "DECLINED", "MISSED"}

Call == [caller : People, status : CallStatus]

CallJob == {Idle} \cup [at : {"collaboration", "expireRinging", "ring"}, user : People]
           \cup [at : {"update"}, call : DOMAIN calls,
                 status : {"ACTIVE", "DECLINED", "ENDED"}]

CallInit == calls = <<>> /\ job = NoJobs /\ ContactInit

RingingOf(p) == {c \in DOMAIN calls : calls[c].caller = p /\ calls[c].status = "RINGING"}

---------------------------------------------------------------------------
(* initiateCall *)

CheckBlock(w, p) ==
  /\ ~blocked
  /\ Begin(w, [at |-> "collaboration", user |-> p])
  /\ UNCHANGED <<calls, contactVars>>

CheckCollaboration(w) ==
  /\ job[w].at = "collaboration"
  /\ IF hasActiveCollaboration THEN GoTo(w, [job[w] EXCEPT !.at = "expireRinging"])
     ELSE Finish(w)
  /\ UNCHANGED <<calls, contactVars>>

\* Mutant: earlier calls ring on.
ExpireNoRinging(w) ==
  /\ job[w].at = "expireRinging"
  /\ GoTo(w, [job[w] EXCEPT !.at = "ring"])
  /\ UNCHANGED <<calls, contactVars>>

ExpireRinging(w) ==
  /\ job[w].at = "expireRinging"
  /\ calls' = [c \in DOMAIN calls |->
                 IF c \in RingingOf(job[w].user)
                 THEN [calls[c] EXCEPT !.status = "MISSED"] ELSE calls[c]]
  /\ GoTo(w, [job[w] EXCEPT !.at = "ring"])
  /\ UNCHANGED contactVars

Ring(w) ==
  /\ job[w].at = "ring"
  /\ Len(calls) < MaxCalls
  /\ calls' = Append(calls, [caller |-> job[w].user, status |-> "RINGING"])
  /\ Finish(w)
  /\ UNCHANGED contactVars

---------------------------------------------------------------------------
(* acceptCall, declineCall and endCall *)

\* Mutant: a call is accepted whatever its status.
AnswerableAny(c, status) == TRUE

\* The callee accepts or declines what rings; either ends any call.
Answerable(c, status) == status \in {"ACTIVE", "DECLINED"} => calls[c].status = "RINGING"

FindCall(w, c, status) ==
  /\ Answerable(c, status)
  /\ Begin(w, [at |-> "update", call |-> c, status |-> status])
  /\ UNCHANGED <<calls, contactVars>>

\* Mutant: an accepted call gets a status the table does not know.
UpdateCallOngoing(w) ==
  /\ job[w].at = "update"
  /\ calls' = [calls EXCEPT ![job[w].call].status =
                  IF job[w].status = "ACTIVE" THEN "ONGOING" ELSE job[w].status]
  /\ Finish(w)
  /\ UNCHANGED contactVars

\* By its id, whatever it has become.
UpdateCall(w) ==
  /\ job[w].at = "update"
  /\ calls' = [calls EXCEPT ![job[w].call].status = job[w].status]
  /\ Finish(w)
  /\ UNCHANGED contactVars

---------------------------------------------------------------------------
CallNext ==
  \/ \E w \in Workers :
       \/ \E p \in People : CheckBlock(w, p)
       \/ CheckCollaboration(w) \/ ExpireRinging(w) \/ Ring(w)
       \/ \E c \in DOMAIN calls, status \in {"ACTIVE", "DECLINED", "ENDED"} :
            FindCall(w, c, status)
       \/ UpdateCall(w)
  \/ ContactNext /\ UNCHANGED <<calls, job>>

CallSpec == CallInit /\ [][CallNext]_callVars

---------------------------------------------------------------------------
(* Properties *)

CallTypeOK ==
  /\ \A c \in DOMAIN calls : calls[c] \in Call
  /\ job \in [Workers -> CallJob]
  /\ {current, another, blocked} \subseteq BOOLEAN

\* "Expire any existing ringing calls from this caller": only as many ring as
\* the caller has requests in flight at once.
FewRinging ==
  \A p \in People :
    Cardinality(RingingOf(p))
      + Cardinality({w \in Workers : job[w].at = "ring" /\ job[w].user = p})
    <= Cardinality(Workers)

Over(c) ==
  /\ calls[c].status \in {"ENDED", "DECLINED", "MISSED"}
  /\ \A w \in Workers : job[w].at = "update" /\ job[w].call = c => job[w].status # "ACTIVE"

\* A call that is over, and that nobody is accepting, never becomes active or
\* rings again.
OverIsOver == [][\A c \in DOMAIN calls : Over(c) => Over(c)']_callVars

\* Contact is closed, and no request to call has passed the check that would
\* tell it.
CallsShut ==
  LET at == {job[w].at : w \in Workers}
  IN  \/ ~hasActiveCollaboration /\ at \cap {"expireRinging", "ring"} = {}
      \/ blocked /\ at \cap {"collaboration", "expireRinging", "ring"} = {}

\* "Completing it closes calls too": while calls are shut a step rings
\* nobody, and they are shut until contact opens.  A call that rang before may
\* still be answered: that looks at no contact.
NoNewCalls ==
  CallsShut => Len(calls') = Len(calls) /\ (Opening \/ CallsShut')

=============================================================================
