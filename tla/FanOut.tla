------------------------------- MODULE FanOut -------------------------------
(***************************************************************************)
(* Who is told about a new post (createPost in                             *)
(* modules/posts/post.service.js), one post at a time: first the people    *)
(* its author works or has worked with, one by one, then everybody who     *)
(* looks for such posts, at once.  How a notification reaches somebody's   *)
(* phones is module Devices.                                               *)
(***************************************************************************)
EXTENDS Requests, Naturals

CONSTANT Others  \* everybody but the author

VARIABLES
  partners,   \* those with an ACCEPTED or COMPLETED collaboration
  audience,   \* those who look for such posts and want to hear of them
  apart,      \* those blocked by, or blocking, the author
  shunned,    \* history: those apart ever since the post was created
  notified    \* how many Notification rows each has about the post

fanOutVars == <<partners, audience, apart, shunned, notified, job>>

FanOutJob ==
  {Idle}
  \cup [at : {"partners"}]
  \cup [at : {"each", "stop"}, told : SUBSET Others, asking : SUBSET Others,
        telling : SUBSET Others]
  \cup [at : {"blocks"}, users : SUBSET Others]
  \cup [at : {"createMany"}, users : SUBSET Others]

FanOutInit ==
  /\ partners \in SUBSET Others
  /\ audience \in SUBSET Others
  /\ apart \in SUBSET Others
  /\ shunned = apart
  /\ notified = [u \in Others |-> 0]
  /\ job = NoJobs

\* A row of the table Notification each.
Notify(us) ==
  notified' = [u \in Others |-> IF u \in us THEN notified[u] + 1 ELSE notified[u]]

---------------------------------------------------------------------------
\* The post exists; who is told is worked out after the answer.
PostCreated(w) ==
  /\ \A x \in Workers : job[x] = Idle
  /\ \A u \in Others : notified[u] = 0
  /\ Begin(w, [at |-> "partners"])
  /\ shunned' = apart
  /\ UNCHANGED <<partners, audience, apart, notified>>

\* Each once, however many collaborations there are.
ReadPartners(w) ==
  /\ job[w].at = "partners"
  /\ GoTo(w, [at |-> "each", told |-> partners, asking |-> partners, telling |-> {}])
  /\ UNCHANGED <<partners, audience, apart, shunned, notified>>

AskBlock(w, u) ==
  LET j == job[w]
  IN  /\ j.at \in {"each", "stop"} /\ u \in j.asking
      /\ GoTo(w, [j EXCEPT !.asking = @ \ {u},
                           !.telling = IF u \in apart THEN @ ELSE @ \cup {u}])
      /\ UNCHANGED <<partners, audience, apart, shunned, notified>>

\* The row is written, or not, which is only logged; what follows may fail.
NotifyPartner(w, u) ==
  LET j == job[w]
  IN  /\ j.at \in {"each", "stop"} /\ u \in j.telling
      /\ Notify({u}) \/ UNCHANGED notified
      /\ \E at \in {j.at, "stop"} : GoTo(w, [j EXCEPT !.at = at, !.telling = @ \ {u}])
      /\ UNCHANGED <<partners, audience, apart, shunned>>

\* An error at one ends the rest of the handler, not the others.
BlockUnknown(w, u) ==
  LET j == job[w]
  IN  /\ j.at \in {"each", "stop"} /\ u \in j.asking
      /\ GoTo(w, [j EXCEPT !.at = "stop", !.asking = @ \ {u}])
      /\ UNCHANGED <<partners, audience, apart, shunned, notified>>

\* Mutant: those already told are told again.
ReadAudienceAgain(w) ==
  LET j == job[w]
  IN  /\ j.at \in {"each", "stop"} /\ j.asking = {} /\ j.telling = {}
      /\ IF j.at = "stop" \/ audience = {} THEN Finish(w)
         ELSE GoTo(w, [at |-> "blocks", users |-> audience])
      /\ UNCHANGED <<partners, audience, apart, shunned, notified>>

\* Freelancers of the post's category, or all creators.
ReadAudience(w) ==
  LET j == job[w]
      users == audience \ j.told
  IN  /\ j.at \in {"each", "stop"} /\ j.asking = {} /\ j.telling = {}
      /\ IF j.at = "stop" \/ users = {} THEN Finish(w)
         ELSE GoTo(w, [at |-> "blocks", users |-> users])
      /\ UNCHANGED <<partners, audience, apart, shunned, notified>>

ReadBlockedIds(w) ==
  /\ job[w].at = "blocks"
  /\ GoTo(w, [at |-> "createMany", users |-> job[w].users \ apart])
  /\ UNCHANGED <<partners, audience, apart, shunned, notified>>

NotifyAudience(w) ==
  /\ job[w].at = "createMany"
  /\ Notify(job[w].users) \/ UNCHANGED notified
  /\ Finish(w)
  /\ UNCHANGED <<partners, audience, apart, shunned>>

---------------------------------------------------------------------------
\* Requests of others in between: collaborations are accepted or re-sent,
\* settings and profiles change, people block and unblock.
Meanwhile(u) ==
  /\ \/ /\ partners' \in {partners \cup {u}, partners \ {u}}
        /\ UNCHANGED <<audience, apart, shunned>>
     \/ /\ audience' \in {audience \cup {u}, audience \ {u}}
        /\ UNCHANGED <<partners, apart, shunned>>
     \/ /\ apart' \in {apart \cup {u}, apart \ {u}}
        /\ shunned' = shunned \cap apart'
        /\ UNCHANGED <<partners, audience>>
  /\ UNCHANGED <<notified, job>>

FanOutStep(w) ==
  \/ ReadPartners(w) \/ ReadAudience(w) \/ ReadBlockedIds(w) \/ NotifyAudience(w)
  \/ \E u \in Others : AskBlock(w, u) \/ NotifyPartner(w, u) \/ BlockUnknown(w, u)

FanOutNext ==
  \/ \E w \in Workers : PostCreated(w) \/ FanOutStep(w)
  \/ \E u \in Others : Meanwhile(u)

FanOutSpec == FanOutInit /\ [][FanOutNext]_fanOutVars

---------------------------------------------------------------------------
(* Properties *)

FanOutTypeOK ==
  /\ {partners, audience, apart, shunned} \subseteq SUBSET Others
  /\ notified \in [Others -> Nat]
  /\ job \in [Workers -> FanOutJob]

\* "Dedupe to one notification per person", and "from someone you blocked"
\* none: the two rounds tell nobody twice, and nobody apart from the author
\* all along, whatever changes between their queries.
OncePerPerson ==
  \A u \in Others : notified[u] <= IF u \in shunned THEN 0 ELSE 1

=============================================================================
