------------------------------ MODULE Follows ------------------------------
(***************************************************************************)
(* Who follows whom of two people of opposite roles                        *)
(* (modules/follows/follow.service.js).  A block leaves what there is      *)
(* alone.                                                                  *)
(***************************************************************************)
EXTENDS Contact, Requests

VARIABLE follows  \* table Follow: those who follow the other

followVars == <<follows, contactVars, job>>

FollowJob == {Idle} \cup [at : {"existing", "create"}, user : People]

FollowInit == follows = {} /\ job = NoJobs /\ ContactInit

---------------------------------------------------------------------------
(* follow and unfollow *)

AssertNotBlocked(w, p) ==
  /\ ~blocked
  /\ Begin(w, [at |-> "existing", user |-> p])
  /\ UNCHANGED <<follows, contactVars>>

FindFollow(w) ==
  /\ job[w].at = "existing"
  /\ IF job[w].user \in follows THEN Finish(w)
     ELSE GoTo(w, [job[w] EXCEPT !.at = "create"])
  /\ UNCHANGED <<follows, contactVars>>

\* The second of two at once fails at the unique index.
CreateFollow(w) ==
  /\ job[w].at = "create"
  /\ follows' = follows \cup {job[w].user}
  /\ Finish(w)
  /\ UNCHANGED contactVars

unfollow(p) ==
  /\ follows' = follows \ {p}
  /\ UNCHANGED <<contactVars, job>>

FollowNext ==
  \/ \E w \in Workers :
       \/ \E p \in People : AssertNotBlocked(w, p)
       \/ FindFollow(w) \/ CreateFollow(w)
  \/ \E p \in People : unfollow(p)
  \/ ContactNext /\ UNCHANGED <<follows, job>>

FollowSpec == FollowInit /\ [][FollowNext]_followVars

---------------------------------------------------------------------------
(* Properties *)

FollowTypeOK ==
  /\ follows \subseteq People
  /\ job \in [Workers -> FollowJob]
  /\ {current, another, blocked} \subseteq BOOLEAN

\* One has blocked the other, and no request to follow is past the check.
FollowsShut ==
  blocked /\ \A w \in Workers : job[w].at \notin {"existing", "create"}

\* While follows are shut a step makes nobody follow, and they are shut until
\* the block goes.  Who followed before still does.
NoNewFollows ==
  FollowsShut => follows' \subseteq follows /\ (Opening \/ FollowsShut')

=============================================================================
