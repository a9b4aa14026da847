-------------------------- MODULE CollabProtocol ---------------------------
(***************************************************************************)
(* What the collaboration handlers promise, one atomic operation each: the *)
(* life of a request and of the conversation that its acceptance opens.    *)
(* No workers, no stale reads, no half-done work.                          *)
(***************************************************************************)
EXTENDS Roles

CONSTANTS Users, Role, Posts, PostOwner, CollabIds, None

VARIABLES
  requests,    \* the request under each id, or None
  links,       \* per pair of users, the request its conversation stands for
  blocks,      \* pairs <<blocker, blocked>>
  openPosts    \* posts that take requests

vars == <<requests, links, blocks, openPosts>>

STATUSES == {"PENDING", "ACCEPTED", "DECLINED", "CANCELLED", "COMPLETED"}

Made == {i \in CollabIds : requests[i] # None}

Pair(i) == {requests[i].sender, requests[i].receiver}

Init ==
  /\ requests = [i \in CollabIds |-> None]
  /\ links = [pr \in {{u, v} : u, v \in Users} \ {{u} : u \in Users} |-> None]
  /\ blocks = {}
  /\ openPosts = Posts

\* s may ask r, about post p if there is one.
Allowed(s, r, p) ==
  /\ s # r
  /\ blocks \cap {<<s, r>>, <<r, s>>} = {}
  /\ Role[r] \in OPPOSITE_FEED_ROLE[Role[s]]
  /\ p # None => p \in openPosts /\ PostOwner[p] = r

\* The one request of s to r about p is made, or made again once it is over.
Request(s, r, p) ==
  LET new == [sender |-> s, receiver |-> r, post |-> p, status |-> "PENDING"]
      made == {i \in Made : [requests[i] EXCEPT !.status = "PENDING"] = new}
  IN  /\ Allowed(s, r, p)
      /\ \A i \in made : requests[i].status \notin {"PENDING", "ACCEPTED"}
      /\ \E i \in IF made = {} THEN CollabIds \ Made ELSE made :
           requests' = [requests EXCEPT ![i] = new]
      /\ UNCHANGED <<links, blocks, openPosts>>

\* Request i is in status from and its status becomes to.
Move(i, from, to) ==
  /\ requests[i].status = from
  /\ requests' = [requests EXCEPT ![i].status = to]

Accept(i) ==
  /\ Move(i, "PENDING", "ACCEPTED")
  /\ links' = [links EXCEPT ![Pair(i)] = i]
  /\ UNCHANGED <<blocks, openPosts>>

\* Declined by the receiver, cancelled by the sender, or, once accepted,
\* completed by a creator who is a party to it.
Close(i) ==
  /\ \/ Move(i, "PENDING", "DECLINED")
     \/ Move(i, "PENDING", "CANCELLED")
     \/ Move(i, "ACCEPTED", "COMPLETED") /\ \E u \in Pair(i) : Role[u] = "CREATOR"
  /\ UNCHANGED <<links, blocks, openPosts>>

\* Users block and unblock each other, posts open and close.
Environment ==
  /\ blocks' \subseteq Users \X Users
  /\ openPosts' \subseteq Posts
  /\ UNCHANGED <<requests, links>>

Next ==
  \/ \E s, r \in Users, p \in Posts \cup {None} : Request(s, r, p)
  \/ \E i \in Made : Accept(i) \/ Close(i)
  \/ Environment

Spec == Init /\ [][Next]_vars

=============================================================================
