------------------------------ MODULE Contact ------------------------------
(***************************************************************************)
(* Whether two people may be in contact, which messages, reactions and     *)
(* calls all ask before they go on (modules/conversations,                 *)
(* modules/calls): a collaboration of theirs is ACCEPTED and neither has   *)
(* blocked the other.  How collaborations and blocks come about is module  *)
(* Collaboration; here they change at any time.                            *)
(***************************************************************************)
CONSTANT People  \* the two of them

VARIABLES
  current,  \* the collaboration the conversation points at is ACCEPTED
  another,  \* another one is
  blocked   \* one of them has blocked the other

contactVars == <<current, another, blocked>>

hasActiveCollaboration == current \/ another

ContactInit == current = TRUE /\ another = FALSE /\ blocked = FALSE

\* They have never been in contact.
Strangers == current = FALSE /\ another = FALSE /\ blocked = FALSE

\* Accepting another request points the conversation at it; accepting one twice
\* points it back at that one.  If it has been pointed elsewhere since the
\* request looked, it stays there.
CollaborationAccepted ==
  /\ \/ current' = TRUE /\ another' \in {hasActiveCollaboration, current}
     \/ another' = TRUE /\ UNCHANGED current
  /\ UNCHANGED blocked

\* Completed, or overwritten by a request that read it before it was accepted.
CollaborationCompleted ==
  /\ \/ current /\ current' = FALSE /\ UNCHANGED another
     \/ another /\ another' = FALSE /\ UNCHANGED current
  /\ UNCHANGED blocked

BlockChanged == blocked' = ~blocked /\ UNCHANGED <<current, another>>

\* A step after which there is a reason less against contact.
Opening ==
  \/ hasActiveCollaboration' /\ ~hasActiveCollaboration
  \/ blocked /\ ~blocked'

ContactNext == CollaborationAccepted \/ CollaborationCompleted \/ BlockChanged

ContactSpec == Strangers /\ [][ContactNext]_contactVars

=============================================================================
