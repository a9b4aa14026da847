-------------------------- MODULE MCCollaboration --------------------------
(***************************************************************************)
(* Instances of Collaboration for TLC: a creator c1, freelancers, and at   *)
(* most one post, of freelancer f1, who may block the creator.             *)
(***************************************************************************)
EXTENDS CollaborationSerial, CollaborationContact, TLC

CONSTANTS c1, f1

MCRole == [u \in Users |-> IF u = c1 THEN "CREATOR" ELSE "FREELANCER"]
MCPostOwner == [p \in Posts |-> f1]
MCBlocks == {<<f1, c1>>}

\* Ids and workers are interchangeable.
Symmetry == Permutations(CollabIds) \cup Permutations(Workers)

=============================================================================
