---------------------------- MODULE MCBroadcast ----------------------------
(***************************************************************************)
(* Instances of Broadcast for TLC: broadcasts that admin a1 creates.       *)
(***************************************************************************)
EXTENDS Broadcast

CONSTANT a1

MCCreator == [b \in Broadcasts |-> a1]

\* Day, night, day.
MCQuiet == {1}

=============================================================================
