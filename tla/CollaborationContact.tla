------------------------ MODULE CollaborationContact ------------------------
(***************************************************************************)
(* What module Contact says of two people is what the requests of module   *)
(* Collaboration do to each pair of users, however many are served at      *)
(* once: the chat and the calls of two rest on this.                       *)
(***************************************************************************)
EXTENDS Collaboration

\* The collaborations of a pair that are ACCEPTED.
AcceptedOf(pr) == {i \in Used : Parties(i) = pr /\ rows[i].status = "ACCEPTED"}

ContactOf(pr) == INSTANCE Contact
                   WITH People <- pr,
                        current <- convs[pr] \in AcceptedOf(pr),
                        another <- AcceptedOf(pr) \ {convs[pr]} # {},
                        blocked <- blocks \cap (pr \X pr) # {}

\* Two users begin as strangers, and every statement of every request is for
\* them an accept, the end of a collaboration, a block or an unblock, or
\* nothing: no interleaving of accepts, re-sent requests and completions takes
\* them where the module of their contact does not go.
ContactStep ==
  \A pr \in Pairs : ContactOf(pr)!ContactNext \/ UNCHANGED ContactOf(pr)!contactVars

ImplementsContact == (\A pr \in Pairs : ContactOf(pr)!Strangers) /\ [][ContactStep]_vars

=============================================================================
