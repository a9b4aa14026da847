----------------------------- MODULE MCContact -----------------------------
(***************************************************************************)
(* What people see of each other, for TLC: the chat of two, their calls,   *)
(* who follows whom, their feeds, the boosts of one, and what users and    *)
(* admins are shown of everybody.  Chat, calls and                         *)
(* follows ask whether contact is open; otherwise none reads or writes     *)
(* what another keeps, so that each behaviour is one of the component in   *)
(* focus.  In the chat, reacting, editing and erasing write nothing that   *)
(* the cached lists count, so that lists are in a focus of their own.      *)
(***************************************************************************)
EXTENDS Chat, Calls, Follows, Feeds, Boosts, Backoffice, TLC

CONSTANTS
  A, B, p1, p2, p3,  \* the two of them, and posts
  creator, freelancer, editor, q1, q2, q3, q4  \* those who browse, and posts

VARIABLE focus  \* the component whose requests are served

MCRoleOf == [u \in Folk |-> IF u = creator THEN "CREATOR" ELSE "FREELANCER"]

MCSlugsOf == [u \in Folk |-> IF u = editor THEN {"editors", "video-editing"} ELSE {"photography"}]

MCCreatedAt == [p \in {q1, q2, q3, q4} |-> CASE p = q1 -> 4 [] p = q2 -> 3 [] p = q3 -> 2 [] OTHER -> 1]

MCWriterOf == [p \in {q1, q2, q3, q4} |-> CASE p \in {q1, q2} -> freelancer
                                           [] p = q3 -> editor [] OTHER -> creator]

MCWantedOf == [p \in {q1, q2, q3, q4} |-> IF p = q4 THEN {"photography"} ELSE {}]

MCEarlierReports ==
  {[by |-> editor, target |-> q4, autoGenerated |-> FALSE, status |-> "DISMISSED"]}

\* Just before and after midnight in India.
MCSignedUpAt == [u \in Folk |-> CASE u = creator -> 1109 [] u = editor -> 1110 [] OTHER -> 0]

MCAuthorOf == [p \in Posts |-> IF p = p1 THEN A ELSE B]

Init ==
  /\ focus \in {"chat", "lists", "calls", "follows", "feeds", "boosts", "browse"}
  /\ ChatInit /\ CallInit /\ FollowInit /\ FeedInit /\ BoostInit
  /\ BrowseInit /\ (focus # "browse" => \A u \in Folk : ~who[u].isPremium)

Rest(c) ==
  /\ focus = c /\ UNCHANGED focus
  /\ c \notin {"chat", "lists"} => UNCHANGED <<messages, lists>>
  /\ c \notin {"chat", "lists", "calls", "follows"} => UNCHANGED contactVars
  /\ c # "calls" => UNCHANGED calls
  /\ c # "follows" => UNCHANGED follows
  /\ c # "feeds" => UNCHANGED <<posts, blocks, feeds>>
  /\ c # "boosts" => UNCHANGED <<active, boosted>>
  /\ IF c = "browse" THEN UNCHANGED job ELSE UNCHANGED browseVars

AtWork(at) == \E w \in Workers : job'[w].at \in at

Next ==
  \/ Rest("chat") /\ ChatNext /\ ~AtWork({"fill"})
  \/ Rest("lists") /\ ChatNext /\ ~AtWork({"conversation", "edit", "erase"})
  \/ Rest("calls") /\ CallNext
  \/ Rest("follows") /\ FollowNext
  \/ Rest("feeds") /\ FeedNext
  \/ Rest("boosts") /\ BoostNext
  \/ Rest("browse") /\ BrowseNext

Spec ==
  Init /\ [][Next]_<<chatVars, calls, follows, feedVars, boostVars, browseVars, focus>>

\* The two people change places together with their posts.
Interchangeable ==
  Permutations(Workers) \cup {A :> B @@ B :> A @@ p1 :> p2 @@ p2 :> p1}

\* Every row, cached list and request is of its type.
TypeOK ==
  /\ focus \in {"chat", "lists"} => ChatTypeOK
  /\ focus = "calls" => CallTypeOK
  /\ focus = "follows" => FollowTypeOK
  /\ focus = "feeds" => FeedTypeOK
  /\ focus = "boosts" => BoostTypeOK
  /\ focus = "browse" => BrowseTypeOK

\* "Chat is open only while the collaboration is ACCEPTED", "completing it
\* closes calls too", and nobody follows whom a block parts: once contact
\* closes, requests past the checks are the last to add a message, a reaction,
\* a call or a follow, until it opens.  Messages there are may be edited and
\* erased, and calls that ring be answered.
NothingNewWhenClosed ==
  /\ [][(focus \in {"chat", "lists"}) => NoNewMessages]_chatVars
  /\ [][focus = "calls" => NoNewCalls]_callVars
  /\ [][focus = "follows" => NoNewFollows]_followVars

\* What a feed, a profile or a list shows can be opened, and nothing else is
\* hidden.
BrowsingOpens == focus = "browse" => ShownOpens

\* The figures and lists of admins agree with one another.
FiguresAgree == focus = "browse" => OfficeAgrees

=============================================================================
