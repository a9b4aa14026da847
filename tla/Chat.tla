-------------------------------- MODULE Chat --------------------------------
(***************************************************************************)
(* The messages of one conversation, their reactions, and the cached list  *)
(* of conversations of each participant                                    *)
(* (modules/conversations/conversation.service.js).  One emoji stands for  *)
(* all; pushes, replies and images are left out, and so is a recipient who *)
(* deletes the account.                                                    *)
(***************************************************************************)
EXTENDS Contact, Requests, Naturals, FiniteSets, Sequences

CONSTANT MaxMessages  \* bound: how many messages are sent

VARIABLES
  messages,  \* table Message, oldest row first
  lists      \* the cache: each one's list, the unread count in it

chatVars == <<messages, lists, contactVars, job>>

\* content: whether there is any.
Message == [sender : People, content : BOOLEAN, isDeleted : BOOLEAN,
            isRead : BOOLEAN, reactions : SUBSET People]

\* right is history: the count was the unread count when it was cached.
List == [unread : Nat, right : BOOLEAN]

ASSUME ChatConstants ==
  /\ \E p, q \in People : People = {p, q}
  /\ None \notin List

ChatJob ==
  {Idle}
  \cup [at : {"active", "unblocked", "post"}, user : People]
  \cup [at : {"conversation", "active", "unblocked", "react"}, user : People,
        message : DOMAIN messages, reactions : SUBSET People]
  \cup [at : {"edit", "erase"}, message : DOMAIN messages]
  \cup [at : {"bust"}, users : SUBSET People]
  \cup [at : {"markRead"}, user : People]
  \cup [at : {"fill"}, user : People, unread : Nat]

ChatInit ==
  /\ messages = <<>>
  /\ lists = [p \in People |-> None]
  /\ job = NoJobs
  /\ ContactInit

UnreadBy(p) == {m \in DOMAIN messages : messages[m].sender # p /\ ~messages[m].isRead}

Unread(p) == Cardinality(UnreadBy(p))

Reacts(w) == "message" \in DOMAIN job[w]

---------------------------------------------------------------------------
(* sendMessage and toggleReaction *)

\* The collaboration read with the conversation may do.
AfterConversation == IF current THEN "unblocked" ELSE "active"

ReadConversation(w, p) ==
  /\ Begin(w, [at |-> AfterConversation, user |-> p])
  /\ UNCHANGED <<messages, lists, contactVars>>

\* The reactions to m are read first of all.
ReadMessage(w, p, m) ==
  /\ Begin(w, [at |-> "conversation", user |-> p, message |-> m,
               reactions |-> messages[m].reactions])
  /\ UNCHANGED <<messages, lists, contactVars>>

\* Mutant: reacting is free.
ReactFreely(w) ==
  /\ job[w].at = "conversation"
  /\ GoTo(w, [job[w] EXCEPT !.at = "react"])
  /\ UNCHANGED <<messages, lists, contactVars>>

ReactConversation(w) ==
  /\ job[w].at = "conversation"
  /\ GoTo(w, [job[w] EXCEPT !.at = AfterConversation])
  /\ UNCHANGED <<messages, lists, contactVars>>

CheckActive(w) ==
  /\ job[w].at = "active"
  /\ IF hasActiveCollaboration THEN GoTo(w, [job[w] EXCEPT !.at = "unblocked"])
     ELSE Finish(w)
  /\ UNCHANGED <<messages, lists, contactVars>>

CheckUnblocked(w) ==
  /\ job[w].at = "unblocked"
  /\ IF blocked THEN Finish(w)
     ELSE GoTo(w, [job[w] EXCEPT !.at = IF Reacts(w) THEN "react" ELSE "post"])
  /\ UNCHANGED <<messages, lists, contactVars>>

CreateMessage(w) ==
  /\ job[w].at = "post"
  /\ Len(messages) < MaxMessages
  /\ messages' = Append(messages,
       [sender |-> job[w].user, content |-> TRUE, isDeleted |-> FALSE,
        isRead |-> FALSE, reactions |-> {}])
  /\ GoTo(w, [at |-> "bust", users |-> People])
  /\ UNCHANGED <<lists, contactVars>>

\* Mutant: a reaction takes the place of the others.
WriteReactionAlone(w) ==
  LET j == job[w]
  IN  /\ j.at = "react"
      /\ messages' = [messages EXCEPT ![j.message].reactions =
                        IF j.user \in j.reactions THEN {} ELSE {j.user}]
      /\ Finish(w)
      /\ UNCHANGED <<lists, contactVars>>

\* What was read, with the user's reaction added or taken away, is written.
WriteReaction(w) ==
  LET j == job[w]
  IN  /\ j.at = "react"
      /\ messages' = [messages EXCEPT ![j.message].reactions =
                        IF j.user \in j.reactions THEN j.reactions \ {j.user}
                        ELSE j.reactions \cup {j.user}]
      /\ Finish(w)
      /\ UNCHANGED <<lists, contactVars>>

---------------------------------------------------------------------------
(* editMessage and deleteMessage *)

ReadOwn(w, m, at) ==
  /\ Begin(w, [at |-> at, message |-> m])
  /\ UNCHANGED <<messages, lists, contactVars>>

EditMessage(w) ==
  /\ job[w].at = "edit"
  /\ messages' = [messages EXCEPT ![job[w].message].content = TRUE]
  /\ Finish(w)
  /\ UNCHANGED <<lists, contactVars>>

EraseMessage(w) ==
  /\ job[w].at = "erase"
  /\ messages' = [messages EXCEPT ![job[w].message].content = FALSE,
                                  ![job[w].message].isDeleted = TRUE]
  /\ Finish(w)
  /\ UNCHANGED <<lists, contactVars>>

---------------------------------------------------------------------------
(* listMessages and listConversations *)

FetchPage(w, p) ==
  /\ Begin(w, [at |-> "markRead", user |-> p])
  /\ UNCHANGED <<messages, lists, contactVars>>

\* Every message of the other that is unread by now, on the page or not.
MarkRead(w) ==
  LET p == job[w].user
  IN  /\ job[w].at = "markRead"
      /\ messages' = [m \in DOMAIN messages |->
                        IF m \in UnreadBy(p) THEN [messages[m] EXCEPT !.isRead = TRUE]
                        ELSE messages[m]]
      /\ IF UnreadBy(p) = {} THEN Finish(w) ELSE GoTo(w, [at |-> "bust", users |-> {p}])
      /\ UNCHANGED <<lists, contactVars>>

\* Mutant: only the first of them.
BustOne(w) ==
  /\ job[w].at = "bust"
  /\ LET p == CHOOSE p \in job[w].users : TRUE
     IN  lists' = [lists EXCEPT ![p] = None]
  /\ Finish(w)
  /\ UNCHANGED <<messages, contactVars>>

\* cache.del for everybody a message or its reading concerns.
BustLists(w) ==
  /\ job[w].at = "bust"
  /\ lists' = [p \in People |-> IF p \in job[w].users THEN None ELSE lists[p]]
  /\ Finish(w)
  /\ UNCHANGED <<messages, contactVars>>

ComputeList(w, p) ==
  /\ lists[p] = None
  /\ Begin(w, [at |-> "fill", user |-> p, unread |-> Unread(p)])
  /\ UNCHANGED <<messages, lists, contactVars>>

FillList(w) ==
  LET j == job[w]
  IN  /\ j.at = "fill"
      /\ lists' = [lists EXCEPT ![j.user] =
                     [unread |-> j.unread, right |-> j.unread = Unread(j.user)]]
      /\ Finish(w)
      /\ UNCHANGED <<messages, contactVars>>

\* CONVERSATIONS_TTL
ListExpires(p) ==
  /\ lists' = [lists EXCEPT ![p] = None]
  /\ UNCHANGED <<messages, contactVars, job>>

---------------------------------------------------------------------------
ChatStep(w) ==
  \/ ReactConversation(w) \/ CheckActive(w) \/ CheckUnblocked(w)
  \/ CreateMessage(w) \/ WriteReaction(w) \/ EditMessage(w) \/ EraseMessage(w)
  \/ MarkRead(w) \/ BustLists(w) \/ FillList(w)

ChatArrive(w) ==
  \/ \E p \in People :
       \/ ReadConversation(w, p)
       \/ \E m \in DOMAIN messages : ReadMessage(w, p, m)
       \/ FetchPage(w, p) \/ ComputeList(w, p)
  \/ \E m \in DOMAIN messages, at \in {"edit", "erase"} : ReadOwn(w, m, at)

ChatNext ==
  \/ \E w \in Workers : ChatArrive(w) \/ ChatStep(w)
  \/ \E p \in People : ListExpires(p)
  \/ ContactNext /\ UNCHANGED <<messages, lists, job>>

ChatSpec == ChatInit /\ [][ChatNext]_chatVars

---------------------------------------------------------------------------
(* Properties *)

ChatTypeOK ==
  /\ \A m \in DOMAIN messages : messages[m] \in Message
  /\ lists \in [People -> List \cup {None}]
  /\ job \in [Workers -> ChatJob]
  /\ {current, another, blocked} \subseteq BOOLEAN

\* Contact is closed, and no request to send or react has passed the check that
\* would tell it.
ChatShut ==
  LET at == {job[w].at : w \in Workers}
  IN  \/ ~hasActiveCollaboration /\ at \cap {"unblocked", "post", "react"} = {}
      \/ blocked /\ at \cap {"post", "react"} = {}

\* "Chat is open only while the collaboration is ACCEPTED", and "reacting must
\* be blocked by the exact same rules": a chat that is shut gets no new message
\* and no other reaction, and is shut until contact opens.  Who sent a message
\* goes on editing and erasing it: neither looks at contact.
NoNewMessages ==
  ChatShut =>
    /\ Len(messages') = Len(messages)
    /\ \A m \in DOMAIN messages : messages'[m].reactions = messages[m].reactions
    /\ Opening \/ ChatShut'

TogglesBy(p, m) ==
  {w \in Workers : Reacts(w) /\ job[w].at \notin {"edit", "erase"}
                   /\ job[w].message = m /\ job[w].user = p}

\* The reaction of p to m, which no request has missed or is changing.
Reacted(p, m) ==
  /\ p \in messages[m].reactions
  /\ TogglesBy(p, m) = {}
  /\ \A q \in People : \A w \in TogglesBy(q, m) : p \in job[w].reactions

\* A reaction goes away only by a request of the one who reacted, although all
\* reactions are written at once; a reaction that met another may be lost.
ReactionsAreOnesOwn ==
  [][\A m \in DOMAIN messages : \A p \in People :
       Reacted(p, m) => Reacted(p, m)' \/ TogglesBy(p, m)' # {}]_chatVars

\* "Bust the cache so the unread badge reflects it immediately": an unread
\* count that was right when it was cached stays right, or a request is about
\* to drop it.
ListsAreBusted ==
  \A p \in People :
    lists[p] # None /\ lists[p].right
    => \/ lists[p].unread = Unread(p)
       \/ \E w \in Workers : job[w].at = "bust" /\ p \in job[w].users

=============================================================================
