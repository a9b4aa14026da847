------------------------ MODULE CollaborationSerial ------------------------
(***************************************************************************)
(* Collaboration served one request at a time (Workers is a singleton)     *)
(* keeps every promise of CollabProtocol; served concurrently it does not. *)
(***************************************************************************)
EXTENDS Collaboration

\* A row without its creation month, which the protocol does not speak of.
requestOf(row) ==
  IF row = None THEN None
  ELSE [sender |-> row.sender, receiver |-> row.receiver, post |-> row.post,
        status |-> row.status]

\* null is not a request either.
ASSUME NoneIsNoRequest ==
  None \notin [sender : Users, receiver : Users, post : Posts \cup {None},
               status : STATUSES]

Protocol == INSTANCE CollabProtocol
              WITH requests <- [i \in CollabIds |-> requestOf(rows[i])],
                   links <- convs

\* Every step of the handlers is one operation of the protocol or changes
\* nothing it speaks of, aborts between two statements included: each request
\* makes, accepts or closes a collaboration that is, when it is written, in
\* the state its check found, between users who do not block each other and
\* for a post that still takes requests.
ImplementsProtocol == Protocol!Spec

=============================================================================
