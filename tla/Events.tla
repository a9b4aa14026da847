------------------------------- MODULE Events -------------------------------
(***************************************************************************)
(* Registering for one event and checking in at its door                   *)
(* (modules/eventRegistrations/eventRegistration.service.js).              *)
(***************************************************************************)
EXTENDS Requests, Naturals, Sequences, FiniteSets

CONSTANTS
  Mobiles, Emails,  \* what people register with
  Staff,            \* admins who scan tickets
  MaxTickets        \* bound: how many people register

VARIABLES
  registrations,  \* table EventRegistration, oldest row first
  entries         \* history: how often each ticket was checked in

eventVars == <<registrations, entries, job>>

ASSUME EventConstants == None \notin Staff /\ IsFiniteSet(Workers)

WhatsappStatus == {"sent", "failed", "skipped"}

Registration == [mobile : Mobiles, email : Emails, checkedInBy : Staff \cup {None},
                 whatsapp : WhatsappStatus \cup {None}]

EventJob == {Idle} \cup [at : {"insertTicket", "refetchTicket"}, mobile : Mobiles,
                         email : Emails]
            \cup [at : {"send"}, ticket : DOMAIN registrations]
            \cup [at : {"checkin"}, ticket : DOMAIN registrations, by : Staff]

EventInit == registrations = <<>> /\ entries = <<>> /\ job = NoJobs

findExisting(m, e) ==
  {t \in DOMAIN registrations : registrations[t].mobile = m \/ registrations[t].email = e}

Ticket(m, e) == [mobile |-> m, email |-> e, checkedInBy |-> None, whatsapp |-> None]

---------------------------------------------------------------------------
(* createRegistration *)

\* Somebody registered already gets that ticket.
FindTicket(w, m, e) ==
  /\ findExisting(m, e) = {}
  /\ Begin(w, [at |-> "insertTicket", mobile |-> m, email |-> e])
  /\ UNCHANGED <<registrations, entries>>

\* Sending the ticket by WhatsApp follows the answer.  The unique indexes on
\* the number and on the email refuse what raced.
InsertTicket(w) ==
  LET j == job[w]
  IN  /\ j.at = "insertTicket"
      /\ IF findExisting(j.mobile, j.email) # {}
         THEN GoTo(w, [j EXCEPT !.at = "refetchTicket"]) /\ UNCHANGED <<registrations, entries>>
         ELSE /\ Len(registrations) < MaxTickets
              /\ registrations' = Append(registrations, Ticket(j.mobile, j.email))
              /\ entries' = Append(entries, 0)
              /\ GoTo(w, [at |-> "send", ticket |-> Len(registrations')])

RefetchTicket(w) ==
  /\ job[w].at = "refetchTicket"
  /\ findExisting(job[w].mobile, job[w].email) # {}
  /\ Finish(w)
  /\ UNCHANGED <<registrations, entries>>

resendWhatsapp(w, t) ==
  /\ Begin(w, [at |-> "send", ticket |-> t])
  /\ UNCHANGED <<registrations, entries>>

sendTicket(w, status) ==
  /\ job[w].at = "send"
  /\ registrations' = [registrations EXCEPT ![job[w].ticket].whatsapp = status]
  /\ Finish(w)
  /\ UNCHANGED entries

---------------------------------------------------------------------------
(* checkin *)

\* Mutant: a ticket is not looked at before it is checked in.
ScanAgain(w, t, a) ==
  /\ Begin(w, [at |-> "checkin", ticket |-> t, by |-> a])
  /\ UNCHANGED <<registrations, entries>>

\* A ticket that is checked in is shown as such.
Scan(w, t, a) ==
  /\ registrations[t].checkedInBy = None
  /\ Begin(w, [at |-> "checkin", ticket |-> t, by |-> a])
  /\ UNCHANGED <<registrations, entries>>

CheckIn(w) ==
  LET t == job[w].ticket
  IN  /\ job[w].at = "checkin"
      /\ registrations' = [registrations EXCEPT ![t].checkedInBy = job[w].by]
      /\ entries' = [entries EXCEPT ![t] = @ + 1]
      /\ Finish(w)

---------------------------------------------------------------------------
EventNext ==
  \E w \in Workers :
    \/ \E m \in Mobiles, e \in Emails : FindTicket(w, m, e)
    \/ InsertTicket(w) \/ RefetchTicket(w)
    \/ \E status \in WhatsappStatus : sendTicket(w, status)
    \/ \E t \in DOMAIN registrations : resendWhatsapp(w, t) \/ \E a \in Staff : Scan(w, t, a)
    \/ CheckIn(w)

EventSpec == EventInit /\ [][EventNext]_eventVars

---------------------------------------------------------------------------
(* Properties *)

EventTypeOK ==
  /\ \A t \in DOMAIN registrations : registrations[t] \in Registration /\ entries[t] \in Nat
  /\ job \in [Workers -> EventJob]

Scanning(t) == {w \in Workers : job[w].at = "checkin" /\ job[w].ticket = t}

\* "Accidental double-scans" are refused, but for those that raced the first:
\* one ticket is checked in no more often than there are requests at once,
\* counting those about to.
EntriesBounded ==
  \A t \in DOMAIN registrations :
    entries[t] + Cardinality(Scanning(t)) <= Cardinality(Workers)

=============================================================================
