------------------------------ MODULE Requests ------------------------------
(***************************************************************************)
(* The HTTP requests being served (utils/asyncHandler.js, app.js).  A      *)
(* worker serves one request; its job holds the next statement to run and  *)
(* what the handler remembers.  An action of a component is what a worker  *)
(* does up to and including one database statement or external call, and   *)
(* workers interleave at every await.  A request that fails half-way, by   *)
(* an error or the end of the process, is one whose worker takes no        *)
(* further step.                                                           *)
(***************************************************************************)

CONSTANTS
  Workers,  \* HTTP requests being served at once
  None      \* null

VARIABLE job  \* what each worker is doing

Idle == [at |-> "idle"]

NoJobs == [w \in Workers |-> Idle]

Busy == {w \in Workers : job[w] # Idle}

Begin(w, j) == job[w] = Idle /\ job' = [job EXCEPT ![w] = j]

GoTo(w, j) == job' = [job EXCEPT ![w] = j]

Finish(w) == job' = [job EXCEPT ![w] = Idle]

=============================================================================
