------------------------------ MODULE Handlers ------------------------------
(***************************************************************************)
(* Requests to the rows of a component: each reads, decides on what it     *)
(* read, and writes later, with others in between.  A request is Idle or   *)
(* is a record of the step it is at and of what it has read.               *)
(*                                                                         *)
(* `alone` is history: the step just taken was one of a request that has   *)
(* run with no other beside it since it began.  What a lone request does   *)
(* from ANY reachable state, one that overlapping requests have left askew *)
(* included, is what a caller who repeats a request may count on.          *)
(***************************************************************************)
CONSTANT Requests      \* requests that may be in progress at the same time

VARIABLES req, alone

Idle == [pc |-> "idle"]

Others(r) == Requests \ {r}

\* Request r moves on, or ends.
Enter(r, state) ==
  /\ req' = [req EXCEPT ![r] = state]
  /\ alone' = (/\ \A s \in Others(r) : req[s] = Idle
               /\ alone \/ req[r] = Idle)

Release(r) == Enter(r, Idle)

At(r, pc) == req[r].pc = pc

NoRequests == req = [r \in Requests |-> Idle] /\ alone = FALSE
=============================================================================
