----------------------------- MODULE PaidLetters -----------------------------
(***************************************************************************)
(* What the generation pipeline promises, wherever its runs overlap or are *)
(* cut off.  A request keeps its owner once others can see it.  A letter   *)
(* comes in one step with the success of its request and with its charge,  *)
(* which the owner of the request pays out of a balance that covers it.    *)
(***************************************************************************)
EXTENDS Integers

CONSTANTS User, Request, InitialCredits, Cost, None

VARIABLES
  balance,   \* credits of each user
  rows,      \* owner and status of each request, as everybody sees them
  letters,   \* letters of each request
  charges    \* charges for each request

vars == <<balance, rows, letters, charges>>

NoRow == [owner |-> None, status |-> "absent"]

Init ==
  /\ balance = [u \in User |-> InitialCredits]
  /\ rows    = [r \in Request |-> NoRow]
  /\ letters = [r \in Request |-> 0]
  /\ charges = [r \in Request |-> 0]

\* The request r of u is accepted.
Accept(r, u) ==
  /\ rows[r] = NoRow
  /\ rows' = [rows EXCEPT ![r] = [owner |-> u, status |-> "pending"]]
  /\ UNCHANGED <<balance, letters, charges>>

Fail(r) ==
  /\ rows[r] # NoRow
  /\ rows' = [rows EXCEPT ![r].status = "failed"]
  /\ UNCHANGED <<balance, letters, charges>>

\* A request of u has its letter: one the bot has not shown to anybody before, or
\* one that was accepted.  A job that is run again after a crash may write another.
Deliver(r, u) ==
  /\ rows[r] = NoRow \/ rows[r].owner = u
  /\ balance[u] >= Cost
  /\ balance' = [balance EXCEPT ![u] = @ - Cost]
  /\ rows'    = [rows EXCEPT ![r] = [owner |-> u, status |-> "succeeded"]]
  /\ letters' = [letters EXCEPT ![r] = @ + 1]
  /\ charges' = [charges EXCEPT ![r] = @ + 1]

Next == \E r \in Request : Fail(r) \/ \E u \in User : Accept(r, u) \/ Deliver(r, u)

Spec == Init /\ [][Next]_vars

=============================================================================
