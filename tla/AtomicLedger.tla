---------------------------- MODULE AtomicLedger ----------------------------
(***************************************************************************)
(* What the credit ledger promises its readers, whatever handlers run and  *)
(* however they overlap: a balance changes only together with the row that *)
(* explains it, one row at a time, and never below zero.                   *)
(***************************************************************************)
EXTENDS Integers, Sequences

CONSTANT User

VARIABLES
  balance,   \* the credits each user has
  history    \* the rows of each user, each with its amount and balance_after

vars == <<balance, history>>

Init ==
  /\ balance = [u \in User |-> 0]
  /\ history = [u \in User |-> <<>>]

\* One row e is appended to the history of u and sets the balance.
Move(u) ==
  LET e == history'[u][Len(history'[u])] IN
  /\ Len(history'[u]) = Len(history[u]) + 1
  /\ history' = [history EXCEPT ![u] = Append(@, e)]
  /\ balance' = [balance EXCEPT ![u] = e.balance_after]
  /\ e.balance_after = balance[u] + e.amount
  /\ e.balance_after >= 0

Next == \E u \in User : Move(u)

Spec == Init /\ [][Next]_vars

=============================================================================
