---------------------------- MODULE MCSubscriptions ----------------------------
(* Instances of Subscriptions for TLC. *)
EXTENDS Subscriptions, TLC

CONSTANTS t1, t2, t3

MCSymmetry == Permutations(Transaction)

=============================================================================
