---------------------------- MODULE MCConversation ----------------------------
(* Instances of Conversation for TLC. *)
EXTENDS Conversation, TLC

CONSTANTS l1, l2, r1, r2, p1, p2, s1, s2

\* At 2 it is midnight in UTC, at 5 in Moscow.
MCTime     == {1, 2, 4, 5}
MCLength   == [m \in Resume |-> IF m = r1 THEN 3 ELSE 0]
MCSymmetry == Permutations(Link) \cup Permutations(Press) \cup Permutations(Slot)

=============================================================================
