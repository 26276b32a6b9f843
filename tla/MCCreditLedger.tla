--------------------------- MODULE MCCreditLedger ---------------------------
(* Instances of CreditLedger for TLC. *)
EXTENDS CreditLedger, TLC

CONSTANTS s1, s2, s3, u1, u2, i1, i2, p1, p2, d1, d2

MCValue          == [p \in Promo |-> IF p = p1 THEN 1 ELSE 2]
MCValidUntil     == [p \in Promo |-> IF p = p1 THEN d1 ELSE d2]
MCMaxActivations == [p \in Promo |-> IF p = p1 THEN 1 ELSE 2]
MCOneDate        == [p \in Promo |-> d1]
MCSymmetry       == Permutations(Session)

=============================================================================
