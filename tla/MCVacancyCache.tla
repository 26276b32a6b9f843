---------------------------- MODULE MCVacancyCache ----------------------------
(* Instances of VacancyCache for TLC. *)
EXTENDS VacancyCache, TLC

CONSTANTS v1, e1, w1, w2, w3, c1

MCEmployerOf == [v \in Vacancy |-> e1]
MCSymmetry   == Permutations(Worker)

=============================================================================
