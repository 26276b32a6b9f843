----------------------------- MODULE MCMigrations -----------------------------
(* Instances of Migrations for TLC. *)
EXTENDS Migrations, TLC

CONSTANTS k1, k2

MCVaried == {<<"users", "telegram_id">>}
MCSymmetry == Permutations(Command)

=============================================================================
