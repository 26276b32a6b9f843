------------------------ MODULE MCGenerationPipeline ------------------------
(* Instances of GenerationPipeline for TLC. *)
EXTENDS GenerationPipeline, TLC

CONSTANTS u1, u2, c1, c2, w1, w2, j1, j2, j3, r1, r2, r3

MCSymmetry == Permutations(Client) \cup Permutations(Worker) \cup Permutations(Job)
              \cup Permutations(Request)

=============================================================================
