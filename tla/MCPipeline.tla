----------------------------- MODULE MCPipeline -----------------------------
EXTENDS Pipeline, TLC

(* Short requests are alike, and so are the processes Root forks. *)
Symmetry == Permutations(Msgs \ (Oversized \cup Long)) \cup Permutations(Procs \ {Root})
=============================================================================
