------------------------------ MODULE MCTracer ------------------------------
(* Tracer on small instances. *)
EXTENDS Tracer, TLC

Symmetry == Permutations(Spans)
=============================================================================
