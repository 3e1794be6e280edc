-------------------------- MODULE MCDependencyGraph --------------------------
(* Four tables, every graph of up to MaxEdges edges, in every order of adding. *)
EXTENDS DependencyGraph

MCNames == 1..4

==============================================================================
