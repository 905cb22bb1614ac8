------------------------------ MODULE MCPrintd ------------------------------
(* Instances of Printd for TLC. *)
EXTENDS Printd, TLC

\* Which of the submissions is which does not matter to the safety properties.
Symmetry == Permutations(Clients)
=============================================================================
