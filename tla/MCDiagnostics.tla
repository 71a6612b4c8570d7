---------------------------- MODULE MCDiagnostics ----------------------------
(* A small instance of Diagnostics; the tasks of Task are interchangeable. *)
EXTENDS Diagnostics

Symmetric == Permutations(Task)

=============================================================================
