------------------------------ MODULE MCKernel ------------------------------
(* Small instances of Kernel.  No action and no property tells the tasks of  *)
(* Task apart, so they are interchangeable.                                   *)
EXTENDS Harness

Symmetric == Permutations(Task)

=============================================================================
