------------------------------- MODULE MCMutex -------------------------------
(* A small instance of Mutex: a task of low, one of middle and one of high
   priority. *)
EXTENDS Mutex

CONSTANTS low, middle, high

StartPriorities == low :> 0 @@ middle :> 1 @@ high :> 2

=============================================================================
