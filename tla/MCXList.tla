------------------------------ MODULE MCXList -------------------------------
(* Small instances of XList.  The items are interchangeable. *)
EXTENDS XList, TLC

Symmetric == Permutations(Item)
=============================================================================
