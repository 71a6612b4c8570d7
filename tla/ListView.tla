------------------------------ MODULE ListView ------------------------------
(***************************************************************************)
(* The view of an xList (list.c, list.h) that tasks.c depends on: the      *)
(* sequence of the items' owners, in the order in which the scheduler      *)
(* meets them.  The view of a list starts at the item after pxIndex and    *)
(* ends with pxIndex, the end marker left out.  XList refines these        *)
(* operators with the pointers of the code.                                *)
(***************************************************************************)
EXTENDS Integers, Sequences, SequencesExt

(* Mutated form: the new item goes in after pxIndex. *)
ViewInsertEnd_Next(s, x) == <<x>> \o s

(* vListInsertEnd puts the new item behind pxIndex and moves pxIndex to it:
   it becomes the last one that listGET_OWNER_OF_NEXT_ENTRY will reach. *)
ViewInsertEnd(s, x) == Append(s, x)

(* vListRemove; when pxIndex pointed to the item, pxIndex steps back to its
   predecessor, so the others keep their order. *)
ViewRemove(s, x) == RemoveFirst(s, x)

(* Where the loop of vListInsert stops: before the first item whose value is
   greater than v, and at the end marker when there is none (always so for
   portMAX_DELAY, the value of the marker, which the code treats apart). *)
InsertPosition(s, value, v) ==
  Min({i \in 1 .. Len(s) + 1 : i = Len(s) + 1 \/ value[s[i]] > v})

(* vListInsert: behind the items of the same value. *)
ViewInsert(s, value, x) == InsertAt(s, InsertPosition(s, value, value[x]), x)

(* listGET_OWNER_OF_NEXT_ENTRY: pxIndex moves to the next item, skipping the
   end marker; the owner it returns is Head(s). *)
ViewNext(s) == Append(Tail(s), Head(s))

=============================================================================
