------------------------------ MODULE ListSpec ------------------------------
(***************************************************************************)
(* What tasks.c expects of list.c: every list is a sequence of items,      *)
(* changed by the operators of ListView, which are those the Kernel module *)
(* is built from.  A list is used in one of three ways: RoundRobin, the    *)
(* ready lists (vListInsertEnd and listGET_OWNER_OF_NEXT_ENTRY); Fifo, the *)
(* pending, suspended and termination lists (vListInsertEnd and the head); *)
(* Sorted, the delay and event lists (vListInsert and the head).           *)
(***************************************************************************)
EXTENDS ListView

CONSTANTS Item, RoundRobin, Fifo, Sorted, Value, NULL

List == RoundRobin \cup Fifo \cup Sorted

VARIABLES
  view,         \* the items of each list
  xItemValue,   \* the value of each item
  owner         \* the item whose owner was asked for last, NULL if none

vars == <<view, xItemValue, owner>>

Init ==
  /\ view = [l \in List |-> <<>>]
  /\ xItemValue \in [Item -> Value]
  /\ owner = NULL

Unlinked(x) == \A l \in List : ~Contains(view[l], x)

InsertEnd(l, x) ==
  /\ Unlinked(x)
  /\ view' = [view EXCEPT ![l] = ViewInsertEnd(@, x)]
  /\ UNCHANGED <<xItemValue, owner>>

(* In ascending order of the values, behind the items of the same value. *)
Insert(l, x) ==
  /\ Unlinked(x)
  /\ view' = [view EXCEPT ![l] = ViewInsert(@, xItemValue, x)]
  /\ UNCHANGED <<xItemValue, owner>>

RemoveItem(l, x) ==
  /\ Contains(view[l], x)
  /\ view' = [view EXCEPT ![l] = ViewRemove(@, x)]
  /\ UNCHANGED <<xItemValue, owner>>

(* The next entry is the first of the view, which becomes the last. *)
NextOwner(l) ==
  /\ view[l] # <<>>
  /\ owner' = Head(view[l])
  /\ view' = [view EXCEPT ![l] = ViewNext(@)]
  /\ UNCHANGED xItemValue

HeadOwner(l) ==
  /\ owner' = IF view[l] = <<>> THEN NULL ELSE Head(view[l])
  /\ UNCHANGED <<view, xItemValue>>

SetValue(x, v) ==
  /\ xItemValue' = [xItemValue EXCEPT ![x] = v]
  /\ UNCHANGED <<view, owner>>

Next ==
  \/ \E l \in RoundRobin \cup Fifo, x \in Item : InsertEnd(l, x)
  \/ \E l \in Sorted, x \in Item : Insert(l, x)
  \/ \E l \in List, x \in Item : RemoveItem(l, x)
  \/ \E l \in RoundRobin : NextOwner(l)
  \/ \E l \in Fifo \cup Sorted : HeadOwner(l)
  \/ \E x \in Item, v \in Value : SetValue(x, v)

Spec == Init /\ [][Next]_vars

=============================================================================
