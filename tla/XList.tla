------------------------------- MODULE XList --------------------------------
(***************************************************************************)
(* list.c and list.h: circular lists of items linked both ways through an  *)
(* end marker, with an index that walks the ring.  Each function is atomic *)
(* here: tasks.c calls it with interrupts masked, or on lists that         *)
(* interrupts do not touch while the scheduler is suspended.               *)
(***************************************************************************)
EXTENDS Integers, FiniteSets, Sequences, SequencesExt

CONSTANTS
  Item,                      \* list items
  RoundRobin, Fifo, Sorted,  \* the lists, by the way tasks.c uses them
  portMAX_DELAY,             \* greatest item value, the value of the end marker
  NULL

ASSUME MaxDelayAssumption == portMAX_DELAY \in Nat
ASSUME ItemAssumption == IsFiniteSet(Item)
ASSUME ListUseAssumption ==
  /\ RoundRobin \cap Fifo = {}
  /\ (RoundRobin \cup Fifo) \cap Sorted = {}

List == RoundRobin \cup Fifo \cup Sorted
Value == 0 .. portMAX_DELAY

xListEnd(l) == <<"xListEnd", l>>
Ends == {xListEnd(l) : l \in List}
Node == Item \cup Ends

(* End markers are no items, and NULL is neither a node nor a list. *)
ASSUME NodeAssumption == Item \cap Ends = {} /\ NULL \notin Node \cup List

VARIABLES
  pxNext, pxPrevious,  \* links of the items and end markers
  xItemValue,          \* of the items; an end marker has portMAX_DELAY
  pvContainer,         \* the list an item is in, or NULL
  pxIndex,             \* of each list
  uxNumberOfItems,     \* of each list
  owner                \* what a listGET_OWNER macro returned last

vars == <<pxNext, pxPrevious, xItemValue, pvContainer, pxIndex,
          uxNumberOfItems, owner>>

TypeOK ==
  /\ pxNext \in [Node -> Node \cup {NULL}]
  /\ pxPrevious \in [Node -> Node \cup {NULL}]
  /\ xItemValue \in [Item -> Value]
  /\ pvContainer \in [Item -> List \cup {NULL}]
  /\ pxIndex \in [List -> Node]
  /\ uxNumberOfItems \in [List -> Nat]
  /\ owner \in Item \cup {NULL}

(* vListInitialise and vListInitialiseItem. *)
Init ==
  /\ pxNext = [n \in Node |-> IF n \in Ends THEN n ELSE NULL]
  /\ pxPrevious = [n \in Node |-> IF n \in Ends THEN n ELSE NULL]
  /\ xItemValue \in [Item -> Value]
  /\ pvContainer = [x \in Item |-> NULL]
  /\ pxIndex = [l \in List |-> xListEnd(l)]
  /\ uxNumberOfItems = [l \in List |-> 0]
  /\ owner = NULL

ValueOf(n) == IF n \in Ends THEN portMAX_DELAY ELSE xItemValue[n]

(* The nodes met from n on along the links: n itself, then its successors. *)
Walk(next, n, length) ==
  LET step[k \in 0 .. length] == IF k = 0 THEN n ELSE next[step[k - 1]]
  IN  step

Link(l, x) ==
  /\ pvContainer' = [pvContainer EXCEPT ![x] = l]
  /\ uxNumberOfItems' = [uxNumberOfItems EXCEPT ![l] = @ + 1]
  /\ UNCHANGED <<xItemValue, owner>>

(* vListInsertEnd: behind pxIndex, which moves to the new item. *)
vListInsertEnd(l, x) ==
  LET index == pxIndex[l]
  IN  /\ pvContainer[x] = NULL
      /\ pxNext' = [pxNext EXCEPT ![x] = pxNext[index], ![index] = x]
      /\ pxPrevious' = [pxPrevious EXCEPT ![x] = index, ![pxNext[index]] = x]
      /\ pxIndex' = [pxIndex EXCEPT ![l] = x]
      /\ Link(l, x)

(* The node vListInsert inserts behind.  The loop starts at the end marker and
   stops in front of the first item with a greater value; for portMAX_DELAY it
   would not stop, and the last item is taken instead. *)
InsertionPoint(l, v) ==
  IF v = portMAX_DELAY
  THEN pxPrevious[xListEnd(l)]
  ELSE LET walk == Walk(pxNext, xListEnd(l), uxNumberOfItems[l])
       IN  walk[Min({k \in DOMAIN walk : ValueOf(pxNext[walk[k]]) > v})]

vListInsert(l, x) ==
  LET pxIterator == InsertionPoint(l, xItemValue[x])
  IN  /\ pvContainer[x] = NULL
      /\ pxNext' = [pxNext EXCEPT ![x] = pxNext[pxIterator], ![pxIterator] = x]
      /\ pxPrevious' = [pxPrevious EXCEPT ![pxNext[pxIterator]] = x,
                                          ![x] = pxIterator]
      /\ UNCHANGED pxIndex
      /\ Link(l, x)

(* Mutated forms: the index is left on the item that goes, or steps forward. *)
IndexAfterRemove_Left(l, x) == pxIndex[l]
IndexAfterRemove_ToNext(l, x) ==
  IF pxIndex[l] = x THEN pxNext[x] ELSE pxIndex[l]

(* "Make sure the index is left pointing to a valid item." *)
IndexAfterRemove(l, x) ==
  IF pxIndex[l] = x THEN pxPrevious[x] ELSE pxIndex[l]

(* vListRemove: the item names its list; an index on it steps back. *)
vListRemove(x) ==
  LET l == pvContainer[x]
  IN  /\ l # NULL
      /\ pxPrevious' = [pxPrevious EXCEPT ![pxNext[x]] = pxPrevious[x]]
      /\ pxNext' = [pxNext EXCEPT ![pxPrevious[x]] = pxNext[x]]
      /\ pxIndex' = [pxIndex EXCEPT ![l] = IndexAfterRemove(l, x)]
      /\ pvContainer' = [pvContainer EXCEPT ![x] = NULL]
      /\ uxNumberOfItems' = [uxNumberOfItems EXCEPT ![l] = @ - 1]
      /\ UNCHANGED <<xItemValue, owner>>

listLIST_IS_EMPTY(l) == uxNumberOfItems[l] = 0

(* Mutated form: the end marker is returned like an item. *)
NextIndex_WithMarker(l) == pxNext[pxIndex[l]]

(* The next item of the ring, the end marker skipped. *)
NextIndex(l) ==
  IF pxNext[pxIndex[l]] = xListEnd(l)
  THEN pxNext[xListEnd(l)] ELSE pxNext[pxIndex[l]]

(* listGET_OWNER_OF_NEXT_ENTRY, on a list that is not empty. *)
listGET_OWNER_OF_NEXT_ENTRY(l) ==
  /\ ~listLIST_IS_EMPTY(l)
  /\ pxIndex' = [pxIndex EXCEPT ![l] = NextIndex(l)]
  /\ owner' = NextIndex(l)
  /\ UNCHANGED <<pxNext, pxPrevious, xItemValue, pvContainer, uxNumberOfItems>>

listGET_OWNER_OF_HEAD_ENTRY(l) ==
  /\ owner' = IF listLIST_IS_EMPTY(l) THEN NULL ELSE pxNext[xListEnd(l)]
  /\ UNCHANGED <<pxNext, pxPrevious, xItemValue, pvContainer, pxIndex,
                 uxNumberOfItems>>

(* listSET_LIST_ITEM_VALUE; vTaskPrioritySet does it to items in a list. *)
listSET_LIST_ITEM_VALUE(x, v) ==
  /\ xItemValue' = [xItemValue EXCEPT ![x] = v]
  /\ UNCHANGED <<pxNext, pxPrevious, pvContainer, pxIndex, uxNumberOfItems,
                 owner>>

Next ==
  \/ \E l \in RoundRobin \cup Fifo, x \in Item : vListInsertEnd(l, x)
  \/ \E l \in Sorted, x \in Item : vListInsert(l, x)
  \/ \E x \in Item : vListRemove(x)
  \/ \E l \in RoundRobin : listGET_OWNER_OF_NEXT_ENTRY(l)
  \/ \E l \in Fifo \cup Sorted : listGET_OWNER_OF_HEAD_ENTRY(l)
  \/ \E x \in Item, v \in Value : listSET_LIST_ITEM_VALUE(x, v)

Spec == Init /\ [][Next]_vars

-----------------------------------------------------------------------------
(* The nodes that belong to list l. *)
Members(l) == {xListEnd(l)} \cup {x \in Item : pvContainer[x] = l}

(* Each list is one intact ring: pxNext and pxPrevious are inverses on the end
   marker and the items whose pvContainer names the list, a walk along pxNext
   from the marker meets all of them, their number is uxNumberOfItems, and
   pxIndex is one of them (never an item that vListRemove took out). *)
RingIntact ==
  \A l \in List :
    /\ \A n \in Members(l) :
          /\ pxNext[n] \in Members(l) /\ pxPrevious[pxNext[n]] = n
          /\ pxPrevious[n] \in Members(l) /\ pxNext[pxPrevious[n]] = n
    /\ uxNumberOfItems[l] + 1 = Cardinality(Members(l))
    /\ LET walk == Walk(pxNext, xListEnd(l), uxNumberOfItems[l])
       IN  {walk[k] : k \in DOMAIN walk} = Members(l)
    /\ pxIndex[l] \in Members(l)

(* The ring of a list, from the node after pxIndex round to pxIndex, and its
   view: the items in the order in which the index meets them. *)
RingOf(l) ==
  LET walk == Walk(pxNext, pxNext[pxIndex[l]], uxNumberOfItems[l])
  IN  [k \in 1 .. uxNumberOfItems[l] + 1 |-> walk[k - 1]]
ViewOf(l) ==
  LET ring == RingOf(l)
      marker == CHOOSE k \in 1 .. uxNumberOfItems[l] + 1 : ring[k] = xListEnd(l)
  IN  RemoveAt(ring, marker)

(* The pointers implement the sequences tasks.c counts on: every function of
   list.c does to the view what ListSpec says, and the owners the macros return
   are the first of the view, for the head macro too.  vListInsert inserts in
   ascending order there, behind the items of the same value, as list.c:150 does
   and tasks.c needs.  list.h:255-256 documents "descending item value order"
   (so 60-61 and 136-137); the code does not follow it, and list.h:201-202 says
   "ascending" too. *)
Views == INSTANCE ListSpec WITH view <- [l \in List |-> ViewOf(l)]
ImplementsListSpec == Views!Spec

=============================================================================
