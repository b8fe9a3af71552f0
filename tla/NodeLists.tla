------------------------------ MODULE NodeLists ------------------------------
(***************************************************************************)
(* The linked lists of hashlist.c, as memory: a node is an address, a list *)
(* is the pointer to its first node, and every operation follows and sets  *)
(* next pointers.  A heap is the record of what the operations touch:      *)
(*   head   list name -> first node or NULL                                *)
(*   next   node -> node or NULL, the field of each node                   *)
(*   live   the nodes that are allocated                                   *)
(* free leaves the next field as it was: the C library writes its own      *)
(* links over the first 16 bytes of the node only, the sockaddr in front.  *)
(***************************************************************************)
EXTENDS Integers, FiniteSets

CONSTANTS
  Nodes,   \* addresses a node may have
  Lists,   \* the names of the lists
  NULL     \* the null pointer

ASSUME NodeListsAssumption ==
  /\ IsFiniteSet(Nodes)
  /\ NULL \notin Nodes

Pointers == Nodes \cup {NULL}

Heaps == [head : [Lists -> Pointers], next : [Nodes -> Pointers], live : SUBSET Nodes]

EmptyHeap ==
  [head |-> [l \in Lists |-> NULL], next |-> [n \in Nodes |-> NULL], live |-> {}]

-----------------------------------------------------------------------------
(* Following next pointers                                                 *)

\* Where k steps from the node p lead.
Follow(h, p) ==
  LET at[k \in 0..Cardinality(Nodes)] ==
        IF k = 0 THEN p
        ELSE IF at[k - 1] = NULL THEN NULL ELSE h.next[at[k - 1]]
  IN  at

\* The nodes a loop that starts at p visits.
From(h, p) == {Follow(h, p)[k] : k \in 0..Cardinality(Nodes)} \ {NULL}

On(h, l) == From(h, h.head[l])

\* The list ends, and no node is on it twice.
Terminates(h, l) == Follow(h, h.head[l])[Cardinality(Nodes)] = NULL

-----------------------------------------------------------------------------
(* The operations                                                          *)

\* create_node: malloc and bzero.
Create(h, n) == [h EXCEPT !.live = @ \cup {n}, !.next[n] = NULL]

\* append_node puts the node in front.
Append(h, l, n) == [h EXCEPT !.head[l] = n, !.next[n] = h.head[l]]

\* find_prev_node, for a node that is not the first of the list.
Prev(h, l, n) == CHOOSE m \in On(h, l) : h.next[m] = n

\* Taking n out of l dereferences NULL when it is not on a list that is not empty:
\* find_prev_node has found nothing.
Crashes(h, l, n) == h.head[l] # NULL /\ n \notin On(h, l)

\* The part that delete_node, delete_node_by_hash and move_node share.
Unlink_ClearsList(h, l, n) ==   \* mutant: the list is empty without its first node
  IF h.head[l] = n THEN [h EXCEPT !.head[l] = NULL]
  ELSE [h EXCEPT !.next[Prev(h, l, n)] = h.next[n]]
Unlink(h, l, n) ==
  IF h.head[l] = n THEN [h EXCEPT !.head[l] = h.next[n]]
  ELSE [h EXCEPT !.next[Prev(h, l, n)] = h.next[n]]

\* delete_node: an empty list is left alone.
Delete_Wiped(h, l, n) ==   \* mutant: the freed node's next pointer is cleared
  IF h.head[l] = NULL THEN h
  ELSE [Unlink(h, l, n) EXCEPT !.live = @ \ {n}, !.next[n] = NULL]
Delete(h, l, n) ==
  IF h.head[l] = NULL THEN h
  ELSE [Unlink(h, l, n) EXCEPT !.live = @ \ {n}]

\* move_node: an empty list is left alone.
Move_KeepsFirst(h, to, from, n) ==   \* mutant: a first node stays first of its old list
  IF h.head[from] = NULL THEN h
  ELSE IF h.head[from] = n THEN Append(h, to, n)
  ELSE Append(Unlink(h, from, n), to, n)
Move(h, to, from, n) ==
  IF h.head[from] = NULL THEN h
  ELSE Append(Unlink(h, from, n), to, n)

\* clear_hashchunk_list frees the nodes one by one.
Clear(h, l) == [h EXCEPT !.head[l] = NULL, !.live = @ \ On(h, l)]

-----------------------------------------------------------------------------
(* What makes a heap sound: the lists end, they share no node, and the     *)
(* allocated nodes are exactly the ones on a list.                         *)
Sound(h) ==
  /\ \A l \in Lists : Terminates(h, l)
  /\ \A l, m \in Lists : l # m => On(h, l) \cap On(h, m) = {}
  /\ h.live = UNION {On(h, l) : l \in Lists}
=============================================================================
