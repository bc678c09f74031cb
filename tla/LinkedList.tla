----------------------------- MODULE LinkedList -----------------------------
(***************************************************************************)
(* The intrusive doubly-linked list of list.h (src/src-disl-agent), which  *)
(* holds the free and busy connections of the pool.  A head and an item    *)
(* are the same struct list; an empty head or an unlinked item points to   *)
(* itself.  The state is the prev and next pointer of every node; each    *)
(* operation the agent calls is a function of that state, as the inline  *)
(* functions are of the pointers.  ConnectionPool applies them.          *)
(***************************************************************************)
EXTENDS Integers, Sequences, FiniteSets, SequencesExt

CONSTANTS Heads,   \* list heads (cp->free_connections, cp->busy_connections)
          Items    \* embedded list items (connection->cp_link)

ASSUME Heads \cap Items = {}

Nodes == Heads \cup Items

VARIABLES next, prev

\* The pointers of all nodes as one value, the argument of the operations.
Links == [next |-> next, prev |-> prev]

\* __list_init: the node points to itself.
__list_init(L, n) ==
    [next |-> [L.next EXCEPT ![n] = n], prev |-> [L.prev EXCEPT ![n] = n]]

\* A variant of __list_insert_between that does not link the successor
\* back to the new item.
__list_insert_between_no_back(L, item, pred, succ) ==
    LET n1 == [L.next EXCEPT ![item] = succ]
        p1 == [L.prev EXCEPT ![item] = pred]
    IN  [next |-> [n1 EXCEPT ![pred] = item], prev |-> p1]

\* __list_insert_between: item->next, item->prev, succ->prev, pred->next,
\* in this order (pred and succ are the same node in an empty list).
__list_insert_between(L, item, pred, succ) ==
    LET n1 == [L.next EXCEPT ![item] = succ]
        p1 == [L.prev EXCEPT ![item] = pred]
        p2 == [p1 EXCEPT ![succ] = item]
    IN  [next |-> [n1 EXCEPT ![pred] = item], prev |-> p2]

\* __list_remove_between: link pred and succ to each other.
__list_remove_between(L, pred, succ) ==
    [next |-> [L.next EXCEPT ![pred] = succ], prev |-> [L.prev EXCEPT ![succ] = pred]]

list_insert_after(L, item, pred) ==
    __list_insert_between(L, item, pred, L.next[pred])

\* list_remove: unlink, then reinitialise the item.
list_remove(L, item) ==
    __list_init(__list_remove_between(L, L.prev[item], L.next[item]), item)

\* A variant of list_remove_after that removes the predecessor.
list_remove_after_prev(L, item) == list_remove(L, L.prev[item])

list_remove_after(L, item) == list_remove(L, L.next[item])

list_is_empty(L, head) == L.next[head] = head

\* list_destroy: while the list is not empty, unlink the head's successor
\* (and hand it to the destroy callback, which the pool uses to close it).
\* Cut, like the walk below, after as many rounds as there are nodes.
RECURSIVE DestroyFrom(_, _, _)
DestroyFrom(L, head, fuel) ==
    IF list_is_empty(L, head) \/ fuel = 0 THEN L
    ELSE DestroyFrom(list_remove_after(L, head), head, fuel - 1)

list_destroy(L, head) == DestroyFrom(L, head, Cardinality(Nodes))

\* list_for_each: the nodes from head->next on, until back at the head; the
\* walk is cut after as many steps as there are nodes, so that it ends on a
\* corrupted list too.
RECURSIVE WalkFrom(_, _, _, _)
WalkFrom(L, head, cur, fuel) ==
    IF cur = head \/ fuel = 0 THEN <<>>
    ELSE <<cur>> \o WalkFrom(L, head, L.next[cur], fuel - 1)

list_for_each(L, head) == WalkFrom(L, head, L.next[head], Cardinality(Nodes))

\* The items on some list.
Linked == UNION {Range(list_for_each(Links, h)) : h \in Heads}

\* The pointers are a well-formed set of rings: prev and next are inverse,
\* every head's ring returns to the head, holds only items and none twice,
\* the heads' rings are disjoint, and an item on no ring points to itself.
WellLinked ==
    /\ \A n \in Nodes : prev[next[n]] = n /\ next[prev[n]] = n
    /\ \A h \in Heads :
          LET w == list_for_each(Links, h) IN
          /\ Range(w) \subseteq Items /\ IsInjective(w)
          /\ (IF w = <<>> THEN h ELSE next[w[Len(w)]]) = h
    /\ \A h1, h2 \in Heads : h1 # h2 =>
          Range(list_for_each(Links, h1)) \cap Range(list_for_each(Links, h2)) = {}
    /\ \A x \in Items \ Linked : next[x] = x /\ prev[x] = x
=============================================================================
