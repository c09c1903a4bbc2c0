-------------------------------- MODULE List --------------------------------
(***************************************************************************)
(* The doubly linked list of os/ds/list.c.  A memory m gives every entry   *)
(* its two pointers, [prev, next]; a list names its two sentinels, header  *)
(* and tailer.  The other modules use lists as sequences.                  *)
(*                                                                         *)
(* Insertion and removal run with interrupts off and are one step each.    *)
(***************************************************************************)
EXTENDS Naturals, Sequences, FiniteSets

CONSTANT NULL

list_init(m, pl) ==
  [m EXCEPT ![pl.header] = [prev |-> NULL, next |-> pl.tailer],
            ![pl.tailer] = [prev |-> pl.header, next |-> NULL]]

\* The four assignments in their order: elem may be before->prev already.
list_insert_before(m, before, elem) ==
  LET m1 == [m EXCEPT ![m[before].prev].next = elem]
      m2 == [m1 EXCEPT ![elem].prev = m1[before].prev]
      m3 == [m2 EXCEPT ![elem].next = before]
  IN [m3 EXCEPT ![before].prev = elem]

list_push(m, pl, elem) == list_insert_before(m, m[pl.header].next, elem)

list_append(m, pl, elem) == list_insert_before(m, pl.tailer, elem)

\* Mutant: only the forward pointer goes round the element.
list_remove_forward(m, elem) == [m EXCEPT ![m[elem].prev].next = m[elem].next]

list_remove(m, elem) ==
  LET m1 == [m EXCEPT ![m[elem].prev].next = m[elem].next]
  IN [m1 EXCEPT ![m1[elem].next].prev = m1[elem].prev]

\* list_pop() returns the first element and removes it.
list_first(m, pl) == m[pl.header].next

list_pop(m, pl) == list_remove(m, list_first(m, pl))

list_empty(m, pl) == m[pl.header].next = pl.tailer

(***************************************************************************)
(* The entries that list_traversal(), list_len() and list_find() visit, in *)
(* their order; NULL if they do not reach the tailer within all entries.   *)
(***************************************************************************)
visited(m, pl) ==
  LET N == Cardinality(DOMAIN m)
      at[i \in 0..N] ==
        IF i = 0 THEN m[pl.header].next
        ELSE LET e == at[i - 1]
             IN IF e \in {pl.tailer, NULL} THEN e ELSE m[e].next
      ends == {i \in 0..N : at[i] = pl.tailer}
  IN IF ends = {} THEN NULL
     ELSE [i \in 1..(CHOOSE k \in ends : \A j \in ends : k <= j) |-> at[i - 1]]

list_len(m, pl) == Len(visited(m, pl))

list_find(m, pl, target) ==
  LET q == visited(m, pl) IN q # NULL /\ \E i \in 1..Len(q) : q[i] = target
=============================================================================
