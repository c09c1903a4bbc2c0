----------------------------- MODULE ListClients -----------------------------
(***************************************************************************)
(* The use the kernel makes of os/ds/list.c: elements move between two     *)
(* lists, as thread tags move between the ready list and a list of         *)
(* waiters.  The other modules write such lists as sequences.              *)
(***************************************************************************)
EXTENDS List, SequencesExt

CONSTANTS
  h1, t1, h2, t2,        \* the sentinels of the two lists
  Elem                   \* their elements

ASSUME ElemAssumption ==
  /\ IsFiniteSet(Elem) /\ {h1, t1, h2, t2} \cap Elem = {}
  /\ Cardinality({h1, t1, h2, t2}) = 4
  /\ NULL \notin Elem \cup {h1, t1, h2, t2} /\ NULL \notin Seq(Elem)

VARIABLES
  mem,        \* the entries' pointers
  seqs        \* history: what the two lists should hold

listVars == <<mem, seqs>>

L == 1..2

plist == <<[header |-> h1, tailer |-> t1], [header |-> h2, tailer |-> t2]>>

\* Thread_init() clears the entries of a new thread.
clear == [e \in Elem \cup {h1, t1, h2, t2} |-> [prev |-> NULL, next |-> NULL]]

ListInit ==
  /\ mem = list_init(list_init(clear, plist[1]), plist[2])
  /\ seqs = [i \in L |-> <<>>]

\* What the callers assert before they insert, or know before they pop.
Unlinked(e) == \A i \in L : ~list_find(mem, plist[i], e)

append(i, e) ==
  /\ Unlinked(e)
  /\ mem' = list_append(mem, plist[i], e)
  /\ seqs' = [seqs EXCEPT ![i] = Append(@, e)]

push(i, e) ==
  /\ Unlinked(e)
  /\ mem' = list_push(mem, plist[i], e)
  /\ seqs' = [seqs EXCEPT ![i] = <<e>> \o @]

pop(i) ==
  /\ ~list_empty(mem, plist[i])
  /\ mem' = list_pop(mem, plist[i])
  /\ seqs' = [seqs EXCEPT ![i] = Tail(@)]

remove(i, e) ==
  /\ list_find(mem, plist[i], e)
  /\ mem' = list_remove(mem, e)
  /\ seqs' = [seqs EXCEPT ![i] = RemoveFirst(@, e)]

ListNext ==
  \E i \in L : pop(i) \/ \E e \in Elem : append(i, e) \/ push(i, e) \/ remove(i, e)

ListSpec == ListInit /\ [][ListNext]_listVars

-----------------------------------------------------------------------------
\* The entries of a list from its tailer backwards.
Backwards(i) ==
  LET N == Cardinality(DOMAIN mem)
      at[k \in 0..N] ==
        IF k = 0 THEN plist[i].tailer
        ELSE LET e == at[k - 1] IN IF e = NULL THEN NULL ELSE mem[e].prev
  IN [k \in 1..Len(seqs[i]) |-> at[k]]

(***************************************************************************)
(* The pointers implement two sequences, whatever was pushed, appended,    *)
(* popped or removed from the middle before: the traversal forwards and    *)
(* the prev pointers backwards give the same elements, ending at the       *)
(* sentinels, and list_find(), list_len() and list_empty() agree with them.*)
(***************************************************************************)
ListsAreSequences ==
  \A i \in L :
    LET n == Len(seqs[i])
    IN /\ visited(mem, plist[i]) = seqs[i]
       /\ Backwards(i) = [k \in 1..n |-> seqs[i][n + 1 - k]]
       /\ list_empty(mem, plist[i]) <=> seqs[i] = <<>>
       /\ \A e \in Elem : list_find(mem, plist[i], e) <=> \E k \in 1..n : seqs[i][k] = e
=============================================================================
