-------------------------- MODULE ConcurrentList ---------------------------
(***************************************************************************)
(* utils::concurrent_list, the singly linked list behind the two           *)
(* schedulers and the event handler. Every operation runs under one        *)
(* recursive mutex and is a single step; what makes the list delicate is   *)
(* that an iterator is a COPY of an element, with a next_ of its own, and  *)
(* that elements come and go between the steps of an iteration.            *)
(*                                                                         *)
(* Elements are numbered as they are allocated, 0 is the null pointer. An  *)
(* element and its entry have the same number. A removed element keeps its *)
(* next_, and lives as long as an iterator leads to it.                    *)
(***************************************************************************)
EXTENDS Integers

\* A list: its head, the next_ of every element ever allocated, how many these
\* are, and the elements linked from the head.
EmptyList == [head |-> 0, size |-> 0, next |-> [n \in {} |-> 0], linked |-> {}]

\* Mutant of Added: the new element is the only one.
AddedAlone(list) ==
  LET new == list.size + 1
  IN  [head |-> new, size |-> new, linked |-> list.linked \cup {new},
       next |-> [n \in 1..new |-> IF n = new THEN 0 ELSE list.next[n]]]

\* add allocates an element in front of the head.
Added(list) ==
  LET new == list.size + 1
  IN  [head |-> new, size |-> new, linked |-> list.linked \cup {new},
       next |-> [n \in 1..new |-> IF n = new THEN list.head ELSE list.next[n]]]

\* Mutant of Removed: nothing is removed.
RemovedNever(list, e) == list

\* remove walks the linked elements for the one whose entry is e and takes it
\* out; an e that is not linked leaves the list as it is.
Removed(list, e) ==
  IF e \notin list.linked THEN list ELSE
    [list EXCEPT
       !.linked = @ \ {e},
       !.head = IF @ = e THEN list.next[e] ELSE @,
       !.next = [n \in 1..list.size |->
                   IF n \in list.linked /\ list.next[n] = e THEN list.next[e] ELSE list.next[n]]]

\* clear drops the head and with it every linked element.
Cleared(list) == [list EXCEPT !.head = 0, !.linked = {}]

\* An iterator: the entry it is at and its own copy of that element's next_.
End == [entry |-> 0, next |-> 0]
At(list, n) == IF n = 0 THEN End ELSE [entry |-> n, next |-> list.next[n]]
Begin(list) == At(list, list.head)
\* Mutants of Advanced: from the head again; every second element; or waiting for
\* a removed entry to come back.
AdvancedFromHead(list, it) == Begin(list)
AdvancedByTwo(list, it) == IF it.next = 0 THEN End ELSE At(list, list.next[it.next])
AdvancedToLinked(list, it) == IF it.next \in list.linked \cup {0} THEN At(list, it.next) ELSE it
Advanced(list, it) == At(list, it.next)

\* A list as the operations leave it: from the head and from any element one
\* gets to the youngest older element still linked, passing removed ones only.
Pointers(list) == [1..list.size -> 0..list.size]
WellFormed(list) ==
  /\ list.size \in Nat /\ list.next \in Pointers(list)
  /\ list.linked \subseteq 1..list.size
  /\ list.head \in list.linked \cup {0}
  /\ \A n \in list.linked : n <= list.head
  /\ \A n \in 1..list.size :
       /\ list.next[n] < n
       /\ \A k \in list.linked : k < n => k <= list.next[n]
  /\ \A n \in list.linked : list.next[n] \in list.linked \cup {0}
=============================================================================
