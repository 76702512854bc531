----------------------------- MODULE ListWalk ------------------------------
(***************************************************************************)
(* Range-for loops over one concurrent_list while entries are added,       *)
(* removed and cleared: by the loops' own bodies, by loops nested in them  *)
(* and by other threads. The schedulers and the event handler rely on what *)
(* such a loop visits.                                                     *)
(***************************************************************************)
EXTENDS ConcurrentList

CONSTANTS
  Walkers,      \* the loops in progress
  MaxElements   \* bound: elements ever allocated

ASSUME MaxElementsAssumption == MaxElements \in Nat

VARIABLES
  list,
  it,           \* the iterator of each loop
  began,        \* history: what was linked when the loop began
  visited       \* history: the entries its body has been run with

vars == <<list, it, began, visited>>

Init ==
  /\ list = EmptyList
  /\ it = [w \in Walkers |-> End]
  /\ began = [w \in Walkers |-> {}]
  /\ visited = [w \in Walkers |-> {}]

Add ==
  /\ list.size < MaxElements
  /\ list' = Added(list)
  /\ UNCHANGED <<it, began, visited>>

Remove(e) ==
  /\ list' = Removed(list, e)
  /\ UNCHANGED <<it, began, visited>>

Clear ==
  /\ list' = Cleared(list)
  /\ UNCHANGED <<it, began, visited>>

\* The loop moves to entry e and runs its body.
Visit(w, next) ==
  /\ it' = [it EXCEPT ![w] = next]
  /\ visited' = [visited EXCEPT ![w] =
       (IF it[w] = End THEN {} ELSE @) \cup ({next.entry} \ {0})]
  /\ UNCHANGED list

Start(w) ==
  /\ it[w] = End
  /\ Visit(w, Begin(list))
  /\ began' = [began EXCEPT ![w] = list.linked]

Step(w) ==
  /\ it[w] # End
  /\ Visit(w, Advanced(list, it[w]))
  /\ UNCHANGED began

\* The loop is left early: by a break or return, by an exception or a longjmp.
Leave(w) ==
  /\ it[w] # End
  /\ it' = [it EXCEPT ![w] = End]
  /\ began' = [began EXCEPT ![w] = {}] /\ visited' = [visited EXCEPT ![w] = {}]
  /\ UNCHANGED list

Next ==
  \/ Add \/ Clear
  \/ \E e \in 1..list.size : Remove(e)
  \/ \E w \in Walkers : Start(w) \/ Step(w) \/ Leave(w)

Spec == Init /\ [][Next]_vars
FairSpec == Spec /\ \A w \in Walkers : WF_vars(Step(w))

-----------------------------------------------------------------------------
(* Properties.                                                             *)

Iterator == [entry : Nat, next : Nat]

\* Every variable keeps its type.
TypeOK ==
  /\ WellFormed(list)
  /\ it \in [Walkers -> Iterator]
  /\ began \in [Walkers -> SUBSET Nat] /\ visited \in [Walkers -> SUBSET Nat]

\* The elements linked, youngest first, are the list: what remove leaves
\* behind is still one chain from the head through all of them.
Older(n) == {k \in list.linked : k < n}
OneChain ==
  /\ list.head \in list.linked \/ (list.head = 0 /\ list.linked = {})
  /\ \A n \in list.linked :
       list.next[n] \in Older(n) \/ (list.next[n] = 0 /\ Older(n) = {})

\* A loop only visits what was in the list when it began: nothing that was
\* added since, nothing that had been removed before.
VisitsOnlyBegun == \A w \in Walkers : visited[w] \subseteq began[w]

\* A loop that has run to its end visited everything that stayed in the list throughout:
\* removing other entries, even the current one, never makes it skip one.
VisitsSurvivors ==
  \A w \in Walkers : it[w] = End => began[w] \cap list.linked \subseteq visited[w]

\* What a loop visits is right: both of the above.
VisitsRight == VisitsOnlyBegun /\ VisitsSurvivors

\* No loop visits an entry twice, whatever is added or removed meanwhile.
VisitsOnce ==
  [][\A w \in Walkers :
       it[w] # End /\ it'[w] # it[w] => it'[w].entry \notin visited[w]]_vars

\* Every loop ends, although entries may be added for ever.
LoopsEnd == \A w \in Walkers : it[w] # End ~> it[w] = End
=============================================================================
