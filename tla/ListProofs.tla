----------------------------- MODULE ListProofs ------------------------------
(***************************************************************************)
(* The concurrent_list and those who walk over it. What its operations     *)
(* preserve is proved for every list and every iterator: a list stays      *)
(* well-formed, and an iterator keeps its way to all linked elements older *)
(* than the entry it is at. From this follow what loops visit, and what    *)
(* the two schedulers call, for any number of loops, elements, tasks and   *)
(* steps.                                                                  *)
(*                                                                         *)
(* The same of the listeners of a script, for any events, entities and     *)
(* depth. A walk's way never leads out of what was linked when it began,   *)
(* however much inner dispatches change the list. The invariant ties that  *)
(* way to the ids a dispatch has called, had to call, and must not find.   *)
(***************************************************************************)
EXTENDS ListWalkMC, EventHandlerMC, SequenceTheorems, TLAPS

-----------------------------------------------------------------------------
(* The list.                                                               *)

\* What a well-formed list is, with the ranges of its pointers.
LEMMA ListFacts ==
  ASSUME NEW l, WellFormed(l)
  PROVE  /\ l.size \in Nat /\ l.linked \subseteq 1..l.size
         /\ l.head \in l.linked \cup {0}
         /\ \A n \in l.linked : n <= l.head
         /\ \A n \in 1..l.size :
              /\ l.next[n] \in 0..l.size /\ l.next[n] < n
              /\ \A k \in l.linked : k < n => k <= l.next[n]
         /\ \A n \in l.linked : l.next[n] \in l.linked \cup {0}
  BY DEF WellFormed, Pointers

\* The empty list is well-formed.
LEMMA EmptyWellFormed == WellFormed(EmptyList)
  BY DEF WellFormed, EmptyList, Pointers

\* add keeps a list well-formed (concurrent_list::add).
LEMMA AddedWellFormed ==
  ASSUME NEW old, WellFormed(old)
  PROVE  WellFormed(Added(old))
<1> DEFINE new == old.size + 1
           l == Added(old)
<1>1. /\ old.size \in Nat /\ old.linked \subseteq 1..old.size
      /\ old.head \in old.linked \cup {0}
      /\ \A n \in old.linked : n <= old.head
      /\ \A n \in 1..old.size :
           /\ old.next[n] \in 0..old.size
           /\ old.next[n] < n
           /\ \A k \in old.linked : k < n => k <= old.next[n]
      /\ \A n \in old.linked : old.next[n] \in old.linked \cup {0}
  BY DEF WellFormed, Pointers
<1>2. /\ l.head = new /\ l.size = new /\ l.linked = old.linked \cup {new}
      /\ l.next = [n \in 1..new |-> IF n = new THEN old.head ELSE old.next[n]]
  BY DEF Added
<1>3. /\ l.next[new] = old.head
      /\ \A n \in 1..old.size : l.next[n] = old.next[n]
      /\ l.next \in Pointers(l)
  <2>1. \A n \in 1..new : (IF n = new THEN old.head ELSE old.next[n]) \in 0..new
    BY <1>1
  <2> QED
    BY <1>1, <1>2, <2>1 DEF Pointers
<1>4. \A n \in 1..l.size :
        /\ l.next[n] < n
        /\ \A k \in l.linked : k < n => k <= l.next[n]
  BY <1>1, <1>2, <1>3
<1>5. \A n \in l.linked : l.next[n] \in l.linked \cup {0}
  BY <1>1, <1>2, <1>3
<1> QED
  BY <1>1, <1>2, <1>3, <1>4, <1>5 DEF WellFormed

\* What remove leaves of each next_ pointer (concurrent_list::remove).
LEMMA RemovedPointers ==
  ASSUME NEW old, WellFormed(old), NEW e \in old.linked
  PROVE  LET l == Removed(old, e)
         IN  /\ l.linked = old.linked \ {e} /\ l.size = old.size
             /\ l.head = IF old.head = e THEN old.next[e] ELSE old.head
             /\ l.next = [n \in 1..old.size |->
                  IF n \in old.linked /\ old.next[n] = e THEN old.next[e] ELSE old.next[n]]
  BY DEF Removed, WellFormed

\* remove keeps a list well-formed, and with it one chain from the head.
LEMMA RemovedWellFormed ==
  ASSUME NEW old, WellFormed(old), NEW e
  PROVE  WellFormed(Removed(old, e))
<1>1. CASE e \notin old.linked
  BY <1>1 DEF Removed
<1>2. CASE e \in old.linked
  <2> DEFINE l == Removed(old, e)
  <2>1. /\ old.size \in Nat /\ old.linked \subseteq 1..old.size
        /\ old.head \in old.linked \cup {0}
        /\ \A n \in old.linked : n <= old.head
        /\ \A n \in 1..old.size :
             /\ old.next[n] \in 0..old.size
             /\ old.next[n] < n
             /\ \A k \in old.linked : k < n => k <= old.next[n]
        /\ \A n \in old.linked : old.next[n] \in old.linked \cup {0}
    BY DEF WellFormed, Pointers
  <2>2. /\ l.linked = old.linked \ {e} /\ l.size = old.size
        /\ l.head = IF old.head = e THEN old.next[e] ELSE old.head
        /\ l.next = [n \in 1..old.size |->
             IF n \in old.linked /\ old.next[n] = e THEN old.next[e] ELSE old.next[n]]
    BY <1>2, RemovedPointers
  <2> HIDE DEF l
  <2>3. /\ e \in 1..old.size /\ old.next[e] < e
        /\ old.next[e] \in l.linked \cup {0}
    BY <1>2, <2>1, <2>2
  <2>4. l.head \in l.linked \cup {0} /\ \A n \in l.linked : n <= l.head
    <3>1. CASE old.head = e
      BY <2>1, <2>2, <2>3, <3>1
    <3>2. CASE old.head # e
      BY <2>1, <2>2, <3>2
    <3> QED
      BY <3>1, <3>2
  <2>5. \A n \in 1..old.size :
          /\ l.next[n] \in 0..old.size
          /\ l.next[n] < n
          /\ \A k \in l.linked : k < n => k <= l.next[n]
    <3> TAKE n \in 1..old.size
    <3>1. CASE n \in old.linked /\ old.next[n] = e
      <4>1. l.next[n] = old.next[e] /\ e < n
        BY <2>1, <2>2, <3>1
      <4> QED
        BY <2>1, <2>2, <2>3, <4>1, <3>1
    <3>2. CASE ~(n \in old.linked /\ old.next[n] = e)
      <4>1. l.next[n] = old.next[n]
        BY <2>2, <3>2
      <4> QED
        BY <2>1, <2>2, <4>1
    <3> QED
      BY <3>1, <3>2
  <2>6. \A n \in l.linked : l.next[n] \in l.linked \cup {0}
    BY <2>1, <2>2, <2>3
  <2>7. l.next \in Pointers(l)
    <3>1. l.next = [n \in 1..old.size |-> l.next[n]]
      BY <2>2
    <3> QED
      BY <2>2, <2>5, <3>1 DEF Pointers
  <2> QED
    BY <2>1, <2>2, <2>4, <2>5, <2>6, <2>7 DEF WellFormed, l
<1> QED
  BY <1>1, <1>2

\* clear keeps a list well-formed (concurrent_list::clear).
LEMMA ClearedWellFormed ==
  ASSUME NEW old, WellFormed(old)
  PROVE  WellFormed(Cleared(old))
  BY DEF WellFormed, Cleared, Pointers

\* What add does to the elements there are (concurrent_list::add).
LEMMA AddedFacts ==
  ASSUME NEW old, WellFormed(old)
  PROVE  LET l == Added(old)
         IN  /\ l.size = old.size + 1 /\ l.linked = old.linked \cup {l.size}
             /\ l.head = l.size /\ l.next[l.size] = old.head
             /\ \A n \in 1..old.size : l.next[n] = old.next[n]
  BY ListFacts DEF Added

\* What remove does to them: a pointer stays, or leads to what comes behind the
\* element that it led to, which was linked (concurrent_list::remove).
LEMMA RemovedFacts ==
  ASSUME NEW old, WellFormed(old), NEW e
  PROVE  LET l == Removed(old, e)
         IN  /\ l.size = old.size /\ l.linked = old.linked \ {e}
             /\ \A n \in 1..old.size :
                  \/ l.next[n] = old.next[n]
                  \/ old.next[n] \in old.linked /\ l.next[n] = old.next[old.next[n]]
<1>1. CASE e \notin old.linked
  BY <1>1 DEF Removed
<1>2. CASE e \in old.linked
  <2> DEFINE l == Removed(old, e)
  <2>1. /\ l.linked = old.linked \ {e} /\ l.size = old.size
        /\ l.next = [n \in 1..old.size |->
             IF n \in old.linked /\ old.next[n] = e THEN old.next[e] ELSE old.next[n]]
    BY <1>2, RemovedPointers
  <2> QED
    BY <1>2, <2>1
<1> QED
  BY <1>1, <1>2

-----------------------------------------------------------------------------
(* An iterator.                                                            *)

\* Its own copy of next_ is the way to what is left of the list.
OnTheWay(l, i) ==
  i # End =>
    /\ i.entry \in 1..l.size
    /\ i.next \in 0..l.size /\ i.next < i.entry
    /\ \A k \in l.linked : k < i.entry => k <= i.next

\* An element that is added is younger than all an iterator holds.
LEMMA WayAdded ==
  ASSUME NEW l, NEW i, WellFormed(l), OnTheWay(l, i)
  PROVE  OnTheWay(Added(l), i)
  BY ListFacts, AddedFacts DEF OnTheWay

LEMMA WayRemoved ==
  ASSUME NEW l, NEW i, NEW e, WellFormed(l), OnTheWay(l, i)
  PROVE  OnTheWay(Removed(l, e), i)
  BY RemovedFacts DEF OnTheWay

LEMMA WayCleared ==
  ASSUME NEW l, NEW i, OnTheWay(l, i)
  PROVE  OnTheWay(Cleared(l), i)
<1>1. Cleared(l).size = l.size /\ Cleared(l).linked = {}
  BY DEF Cleared
<1> QED
  BY <1>1 DEF OnTheWay

\* An iterator at an element is on its way from there.
LEMMA WayAt ==
  ASSUME NEW l, WellFormed(l), NEW n \in 0..l.size
  PROVE  /\ OnTheWay(l, At(l, n))
         /\ n = 0 => At(l, n) = End
         /\ n # 0 => At(l, n) # End
         /\ At(l, n).entry = n
         /\ n # 0 => At(l, n).next = l.next[n]
  BY ListFacts DEF OnTheWay, At, End

\* A loop begins at the head, before all that is linked.
LEMMA WayBegun ==
  ASSUME NEW l, WellFormed(l)
  PROVE  /\ OnTheWay(l, Begin(l))
         /\ Begin(l) = End => l.linked = {}
         /\ Begin(l) # End =>
              /\ Begin(l).entry = l.head /\ l.head \in l.linked
              /\ Begin(l).next = l.next[l.head]
              /\ \A k \in l.linked : k <= Begin(l).entry
<1>1. l.head \in 0..l.size
  BY ListFacts
<1> QED
  BY <1>1, WayAt, ListFacts DEF Begin

\* It goes on to an older element, past none that is linked.
LEMMA WayAdvanced ==
  ASSUME NEW l, NEW i, WellFormed(l), OnTheWay(l, i), i # End
  PROVE  /\ OnTheWay(l, Advanced(l, i))
         /\ Advanced(l, i) = End <=> i.next = 0
         /\ Advanced(l, i) # End =>
              /\ Advanced(l, i).entry = i.next /\ Advanced(l, i).next = l.next[i.next]
              /\ Advanced(l, i).entry < i.entry
              /\ \A k \in l.linked : k < i.entry => k <= Advanced(l, i).entry
         /\ Advanced(l, i) = End => \A k \in l.linked : k >= i.entry
<1>1. i.next \in 0..l.size /\ i.next < i.entry /\ i.entry \in 1..l.size
      /\ \A k \in l.linked : k < i.entry => k <= i.next
  BY DEF OnTheWay
<1>2. /\ OnTheWay(l, At(l, i.next))
      /\ i.next = 0 <=> At(l, i.next) = End
      /\ At(l, i.next).entry = i.next
      /\ i.next # 0 => At(l, i.next).next = l.next[i.next]
  BY <1>1, WayAt
<1> HIDE DEF OnTheWay
<1> QED
  BY <1>1, <1>2, ListFacts DEF Advanced

-----------------------------------------------------------------------------
(* A loop: its iterator, what was linked when it begun, what it seen.   *)

\* What it seen is behind it, and what it begun with is seen or ahead.
Behind(l, i, begun, seen) ==
  /\ i # End => \A v \in seen : v >= i.entry
  /\ \A k \in begun \cap l.linked : k \in seen \/ (i # End /\ k < i.entry)

\* The way never leads out of what was linked when the loop begun.
Inside(l, i, begun, seen) ==
  /\ begun \subseteq 1..l.size /\ seen \subseteq begun
  /\ \A n \in begun : l.next[n] \in begun \cup {0}
  /\ i.next \in begun \cup {0}

Loop(l, i, begun, seen) ==
  OnTheWay(l, i) /\ Behind(l, i, begun, seen) /\ Inside(l, i, begun, seen)

\* No loop, or one that was left.
LEMMA LoopNone ==
  ASSUME NEW l PROVE Loop(l, End, {}, {})
  BY DEF Loop, OnTheWay, Behind, Inside, End

\* Adding an element disturbs no loop: it is younger than all of them hold.
LEMMA LoopAdded ==
  ASSUME NEW l, NEW i, NEW begun, NEW seen, WellFormed(l), Loop(l, i, begun, seen)
  PROVE  Loop(Added(l), i, begun, seen)
<1> DEFINE new == Added(l)
<1>1. /\ new.size = l.size + 1 /\ new.linked = l.linked \cup {new.size}
      /\ \A n \in 1..l.size : new.next[n] = l.next[n]
      /\ l.size \in Nat
  BY AddedFacts, ListFacts
<1>2. OnTheWay(new, i)
  BY WayAdded DEF Loop
<1> HIDE DEF new
<1>3. Inside(new, i, begun, seen)
  BY <1>1 DEF Loop, Inside
<1>4. Behind(new, i, begun, seen)
  <2>1. begun \cap new.linked = begun \cap l.linked
    BY <1>1 DEF Loop, Inside
  <2> QED
    BY <2>1 DEF Loop, Behind
<1> QED
  BY <1>2, <1>3, <1>4 DEF Loop, new

\* Removing one turns every pointer that led to it to the next one.
LEMMA LoopRemoved ==
  ASSUME NEW l, NEW i, NEW begun, NEW seen, NEW e, WellFormed(l), Loop(l, i, begun, seen)
  PROVE  Loop(Removed(l, e), i, begun, seen)
<1> DEFINE new == Removed(l, e)
<1>1. /\ new.size = l.size /\ new.linked \subseteq l.linked /\ l.linked \subseteq 1..l.size
      /\ \A n \in 1..l.size :
           \/ new.next[n] = l.next[n]
           \/ l.next[n] \in l.linked /\ new.next[n] = l.next[l.next[n]]
  BY RemovedFacts, ListFacts
<1>2. OnTheWay(new, i)
  BY WayRemoved DEF Loop
<1> HIDE DEF new
<1>3. Inside(new, i, begun, seen)
  <2>1. ASSUME NEW n \in begun PROVE new.next[n] \in begun \cup {0}
    <3>1. n \in 1..l.size /\ l.next[n] \in begun \cup {0}
      BY DEF Loop, Inside
    <3>2. CASE l.next[n] \in l.linked /\ new.next[n] = l.next[l.next[n]]
      <4>1. l.next[n] # 0
        BY <1>1, <3>2
      <4> QED
        BY <3>1, <3>2, <4>1 DEF Loop, Inside
    <3> QED
      BY <1>1, <3>1, <3>2
  <2> QED
    BY <1>1, <2>1 DEF Loop, Inside
<1>4. Behind(new, i, begun, seen)
  BY <1>1 DEF Loop, Behind
<1> QED
  BY <1>2, <1>3, <1>4 DEF Loop, new

LEMMA LoopCleared ==
  ASSUME NEW l, NEW i, NEW begun, NEW seen, Loop(l, i, begun, seen)
  PROVE  Loop(Cleared(l), i, begun, seen)
<1>1. Cleared(l).size = l.size /\ Cleared(l).linked = {} /\ Cleared(l).next = l.next
  BY DEF Cleared
<1>2. OnTheWay(Cleared(l), i)
  BY WayCleared DEF Loop
<1> QED
  BY <1>1, <1>2 DEF Loop, Behind, Inside

\* A loop that begins stands at the head, before all that is linked.
LEMMA LoopBegun ==
  ASSUME NEW l, WellFormed(l)
  PROVE  Loop(l, Begin(l), l.linked, {Begin(l).entry} \ {0})
<1> DEFINE i == Begin(l)
<1>1. /\ OnTheWay(l, i)
      /\ i = End => l.linked = {} /\ i.entry = 0 /\ i.next = 0
      /\ i # End => /\ i.entry \in l.linked /\ i.next = l.next[i.entry]
                    /\ \A k \in l.linked : k <= i.entry
  BY WayBegun DEF End
<1>2. /\ l.linked \subseteq 1..l.size
      /\ \A n \in l.linked : l.next[n] \in l.linked \cup {0}
  BY ListFacts
<1> HIDE DEF i
<1>3. Behind(l, i, l.linked, {i.entry} \ {0})
  BY <1>1, <1>2, ListFacts DEF Behind
<1>4. Inside(l, i, l.linked, {i.entry} \ {0})
  BY <1>1, <1>2 DEF Inside
<1> QED
  BY <1>1, <1>3, <1>4 DEF Loop, i

\* It steps along its own copy of the pointer, which may lead to an entry
\* removed meanwhile, but past none that is linked, nor back to one seen.
LEMMA LoopAdvanced ==
  ASSUME NEW l, NEW i, NEW begun, NEW seen, WellFormed(l), Loop(l, i, begun, seen), i # End
  PROVE  LET j == Advanced(l, i)
         IN  Loop(l, j, begun, seen \cup ({j.entry} \ {0})) /\ j.entry \notin seen
<1> DEFINE j == Advanced(l, i)
<1>1. OnTheWay(l, i) /\ Behind(l, i, begun, seen) /\ Inside(l, i, begun, seen)
  BY DEF Loop
<1>2. /\ OnTheWay(l, j)
      /\ j = End => j.entry = 0 /\ j.next = 0 /\ \A k \in l.linked : k >= i.entry
      /\ j # End => /\ j.entry = i.next /\ j.next = l.next[i.next] /\ j.entry < i.entry
                    /\ \A k \in l.linked : k < i.entry => k <= j.entry
      /\ j = End <=> i.next = 0
  BY <1>1, WayAdvanced DEF End
<1>3. /\ i.entry \in 1..l.size /\ j.entry \in 0..l.size /\ l.size \in Nat
      /\ l.linked \subseteq 1..l.size
  BY <1>1, <1>2, ListFacts DEF OnTheWay
<1> HIDE DEF j
<1>4. Inside(l, j, begun, seen \cup ({j.entry} \ {0}))
  BY <1>1, <1>2 DEF Inside
<1>5. \A v \in seen : v >= i.entry /\ v \in 1..l.size
  BY <1>1 DEF Behind, Inside
<1>6. Behind(l, j, begun, seen \cup ({j.entry} \ {0}))
  <2>1. j # End => \A v \in seen \cup ({j.entry} \ {0}) : v >= j.entry
    BY <1>2, <1>3, <1>5
  <2>2. ASSUME NEW k \in begun \cap l.linked
        PROVE  k \in seen \cup ({j.entry} \ {0}) \/ (j # End /\ k < j.entry)
    BY <1>1, <1>2, <1>3 DEF Behind
  <2> QED
    BY <2>1, <2>2 DEF Behind
<1>7. j.entry \notin seen
  BY <1>2, <1>3, <1>5
<1> QED
  BY <1>2, <1>4, <1>6, <1>7 DEF Loop, j

-----------------------------------------------------------------------------
(* The loops of ListWalk.                                                  *)

IInv == TypeOK /\ \A w \in Walkers : Loop(list, it[w], began[w], visited[w])

LEMMA EndIsIterator == End \in Iterator
  BY DEF End, Iterator

LEMMA InitInv == Init => IInv
<1> SUFFICES ASSUME Init PROVE IInv
  OBVIOUS
<1>1. TypeOK
  BY EmptyWellFormed, EndIsIterator DEF Init, TypeOK
<1> QED
  BY <1>1, LoopNone DEF Init, IInv

\* What happens to the list leaves every loop right, as it leaves every list.
LEMMA ListInv ==
  ASSUME IInv, NEW new, list' = new, WellFormed(new), UNCHANGED <<it, began, visited>>,
         \A i, b, v : Loop(list, i, b, v) => Loop(new, i, b, v)
  PROVE  IInv'
<1>1. TypeOK'
  BY DEF IInv, TypeOK
<1>2. ASSUME NEW w \in Walkers PROVE Loop(list', it'[w], began'[w], visited'[w])
  BY DEF IInv
<1> QED
  BY <1>1, <1>2 DEF IInv

LEMMA AddInv == IInv /\ Add => IInv'
<1> SUFFICES ASSUME IInv, Add PROVE IInv'
  OBVIOUS
<1>1. WellFormed(list) /\ list' = Added(list) /\ UNCHANGED <<it, began, visited>>
  BY DEF IInv, TypeOK, Add
<1>2. WellFormed(Added(list)) /\ \A i, b, v : Loop(list, i, b, v) => Loop(Added(list), i, b, v)
  BY <1>1, AddedWellFormed, LoopAdded
<1> QED
  BY <1>1, <1>2, ListInv

LEMMA RemoveInv == ASSUME NEW e \in 1..list.size PROVE IInv /\ Remove(e) => IInv'
<1> SUFFICES ASSUME IInv, Remove(e) PROVE IInv'
  OBVIOUS
<1>1. WellFormed(list) /\ list' = Removed(list, e) /\ UNCHANGED <<it, began, visited>>
  BY DEF IInv, TypeOK, Remove
<1>2. /\ WellFormed(Removed(list, e))
      /\ \A i, b, v : Loop(list, i, b, v) => Loop(Removed(list, e), i, b, v)
  BY <1>1, RemovedWellFormed, LoopRemoved
<1> QED
  BY <1>1, <1>2, ListInv

LEMMA ClearInv == IInv /\ Clear => IInv'
<1> SUFFICES ASSUME IInv, Clear PROVE IInv'
  OBVIOUS
<1>1. WellFormed(list) /\ list' = Cleared(list) /\ UNCHANGED <<it, began, visited>>
  BY DEF IInv, TypeOK, Clear
<1>2. /\ WellFormed(Cleared(list))
      /\ \A i, b, v : Loop(list, i, b, v) => Loop(Cleared(list), i, b, v)
  BY <1>1, ClearedWellFormed, LoopCleared
<1> QED
  BY <1>1, <1>2, ListInv

\* What one loop does leaves the others right.
LEMMA LoopInv ==
  ASSUME IInv, NEW w \in Walkers, UNCHANGED list, NEW i, NEW b, NEW v,
         it' = [it EXCEPT ![w] = i], i \in Iterator,
         began' = [began EXCEPT ![w] = b], visited' = [visited EXCEPT ![w] = v],
         Loop(list, i, b, v)
  PROVE  IInv'
<1>1. b \subseteq Nat /\ v \subseteq Nat
  <2>1. list.size \in Nat
    BY DEF IInv, TypeOK, WellFormed
  <2> QED
    BY <2>1 DEF Loop, Inside
<1>2. TypeOK'
  BY <1>1 DEF IInv, TypeOK
<1>3. ASSUME NEW u \in Walkers PROVE Loop(list', it'[u], began'[u], visited'[u])
  <2>1. CASE u = w
    BY <2>1 DEF IInv, TypeOK
  <2>2. CASE u # w
    <3>1. it'[u] = it[u] /\ began'[u] = began[u] /\ visited'[u] = visited[u]
      BY <2>2 DEF IInv, TypeOK
    <3> QED
      BY <3>1 DEF IInv
  <2> QED
    BY <2>1, <2>2
<1> QED
  BY <1>2, <1>3 DEF IInv

\* An iterator of a loop is one of the list.
LEMMA LoopIterator ==
  ASSUME NEW l, WellFormed(l), NEW n \in 0..l.size
  PROVE  At(l, n) \in Iterator
<1>1. l.size \in Nat /\ \A k \in 1..l.size : l.next[k] \in 0..l.size
  BY ListFacts
<1> QED
  BY <1>1, EndIsIterator DEF At, Iterator

LEMMA StartInv == ASSUME NEW w \in Walkers PROVE IInv /\ Start(w) => IInv'
<1> SUFFICES ASSUME IInv, Start(w) PROVE IInv'
  OBVIOUS
<1> DEFINE i == Begin(list)
<1>1. /\ UNCHANGED list /\ it' = [it EXCEPT ![w] = i]
      /\ began' = [began EXCEPT ![w] = list.linked]
      /\ visited' = [visited EXCEPT ![w] = {i.entry} \ {0}]
  BY DEF Start, Visit
<1>2. WellFormed(list) /\ list.head \in 0..list.size
  BY ListFacts DEF IInv, TypeOK
<1>3. Loop(list, i, list.linked, {i.entry} \ {0}) /\ i \in Iterator
  BY <1>2, LoopBegun, LoopIterator DEF Begin
<1> QED
  BY <1>1, <1>3, LoopInv

LEMMA StepInv == ASSUME NEW w \in Walkers PROVE IInv /\ Step(w) => IInv'
<1> SUFFICES ASSUME IInv, Step(w) PROVE IInv'
  OBVIOUS
<1> DEFINE i == Advanced(list, it[w])
           v == visited[w] \cup ({i.entry} \ {0})
<1>1. /\ UNCHANGED <<list, began>> /\ it' = [it EXCEPT ![w] = i] /\ it[w] # End
      /\ visited' = [visited EXCEPT ![w] = v]
  BY DEF Step, Visit
<1>2. WellFormed(list) /\ Loop(list, it[w], began[w], visited[w])
  BY DEF IInv, TypeOK
<1>3. Loop(list, i, began[w], v)
  BY <1>1, <1>2, LoopAdvanced
<1>4. i \in Iterator
  BY <1>1, <1>2, LoopIterator DEF Loop, OnTheWay, Advanced
<1>5. began' = [began EXCEPT ![w] = began[w]]
  BY <1>1 DEF IInv, TypeOK
<1> QED
  BY <1>1, <1>3, <1>4, <1>5, LoopInv

LEMMA LeaveInv == ASSUME NEW w \in Walkers PROVE IInv /\ Leave(w) => IInv'
  BY LoopNone, LoopInv, EndIsIterator DEF Leave

LEMMA NextInv == IInv /\ [Next]_vars => IInv'
<1> SUFFICES ASSUME IInv, [Next]_vars PROVE IInv'
  OBVIOUS
<1>1. CASE UNCHANGED vars
  BY <1>1 DEF vars, IInv, TypeOK
<1> QED
  BY <1>1, AddInv, ClearInv, RemoveInv, StartInv, StepInv, LeaveInv DEF Next

LEMMA Invariance == Spec => []IInv
  BY InitInv, NextInv, PTL DEF Spec

\* The chain of linked elements, as a fact of well-formed lists.
LEMMA Chained == WellFormed(list) => OneChain
<1> SUFFICES ASSUME WellFormed(list) PROVE OneChain
  OBVIOUS
<1>1. /\ list.size \in Nat /\ list.linked \subseteq 1..list.size
      /\ list.head \in list.linked \cup {0}
      /\ \A n \in list.linked : n <= list.head
      /\ \A n \in list.linked :
           /\ list.next[n] < n
           /\ list.next[n] \in list.linked \cup {0}
           /\ \A k \in list.linked : k < n => k <= list.next[n]
  BY DEF WellFormed, Pointers
<1>2. list.head \in list.linked \/ (list.head = 0 /\ list.linked = {})
  BY <1>1
<1>3. \A n \in list.linked :
        list.next[n] \in Older(n) \/ (list.next[n] = 0 /\ Older(n) = {})
  BY <1>1 DEF Older
<1> QED
  BY <1>2, <1>3 DEF OneChain

\* The list stays well-formed and every variable keeps its type.
THEOREM TypeCorrect == Spec => []TypeOK
<1>1. IInv => TypeOK
  BY DEF IInv
<1> QED
  BY <1>1, Invariance, PTL

\* What remove leaves behind is one chain through all linked elements
\* (concurrent_list::remove and element::remove).
THEOREM ListIsOneChain == Spec => []OneChain
<1>1. IInv => OneChain
  BY Chained DEF IInv, TypeOK
<1> QED
  BY <1>1, Invariance, PTL

\* No loop visits an entry that was added, or had been removed, before it began,
\* and one that has run to its end visited whatever stayed in the list
\* (element::operator++ on a copy of the element).
THEOREM VisitedRightly == Spec => []VisitsRight
<1>1. IInv => VisitsOnlyBegun
  BY DEF IInv, Loop, Inside, VisitsOnlyBegun
<1>2. IInv => VisitsSurvivors
  BY DEF IInv, Loop, Behind, VisitsSurvivors
<1>3. IInv => VisitsRight
  BY <1>1, <1>2 DEF VisitsRight
<1> QED
  BY <1>3, Invariance, PTL

\* No loop visits an entry twice.
THEOREM VisitedOnce == Spec => VisitsOnce
<1> DEFINE OnceStep == \A w \in Walkers :
             it[w] # End /\ it'[w] # it[w] => it'[w].entry \notin visited[w]
<1>1. IInv /\ [Next]_vars => [OnceStep]_vars
  <2> SUFFICES ASSUME IInv, Next, NEW w \in Walkers, it[w] # End, it'[w] # it[w]
               PROVE  it'[w].entry \notin visited[w]
    OBVIOUS
  <2>1. /\ TypeOK /\ visited[w] \subseteq 1..list.size
        /\ Advanced(list, it[w]).entry \notin visited[w]
    <3>1. TypeOK /\ WellFormed(list) /\ Loop(list, it[w], began[w], visited[w])
      BY DEF IInv, TypeOK
    <3>2. visited[w] \subseteq 1..list.size
      BY <3>1 DEF Loop, Inside
    <3> QED
      BY <3>1, <3>2, LoopAdvanced
  <2>2. it' # it
    OBVIOUS
  <2>3. CASE Add \/ Clear \/ \E e \in 1..list.size : Remove(e)
    BY <2>2, <2>3 DEF Add, Clear, Remove
  <2>4. CASE \E u \in Walkers : Start(u)
    <3>1. PICK u \in Walkers : Start(u)
      BY <2>4
    <3>2. u # w /\ it' = [it EXCEPT ![u] = Begin(list)]
      BY <3>1 DEF Start, Visit
    <3> QED
      BY <2>1, <3>2 DEF TypeOK
  <2>5. CASE \E u \in Walkers : Step(u)
    <3>1. PICK u \in Walkers : it' = [it EXCEPT ![u] = Advanced(list, it[u])]
      BY <2>5 DEF Step, Visit
    <3>2. u = w /\ it'[w] = Advanced(list, it[w])
      BY <2>1, <3>1 DEF TypeOK
    <3> QED
      BY <2>1, <3>2
  <2>6. CASE \E u \in Walkers : Leave(u)
    <3>1. PICK u \in Walkers : it' = [it EXCEPT ![u] = End]
      BY <2>6 DEF Leave
    <3>2. u = w /\ it'[w] = End
      BY <2>1, <3>1 DEF TypeOK
    <3>3. it'[w].entry = 0
      BY <3>2 DEF End
    <3> QED
      BY <2>1, <3>3
  <2> QED
    BY <2>3, <2>4, <2>5, <2>6 DEF Next
<1>2. []IInv /\ [][Next]_vars => [][OnceStep]_vars
  BY <1>1, PTL
<1> QED
  BY <1>2, Invariance, PTL DEF Spec, VisitsOnce

-----------------------------------------------------------------------------
(* The tasks of a script.                                                  *)

Ids == 1..tasks_.size
Task == [delay : Delays, volatile : BOOLEAN, last : Int]

\* The tasks and what they hold; and that run_frame is at one while it is in its
\* loop.
TaskTypes ==
  /\ WellFormed(tasks_) /\ Loop(tasks_, taskIt, taskBegan, taskVisited)
  /\ task \in [Ids -> Task] /\ since = [n \in Ids |-> task[n].last] /\ now \in Int
  /\ phase \in {"out", "test", "callback", "failed"}
  /\ phase = "out" => taskIt = End
  /\ phase \in {"test", "callback"} => taskIt # End
  /\ taskIt # End => taskIt.entry \in taskVisited

\* This run_frame has task n behind it, or never comes to it.
Passed(n) ==
  \/ n \notin taskBegan \/ taskIt = End
  \/ n > taskIt.entry \/ (n = taskIt.entry /\ phase # "test")

\* A timeout that has run, and a task that is cleared, are not linked any more;
\* and neither the one nor a cleared one that has run since is come to again.
TaskInv ==
  /\ TaskTypes
  /\ over \subseteq Ids /\ cleared \subseteq Ids /\ after \subseteq Ids
  /\ \A n \in over : task[n].volatile => n \notin tasks_.linked /\ Passed(n)
  /\ \A n \in cleared : n \notin tasks_.linked
  /\ \A n \in after : n \in cleared /\ Passed(n)

\* The list of the tasks is the same as any other.
LEMMA TasksList ==
  /\ Tasks!EmptyList = EmptyList /\ Tasks!End = End
  /\ \A l : Tasks!Added(l) = Added(l) /\ Tasks!Begin(l) = Begin(l)
  /\ \A l, e : Tasks!Removed(l, e) = Removed(l, e)
  /\ \A l, i : Tasks!Advanced(l, i) = Advanced(l, i)
BY DEF EmptyList, Tasks!EmptyList, End, Tasks!End, Added, Tasks!Added, Begin, Tasks!Begin, At, Tasks!At,
       Removed, Tasks!Removed, Advanced, Tasks!Advanced

LEMMA TasksInit == Tasks!Init => TaskInv
<1> SUFFICES ASSUME Tasks!Init PROVE TaskInv
  OBVIOUS
<1>1. /\ tasks_ = EmptyList /\ task = [n \in {} |-> 0] /\ since = [n \in {} |-> 0] /\ now = 0
      /\ taskIt = End /\ phase = "out" /\ taskBegan = {} /\ taskVisited = {}
      /\ over = {} /\ cleared = {} /\ after = {}
  BY TasksList DEF Tasks!Init
<1>2. WellFormed(tasks_) /\ Loop(tasks_, taskIt, taskBegan, taskVisited)
  BY <1>1, EmptyWellFormed, LoopNone
<1>3. Ids = {}
  BY <1>1 DEF EmptyList, Ids
<1> QED
  BY <1>1, <1>2, <1>3 DEF TaskInv, TaskTypes

LEMMA SetTaskInv ==
  ASSUME TaskInv, NEW delay \in Delays, NEW volatile \in BOOLEAN, Tasks!SetTask(delay, volatile)
  PROVE  TaskInv'
<1> DEFINE new == tasks_.size + 1
<1>1. /\ tasks_' = Added(tasks_)
      /\ task' = [k \in DOMAIN task \cup {new} |->
           IF k = new THEN [delay |-> delay, volatile |-> volatile, last |-> now] ELSE task[k]]
      /\ since' = [k \in DOMAIN since \cup {new} |-> IF k = new THEN now ELSE since[k]]
      /\ UNCHANGED <<now, taskIt, phase, taskBegan, taskVisited, over, cleared, after>>
  BY TasksList DEF Tasks!SetTask, Tasks!Extended, Tasks!frame
<1>2. WellFormed(tasks_) /\ Loop(tasks_, taskIt, taskBegan, taskVisited)
  BY DEF TaskInv, TaskTypes
<1>3. WellFormed(tasks_)' /\ Loop(tasks_, taskIt, taskBegan, taskVisited)'
  BY <1>1, <1>2, AddedWellFormed, LoopAdded
<1>4. /\ Ids' = Ids \cup {new} /\ new \notin Ids
      /\ tasks_'.linked = tasks_.linked \cup {new}
  BY <1>1, <1>2, AddedFacts, ListFacts DEF Ids
<1>5. /\ task' \in [Ids' -> Task] /\ \A n \in Ids : task'[n] = task[n]
      /\ since' = [n \in Ids' |-> task'[n].last]
  BY <1>1, <1>4 DEF TaskInv, TaskTypes, Task
<1>6. TaskTypes'
  BY <1>1, <1>3, <1>5 DEF TaskInv, TaskTypes
<1>7. \A n \in Ids : Passed(n)' <=> Passed(n)
  BY <1>1 DEF Passed
<1> QED
  BY <1>1, <1>4, <1>5, <1>6, <1>7 DEF TaskInv

LEMMA ClearTaskInv ==
  ASSUME TaskInv, NEW id \in 1..tasks_.size, Tasks!ClearTask(id)
  PROVE  TaskInv'
<1>1. /\ tasks_' = Removed(tasks_, id) /\ cleared' = cleared \cup {id}
      /\ UNCHANGED <<task, now, taskIt, phase, taskBegan, taskVisited, since, over, after>>
  BY TasksList DEF Tasks!ClearTask, Tasks!frame
<1>2. WellFormed(tasks_) /\ Loop(tasks_, taskIt, taskBegan, taskVisited)
  BY DEF TaskInv, TaskTypes
<1>3. WellFormed(tasks_)' /\ Loop(tasks_, taskIt, taskBegan, taskVisited)'
  BY <1>1, <1>2, RemovedWellFormed, LoopRemoved
<1>4. Ids' = Ids /\ tasks_'.linked = tasks_.linked \ {id}
  BY <1>1, <1>2, RemovedFacts DEF Ids
<1>5. TaskTypes'
  BY <1>1, <1>3, <1>4 DEF TaskInv, TaskTypes
<1>6. \A n \in Ids : Passed(n)' <=> Passed(n)
  BY <1>1 DEF Passed
<1> QED
  BY <1>1, <1>4, <1>5, <1>6 DEF TaskInv, Ids

\* run_frame begins: what it comes to is linked.
LEMMA FrameStartInv ==
  ASSUME TaskInv, Tasks!FrameStart
  PROVE  TaskInv'
<1>1. /\ taskIt' = Begin(tasks_) /\ phase' = IF Begin(tasks_) = End THEN "out" ELSE "test"
      /\ taskBegan' = tasks_.linked /\ taskVisited' = {tasks_.head} \ {0}
      /\ UNCHANGED <<tasks_, task, now, since, over, cleared, after>>
  BY TasksList DEF Tasks!FrameStart, Tasks!GoTo, Tasks!ever
<1>2. WellFormed(tasks_)
  BY DEF TaskInv, TaskTypes
<1>3. /\ Begin(tasks_).entry = tasks_.head
      /\ Begin(tasks_) # End => tasks_.head # 0
  BY <1>2, WayAt, ListFacts DEF Begin
<1>4. Loop(tasks_, taskIt, taskBegan, taskVisited)'
  BY <1>1, <1>2, <1>3, LoopBegun
<1>5. TaskTypes'
  BY <1>1, <1>2, <1>3, <1>4 DEF TaskInv, TaskTypes, Ids
<1> QED
  BY <1>1, <1>5 DEF TaskInv, Passed, Ids

\* It goes on, from an entry that it need not call, or has called.
LEMMA AdvanceInv ==
  ASSUME TaskInv, taskIt # End, Tasks!Advance,
         UNCHANGED <<tasks_, task, now, taskBegan, since, over, cleared, after>>
  PROVE  TaskInv'
<1> DEFINE j == Advanced(tasks_, taskIt)
<1>1. /\ taskIt' = j /\ phase' = IF j = End THEN "out" ELSE "test"
      /\ taskVisited' = taskVisited \cup ({taskIt.next} \ {0})
  BY TasksList DEF Tasks!Advance, Tasks!GoTo
<1>2. /\ WellFormed(tasks_) /\ Loop(tasks_, taskIt, taskBegan, taskVisited)
      /\ OnTheWay(tasks_, taskIt) /\ taskIt.next \in 0..tasks_.size
  BY DEF TaskInv, TaskTypes, Loop, OnTheWay
<1>3. /\ j.entry = taskIt.next
      /\ j # End => j.entry # 0 /\ j.entry < taskIt.entry
  BY <1>2, WayAt, WayAdvanced DEF Advanced
<1>4. Loop(tasks_, taskIt, taskBegan, taskVisited)'
  BY <1>1, <1>2, <1>3, LoopAdvanced
<1> HIDE DEF j
<1>5. TaskTypes'
  BY <1>1, <1>2, <1>3, <1>4 DEF TaskInv, TaskTypes, Ids
<1>6. \A n \in Ids : Passed(n) => Passed(n)'
  <2>1. taskIt.entry \in Int /\ (j # End => j.entry \in Int)
    BY <1>2, <1>3, ListFacts DEF OnTheWay
  <2> QED
    BY <1>1, <1>3, <2>1 DEF Passed, Ids
<1> QED
  BY <1>5, <1>6 DEF TaskInv, Ids

\* It calls a task: one that is cleared has not been called since.
LEMMA RunInv ==
  ASSUME TaskInv, Tasks!Run
  PROVE  TaskInv'
<1> SUFFICES ASSUME NEW n, n = taskIt.entry PROVE TaskInv'
  OBVIOUS
<1>1. /\ phase = "test" /\ task' = [task EXCEPT ![n].last = now]
      /\ tasks_' = IF task[n].volatile THEN Removed(tasks_, n) ELSE tasks_
      /\ over' = over \cup {n} /\ since' = [since EXCEPT ![n] = now]
      /\ after' = IF n \in cleared THEN after \cup {n} ELSE after
      /\ phase' = "callback" /\ UNCHANGED <<now, taskIt, taskBegan, taskVisited, cleared>>
  BY TasksList DEF Tasks!Run, Tasks!frame
<1>2. /\ WellFormed(tasks_) /\ Loop(tasks_, taskIt, taskBegan, taskVisited)
      /\ taskIt # End /\ n \in Ids
  BY <1>1 DEF TaskInv, TaskTypes, Loop, OnTheWay, Ids
<1>3. WellFormed(tasks_)' /\ Loop(tasks_, taskIt, taskBegan, taskVisited)'
  BY <1>1, <1>2, RemovedWellFormed, LoopRemoved
<1>4. /\ Ids' = Ids
      /\ tasks_'.linked = IF task[n].volatile THEN tasks_.linked \ {n} ELSE tasks_.linked
  <2>1. /\ Removed(tasks_, n).size = tasks_.size
        /\ Removed(tasks_, n).linked = tasks_.linked \ {n}
    BY <1>2, RemovedFacts
  <2>2. CASE task[n].volatile
    BY <1>1, <2>1, <2>2 DEF Ids
  <2>3. CASE ~task[n].volatile
    BY <1>1, <2>3 DEF Ids
  <2> QED
    BY <2>2, <2>3
<1>5. /\ task' \in [Ids -> Task] /\ since' = [k \in Ids |-> task'[k].last]
      /\ \A k \in Ids : task'[k].volatile = task[k].volatile
  BY <1>1, <1>2 DEF TaskInv, TaskTypes, Task
<1>6. TaskTypes'
  BY <1>1, <1>2, <1>3, <1>4, <1>5 DEF TaskInv, TaskTypes
<1>7. /\ \A k \in Ids : Passed(k) => Passed(k)'
      /\ Passed(n)'
  BY <1>1, <1>2 DEF Passed
<1>8. tasks_'.linked \subseteq tasks_.linked
  BY <1>4
<1>9. \A k \in over' : task'[k].volatile => k \notin tasks_'.linked /\ Passed(k)'
  <2> SUFFICES ASSUME NEW k \in over', task'[k].volatile
               PROVE  k \notin tasks_'.linked /\ Passed(k)'
    OBVIOUS
  <2>1. CASE k = n
    BY <1>2, <1>4, <1>5, <1>7, <2>1
  <2>2. CASE k # n
    BY <1>1, <1>5, <1>7, <1>8, <2>2 DEF TaskInv
  <2> QED
    BY <2>1, <2>2
<1>10. \A k \in after' : k \in cleared' /\ Passed(k)'
  BY <1>1, <1>7 DEF TaskInv
<1>11. over' \subseteq Ids /\ after' \subseteq Ids
  BY <1>1, <1>2 DEF TaskInv
<1> QED
  BY <1>1, <1>4, <1>6, <1>8, <1>9, <1>10, <1>11 DEF TaskInv

LEMMA TasksStay ==
  ASSUME TaskInv, UNCHANGED <<tasks_, task, taskIt, taskBegan, taskVisited, since, over, cleared, after>>,
         now' \in Int, phase' = phase \/ (phase = "callback" /\ phase' = "failed")
  PROVE  TaskInv'
<1>1. TaskTypes'
  BY DEF TaskInv, TaskTypes, Ids
<1>2. \A n \in Ids : Passed(n) => Passed(n)'
  BY DEF Passed
<1> QED
  BY <1>1, <1>2 DEF TaskInv, Ids

LEMMA TasksNext == TaskInv /\ (Tasks!Next \/ UNCHANGED tasksVars) => TaskInv'
<1> SUFFICES ASSUME TaskInv, Tasks!Next \/ UNCHANGED tasksVars PROVE TaskInv'
  OBVIOUS
<1>1. ASSUME Tasks!Tick \/ Tasks!CallbackThrows \/ UNCHANGED tasksVars PROVE TaskInv'
  <2>1. UNCHANGED <<tasks_, task, taskIt, taskBegan, taskVisited, since, over, cleared, after>>
    BY <1>1 DEF Tasks!Tick, Tasks!CallbackThrows, Tasks!frame, Tasks!ever, tasksVars
  <2>2. now' \in Int /\ (phase' = phase \/ (phase = "callback" /\ phase' = "failed"))
    BY <1>1 DEF Tasks!Tick, Tasks!CallbackThrows, tasksVars, TaskInv, TaskTypes
  <2> QED
    BY <2>1, <2>2, TasksStay
<1>2. ASSUME Tasks!Skip \/ Tasks!CallbackReturns PROVE TaskInv'
  <2>1. taskIt # End /\ Tasks!Advance
    BY <1>2 DEF Tasks!Skip, Tasks!CallbackReturns, TaskInv, TaskTypes
  <2>2. UNCHANGED <<tasks_, task, now, taskBegan, since, over, cleared, after>>
    BY <1>2 DEF Tasks!Skip, Tasks!CallbackReturns, Tasks!ever
  <2> QED
    BY <2>1, <2>2, AdvanceInv
<1> QED
  BY <1>1, <1>2, SetTaskInv, ClearTaskInv, FrameStartInv, RunInv DEF Tasks!Next, Tasks!FrameStep

\* What happens to the tasks is a step of TaskScheduler.
LEMMA TasksOnly == [PartsNext]_<<part, vars, framesVars, tasksVars>> => Tasks!Next \/ UNCHANGED tasksVars
  BY DEF PartsNext

LEMMA TasksInvariance == PartsSpec => []TaskInv
<1>1. PartsInit => TaskInv
  BY TasksInit DEF PartsInit
<1>2. TaskInv /\ [PartsNext]_<<part, vars, framesVars, tasksVars>> => TaskInv'
  BY TasksOnly, TasksNext
<1> QED
  BY <1>1, <1>2, PTL DEF PartsSpec

\* Only Run calls a task, the one that run_frame is at.
LEMMA OnlyRunCalls ==
  ASSUME TaskInv, Tasks!Next, NEW n \in Tasks!Ids, Tasks!Calls(n)
  PROVE  /\ n \in Ids /\ taskIt.entry = n /\ taskIt # End /\ phase = "test"
         /\ now - task[n].last > task[n].delay
<1>1. phase = "test" /\ phase' = "callback" /\ taskIt.entry = n /\ n \in Ids
  BY DEF Tasks!Calls, Tasks!Ids, Ids
<1>2. Tasks!IsDue(n)
  BY <1>1 DEF Tasks!Next, Tasks!FrameStep, Tasks!Tick, Tasks!SetTask, Tasks!ClearTask, Tasks!ScriptRuns,
       Tasks!FrameStart, Tasks!Skip, Tasks!Run, Tasks!CallbackReturns, Tasks!CallbackThrows,
       Tasks!Advance, Tasks!GoTo
<1> QED
  BY <1>1, <1>2 DEF Tasks!IsDue, TaskInv, TaskTypes

\* A timeout is called once, a task no sooner than its delay has passed, and a
\* cleared one at most once more (scheduler::run_frame).
THEOREM Tasks_In_Time == PartsSpec => TasksInTime
<1> DEFINE Right ==
      \A n \in Tasks!Ids : Tasks!Calls(n) =>
        /\ task[n].volatile => n \notin over
        /\ now - since[n] > task[n].delay
        /\ n \in cleared => n \in taskBegan /\ n \notin after
<1>1. TaskInv /\ Tasks!Next => Right
  <2> SUFFICES ASSUME TaskInv, Tasks!Next, NEW n \in Tasks!Ids, Tasks!Calls(n)
               PROVE  /\ task[n].volatile => n \notin over
                      /\ now - since[n] > task[n].delay
                      /\ n \in cleared => n \in taskBegan /\ n \notin after
    OBVIOUS
  <2>1. /\ n \in Ids /\ taskIt.entry = n /\ taskIt # End /\ phase = "test"
        /\ now - task[n].last > task[n].delay
    BY OnlyRunCalls
  <2>2. n \in taskBegan
    BY <2>1 DEF TaskInv, TaskTypes, Loop, Inside
  <2>3. ~Passed(n)
    BY <2>1, <2>2 DEF Passed, Ids
  <2> QED
    BY <2>1, <2>2, <2>3 DEF TaskInv, TaskTypes
<1>2. UNCHANGED tasksVars => UNCHANGED Tasks!vars
  BY DEF tasksVars, Tasks!vars, Tasks!state, Tasks!frame, Tasks!ever
<1>3. TaskInv /\ [PartsNext]_<<part, vars, framesVars, tasksVars>>
        => /\ [\A n \in Tasks!Ids : Tasks!Calls(n) /\ task[n].volatile => n \notin over]_(Tasks!vars)
           /\ [\A n \in Tasks!Ids : Tasks!Calls(n) => now - since[n] > task[n].delay]_(Tasks!vars)
           /\ [\A n \in Tasks!Ids :
                 Tasks!Calls(n) /\ n \in cleared => n \in taskBegan /\ n \notin after]_(Tasks!vars)
  BY <1>1, <1>2, TasksOnly
<1> QED
  BY <1>3, TasksInvariance, PTL
     DEF PartsSpec, TasksInTime, Tasks!TimeoutOnce, Tasks!CallsSpaced, Tasks!ClearedAtMostOnceMore

-----------------------------------------------------------------------------
(* The walk of run_frame is one of ListWalk.                               *)

LEMMA WalkList ==
  /\ Tasks!Walk!EmptyList = EmptyList /\ Tasks!Walk!End = End
  /\ \A l : Tasks!Walk!Added(l) = Added(l) /\ Tasks!Walk!Begin(l) = Begin(l)
  /\ \A l, e : Tasks!Walk!Removed(l, e) = Removed(l, e)
  /\ \A l, i : Tasks!Walk!Advanced(l, i) = Advanced(l, i)
BY DEF EmptyList, Tasks!Walk!EmptyList, End, Tasks!Walk!End, Added, Tasks!Walk!Added,
       Begin, Tasks!Walk!Begin, At, Tasks!Walk!At, Removed, Tasks!Walk!Removed,
       Advanced, Tasks!Walk!Advanced

WalkStays == UNCHANGED <<taskIt, taskBegan, taskVisited>>

\* A task that is set is an element added, and one that is cleared, or a timeout
\* that is called, an element removed.
LEMMA WalkAdds ==
  ASSUME NEW delay, NEW volatile, Tasks!SetTask(delay, volatile)
  PROVE  Tasks!Walk!Next
<1>1. Tasks!Walk!Add
  BY TasksList, WalkList DEF Tasks!SetTask, Tasks!Walk!Add, Tasks!frame
<1> QED
  BY <1>1 DEF Tasks!Walk!Next

LEMMA WalkRemoves ==
  ASSUME TaskInv, Tasks!Run \/ \E id \in 1..tasks_.size : Tasks!ClearTask(id)
  PROVE  Tasks!Walk!Next \/ UNCHANGED Tasks!Walk!vars
<1>1. WalkStays
  BY DEF WalkStays, Tasks!Run, Tasks!ClearTask, Tasks!frame
<1>2. UNCHANGED tasks_ \/ \E n \in 1..tasks_.size : tasks_' = Removed(tasks_, n)
  <2>1. CASE Tasks!Run
    <3>1. taskIt.entry \in 1..tasks_.size
      BY <2>1 DEF Tasks!Run, TaskInv, TaskTypes, Loop, OnTheWay
    <3> QED
      BY <2>1, <3>1, TasksList DEF Tasks!Run
  <2>2. CASE \E id \in 1..tasks_.size : Tasks!ClearTask(id)
    BY <2>2, TasksList DEF Tasks!ClearTask
  <2> QED
    BY <2>1, <2>2
<1>3. CASE UNCHANGED tasks_
  BY <1>1, <1>3 DEF WalkStays, Tasks!Walk!vars
<1>4. ASSUME NEW n \in 1..tasks_.size, tasks_' = Removed(tasks_, n)
      PROVE  Tasks!Walk!Next
  <2>1. Tasks!Walk!Remove(n)
    BY <1>1, <1>4, WalkList DEF WalkStays, Tasks!Walk!Remove
  <2> QED
    BY <2>1 DEF Tasks!Walk!Next
<1> QED
  BY <1>2, <1>3, <1>4

\* run_frame begins, and goes on.
LEMMA WalkBegins ==
  ASSUME TaskInv, Tasks!FrameStart
  PROVE  Tasks!Walk!Next
<1>1. /\ taskIt = End /\ taskIt' = Begin(tasks_) /\ UNCHANGED tasks_
      /\ taskBegan' = tasks_.linked /\ taskVisited' = {tasks_.head} \ {0}
  BY TasksList DEF Tasks!FrameStart, Tasks!GoTo, TaskInv, TaskTypes
<1>2. Begin(tasks_).entry = tasks_.head
  BY DEF Begin, At, End
<1>3. Tasks!Walk!Start("run_frame")
  BY <1>1, <1>2, WalkList DEF Tasks!Walk!Start, Tasks!Walk!Visit
<1> QED
  BY <1>3 DEF Tasks!Walk!Next

LEMMA WalkGoesOn ==
  ASSUME TaskInv, Tasks!Skip \/ Tasks!CallbackReturns
  PROVE  Tasks!Walk!Next
<1>1. /\ taskIt # End /\ taskIt' = Advanced(tasks_, taskIt) /\ UNCHANGED <<tasks_, taskBegan>>
      /\ taskVisited' = taskVisited \cup ({taskIt.next} \ {0})
  BY TasksList DEF Tasks!Skip, Tasks!CallbackReturns, Tasks!Advance, Tasks!GoTo, TaskInv, TaskTypes
<1>2. Advanced(tasks_, taskIt).entry = taskIt.next
  BY DEF Advanced, At, End
<1>3. Tasks!Walk!Step("run_frame")
  BY <1>1, <1>2, WalkList DEF Tasks!Walk!Step, Tasks!Walk!Visit
<1> QED
  BY <1>3 DEF Tasks!Walk!Next

\* Every step of the tasks is one of the walk, or none of it.
LEMMA WalkStep ==
  TaskInv /\ [PartsNext]_<<part, vars, framesVars, tasksVars>> => [Tasks!Walk!Next]_(Tasks!Walk!vars)
<1> SUFFICES ASSUME TaskInv, Tasks!Next \/ UNCHANGED tasksVars
             PROVE  Tasks!Walk!Next \/ UNCHANGED Tasks!Walk!vars
  BY TasksOnly
<1>1. ASSUME Tasks!Tick \/ Tasks!CallbackThrows \/ UNCHANGED tasksVars
      PROVE  UNCHANGED Tasks!Walk!vars
  BY <1>1 DEF Tasks!Tick, Tasks!CallbackThrows, Tasks!frame, tasksVars, Tasks!Walk!vars
<1> QED
  BY <1>1, WalkAdds, WalkRemoves, WalkBegins, WalkGoesOn DEF Tasks!Next, Tasks!FrameStep

\* run_frame of a script's scheduler implements the loop of ListWalk.
THEOREM Walks_The_List == PartsSpec => WalksTheList
<1>1. PartsInit => Tasks!Walk!Init
  BY TasksList, WalkList DEF PartsInit, Tasks!Init, Tasks!Walk!Init
<1> QED
  BY <1>1, WalkStep, TasksInvariance, PTL
     DEF PartsSpec, WalksTheList, Tasks!WalksTheList, Tasks!Walk!Spec

-----------------------------------------------------------------------------
(* The frames of the module scheduler.                                     *)

LEMMA RangeOfIntegers == ASSUME NEW n \in Nat PROVE 1..n \subseteq Int
  OBVIOUS

LEMMA NoneIsItself ==
  ASSUME NEW S, NEW b, NEW e \in b, e \in Int, \A n \in S \cap b : n > e
  PROVE  e \notin S
  OBVIOUS

LEMMA FramesList ==
  /\ Frames!EmptyList = EmptyList /\ Frames!End = End
  /\ \A l : /\ Frames!Added(l) = Added(l) /\ Frames!Begin(l) = Begin(l)
            /\ Frames!Cleared(l) = Cleared(l)
  /\ \A l, e : Frames!Removed(l, e) = Removed(l, e)
  /\ \A l, i : Frames!Advanced(l, i) = Advanced(l, i)
BY DEF EmptyList, Frames!EmptyList, End, Frames!End, Added, Frames!Added, Begin, Frames!Begin,
       At, Frames!At, Cleared, Frames!Cleared, Removed, Frames!Removed, Advanced, Frames!Advanced

InSingles == frame \in {"singles", "in single"} /\ frameIt # End

\* The loop over the single callbacks, on a way that leads to none that has run:
\* those that have run in this loop are behind it, and it began with no other.
SinglesLoop(l, i, done, done_here) ==
  \E b, v : /\ Loop(l, i, b, v) /\ i.entry \in b
            /\ \A n \in done \cap b : n > i.entry \/ (n = i.entry /\ done_here)

SinglesInv ==
  /\ WellFormed(single_callbacks_)
  /\ ran \subseteq 1..single_callbacks_.size /\ ran \cap single_callbacks_.linked = {}
  /\ InSingles => SinglesLoop(single_callbacks_, frameIt, ran, frame = "in single")

\* What is done to the list leaves the loop right.
LEMMA SinglesListInv ==
  ASSUME SinglesInv, NEW new, single_callbacks_' = new, UNCHANGED <<frame, frameIt, ran>>,
         WellFormed(new), single_callbacks_.size <= new.size, new.size \in Nat,
         new.linked \cap ran = {},
         \A i, b, v : Loop(single_callbacks_, i, b, v) => Loop(new, i, b, v)
  PROVE  SinglesInv'
<1>1. SinglesLoop(single_callbacks_, frameIt, ran, frame = "in single")
        => SinglesLoop(new, frameIt, ran, frame = "in single")
  BY DEF SinglesLoop
<1>2. ran \subseteq 1..new.size
  <2>1. single_callbacks_.size \in Nat /\ ran \subseteq 1..single_callbacks_.size
    BY ListFacts DEF SinglesInv
  <2> QED
    BY <2>1
<1> QED
  BY <1>1, <1>2 DEF SinglesInv, InSingles

LEMMA OnceInv == ASSUME SinglesInv, Frames!Once PROVE SinglesInv'
<1> DEFINE new == Added(single_callbacks_)
<1>1. single_callbacks_' = new /\ UNCHANGED <<frame, frameIt, ran>>
  BY FramesList DEF Frames!Once, Frames!history
<1>2. /\ WellFormed(single_callbacks_) /\ WellFormed(new)
      /\ \A i, b, v : Loop(single_callbacks_, i, b, v) => Loop(new, i, b, v)
  BY AddedWellFormed, LoopAdded DEF SinglesInv
<1>3. /\ new.size = single_callbacks_.size + 1
      /\ new.linked = single_callbacks_.linked \cup {new.size}
  BY <1>2, AddedFacts
<1> HIDE DEF new
<1>4. new.linked \cap ran = {}
  <2>1. /\ single_callbacks_.size \in Nat /\ ran \subseteq 1..single_callbacks_.size
        /\ ran \cap single_callbacks_.linked = {}
    BY ListFacts DEF SinglesInv
  <2>2. new.size \notin ran
    BY <1>3, <2>1
  <2> QED
    BY <1>3, <2>1, <2>2
<1>5. single_callbacks_.size <= new.size /\ new.size \in Nat
  BY <1>2, <1>3, ListFacts
<1> QED
  BY <1>1, <1>2, <1>4, <1>5, SinglesListInv

LEMMA PreDestroyInv == ASSUME SinglesInv, Frames!PreDestroy PROVE SinglesInv'
<1> DEFINE new == Cleared(single_callbacks_)
<1>1. single_callbacks_' = new /\ UNCHANGED <<frame, frameIt, ran>>
  BY FramesList DEF Frames!PreDestroy, Frames!history
<1>2. /\ WellFormed(single_callbacks_) /\ WellFormed(new)
      /\ \A i, b, v : Loop(single_callbacks_, i, b, v) => Loop(new, i, b, v)
  BY ClearedWellFormed, LoopCleared DEF SinglesInv
<1>3. new.size = single_callbacks_.size /\ new.linked = {}
  BY DEF Cleared
<1> HIDE DEF new
<1>4. single_callbacks_.size <= new.size /\ new.size \in Nat
  BY <1>2, <1>3, ListFacts
<1> QED
  BY <1>1, <1>2, <1>3, <1>4, SinglesListInv

\* The loop begins with what is linked, none of which has run.
LEMMA BeginSinglesInv == ASSUME SinglesInv, Frames!BeginSingles PROVE SinglesInv'
<1> DEFINE i == Begin(single_callbacks_)
<1>1. frame' = "singles" /\ frameIt' = i /\ UNCHANGED <<single_callbacks_, ran>>
  BY FramesList DEF Frames!BeginSingles, Frames!ListsUnchanged, Frames!history
<1>2. WellFormed(single_callbacks_)
  BY DEF SinglesInv
<1>3. /\ Loop(single_callbacks_, i, single_callbacks_.linked, {i.entry} \ {0})
      /\ i # End => i.entry \in single_callbacks_.linked
  BY <1>2, LoopBegun, WayBegun
<1>4. i # End => SinglesLoop(single_callbacks_, i, ran, FALSE)
  BY <1>3 DEF SinglesInv, SinglesLoop
<1> QED
  BY <1>1, <1>4 DEF SinglesInv, InSingles

\* The callback is removed and counts as run, and the loop is at it.
LEMMA CallSingleInv == ASSUME SinglesInv, Frames!CallSingleCallback PROVE SinglesInv'
<1> DEFINE new == Removed(single_callbacks_, frameIt.entry)
<1>1. /\ frame = "singles" /\ frameIt # End /\ frame' = "in single" /\ UNCHANGED frameIt
      /\ single_callbacks_' = new /\ ran' = ran \cup {frameIt.entry}
  BY FramesList DEF Frames!CallSingleCallback
<1>2. /\ WellFormed(single_callbacks_) /\ WellFormed(new)
      /\ \A i, b, v : Loop(single_callbacks_, i, b, v) => Loop(new, i, b, v)
  BY RemovedWellFormed, LoopRemoved DEF SinglesInv
<1>3. new.size = single_callbacks_.size /\ new.linked = single_callbacks_.linked \ {frameIt.entry}
  BY <1>2, RemovedFacts
<1> HIDE DEF new
<1>4. PICK b, v : /\ Loop(single_callbacks_, frameIt, b, v) /\ frameIt.entry \in b
                  /\ \A n \in ran \cap b : n > frameIt.entry
  BY <1>1 DEF SinglesInv, InSingles, SinglesLoop
<1>5. frameIt.entry \in 1..single_callbacks_.size
  BY <1>1, <1>4 DEF Loop, OnTheWay
<1>6. SinglesLoop(new, frameIt, ran', TRUE)
  <2>1. Loop(new, frameIt, b, v) /\ \A n \in ran' \cap b : n > frameIt.entry \/ n = frameIt.entry
    BY <1>1, <1>2, <1>4
  <2> QED
    BY <1>4, <2>1 DEF SinglesLoop
<1> QED
  BY <1>1, <1>2, <1>3, <1>5, <1>6 DEF SinglesInv, InSingles

\* The loop goes on to an older one, that has not run.
LEMMA SingleReturnsInv == ASSUME SinglesInv, Frames!SingleCallbackReturns PROVE SinglesInv'
<1> DEFINE j == Advanced(single_callbacks_, frameIt)
<1>1. /\ frame = "in single" /\ frame' = "singles" /\ frameIt' = j
      /\ UNCHANGED <<single_callbacks_, ran>>
  BY FramesList DEF Frames!SingleCallbackReturns, Frames!ListsUnchanged, Frames!history
<1>2. CASE frameIt = End
  <2>1. j = End
    BY <1>2 DEF Advanced, At, End
  <2> QED
    BY <1>1, <2>1 DEF SinglesInv, InSingles
<1>3. CASE frameIt # End
  <2>1. PICK b, v : /\ Loop(single_callbacks_, frameIt, b, v) /\ frameIt.entry \in b
                    /\ \A n \in ran \cap b : n > frameIt.entry \/ n = frameIt.entry
    BY <1>1, <1>3 DEF SinglesInv, InSingles, SinglesLoop
  <2>2. WellFormed(single_callbacks_) /\ OnTheWay(single_callbacks_, frameIt)
    BY <2>1 DEF SinglesInv, Loop
  <2>3. /\ Loop(single_callbacks_, j, b, v \cup ({j.entry} \ {0}))
        /\ j # End => j.entry = frameIt.next /\ j.entry < frameIt.entry /\ j.entry # 0
    BY <1>3, <2>1, <2>2, LoopAdvanced, WayAdvanced
  <2> HIDE DEF j
  <2>4. j # End => /\ j.entry \in b
                   /\ j.entry \in Int /\ frameIt.entry \in Int /\ \A n \in ran : n \in Int
    <3>1. single_callbacks_.size \in Nat
      BY <2>2, ListFacts
    <3>2. frameIt.next \in b \cup {0} /\ frameIt.entry \in 1..single_callbacks_.size
          /\ frameIt.next \in 0..single_callbacks_.size
      BY <1>3, <2>1 DEF Loop, Inside, OnTheWay
    <3>3. \A n \in ran : n \in Int
      BY <3>1, RangeOfIntegers DEF SinglesInv
    <3>4. frameIt.entry \in Int /\ frameIt.next \in Int
      BY <3>1, <3>2
    <3>5. ASSUME j # End PROVE j.entry \in b /\ j.entry \in Int
      BY <2>3, <3>2, <3>4, <3>5
    <3> QED
      BY <3>3, <3>4, <3>5
  <2>5. j # End => \A n \in ran \cap b : n > j.entry
    BY <2>1, <2>3, <2>4
  <2>6. j # End => SinglesLoop(single_callbacks_, j, ran, FALSE)
    BY <2>3, <2>4, <2>5 DEF SinglesLoop
  <2> QED
    BY <1>1, <2>6 DEF SinglesInv, InSingles
<1> QED
  BY <1>2, <1>3

LEMMA SinglesNext == SinglesInv /\ (Frames!Next \/ UNCHANGED framesVars) => SinglesInv'
<1> SUFFICES ASSUME SinglesInv, Frames!Next \/ UNCHANGED framesVars PROVE SinglesInv'
  OBVIOUS
<1>1. ASSUME \/ Frames!OnFrame \/ Frames!Error \/ Frames!ReportError \/ UNCHANGED framesVars
      PROVE  SinglesInv'
  <2>1. UNCHANGED <<single_callbacks_, frame, frameIt, ran>>
    BY <1>1 DEF Frames!OnFrame, Frames!Error, Frames!ReportError, Frames!ListsUnchanged,
                Frames!history, framesVars
  <2> QED
    BY <2>1 DEF SinglesInv, InSingles
<1>2. ASSUME \/ Frames!BeginCallbacks \/ Frames!CallFrameCallback \/ Frames!FrameCallbackReturns
             \/ Frames!GameFrame \/ Frames!Longjmp
      PROVE  SinglesInv'
  <2>1. UNCHANGED <<single_callbacks_, ran>> /\ frame' \in {"callbacks", "in callback", "game"}
    BY <1>2 DEF Frames!BeginCallbacks, Frames!CallFrameCallback, Frames!FrameCallbackReturns,
                Frames!GameFrame, Frames!Longjmp, Frames!ListsUnchanged, Frames!history
  <2> QED
    BY <2>1 DEF SinglesInv, InSingles
<1> QED
  BY <1>1, <1>2, OnceInv, PreDestroyInv, BeginSinglesInv, CallSingleInv, SingleReturnsInv
     DEF Frames!Next, Frames!FrameStep

\* The errors waiting are those not reported, in the order of posting.
ErrorsInv ==
  /\ posted \in Nat /\ reported \in Seq(Nat) /\ errors_ \in Seq(Nat)
  /\ Frames!ErrorsInOrder

LEMMA ErrorsNext == ErrorsInv /\ (Frames!Next \/ UNCHANGED framesVars) => ErrorsInv'
<1> SUFFICES ASSUME ErrorsInv, Frames!Next \/ UNCHANGED framesVars PROVE ErrorsInv'
  OBVIOUS
<1>1. CASE Frames!Error
  <2>1. /\ posted' = posted + 1 /\ errors_' = Append(errors_, posted + 1)
        /\ UNCHANGED reported
    BY <1>1 DEF Frames!Error
  <2>2. errors_' \in Seq(Nat) /\ posted' \in Nat /\ reported' \in Seq(Nat)
    BY <2>1 DEF ErrorsInv
  <2>3. reported' \o errors_' = Append(reported \o errors_, posted + 1)
    BY <2>1 DEF ErrorsInv
  <2>4. Append([i \in 1..posted |-> i], posted + 1) = [i \in 1..(posted + 1) |-> i]
    BY DEF ErrorsInv
  <2> QED
    BY <2>1, <2>2, <2>3, <2>4 DEF ErrorsInv, Frames!ErrorsInOrder
<1>2. CASE Frames!ReportError
  <2>1. /\ errors_ # <<>> /\ reported' = Append(reported, Head(errors_))
        /\ errors_' = Tail(errors_) /\ UNCHANGED posted
    BY <1>2 DEF Frames!ReportError
  <2>2. errors_' \in Seq(Nat) /\ reported' \in Seq(Nat)
    BY <2>1 DEF ErrorsInv
  <2>3. reported' \o errors_' = reported \o errors_
    BY <2>1 DEF ErrorsInv
  <2> QED
    BY <2>1, <2>2, <2>3 DEF ErrorsInv, Frames!ErrorsInOrder
<1>3. CASE UNCHANGED <<posted, reported, errors_>>
  BY <1>3 DEF ErrorsInv, Frames!ErrorsInOrder
<1>4. UNCHANGED <<posted, reported, errors_>> \/ Frames!Error \/ Frames!ReportError
  BY DEF Frames!Next, Frames!FrameStep, Frames!OnFrame, Frames!Once, Frames!PreDestroy,
         Frames!BeginCallbacks, Frames!CallFrameCallback, Frames!FrameCallbackReturns,
         Frames!BeginSingles, Frames!CallSingleCallback, Frames!SingleCallbackReturns,
         Frames!GameFrame, Frames!Longjmp, Frames!history, framesVars
<1> QED
  BY <1>1, <1>2, <1>3, <1>4

LEMMA FramesInit == Frames!Init => SinglesInv /\ ErrorsInv
<1> SUFFICES ASSUME Frames!Init PROVE SinglesInv /\ ErrorsInv
  OBVIOUS
<1>1. SinglesInv
  BY EmptyWellFormed, FramesList DEF Frames!Init, SinglesInv, InSingles
<1>2. /\ errors_ = <<>> /\ reported = <<>> /\ posted = 0
  BY DEF Frames!Init
<1>3. <<>> \o <<>> = [i \in 1..0 |-> i]
  OBVIOUS
<1> QED
  BY <1>1, <1>2, <1>3 DEF ErrorsInv, Frames!ErrorsInOrder

LEMMA FramesOnly ==
  [PartsNext]_<<part, vars, framesVars, tasksVars>> => Frames!Next \/ UNCHANGED framesVars
  BY DEF PartsNext

\* Errors come in the order of posting, each once, and a callback of a single
\* frame is called at most once (scheduler::execute_error and execute_safe).
THEOREM Frames_Right == PartsSpec => FramesRight
<1> DEFINE Once == frame = "singles" /\ frame' = "in single" => frameIt.entry \notin ran
<1>1. PartsInit => SinglesInv /\ ErrorsInv
  BY FramesInit DEF PartsInit
<1>2. /\ SinglesInv /\ [PartsNext]_<<part, vars, framesVars, tasksVars>> => SinglesInv'
      /\ ErrorsInv /\ [PartsNext]_<<part, vars, framesVars, tasksVars>> => ErrorsInv'
  BY FramesOnly, SinglesNext, ErrorsNext
<1>3. ErrorsInv => Frames!ErrorsInOrder
  BY DEF ErrorsInv
<1>4. SinglesInv /\ Frames!Next => Once
  <2> SUFFICES ASSUME SinglesInv, Frames!Next, frame = "singles", frame' = "in single"
               PROVE  frameIt.entry \notin ran
    OBVIOUS
  <2>1. frameIt # End
    BY FramesList DEF Frames!Next, Frames!FrameStep, Frames!OnFrame, Frames!Once, Frames!Error,
       Frames!PreDestroy, Frames!ReportError,
       Frames!BeginCallbacks, Frames!CallFrameCallback, Frames!FrameCallbackReturns,
       Frames!BeginSingles, Frames!CallSingleCallback, Frames!SingleCallbackReturns,
       Frames!GameFrame, Frames!Longjmp
  <2>2. PICK b, v : /\ Loop(single_callbacks_, frameIt, b, v) /\ frameIt.entry \in b
                    /\ \A n \in ran \cap b : n > frameIt.entry
    BY <2>1 DEF SinglesInv, InSingles, SinglesLoop
  <2>3. frameIt.entry \in Int
    <3>1. WellFormed(single_callbacks_)
      BY DEF SinglesInv
    <3>2. single_callbacks_.size \in Nat
      BY <3>1, ListFacts
    <3>3. frameIt.entry \in 1..single_callbacks_.size
      BY <2>1, <2>2 DEF Loop, OnTheWay
    <3> QED
      BY <3>2, <3>3, RangeOfIntegers
  <2> QED
    BY <2>2, <2>3, NoneIsItself
<1>5. UNCHANGED framesVars => UNCHANGED Frames!vars
  BY DEF framesVars, Frames!vars, Frames!history
<1>6. SinglesInv /\ [PartsNext]_<<part, vars, framesVars, tasksVars>> => [Once]_(Frames!vars)
  BY <1>4, <1>5, FramesOnly
<1> QED
  BY <1>1, <1>2, <1>3, <1>6, PTL DEF PartsSpec, FramesRight, Frames!SingleOnce

-----------------------------------------------------------------------------
(* The listeners of EventHandler.                                          *)

Listener == [id : Nat, event : Names, entity : Entities, volatile : BOOLEAN]

Dispatch ==
  [event : Names, entity : Entities, list : Lists \cup {"arguments"},
   it : [entry : Nat, next : Nat], calling : BOOLEAN,
   called : SUBSET Nat, before : SUBSET Nat, must : SUBSET Nat]

\* The lists ls of a script with what their entries hold, es: ids are given once,
\* and a listener is linked until it is gone.
ListsRight(ls, es, id, out) ==
  /\ ls = [l \in Lists |-> ls[l]] /\ es \in [Lists -> Seq(Listener)]
  /\ id \in Nat /\ out \subseteq 1..id
  /\ \A l \in Lists : WellFormed(ls[l]) /\ Len(es[l]) = ls[l].size
  /\ \A l \in Lists : \A n \in 1..ls[l].size :
       es[l][n].id \in 1..id /\ (n \in ls[l].linked <=> es[l][n].id \notin out)
  /\ \A l, m \in Lists : \A n \in 1..ls[l].size, k \in 1..ls[m].size :
       es[l][n].id = es[m][k].id => l = m /\ n = k

Match(d, e) == e.event = d.event /\ (d.list = "specific" => e.entity = d.entity)

\* The walk of dispatch d over a list, whose entries hold e. It began with the
\* entries b, none of which had left before, and has visited v: these it has
\* called if they match, but for the one it is at; and b holds all it must call.
WalkRight(d, entries, e) ==
  \E b, v :
    /\ Loop(entries, d.it, b, v) /\ (d.it # End => d.it.entry \in v)
    /\ \A n \in b : e[n].id \notin d.before
    /\ \A n \in b : e[n].id \in d.called => n \in v /\ (n # d.it.entry \/ d.calling)
    /\ \A n \in v : Match(d, e[n]) => e[n].id \in d.called \/ (n = d.it.entry /\ ~d.calling)
    /\ \A x \in d.must : \E n \in b : e[n].id = x /\ Match(d, e[n])

DispatchRight(d, ls, es, id) ==
  /\ d \in Dispatch
  /\ d.called \subseteq 1..id
  /\ d.list = "arguments" => d.called = {}
  /\ d.list # "generic" => \A n \in 1..ls["generic"].size : es["generic"][n].id \notin d.called
  /\ d.list \in Lists => WalkRight(d, ls[d.list], es[d.list])
  /\ d.calling => d.list \in Lists /\ d.it # End

StackRight(s, ls, es, id) ==
  s \in Seq(Dispatch) /\ \A i \in 1..Len(s) : DispatchRight(s[i], ls, es, id)

HandlerInv ==
  /\ ListsRight(listeners, listener, current_listener_id_, gone)
  /\ StackRight(stack, listeners, listener, current_listener_id_)

-----------------------------------------------------------------------------
(* The lists.                                                              *)

\* What is done to the lists leaves a dispatch right if it leaves all loops right
\* and the entries there are, and gives no id again.
LEMMA DispatchKept ==
  ASSUME NEW d, NEW ls, NEW es, NEW id \in Nat, NEW ls2, NEW es2, NEW id2 \in Nat, id <= id2,
         \A l \in Lists : \A i, b, v : Loop(ls[l], i, b, v) => Loop(ls2[l], i, b, v),
         \A l \in Lists : \A n \in 1..ls[l].size : es2[l][n] = es[l][n],
         \A l \in Lists : \A n \in 1..ls2[l].size : n \in 1..ls[l].size \/ es2[l][n].id \notin 1..id,
         DispatchRight(d, ls, es, id)
  PROVE  DispatchRight(d, ls2, es2, id2)
<1>1. ASSUME d.list \in Lists
      PROVE  WalkRight(d, ls2[d.list], es2[d.list])
  <2> DEFINE l == d.list
  <2>1. PICK b, v :
          /\ Loop(ls[l], d.it, b, v) /\ (d.it # End => d.it.entry \in v)
          /\ \A n \in b : es[l][n].id \notin d.before
          /\ \A n \in b : es[l][n].id \in d.called => n \in v /\ (n # d.it.entry \/ d.calling)
          /\ \A n \in v : Match(d, es[l][n]) => es[l][n].id \in d.called \/ (n = d.it.entry /\ ~d.calling)
          /\ \A x \in d.must : \E n \in b : es[l][n].id = x /\ Match(d, es[l][n])
    BY <1>1 DEF DispatchRight, WalkRight
  <2>2. b \subseteq 1..ls[l].size /\ v \subseteq b
    BY <2>1 DEF Loop, Inside
  <2>3. Loop(ls2[l], d.it, b, v) /\ \A n \in b : es2[l][n] = es[l][n]
    BY <1>1, <2>1, <2>2
  <2>4. /\ Loop(ls2[l], d.it, b, v) /\ (d.it # End => d.it.entry \in v)
        /\ \A n \in b : es2[l][n].id \notin d.before
        /\ \A n \in b : es2[l][n].id \in d.called => n \in v /\ (n # d.it.entry \/ d.calling)
        /\ \A n \in v : Match(d, es2[l][n]) => es2[l][n].id \in d.called \/ (n = d.it.entry /\ ~d.calling)
        /\ \A x \in d.must : \E n \in b : es2[l][n].id = x /\ Match(d, es2[l][n])
    BY <2>1, <2>2, <2>3
  <2> HIDE DEF l
  <2>5. WalkRight(d, ls2[l], es2[l])
    BY <2>4 DEF WalkRight
  <2> QED
    BY <2>5 DEF l
<1>2. d.list # "generic" =>
        \A n \in 1..ls2["generic"].size : es2["generic"][n].id \notin d.called
  <2>1. "generic" \in Lists
    BY DEF Lists
  <2> QED
    BY <2>1 DEF DispatchRight
<1>3. d.called \subseteq 1..id2
  BY DEF DispatchRight
<1> QED
  BY <1>1, <1>2, <1>3 DEF DispatchRight

LEMMA StackKept ==
  ASSUME NEW s, NEW ls, NEW es, NEW id \in Nat, NEW ls2, NEW es2, NEW id2 \in Nat, id <= id2,
         \A l \in Lists : \A i, b, v : Loop(ls[l], i, b, v) => Loop(ls2[l], i, b, v),
         \A l \in Lists : \A n \in 1..ls[l].size : es2[l][n] = es[l][n],
         \A l \in Lists : \A n \in 1..ls2[l].size : n \in 1..ls[l].size \/ es2[l][n].id \notin 1..id,
         StackRight(s, ls, es, id)
  PROVE  StackRight(s, ls2, es2, id2)
<1>1. ASSUME NEW i \in 1..Len(s) PROVE DispatchRight(s[i], ls2, es2, id2)
  <2>1. DispatchRight(s[i], ls, es, id)
    BY DEF StackRight
  <2> QED
    BY <2>1, DispatchKept
<1> QED
  BY <1>1 DEF StackRight

\* A new listener has an id that nobody knows yet.
LEMMA ListenersAddInv ==
  ASSUME HandlerInv, NEW l \in Lists, NEW name \in Names, NEW entity \in Entities,
         NEW volatile \in BOOLEAN, AddEventListener(l, name, entity, volatile)
  PROVE  HandlerInv'
<1> DEFINE new == current_listener_id_ + 1
           e == [id |-> new, event |-> name, entity |-> entity, volatile |-> volatile]
<1>1. /\ current_listener_id_' = new /\ UNCHANGED <<stack, gone>>
      /\ listeners' = [listeners EXCEPT ![l] = Added(@)]
      /\ listener' = [listener EXCEPT ![l] = Append(@, e)]
  BY DEF AddEventListener
<1>2. /\ ListsRight(listeners, listener, current_listener_id_, gone)
      /\ StackRight(stack, listeners, listener, current_listener_id_)
      /\ current_listener_id_ \in Nat /\ new \in Nat /\ e \in Listener
      /\ \A m \in Lists : WellFormed(listeners[m])
  <2>1. /\ ListsRight(listeners, listener, current_listener_id_, gone)
        /\ StackRight(stack, listeners, listener, current_listener_id_)
    BY DEF HandlerInv
  <2>2. current_listener_id_ \in Nat /\ \A m \in Lists : WellFormed(listeners[m])
    BY <2>1 DEF ListsRight
  <2> QED
    BY <2>1, <2>2 DEF Listener
<1>3. /\ listeners'[l] = Added(listeners[l]) /\ listener'[l] = Append(listener[l], e)
      /\ \A m \in Lists \ {l} : listeners'[m] = listeners[m] /\ listener'[m] = listener[m]
      /\ listeners' = [m \in Lists |-> listeners'[m]] /\ listener' \in [Lists -> Seq(Listener)]
  <2>1. listeners = [m \in Lists |-> listeners[m]] /\ listener \in [Lists -> Seq(Listener)]
    BY <1>2 DEF ListsRight
  <2>2. listeners' = [m \in Lists |-> IF m = l THEN Added(listeners[m]) ELSE listeners[m]]
    BY <1>1, <2>1
  <2>3. Append(listener[l], e) \in Seq(Listener)
    BY <1>2, <2>1
  <2> HIDE DEF e
  <2> QED
    BY <1>1, <2>1, <2>2, <2>3
<1>4. /\ listeners'[l].size = listeners[l].size + 1 /\ listeners[l].size \in Nat
      /\ listeners'[l].linked = listeners[l].linked \cup {listeners'[l].size}
      /\ WellFormed(listeners'[l])
  BY <1>2, <1>3, AddedFacts, AddedWellFormed, ListFacts
<1>5. /\ Len(listener'[l]) = listeners'[l].size
      /\ \A n \in 1..listeners[l].size : listener'[l][n] = listener[l][n]
      /\ listener'[l][listeners'[l].size] = e /\ e.id = new
  BY <1>2, <1>3, <1>4 DEF ListsRight
<1>6. \A m \in Lists : \A i, b, v : Loop(listeners[m], i, b, v) => Loop(listeners'[m], i, b, v)
  BY <1>2, <1>3, LoopAdded
<1>7. \A m \in Lists : \A n \in 1..listeners[m].size : listener'[m][n] = listener[m][n]
  BY <1>3, <1>5
<1>8. \A m \in Lists : \A n \in 1..listeners'[m].size :
        n \in 1..listeners[m].size \/ (m = l /\ n = listeners'[l].size /\ listener'[m][n].id = new)
  BY <1>3, <1>4, <1>5
<1> HIDE DEF e, new
<1>9. new = current_listener_id_ + 1
  BY DEF new
<1>10. StackRight(stack, listeners', listener', new)
  <2>1. \A m \in Lists : \A n \in 1..listeners'[m].size :
          n \in 1..listeners[m].size \/ listener'[m][n].id \notin 1..current_listener_id_
    BY <1>2, <1>8, <1>9
  <2>2. current_listener_id_ <= new
    BY <1>2, <1>9
  <2> QED
    BY <1>2, <1>6, <1>7, <2>1, <2>2, StackKept
<1>11. ListsRight(listeners', listener', new, gone)
  <2>1. \A m \in Lists : WellFormed(listeners'[m]) /\ Len(listener'[m]) = listeners'[m].size
    BY <1>2, <1>3, <1>4, <1>5 DEF ListsRight
  <2>2. gone \subseteq 1..new /\ new \notin gone
    BY <1>2, <1>9 DEF ListsRight
  <2>3. ASSUME NEW m \in Lists, NEW n \in 1..listeners'[m].size
        PROVE  /\ listener'[m][n].id \in 1..new
               /\ n \in listeners'[m].linked <=> listener'[m][n].id \notin gone
    <3>1. CASE m = l /\ n = listeners'[l].size /\ listener'[m][n].id = new
      BY <1>2, <1>4, <1>9, <2>2, <3>1
    <3>2. CASE n \in 1..listeners[m].size
      <4>1. /\ listener'[m][n] = listener[m][n] /\ listener[m][n].id \in 1..current_listener_id_
            /\ n \in listeners[m].linked <=> listener[m][n].id \notin gone
        BY <1>2, <1>7, <3>2 DEF ListsRight
      <4>2. n \in listeners'[m].linked <=> n \in listeners[m].linked
        BY <1>3, <1>4, <3>2
      <4> QED
        BY <1>2, <1>9, <4>1, <4>2
    <3> QED
      BY <1>8, <3>1, <3>2
  <2>4. ASSUME NEW m \in Lists, NEW k \in Lists, NEW n \in 1..listeners'[m].size,
               NEW j \in 1..listeners'[k].size, listener'[m][n].id = listener'[k][j].id
        PROVE  m = k /\ n = j
    <3>1. \A q \in Lists : \A i \in 1..listeners[q].size :
            listener'[q][i] = listener[q][i] /\ listener'[q][i].id # new
      BY <1>2, <1>7, <1>9 DEF ListsRight
    <3>2. CASE listener'[m][n].id = new
      <4>1. m = l /\ n = listeners'[l].size
        BY <1>8, <3>1, <3>2
      <4>2. k = l /\ j = listeners'[l].size
        BY <1>8, <2>4, <3>1, <3>2
      <4> QED
        BY <4>1, <4>2
    <3>3. CASE listener'[m][n].id # new
      <4>1. n \in 1..listeners[m].size
        BY <1>8, <3>3
      <4>2. j \in 1..listeners[k].size
        BY <1>8, <2>4, <3>3
      <4>3. listener[m][n].id = listener[k][j].id
        BY <2>4, <3>1, <4>1, <4>2
      <4> QED
        BY <1>2, <4>1, <4>2, <4>3 DEF ListsRight
    <3> QED
      BY <3>2, <3>3
  <2> QED
    BY <1>2, <1>3, <2>1, <2>2, <2>3, <2>4 DEF ListsRight
<1> QED
  BY <1>1, <1>10, <1>11 DEF HandlerInv

\* A listener that is removed is gone: loops go past it, and none is numbered
\* as it was.
LEMMA RemovedListsRight ==
  ASSUME NEW ls, NEW es, NEW id, NEW out, ListsRight(ls, es, id, out),
         NEW l \in Lists, NEW n \in 1..ls[l].size,
         NEW new, new = [m \in Lists |-> new[m]],
         new[l] = Removed(ls[l], n), \A m \in Lists \ {l} : new[m] = ls[m],
         NEW s, StackRight(s, ls, es, id)
  PROVE  /\ ListsRight(new, es, id, out \cup {es[l][n].id})
         /\ StackRight(s, new, es, id)
<1> DEFINE afterwards == out \cup {es[l][n].id}
<1>1. /\ ls = [m \in Lists |-> ls[m]] /\ es \in [Lists -> Seq(Listener)]
      /\ id \in Nat /\ out \subseteq 1..id
      /\ \A m \in Lists : WellFormed(ls[m]) /\ Len(es[m]) = ls[m].size
      /\ \A m \in Lists : \A k \in 1..ls[m].size :
           es[m][k].id \in 1..id /\ (k \in ls[m].linked <=> es[m][k].id \notin out)
      /\ \A m, q \in Lists : \A k \in 1..ls[m].size, j \in 1..ls[q].size :
           es[m][k].id = es[q][j].id => m = q /\ k = j
  BY DEF ListsRight
<1>2. /\ new[l].size = ls[l].size /\ new[l].linked = ls[l].linked \ {n} /\ WellFormed(new[l])
  BY <1>1, RemovedFacts, RemovedWellFormed
<1>3. \A m \in Lists : new[m].size = ls[m].size /\ WellFormed(new[m])
  BY <1>1, <1>2
<1>4. \A m \in Lists : \A i, b, v : Loop(ls[m], i, b, v) => Loop(new[m], i, b, v)
  <2> SUFFICES ASSUME NEW m \in Lists, NEW i, NEW b, NEW v, Loop(ls[m], i, b, v)
               PROVE  Loop(new[m], i, b, v)
    OBVIOUS
  <2>1. CASE m = l
    BY <1>1, <2>1, LoopRemoved
  <2>2. CASE m # l
    BY <2>2
  <2> QED
    BY <2>1, <2>2
<1>5. ASSUME NEW m \in Lists, NEW k \in 1..new[m].size
      PROVE  k \in new[m].linked <=> es[m][k].id \notin afterwards
  <2>1. k \in new[m].linked <=> k \in ls[m].linked /\ ~(m = l /\ k = n)
    BY <1>2
  <2>2. es[m][k].id = es[l][n].id <=> m = l /\ k = n
    BY <1>1, <1>3
  <2> QED
    BY <1>1, <1>3, <2>1, <2>2
<1>6. ListsRight(new, es, id, afterwards)
  <2>1. afterwards \subseteq 1..id
    BY <1>1
  <2>2. \A m \in Lists : \A k \in 1..new[m].size :
          es[m][k].id \in 1..id /\ (k \in new[m].linked <=> es[m][k].id \notin afterwards)
    BY <1>1, <1>3, <1>5
  <2>3. \A m, q \in Lists : \A k \in 1..new[m].size, j \in 1..new[q].size :
          es[m][k].id = es[q][j].id => m = q /\ k = j
    <3> SUFFICES ASSUME NEW m \in Lists, NEW q \in Lists, NEW k \in 1..new[m].size,
                        NEW j \in 1..new[q].size, es[m][k].id = es[q][j].id
                 PROVE  m = q /\ k = j
      OBVIOUS
    <3>1. k \in 1..ls[m].size /\ j \in 1..ls[q].size
      BY <1>3
    <3> QED
      BY <1>1, <3>1
  <2>4. \A m \in Lists : WellFormed(new[m]) /\ Len(es[m]) = new[m].size
    BY <1>1, <1>3
  <2> HIDE DEF afterwards
  <2> QED
    BY <1>1, <2>1, <2>2, <2>3, <2>4 DEF ListsRight
<1>7. StackRight(s, new, es, id)
  <2>1. id \in Nat /\ id <= id
    BY <1>1
  <2> QED
    BY <1>3, <1>4, <2>1, StackKept
<1> QED
  BY <1>6, <1>7

LEMMA ListenersRemoveInv ==
  ASSUME HandlerInv, NEW id, RemoveListener(id)
  PROVE  HandlerInv'
<1>1. PICK l \in Lists : \E n \in WithId(l, id) : listeners' = [listeners EXCEPT ![l] = Removed(@, n)]
  BY DEF RemoveListener
<1>0. PICK n \in WithId(l, id) : listeners' = [listeners EXCEPT ![l] = Removed(@, n)]
  BY <1>1
<1>2. gone' = gone \cup {id} /\ UNCHANGED <<listener, current_listener_id_, stack>>
  BY DEF RemoveListener
<1>3. /\ ListsRight(listeners, listener, current_listener_id_, gone)
      /\ StackRight(stack, listeners, listener, current_listener_id_)
  BY DEF HandlerInv
<1>4. n \in 1..listeners[l].size /\ listener[l][n].id = id
  BY <1>3, ListFacts DEF WithId, Entry, ListsRight
<1> DEFINE new == [listeners EXCEPT ![l] = Removed(@, n)]
<1>5. /\ listeners' = new /\ new = [m \in Lists |-> new[m]]
      /\ new[l] = Removed(listeners[l], n) /\ \A m \in Lists \ {l} : new[m] = listeners[m]
  BY <1>0, <1>1, <1>3 DEF ListsRight
<1> HIDE DEF new
<1>6. /\ ListsRight(new, listener, current_listener_id_, gone \cup {listener[l][n].id})
      /\ StackRight(stack, new, listener, current_listener_id_)
  BY <1>1, <1>3, <1>4, <1>5, RemovedListsRight
<1> QED
  BY <1>2, <1>3, <1>4, <1>5, <1>6 DEF HandlerInv

-----------------------------------------------------------------------------
(* A walk.                                                                 *)

\* It begins with what is linked, of which it has called none.
LEMMA WalkBegun ==
  ASSUME NEW entries, NEW e, NEW out, WellFormed(entries), NEW d, NEW l,
         \A n \in 1..entries.size : n \in entries.linked <=> e[n].id \notin out,
         \A n \in 1..entries.size : e[n].id \notin d.called,
         d.it = Begin(entries), d.before = out, ~d.calling,
         d.must = {e[n].id : n \in {k \in entries.linked : Match(d, e[k])}}
  PROVE  WalkRight(d, entries, e)
<1> DEFINE b == entries.linked
           v == {d.it.entry} \ {0}
<1>1. Loop(entries, d.it, b, v)
  BY LoopBegun
<1>2. d.it # End => d.it.entry \in entries.linked /\ d.it.entry # 0
  BY WayBegun, ListFacts
<1>3. b \subseteq 1..entries.size
  BY ListFacts
<1>4. \A x \in d.must : \E n \in b : e[n].id = x /\ Match(d, e[n])
  OBVIOUS
<1> HIDE DEF b
<1>5. \A n \in b : e[n].id \notin d.before /\ e[n].id \notin d.called
  BY <1>3 DEF b
<1> QED
  BY <1>1, <1>2, <1>4, <1>5 DEF WalkRight, b

\* It calls the listener that it is at.
LEMMA WalkCalled ==
  ASSUME NEW entries, NEW e, WellFormed(entries), NEW d, WalkRight(d, entries, e), d.it # End, ~d.calling,
         \A n, k \in 1..entries.size : e[n].id = e[k].id => n = k,
         NEW c, c.calling, c.called = d.called \cup {e[d.it.entry].id},
         c.event = d.event, c.entity = d.entity, c.list = d.list,
         c.it = d.it, c.before = d.before, c.must = d.must
  PROVE  WalkRight(c, entries, e) /\ d.it.entry \in 1..entries.size
<1>1. PICK b, v :
        /\ Loop(entries, d.it, b, v) /\ d.it.entry \in v
        /\ \A n \in b : e[n].id \notin d.before
        /\ \A n \in b : e[n].id \in d.called => n \in v /\ (n # d.it.entry \/ d.calling)
        /\ \A n \in v : Match(d, e[n]) => e[n].id \in d.called \/ (n = d.it.entry /\ ~d.calling)
        /\ \A x \in d.must : \E n \in b : e[n].id = x /\ Match(d, e[n])
  BY DEF WalkRight
<1>2. b \subseteq 1..entries.size /\ v \subseteq b
  BY <1>1 DEF Loop, Inside
<1>3. \A n : Match(c, e[n]) <=> Match(d, e[n])
  BY DEF Match
<1>4. \A n \in b : e[n].id \in c.called => n \in v /\ (n # c.it.entry \/ c.calling)
  BY <1>1, <1>2
<1>5. \A n \in v : Match(c, e[n]) => e[n].id \in c.called \/ (n = c.it.entry /\ ~c.calling)
  BY <1>1, <1>3
<1>6. \A x \in c.must : \E n \in b : e[n].id = x /\ Match(c, e[n])
  BY <1>1, <1>3
<1> QED
  BY <1>1, <1>2, <1>4, <1>5, <1>6 DEF WalkRight

\* It goes on, from a listener it has called or one that does not match.
LEMMA ListenersGoOn ==
  ASSUME NEW entries, NEW e, WellFormed(entries), NEW d, WalkRight(d, entries, e), d.it # End,
         d.calling \/ ~Match(d, e[d.it.entry]),
         NEW c, ~c.calling, c.it = Advanced(entries, d.it), c.called = d.called,
         c.event = d.event, c.entity = d.entity, c.list = d.list,
         c.before = d.before, c.must = d.must
  PROVE  WalkRight(c, entries, e)
<1>1. PICK b, v :
        /\ Loop(entries, d.it, b, v) /\ d.it.entry \in v
        /\ \A n \in b : e[n].id \notin d.before
        /\ \A n \in b : e[n].id \in d.called => n \in v /\ (n # d.it.entry \/ d.calling)
        /\ \A n \in v : Match(d, e[n]) => e[n].id \in d.called \/ (n = d.it.entry /\ ~d.calling)
        /\ \A x \in d.must : \E n \in b : e[n].id = x /\ Match(d, e[n])
  BY DEF WalkRight
<1> DEFINE w == v \cup ({c.it.entry} \ {0})
<1>2. Loop(entries, c.it, b, w) /\ c.it.entry \notin v
  <2> DEFINE i == d.it  j == Advanced(entries, i)
  <2>1. Loop(entries, i, b, v) /\ i # End
    BY <1>1
  <2> HIDE DEF i
  <2>2. Loop(entries, j, b, v \cup ({j.entry} \ {0})) /\ j.entry \notin v
    BY <2>1, LoopAdvanced
  <2>3. c.it = j
    BY DEF i
  <2> QED
    BY <2>2, <2>3
<1>3. c.it # End => c.it.entry # 0
  <2>1. /\ OnTheWay(entries, c.it)
        /\ c.it # End => c.it.entry \in 1..entries.size
    BY <1>2 DEF Loop, OnTheWay
  <2> QED
    BY <2>1, ListFacts
<1>4. \A n : Match(c, e[n]) <=> Match(d, e[n])
  BY DEF Match
<1>5. \A n \in b : e[n].id \in c.called => n \in w /\ (n # c.it.entry \/ c.calling)
  BY <1>1, <1>2
<1>6. \A n \in w : Match(c, e[n]) => e[n].id \in c.called \/ (n = c.it.entry /\ ~c.calling)
  BY <1>1, <1>4
<1>7. \A x \in c.must : \E n \in b : e[n].id = x /\ Match(c, e[n])
  BY <1>1, <1>4
<1>8. c.it # End => c.it.entry \in w
  BY <1>3
<1> HIDE DEF w
<1> QED
  BY <1>1, <1>2, <1>5, <1>6, <1>7, <1>8 DEF WalkRight

-----------------------------------------------------------------------------
(* The stack.                                                              *)

LEMMA TopSet ==
  ASSUME NEW S, NEW s \in Seq(S), s # <<>>, NEW d \in S
  PROVE  LET t == [s EXCEPT ![Len(s)] = d]
         IN  /\ t \in Seq(S) /\ Len(t) = Len(s) /\ Len(s) \in Nat \ {0}
             /\ t[Len(s)] = d /\ \A i \in 1..Len(s) : i # Len(s) => t[i] = s[i]
  OBVIOUS

LEMMA Popped ==
  ASSUME NEW S, NEW s \in Seq(S), s # <<>>
  PROVE  LET t == SubSeq(s, 1, Len(s) - 1)
         IN  t \in Seq(S) /\ Len(t) = Len(s) - 1 /\ \A i \in 1..Len(t) : t[i] = s[i]
<1> DEFINE n == Len(s) - 1
<1>1. n \in Nat /\ \A i \in 1..n : s[i] \in S /\ 1 + i - 1 = i
  OBVIOUS
<1> HIDE DEF n
<1>2. (IF 1 <= n THEN n - 1 + 1 ELSE 0) = n /\ n - 1 + 1 = n
  BY <1>1
<1>3. /\ SubSeq(s, 1, n) \in Seq(S)
      /\ Len(SubSeq(s, 1, n)) = IF 1 <= n THEN n - 1 + 1 ELSE 0
      /\ \A i \in 1..(n - 1 + 1) : SubSeq(s, 1, n)[i] = s[1 + i - 1]
  BY <1>1, SubSeqProperties
<1>4. /\ SubSeq(s, 1, n) \in Seq(S) /\ Len(SubSeq(s, 1, n)) = n
      /\ \A i \in 1..n : SubSeq(s, 1, n)[i] = s[i]
  BY <1>1, <1>2, <1>3
<1> QED
  BY <1>4 DEF n

LEMMA TopRight ==
  ASSUME NEW s, NEW ls, NEW es, NEW id, StackRight(s, ls, es, id), s # <<>>
  PROVE  /\ Len(s) \in Nat \ {0} /\ DispatchRight(s[Len(s)], ls, es, id)
         /\ StackRight(SubSeq(s, 1, Len(s) - 1), ls, es, id)
<1>1. s \in Seq(Dispatch) /\ Len(s) \in Nat \ {0}
  BY DEF StackRight
<1>2. DispatchRight(s[Len(s)], ls, es, id)
  BY <1>1 DEF StackRight
<1> DEFINE t == SubSeq(s, 1, Len(s) - 1)
<1>3. t \in Seq(Dispatch) /\ Len(t) = Len(s) - 1 /\ \A i \in 1..Len(t) : t[i] = s[i]
  BY <1>1, Popped
<1> HIDE DEF t
<1>4. StackRight(t, ls, es, id)
  BY <1>1, <1>3 DEF StackRight
<1> QED
  BY <1>1, <1>2, <1>4 DEF t

LEMMA SetTopRight ==
  ASSUME NEW s, NEW ls, NEW es, NEW id, StackRight(s, ls, es, id), s # <<>>,
         NEW d, DispatchRight(d, ls, es, id)
  PROVE  StackRight([s EXCEPT ![Len(s)] = d], ls, es, id)
<1> DEFINE t == [s EXCEPT ![Len(s)] = d]
<1>1. s \in Seq(Dispatch) /\ d \in Dispatch
  BY DEF StackRight, DispatchRight
<1>2. /\ t \in Seq(Dispatch) /\ Len(t) = Len(s) /\ Len(s) \in Nat \ {0}
      /\ t[Len(s)] = d /\ \A i \in 1..Len(s) : i # Len(s) => t[i] = s[i]
  BY <1>1, TopSet
<1> HIDE DEF t
<1>3. ASSUME NEW i \in 1..Len(t) PROVE DispatchRight(t[i], ls, es, id)
  BY <1>1, <1>2 DEF StackRight
<1>4. StackRight(t, ls, es, id)
  BY <1>2, <1>3 DEF StackRight
<1> QED
  BY <1>4 DEF t

LEMMA PushRight ==
  ASSUME NEW s, NEW ls, NEW es, NEW id, StackRight(s, ls, es, id),
         NEW d, DispatchRight(d, ls, es, id)
  PROVE  StackRight(Append(s, d), ls, es, id)
<1> DEFINE t == Append(s, d)
<1>1. s \in Seq(Dispatch) /\ d \in Dispatch /\ Len(s) \in Nat
  BY DEF StackRight, DispatchRight
<1>2. /\ t \in Seq(Dispatch) /\ Len(t) = Len(s) + 1
      /\ t[Len(s) + 1] = d /\ \A i \in 1..Len(s) : t[i] = s[i]
  BY <1>1
<1> HIDE DEF t
<1>3. ASSUME NEW i \in 1..Len(t) PROVE DispatchRight(t[i], ls, es, id)
  BY <1>1, <1>2 DEF StackRight
<1>4. StackRight(t, ls, es, id)
  BY <1>2, <1>3 DEF StackRight
<1> QED
  BY <1>4 DEF t

WalkIterator == [entry : Nat, next : Nat]

LEMMA AtIsIterator ==
  ASSUME NEW l, WellFormed(l), NEW n \in 0..l.size
  PROVE  At(l, n) \in WalkIterator
<1>1. n \in Nat /\ (n # 0 => l.next[n] \in Nat)
  BY ListFacts
<1> QED
  BY <1>1 DEF At, End, WalkIterator

-----------------------------------------------------------------------------
(* The dispatches.                                                         *)

\* One begins, and goes on from the arguments to the lists.
LEMMA NotifyInv ==
  ASSUME HandlerInv, NEW name \in Names, NEW entity \in Entities, Notify(name, entity)
  PROVE  HandlerInv'
<1> DEFINE d == [event |-> name, entity |-> entity, list |-> "arguments", it |-> End,
                 calling |-> FALSE, called |-> {}, before |-> gone, must |-> {}]
<1>1. stack' = Append(stack, d)
      /\ UNCHANGED <<listeners, listener, current_listener_id_, gone>>
  BY DEF Notify, ListsUnchanged
<1>2. gone \subseteq Nat
  BY DEF HandlerInv, ListsRight
<1>3. DispatchRight(d, listeners, listener, current_listener_id_)
  BY <1>2 DEF DispatchRight, Dispatch, Lists, End
<1> HIDE DEF d
<1>4. StackRight(stack', listeners, listener, current_listener_id_)
  BY <1>1, <1>3, PushRight DEF HandlerInv
<1> QED
  BY <1>1, <1>4 DEF HandlerInv

LEMMA WalkingInv ==
  ASSUME HandlerInv, Running, NEW l \in Lists, Top.list \notin {l, "generic"},
         Top.list \in Lists \/ l = "specific",
         SetTop(Walking(Top, l)), ListsUnchanged
  PROVE  HandlerInv'
<1> DEFINE d == Walking(Top, l)
           Must == {Entry(l, n).id : n \in {k \in listeners[l].linked : Matches(Top, l, k)}}
<1>1. /\ stack' = [stack EXCEPT ![Len(stack)] = d] /\ stack # <<>> /\ ~Top.calling
      /\ UNCHANGED <<listeners, listener, current_listener_id_, gone>>
  BY DEF SetTop, ListsUnchanged, Running
<1>2. /\ ListsRight(listeners, listener, current_listener_id_, gone)
      /\ StackRight(stack, listeners, listener, current_listener_id_)
  BY DEF HandlerInv
<1>3. DispatchRight(Top, listeners, listener, current_listener_id_)
  BY <1>1, <1>2, TopRight DEF Top
<1>4. /\ WellFormed(listeners[l]) /\ gone \subseteq Nat /\ current_listener_id_ \in Nat
      /\ \A n \in 1..listeners[l].size :
           listener[l][n].id \in Nat
           /\ (n \in listeners[l].linked <=> listener[l][n].id \notin gone)
  BY <1>2 DEF ListsRight
<1>5. /\ Begin(listeners[l]) \in WalkIterator
      /\ listeners[l].linked \subseteq 1..listeners[l].size
  <2>1. listeners[l].head \in 0..listeners[l].size
    BY <1>4, ListFacts
  <2> QED
    BY <1>4, <2>1, AtIsIterator, ListFacts DEF Begin
<1>6. Must \in SUBSET Nat
  BY <1>4, <1>5 DEF Entry
<1>7. Top \in Dispatch
  BY <1>3 DEF DispatchRight
<1> HIDE DEF Must
<1>8. /\ d \in Dispatch /\ d.list = l /\ d.it = Begin(listeners[l]) /\ d.before = gone
      /\ d.calling = Top.calling /\ d.called = Top.called
      /\ d.event = Top.event /\ d.entity = Top.entity /\ d.must = Must
  BY <1>4, <1>5, <1>6, <1>7 DEF Walking, Dispatch, WalkIterator, Must
<1> HIDE DEF d
<1>9. \A n \in 1..listeners[l].size : listener[l][n].id \notin d.called
  BY <1>3, <1>7, <1>8 DEF DispatchRight, Dispatch, Lists
<1>10. d.must = {listener[l][n].id : n \in {k \in listeners[l].linked : Match(d, listener[l][k])}}
  BY <1>8 DEF Must, Entry, Matches, Match
<1>11. WalkRight(d, listeners[l], listener[l])
  BY <1>1, <1>4, <1>8, <1>9, <1>10, WalkBegun
<1>12. DispatchRight(d, listeners, listener, current_listener_id_)
  <2>1. d.list # "generic" =>
          \A n \in 1..listeners["generic"].size : listener["generic"][n].id \notin d.called
    BY <1>3, <1>8 DEF DispatchRight
  <2>2. l # "arguments"
    BY DEF Lists
  <2>3. d.called \subseteq 1..current_listener_id_
    BY <1>3, <1>8 DEF DispatchRight
  <2> QED
    BY <1>1, <1>8, <1>11, <2>1, <2>2, <2>3 DEF DispatchRight
<1> QED
  BY <1>1, <1>2, <1>12, SetTopRight DEF HandlerInv

\* What a listener's call does to the lists.
LEMMA CallInv ==
  ASSUME HandlerInv, CallListener
  PROVE  HandlerInv'
<1> DEFINE l == Top.list
           n == Top.it.entry
           e == Entry(l, n)
           d == [Top EXCEPT !.calling = TRUE, !.called = @ \cup {e.id}]
<1>1. /\ stack # <<>> /\ ~Top.calling /\ l \in Lists /\ Top.it # End
      /\ stack' = [stack EXCEPT ![Len(stack)] = d]
      /\ UNCHANGED <<listener, current_listener_id_>>
  BY DEF CallListener, AtEntry, Running, SetTop
<1>2. IF e.volatile THEN /\ listeners' = [listeners EXCEPT ![l] = Removed(@, n)]
                         /\ gone' = gone \cup {e.id}
                    ELSE UNCHANGED <<listeners, gone>>
  BY DEF CallListener
<1>3. /\ ListsRight(listeners, listener, current_listener_id_, gone)
      /\ StackRight(stack, listeners, listener, current_listener_id_)
  BY DEF HandlerInv
<1>4. DispatchRight(Top, listeners, listener, current_listener_id_)
  BY <1>1, <1>3, TopRight DEF Top
<1>5. /\ WellFormed(listeners[l]) /\ current_listener_id_ \in Nat
      /\ \A k \in 1..listeners[l].size : listener[l][k].id \in 1..current_listener_id_
      /\ \A k, j \in 1..listeners[l].size : listener[l][k].id = listener[l][j].id => k = j
  BY <1>1, <1>3 DEF ListsRight
<1>6. WalkRight(Top, listeners[l], listener[l]) /\ Top \in Dispatch
  BY <1>1, <1>4 DEF DispatchRight
<1>7. n \in 1..listeners[l].size
  BY <1>1, <1>6 DEF WalkRight, Loop, OnTheWay
<1>8. e.id \in 1..current_listener_id_ /\ e.id \in Nat /\ e.id = listener[l][n].id
  BY <1>5, <1>7 DEF Entry
<1>9. /\ d \in Dispatch /\ d.list = l /\ d.it = Top.it /\ d.before = Top.before
      /\ d.calling /\ d.called = Top.called \cup {e.id}
      /\ d.event = Top.event /\ d.entity = Top.entity /\ d.must = Top.must
  BY <1>6, <1>8 DEF Dispatch
<1> HIDE DEF d, e, n, l
<1>10. WalkRight(d, listeners[l], listener[l])
  <2>1. d.called = Top.called \cup {listener[l][Top.it.entry].id} /\ d.list = Top.list
    BY <1>8, <1>9 DEF n, l
  <2> QED
    BY <1>1, <1>5, <1>6, <1>9, <2>1, WalkCalled
<1>11. l # "generic" =>
         \A k \in 1..listeners["generic"].size : listener["generic"][k].id \notin d.called
  <2>1. \A k \in 1..listeners["generic"].size : l # "generic" => listener["generic"][k].id # e.id
    <3>1. "generic" \in Lists
      BY DEF Lists
    <3> QED
      BY <1>1, <1>3, <1>7, <1>8, <3>1 DEF ListsRight
  <2> QED
    BY <1>4, <1>9, <2>1 DEF DispatchRight, l
<1>12. DispatchRight(d, listeners, listener, current_listener_id_)
  <2>1. d.called \subseteq 1..current_listener_id_
    BY <1>4, <1>8, <1>9 DEF DispatchRight
  <2>2. l # "arguments"
    BY <1>1 DEF Lists
  <2> QED
    BY <1>1, <1>9, <1>10, <1>11, <2>1, <2>2 DEF DispatchRight
<1>13. StackRight(stack', listeners, listener, current_listener_id_)
  BY <1>1, <1>3, <1>12, SetTopRight
<1>14. CASE ~e.volatile
  BY <1>1, <1>2, <1>3, <1>13, <1>14 DEF HandlerInv
<1>15. CASE e.volatile
  <2> DEFINE new == [listeners EXCEPT ![l] = Removed(@, n)]
  <2>1. /\ listeners' = new /\ new = [m \in Lists |-> new[m]]
        /\ new[l] = Removed(listeners[l], n) /\ \A m \in Lists \ {l} : new[m] = listeners[m]
    BY <1>1, <1>2, <1>3, <1>15 DEF ListsRight
  <2> DEFINE s == stack'
  <2>2. StackRight(s, listeners, listener, current_listener_id_)
    BY <1>13
  <2> HIDE DEF new, s
  <2>3. /\ ListsRight(new, listener, current_listener_id_, gone \cup {listener[l][n].id})
        /\ StackRight(s, new, listener, current_listener_id_)
    BY <1>1, <1>3, <1>7, <2>1, <2>2, RemovedListsRight
  <2> QED
    BY <1>1, <1>2, <1>8, <1>15, <2>1, <2>3 DEF HandlerInv, s
<1> QED
  BY <1>14, <1>15

\* The innermost dispatch goes on to the next entry.
LEMMA GoesOnInv ==
  ASSUME HandlerInv, stack # <<>>, Top.list \in Lists, Top.it # End,
         Top.calling \/ ~Match(Top, Entry(Top.list, Top.it.entry)),
         NEW d, stack' = [stack EXCEPT ![Len(stack)] = d],
         d = [Top EXCEPT !.calling = FALSE, !.it = Advanced(listeners[Top.list], @)],
         ListsUnchanged
  PROVE  HandlerInv'
<1> DEFINE l == Top.list
<1>1. /\ ListsRight(listeners, listener, current_listener_id_, gone)
      /\ StackRight(stack, listeners, listener, current_listener_id_)
      /\ UNCHANGED <<listeners, listener, current_listener_id_, gone>>
  BY DEF HandlerInv, ListsUnchanged
<1>2. DispatchRight(Top, listeners, listener, current_listener_id_)
  BY <1>1, TopRight DEF Top
<1>3. WellFormed(listeners[l])
  BY <1>1 DEF ListsRight
<1>4. WalkRight(Top, listeners[l], listener[l]) /\ Top \in Dispatch
  BY <1>2 DEF DispatchRight
<1>5. Advanced(listeners[l], Top.it) \in WalkIterator
  <2>1. Top.it.next \in 0..listeners[l].size
    BY <1>4 DEF WalkRight, Loop, OnTheWay
  <2> QED
    BY <1>3, <2>1, AtIsIterator DEF Advanced
<1>6. /\ d \in Dispatch /\ d.list = l /\ d.it = Advanced(listeners[l], Top.it)
      /\ ~d.calling /\ d.called = Top.called /\ d.before = Top.before
      /\ d.event = Top.event /\ d.entity = Top.entity /\ d.must = Top.must
  BY <1>4, <1>5 DEF Dispatch, WalkIterator
<1>7. WalkRight(d, listeners[l], listener[l])
  BY <1>3, <1>4, <1>6, ListenersGoOn DEF Entry
<1>8. DispatchRight(d, listeners, listener, current_listener_id_)
  <2>1. l # "arguments"
    BY DEF Lists
  <2> QED
    BY <1>2, <1>6, <1>7, <2>1 DEF DispatchRight
<1> QED
  BY <1>1, <1>8, SetTopRight DEF HandlerInv

LEMMA PassInv == ASSUME HandlerInv, Pass PROVE HandlerInv'
<1> DEFINE d == [Top EXCEPT !.calling = FALSE, !.it = Advanced(listeners[Top.list], @)]
<1>1. /\ stack # <<>> /\ Top.list \in Lists /\ Top.it # End /\ ListsUnchanged
      /\ ~Top.calling /\ ~Match(Top, Entry(Top.list, Top.it.entry))
      /\ stack' = [stack EXCEPT ![Len(stack)] =
                     [Top EXCEPT !.it = Advanced(listeners[Top.list], @)]]
  BY DEF Pass, AtEntry, Running, SetTop, Matches, Match
<1>2. DispatchRight(Top, listeners, listener, current_listener_id_)
  BY <1>1, TopRight DEF Top, HandlerInv
<1>3. [Top EXCEPT !.it = Advanced(listeners[Top.list], @)] = d
  BY <1>1, <1>2 DEF DispatchRight, Dispatch
<1>4. stack' = [stack EXCEPT ![Len(stack)] = d]
  BY <1>1, <1>3
<1> QED
  BY <1>1, <1>4, GoesOnInv

LEMMA ReturnsInv == ASSUME HandlerInv, ListenerReturns PROVE HandlerInv'
<1> DEFINE d == [Top EXCEPT !.calling = FALSE, !.it = Advanced(listeners[Top.list], @)]
<1>1. /\ stack # <<>> /\ Top.calling /\ ListsUnchanged
      /\ stack' = [stack EXCEPT ![Len(stack)] = d]
  BY DEF ListenerReturns, SetTop
<1>2. DispatchRight(Top, listeners, listener, current_listener_id_)
  BY <1>1, TopRight DEF Top, HandlerInv
<1>3. Top.list \in Lists /\ Top.it # End
  BY <1>1, <1>2 DEF DispatchRight
<1> QED
  BY <1>1, <1>3, GoesOnInv

\* It ends, and the outer ones are as they were.
LEMMA EndsInv == ASSUME HandlerInv, stack # <<>>, Pop, ListsUnchanged PROVE HandlerInv'
  BY TopRight DEF HandlerInv, Pop, ListsUnchanged

LEMMA HandlerKeeps == HandlerInv /\ [HandlerNext]_handlerVars => HandlerInv'
<1> SUFFICES ASSUME HandlerInv, [HandlerNext]_handlerVars PROVE HandlerInv'
  OBVIOUS
<1>1. CASE UNCHANGED handlerVars
  BY <1>1 DEF HandlerInv, handlerVars
<1>2. ASSUME NEW name \in Names, NEW entity \in Entities, Notify(name, entity)
      PROVE  HandlerInv'
  BY <1>2, NotifyInv
<1>3. ASSUME NEW name \in Names, NEW entity \in Entities, NEW l \in Lists,
             NEW volatile \in BOOLEAN, AddEventListener(l, name, entity, volatile)
      PROVE  HandlerInv'
  BY <1>3, ListenersAddInv
<1>4. ASSUME NEW id, RemoveListener(id) PROVE HandlerInv'
  BY <1>4, ListenersRemoveInv
<1>5. CASE ArgumentsLoaded
  BY <1>5, WalkingInv DEF ArgumentsLoaded, Lists
<1>6. CASE SpecificDone
  BY <1>6, WalkingInv DEF SpecificDone, AtEnd, Lists
<1>7. CASE GenericDone \/ Throws
  BY <1>7, EndsInv DEF GenericDone, AtEnd, Running, Throws
<1> QED
  BY <1>1, <1>2, <1>3, <1>4, <1>5, <1>6, <1>7, PassInv, CallInv, ReturnsInv DEF HandlerNext

LEMMA HandlerStarts == HandlerInit => HandlerInv
<1> SUFFICES ASSUME HandlerInit PROVE HandlerInv
  OBVIOUS
<1>1. /\ listeners = [l \in Lists |-> EmptyList] /\ listener = [l \in Lists |-> <<>>]
      /\ current_listener_id_ = 0 /\ stack = <<>> /\ gone = {}
  BY DEF HandlerInit
<1>2. EmptyList.size = 0
  BY DEF EmptyList
<1>3. ListsRight(listeners, listener, current_listener_id_, gone)
  BY <1>1, <1>2, EmptyWellFormed DEF ListsRight
<1>4. StackRight(stack, listeners, listener, current_listener_id_)
  BY <1>1 DEF StackRight
<1> QED
  BY <1>3, <1>4 DEF HandlerInv

-----------------------------------------------------------------------------
(* What follows from the invariant.                                        *)

\* A walk that is at its end has called what it had to call and is still there.
LEMMA EndIsComplete == HandlerInv => DispatchIsComplete
<1> SUFFICES ASSUME HandlerInv, stack # <<>>, Top.list \in Lists, Top.it = End,
                    NEW x \in Top.must, x \in Linked(Top.list)
             PROVE  x \in Top.called
  BY DEF DispatchIsComplete
<1> DEFINE l == Top.list
<1>1. /\ ListsRight(listeners, listener, current_listener_id_, gone)
      /\ DispatchRight(Top, listeners, listener, current_listener_id_)
  BY TopRight DEF HandlerInv, Top
<1>2. PICK b, v :
        /\ Loop(listeners[l], Top.it, b, v)
        /\ \A n \in v : Match(Top, listener[l][n])
                          => listener[l][n].id \in Top.called \/ (n = Top.it.entry /\ ~Top.calling)
        /\ \A y \in Top.must : \E n \in b : listener[l][n].id = y /\ Match(Top, listener[l][n])
  BY <1>1 DEF DispatchRight, WalkRight
<1>3. PICK n \in b : listener[l][n].id = x /\ Match(Top, listener[l][n])
  BY <1>2
<1>4. PICK k \in listeners[l].linked : listener[l][k].id = x
  BY DEF Linked, Entry
<1>5. WellFormed(listeners[l]) /\ n \in 1..listeners[l].size /\ k \in 1..listeners[l].size
  BY <1>1, <1>2, <1>3, <1>4, ListFacts DEF Loop, Inside, ListsRight
<1>6. n = k
  BY <1>1, <1>3, <1>4, <1>5 DEF ListsRight
<1>7. n \in v
  BY <1>2, <1>3, <1>4, <1>6 DEF Loop, Behind
<1>8. n # Top.it.entry
  BY <1>5, ListFacts DEF End
<1> QED
  BY <1>2, <1>3, <1>7, <1>8

\* A walk finds no listener that it has called, nor one that left before it began.
LEMMA CallsRight ==
  HandlerInv /\ CallsListener => Callee.id \notin Top.before /\ Callee.id \notin Top.called
<1> SUFFICES ASSUME HandlerInv, stack # <<>>, ~Top.calling, Top.list \in Lists, Top.it # End
             PROVE  Callee.id \notin Top.before /\ Callee.id \notin Top.called
  BY DEF CallsListener, AtEntry, Running
<1>1. DispatchRight(Top, listeners, listener, current_listener_id_)
  BY TopRight DEF HandlerInv, Top
<1>2. PICK b, v :
        /\ Loop(listeners[Top.list], Top.it, b, v) /\ Top.it.entry \in v
        /\ \A n \in b : listener[Top.list][n].id \notin Top.before
        /\ \A n \in b : listener[Top.list][n].id \in Top.called
                          => n \in v /\ (n # Top.it.entry \/ Top.calling)
  BY <1>1 DEF DispatchRight, WalkRight
<1>3. Top.it.entry \in b
  BY <1>2 DEF Loop, Inside
<1> QED
  BY <1>2, <1>3 DEF Callee, Entry

LEMMA ListenersOnly == [SidesNext]_<<side, handlerVars, scriptsVars>> => [HandlerNext]_handlerVars
  BY DEF SidesNext

\* Dispatches that nest neither hide a listener from each other nor call one
\* that is gone, or call one twice (event_handler::dispatch_to_specific_listeners
\* and dispatch_to_generic_listeners, over the lists of utils::concurrent_list).
THEOREM Dispatch_Is_Right == SidesSpec => DispatchIsRight
<1>1. SidesInit => HandlerInv
  BY HandlerStarts DEF SidesInit
<1>2. HandlerInv /\ [SidesNext]_<<side, handlerVars, scriptsVars>> => HandlerInv'
  BY ListenersOnly, HandlerKeeps
<1>3. HandlerInv => DispatchIsComplete
  BY EndIsComplete
<1>4. HandlerInv /\ [SidesNext]_<<side, handlerVars, scriptsVars>>
        => /\ [CallsListener => Callee.id \notin Top.before]_handlerVars
           /\ [CallsListener => Callee.id \notin Top.called]_handlerVars
  BY CallsRight
<1> QED
  BY <1>1, <1>2, <1>3, <1>4, PTL
     DEF SidesSpec, DispatchIsRight, GoneOnlyInOuterWalks, CalledOncePerDispatch

-----------------------------------------------------------------------------
(* The scripts of a level.                                                 *)

ScriptListener ==
  [id : Nat, event : Heard, entity : Hearers \cup {Scripts!AnyEntity}, is_volatile : BOOLEAN]

Context == [file : Files, listeners : SUBSET ScriptListener, current_listener_id_ : Nat]

Load == [kind : {"load"}, todo : Seq(Files), running : BOOLEAN,
         listeners : SUBSET ScriptListener, current_listener_id_ : Nat]
Notification ==
  [kind : {"notify"}, event : Heard, entity : Hearers, at : Nat, running : BOOLEAN,
   called : SUBSET (Nat \X ScriptListener), must : SUBSET (Nat \X ScriptListener)]
Frame == [kind : {"frame"}, at : Nat, running : BOOLEAN]
Activity == Load \cup Notification \cup Frame

\* The ids of a context's listeners are those given.
IdsGiven(c) == \A x \in c.listeners : x.id <= c.current_listener_id_

\* A notification has told the scripts it is past, as far as they still listen.
Told(a, scripts) ==
  \A m \in a.must :
    /\ m[1] \in 1..Len(scripts) /\ Scripts!Matches(m[2], a.event, a.entity)
    /\ m[2].id <= scripts[m[1]].current_listener_id_
    /\ m[1] < a.at => m \in a.called \/ m[2] \notin scripts[m[1]].listeners

ActivityRight(a, scripts) ==
  /\ a \in Activity
  /\ a.kind = "load" => IdsGiven(a)
  /\ a.kind # "load" => a.at \in 1..(Len(scripts) + 1) /\ (a.running => a.at <= Len(scripts))
  /\ a.kind = "notify" => Told(a, scripts)

ScriptsOk(scripts) ==
  scripts \in Seq(Context) /\ \A i \in 1..Len(scripts) : IdsGiven(scripts[i])

\* Files are loaded when nothing else is in progress.
ActivitiesOk(s, scripts) ==
  /\ s \in Seq(Activity)
  /\ \A i \in 1..Len(s) : ActivityRight(s[i], scripts) /\ (s[i].kind = "load" => i = 1)

\* While the files are loaded, those behind the first n are to do.
LoadingFrom(s, files, n) ==
  s # <<>> /\ s[1].kind = "load" =>
    /\ Len(s[1].todo) = Len(files) - n
    /\ \A i \in 1..Len(s[1].todo) : s[1].todo[i] = files[n + i]
    /\ s[1].running => s[1].todo # <<>> /\ Head(s[1].todo) \in Chai

FilesOf(scripts) == [i \in DOMAIN scripts |-> scripts[i].file]

LevelInv ==
  /\ directory \in Seq(Files) /\ evaluated \in Seq(Files)
  /\ level = "stopped" => scripts_ = <<>> /\ activities = <<>>
  /\ activities # <<>> => level = "running"
  /\ level \in {"running", "dropped"} =>
       /\ FilesOf(scripts_) = evaluated
       /\ \E n \in 0..Len(directory) :
            Scripts!EvaluatedUpTo(n) /\ LoadingFrom(activities, directory, n)

ContextsInv == ScriptsOk(scripts_) /\ ActivitiesOk(activities, scripts_) /\ LevelInv

\* What happens to the scripts leaves an activity right if no listener it knows
\* of comes back.
LEMMA ActivityKept ==
  ASSUME NEW a, NEW old, NEW new, ScriptsOk(old), ScriptsOk(new), ActivityRight(a, old),
         Len(old) <= Len(new),
         \A i \in 1..Len(old) :
           /\ old[i].current_listener_id_ <= new[i].current_listener_id_
           /\ \A x \in new[i].listeners : x \in old[i].listeners \/ x.id > old[i].current_listener_id_
  PROVE  ActivityRight(a, new)
<1>1. /\ Len(old) \in Nat /\ Len(new) \in Nat
      /\ \A i \in 1..Len(old) : old[i].current_listener_id_ \in Nat
      /\ \A i \in 1..Len(new) : new[i].current_listener_id_ \in Nat
  <2>1. /\ Len(old) \in Nat /\ \A i \in 1..Len(old) : old[i] \in Context
        /\ Len(new) \in Nat /\ \A i \in 1..Len(new) : new[i] \in Context
    BY DEF ScriptsOk
  <2> QED
    BY <2>1 DEF Context
<1>2. a.kind # "load" => a.at \in 1..(Len(new) + 1) /\ (a.running => a.at <= Len(new))
  BY <1>1 DEF ActivityRight
<1>3. ASSUME a.kind = "notify" PROVE Told(a, new)
  <2>1. a \in Notification
    BY <1>3 DEF ActivityRight, Activity, Load, Notification, Frame
  <2> SUFFICES ASSUME NEW m \in a.must
               PROVE  /\ m[1] \in 1..Len(new) /\ Scripts!Matches(m[2], a.event, a.entity)
                      /\ m[2].id <= new[m[1]].current_listener_id_
                      /\ m[1] < a.at => m \in a.called \/ m[2] \notin new[m[1]].listeners
    BY DEF Told
  <2>2. /\ m[1] \in 1..Len(old) /\ Scripts!Matches(m[2], a.event, a.entity)
        /\ m[2].id <= old[m[1]].current_listener_id_
        /\ m[1] < a.at => m \in a.called \/ m[2] \notin old[m[1]].listeners
    BY <1>3 DEF ActivityRight, Told
  <2>3. m[2].id \in Nat
    BY <2>1 DEF Notification, ScriptListener
  <2>4. m[2] \in new[m[1]].listeners => m[2] \in old[m[1]].listeners
    <3> SUFFICES ASSUME m[2] \in new[m[1]].listeners PROVE m[2] \in old[m[1]].listeners
      OBVIOUS
    <3>1. m[2] \in old[m[1]].listeners \/ m[2].id > old[m[1]].current_listener_id_
      BY <2>2
    <3>2. old[m[1]].current_listener_id_ \in Nat
      BY <1>1, <2>2
    <3> QED
      BY <2>2, <2>3, <3>1, <3>2
  <2>5. m[2].id <= new[m[1]].current_listener_id_ /\ m[1] \in 1..Len(new)
    BY <1>1, <2>2, <2>3
  <2> QED
    BY <2>2, <2>4, <2>5
<1> QED
  BY <1>2, <1>3 DEF ActivityRight

\* What leaves the files loaded, and to be loaded, as they are.
LEMMA LevelKept ==
  ASSUME LevelInv, UNCHANGED <<level, directory, evaluated>>, FilesOf(scripts_') = FilesOf(scripts_),
         level = "stopped" => scripts_' = <<>> /\ activities' = <<>>,
         activities' # <<>> => level = "running",
         \A n : LoadingFrom(activities, directory, n) => LoadingFrom(activities', directory, n)
  PROVE  LevelInv'
<1>1. \A n : Scripts!EvaluatedUpTo(n) => Scripts!EvaluatedUpTo(n)'
  BY DEF Scripts!EvaluatedUpTo
<1>2. ASSUME level \in {"running", "dropped"}
      PROVE  \E n \in 0..Len(directory) :
               Scripts!EvaluatedUpTo(n)' /\ LoadingFrom(activities', directory, n)
  BY <1>1, <1>2 DEF LevelInv
<1> QED
  BY <1>2 DEF LevelInv

\* The innermost activity.
LEMMA TopActivity ==
  ASSUME ContextsInv, activities # <<>>
  PROVE  /\ activities \in Seq(Activity) /\ Len(activities) \in Nat \ {0}
         /\ Scripts!Top = activities[Len(activities)] /\ Scripts!this = Len(activities)
         /\ ActivityRight(Scripts!Top, scripts_) /\ level = "running"
         /\ Scripts!Top.kind = "load" => Len(activities) = 1
<1>1. activities \in Seq(Activity) /\ Len(activities) \in Nat \ {0} /\ level = "running"
  BY DEF ContextsInv, ActivitiesOk, LevelInv
<1>2. Scripts!Top = activities[Len(activities)] /\ Scripts!this = Len(activities)
  BY DEF Scripts!Top, Scripts!this
<1> QED
  BY <1>1, <1>2 DEF ContextsInv, ActivitiesOk

LEMMA SetTopActivity ==
  ASSUME ContextsInv, activities # <<>>, NEW d, Scripts!SetTop(d), ActivityRight(d, scripts_),
         d.kind = "load" => Scripts!Top.kind = "load"
  PROVE  /\ ActivitiesOk(activities', scripts_) /\ activities' # <<>>
         /\ Len(activities') = Len(activities) /\ activities'[Len(activities)] = d
         /\ \A i \in 1..Len(activities) : i # Len(activities) => activities'[i] = activities[i]
         /\ d.kind # "load" => \A n : LoadingFrom(activities, directory, n)
                                        => LoadingFrom(activities', directory, n)
<1>1. /\ activities \in Seq(Activity) /\ Len(activities) \in Nat \ {0} /\ d \in Activity
      /\ activities' = [activities EXCEPT ![Len(activities)] = d]
  BY TopActivity DEF Scripts!SetTop, ActivityRight
<1>2. /\ activities' \in Seq(Activity) /\ Len(activities') = Len(activities)
      /\ activities'[Len(activities)] = d
      /\ \A i \in 1..Len(activities) : i # Len(activities) => activities'[i] = activities[i]
  BY <1>1, TopSet
<1>3. ASSUME NEW i \in 1..Len(activities')
      PROVE  ActivityRight(activities'[i], scripts_) /\ (activities'[i].kind = "load" => i = 1)
  BY <1>1, <1>2, TopActivity DEF ContextsInv, ActivitiesOk
<1>4. ActivitiesOk(activities', scripts_)
  BY <1>2, <1>3 DEF ActivitiesOk
<1>5. ASSUME d.kind # "load", NEW n, LoadingFrom(activities, directory, n)
      PROVE  LoadingFrom(activities', directory, n)
  <2>1. CASE Len(activities) = 1
    BY <1>2, <1>5, <2>1 DEF LoadingFrom
  <2>2. CASE Len(activities) # 1
    <3>0. Len(activities) \in Nat \ {0}
      BY <1>1
    <3>1. activities'[1] = activities[1]
      BY <1>2, <2>2, <3>0
    <3> QED
      BY <1>5, <3>1 DEF LoadingFrom
  <2> QED
    BY <2>1, <2>2
<1>6. activities' # <<>>
  BY <1>1, <1>2
<1> QED
  BY <1>2, <1>4, <1>5, <1>6

\* An activity that is none of loading goes on.
LEMMA GoesOn ==
  ASSUME ContextsInv, activities # <<>>, NEW d, Scripts!SetTop(d), ActivityRight(d, scripts_),
         d.kind # "load", UNCHANGED <<level, directory, scripts_, evaluated>>
  PROVE  ContextsInv'
<1>1. /\ ActivitiesOk(activities', scripts_) /\ activities' # <<>> /\ level = "running"
      /\ \A n : LoadingFrom(activities, directory, n) => LoadingFrom(activities', directory, n)
  BY SetTopActivity, TopActivity
<1>2. LevelInv'
  BY <1>1, LevelKept DEF ContextsInv
<1> QED
  BY <1>1, <1>2 DEF ContextsInv

LEMMA PopInv ==
  ASSUME ContextsInv, activities # <<>>, Scripts!Pop,
         UNCHANGED <<level, directory, scripts_, evaluated>>
  PROVE  ContextsInv'
<1>1. /\ activities \in Seq(Activity) /\ Len(activities) \in Nat \ {0}
      /\ activities' = SubSeq(activities, 1, Len(activities) - 1) /\ level = "running"
  BY TopActivity DEF Scripts!Pop
<1>2. /\ activities' \in Seq(Activity) /\ Len(activities') = Len(activities) - 1
      /\ \A i \in 1..Len(activities') : activities'[i] = activities[i]
  BY <1>1, Popped
<1>3. ActivitiesOk(activities', scripts_)
  BY <1>1, <1>2 DEF ContextsInv, ActivitiesOk
<1>4. ASSUME NEW n, LoadingFrom(activities, directory, n)
      PROVE  LoadingFrom(activities', directory, n)
  <2>1. activities' # <<>> => activities'[1] = activities[1]
    BY <1>1, <1>2
  <2> QED
    BY <1>1, <1>4, <2>1 DEF LoadingFrom
<1>5. LevelInv'
  BY <1>1, <1>4, LevelKept DEF ContextsInv
<1> QED
  BY <1>3, <1>5 DEF ContextsInv

LEMMA PushInv ==
  ASSUME ContextsInv, level = "running", NEW d, activities' = Append(activities, d),
         ActivityRight(d, scripts_), d.kind # "load",
         UNCHANGED <<level, directory, scripts_, evaluated>>
  PROVE  ContextsInv'
<1>1. activities \in Seq(Activity) /\ Len(activities) \in Nat /\ d \in Activity
  BY DEF ContextsInv, ActivitiesOk, ActivityRight
<1>2. /\ activities' \in Seq(Activity) /\ Len(activities') = Len(activities) + 1
      /\ activities'[Len(activities) + 1] = d
      /\ \A i \in 1..Len(activities) : activities'[i] = activities[i]
  BY <1>1
<1>3. ASSUME NEW i \in 1..Len(activities')
      PROVE  ActivityRight(activities'[i], scripts_) /\ (activities'[i].kind = "load" => i = 1)
  BY <1>1, <1>2 DEF ContextsInv, ActivitiesOk
<1>4. ASSUME NEW n, LoadingFrom(activities, directory, n)
      PROVE  LoadingFrom(activities', directory, n)
  <2>1. activities = <<>> => activities'[1] = d
    BY <1>2
  <2>2. activities # <<>> => activities'[1] = activities[1]
    BY <1>1, <1>2
  <2> QED
    BY <1>4, <2>1, <2>2 DEF LoadingFrom
<1>5. LevelInv'
  BY <1>4, LevelKept DEF ContextsInv
<1> QED
  BY <1>2, <1>3, <1>5 DEF ContextsInv, ActivitiesOk

\* All activities are left at once.
LEMMA LeftInv ==
  ASSUME ContextsInv, activities' = <<>>, UNCHANGED <<directory, evaluated>>,
         \/ level' \in {"ended", "stopped"} /\ scripts_' = <<>>
         \/ level' = "ended" /\ UNCHANGED scripts_
         \/ level = "running" /\ level' = "dropped" /\ UNCHANGED scripts_
  PROVE  ContextsInv'
<1>1. ScriptsOk(scripts_') /\ ActivitiesOk(<<>>, scripts_')
  <2>1. CASE UNCHANGED scripts_
    BY <2>1 DEF ContextsInv, ScriptsOk, ActivitiesOk
  <2>2. CASE scripts_' = <<>>
    BY <2>2 DEF ScriptsOk, ActivitiesOk
  <2> QED
    BY <2>1, <2>2
<1>2. \A n : Scripts!EvaluatedUpTo(n) => Scripts!EvaluatedUpTo(n)'
  BY DEF Scripts!EvaluatedUpTo
<1>3. \A n : LoadingFrom(<<>>, directory, n)
  BY DEF LoadingFrom
<1>4. LevelInv'
  BY <1>2, <1>3 DEF ContextsInv, LevelInv
<1> QED
  BY <1>1, <1>4 DEF ContextsInv

\* Loading begins with nothing evaluated and all files to do.
LEMMA ListenersStartInv ==
  ASSUME ContextsInv, NEW files \in Scripts!Listings, Scripts!StartExecution(files)
  PROVE  ContextsInv'
<1> DEFINE a == [kind |-> "load", todo |-> files, running |-> FALSE,
                 listeners |-> {}, current_listener_id_ |-> 0]
<1>1. /\ level = "stopped" /\ level' = "running" /\ directory' = files
      /\ activities' = <<a>> /\ evaluated' = <<>> /\ UNCHANGED scripts_
  BY DEF Scripts!StartExecution
<1>2. PICK n \in 0..MaxFiles : files \in [1..n -> Files]
  BY DEF Scripts!Listings
<1>3. n \in Nat /\ files \in Seq(Files) /\ Len(files) = n
  BY <1>2, FilesAssumption
<1>4. scripts_ = <<>>
  BY <1>1 DEF ContextsInv, LevelInv
<1>5. a \in Load /\ a.kind = "load" /\ a.todo = files /\ ~a.running /\ IdsGiven(a)
  BY <1>3 DEF Load, IdsGiven
<1> HIDE DEF a
<1>6. ActivityRight(a, scripts_)
  BY <1>5 DEF ActivityRight, Activity
<1>7. ActivitiesOk(<<a>>, scripts_)
  BY <1>5, <1>6 DEF ActivitiesOk, Activity
<1>8. LoadingFrom(<<a>>, files, 0)
  BY <1>3, <1>5 DEF LoadingFrom
<1>9. Scripts!EvaluatedUpTo(0)'
  <2>1. DOMAIN evaluated' = {} /\ 1..0 = {}
    BY <1>1
  <2> QED
    BY <2>1 DEF Scripts!EvaluatedUpTo
<1>10. FilesOf(scripts_) = <<>>
  BY <1>4 DEF FilesOf
<1>11. LevelInv'
  <2>1. 0 \in 0..Len(files)
    BY <1>3
  <2>2. \E k \in 0..Len(directory') :
          Scripts!EvaluatedUpTo(k)' /\ LoadingFrom(activities', directory', k)
    BY <1>1, <1>8, <1>9, <2>1
  <2> QED
    BY <1>1, <1>3, <1>4, <1>10, <2>2 DEF LevelInv
<1> QED
  BY <1>1, <1>4, <1>7, <1>11 DEF ContextsInv

\* The activity of loading, and how far it has come.
LEMMA LoadActivity ==
  ASSUME ContextsInv, Scripts!In("load")
  PROVE  /\ activities # <<>> /\ Len(activities) = 1 /\ level = "running"
         /\ Scripts!Top = activities[1] /\ Scripts!Top \in Load /\ IdsGiven(Scripts!Top)
         /\ Scripts!Top.kind = "load"
         /\ FilesOf(scripts_) = evaluated
         /\ \E n \in 0..Len(directory) :
              Scripts!EvaluatedUpTo(n) /\ LoadingFrom(activities, directory, n)
<1>1. activities # <<>> /\ Scripts!Top.kind = "load"
  BY DEF Scripts!In
<1>2. /\ Len(activities) = 1 /\ level = "running" /\ Scripts!Top = activities[Len(activities)]
      /\ Scripts!Top \in Activity /\ IdsGiven(Scripts!Top)
  BY <1>1, TopActivity DEF ActivityRight
<1>3. Scripts!Top \in Load
  BY <1>1, <1>2 DEF Activity, Load, Notification, Frame
<1> QED
  BY <1>1, <1>2, <1>3 DEF ContextsInv, LevelInv

\* It goes on, with the same files evaluated.
LEMMA LoadGoesOn ==
  ASSUME ContextsInv, Scripts!In("load"), NEW d \in Load, IdsGiven(d), Scripts!SetTop(d),
         UNCHANGED <<level, directory, scripts_, evaluated>>,
         NEW k \in 0..Len(directory), Scripts!EvaluatedUpTo(k), LoadingFrom(<<d>>, directory, k)
  PROVE  ContextsInv'
<1>1. ActivityRight(d, scripts_) /\ d.kind = "load"
  BY DEF ActivityRight, Activity, Load
<1>2. /\ ActivitiesOk(activities', scripts_) /\ activities' # <<>> /\ activities'[1] = d
      /\ level = "running" /\ FilesOf(scripts_) = evaluated
  BY <1>1, LoadActivity, SetTopActivity
<1>3. Scripts!EvaluatedUpTo(k)'
  BY DEF Scripts!EvaluatedUpTo
<1>4. LoadingFrom(activities', directory, k)
  BY <1>2 DEF LoadingFrom
<1>5. LevelInv'
  BY <1>2, <1>3, <1>4 DEF ContextsInv, LevelInv
<1> QED
  BY <1>2, <1>5 DEF ContextsInv

LEMMA SkipFileInv == ASSUME ContextsInv, Scripts!SkipFile PROVE ContextsInv'
<1> DEFINE a == Scripts!Top
           d == [a EXCEPT !.todo = Tail(@)]
<1>1. /\ Scripts!In("load") /\ ~a.running /\ a.todo # <<>> /\ Head(a.todo) \notin Chai
      /\ Scripts!SetTop(d) /\ UNCHANGED <<level, directory, scripts_, evaluated>>
  BY DEF Scripts!SkipFile
<1>2. PICK n \in 0..Len(directory) :
        Scripts!EvaluatedUpTo(n) /\ LoadingFrom(activities, directory, n)
  BY <1>1, LoadActivity
<1>3. /\ a \in Load /\ IdsGiven(a) /\ a.kind = "load" /\ a = activities[1] /\ activities # <<>>
      /\ directory \in Seq(Files)
  BY <1>1, LoadActivity DEF ContextsInv, LevelInv
<1>4. /\ a.todo \in Seq(Files) /\ Len(a.todo) \in Nat \ {0}
      /\ Len(a.todo) = Len(directory) - n /\ Len(directory) \in Nat
      /\ \A i \in 1..Len(a.todo) : a.todo[i] = directory[n + i]
  BY <1>1, <1>2, <1>3 DEF LoadingFrom, Load
<1>5. /\ Tail(a.todo) \in Seq(Files) /\ Len(Tail(a.todo)) = Len(a.todo) - 1
      /\ \A i \in 1..(Len(a.todo) - 1) : Tail(a.todo)[i] = a.todo[i + 1]
      /\ Head(a.todo) = a.todo[1]
  BY <1>1, <1>4
<1>6. /\ d \in Load /\ d.kind = "load" /\ d.todo = Tail(a.todo) /\ ~d.running
      /\ d.listeners = a.listeners /\ d.current_listener_id_ = a.current_listener_id_
  BY <1>1, <1>3, <1>5 DEF Load
<1> HIDE DEF d, a
<1>7. n + 1 \in 0..Len(directory)
  BY <1>2, <1>4
<1>8. Scripts!EvaluatedUpTo(n + 1)
  <2>1. directory[n + 1] \notin Chai
    BY <1>1, <1>4, <1>5
  <2>2. 1..(n + 1) = 1..n \cup {n + 1}
    BY <1>2
  <2>3. {directory[j] : j \in 1..(n + 1)} \cap Chai = {directory[j] : j \in 1..n} \cap Chai
    BY <2>1, <2>2
  <2>4. \A i, j \in DOMAIN evaluated : i < j =>
          \E p, q \in 1..(n + 1) : p < q /\ evaluated[i] = directory[p] /\ evaluated[j] = directory[q]
    BY <1>2, <2>2 DEF Scripts!EvaluatedUpTo
  <2> QED
    BY <1>2, <2>3, <2>4 DEF Scripts!EvaluatedUpTo
<1>9. LoadingFrom(<<d>>, directory, n + 1)
  <2>1. Len(d.todo) = Len(directory) - (n + 1)
    BY <1>2, <1>4, <1>5, <1>6
  <2>2. \A i \in 1..Len(d.todo) : d.todo[i] = directory[(n + 1) + i]
    <3> TAKE i \in 1..Len(d.todo)
    <3>1. d.todo[i] = a.todo[i + 1] /\ i + 1 \in 1..Len(a.todo) /\ n + (i + 1) = (n + 1) + i
      BY <1>2, <1>4, <1>5, <1>6
    <3> QED
      BY <1>4, <3>1
  <2> QED
    BY <1>6, <2>1, <2>2 DEF LoadingFrom
<1>10. IdsGiven(d)
  BY <1>3, <1>6 DEF IdsGiven
<1> QED
  BY <1>1, <1>6, <1>7, <1>8, <1>9, <1>10, LoadGoesOn

LEMMA LoadScriptInv == ASSUME ContextsInv, Scripts!LoadScript PROVE ContextsInv'
<1> DEFINE a == Scripts!Top
           d == [a EXCEPT !.running = TRUE, !.listeners = {}, !.current_listener_id_ = 0]
<1>1. /\ Scripts!In("load") /\ a.todo # <<>> /\ Head(a.todo) \in Chai
      /\ Scripts!SetTop(d) /\ UNCHANGED <<level, directory, scripts_, evaluated>>
  BY DEF Scripts!LoadScript
<1>2. PICK n \in 0..Len(directory) :
        Scripts!EvaluatedUpTo(n) /\ LoadingFrom(activities, directory, n)
  BY <1>1, LoadActivity
<1>3. a \in Load /\ a.kind = "load" /\ a = activities[1] /\ activities # <<>>
  BY <1>1, LoadActivity
<1>4. d \in Load /\ d.kind = "load" /\ d.todo = a.todo /\ d.listeners = {}
  BY <1>3 DEF Load
<1> HIDE DEF d, a
<1>5. LoadingFrom(<<d>>, directory, n)
  BY <1>1, <1>2, <1>3, <1>4 DEF LoadingFrom
<1>6. IdsGiven(d)
  BY <1>4 DEF IdsGiven
<1> QED
  BY <1>1, <1>2, <1>4, <1>5, <1>6, LoadGoesOn

\* The file joins the others, and is the next of the directory.
LEMMA LoadedInv == ASSUME ContextsInv, Scripts!Loaded PROVE ContextsInv'
<1> DEFINE a == Scripts!Top
           c == [file |-> Head(a.todo), listeners |-> a.listeners,
                 current_listener_id_ |-> a.current_listener_id_]
           d == [a EXCEPT !.running = FALSE, !.todo = Tail(@)]
           f == Head(a.todo)
           L == Len(scripts_)
<1>1. /\ Scripts!In("load") /\ a.running /\ Scripts!SetTop(d)
      /\ scripts_' = Append(scripts_, c) /\ evaluated' = Append(evaluated, f)
      /\ UNCHANGED <<level, directory>>
  BY DEF Scripts!Loaded
<1>2. PICK n \in 0..Len(directory) :
        Scripts!EvaluatedUpTo(n) /\ LoadingFrom(activities, directory, n)
  BY <1>1, LoadActivity
<1>3. /\ a \in Load /\ IdsGiven(a) /\ a.kind = "load" /\ a = activities[1] /\ activities # <<>>
      /\ directory \in Seq(Files) /\ evaluated \in Seq(Files) /\ FilesOf(scripts_) = evaluated
      /\ ScriptsOk(scripts_) /\ scripts_ \in Seq(Context) /\ level = "running"
  BY <1>1, LoadActivity DEF ContextsInv, LevelInv, ScriptsOk
<1>4. /\ a.todo \in Seq(Files) /\ Len(a.todo) \in Nat \ {0} /\ a.todo # <<>> /\ f \in Chai
      /\ Len(a.todo) = Len(directory) - n /\ Len(directory) \in Nat
      /\ \A i \in 1..Len(a.todo) : a.todo[i] = directory[n + i]
  BY <1>1, <1>2, <1>3 DEF LoadingFrom, Load
<1>5. /\ Tail(a.todo) \in Seq(Files) /\ Len(Tail(a.todo)) = Len(a.todo) - 1
      /\ \A i \in 1..(Len(a.todo) - 1) : Tail(a.todo)[i] = a.todo[i + 1]
      /\ f = a.todo[1] /\ f \in Files
  BY <1>4
<1>6. /\ d \in Load /\ d.kind = "load" /\ d.todo = Tail(a.todo) /\ ~d.running
      /\ d.listeners = a.listeners /\ d.current_listener_id_ = a.current_listener_id_
  BY <1>3, <1>5 DEF Load
<1>7. /\ c \in Context /\ c.file = f /\ c.listeners = a.listeners
      /\ c.current_listener_id_ = a.current_listener_id_
  BY <1>3, <1>5 DEF Load, Context
<1> HIDE DEF d, a, c, f
<1>8. IdsGiven(c) /\ IdsGiven(d)
  BY <1>3, <1>6, <1>7 DEF IdsGiven
<1>9. /\ scripts_' \in Seq(Context) /\ Len(scripts_') = L + 1 /\ L \in Nat
      /\ scripts_'[L + 1] = c /\ \A i \in 1..L : scripts_'[i] = scripts_[i]
  BY <1>1, <1>3, <1>7
<1>10. ScriptsOk(scripts_')
  BY <1>3, <1>8, <1>9 DEF ScriptsOk
<1>11. ActivitiesOk(activities', scripts_')
  <2>1. /\ activities \in Seq(Activity) /\ Len(activities) = 1 /\ activities # <<>>
        /\ activities' = [activities EXCEPT ![Len(activities)] = d]
    BY <1>1, TopActivity, LoadActivity DEF Scripts!SetTop
  <2>2. /\ activities' \in Seq(Activity) /\ Len(activities') = 1 /\ activities'[1] = d
    <3>1. d \in Activity
      BY <1>6 DEF Activity
    <3> QED
      BY <2>1, <3>1, TopSet
  <2>3. ActivityRight(d, scripts_')
    BY <1>6, <1>8 DEF ActivityRight, Activity
  <2> QED
    BY <2>2, <2>3 DEF ActivitiesOk
<1>12. /\ evaluated' \in Seq(Files) /\ Len(evaluated') = Len(evaluated) + 1
       /\ evaluated'[Len(evaluated) + 1] = f /\ Len(evaluated) \in Nat
       /\ \A i \in 1..Len(evaluated) : evaluated'[i] = evaluated[i]
       /\ Len(evaluated) = L
  <2>1. DOMAIN FilesOf(scripts_) = 1..L
    BY <1>3 DEF FilesOf
  <2>2. DOMAIN evaluated = 1..Len(evaluated) /\ Len(evaluated) \in Nat /\ L \in Nat
    BY <1>3
  <2>3. Len(evaluated) = L
    BY <1>3, <2>1, <2>2
  <2> QED
    BY <1>1, <1>3, <1>5, <2>3
<1>13. FilesOf(scripts_') = evaluated'
  <2>1. DOMAIN evaluated' = 1..(L + 1) /\ DOMAIN scripts_' = 1..(L + 1)
    BY <1>9, <1>12
  <2>2. \A i \in 1..L : scripts_[i].file = evaluated[i]
    <3>1. FilesOf(scripts_) = [i \in 1..L |-> scripts_[i].file]
      BY <1>3 DEF FilesOf
    <3> QED
      BY <1>3, <3>1
  <2>3. \A i \in 1..(L + 1) : scripts_'[i].file = evaluated'[i]
    BY <1>7, <1>9, <1>12, <2>2
  <2>4. evaluated' = [i \in 1..(L + 1) |-> evaluated'[i]]
    BY <1>9, <1>12
  <2> QED
    BY <2>1, <2>3, <2>4 DEF FilesOf
<1>14. n + 1 \in 0..Len(directory) /\ directory[n + 1] = f /\ 1..(n + 1) = 1..n \cup {n + 1}
  BY <1>2, <1>4, <1>5
<1>15. Scripts!EvaluatedUpTo(n + 1)'
  <2> DEFINE ev == evaluated'
             M == Len(evaluated)
  <2>1. DOMAIN evaluated = 1..M /\ DOMAIN ev = 1..M \cup {M + 1} /\ M \in Nat
    BY <1>3, <1>12
  <2>2. {ev[i] : i \in DOMAIN ev} = {evaluated[i] : i \in DOMAIN evaluated} \cup {f}
    BY <1>12, <2>1
  <2>3. {directory[j] : j \in 1..(n + 1)} \cap Chai = ({directory[j] : j \in 1..n} \cap Chai) \cup {f}
    BY <1>4, <1>14
  <2>4. ASSUME NEW i \in DOMAIN ev, NEW k \in DOMAIN ev, i < k
        PROVE  \E p, q \in 1..(n + 1) : p < q /\ ev[i] = directory[p] /\ ev[k] = directory[q]
    <3>1. i \in 1..M /\ ev[i] = evaluated[i]
      BY <1>12, <2>1, <2>4
    <3>2. CASE k \in 1..M
      <4>1. PICK p, q \in 1..n : p < q /\ evaluated[i] = directory[p] /\ evaluated[k] = directory[q]
        BY <1>2, <2>1, <2>4, <3>1, <3>2 DEF Scripts!EvaluatedUpTo
      <4> QED
        BY <1>12, <1>14, <3>1, <3>2, <4>1
    <3>3. CASE k = M + 1
      <4>1. PICK p \in 1..n : evaluated[i] = directory[p]
        BY <1>2, <2>1, <3>1 DEF Scripts!EvaluatedUpTo
      <4>2. p < n + 1 /\ p \in 1..(n + 1) /\ n + 1 \in 1..(n + 1) /\ ev[k] = directory[n + 1]
        BY <1>2, <1>12, <1>14, <3>3, <4>1
      <4> QED
        BY <3>1, <4>1, <4>2
    <3> QED
      BY <2>1, <3>2, <3>3
  <2>5. directory' = directory /\ {ev[i] : i \in DOMAIN ev} = {directory[j] : j \in 1..(n + 1)} \cap Chai
    BY <1>1, <1>2, <2>2, <2>3 DEF Scripts!EvaluatedUpTo
  <2> QED
    BY <2>4, <2>5 DEF Scripts!EvaluatedUpTo
<1>16. LoadingFrom(activities', directory, n + 1)
  <2>1. activities'[1] = d
    BY <1>1, <1>3, TopActivity, LoadActivity DEF Scripts!SetTop
  <2>2. Len(d.todo) = Len(directory) - (n + 1)
    BY <1>2, <1>4, <1>5, <1>6
  <2>3. \A i \in 1..Len(d.todo) : d.todo[i] = directory[(n + 1) + i]
    <3> TAKE i \in 1..Len(d.todo)
    <3>1. d.todo[i] = a.todo[i + 1] /\ i + 1 \in 1..Len(a.todo) /\ n + (i + 1) = (n + 1) + i
      BY <1>2, <1>4, <1>5, <1>6
    <3> QED
      BY <1>4, <3>1
  <2> QED
    BY <1>6, <2>1, <2>2, <2>3 DEF LoadingFrom
<1>17. LevelInv'
  <2>1. \E k \in 0..Len(directory') :
          Scripts!EvaluatedUpTo(k)' /\ LoadingFrom(activities', directory', k)
    BY <1>1, <1>14, <1>15, <1>16
  <2> QED
    BY <1>1, <1>3, <1>12, <1>13, <2>1 DEF LevelInv
<1> QED
  BY <1>10, <1>11, <1>17 DEF ContextsInv

\* One context changes: no listener comes back to it.
LEMMA ContextChanged ==
  ASSUME ContextsInv, NEW k \in 1..Len(scripts_), NEW c \in Context, IdsGiven(c),
         scripts_' = [scripts_ EXCEPT ![k] = c], c.file = scripts_[k].file,
         scripts_[k].current_listener_id_ <= c.current_listener_id_,
         \A x \in c.listeners :
           x \in scripts_[k].listeners \/ x.id > scripts_[k].current_listener_id_,
         NEW s, ActivitiesOk(s, scripts_)
  PROVE  /\ ScriptsOk(scripts_') /\ ActivitiesOk(s, scripts_')
         /\ FilesOf(scripts_') = FilesOf(scripts_)
<1>1. ScriptsOk(scripts_) /\ scripts_ \in Seq(Context) /\ Len(scripts_) \in Nat
  BY DEF ContextsInv, ScriptsOk
<1>2. /\ scripts_' \in Seq(Context) /\ Len(scripts_') = Len(scripts_) /\ scripts_'[k] = c
      /\ \A i \in 1..Len(scripts_) : i # k => scripts_'[i] = scripts_[i]
      /\ DOMAIN scripts_' = DOMAIN scripts_ /\ DOMAIN scripts_ = 1..Len(scripts_)
  BY <1>1
<1>3. ScriptsOk(scripts_')
  BY <1>1, <1>2 DEF ScriptsOk
<1>4. FilesOf(scripts_') = FilesOf(scripts_)
  <2>1. \A i \in DOMAIN scripts_ : scripts_'[i].file = scripts_[i].file
    BY <1>2
  <2> QED
    BY <1>2, <2>1 DEF FilesOf
<1>5. \A i \in 1..Len(scripts_) :
        /\ scripts_[i].current_listener_id_ <= scripts_'[i].current_listener_id_
        /\ \A x \in scripts_'[i].listeners :
             x \in scripts_[i].listeners \/ x.id > scripts_[i].current_listener_id_
  <2> TAKE i \in 1..Len(scripts_)
  <2>1. scripts_[i].current_listener_id_ \in Nat
    <3>1. scripts_[i] \in Context
      BY <1>1
    <3> QED
      BY <3>1 DEF Context
  <2> QED
    BY <1>2, <2>1
<1> DEFINE new == scripts_'
<1>6. /\ ScriptsOk(new) /\ Len(scripts_) <= Len(new)
      /\ \A i \in 1..Len(scripts_) :
           /\ scripts_[i].current_listener_id_ <= new[i].current_listener_id_
           /\ \A x \in new[i].listeners :
                x \in scripts_[i].listeners \/ x.id > scripts_[i].current_listener_id_
  BY <1>1, <1>2, <1>3, <1>5
<1> HIDE DEF new
<1>7. \A a : ActivityRight(a, scripts_) => ActivityRight(a, new)
  BY <1>1, <1>6, ActivityKept
<1>8. ActivitiesOk(s, new)
  BY <1>7 DEF ActivitiesOk
<1> QED
  BY <1>3, <1>4, <1>8 DEF new

\* Listening to one more event leaves those there are.
LEMMA ListenedFacts ==
  ASSUME NEW c, NEW name \in Heard, NEW entity \in Hearers \cup {Scripts!AnyEntity},
         NEW volatile \in BOOLEAN, c \in Context \/ c \in Load, IdsGiven(c)
  PROVE  LET d == Scripts!Listened(c, name, entity, volatile)
         IN  /\ c \in Context => d \in Context /\ d.file = c.file
             /\ c \in Load => d \in Load /\ d.todo = c.todo /\ d.running = c.running
             /\ IdsGiven(d) /\ c.current_listener_id_ <= d.current_listener_id_
             /\ \A x \in d.listeners : x \in c.listeners \/ x.id > c.current_listener_id_
<1> DEFINE id == c.current_listener_id_ + 1
           l == [id |-> id, event |-> name, entity |-> entity, is_volatile |-> volatile]
           d == Scripts!Listened(c, name, entity, volatile)
<1>1. c.current_listener_id_ \in Nat /\ c.listeners \subseteq ScriptListener
  BY DEF Context, Load
<1>2. id \in Nat /\ l \in ScriptListener /\ l.id = id
  BY <1>1 DEF ScriptListener
<1>3. d = [c EXCEPT !.current_listener_id_ = id, !.listeners = @ \cup {l}]
  BY DEF Scripts!Listened
<1> HIDE DEF l, d
<1>4. /\ c \in Context => d \in Context /\ d.file = c.file
      /\ c \in Load => d \in Load /\ d.todo = c.todo /\ d.running = c.running
      /\ d.current_listener_id_ = id /\ d.listeners = c.listeners \cup {l}
  BY <1>1, <1>2, <1>3 DEF Context, Load
<1>5. \A x \in c.listeners : x.id \in Nat /\ x.id <= c.current_listener_id_
  BY <1>1 DEF IdsGiven, ScriptListener
<1>6. IdsGiven(d)
  BY <1>1, <1>2, <1>4, <1>5 DEF IdsGiven
<1>7. \A x \in d.listeners : x \in c.listeners \/ x.id > c.current_listener_id_
  BY <1>1, <1>2, <1>4
<1>8. c.current_listener_id_ <= d.current_listener_id_
  BY <1>1, <1>4
<1> QED
  BY <1>4, <1>6, <1>7, <1>8 DEF d

\* A notification or a frame.
LEMMA WalkFacts ==
  ASSUME ContextsInv, activities # <<>>, Scripts!Top.kind # "load"
  PROVE  LET a == Scripts!Top
         IN  /\ ActivityRight(a, scripts_) /\ level = "running"
             /\ (a \in Notification /\ a.kind = "notify") \/ (a \in Frame /\ a.kind = "frame")
             /\ a.at \in 1..(Len(scripts_) + 1) /\ (a.running => a.at <= Len(scripts_))
             /\ Len(scripts_) \in Nat
             /\ \A i \in 1..Len(scripts_) : scripts_[i] \in Context /\ IdsGiven(scripts_[i])
<1> DEFINE a == Scripts!Top
<1>1. ActivityRight(a, scripts_) /\ level = "running" /\ a.kind # "load"
  BY TopActivity
<1> HIDE DEF a
<1>2. (a \in Notification /\ a.kind = "notify") \/ (a \in Frame /\ a.kind = "frame")
  BY <1>1 DEF ActivityRight, Activity, Load, Notification, Frame
<1>3. scripts_ \in Seq(Context) /\ \A i \in 1..Len(scripts_) : IdsGiven(scripts_[i])
  BY DEF ContextsInv, ScriptsOk
<1>4. Len(scripts_) \in Nat /\ \A i \in 1..Len(scripts_) : scripts_[i] \in Context
  BY <1>3
<1>5. a.at \in 1..(Len(scripts_) + 1) /\ (a.running => a.at <= Len(scripts_))
  BY <1>1 DEF ActivityRight
<1> QED
  BY <1>1, <1>2, <1>3, <1>4, <1>5 DEF a

\* The context whose code runs.
LEMMA OwnFacts ==
  ASSUME ContextsInv, Scripts!ScriptRuns
  PROVE  LET c == Scripts!Own
         IN  /\ activities # <<>> /\ level = "running" /\ IdsGiven(c)
             /\ Scripts!Top.kind = "load" => c \in Load /\ c = Scripts!Top
             /\ Scripts!Top.kind # "load" =>
                  /\ c \in Context /\ Scripts!Top.at \in 1..Len(scripts_)
                  /\ c = scripts_[Scripts!Top.at]
<1> DEFINE k == Scripts!Top.at
<1>1. activities # <<>> /\ Scripts!Top.running
  BY DEF Scripts!ScriptRuns
<1>2. level = "running"
  BY <1>1, TopActivity
<1>3. CASE Scripts!Top.kind = "load"
  <2>1. Scripts!In("load")
    BY <1>1, <1>3 DEF Scripts!In
  <2>2. Scripts!Top \in Load /\ IdsGiven(Scripts!Top)
    BY <2>1, LoadActivity
  <2> QED
    BY <1>1, <1>2, <1>3, <2>2 DEF Scripts!Own
<1>4. CASE Scripts!Top.kind # "load"
  <2>1. /\ k \in 1..(Len(scripts_) + 1) /\ k <= Len(scripts_) /\ Len(scripts_) \in Nat
        /\ \A i \in 1..Len(scripts_) : scripts_[i] \in Context /\ IdsGiven(scripts_[i])
    BY <1>1, <1>4, WalkFacts
  <2>2. k \in 1..Len(scripts_)
    BY <2>1
  <2> QED
    BY <1>1, <1>2, <1>4, <2>1, <2>2 DEF Scripts!Own
<1> QED
  BY <1>3, <1>4

\* It may get listeners and lose some, but none that it lost comes back.
LEMMA OwnInv ==
  ASSUME ContextsInv, Scripts!ScriptRuns, NEW d, Scripts!OwnBecomes(d),
         Scripts!Own \in Context => d \in Context /\ d.file = Scripts!Own.file,
         Scripts!Own \in Load =>
           d \in Load /\ d.todo = Scripts!Own.todo /\ d.running = Scripts!Own.running,
         IdsGiven(d), Scripts!Own.current_listener_id_ <= d.current_listener_id_,
         \A x \in d.listeners :
           x \in Scripts!Own.listeners \/ x.id > Scripts!Own.current_listener_id_
  PROVE  ContextsInv'
<1> DEFINE c == Scripts!Own
<1>1. /\ IF Scripts!Top.kind = "load" THEN Scripts!SetTop(d) /\ UNCHANGED scripts_
           ELSE scripts_' = [scripts_ EXCEPT ![Scripts!Top.at] = d] /\ UNCHANGED activities
      /\ UNCHANGED <<level, directory, evaluated>>
  BY DEF Scripts!OwnBecomes
<1>2. CASE Scripts!Top.kind = "load"
  <2>1. Scripts!In("load") /\ c = Scripts!Top /\ c \in Load
    BY <1>2, OwnFacts DEF Scripts!In
  <2>2. c = activities[1] /\ c.kind = "load"
    BY <2>1, LoadActivity
  <2>3. PICK n \in 0..Len(directory) :
          Scripts!EvaluatedUpTo(n) /\ LoadingFrom(activities, directory, n)
    BY <2>1, LoadActivity
  <2>4. d \in Load /\ d.todo = c.todo /\ d.running = c.running
    BY <2>1
  <2>5. Scripts!SetTop(d) /\ UNCHANGED <<level, directory, scripts_, evaluated>>
    BY <1>1, <1>2
  <2> HIDE DEF c
  <2>6. LoadingFrom(<<d>>, directory, n)
    BY <2>1, <2>2, <2>3, <2>4, OwnFacts DEF LoadingFrom
  <2> QED
    BY <2>1, <2>3, <2>4, <2>5, <2>6, LoadGoesOn
<1>3. CASE Scripts!Top.kind # "load"
  <2> DEFINE k == Scripts!Top.at
  <2>1. /\ scripts_' = [scripts_ EXCEPT ![k] = d] /\ UNCHANGED activities
        /\ activities # <<>> /\ level = "running"
        /\ c = scripts_[k] /\ k \in 1..Len(scripts_) /\ c \in Context
    BY <1>1, <1>3, OwnFacts
  <2>2. /\ d \in Context /\ d.file = scripts_[k].file
        /\ scripts_[k].current_listener_id_ <= d.current_listener_id_
        /\ \A x \in d.listeners :
             x \in scripts_[k].listeners \/ x.id > scripts_[k].current_listener_id_
    BY <2>1
  <2> HIDE DEF c, k
  <2>3. /\ ScriptsOk(scripts_') /\ ActivitiesOk(activities, scripts_')
        /\ FilesOf(scripts_') = FilesOf(scripts_)
    <3>1. ActivitiesOk(activities, scripts_)
      BY DEF ContextsInv
    <3> QED
      BY <2>1, <2>2, <3>1, ContextChanged
  <2>4. LevelInv'
    BY <1>1, <2>1, <2>3, LevelKept DEF ContextsInv
  <2> QED
    BY <2>1, <2>3, <2>4 DEF ContextsInv
<1> QED
  BY <1>2, <1>3

LEMMA OnNotifyInv ==
  ASSUME ContextsInv, NEW name \in Heard, NEW entity \in Hearers \cup {Scripts!AnyEntity},
         NEW volatile \in BOOLEAN, Scripts!OnNotify(name, entity, volatile)
  PROVE  ContextsInv'
<1> DEFINE c == Scripts!Own
           d == Scripts!Listened(c, name, entity, volatile)
<1>1. Scripts!ScriptRuns /\ Scripts!OwnBecomes(d)
  BY DEF Scripts!OnNotify
<1>2. (c \in Context \/ c \in Load) /\ IdsGiven(c)
  BY <1>1, OwnFacts
<1>3. /\ c \in Context => d \in Context /\ d.file = c.file
      /\ c \in Load => d \in Load /\ d.todo = c.todo /\ d.running = c.running
      /\ IdsGiven(d) /\ c.current_listener_id_ <= d.current_listener_id_
      /\ \A x \in d.listeners : x \in c.listeners \/ x.id > c.current_listener_id_
  BY <1>2, ListenedFacts
<1> HIDE DEF d
<1> QED
  BY <1>1, <1>3, OwnInv

LEMMA ListenersClearInv ==
  ASSUME ContextsInv, NEW id, Scripts!Clear(id)
  PROVE  ContextsInv'
<1> DEFINE c == Scripts!Own
           kept == {l \in c.listeners : l.id # id}
           d == [c EXCEPT !.listeners = {l \in @ : l.id # id}]
<1>1. Scripts!ScriptRuns /\ Scripts!OwnBecomes(d)
  BY DEF Scripts!Clear
<1>2. (c \in Context \/ c \in Load) /\ IdsGiven(c)
  BY <1>1, OwnFacts
<1>3. d = [c EXCEPT !.listeners = kept] /\ kept \subseteq c.listeners
  OBVIOUS
<1> HIDE DEF d, kept, c
<1>4. /\ c \in Context => d \in Context /\ d.file = c.file
      /\ c \in Load => d \in Load /\ d.todo = c.todo /\ d.running = c.running
      /\ d.current_listener_id_ = c.current_listener_id_ /\ d.listeners = kept
      /\ c.current_listener_id_ \in Nat
  <2>1. CASE c \in Context
    <3>1. kept \subseteq ScriptListener
      BY <1>3, <2>1 DEF Context
    <3> QED
      BY <1>3, <2>1, <3>1 DEF Context, Load
  <2>2. CASE c \in Load
    <3>1. kept \subseteq ScriptListener
      BY <1>3, <2>2 DEF Load
    <3> QED
      BY <1>3, <2>2, <3>1 DEF Context, Load
  <2> QED
    BY <1>2, <2>1, <2>2
<1>5. /\ IdsGiven(d) /\ c.current_listener_id_ <= d.current_listener_id_
      /\ \A x \in d.listeners : x \in c.listeners \/ x.id > c.current_listener_id_
  BY <1>2, <1>3, <1>4 DEF IdsGiven
<1> QED
  BY <1>1, <1>4, <1>5, OwnInv DEF c

\* What a notification has to tell.
LEMMA NotifiedInv ==
  ASSUME ContextsInv, NEW name \in Heard, NEW entity \in Hearers, Scripts!Notify(name, entity)
  PROVE  ContextsInv'
<1> DEFINE must == Scripts!Listening(name, entity)
           d == [kind |-> "notify", event |-> name, entity |-> entity, at |-> 1,
                 running |-> FALSE, called |-> {}, must |-> must]
<1>1. /\ level = "running" /\ activities' = Append(activities, d)
      /\ UNCHANGED <<level, directory, scripts_, evaluated>>
  BY DEF Scripts!Notify
<1>2. ScriptsOk(scripts_) /\ scripts_ \in Seq(Context) /\ Len(scripts_) \in Nat
      /\ DOMAIN scripts_ = 1..Len(scripts_)
  BY DEF ContextsInv, ScriptsOk
<1>3. \A m \in must : /\ \E i \in 1..Len(scripts_) : \E x \in scripts_[i].listeners : m = <<i, x>>
                      /\ Scripts!Matches(m[2], name, entity)
  <2> TAKE m \in must
  <2>1. /\ m \in UNION {{i} \X scripts_[i].listeners : i \in DOMAIN scripts_}
        /\ Scripts!Matches(m[2], name, entity)
    BY DEF Scripts!Listening
  <2>2. PICK i \in DOMAIN scripts_ : m \in {i} \X scripts_[i].listeners
    BY <2>1
  <2>3. \E x \in scripts_[i].listeners : m = <<i, x>>
    BY <2>2
  <2> QED
    BY <1>2, <2>1, <2>2, <2>3
<1> HIDE DEF must
<1>4. \A m \in must : /\ m[1] \in 1..Len(scripts_) /\ m[2] \in scripts_[m[1]].listeners
                      /\ m = <<m[1], m[2]>> /\ Scripts!Matches(m[2], name, entity)
  BY <1>3
<1>5. must \in SUBSET (Nat \X ScriptListener)
  <2>0. \A i \in 1..Len(scripts_) : scripts_[i] \in Context
    BY <1>2
  <2>1. \A i \in 1..Len(scripts_) : scripts_[i].listeners \subseteq ScriptListener
    BY <2>0 DEF Context
  <2> QED
    BY <1>2, <1>4, <2>1
<1>6. /\ d \in Notification /\ d.kind = "notify" /\ d.at = 1 /\ ~d.running /\ d.must = must
      /\ d.event = name /\ d.entity = entity
  BY <1>5 DEF Notification
<1> HIDE DEF d
<1>7. Told(d, scripts_)
  <2>1. \A m \in must : m[2].id <= scripts_[m[1]].current_listener_id_ /\ ~(m[1] < 1)
    BY <1>2, <1>4 DEF ScriptsOk, IdsGiven
  <2> QED
    BY <1>4, <1>6, <2>1 DEF Told
<1>8. ActivityRight(d, scripts_)
  BY <1>2, <1>6, <1>7 DEF ActivityRight, Activity
<1> QED
  BY <1>1, <1>6, <1>8, PushInv

\* Code of a script begins or ends.
LEMMA RunningRight ==
  ASSUME ContextsInv, activities # <<>>, Scripts!Top.kind # "load", NEW b \in BOOLEAN,
         b => Scripts!Top.at <= Len(scripts_), NEW C \in SUBSET (Nat \X ScriptListener)
  PROVE  LET a == Scripts!Top
             d == [a EXCEPT !.running = b]
             e == [a EXCEPT !.running = b, !.called = @ \cup C]
         IN  /\ ActivityRight(d, scripts_) /\ d.kind # "load"
             /\ a.kind = "notify" => ActivityRight(e, scripts_) /\ e.kind # "load"
<1> DEFINE a == Scripts!Top
           d == [a EXCEPT !.running = b]
           e == [a EXCEPT !.running = b, !.called = @ \cup C]
<1>1. /\ ActivityRight(a, scripts_)
      /\ (a \in Notification /\ a.kind = "notify") \/ (a \in Frame /\ a.kind = "frame")
      /\ a.at \in 1..(Len(scripts_) + 1) /\ (b => a.at <= Len(scripts_))
  BY WalkFacts
<1> HIDE DEF a
<1>2. CASE a \in Frame /\ a.kind = "frame"
  <2>1. d \in Frame /\ d.kind = "frame" /\ d.at = a.at /\ d.running = b
    BY <1>2 DEF Frame
  <2> HIDE DEF d, e
  <2> QED
    BY <1>1, <1>2, <2>1 DEF ActivityRight, Activity, a, d, e
<1>3. CASE a \in Notification /\ a.kind = "notify"
  <2>1. /\ d \in Notification /\ d.kind = "notify" /\ d.at = a.at /\ d.running = b
        /\ d.event = a.event /\ d.entity = a.entity /\ d.must = a.must /\ d.called = a.called
        /\ e \in Notification /\ e.kind = "notify" /\ e.at = a.at /\ e.running = b
        /\ e.event = a.event /\ e.entity = a.entity /\ e.must = a.must
        /\ e.called = a.called \cup C
    BY <1>3 DEF Notification
  <2> HIDE DEF d, e
  <2>2. Told(a, scripts_)
    BY <1>1, <1>3 DEF ActivityRight
  <2>3. Told(d, scripts_) /\ Told(e, scripts_)
    BY <2>1, <2>2 DEF Told
  <2> QED
    BY <1>1, <1>3, <2>1, <2>3 DEF ActivityRight, Activity, a, d, e
<1> QED
  BY <1>1, <1>2, <1>3

LEMMA CallTimerInv == ASSUME ContextsInv, Scripts!CallTimer PROVE ContextsInv'
<1> DEFINE d == [Scripts!Top EXCEPT !.running = TRUE]
<1>1. /\ activities # <<>> /\ Scripts!Top.kind = "frame" /\ Scripts!Top.at <= Len(scripts_)
      /\ Scripts!SetTop(d) /\ UNCHANGED <<level, directory, scripts_, evaluated>>
  BY DEF Scripts!CallTimer, Scripts!AtScript, Scripts!Walking, Scripts!In
<1>2. ActivityRight(d, scripts_) /\ d.kind # "load"
  BY <1>1, RunningRight
<1> QED
  BY <1>1, <1>2, GoesOn

LEMMA CodeReturnsInv == ASSUME ContextsInv, Scripts!CodeReturns PROVE ContextsInv'
<1> DEFINE d == [Scripts!Top EXCEPT !.running = FALSE]
<1>1. /\ activities # <<>> /\ Scripts!Top.kind # "load"
      /\ Scripts!SetTop(d) /\ UNCHANGED <<level, directory, scripts_, evaluated>>
  BY DEF Scripts!CodeReturns, Scripts!ScriptRuns
<1>2. ActivityRight(d, scripts_) /\ d.kind # "load"
  BY <1>1, RunningRight
<1> QED
  BY <1>1, <1>2, GoesOn

\* A listener is called, and is gone before if it is volatile.
LEMMA CallListenerInv ==
  ASSUME ContextsInv, NEW l, Scripts!CallListener(l)
  PROVE  ContextsInv'
<1> DEFINE a == Scripts!Top
           k == a.at
           d == [a EXCEPT !.running = TRUE, !.called = @ \cup {<<k, l>>}]
           c == [scripts_[k] EXCEPT !.listeners = @ \ {l}]
<1>1. /\ activities # <<>> /\ a.kind = "notify" /\ k <= Len(scripts_) /\ Scripts!SetTop(d)
      /\ l \in scripts_[k].listeners
      /\ scripts_' = IF l.is_volatile THEN [scripts_ EXCEPT ![k].listeners = @ \ {l}]
                                      ELSE scripts_
      /\ UNCHANGED <<level, directory, evaluated>>
  BY DEF Scripts!CallListener, Scripts!AtScript, Scripts!Walking, Scripts!In, Scripts!Due
<1>2. /\ k \in 1..Len(scripts_) /\ k \in Nat /\ level = "running"
      /\ scripts_[k] \in Context /\ IdsGiven(scripts_[k])
  <2>1. /\ k \in 1..(Len(scripts_) + 1) /\ Len(scripts_) \in Nat /\ level = "running"
        /\ \A i \in 1..Len(scripts_) : scripts_[i] \in Context /\ IdsGiven(scripts_[i])
    BY <1>1, WalkFacts
  <2>2. k \in 1..Len(scripts_) /\ k \in Nat
    BY <1>1, <2>1
  <2> QED
    BY <2>1, <2>2
<1>3. {<<k, l>>} \in SUBSET (Nat \X ScriptListener)
  BY <1>1, <1>2 DEF Context
<1>4. ActivityRight(d, scripts_) /\ d.kind # "load"
  BY <1>1, <1>3, RunningRight
<1>5. /\ ActivitiesOk(activities', scripts_) /\ activities' # <<>>
      /\ \A n : LoadingFrom(activities, directory, n) => LoadingFrom(activities', directory, n)
  BY <1>1, <1>4, SetTopActivity
<1>6. /\ ScriptsOk(scripts_') /\ ActivitiesOk(activities', scripts_')
      /\ FilesOf(scripts_') = FilesOf(scripts_)
  <2>1. CASE ~l.is_volatile
    BY <1>1, <1>5, <2>1 DEF ContextsInv
  <2>2. CASE l.is_volatile
    <3>1. scripts_' = [scripts_ EXCEPT ![k] = c]
      BY <1>1, <2>2
    <3>2. /\ c \in Context /\ c.file = scripts_[k].file
          /\ c.current_listener_id_ = scripts_[k].current_listener_id_
          /\ c.listeners = scripts_[k].listeners \ {l} /\ c.current_listener_id_ \in Nat
      BY <1>2 DEF Context
    <3>3. IdsGiven(c)
      BY <1>2, <3>2 DEF IdsGiven
    <3> HIDE DEF a, k, c
    <3>4. /\ scripts_[k].current_listener_id_ <= c.current_listener_id_
          /\ \A x \in c.listeners :
               x \in scripts_[k].listeners \/ x.id > scripts_[k].current_listener_id_
      BY <3>2
    <3> QED
      BY <1>2, <1>5, <3>1, <3>2, <3>3, <3>4, ContextChanged
  <2> QED
    BY <2>1, <2>2
<1>7. LevelInv'
  BY <1>1, <1>2, <1>5, <1>6, LevelKept DEF ContextsInv
<1> QED
  BY <1>6, <1>7 DEF ContextsInv

\* The walk goes on from a script whose listeners have all been told.
LEMMA NextScriptInv ==
  ASSUME ContextsInv, NEW kind \in {"notify", "frame"}, Scripts!NextScript(kind)
  PROVE  ContextsInv'
<1> DEFINE a == Scripts!Top
           d == [a EXCEPT !.at = @ + 1]
<1>1. /\ activities # <<>> /\ a.kind = kind /\ ~a.running /\ a.at <= Len(scripts_)
      /\ kind = "notify" => Scripts!Due = {}
      /\ Scripts!SetTop(d) /\ UNCHANGED <<level, directory, scripts_, evaluated>>
  BY DEF Scripts!NextScript, Scripts!AtScript, Scripts!Walking, Scripts!In
<1>2. /\ ActivityRight(a, scripts_) /\ a.at \in 1..(Len(scripts_) + 1) /\ Len(scripts_) \in Nat
      /\ (a \in Notification /\ a.kind = "notify") \/ (a \in Frame /\ a.kind = "frame")
  BY <1>1, WalkFacts
<1>3. a.at + 1 \in 1..(Len(scripts_) + 1) /\ a.at \in Nat
  BY <1>1, <1>2
<1>4. kind = "notify" =>
        \A x \in scripts_[a.at].listeners :
          Scripts!Matches(x, a.event, a.entity) => <<a.at, x>> \in a.called
  BY <1>1 DEF Scripts!Due
<1> HIDE DEF a
<1>5. ActivityRight(d, scripts_) /\ d.kind # "load"
  <2>1. CASE a \in Frame /\ a.kind = "frame"
    <3>1. d \in Frame /\ d.kind = "frame" /\ d.at = a.at + 1 /\ ~d.running
      BY <1>1, <1>3, <2>1 DEF Frame
    <3> HIDE DEF d
    <3> QED
      BY <1>3, <3>1 DEF ActivityRight, Activity
  <2>2. CASE a \in Notification /\ a.kind = "notify"
    <3>1. /\ d \in Notification /\ d.kind = "notify" /\ d.at = a.at + 1 /\ ~d.running
          /\ d.event = a.event /\ d.entity = a.entity /\ d.must = a.must /\ d.called = a.called
      BY <1>1, <1>3, <2>2 DEF Notification
    <3> HIDE DEF d
    <3>2. Told(a, scripts_)
      BY <1>2, <2>2 DEF ActivityRight
    <3>3. ASSUME NEW m \in a.must, m[1] < a.at + 1
          PROVE  m \in a.called \/ m[2] \notin scripts_[m[1]].listeners
      <4>1. /\ m[1] \in 1..Len(scripts_) /\ Scripts!Matches(m[2], a.event, a.entity)
            /\ m[1] < a.at => m \in a.called \/ m[2] \notin scripts_[m[1]].listeners
        BY <3>2 DEF Told
      <4>2. m = <<m[1], m[2]>>
        BY <2>2 DEF Notification
      <4>3. m[1] < a.at \/ m[1] = a.at
        BY <1>3, <3>3, <4>1
      <4>4. CASE m[1] = a.at
        BY <1>1, <1>4, <2>2, <4>1, <4>2, <4>4
      <4> QED
        BY <4>1, <4>3, <4>4
    <3>4. Told(d, scripts_)
      BY <3>1, <3>2, <3>3 DEF Told
    <3> QED
      BY <1>3, <3>1, <3>4 DEF ActivityRight, Activity
  <2> QED
    BY <1>2, <2>1, <2>2
<1> QED
  BY <1>1, <1>5, GoesOn

\* What a listener throws ends the walk, and what it is to tell.
LEMMA ListenerThrowsInv == ASSUME ContextsInv, Scripts!ListenerThrows PROVE ContextsInv'
<1> DEFINE a == Scripts!Top
           d == [a EXCEPT !.running = FALSE, !.at = Len(scripts_) + 1,
                          !.must = {m \in @ : m[1] < a.at}]
<1>1. /\ activities # <<>> /\ a.kind = "notify"
      /\ Scripts!SetTop(d) /\ UNCHANGED <<level, directory, scripts_, evaluated>>
  BY DEF Scripts!ListenerThrows, Scripts!In
<1>2. ActivityRight(a, scripts_) /\ Len(scripts_) \in Nat /\ a \in Notification
  BY <1>1, WalkFacts DEF Notification, Frame
<1> HIDE DEF a
<1>3. /\ d \in Notification /\ d.kind = "notify" /\ d.at = Len(scripts_) + 1 /\ ~d.running
      /\ d.event = a.event /\ d.entity = a.entity /\ d.called = a.called
      /\ d.must = {m \in a.must : m[1] < a.at}
  <2> DEFINE must == {m \in a.must : m[1] < a.at}
  <2>1. must \in SUBSET (Nat \X ScriptListener)
    BY <1>2 DEF Notification
  <2> HIDE DEF must
  <2>2. d = [a EXCEPT !.running = FALSE, !.at = Len(scripts_) + 1, !.must = must]
    BY DEF must
  <2> HIDE DEF d
  <2>3. /\ d \in Notification /\ d.kind = "notify" /\ d.at = Len(scripts_) + 1 /\ ~d.running
        /\ d.event = a.event /\ d.entity = a.entity /\ d.called = a.called /\ d.must = must
    <3>1. Len(scripts_) + 1 \in Nat
      BY <1>2
    <3> QED
      BY <1>1, <1>2, <2>1, <2>2, <3>1 DEF Notification
  <2> QED
    BY <2>3 DEF must
<1> HIDE DEF d
<1>4. Told(a, scripts_)
  BY <1>1, <1>2 DEF ActivityRight
<1>5. Told(d, scripts_)
  BY <1>3, <1>4 DEF Told
<1>6. ActivityRight(d, scripts_) /\ d.kind # "load"
  BY <1>2, <1>3, <1>5 DEF ActivityRight, Activity
<1> QED
  BY <1>1, <1>6, GoesOn

LEMMA RunFrameInv == ASSUME ContextsInv, Scripts!RunFrame PROVE ContextsInv'
<1> DEFINE d == [kind |-> "frame", at |-> 1, running |-> FALSE]
<1>1. /\ level = "running" /\ activities = <<>> /\ activities' = <<d>>
      /\ UNCHANGED <<level, directory, scripts_, evaluated>>
  BY DEF Scripts!RunFrame
<1>2. Len(scripts_) \in Nat
  BY DEF ContextsInv, ScriptsOk
<1>3. d \in Frame /\ d.kind = "frame" /\ d.at = 1 /\ ~d.running
  BY DEF Frame
<1> HIDE DEF d
<1>4. ActivityRight(d, scripts_) /\ d.kind # "load" /\ activities' = Append(activities, d)
  BY <1>1, <1>2, <1>3 DEF ActivityRight, Activity
<1> QED
  BY <1>1, <1>4, PushInv

LEMMA ContextsNext ==
  ContextsInv /\ [Scripts!Next]_scriptsVars => ContextsInv'
<1> SUFFICES ASSUME ContextsInv, [Scripts!Next]_scriptsVars PROVE ContextsInv'
  OBVIOUS
<1>1. CASE UNCHANGED scriptsVars
  <2>1. LevelInv'
    BY <1>1, LevelKept DEF scriptsVars, ContextsInv, LevelInv
  <2> QED
    BY <1>1, <2>1 DEF scriptsVars, ContextsInv
<1>2. CASE \E files \in Scripts!Listings : Scripts!StartExecution(files)
  BY <1>2, ListenersStartInv
<1>3. CASE Scripts!SkipFile
  BY <1>3, SkipFileInv
<1>4. CASE Scripts!LoadScript
  BY <1>4, LoadScriptInv
<1>5. CASE Scripts!Loaded
  BY <1>5, LoadedInv
<1>6. CASE Scripts!LoadFails \/ Scripts!StartReturns \/ Scripts!GameNotified \/ Scripts!FrameReturns
  <2>1. activities # <<>> /\ Scripts!Pop /\ UNCHANGED <<level, directory, scripts_, evaluated>>
    BY <1>6 DEF Scripts!LoadFails, Scripts!StartReturns, Scripts!GameNotified,
                Scripts!FrameReturns, Scripts!AtEnd, Scripts!Walking, Scripts!In
  <2> QED
    BY <2>1, PopInv
<1>7. CASE Scripts!StopExecution \/ Scripts!Uncaught \/ Scripts!ComError \/ Scripts!PreDestroy
  <2>1. /\ activities' = <<>> /\ UNCHANGED <<directory, evaluated>>
        /\ \/ level' \in {"ended", "stopped"} /\ scripts_' = <<>>
           \/ level' = "ended" /\ UNCHANGED scripts_
           \/ level = "running" /\ level' = "dropped" /\ UNCHANGED scripts_
    BY <1>7 DEF Scripts!StopExecution, Scripts!Uncaught, Scripts!ComError, Scripts!PreDestroy
  <2> QED
    BY <2>1, LeftInv
<1>8. CASE \E name \in Heard, entity \in Hearers \cup {Scripts!AnyEntity}, volatile \in BOOLEAN :
             Scripts!OnNotify(name, entity, volatile)
  BY <1>8, OnNotifyInv
<1>9. CASE \E name \in Heard, entity \in Hearers : Scripts!Notify(name, entity)
  BY <1>9, NotifiedInv
<1>10. CASE \E i \in DOMAIN scripts_ : \E l \in scripts_[i].listeners : Scripts!CallListener(l)
  BY <1>10, CallListenerInv
<1>11. CASE \E kind \in {"notify", "frame"} : Scripts!NextScript(kind)
  BY <1>11, NextScriptInv
<1>12. CASE Scripts!CodeReturns
  BY <1>12, CodeReturnsInv
<1>13. CASE Scripts!ListenerThrows
  BY <1>13, ListenerThrowsInv
<1>14. CASE Scripts!RunFrame
  BY <1>14, RunFrameInv
<1>15. CASE Scripts!CallTimer
  BY <1>15, CallTimerInv
<1>16. CASE \E id \in 1..MaxHeard : Scripts!Clear(id)
  BY <1>16, ListenersClearInv
<1> QED
  BY <1>1, <1>2, <1>3, <1>4, <1>5, <1>6, <1>7, <1>8, <1>9, <1>10, <1>11, <1>12, <1>13,
     <1>14, <1>15, <1>16 DEF Scripts!Next

LEMMA ContextsInit == Scripts!Init => ContextsInv
<1> SUFFICES ASSUME Scripts!Init PROVE ContextsInv
  OBVIOUS
<1>1. /\ level = "stopped" /\ directory = <<>> /\ scripts_ = <<>> /\ activities = <<>>
      /\ evaluated = <<>>
  BY DEF Scripts!Init
<1> QED
  BY <1>1 DEF ContextsInv, ScriptsOk, ActivitiesOk, LevelInv

\* The invariant says what the properties do.
LEMMA ContextsAreRight == ContextsInv => ScriptsHear
<1> SUFFICES ASSUME ContextsInv PROVE ScriptsHear
  OBVIOUS
<1>1. Scripts!ScriptsArePrefix
  BY DEF ContextsInv, LevelInv, FilesOf, Scripts!ScriptsArePrefix
<1>2. Scripts!EveryScriptHears
  <2> DEFINE a == Scripts!Top
  <2> SUFFICES ASSUME Scripts!AtEnd("notify"), NEW m \in a.must
               PROVE  m \in a.called \/ m[2] \notin scripts_[m[1]].listeners
    BY DEF Scripts!EveryScriptHears
  <2>1. activities # <<>> /\ a.kind = "notify" /\ a.at = Len(scripts_) + 1
    BY DEF Scripts!AtEnd, Scripts!Walking, Scripts!In
  <2>2. ActivityRight(a, scripts_) /\ Len(scripts_) \in Nat
    BY <2>1, WalkFacts
  <2>3. /\ m[1] \in 1..Len(scripts_)
        /\ m[1] < a.at => m \in a.called \/ m[2] \notin scripts_[m[1]].listeners
    BY <2>1, <2>2 DEF ActivityRight, Told
  <2> QED
    BY <2>1, <2>2, <2>3
<1> QED
  BY <1>1, <1>2 DEF ScriptsHear

LEMMA ScriptsOnly ==
  [SidesNext]_<<side, handlerVars, scriptsVars>> => [Scripts!Next]_scriptsVars
BY DEF SidesNext

\* module/scripting.cpp: the scripts that frames and events go to are those of
\* this level's directory that could be loaded, in their order and up to the
\* first that failed, and none of a level before; and when vm_notify_stub goes
\* on to the game, every listener that was there when it was called, in
\* whatever script, has been called or has been cleared, unless a script before
\* threw: whatever the listeners did meanwhile, notifying the game again among it.
THEOREM Scripts_Hear == SidesSpec => []ScriptsHear
<1>1. SidesInit => ContextsInv
  BY ContextsInit DEF SidesInit
<1>2. ContextsInv /\ [SidesNext]_<<side, handlerVars, scriptsVars>> => ContextsInv'
  BY ScriptsOnly, ContextsNext
<1>3. ContextsInv => ScriptsHear
  BY ContextsAreRight
<1> QED
  BY <1>1, <1>2, <1>3, PTL DEF SidesSpec
=============================================================================
