------------------------- MODULE ScriptCallsProofs -------------------------
(***************************************************************************)
(* The reference counts of the game match the entities of the scripts, for *)
(* any number of objects and entities, and so an entity means one object   *)
(* all its life. The invariant is inductive as a whole: that an id is not  *)
(* given to another object while an entity holds it follows from the count,*)
(* which Create finds to be 0.                                             *)
(*                                                                         *)
(* And calls nest, for stacks, arguments and depths of any number: what a  *)
(* call has saved of the stack is what the call below it needs, and at     *)
(* each of its stages it is known in which slots its references are and    *)
(* which of them have been given back.                                     *)
(***************************************************************************)
EXTENDS ScriptCallsMC, FiniteSetTheorems, SequenceTheorems, TLAPS

-----------------------------------------------------------------------------
(* Entities.                                                               *)

Values == Ids \cup {DEAD, None}
SettersAlive == \A s \in setter : held[s] # DEAD
IInv == TypeOK /\ CountsMatch /\ HeldSameObject /\ FieldsOfTheObject /\ SettersAlive

USE DEF DEAD, None

\* How many entities hold an object; its definition is used by two lemmas only.
Number(h, i) == Cardinality(Holders(h, i))

LEMMA HoldersFinite ==
  ASSUME NEW h, NEW i
  PROVE  IsFiniteSet(Holders(h, i)) /\ Cardinality(Holders(h, i)) \in Nat
BY SlotsAssumption, FS_Subset, FS_CardinalityType DEF Holders

LEMMA NumberCounts ==
  ASSUME NEW i \in Ids
  PROVE  /\ Number(held, i) \in Nat
         /\ CountsMatch => count[i] = game[i] + Number(held, i)
BY HoldersFinite DEF Number, CountsMatch

\* What one count becomes when a reference is added or removed.
LEMMA AddRefCounts ==
  ASSUME NEW c \in [Ids -> Int], NEW i, NEW j \in Ids
  PROVE  /\ AddRef(c, i) \in [Ids -> Int]
         /\ AddRef(c, i)[j] = c[j] + IF i = j THEN 1 ELSE 0
BY DEF AddRef

LEMMA RemoveRefCounts ==
  ASSUME NEW c \in [Ids -> Int], NEW i, NEW j \in Ids
  PROVE  /\ RemoveRef(c, i) \in [Ids -> Int]
         /\ RemoveRef(c, i)[j] = c[j] - IF i = j THEN 1 ELSE 0
BY DEF RemoveRef

SameBut(h, g, s) == \A t \in Slots \ {s} : g[t] = h[t]

\* How many entities hold an object after one entity has changed.
LEMMA OneChanged ==
  ASSUME NEW h, NEW g, NEW s \in Slots, NEW i \in Ids,
         SameBut(h, g, s)
  PROVE  /\ h[s] # i /\ g[s] # i => Number(g, i) = Number(h, i)
         /\ h[s] = i /\ g[s] = i => Number(g, i) = Number(h, i)
         /\ h[s] = i /\ g[s] # i => Number(g, i) = Number(h, i) - 1
         /\ h[s] # i /\ g[s] = i => Number(g, i) = Number(h, i) + 1
<1> DEFINE old == Holders(h, i)  new == Holders(g, i)
<1>1. IsFiniteSet(old)
  BY HoldersFinite
<1>2. (h[s] = i <=> g[s] = i) => new = old
  BY DEF Holders, SameBut
<1>3. h[s] = i /\ g[s] # i => new = old \ {s} /\ s \in old
  BY DEF Holders, SameBut
<1>4. h[s] # i /\ g[s] = i => new = old \cup {s} /\ s \notin old
  BY DEF Holders, SameBut
<1> HIDE DEF old, new
<1>5. h[s] = i /\ g[s] # i => Cardinality(new) = Cardinality(old) - 1
  BY <1>1, <1>3, FS_RemoveElement
<1>6. h[s] # i /\ g[s] = i => Cardinality(new) = Cardinality(old) + 1
  BY <1>1, <1>4, FS_AddElement
<1> QED
  BY <1>2, <1>5, <1>6 DEF old, new, Number

THEOREM InitIInv == Init => IInv
<1> SUFFICES ASSUME Init PROVE IInv
  OBVIOUS
<1>1. TypeOK /\ HeldSameObject /\ FieldsOfTheObject /\ SettersAlive
  BY IdsAssumption DEF Init, TypeOK, HeldSameObject, FieldsOfTheObject, SettersAlive
<1>2. ASSUME NEW i \in Ids PROVE Holders(held, i) = {}
  BY IdsAssumption DEF Init, Holders
<1>3. CountsMatch
  BY <1>2, FS_EmptySet DEF Init, CountsMatch
<1> QED
  BY <1>1, <1>3 DEF IInv

\* The steps of the game, and a push: entities stay as they are, and a new
\* object has the id of one nobody holds.
LEMMA GameSteps ==
  ASSUME IInv, (\E i \in Ids : Create(i) \/ Keep(i) \/ Drop(i)) \/ \E s \in Slots : Push(s)
  PROVE  IInv'
<1> USE DEF IInv, TypeOK
<1>1. ASSUME NEW i \in Ids, Create(i) PROVE IInv'
  <2>1. Holders(held, i) = {}
    <3>1. Cardinality(Holders(held, i)) \in Nat /\ IsFiniteSet(Holders(held, i))
      BY HoldersFinite
    <3>2. Cardinality(Holders(held, i)) = 0
      BY <1>1, <3>1 DEF Create, CountsMatch
    <3> QED
      BY <3>1, <3>2, FS_EmptySet
  <2>2. TypeOK'
    BY <1>1, AddRefCounts DEF Create, AddRef
  <2>3. CountsMatch'
    BY <1>1, HoldersFinite DEF Create, AddRef, CountsMatch
  <2>4. HeldSameObject' /\ FieldsOfTheObject' /\ SettersAlive'
    BY <1>1, <2>1 DEF Create, HeldSameObject, FieldsOfTheObject, SettersAlive, Holders
  <2> QED
    BY <2>2, <2>3, <2>4
<1>2. ASSUME NEW i \in Ids, Keep(i) \/ Drop(i) PROVE IInv'
  <2>1. TypeOK'
    BY <1>2 DEF Keep, Drop, AddRef, RemoveRef, history
  <2>2. ASSUME NEW j \in Ids PROVE count'[j] = game'[j] + Number(held, j)
    BY <1>2, NumberCounts DEF Keep, Drop, AddRef, RemoveRef
  <2>3. CountsMatch'
    BY <1>2, <2>2 DEF Keep, Drop, CountsMatch, Number
  <2> QED
    BY <1>2, <2>1, <2>3 DEF Keep, Drop, history, HeldSameObject, FieldsOfTheObject, SettersAlive
<1>3. ASSUME NEW s \in Slots, Push(s) PROVE IInv'
  <2>1. TypeOK' /\ CountsMatch'
    BY <1>3, HoldersFinite DEF Push, AddRef, CountsMatch, history
  <2> QED
    BY <1>3, <2>1 DEF Push, history, HeldSameObject, FieldsOfTheObject, SettersAlive
<1> QED
  BY <1>1, <1>2, <1>3

\* A constructor adds the reference of the entity it makes.
LEMMA ConstructorSteps ==
  ASSUME IInv, NEW s \in Slots, NEW v \in Values, Constructed(s, v)
  PROVE  IInv'
<1> USE DEF IInv, TypeOK
<1>1. TypeOK'
  <2>1. count' \in [Ids -> Int]
    BY AddRefCounts DEF Constructed, AddRef
  <2> QED
    BY <2>1 DEF Constructed, Age, Values
<1>2. CountsMatch'
  <2> SUFFICES ASSUME NEW i \in Ids
               PROVE  count'[i] = game[i] + Number(held', i)
    BY DEF Constructed, CountsMatch, Number
  <2>1. held[s] # i /\ held'[s] = v /\ SameBut(held, held', s)
    BY IdsAssumption DEF Constructed, Fresh, SameBut
  <2>2. CASE v = i
    <3>1. Number(held', i) = Number(held, i) + 1
      BY <2>1, <2>2, OneChanged
    <3>2. count'[i] = count[i] + 1
      BY <2>2, AddRefCounts DEF Constructed
    <3> QED
      BY <3>1, <3>2, NumberCounts
  <2>3. CASE v # i
    <3>1. Number(held', i) = Number(held, i)
      BY <2>1, <2>3, OneChanged
    <3>2. count'[i] = count[i]
      BY <2>3, AddRefCounts DEF Constructed
    <3> QED
      BY <3>1, <3>2, NumberCounts
  <2> QED
    BY <2>2, <2>3
<1>3. HeldSameObject'
  BY DEF Constructed, HeldSameObject, Age
<1>4. FieldsOfTheObject' /\ SettersAlive'
  <2>1. s \notin setter
    BY DEF Constructed, Fresh, SettersAlive
  <2> QED
    BY <2>1 DEF Constructed, FieldsOfTheObject, SettersAlive
<1> QED
  BY <1>1, <1>2, <1>3, <1>4

\* Moves and assignments: the reference goes along, and the one given up is
\* released.
LEMMA MoveSteps ==
  ASSUME IInv, NEW s \in Slots, NEW from \in Slots,
         Move(s, from) \/ Assign(s, from) \/ MoveAssign(s, from)
  PROVE  IInv'
<1> USE DEF IInv, TypeOK
<1> DEFINE first == [held EXCEPT ![s] = held[from]]
           lost(i) == IF held[s] = i THEN 1 ELSE 0
           gained(i) == IF held[from] = i THEN 1 ELSE 0
<1>1. /\ s # from /\ first[s] = held[from] /\ first[from] = held[from]
      /\ SameBut(held, first, s)
  BY DEF Move, Assign, MoveAssign, SameBut
<1>2. ASSUME NEW i \in Ids
      PROVE  Number(first, i) = Number(held, i) - lost(i) + gained(i)
  <2> HIDE DEF first
  <2>1. Number(held, i) \in Nat
    BY NumberCounts
  <2> QED
    BY <1>1, <2>1, OneChanged
<1>3. ASSUME NEW i \in Ids, held'[from] = None, SameBut(first, held', from)
      PROVE  Number(held', i) = Number(held, i) - lost(i)
  <2> HIDE DEF first
  <2>1. Number(held, i) \in Nat /\ None # i
    BY NumberCounts, IdsAssumption
  <2>2. Number(held', i) = Number(first, i) - gained(i)
    BY <1>1, <1>2, <1>3, <2>1, OneChanged
  <2> QED
    BY <1>2, <2>1, <2>2
<1>4. ASSUME NEW i \in Ids
      PROVE  /\ RemoveRef(count, held[s])[i] = count[i] - lost(i)
             /\ AddRef(RemoveRef(count, held[s]), held[from])[i]
                  = count[i] - lost(i) + gained(i)
  <2>1. /\ RemoveRef(count, held[s])[i] = count[i] - lost(i)
        /\ RemoveRef(count, held[s]) \in [Ids -> Int]
    BY RemoveRefCounts
  <2>2. AddRef(RemoveRef(count, held[s]), held[from])[i]
          = RemoveRef(count, held[s])[i] + gained(i)
    BY <2>1, AddRefCounts
  <2> QED
    BY <2>1, <2>2
<1>5. ASSUME NEW i \in Ids PROVE count'[i] = game[i] + Number(held', i)
  <2>1. /\ count[i] = game[i] + Number(held, i) /\ count[i] \in Int /\ game[i] \in Nat
        /\ Number(held, i) \in Nat /\ lost(i) \in Nat /\ gained(i) \in Nat
    BY NumberCounts
  <2>2. CASE Move(s, from)
    <3>1. Number(held', i) = Number(held, i) - lost(i)
      <4>1. held'[from] = None /\ SameBut(first, held', from)
        BY <1>1, <2>2 DEF Move, SameBut
      <4> QED
        BY <1>3, <4>1
    <3>2. lost(i) = 0 /\ count'[i] = count[i]
      BY <2>2, IdsAssumption DEF Move, Fresh
    <3> HIDE DEF lost, gained, first
    <3> QED
      BY <2>1, <3>1, <3>2
  <2>3. CASE Assign(s, from)
    <3>1. held' = first /\ count' = AddRef(RemoveRef(count, held[s]), held[from])
      BY <2>3 DEF Assign
    <3> HIDE DEF lost, gained, first
    <3>2. Number(held', i) = Number(held, i) - lost(i) + gained(i)
      BY <1>2, <3>1
    <3>3. count'[i] = count[i] - lost(i) + gained(i)
      BY <1>4, <3>1
    <3> QED
      BY <2>1, <3>2, <3>3
  <2>4. CASE MoveAssign(s, from)
    <3>1. Number(held', i) = Number(held, i) - lost(i)
      <4>1. held'[from] = None /\ SameBut(first, held', from)
        BY <1>1, <2>4 DEF MoveAssign, SameBut
      <4> QED
        BY <1>3, <4>1
    <3>2. count'[i] = count[i] - lost(i)
      BY <1>4, <2>4 DEF MoveAssign
    <3> HIDE DEF lost, gained, first
    <3> QED
      BY <2>1, <3>1, <3>2
  <2> QED
    BY <2>2, <2>3, <2>4
<1>6. CountsMatch'
  BY <1>5 DEF Move, Assign, MoveAssign, CountsMatch, Number
<1>7. TypeOK'
  <2>1. RemoveRef(count, held[s]) \in [Ids -> Int]
    BY DEF RemoveRef
  <2>2. AddRef(RemoveRef(count, held[s]), held[from]) \in [Ids -> Int]
    BY <2>1 DEF AddRef
  <2> QED
    BY <2>1, <2>2 DEF Move, Assign, MoveAssign
<1>8. HeldSameObject' /\ FieldsOfTheObject' /\ SettersAlive'
  BY IdsAssumption
  DEF Move, Assign, MoveAssign, Fresh, HeldSameObject, FieldsOfTheObject, SettersAlive
<1> QED
  BY <1>6, <1>7, <1>8

\* Entities that are collected take their references with them.
LEMMA CollectCounts ==
  ASSUME TypeOK, CountsMatch, NEW vs, NEW fs, Collect(vs, fs)
  PROVE  /\ count' \in [Ids -> Int] /\ held' \in [Slots -> Values]
         /\ \A i \in Ids : count'[i] = game[i] + Cardinality(Holders(held', i))
<1> DEFINE gone == Collected(vs, fs)
<1>1. ASSUME NEW i \in Ids
      PROVE  /\ Cardinality(gone \cap Holders(held, i)) \in Nat
             /\ Cardinality(Holders(held', i))
                  = Cardinality(Holders(held, i)) - Cardinality(gone \cap Holders(held, i))
  <2>1. Holders(held', i) = Holders(held, i) \ gone
    BY IdsAssumption DEF Collect, Holders
  <2>2. IsFiniteSet(Holders(held, i))
    BY HoldersFinite
  <2>3. gone \cap Holders(held, i) = Holders(held, i) \cap gone
    OBVIOUS
  <2>4. Cardinality(gone \cap Holders(held, i)) \in Nat
    BY <2>2, FS_Subset, FS_CardinalityType
  <2> DEFINE H == Holders(held, i)
  <2> HIDE DEF gone, H
  <2>5. Cardinality(H \ gone) = Cardinality(H) - Cardinality(H \cap gone)
    <3>1. IsFiniteSet(H)
      BY <2>2 DEF H
    <3> QED
      BY <3>1, FS_Difference
  <2> QED
    BY <2>1, <2>3, <2>4, <2>5 DEF H
<1>2. held' \in [Slots -> Values]
  BY DEF Collect, TypeOK, Values
<1>3. ASSUME NEW i \in Ids
      PROVE  count'[i] = count[i] - Cardinality(gone \cap Holders(held, i))
  BY DEF Collect
<1>4. count' \in [Ids -> Int]
  <2>1. count' = [i \in Ids |-> count[i] - Cardinality(gone \cap Holders(held, i))]
    BY DEF Collect
  <2> HIDE DEF gone
  <2> QED
    BY <1>1, <2>1 DEF TypeOK
<1>5. ASSUME NEW i \in Ids
      PROVE  count'[i] = game[i] + Cardinality(Holders(held', i))
  <2>1. /\ count[i] = game[i] + Cardinality(Holders(held, i))
        /\ count[i] \in Int /\ game[i] \in Nat
        /\ Cardinality(Holders(held, i)) \in Nat
    BY HoldersFinite DEF CountsMatch, TypeOK
  <2> DEFINE n == Cardinality(Holders(held, i))
             m == Cardinality(Holders(held', i))
             k == Cardinality(gone \cap Holders(held, i))
  <2>2. m = n - k /\ k \in Nat /\ n \in Nat
    BY <1>1, <2>1
  <2>3. count'[i] = count[i] - k /\ count[i] = game[i] + n
    BY <1>3, <2>1
  <2> SUFFICES count'[i] = game[i] + m
    OBVIOUS
  <2> HIDE DEF n, m, k
  <2> QED
    BY <2>1, <2>2, <2>3
<1> QED
  BY <1>2, <1>4, <1>5

LEMMA CollectSteps ==
  ASSUME IInv,
         Unload \/ \E s \in Slots : DropVariable(s) \/ \E v \in Slots : SetField(s, v)
  PROVE  IInv'
<1> USE DEF IInv
<1>1. PICK vs, fs : Collect(vs, fs)
  BY DEF Unload, DropVariable, SetField
<1>2. /\ count' \in [Ids -> Int] /\ held' \in [Slots -> Values]
      /\ \A i \in Ids : count'[i] = game[i] + Cardinality(Holders(held', i))
  BY <1>1, CollectCounts
<1>3. \A s \in Slots : held'[s] \in Ids => held'[s] = held[s]
  BY <1>1, IdsAssumption DEF Collect, TypeOK
<1>4. SettersAlive'
  <2>1. ASSUME NEW t \in setter', held'[t] = DEAD PROVE FALSE
    <3>1. CASE Unload
      BY <2>1, <3>1 DEF Unload, Collect, TypeOK, SettersAlive
    <3>2. ASSUME NEW s \in Slots, DropVariable(s) PROVE FALSE
      BY <2>1, <3>2 DEF DropVariable, Collect, TypeOK, SettersAlive
    <3>3. ASSUME NEW s \in Slots, NEW v \in Slots, SetField(s, v) PROVE FALSE
      BY <2>1, <3>3, IdsAssumption DEF SetField, Collect, TypeOK, SettersAlive
    <3> QED
      BY <3>1, <3>2, <3>3
  <2> QED
    BY <2>1 DEF SettersAlive
<1>5. CASE Unload
  BY <1>2, <1>3, <1>4, <1>5
  DEF Unload, TypeOK, Values, CountsMatch, HeldSameObject, FieldsOfTheObject
<1>6. ASSUME NEW s \in Slots, DropVariable(s) PROVE IInv'
  BY <1>2, <1>3, <1>4, <1>6
  DEF DropVariable, TypeOK, Values, CountsMatch, HeldSameObject, FieldsOfTheObject
<1>7. ASSUME NEW s \in Slots, NEW v \in Slots, SetField(s, v) PROVE IInv'
  <2>1. TypeOK' /\ CountsMatch' /\ HeldSameObject'
    BY <1>2, <1>3, <1>7 DEF SetField, TypeOK, Values, CountsMatch, HeldSameObject
  <2>2. FieldsOfTheObject'
    BY <1>3, <1>7 DEF SetField, TypeOK, FieldsOfTheObject
  <2> QED
    BY <1>4, <2>1, <2>2
<1> QED
  BY <1>5, <1>6, <1>7

LEMMA NextIInv == IInv /\ [Next]_vars => IInv'
<1> SUFFICES ASSUME IInv, [Next]_vars PROVE IInv'
  OBVIOUS
<1>1. CASE UNCHANGED vars
  BY <1>1 DEF vars, IInv, TypeOK, CountsMatch, HeldSameObject, FieldsOfTheObject,
             SettersAlive, Holders
<1>2. ASSUME NEW s \in Slots, NEW v \in Values, Constructed(s, v) PROVE IInv'
  BY <1>2, ConstructorSteps
<1>3. ASSUME NEW s \in Slots, GetField(s) PROVE IInv'
  BY <1>3 DEF GetField, history, IInv, TypeOK, CountsMatch, HeldSameObject,
                         FieldsOfTheObject, SettersAlive
<1>4. ASSUME NEW s \in Slots, Default(s) PROVE IInv'
  BY <1>2, <1>4 DEF Default, Values
<1>5. ASSUME NEW s \in Slots, NEW i \in Ids, Load(s, i) PROVE IInv'
  BY <1>2, <1>5 DEF Load, Values
<1>6. ASSUME NEW s \in Slots, NEW from \in Slots, Copy(s, from) PROVE IInv'
  BY <1>2, <1>6 DEF Copy, Values, IInv, TypeOK
<1> QED
  BY <1>1, <1>3, <1>4, <1>5, <1>6, GameSteps, MoveSteps, CollectSteps DEF Next

LEMMA InvariantHolds == Spec => []IInv
BY InitIInv, NextIInv, PTL DEF Spec

\* The counts the game keeps are right at any time, whatever scripts do.
THEOREM CountsAreRight == Spec => []CountsMatch
<1>1. IInv => CountsMatch
  BY DEF IInv
<1> QED
  BY <1>1, InvariantHolds, PTL

\* An entity means one object all its life, and a field that is read through the
\* entity it was set through is that object's.
THEOREM EntitiesAreOneObject == Spec => []SameObject
<1>1. IInv => SameObject
  BY DEF IInv, SameObject
<1> QED
  BY <1>1, InvariantHolds, PTL
-----------------------------------------------------------------------------
(* Calls into the game.                                                    *)

Slot == 0..(StackSize - 1)
Vm == [stack : Nat, top : Nat, inparamcount : Nat, outparamcount : Nat]
GameVm == [stack |-> 0, top |-> 0, inparamcount |-> 0, outparamcount |-> 0]
Stages == {"push", "failed", "engine", "returned", "leaving", "done", "thrown", "undefined"}
Call == [op : {"notify", "call", "set", "get"}, at : Stages, args : Nat, left : Nat,
         result : BOOLEAN, saved : Vm, stack : [Slot -> Nat], given : Seq(Nat)]

Placed(v, top, in, out) == v.top = top /\ v.inparamcount = in /\ v.outparamcount = out

\* The references of a call are in its first n slots, each in one, and none of
\* them has been given back.
Held(f, n) ==
  /\ n \in Nat /\ n <= StackSize - 1
  /\ \A r \in 1..Len(f.given) : f.given[r] = 0 /\ \E s \in 1..n : f.stack[s] = r
  /\ \A s, t \in 1..n : f.stack[s] = f.stack[t] /\ f.stack[s] # 0 => s = t
  /\ \A s \in Slot : f.stack[s] <= Len(f.given) /\ (s \notin 1..n => f.stack[s] = 0)

\* All of them have been, but the one of the result.
ResultHeld(f) ==
  /\ f.result /\ f.op = "call"
  /\ \A r \in 1..Len(f.given) : f.given[r] = IF f.stack[1] = r THEN 0 ELSE 1

\* A call that the game has, or that has returned with what the game left.
Turned(f, v) ==
  IF f.result THEN ResultHeld(f) /\ Placed(v, 1, 1, 0)
  ELSE /\ Held(f, f.args)
       /\ IF f.op = "notify" THEN Placed(v, f.args, f.args, 0) ELSE Placed(v, f.args, 0, f.args)

AllGiven(f) == \A r \in 1..Len(f.given) : f.given[r] = 1
OnceGiven(f) == \A r \in 1..Len(f.given) : f.given[r] <= 1

\* What GivenBack says of the innermost call.
GivenBackBy(f) ==
  \A r \in 1..Len(f.given) :
    \/ f.given[r] = 1
    \/ f.op = "call" /\ ~f.result /\ f.args >= 2 /\ f.stack[f.args] # r

CallRight(f, v, d) ==
  /\ f \in Call /\ v \in Vm /\ v.stack = d
  /\ f.left <= f.args /\ (f.op = "set" => f.args = 1) /\ (f.op = "get" => f.args = 0)
  /\ OnceGiven(f)
  /\ f.at = "push" =>
       ~f.result /\ Held(f, f.args - f.left) /\ Placed(v, f.args - f.left, f.args - f.left, 0)
  /\ f.at = "engine" => Turned(f, v)
  /\ f.at = "returned" =>
       IF f.op = "notify" THEN AllGiven(f) /\ v.outparamcount = 0 ELSE Turned(f, v)
  /\ f.at = "leaving" =>
       \/ f.op = "notify" /\ AllGiven(f) /\ v.outparamcount = 0
       \/ ResultHeld(f) /\ Placed(v, 1, 0, 1)
       \/ f.op # "notify" /\ ~f.result /\ Held(f, f.args) /\ Placed(v, f.args, 0, f.args)
  /\ f.at = "failed" =>
       \/ v.outparamcount = 0
       \/ Held(f, f.args) /\ Placed(v, f.args, 0, f.args)
  /\ f.at = "done" => GivenBackBy(f)

\* A call in which the game may report an error, and will find where to go.
Safe(f) == f.at = "engine" /\ f.op # "notify"
SafeCalls(fs) == {d \in 1..Len(fs) : Safe(fs[d])}
One(b) == IF b THEN 1 ELSE 0

\* What each call has saved is the stack of the call below it.
CallsInv ==
  /\ frames \in Seq(Call) /\ level \in Nat /\ level = Cardinality(SafeCalls(frames))
  /\ IF frames = <<>> THEN vm = GameVm ELSE CallRight(frames[Len(frames)], vm, Len(frames))
  /\ \A d \in 1..Len(frames) :
       IF d = 1 THEN frames[d].saved = GameVm
       ELSE frames[d - 1].at = "engine" /\ CallRight(frames[d - 1], frames[d].saved, d - 1)

LEMMA CallsCardinality == ASSUME NEW S PROVE Calls!Cardinality(S) = Cardinality(S)
BY DEF Cardinality, Calls!Cardinality

LEMMA SafeFinite ==
  ASSUME NEW fs \in Seq(Call)
  PROVE  IsFiniteSet(SafeCalls(fs)) /\ Cardinality(SafeCalls(fs)) \in Nat
<1>1. IsFiniteSet(1..Len(fs))
  BY FS_Interval
<1> QED
  BY <1>1, FS_Subset, FS_CardinalityType DEF SafeCalls

\* A step of the innermost call.
LEMMA TopCall ==
  ASSUME CallsInv, frames # <<>>
  PROVE  /\ frames \in Seq(Call) /\ Len(frames) \in Nat \ {0} /\ level \in Nat
         /\ Calls!this = Len(frames) /\ frames[Len(frames)] \in Call
         /\ CallRight(frames[Len(frames)], vm, Len(frames))
<1>1. frames \in Seq(Call) /\ Len(frames) \in Nat \ {0} /\ level \in Nat
  BY DEF CallsInv
<1> QED
  BY <1>1 DEF CallsInv, Calls!this

LEMMA SetTopCall ==
  ASSUME CallsInv, frames # <<>>, NEW f, frames' = [frames EXCEPT ![Len(frames)] = f],
         f.saved = frames[Len(frames)].saved, CallRight(f, vm', Len(frames)),
         level' = level + One(Safe(f)) - One(Safe(frames[Len(frames)]))
  PROVE  CallsInv'
<1> DEFINE L == Len(frames)
           old == SafeCalls(frames)
           new == SafeCalls(frames')
<1>1. frames \in Seq(Call) /\ L \in Nat \ {0} /\ f \in Call
  BY TopCall DEF CallRight
<1>2. /\ frames' \in Seq(Call) /\ Len(frames') = L /\ frames'[L] = f /\ frames' # <<>>
      /\ \A d \in 1..L : d # L => frames'[d] = frames[d]
  BY <1>1
<1>3. level' \in Nat /\ level' = Cardinality(new)
  <2> DEFINE below == {d \in 1..L : d # L /\ Safe(frames[d])}
  <2>0. L \in 1..L
    BY <1>1
  <2> Len(frames') = L
    BY <1>2
  <2>1. old = IF Safe(frames[L]) THEN below \cup {L} ELSE below
    BY <2>0 DEF SafeCalls
  <2>2. new = IF Safe(f) THEN below \cup {L} ELSE below
    BY <1>2, <2>0 DEF SafeCalls
  <2>3. IsFiniteSet(below) /\ L \notin below
    <3>1. IsFiniteSet(1..L)
      BY <1>1, FS_Interval
    <3> QED
      BY <3>1, FS_Subset
  <2> HIDE DEF below, old, new
  <2>4. /\ Cardinality(below) \in Nat
        /\ Cardinality(below \cup {L}) = Cardinality(below) + 1
    BY <2>3, FS_AddElement, FS_CardinalityType
  <2>5. Cardinality(old) = Cardinality(below) + One(Safe(frames[L]))
    BY <2>1, <2>4 DEF One
  <2>6. Cardinality(new) = Cardinality(below) + One(Safe(f))
    BY <2>2, <2>4 DEF One
  <2>7. level = Cardinality(old)
    BY DEF CallsInv, old
  <2> QED
    BY <2>4, <2>5, <2>6, <2>7 DEF One
<1>4. ASSUME NEW d \in 1..L
      PROVE  IF d = 1 THEN frames'[d].saved = GameVm
             ELSE frames'[d - 1].at = "engine" /\ CallRight(frames'[d - 1], frames'[d].saved, d - 1)
  <2>1. frames'[d].saved = frames[d].saved
    BY <1>2
  <2>2. d # 1 => frames'[d - 1] = frames[d - 1]
    <3>1. d # 1 => d - 1 \in 1..L /\ d - 1 # L
      BY <1>1
    <3> QED
      BY <1>2, <3>1
  <2> QED
    BY <2>1, <2>2 DEF CallsInv
<1> QED
  BY <1>2, <1>3, <1>4 DEF CallsInv

LEMMA EnterInv ==
  ASSUME CallsInv, NEW op \in {"notify", "call", "set", "get"}, NEW args \in Nat,
         op = "set" => args = 1, op = "get" => args = 0, Calls!Enter(op, args)
  PROVE  CallsInv'
<1> DEFINE L == Len(frames)
           f == [op |-> op, at |-> "push", args |-> args, left |-> args, result |-> FALSE,
                 saved |-> vm, stack |-> [s \in 0..(StackSize - 1) |-> 0], given |-> <<>>]
<1>1. /\ frames = <<>> \/ frames[L].at = "engine"
      /\ frames' = Append(frames, f) /\ level' = level
      /\ vm' = [stack |-> L + 1, top |-> 0, inparamcount |-> 0, outparamcount |-> 0]
  BY DEF Calls!Enter, Calls!At, Calls!this
<1>2. frames \in Seq(Call) /\ L \in Nat /\ level = Cardinality(SafeCalls(frames)) /\ level \in Nat
  BY DEF CallsInv
<1>3. vm \in Vm /\ (frames # <<>> => CallRight(frames[L], vm, L)) /\ (frames = <<>> => vm = GameVm)
  <2>1. GameVm \in Vm
    BY DEF GameVm, Vm
  <2> QED
    BY <2>1 DEF CallsInv, CallRight
<1>4. /\ f \in Call /\ f.at = "push" /\ f.args = args /\ f.left = args /\ ~f.result /\ f.op = op
      /\ f.saved = vm /\ f.given = <<>> /\ \A s \in Slot : f.stack[s] = 0
  BY <1>3 DEF Call, Stages, Slot
<1>5. vm' \in Vm /\ vm'.stack = L + 1 /\ Placed(vm', 0, 0, 0)
  BY <1>1, <1>2 DEF Vm, Placed
<1> HIDE DEF f
<1>6. CallRight(f, vm', L + 1)
  <2>1. Len(f.given) = 0 /\ f.args - f.left = 0
    BY <1>4
  <2>2. Held(f, 0)
    BY <1>4, <2>1, StackAssumption DEF Held
  <2> QED
    BY <1>4, <1>5, <2>1, <2>2 DEF CallRight, OnceGiven
<1>7. /\ frames' \in Seq(Call) /\ Len(frames') = L + 1 /\ frames'[L + 1] = f /\ frames' # <<>>
      /\ \A d \in 1..L : frames'[d] = frames[d]
  BY <1>1, <1>2, <1>4
<1>8. SafeCalls(frames') = SafeCalls(frames)
  <2>1. ~Safe(f)
    BY <1>4 DEF Safe
  <2> QED
    BY <1>2, <1>7, <2>1 DEF SafeCalls
<1>9. ASSUME NEW d \in 1..(L + 1)
      PROVE  IF d = 1 THEN frames'[d].saved = GameVm
             ELSE frames'[d - 1].at = "engine" /\ CallRight(frames'[d - 1], frames'[d].saved, d - 1)
  <2>1. CASE d = L + 1
    <3>1. CASE L = 0
      BY <1>2, <1>3, <1>4, <1>7, <2>1, <3>1
    <3>2. CASE L # 0
      <4>1. frames # <<>> /\ L \in 1..L /\ d - 1 = L /\ d # 1
        BY <1>2, <2>1, <3>2
      <4> QED
        BY <1>1, <1>3, <1>4, <1>7, <2>1, <4>1
    <3> QED
      BY <3>1, <3>2
  <2>2. CASE d # L + 1
    <3>1. d \in 1..L /\ (d # 1 => d - 1 \in 1..L)
      BY <1>2, <2>2
    <3>2. frames'[d] = frames[d] /\ (d # 1 => frames'[d - 1] = frames[d - 1])
      BY <1>7, <3>1
    <3> QED
      BY <3>1, <3>2 DEF CallsInv
  <2> QED
    BY <2>1, <2>2
<1> QED
  BY <1>1, <1>2, <1>6, <1>7, <1>8, <1>9 DEF CallsInv

\* A sequence without its last element.
LEMMA Popped ==
  ASSUME NEW S, NEW s \in Seq(S), s # <<>>
  PROVE  LET t == SubSeq(s, 1, Len(s) - 1)
         IN  t \in Seq(S) /\ Len(t) = Len(s) - 1 /\ \A i \in 1..Len(t) : t[i] = s[i]
<1> DEFINE n == Len(s) - 1
<1>1. n \in Nat /\ \A i \in 1..n : s[i] \in S /\ 1 + i - 1 = i
  OBVIOUS
<1> HIDE DEF n
<1>2. (IF 1 <= n THEN n - 1 + 1 ELSE 0) = n /\ n - 1 + 1 = n
  BY <1>1
<1>3. /\ SubSeq(s, 1, n) \in Seq(S)
      /\ Len(SubSeq(s, 1, n)) = IF 1 <= n THEN n - 1 + 1 ELSE 0
      /\ \A i \in 1..(n - 1 + 1) : SubSeq(s, 1, n)[i] = s[1 + i - 1]
  BY <1>1, SubSeqProperties
<1>4. /\ SubSeq(s, 1, n) \in Seq(S) /\ Len(SubSeq(s, 1, n)) = n
      /\ \A i \in 1..n : SubSeq(s, 1, n)[i] = s[i]
  BY <1>1, <1>2, <1>3
<1> QED
  BY <1>4 DEF n

LEMMA RestoreInv == ASSUME CallsInv, Calls!Restore PROVE CallsInv'
<1> DEFINE L == Len(frames)
<1>1. /\ frames # <<>> /\ frames[L].at \in {"done", "thrown"} /\ vm' = frames[L].saved
      /\ frames' = SubSeq(frames, 1, L - 1) /\ level' = level
  BY DEF Calls!Restore, Calls!At, Calls!this, Calls!Front
<1>2. /\ frames \in Seq(Call) /\ L \in Nat \ {0} /\ level \in Nat
      /\ level = Cardinality(SafeCalls(frames))
  BY <1>1 DEF CallsInv
<1>3. /\ frames' \in Seq(Call) /\ Len(frames') = L - 1
      /\ \A d \in 1..(L - 1) : frames'[d] = frames[d]
  <2>1. /\ SubSeq(frames, 1, L - 1) \in Seq(Call) /\ Len(SubSeq(frames, 1, L - 1)) = L - 1
        /\ \A d \in 1..Len(SubSeq(frames, 1, L - 1)) : SubSeq(frames, 1, L - 1)[d] = frames[d]
    BY <1>1, <1>2, Popped
  <2> QED
    BY <1>1, <2>1
<1>4. SafeCalls(frames') = SafeCalls(frames)
  <2>1. ~Safe(frames[L])
    BY <1>1 DEF Safe
  <2> QED
    BY <1>2, <1>3, <2>1 DEF SafeCalls
<1>5. IF frames' = <<>> THEN vm' = GameVm ELSE CallRight(frames'[L - 1], vm', L - 1)
  <2>1. L \in 1..L /\ (L # 1 => L - 1 \in 1..(L - 1)) /\ (frames' = <<>> <=> L = 1)
    BY <1>2, <1>3
  <2> QED
    BY <1>1, <1>3, <2>1 DEF CallsInv
<1>6. ASSUME NEW d \in 1..(L - 1)
      PROVE  IF d = 1 THEN frames'[d].saved = GameVm
             ELSE frames'[d - 1].at = "engine" /\ CallRight(frames'[d - 1], frames'[d].saved, d - 1)
  <2>1. d \in 1..L /\ frames'[d] = frames[d] /\ (d # 1 => frames'[d - 1] = frames[d - 1])
    BY <1>2, <1>3
  <2> QED
    BY <2>1 DEF CallsInv
<1> QED
  BY <1>1, <1>2, <1>3, <1>4, <1>5, <1>6 DEF CallsInv

\* What is given back of references that are in one slot each.
LEMMA GiveOnce ==
  ASSUME NEW f \in Call, NEW S \in SUBSET Slot,
         \A s, t \in S : f.stack[s] = f.stack[t] /\ f.stack[s] # 0 => s = t
  PROVE  LET g == Calls!Give(f, S)
         IN  /\ g \in Seq(Nat) /\ Len(g) = Len(f.given)
             /\ \A r \in 1..Len(f.given) :
                  g[r] = f.given[r] + One(\E s \in S : f.stack[s] = r)
<1> DEFINE at(r) == {s \in S : f.stack[s] = r}
           g == Calls!Give(f, S)
           n == Len(f.given)
<1>1. f.given \in Seq(Nat) /\ n \in Nat /\ DOMAIN f.given = 1..n
  BY DEF Call
<1>2. g = [r \in 1..n |-> f.given[r] + Calls!Cardinality(at(r))]
  BY <1>1 DEF Calls!Give
<1>3. ASSUME NEW r \in 1..n
      PROVE  Cardinality(at(r)) = One(\E s \in S : f.stack[s] = r)
  <2>1. CASE \E s \in S : f.stack[s] = r
    <3>1. PICK s \in S : f.stack[s] = r
      BY <2>1
    <3>2. r # 0
      BY <1>1
    <3>3. at(r) = {s}
      BY <3>1, <3>2
    <3> QED
      BY <2>1, <3>3, FS_Singleton DEF One
  <2>2. CASE ~(\E s \in S : f.stack[s] = r)
    <3>1. at(r) = {}
      BY <2>2
    <3> QED
      BY <2>2, <3>1, FS_EmptySet DEF One
  <2> QED
    BY <2>1, <2>2
<1>4. \A r \in 1..n : Calls!Cardinality(at(r)) = One(\E s \in S : f.stack[s] = r)
  BY <1>3, CallsCardinality
<1> HIDE DEF at
<1>5. g = [r \in 1..n |-> f.given[r] + One(\E s \in S : f.stack[s] = r)]
  BY <1>2, <1>4
<1>6. \A r \in 1..n : f.given[r] + One(\E s \in S : f.stack[s] = r) \in Nat
  BY <1>1 DEF One
<1> HIDE DEF g
<1>7. /\ g \in Seq(Nat) /\ Len(g) = n
      /\ \A r \in 1..n : g[r] = f.given[r] + One(\E s \in S : f.stack[s] = r)
  <2> DEFINE new(r) == f.given[r] + One(\E s \in S : f.stack[s] = r)
  <2>1. g = [r \in 1..n |-> new(r)] /\ \A r \in 1..n : new(r) \in Nat
    BY <1>5, <1>6
  <2> HIDE DEF new
  <2>2. g \in Seq(Nat) /\ Len(g) = n /\ \A r \in 1..n : g[r] = new(r)
    BY <1>1, <2>1
  <2> QED
    BY <2>2 DEF new
<1> QED
  BY <1>7 DEF g

\* What is given back of the references in the first n slots is all there is.
LEMMA GiveHeld ==
  ASSUME NEW f \in Call, NEW n, Held(f, n)
  PROVE  LET g == Calls!Give(f, 1..n)
         IN  g \in Seq(Nat) /\ Len(g) = Len(f.given) /\ \A r \in 1..Len(f.given) : g[r] = 1
<1>1. 1..n \in SUBSET Slot
  BY StackAssumption DEF Held, Slot
<1> QED
  BY <1>1, GiveOnce DEF Held, One

LEMMA PushInv == ASSUME CallsInv, NEW counted \in BOOLEAN, Calls!Push(counted) PROVE CallsInv'
<1> DEFINE f == frames[Len(frames)]
           r == Len(f.given) + 1
           k == f.args - f.left
           g == [f EXCEPT !.left = @ - 1,
                          !.stack = [@ EXCEPT ![vm.top + 1] = IF counted THEN r ELSE 0],
                          !.given = IF counted THEN Append(@, 0) ELSE @]
<1>1. /\ frames # <<>> /\ f.at = "push" /\ f.left > 0 /\ vm.top # StackSize - 1
      /\ vm' = [vm EXCEPT !.top = @ + 1, !.inparamcount = @ + 1] /\ level' = level
  BY DEF Calls!Push, Calls!Pushing, Calls!At, Calls!this, Calls!Full, Calls!Grown
<1>2. /\ frames \in Seq(Call) /\ f \in Call /\ CallRight(f, vm, Len(frames)) /\ level \in Nat
  BY <1>1, TopCall
<1>3. frames' = [frames EXCEPT ![Len(frames)] = g]
  <2>1. frames' = [frames EXCEPT ![Len(frames)].left = @ - 1,
                      ![Len(frames)].stack[vm.top + 1] = IF counted THEN r ELSE 0,
                      ![Len(frames)].given = IF counted THEN Append(@, 0) ELSE @]
    BY DEF Calls!Push, Calls!this
  <2> QED
    BY <1>1, <1>2, <2>1
<1>4. /\ vm \in Vm /\ vm.stack = Len(frames) /\ f.left <= f.args /\ ~f.result /\ Held(f, k)
      /\ Placed(vm, k, k, 0) /\ OnceGiven(f)
  BY <1>1, <1>2 DEF CallRight
<1>5. k \in Nat /\ k + 1 = vm.top + 1 /\ k + 1 \in Slot /\ k + 1 <= StackSize - 1
  BY <1>1, <1>4, StackAssumption DEF Held, Placed, Slot
<1>6. f.given \in Seq(Nat) /\ r \in Nat \ {0} /\ f.left - 1 \in Nat /\ f.stack \in [Slot -> Nat]
  BY <1>1, <1>2 DEF Call
<1> HIDE DEF f, g, r, k
<1>7. /\ g \in Call /\ g.at = "push" /\ g.left = f.left - 1 /\ g.op = f.op /\ g.args = f.args
      /\ g.result = f.result /\ g.saved = f.saved
      /\ g.stack = [f.stack EXCEPT ![k + 1] = IF counted THEN r ELSE 0]
      /\ g.given = IF counted THEN Append(f.given, 0) ELSE f.given
  <2> DEFINE slots == [f.stack EXCEPT ![k + 1] = IF counted THEN r ELSE 0]
             given == IF counted THEN Append(f.given, 0) ELSE f.given
  <2>1. slots \in [Slot -> Nat] /\ given \in Seq(Nat)
    BY <1>5, <1>6
  <2>2. g = [f EXCEPT !.left = f.left - 1, !.stack = slots, !.given = given]
    BY <1>5 DEF g, r
  <2> HIDE DEF slots, given
  <2>3. /\ g \in Call /\ g.at = "push" /\ g.left = f.left - 1 /\ g.op = f.op /\ g.args = f.args
        /\ g.result = f.result /\ g.saved = f.saved /\ g.stack = slots /\ g.given = given
    BY <1>1, <1>2, <1>6, <2>1, <2>2 DEF Call
  <2> QED
    BY <2>3 DEF slots, given
<1>8. /\ g.stack[k + 1] = IF counted THEN r ELSE 0
      /\ \A s \in Slot : s # k + 1 => g.stack[s] = f.stack[s]
      /\ Len(g.given) = IF counted THEN r ELSE r - 1
      /\ \A i \in 1..(r - 1) : g.given[i] = f.given[i]
      /\ counted => g.given[r] = 0
      /\ Len(f.given) = r - 1
  BY <1>5, <1>6, <1>7 DEF r
<1>9. Held(g, k + 1) /\ OnceGiven(g)
  <2>1. \A s \in 1..(k + 1) : s \in Slot /\ (s = k + 1 \/ (s \in 1..k /\ s # k + 1))
    BY <1>5, StackAssumption DEF Slot
  <2>2. \A i \in 1..Len(g.given) : g.given[i] = 0 /\ \E s \in 1..(k + 1) : g.stack[s] = i
    <3> TAKE i \in 1..Len(g.given)
    <3>1. CASE i \in 1..(r - 1)
      <4>1. PICK s \in 1..k : f.stack[s] = i
        BY <1>4, <1>8, <3>1 DEF Held
      <4>2. f.given[i] = 0
        BY <1>4, <1>8, <3>1 DEF Held
      <4>3. s \in 1..(k + 1) /\ s # k + 1 /\ s \in Slot
        BY <1>5, <4>1, StackAssumption DEF Slot
      <4> QED
        BY <1>8, <3>1, <4>1, <4>2, <4>3
    <3>2. CASE i = r /\ counted
      <4>1. k + 1 \in 1..(k + 1)
        BY <1>5
      <4> QED
        BY <1>8, <3>2, <4>1
    <3>3. i \in 1..(r - 1) \/ (i = r /\ counted)
      BY <1>6, <1>8
    <3> QED
      BY <3>1, <3>2, <3>3
  <2>3. \A s \in Slot : f.stack[s] \in Nat /\ f.stack[s] <= r - 1
    BY <1>4, <1>6, <1>8 DEF Held
  <2>4. \A s, t \in 1..(k + 1) : g.stack[s] = g.stack[t] /\ g.stack[s] # 0 => s = t
    <3> SUFFICES ASSUME NEW s \in 1..(k + 1), NEW t \in 1..(k + 1),
                        g.stack[s] = g.stack[t], g.stack[s] # 0
                 PROVE  s = t
      OBVIOUS
    <3>1. CASE s = k + 1 \/ t = k + 1
      BY <1>6, <1>8, <2>1, <2>3, <3>1
    <3>2. CASE s # k + 1 /\ t # k + 1
      BY <1>4, <1>8, <2>1, <3>2 DEF Held
    <3> QED
      BY <3>1, <3>2
  <2>5. \A s \in Slot : g.stack[s] <= Len(g.given) /\ (s \notin 1..(k + 1) => g.stack[s] = 0)
    <3> TAKE s \in Slot
    <3>1. CASE s = k + 1
      BY <1>5, <1>6, <1>8, <3>1
    <3>2. CASE s # k + 1
      <4>1. g.stack[s] = f.stack[s] /\ (s \notin 1..(k + 1) => s \notin 1..k)
        BY <1>5, <1>8, <3>2
      <4>2. g.stack[s] <= Len(g.given)
        BY <1>6, <1>8, <2>3, <4>1
      <4> QED
        BY <1>4, <4>1, <4>2 DEF Held
    <3> QED
      BY <3>1, <3>2
  <2>6. OnceGiven(g)
    BY <2>2 DEF OnceGiven
  <2> QED
    BY <1>5, <2>2, <2>4, <2>5, <2>6 DEF Held
<1>10. vm' \in Vm /\ vm'.stack = Len(frames) /\ Placed(vm', k + 1, k + 1, 0)
  <2>1. vm \in Vm /\ vm.stack = Len(frames) /\ vm.top = k /\ vm.inparamcount = k /\ vm.outparamcount = 0
    BY <1>4 DEF Placed
  <2>2. vm' = [vm EXCEPT !.top = k + 1, !.inparamcount = k + 1] /\ k + 1 \in Nat
    BY <1>1, <1>5, <2>1
  <2> QED
    BY <2>1, <2>2 DEF Vm, Placed
<1>11. g.args - g.left = k + 1 /\ g.left <= g.args
  BY <1>2, <1>4, <1>7 DEF k, Call
<1>12. CallRight(g, vm', Len(frames))
  BY <1>2, <1>4, <1>7, <1>9, <1>10, <1>11 DEF CallRight
<1>13. level' = level + One(Safe(g)) - One(Safe(f))
  BY <1>1, <1>2, <1>7 DEF One, Safe
<1> QED
  BY <1>1, <1>3, <1>7, <1>12, <1>13, SetTopCall DEF f

\* A call whose references and parameters stay as they are.
LEMMA SameReferences ==
  ASSUME NEW f, NEW g, g.op = f.op, g.args = f.args, g.result = f.result, g.stack = f.stack,
         g.given = f.given
  PROVE  /\ \A n : Held(f, n) => Held(g, n)
         /\ \A v : Turned(f, v) => Turned(g, v)
         /\ ResultHeld(f) => ResultHeld(g)
         /\ AllGiven(f) => AllGiven(g)
         /\ OnceGiven(f) => OnceGiven(g)
BY DEF Held, Turned, ResultHeld, AllGiven, OnceGiven

LEMMA ToStage ==
  ASSUME CallsInv, frames # <<>>, NEW stage \in Stages, Calls!To(stage)
  PROVE  LET f == frames[Len(frames)]
             g == [f EXCEPT !.at = stage]
         IN  /\ frames' = [frames EXCEPT ![Len(frames)] = g] /\ g \in Call /\ g.at = stage
             /\ g.op = f.op /\ g.args = f.args /\ g.left = f.left /\ g.result = f.result
             /\ g.stack = f.stack /\ g.given = f.given /\ g.saved = f.saved
             /\ \A n : Held(f, n) => Held(g, n)
             /\ \A v : Turned(f, v) => Turned(g, v)
             /\ ResultHeld(f) => ResultHeld(g)
             /\ AllGiven(f) => AllGiven(g)
             /\ OnceGiven(f) => OnceGiven(g)
<1> DEFINE f == frames[Len(frames)]
           g == [f EXCEPT !.at = stage]
<1>1. frames \in Seq(Call) /\ f \in Call
  BY TopCall
<1>2. frames' = [frames EXCEPT ![Len(frames)] = g]
  BY <1>1 DEF Calls!To, Calls!this
<1> HIDE DEF f
<1>3. /\ g \in Call /\ g.at = stage
      /\ g.op = f.op /\ g.args = f.args /\ g.left = f.left /\ g.result = f.result
      /\ g.stack = f.stack /\ g.given = f.given /\ g.saved = f.saved
  BY <1>1 DEF Call
<1> HIDE DEF g
<1>4. /\ \A n : Held(f, n) => Held(g, n)
      /\ \A v : Turned(f, v) => Turned(g, v)
      /\ ResultHeld(f) => ResultHeld(g)
      /\ AllGiven(f) => AllGiven(g)
      /\ OnceGiven(f) => OnceGiven(g)
  BY <1>3, SameReferences
<1> QED
  BY <1>2, <1>3, <1>4 DEF f, g

LEMMA PushFailsInv == ASSUME CallsInv, Calls!PushFails PROVE CallsInv'
<1> DEFINE f == frames[Len(frames)]
           g == [f EXCEPT !.at = "failed"]
<1>1. /\ frames # <<>> /\ f.at = "push" /\ Calls!To("failed") /\ level' = level
      /\ vm' = vm \/ vm' = [vm EXCEPT !.top = @ + 1, !.inparamcount = @ + 1]
  BY DEF Calls!PushFails, Calls!Pushing, Calls!At, Calls!this, Calls!Grown
<1>2. CallRight(f, vm, Len(frames)) /\ level \in Nat
  BY <1>1, TopCall
<1>3. /\ frames' = [frames EXCEPT ![Len(frames)] = g] /\ g \in Call /\ g.at = "failed"
      /\ g.op = f.op /\ g.args = f.args /\ g.left = f.left /\ g.saved = f.saved
      /\ OnceGiven(f) => OnceGiven(g)
  BY <1>1, ToStage DEF Stages
<1> HIDE DEF f, g
<1>4. vm' \in Vm /\ vm'.stack = Len(frames) /\ vm'.outparamcount = 0
  <2>1. vm \in Vm /\ vm.stack = Len(frames) /\ vm.outparamcount = 0
    BY <1>1, <1>2 DEF CallRight, Placed
  <2>2. vm.top + 1 \in Nat /\ vm.inparamcount + 1 \in Nat
    BY <2>1 DEF Vm
  <2>3. CASE vm' = [vm EXCEPT !.top = @ + 1, !.inparamcount = @ + 1]
    BY <2>1, <2>2, <2>3 DEF Vm
  <2> QED
    BY <1>1, <2>1, <2>3
<1>5. CallRight(g, vm', Len(frames))
  BY <1>2, <1>3, <1>4 DEF CallRight
<1>6. level' = level + One(Safe(g)) - One(Safe(f))
  BY <1>1, <1>2, <1>3 DEF One, Safe
<1> QED
  BY <1>1, <1>3, <1>5, <1>6, SetTopCall DEF f

LEMMA ApplyInv == ASSUME CallsInv, Calls!Apply PROVE CallsInv'
<1> DEFINE f == frames[Len(frames)]
           g == [f EXCEPT !.at = "engine"]
<1>1. /\ frames # <<>> /\ f.at = "push" /\ f.left = 0 /\ Calls!To("engine")
      /\ IF f.op \in {"call", "set"}
           THEN vm' = [vm EXCEPT !.outparamcount = vm.inparamcount, !.inparamcount = 0]
           ELSE vm' = vm
      /\ level' = IF f.op = "notify" THEN level ELSE level + 1
  BY DEF Calls!Apply, Calls!At, Calls!this, Calls!Is
<1>2. CallRight(f, vm, Len(frames)) /\ level \in Nat /\ f \in Call
  BY <1>1, TopCall
<1>3. /\ frames' = [frames EXCEPT ![Len(frames)] = g] /\ g \in Call /\ g.at = "engine"
      /\ g.op = f.op /\ g.args = f.args /\ g.left = f.left /\ g.saved = f.saved
      /\ g.result = f.result
      /\ \A n : Held(f, n) => Held(g, n)
      /\ OnceGiven(f) => OnceGiven(g)
  BY <1>1, ToStage DEF Stages
<1> HIDE DEF f, g
<1>4. /\ vm \in Vm /\ vm.stack = Len(frames) /\ ~f.result /\ Held(f, f.args)
      /\ vm.top = f.args /\ vm.inparamcount = f.args /\ vm.outparamcount = 0
      /\ f.op = "get" => f.args = 0
  <2>1. f.args - f.left = f.args
    BY <1>1, <1>2 DEF Call
  <2> QED
    BY <1>1, <1>2, <2>1 DEF CallRight, Placed
<1>5. /\ vm' \in Vm /\ vm'.stack = Len(frames)
      /\ IF f.op = "notify" THEN Placed(vm', f.args, f.args, 0) ELSE Placed(vm', f.args, 0, f.args)
  <2>1. CASE f.op \in {"call", "set"}
    BY <1>1, <1>4, <2>1 DEF Vm, Placed
  <2>2. CASE f.op \in {"notify", "get"}
    BY <1>1, <1>4, <2>2 DEF Placed
  <2> QED
    BY <1>2, <2>1, <2>2 DEF Call
<1>6. CallRight(g, vm', Len(frames))
  BY <1>2, <1>3, <1>4, <1>5 DEF CallRight, Turned
<1>7. level' = level + One(Safe(g)) - One(Safe(f))
  BY <1>1, <1>2, <1>3 DEF One, Safe
<1> QED
  BY <1>1, <1>3, <1>6, <1>7, SetTopCall DEF f

LEMMA EngineEndsInv ==
  ASSUME CallsInv, Calls!EngineDone \/ Calls!EngineError
  PROVE  CallsInv'
<1> DEFINE f == frames[Len(frames)]
<1>1. /\ frames # <<>> /\ f.at = "engine" /\ f.op # "notify" /\ vm' = vm /\ level' = level - 1
      /\ \E stage \in {"returned", "failed"} : Calls!To(stage)
  BY DEF Calls!EngineDone, Calls!EngineError, Calls!At, Calls!this, Calls!Is
<1>2. PICK stage \in {"returned", "failed"} : Calls!To(stage)
  BY <1>1
<1>3. CallRight(f, vm, Len(frames)) /\ level \in Nat
  BY <1>1, TopCall
<1> DEFINE g == [f EXCEPT !.at = stage]
<1>4. /\ frames' = [frames EXCEPT ![Len(frames)] = g] /\ g \in Call /\ g.at = stage
      /\ g.op = f.op /\ g.args = f.args /\ g.left = f.left /\ g.saved = f.saved
      /\ g.result = f.result
      /\ \A v : Turned(f, v) => Turned(g, v)
      /\ OnceGiven(f) => OnceGiven(g)
  <2>1. stage \in Stages
    BY <1>2 DEF Stages
  <2> QED
    BY <1>1, <1>2, <2>1, ToStage
<1> HIDE DEF f, g
<1>5. Turned(g, vm) /\ g.op # "notify"
  BY <1>1, <1>3, <1>4 DEF CallRight
<1>6. CallRight(g, vm', Len(frames))
  <2>1. \/ vm.outparamcount = 0
        \/ Held(g, g.args) /\ Placed(vm, g.args, 0, g.args)
    BY <1>5 DEF Turned, Placed
  <2> QED
    BY <1>1, <1>2, <1>3, <1>4, <1>5, <2>1 DEF CallRight
<1>7. level' = level + One(Safe(g)) - One(Safe(f))
  BY <1>1, <1>2, <1>3, <1>4 DEF One, Safe
<1> QED
  BY <1>1, <1>4, <1>6, <1>7, SetTopCall DEF f

LEMMA NotifyDoneInv == ASSUME CallsInv, Calls!NotifyDone PROVE CallsInv'
<1> DEFINE f == frames[Len(frames)]
           given == Calls!Give(f, 1..f.args)
           g == [f EXCEPT !.at = "returned", !.given = given]
<1>1. /\ frames # <<>> /\ f.at = "engine" /\ f.op = "notify" /\ level' = level
      /\ vm' = [vm EXCEPT !.top = @ - vm.inparamcount, !.inparamcount = 0]
      /\ frames' = [frames EXCEPT ![Len(frames)].at = "returned",
           ![Len(frames)].given = Calls!Give(f, (vm.top - vm.inparamcount + 1)..vm.top)]
  BY DEF Calls!NotifyDone, Calls!At, Calls!this, Calls!Is
<1>2. CallRight(f, vm, Len(frames)) /\ level \in Nat /\ f \in Call /\ frames \in Seq(Call)
  BY <1>1, TopCall
<1>3. /\ vm \in Vm /\ vm.stack = Len(frames) /\ Held(f, f.args) /\ f.args \in Nat
      /\ vm.top = f.args /\ vm.inparamcount = f.args /\ vm.outparamcount = 0
  BY <1>1, <1>2 DEF CallRight, Turned, ResultHeld, Placed, Call
<1>4. vm.top - vm.inparamcount + 1 = 1 /\ vm.top - vm.inparamcount = 0
  BY <1>3
<1>5. frames' = [frames EXCEPT ![Len(frames)].at = "returned", ![Len(frames)].given = given]
  BY <1>1, <1>3, <1>4
<1>6. /\ given \in Seq(Nat) /\ Len(given) = Len(f.given)
      /\ \A r \in 1..Len(f.given) : given[r] = 1
  BY <1>2, <1>3, GiveHeld
<1> HIDE DEF given
<1>7. frames' = [frames EXCEPT ![Len(frames)] = g]
  BY <1>1, <1>2, <1>5
<1> HIDE DEF f
<1>8. /\ g \in Call /\ g.at = "returned" /\ g.op = f.op /\ g.args = f.args /\ g.left = f.left
      /\ g.saved = f.saved /\ g.given = given
  BY <1>2, <1>6 DEF Call, Stages
<1> HIDE DEF g
<1>9. AllGiven(g) /\ OnceGiven(g)
  BY <1>6, <1>8 DEF AllGiven, OnceGiven
<1>10. vm' \in Vm /\ vm'.stack = Len(frames) /\ vm'.outparamcount = 0
  BY <1>1, <1>3, <1>4 DEF Vm
<1>11. CallRight(g, vm', Len(frames))
  BY <1>1, <1>2, <1>8, <1>9, <1>10 DEF CallRight
<1>12. level' = level + One(Safe(g)) - One(Safe(f))
  BY <1>1, <1>2, <1>8 DEF One, Safe
<1> QED
  BY <1>1, <1>7, <1>8, <1>11, <1>12, SetTopCall DEF f

LEMMA EngineReturnsInv ==
  ASSUME CallsInv, NEW counted \in BOOLEAN, Calls!EngineReturns(counted)
  PROVE  CallsInv'
<1> DEFINE f == frames[Len(frames)]
           given == Calls!Give(f, 1..f.args)
           r == Len(given) + 1
           slots == [f.stack EXCEPT ![1] = IF counted THEN r ELSE 0]
           all == IF counted THEN Append(given, 0) ELSE given
           g == [f EXCEPT !.result = TRUE, !.stack = slots, !.given = all]
<1>1. /\ frames # <<>> /\ f.at = "engine" /\ f.op = "call" /\ ~f.result /\ level' = level
  BY DEF Calls!EngineReturns, Calls!At, Calls!this, Calls!Is
<1>2. CallRight(f, vm, Len(frames)) /\ level \in Nat /\ f \in Call /\ frames \in Seq(Call)
  BY <1>1, TopCall
<1>3. /\ vm \in Vm /\ vm.stack = Len(frames) /\ Held(f, f.args) /\ f.args \in Nat
      /\ vm.top = f.args /\ vm.inparamcount = 0 /\ vm.outparamcount = f.args
  BY <1>1, <1>2 DEF CallRight, Turned, Placed, Call
<1>4. vm.top - vm.outparamcount + 1 = 1
  BY <1>3
<1>5. /\ vm' = [vm EXCEPT !.top = 1, !.outparamcount = 0, !.inparamcount = 1]
      /\ frames' = [frames EXCEPT ![Len(frames)].result = TRUE,
                      ![Len(frames)].stack[1] = IF counted THEN r ELSE 0,
                      ![Len(frames)].given = IF counted THEN Append(given, 0) ELSE given]
  <2>1. given = Calls!Give(f, (vm.top - vm.outparamcount + 1)..vm.top)
    BY <1>3, <1>4
  <2> HIDE DEF given
  <2> QED
    BY <1>4, <2>1 DEF Calls!EngineReturns, Calls!this
<1>6. /\ given \in Seq(Nat) /\ Len(given) = Len(f.given)
      /\ \A i \in 1..Len(f.given) : given[i] = 1
  BY <1>2, <1>3, GiveHeld
<1> HIDE DEF given
<1>7. r \in Nat \ {0} /\ 1 \in Slot /\ Len(given) = r - 1
  BY <1>6, StackAssumption DEF Slot
<1>8. frames' = [frames EXCEPT ![Len(frames)] = g]
  BY <1>1, <1>2, <1>5
<1> HIDE DEF f, r
<1>9. /\ slots \in [Slot -> Nat] /\ slots[1] = IF counted THEN r ELSE 0
      /\ all \in Seq(Nat) /\ Len(all) = IF counted THEN r ELSE r - 1
      /\ \A i \in 1..(r - 1) : all[i] = 1
      /\ counted => all[r] = 0
  <2>1. f.stack \in [Slot -> Nat]
    BY <1>2 DEF Call
  <2>2. slots \in [Slot -> Nat] /\ slots[1] = IF counted THEN r ELSE 0
    BY <1>7, <2>1
  <2>3. all \in Seq(Nat) /\ Len(all) = IF counted THEN r ELSE r - 1
    BY <1>6, <1>7
  <2>4. \A i \in 1..(r - 1) : all[i] = 1
    BY <1>6, <1>7
  <2>5. counted => all[r] = 0
    BY <1>6, <1>7
  <2> QED
    BY <2>2, <2>3, <2>4, <2>5
<1> HIDE DEF slots, all
<1>10. /\ g \in Call /\ g.at = f.at /\ g.op = f.op /\ g.args = f.args /\ g.left = f.left
       /\ g.saved = f.saved /\ g.result /\ g.stack = slots /\ g.given = all
  BY <1>2, <1>9 DEF Call
<1> HIDE DEF g
<1>11. ResultHeld(g) /\ OnceGiven(g)
  <2>1. ASSUME NEW i \in 1..Len(g.given)
        PROVE  g.given[i] = IF g.stack[1] = i THEN 0 ELSE 1
    <3>1. i \in 1..(r - 1) \/ (counted /\ i = r)
      BY <1>7, <1>9, <1>10
    <3>2. CASE i \in 1..(r - 1)
      BY <1>7, <1>9, <1>10, <3>2
    <3>3. CASE counted /\ i = r
      BY <1>7, <1>9, <1>10, <3>3
    <3> QED
      BY <3>1, <3>2, <3>3
  <2> QED
    BY <1>1, <1>10, <2>1 DEF ResultHeld, OnceGiven
<1>12. vm' \in Vm /\ vm'.stack = Len(frames) /\ Placed(vm', 1, 1, 0)
  BY <1>3, <1>5 DEF Vm, Placed
<1>13. CallRight(g, vm', Len(frames))
  BY <1>1, <1>2, <1>10, <1>11, <1>12 DEF CallRight, Turned
<1>14. level' = level + One(Safe(g)) - One(Safe(f))
  BY <1>1, <1>2, <1>10 DEF One, Safe
<1> QED
  BY <1>1, <1>8, <1>10, <1>13, <1>14, SetTopCall DEF f

LEMMA GetReturnValueInv == ASSUME CallsInv, Calls!GetReturnValue PROVE CallsInv'
<1> DEFINE f == frames[Len(frames)]
           L == Len(frames)
<1>1. frames # <<>> /\ f.at = "returned" /\ level' = level
  BY DEF Calls!GetReturnValue, Calls!At, Calls!this
<1>2. CallRight(f, vm, L) /\ level \in Nat /\ f \in Call /\ frames \in Seq(Call)
  BY <1>1, TopCall
<1>3. CASE f.op = "call" /\ vm.inparamcount # 0
  <2> DEFINE given == Calls!Give(f, {})
             g == [f EXCEPT !.at = "leaving", !.given = given]
  <2>1. vm \in Vm /\ vm.stack = L /\ f.result /\ ResultHeld(f) /\ Placed(vm, 1, 1, 0)
    BY <1>1, <1>2, <1>3 DEF CallRight, Turned, Placed
  <2>2. /\ vm' = [vm EXCEPT !.top = @ - vm.outparamcount, !.outparamcount = vm.inparamcount,
                            !.inparamcount = 0]
        /\ frames' = [frames EXCEPT ![L].at = "leaving",
                        ![L].given = Calls!Give(f, Calls!OutParams)]
    BY <1>1, <1>3 DEF Calls!GetReturnValue, Calls!Is, Calls!this
  <2>3. vm' \in Vm /\ vm'.stack = L /\ Placed(vm', 1, 0, 1)
    <3>1. vm' = [vm EXCEPT !.top = 1, !.outparamcount = 1, !.inparamcount = 0]
      BY <2>1, <2>2 DEF Placed
    <3> QED
      BY <2>1, <3>1 DEF Vm, Placed
  <2>4. Calls!OutParams = {}
    BY <2>1 DEF Calls!OutParams, Placed
  <2>5. frames' = [frames EXCEPT ![L].at = "leaving", ![L].given = given]
    BY <2>2, <2>4
  <2>6. /\ given \in Seq(Nat) /\ Len(given) = Len(f.given)
        /\ \A r \in 1..Len(f.given) : given[r] = f.given[r]
    <3>1. /\ given \in Seq(Nat) /\ Len(given) = Len(f.given)
          /\ \A r \in 1..Len(f.given) : given[r] = f.given[r] + One(\E s \in {} : f.stack[s] = r)
      <4> DEFINE S == {}
      <4>1. S \in SUBSET Slot /\ \A s, t \in S : f.stack[s] = f.stack[t] /\ f.stack[s] # 0 => s = t
        OBVIOUS
      <4> HIDE DEF S, f
      <4>2. /\ Calls!Give(f, S) \in Seq(Nat) /\ Len(Calls!Give(f, S)) = Len(f.given)
            /\ \A r \in 1..Len(f.given) :
                 Calls!Give(f, S)[r] = f.given[r] + One(\E s \in S : f.stack[s] = r)
        BY <1>2, <4>1, GiveOnce
      <4> QED
        BY <4>2 DEF S
    <3>2. f.given \in Seq(Nat)
      BY <1>2 DEF Call
    <3> QED
      BY <3>1, <3>2 DEF One
  <2> HIDE DEF given
  <2>7. frames' = [frames EXCEPT ![L] = g]
    BY <1>1, <1>2, <2>5
  <2> HIDE DEF f, L
  <2>8. /\ g \in Call /\ g.at = "leaving" /\ g.op = f.op /\ g.args = f.args /\ g.left = f.left
        /\ g.saved = f.saved /\ g.given = given /\ g.result = f.result /\ g.stack = f.stack
    BY <1>2, <2>6 DEF Call, Stages
  <2> HIDE DEF g
  <2>9. ResultHeld(g) /\ OnceGiven(g)
    BY <1>2, <2>1, <2>6, <2>8 DEF CallRight, ResultHeld, OnceGiven
  <2>10. CallRight(g, vm', L)
    BY <1>2, <2>3, <2>8, <2>9 DEF CallRight
  <2>11. level' = level + One(Safe(g)) - One(Safe(f))
    BY <1>1, <1>2, <2>8 DEF One, Safe
  <2> QED
    BY <1>1, <2>7, <2>8, <2>10, <2>11, SetTopCall DEF f, L
<1>4. CASE ~(f.op = "call" /\ vm.inparamcount # 0)
  <2> DEFINE g == [f EXCEPT !.at = "leaving"]
  <2>1. vm' = vm /\ Calls!To("leaving")
    BY <1>1, <1>4 DEF Calls!GetReturnValue, Calls!Is, Calls!this
  <2>2. /\ frames' = [frames EXCEPT ![L] = g] /\ g \in Call /\ g.at = "leaving"
        /\ g.op = f.op /\ g.args = f.args /\ g.left = f.left /\ g.saved = f.saved
        /\ g.result = f.result
        /\ \A n : Held(f, n) => Held(g, n)
        /\ AllGiven(f) => AllGiven(g)
        /\ OnceGiven(f) => OnceGiven(g)
    BY <1>1, <2>1, ToStage DEF Stages
  <2> HIDE DEF f, g, L
  <2>3. \/ g.op = "notify" /\ AllGiven(g) /\ vm.outparamcount = 0
        \/ g.op # "notify" /\ ~g.result /\ Held(g, g.args) /\ Placed(vm, g.args, 0, g.args)
    <3>1. CASE f.op = "notify"
      BY <1>1, <1>2, <2>2, <3>1 DEF CallRight
    <3>2. CASE f.op # "notify"
      <4>1. Turned(f, vm)
        BY <1>1, <1>2, <3>2 DEF CallRight
      <4>2. ~f.result
        BY <1>4, <4>1 DEF Turned, ResultHeld, Placed
      <4> QED
        BY <2>2, <3>2, <4>1, <4>2 DEF Turned
    <3> QED
      BY <3>1, <3>2
  <2>4. CallRight(g, vm', L)
    BY <1>2, <2>1, <2>2, <2>3 DEF CallRight
  <2>5. level' = level + One(Safe(g)) - One(Safe(f))
    BY <1>1, <1>2, <2>2 DEF One, Safe
  <2> QED
    BY <1>1, <2>2, <2>4, <2>5, SetTopCall DEF f, L
<1> QED
  BY <1>3, <1>4

\* What Scr_ClearOutParams finds below and above the first parameter.
LEMMA ClearOutParamsInv == ASSUME CallsInv, Calls!ClearOutParams PROVE CallsInv'
<1> DEFINE f == frames[Len(frames)]
           L == Len(frames)
           S == Calls!OutParams
           given == Calls!Give(f, S)
<1>1. frames # <<>> /\ f.at \in {"leaving", "failed"} /\ level' = level /\ vm' = vm
  BY DEF Calls!ClearOutParams, Calls!At, Calls!this
<1>2. CallRight(f, vm, L) /\ level \in Nat /\ f \in Call /\ frames \in Seq(Call)
  BY <1>1, TopCall
<1>3. vm \in Vm /\ vm.top \in Nat /\ S = vm.top .. (vm.top + vm.outparamcount - 1)
  BY <1>2 DEF CallRight, Vm, Calls!OutParams
<1>4. CASE Calls!Overread
  <2> DEFINE g == [f EXCEPT !.at = "undefined"]
  <2>1. Calls!To("undefined")
    BY <1>4 DEF Calls!ClearOutParams
  <2>2. /\ frames' = [frames EXCEPT ![L] = g] /\ g \in Call /\ g.at = "undefined"
        /\ g.op = f.op /\ g.args = f.args /\ g.left = f.left /\ g.saved = f.saved
        /\ OnceGiven(f) => OnceGiven(g)
    BY <1>1, <2>1, ToStage DEF Stages
  <2> HIDE DEF f, g, L
  <2>3. CallRight(g, vm', L)
    BY <1>1, <1>2, <2>2 DEF CallRight
  <2>4. level' = level + One(Safe(g)) - One(Safe(f))
    BY <1>1, <1>2, <2>2 DEF One, Safe
  <2> QED
    BY <1>1, <2>2, <2>3, <2>4, SetTopCall DEF f, L
<1>5. CASE ~Calls!Overread
  <2> DEFINE stage == IF f.at = "failed" THEN "thrown" ELSE "done"
             g == [f EXCEPT !.at = stage, !.given = given]
  <2>1. frames' = [frames EXCEPT ![L].at = IF @ = "failed" THEN "thrown" ELSE "done",
                                 ![L].given = given]
    BY <1>5 DEF Calls!ClearOutParams, Calls!this
  <2>2. S \in SUBSET Slot
    <3>1. \A s \in S : s \in DOMAIN f.stack
      BY <1>5 DEF Calls!Overread, Calls!this
    <3> QED
      BY <1>2, <3>1 DEF Call
  <2>3. frames' = [frames EXCEPT ![L] = g]
    <3> HIDE DEF given
    <3> QED
      BY <1>1, <1>2, <2>1
  <2> HIDE DEF f, L, S
  <2>4. \/ vm.outparamcount = 0 /\ (f.at = "leaving" => AllGiven(f))
        \/ ResultHeld(f) /\ Placed(vm, 1, 0, 1)
        \/ /\ Held(f, f.args) /\ Placed(vm, f.args, 0, f.args)
           /\ f.at = "leaving" => f.op # "notify" /\ ~f.result
    BY <1>1, <1>2 DEF CallRight
  <2>5. f.given \in Seq(Nat) /\ f.stack \in [Slot -> Nat] /\ f.args \in Nat
    BY <1>2 DEF Call
  <2>6. \A s, t \in S : f.stack[s] = f.stack[t] /\ f.stack[s] # 0 => s = t
    <3>1. CASE vm.outparamcount = 0
      BY <1>3, <3>1
    <3>2. CASE Placed(vm, 1, 0, 1)
      BY <1>3, <3>2 DEF Placed
    <3>3. CASE Held(f, f.args) /\ Placed(vm, f.args, 0, f.args)
      <4>1. \A s \in S : s \in Slot /\ (s = f.args \/ s \notin 1..f.args)
        BY <1>3, <2>2, <2>5, <3>3 DEF Placed
      <4>2. \A s \in S : f.stack[s] # 0 => s = f.args
        BY <3>3, <4>1 DEF Held
      <4> QED
        BY <4>2
    <3> QED
      BY <2>4, <3>1, <3>2, <3>3
  <2>7. /\ given \in Seq(Nat) /\ Len(given) = Len(f.given)
        /\ \A r \in 1..Len(f.given) : given[r] = f.given[r] + One(\E s \in S : f.stack[s] = r)
    BY <1>2, <2>2, <2>6, GiveOnce
  <2> HIDE DEF given
  <2>8. /\ g \in Call /\ g.at = stage /\ g.op = f.op /\ g.args = f.args /\ g.left = f.left
        /\ g.saved = f.saved /\ g.given = given /\ g.result = f.result /\ g.stack = f.stack
    <3>1. stage \in Stages
      BY DEF Stages
    <3> HIDE DEF stage
    <3> QED
      BY <1>2, <2>7, <3>1 DEF Call
  <2>9. OnceGiven(f) /\ f.left <= f.args /\ (f.op = "set" => f.args = 1) /\ (f.op = "get" => f.args = 0)
    BY <1>2 DEF CallRight
  <2> HIDE DEF g
  <2>10. OnceGiven(g) /\ (f.at = "leaving" => GivenBackBy(g))
    <3>1. CASE vm.outparamcount = 0 /\ (f.at = "leaving" => AllGiven(f))
      <4>1. S = {}
        BY <1>3, <3>1
      <4>2. \A r \in 1..Len(f.given) : given[r] = f.given[r]
        BY <2>5, <2>7, <4>1 DEF One
      <4> QED
        BY <2>7, <2>8, <2>9, <3>1, <4>2 DEF OnceGiven, AllGiven, GivenBackBy
    <3>2. CASE ResultHeld(f) /\ Placed(vm, 1, 0, 1)
      <4>1. S = {1}
        BY <1>3, <3>2 DEF Placed
      <4>2. \A r \in 1..Len(f.given) : given[r] = 1
        BY <2>7, <3>2, <4>1 DEF One, ResultHeld
      <4> QED
        BY <2>7, <2>8, <4>2 DEF OnceGiven, GivenBackBy
    <3>3. CASE /\ Held(f, f.args) /\ Placed(vm, f.args, 0, f.args)
               /\ f.at = "leaving" => f.op # "notify" /\ ~f.result
      <4>1. \A r \in 1..Len(f.given) : given[r] = One(\E s \in S : f.stack[s] = r)
        <5> TAKE r \in 1..Len(f.given)
        <5> DEFINE n == One(\E s \in S : f.stack[s] = r)
        <5>1. f.given[r] = 0 /\ n \in {0, 1}
          BY <3>3 DEF Held, One
        <5>2. given[r] = f.given[r] + n
          BY <2>7
        <5> HIDE DEF n
        <5>3. given[r] = n
          BY <5>1, <5>2
        <5> QED
          BY <5>3 DEF n
      <4>2. OnceGiven(g)
        BY <2>7, <2>8, <4>1 DEF OnceGiven, One
      <4>3. ASSUME f.at = "leaving", NEW r \in 1..Len(f.given), given[r] # 1
            PROVE  f.op = "call" /\ ~f.result /\ f.args >= 2 /\ f.stack[f.args] # r
        <5>1. \A s \in S : f.stack[s] # r
          BY <4>1, <4>3 DEF One
        <5>2. PICK s \in 1..f.args : f.stack[s] = r
          BY <3>3 DEF Held
        <5>3. f.args \in S /\ f.args >= 1
          BY <1>3, <2>5, <3>3, <5>2 DEF Placed
        <5>4. f.stack[f.args] # r /\ s # f.args
          BY <5>1, <5>2, <5>3
        <5>5. f.args >= 2
          BY <2>5, <5>2, <5>4
        <5>6. f.op = "call"
          BY <1>2, <2>9, <3>3, <4>3, <5>5 DEF Call
        <5> QED
          BY <3>3, <4>3, <5>4, <5>5, <5>6
      <4> QED
        BY <2>7, <2>8, <4>2, <4>3 DEF GivenBackBy
    <3> QED
      BY <2>4, <3>1, <3>2, <3>3
  <2>11. CallRight(g, vm', L)
    BY <1>1, <1>2, <2>8, <2>9, <2>10 DEF CallRight
  <2>12. level' = level + One(Safe(g)) - One(Safe(f))
    BY <1>1, <1>2, <2>8 DEF One, Safe
  <2> QED
    BY <1>1, <2>3, <2>8, <2>11, <2>12, SetTopCall DEF f, L
<1> QED
  BY <1>4, <1>5

LEMMA CallsNext == CallsInv /\ [Calls!Next]_callsVars => CallsInv'
<1> SUFFICES ASSUME CallsInv, [Calls!Next]_callsVars PROVE CallsInv'
  OBVIOUS
<1>1. CASE UNCHANGED callsVars
  BY <1>1 DEF callsVars, CallsInv
<1>2. CASE \E args \in 0..MaxArgs : Calls!Enter("notify", args) \/ Calls!Enter("call", args)
  BY <1>2, EnterInv
<1>3. CASE Calls!Enter("set", 1) \/ Calls!Enter("get", 0)
  BY <1>3, EnterInv
<1>4. CASE \E counted \in BOOLEAN : Calls!Push(counted) \/ Calls!EngineReturns(counted)
  BY <1>4, PushInv, EngineReturnsInv
<1>5. CASE \/ Calls!PushFails \/ Calls!Apply \/ Calls!NotifyDone \/ Calls!EngineDone
           \/ Calls!EngineError \/ Calls!GetReturnValue \/ Calls!ClearOutParams \/ Calls!Restore
  BY <1>5, PushFailsInv, ApplyInv, NotifyDoneInv, EngineEndsInv, GetReturnValueInv,
     ClearOutParamsInv, RestoreInv
<1> QED
  BY <1>1, <1>2, <1>3, <1>4, <1>5 DEF Calls!Next

LEMMA CallsInit == Calls!Init => CallsInv
<1> SUFFICES ASSUME Calls!Init PROVE CallsInv
  OBVIOUS
<1>1. frames = <<>> /\ level = 0 /\ vm = GameVm
  BY DEF Calls!Init, GameVm
<1>2. SafeCalls(frames) = {}
  BY <1>1 DEF SafeCalls
<1>3. frames \in Seq(Call) /\ Len(frames) = 0 /\ Cardinality(SafeCalls(frames)) = 0
  BY <1>1, <1>2, FS_EmptySet
<1> QED
  BY <1>1, <1>3 DEF CallsInv

\* The invariant says what the properties do.
LEMMA CallsAreRight == CallsInv => ReferencesGivenBack /\ CallsNest
<1> SUFFICES ASSUME CallsInv PROVE ReferencesGivenBack /\ CallsNest
  OBVIOUS
<1> DEFINE f == frames[Len(frames)]
<1>1. /\ frames \in Seq(Call) /\ Len(frames) \in Nat /\ Calls!this = Len(frames)
      /\ frames # <<>> => f \in Call /\ CallRight(f, vm, Len(frames))
  BY TopCall DEF CallsInv, Calls!this
<1>2. \A d \in 1..Len(frames) : frames[d] \in Call /\ OnceGiven(frames[d])
  <2> TAKE d \in 1..Len(frames)
  <2>1. CASE d = Len(frames)
    BY <1>1, <2>1 DEF CallRight
  <2>2. CASE d # Len(frames)
    <3>1. d + 1 \in 1..Len(frames) /\ d + 1 # 1 /\ (d + 1) - 1 = d
      BY <1>1, <2>2
    <3>2. CallRight(frames[d], frames[d + 1].saved, d)
      BY <3>1 DEF CallsInv
    <3> QED
      BY <1>1, <3>2 DEF CallRight
  <2> QED
    BY <2>1, <2>2
<1>3. Calls!ReleasedOnce
  <2>1. \A d \in 1..Len(frames) : DOMAIN frames[d].given = 1..Len(frames[d].given)
    BY <1>2 DEF Call
  <2> QED
    BY <1>1, <1>2, <2>1 DEF Calls!ReleasedOnce, OnceGiven
<1>4. Calls!GivenBack
  <2> SUFFICES ASSUME frames # <<>>, f.at = "done"
               PROVE  \A r \in DOMAIN f.given :
                        \/ f.given[r] = 1
                        \/ f.op = "call" /\ ~f.result /\ f.args >= 2 /\ f.stack[f.args] # r
    BY <1>1 DEF Calls!GivenBack, Calls!At, Calls!Is, Calls!this
  <2>1. GivenBackBy(f) /\ f.given \in Seq(Nat)
    BY <1>1 DEF CallRight, Call
  <2> HIDE DEF f
  <2> QED
    BY <2>1 DEF GivenBackBy
<1>5. Calls!ArgumentsInPlace
  <2> SUFFICES ASSUME frames # <<>>, f.at = "engine", ~f.result
               PROVE  /\ vm.stack = Len(frames) /\ vm.top = f.args
                      /\ vm.inparamcount = (IF f.op = "notify" THEN f.args ELSE 0)
                      /\ vm.outparamcount = (IF f.op = "notify" THEN 0 ELSE f.args)
    BY <1>1 DEF Calls!ArgumentsInPlace, Calls!At, Calls!Is, Calls!this
  <2>1. vm.stack = Len(frames) /\ Turned(f, vm)
    BY <1>1 DEF CallRight
  <2> HIDE DEF f
  <2> QED
    BY <2>1 DEF Turned, Placed
<1>6. Calls!LevelsMatchCalls
  <2>1. SafeCalls(frames) = {d \in 1..Calls!this : frames[d].at = "engine" /\ frames[d].op # "notify"}
    BY <1>1 DEF SafeCalls, Safe
  <2> QED
    BY <2>1, CallsCardinality DEF CallsInv, Calls!LevelsMatchCalls
<1> QED
  BY <1>3, <1>4, <1>5, <1>6 DEF ReferencesGivenBack, CallsNest

LEMMA CallsHold == PartsSpec => []CallsInv
<1>1. PartsInit => CallsInv
  BY CallsInit DEF PartsInit
<1>2. [PartsNext]_<<part, vars, callsVars>> => [Calls!Next]_callsVars
  BY DEF PartsNext
<1>3. CallsInv /\ [PartsNext]_<<part, vars, callsVars>> => CallsInv'
  BY <1>2, CallsNext
<1> QED
  BY <1>1, <1>3, PTL DEF PartsSpec

\* stack_isolation and get_return_value give the game back the references that
\* parameters::push and the game itself took, none of them twice, whatever a
\* call is for, in whatever callbacks of the game calls nest, and wherever one
\* fails: but a call of two arguments or more of a function without a result
\* only gives its first argument back.
THEOREM References_Given_Back == PartsSpec => []ReferencesGivenBack
<1>1. CallsInv => ReferencesGivenBack
  BY CallsAreRight
<1> QED
  BY <1>1, CallsHold, PTL

\* A function of the game finds its arguments on the stack it was called with,
\* whatever calls were made in callbacks meanwhile and failed; and the error
\* level is always that of the innermost safe call.
THEOREM Calls_Nest == PartsSpec => []CallsNest
<1>1. CallsInv => CallsNest
  BY CallsAreRight
<1> QED
  BY <1>1, CallsHold, PTL
============================================================================
