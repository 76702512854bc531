-------------------------- MODULE ScriptEntities ---------------------------
(***************************************************************************)
(* game::scripting::entity: handles of the game's script objects that      *)
(* count as references in the game, held by variables of a script and by   *)
(* the fields an executer keeps for objects the game knows no such field   *)
(* of (entity_fields_). The game frees an object with its last reference   *)
(* and may give its id to another one. A field keeps the very value the    *)
(* script passed, not a copy, and is never taken out again.                *)
(***************************************************************************)
EXTENDS Integers, FiniteSets

CONSTANTS
  Ids,      \* ids of objects, none of them 0
  Slots,    \* C++ objects of class entity
  MaxRefs,  \* bound: references of the game to an object
  MaxBorn   \* bound: objects with the same id, one after the other

ASSUME SlotsAssumption == IsFiniteSet(Slots)
ASSUME IdsAssumption == Ids \subseteq Nat \ {0}
ASSUME BoundsAssumption == MaxRefs \in Nat /\ MaxBorn \in Nat

DEAD == -1  \* no entity in the slot
None == 0   \* an entity without an object

VARIABLES
  count,     \* the reference count in the game
  game,      \* the references of the game itself, its parameter stack included
  held,      \* entity_id_ of each slot
  variables, \* slots a variable or temporary of the script refers to
  fields,    \* the slot that is the value of an object's field; DEAD for none
  born,      \* history: objects that had the id so far
  got,       \* history: which of them the slot was made for
  setFor,    \* history: which of them the field was last set for
  setter     \* history: slots that set the field of their object

vars == <<count, game, held, variables, fields, born, got, setFor, setter>>
history == <<born, got, setFor, setter>>

Init ==
  /\ count = [i \in Ids |-> 0] /\ game = [i \in Ids |-> 0]
  /\ held = [s \in Slots |-> DEAD] /\ variables = {}
  /\ fields = [i \in Ids |-> DEAD]
  /\ born = [i \in Ids |-> 0] /\ got = [s \in Slots |-> 0]
  /\ setFor = [i \in Ids |-> 0] /\ setter = {}

\* add and release do nothing for an entity without an object.
AddRef(c, i) == IF i \in Ids THEN [c EXCEPT ![i] = @ + 1] ELSE c
RemoveRef(c, i) == IF i \in Ids THEN [c EXCEPT ![i] = @ - 1] ELSE c

Holders(h, i) == {s \in Slots : h[s] = i}
Age(i) == IF i \in Ids THEN born[i] ELSE 0

-----------------------------------------------------------------------------
(* The game.                                                               *)

Create(i) ==
  /\ count[i] = 0 /\ born[i] < MaxBorn
  /\ count' = AddRef(count, i) /\ game' = AddRef(game, i)
  /\ born' = [born EXCEPT ![i] = @ + 1]
  /\ UNCHANGED <<held, variables, fields, got, setFor, setter>>

Keep(i) ==
  /\ game[i] \in 1..(MaxRefs - 1)
  /\ count' = AddRef(count, i) /\ game' = AddRef(game, i)
  /\ UNCHANGED <<held, variables, fields, history>>

Drop(i) ==
  /\ game[i] > 0
  /\ count' = RemoveRef(count, i) /\ game' = RemoveRef(game, i)
  /\ UNCHANGED <<held, variables, fields, history>>

-----------------------------------------------------------------------------
(* Entities: constructors, assignments, destruction.                       *)

Fresh(s) == held[s] = DEAD

\* Mutant of Constructed: the entity does not count.
ConstructedUncounted(s, i) ==
  /\ Fresh(s)
  /\ held' = [held EXCEPT ![s] = i]
  /\ variables' = variables \cup {s}
  /\ got' = [got EXCEPT ![s] = Age(i)]
  /\ UNCHANGED <<count, game, fields, born, setFor, setter>>

Constructed(s, i) ==
  /\ Fresh(s)
  /\ held' = [held EXCEPT ![s] = i]
  /\ variables' = variables \cup {s}
  /\ count' = AddRef(count, i)
  /\ got' = [got EXCEPT ![s] = Age(i)]
  /\ UNCHANGED <<game, fields, born, setFor, setter>>

\* parameters::load: an argument or result the game holds a reference to.
Load(s, i) == game[i] > 0 /\ Constructed(s, i)

\* entity(), and a copy.
Default(s) == Constructed(s, None)
Copy(s, from) == from \in variables /\ Constructed(s, held[from])

\* Mutant of Move: the other one is left as it is.
MoveKept(s, from) ==
  /\ from \in variables /\ Fresh(s) /\ s # from
  /\ held' = [held EXCEPT ![s] = held[from]]
  /\ variables' = variables \cup {s}
  /\ got' = [got EXCEPT ![s] = got[from]]
  /\ setter' = setter \ {from}
  /\ UNCHANGED <<count, game, fields, born, setFor>>

\* The move constructor takes the reference over.
Move(s, from) ==
  /\ from \in variables /\ Fresh(s) /\ s # from
  /\ held' = [held EXCEPT ![s] = held[from], ![from] = None]
  /\ variables' = variables \cup {s}
  /\ got' = [got EXCEPT ![s] = got[from], ![from] = 0]
  /\ setter' = setter \ {from}
  /\ UNCHANGED <<count, game, fields, born, setFor>>

\* Mutant of Assign: the old object is not released.
AssignUnreleased(s, from) ==
  /\ {s, from} \subseteq variables /\ s # from
  /\ held' = [held EXCEPT ![s] = held[from]]
  /\ count' = AddRef(count, held[from])
  /\ got' = [got EXCEPT ![s] = got[from]]
  /\ setter' = setter \ {s}
  /\ UNCHANGED <<game, variables, fields, born, setFor>>

\* "=" of the scripts: the old object first, which may free it, then the new. That
\* is one step, as nothing comes between them: it is the game's own thread that
\* counts both, and no script runs meanwhile.
Assign(s, from) ==
  /\ {s, from} \subseteq variables /\ s # from
  /\ held' = [held EXCEPT ![s] = held[from]]
  /\ count' = AddRef(RemoveRef(count, held[s]), held[from])
  /\ got' = [got EXCEPT ![s] = got[from]]
  /\ setter' = setter \ {s}
  /\ UNCHANGED <<game, variables, fields, born, setFor>>

MoveAssign(s, from) ==
  /\ {s, from} \subseteq variables /\ s # from
  /\ held' = [held EXCEPT ![s] = held[from], ![from] = None]
  /\ count' = RemoveRef(count, held[s])
  /\ got' = [got EXCEPT ![s] = got[from], ![from] = 0]
  /\ setter' = setter \ {s, from}
  /\ UNCHANGED <<game, variables, fields, born, setFor>>

\* parameters::push copies the value onto the game's stack.
Push(s) ==
  /\ s \in variables /\ held[s] \in Ids /\ game[held[s]] < MaxRefs
  /\ count' = AddRef(count, held[s]) /\ game' = AddRef(game, held[s])
  /\ UNCHANGED <<held, variables, fields, history>>

\* The last variable or field that shares the slot is gone, and with it the
\* entity: ~entity.
Collected(vs, fs) ==
  {s \in Slots : held[s] # DEAD /\ s \notin vs /\ \A i \in Ids : fs[i] # s}
Collect(vs, fs) ==
  LET gone == Collected(vs, fs)
  IN  /\ held' = [s \in Slots |-> IF s \in gone THEN DEAD ELSE held[s]]
      /\ count' = [i \in Ids |-> count[i] - Cardinality(gone \cap Holders(held, i))]

DropVariable(s) ==
  /\ s \in variables
  /\ variables' = variables \ {s}
  /\ Collect(variables', fields)
  /\ setter' = setter \ Collected(variables', fields)
  /\ UNCHANGED <<game, fields, born, got, setFor>>

-----------------------------------------------------------------------------
(* Fields outside of the game.                                             *)

\* set_entity_field: the value that was there may have lived in the field only.
SetField(s, value) ==
  /\ {s, value} \subseteq variables /\ held[s] \in Ids
  /\ fields' = [fields EXCEPT ![held[s]] = value]
  /\ setFor' = [setFor EXCEPT ![held[s]] = born[held[s]]]
  /\ Collect(variables, fields')
  /\ setter' = (setter \cup {s}) \ Collected(variables, fields')
  /\ UNCHANGED <<game, variables, born, got>>

\* get_entity_field: the script gets the value itself.
GetField(s) ==
  /\ s \in variables /\ held[s] \in Ids /\ fields[held[s]] # DEAD
  /\ variables' = variables \cup {fields[held[s]]}
  /\ UNCHANGED <<count, game, held, fields, history>>

\* ~context, when the script is unloaded: nothing of it is left.
Unload ==
  /\ fields' = [i \in Ids |-> DEAD] /\ variables' = {}
  /\ Collect(variables', fields')
  /\ setter' = setter \ Collected(variables', fields')
  /\ UNCHANGED <<game, born, got, setFor>>

Next ==
  \/ \E i \in Ids : Create(i) \/ Keep(i) \/ Drop(i)
  \/ \E s \in Slots :
       \/ Default(s) \/ Push(s) \/ DropVariable(s) \/ GetField(s)
       \/ \E i \in Ids : Load(s, i)
       \/ \E other \in Slots :
            \/ Copy(s, other) \/ Move(s, other)
            \/ Assign(s, other) \/ MoveAssign(s, other) \/ SetField(s, other)
  \/ Unload

Spec == Init /\ [][Next]_vars

-----------------------------------------------------------------------------
(* Properties.                                                             *)

TypeOK ==
  /\ count \in [Ids -> Int] /\ game \in [Ids -> Nat]
  /\ held \in [Slots -> Ids \cup {DEAD, None}]
  /\ variables \in SUBSET Slots /\ fields \in [Ids -> Slots \cup {DEAD}]
  /\ born \in [Ids -> Nat] /\ got \in [Slots -> Nat]
  /\ setFor \in [Ids -> Nat] /\ setter \in SUBSET Slots

\* The count of the game is exactly its own references and one for each entity
\* that holds the object, however entities are copied, moved, assigned, kept
\* in fields and given up: no object is freed under an entity, none kept by one
\* that is gone.
CountsMatch == \A i \in Ids : count[i] = game[i] + Cardinality(Holders(held, i))

\* An entity means the object it was made for as long as it lives, never one
\* that later got the same id.
HeldSameObject == \A s \in Slots : held[s] \in Ids => got[s] = born[held[s]]

\* While a script keeps the entity it set a field through, the field is of that
\* object: only for objects nobody holds do fields outlive what they were
\* set for.
FieldsOfTheObject ==
  \A s \in setter : held[s] \in Ids => setFor[held[s]] = born[held[s]]

\* Scripts deal with the objects they mean: both of the above.
SameObject == HeldSameObject /\ FieldsOfTheObject
=============================================================================
