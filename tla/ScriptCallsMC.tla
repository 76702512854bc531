---------------------------- MODULE ScriptCallsMC ---------------------------
(***************************************************************************)
(* What scripts share with the game, for TLC: the objects they hold, and   *)
(* the stack their calls go over. ScriptEntities counts every reference to *)
(* an object, ScriptStack looks into the references one call takes and     *)
(* gives back. They share no variable: a behaviour is of one of the two    *)
(* while the other stays as it begins.                                     *)
(***************************************************************************)
EXTENDS ScriptEntities, TLC

CONSTANTS StackSize, MaxArgs, MaxDepth

\* An isolated stack has 512 slots; one is kept free, and a result takes one.
ASSUME StackAssumption == StackSize \in Nat \ {0, 1}

SlotSymmetry == Permutations(Slots)

VARIABLES
  part,  \* whose behaviour it is: "entities" or "calls"
  vm, frames, level

Calls == INSTANCE ScriptStack

callsVars == <<vm, frames, level>>

PartsInit ==
  /\ part \in {"entities", "calls"}
  /\ Init /\ Calls!Init

PartsNext ==
  \/ part = "entities" /\ Next /\ UNCHANGED <<part, callsVars>>
  \/ part = "calls" /\ Calls!Next /\ UNCHANGED <<part, vars>>

PartsSpec == PartsInit /\ [][PartsNext]_<<part, vars, callsVars>>

-----------------------------------------------------------------------------
(* Properties.                                                             *)

\* A call gives back the references it took, each of them once, also when it
\* fails, with the one exception ScriptStack!GivenBack names.
ReferencesGivenBack == Calls!ReleasedOnce /\ Calls!GivenBack

\* Calls nest: whatever a callback does, and however it ends, the call around it
\* finds its arguments and its error level again.
CallsNest == Calls!ArgumentsInPlace /\ Calls!LevelsMatchCalls
=============================================================================
