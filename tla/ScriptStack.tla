----------------------------- MODULE ScriptStack ----------------------------
(***************************************************************************)
(* How scripts call into the game: executer.cpp puts each call on a        *)
(* parameter stack of its own (stack_isolation.cpp), pushes the arguments  *)
(* (parameters.cpp), runs the function of the game under setjmp            *)
(* (safe_executer.cpp) and takes the result. The game may run callbacks of *)
(* scripts meanwhile, which make such calls again.                         *)
(*                                                                         *)
(* A slot of a stack holds 0 or the number of a reference that the call    *)
(* took on a string, a vector or an object and that must be given back. A  *)
(* C++ exception ends one call: it is caught where the callback was called *)
(* from, at the latest. Looking a function or a field up first, and fields *)
(* that the game does not know, do not touch the stack and are left out,   *)
(* and so is an error of the game in notify, which opens no error level.   *)
(***************************************************************************)
EXTENDS Integers, Sequences, FiniteSets, SequencesExt

CONSTANTS
  StackSize,   \* slots of an isolated stack
  MaxArgs,     \* bound: arguments of a call
  MaxDepth     \* bound: calls that nest

VARIABLES
  vm,      \* scr_VmPub: the stack in use, its top, and the two counts
  frames,  \* the calls in progress, innermost last
  level    \* *g_script_error_level

vars == <<vm, frames, level>>

\* The stack of the game itself is number 0, that of frames[d] number d.
Init ==
  /\ vm = [stack |-> 0, top |-> 0, inparamcount |-> 0, outparamcount |-> 0]
  /\ frames = <<>> /\ level = 0

this == Len(frames)
At(stage) == frames # <<>> /\ frames[this].at = stage
Is(ops) == frames[this].op \in ops
To(stage) == frames' = [frames EXCEPT ![this].at = stage]

\* given, with one more for each reference in the slots.
Give(f, slots) ==
  [r \in DOMAIN f.given |-> f.given[r] + Cardinality({s \in slots : f.stack[s] = r})]

\* Mutant of OutParams: n slots below the first.
OutParamsBelow == (vm.top - vm.outparamcount) .. (vm.top - 1)

\* The slots that Scr_ClearOutParams releases: top[n - 1] down to top[0],
\* which are the first parameter and what lies above it.
OutParams == vm.top .. (vm.top + vm.outparamcount - 1)
Overread == \E s \in OutParams : s \notin DOMAIN frames[this].stack

-----------------------------------------------------------------------------
(* stack_isolation's constructor, and the arguments.                       *)

\* A callback of a script, or a frame of the game, makes a call.
Enter(op, args) ==
  /\ frames = <<>> \/ At("engine")
  /\ this < MaxDepth
  /\ frames' = Append(frames,
       [op |-> op, at |-> "push", args |-> args, left |-> args, result |-> FALSE,
        saved |-> vm, stack |-> [s \in 0..(StackSize - 1) |-> 0], given |-> <<>>])
  /\ vm' = [stack |-> this + 1, top |-> 0, inparamcount |-> 0, outparamcount |-> 0]
  /\ UNCHANGED level

\* Room for one more parameter; the last argument is pushed first.
Pushing == At("push") /\ frames[this].left > 0
Grown == [vm EXCEPT !.top = @ + 1, !.inparamcount = @ + 1]
Full == vm.top = StackSize - 1

\* Mutant of Push: no reference is taken, and one given back all the same.
PushUncounted(counted) ==
  /\ Pushing /\ ~Full
  /\ vm' = Grown
  /\ LET r == Len(frames[this].given) + 1
     IN  frames' = [frames EXCEPT ![this].left = @ - 1,
                      ![this].stack[vm.top + 1] = IF counted THEN r ELSE 0,
                      ![this].given = IF counted THEN Append(@, 1) ELSE @]
  /\ UNCHANGED level

\* push takes a reference for a string, a vector or an entity.
Push(counted) ==
  /\ Pushing /\ ~Full
  /\ vm' = Grown
  /\ LET r == Len(frames[this].given) + 1
     IN  frames' = [frames EXCEPT ![this].left = @ - 1,
                      ![this].stack[vm.top + 1] = IF counted THEN r ELSE 0,
                      ![this].given = IF counted THEN Append(@, 0) ELSE @]
  /\ UNCHANGED level

\* A value of another type: the exception leaves an empty parameter behind.
PushFails ==
  /\ Pushing
  /\ vm' = IF Full THEN vm ELSE Grown
  /\ To("failed")
  /\ UNCHANGED level

-----------------------------------------------------------------------------
(* The game.                                                               *)

\* call and set_entity_field turn the parameters over to the game, and the
\* functions of safe_executer open an error level; notify does neither.
Apply ==
  /\ At("push") /\ frames[this].left = 0
  /\ IF Is({"call", "set"})
       THEN vm' = [vm EXCEPT !.outparamcount = vm.inparamcount, !.inparamcount = 0]
       ELSE UNCHANGED vm
  /\ level' = IF Is({"notify"}) THEN level ELSE level + 1
  /\ To("engine")

\* A function of the game returns a value: the game releases the parameters
\* it was given and pushes the value.
EngineReturns(counted) ==
  /\ At("engine") /\ Is({"call"}) /\ ~frames[this].result
  /\ LET f == frames[this]
         given == Give(f, (vm.top - vm.outparamcount + 1)..vm.top)
         slot == vm.top - vm.outparamcount + 1
         r == Len(given) + 1
     IN  /\ frames' = [frames EXCEPT ![this].result = TRUE,
                         ![this].stack[slot] = IF counted THEN r ELSE 0,
                         ![this].given = IF counted THEN Append(given, 0) ELSE given]
         /\ vm' = [vm EXCEPT !.top = slot, !.outparamcount = 0, !.inparamcount = 1]
  /\ UNCHANGED level

\* Scr_NotifyId releases the parameters once it has told everybody.
NotifyDone ==
  /\ At("engine") /\ Is({"notify"})
  /\ frames' = [frames EXCEPT ![this].at = "returned",
                  ![this].given = Give(frames[this], (vm.top - vm.inparamcount + 1)..vm.top)]
  /\ vm' = [vm EXCEPT !.top = @ - vm.inparamcount, !.inparamcount = 0]
  /\ UNCHANGED level

\* The end of a safe call: setjmp's branch is taken after an error.
EngineDone ==
  /\ At("engine") /\ ~Is({"notify"})
  /\ level' = level - 1
  /\ To("returned")
  /\ UNCHANGED vm

\* Mutant of EngineError: the level stays when the function fails.
EngineErrorKept == At("engine") /\ ~Is({"notify"}) /\ To("failed") /\ UNCHANGED <<vm, level>>

EngineError ==
  /\ At("engine") /\ ~Is({"notify"})
  /\ level' = level - 1
  /\ To("failed")
  /\ UNCHANGED vm

-----------------------------------------------------------------------------
(* The result, and stack_isolation's destructor.                           *)

\* get_return_value takes the value, if there is one, for an out parameter.
GetReturnValue ==
  /\ At("returned")
  /\ IF Is({"call"}) /\ vm.inparamcount # 0
       THEN /\ vm' = [vm EXCEPT !.top = @ - vm.outparamcount,
                                !.outparamcount = vm.inparamcount, !.inparamcount = 0]
            /\ frames' = [frames EXCEPT ![this].at = "leaving",
                             ![this].given = Give(frames[this], OutParams)]
       ELSE UNCHANGED vm /\ To("leaving")
  /\ UNCHANGED level

\* The destructor first calls Scr_ClearOutParams. Above the array its reads
\* are undefined, and the program is not followed any further.
ClearOutParams ==
  /\ At("leaving") \/ At("failed")
  /\ IF Overread
       THEN To("undefined")
       ELSE frames' = [frames EXCEPT ![this].at = IF @ = "failed" THEN "thrown" ELSE "done",
                                     ![this].given = Give(frames[this], OutParams)]
  /\ UNCHANGED <<vm, level>>

\* Mutant of Restore: the count of out parameters is not restored.
RestoreMost ==
  /\ At("done") \/ At("thrown")
  /\ vm' = [frames[this].saved EXCEPT !.outparamcount = vm.outparamcount]
  /\ frames' = Front(frames)
  /\ UNCHANGED level

\* Then it restores what it found.
Restore ==
  /\ At("done") \/ At("thrown")
  /\ vm' = frames[this].saved
  /\ frames' = Front(frames)
  /\ UNCHANGED level

-----------------------------------------------------------------------------
Next ==
  \/ \E args \in 0..MaxArgs : Enter("notify", args) \/ Enter("call", args)
  \/ Enter("set", 1) \/ Enter("get", 0)
  \/ \E counted \in BOOLEAN : Push(counted) \/ EngineReturns(counted)
  \/ PushFails \/ Apply \/ NotifyDone \/ EngineDone \/ EngineError
  \/ GetReturnValue \/ ClearOutParams \/ Restore

Spec == Init /\ [][Next]_vars

-----------------------------------------------------------------------------
(* Properties.                                                             *)

\* No reference is given back twice, although Scr_ClearOutParams reads slots
\* that are not parameters.
ReleasedOnce == \A d \in 1..this : \A r \in DOMAIN frames[d].given : frames[d].given[r] <= 1

\* A call that comes to its end has given every reference back, except one of
\* two arguments or more to a function without a result: Scr_ClearOutParams
\* then releases the first argument only.
GivenBack ==
  At("done") => \A r \in DOMAIN frames[this].given :
    \/ frames[this].given[r] = 1
    \/ Is({"call"}) /\ ~frames[this].result /\ frames[this].args >= 2
       /\ frames[this].stack[frames[this].args] # r

\* A function of the game finds its own arguments on the stack at any time,
\* whatever calls were made and failed in callbacks meanwhile.
ArgumentsInPlace ==
  At("engine") /\ ~frames[this].result =>
    /\ vm.stack = this /\ vm.top = frames[this].args
    /\ vm.inparamcount = (IF Is({"notify"}) THEN frames[this].args ELSE 0)
    /\ vm.outparamcount = (IF Is({"notify"}) THEN 0 ELSE frames[this].args)

\* There is one error level for each safe call in progress: an error of the
\* game lands in the innermost of them.
LevelsMatchCalls ==
  level = Cardinality({d \in 1..this : frames[d].at = "engine" /\ frames[d].op # "notify"})
=============================================================================
