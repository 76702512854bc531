-------------------------- MODULE SteamCallbacksMC --------------------------
(***************************************************************************)
(* The two parts of the Steam API that do more than answer, for TLC: the   *)
(* results of asynchronous calls, and the calls into the real Steam        *)
(* client. They share no variable: a behaviour is of one of the two while  *)
(* the other stays as it begins.                                           *)
(***************************************************************************)
EXTENDS SteamCallbacks, SteamInterface, TLC

ThreadSymmetry == Permutations(Threads)

\* Methods with and without a name, with an early return, with a string that is
\* not the library's, and without padding. The range in which strings are looked
\* for begins at 10 and is 4 long; the names A and B are in it, at its start and
\* its end, and so is something at 13 that is no string but reads as the name C.
\* A string at 20 is not in it, and at 99 nothing can be read.
Push(address) == [op |-> "push", arg |-> address]
Ret(size) == [op |-> "ret", arg |-> size]
Padding == [op |-> "int3"]

MCBodies ==
  {<<Push(10), Ret(4), Padding>>,
   <<Push(14), Ret(8), Padding>>,
   <<Ret(4), Push(10), Push(14), Padding>>,
   <<Push(99), Push(14), Ret(4), Ret(8), Padding>>,
   <<Push(13), Push(10), Ret(4), Padding>>,
   <<Push(20), Ret(4), Padding>>,
   <<Ret(4), Padding>>,
   <<Push(14), Ret(8)>>,
   <<[op |-> "other"], Ret(4)>>,
   <<Push(10)>>}
MCNames == [name : {"A", "B", "C"}, args : {4, 8}]
MCText ==
  [a \in {10, 13, 14, 20} |-> CASE a = 10 -> "A" [] a = 14 -> "B" [] OTHER -> "C"]
MCStrings == {10, 14, 20}

VARIABLE part  \* whose behaviour it is: "callbacks" or "interface"

\* For the callbacks, one table of methods will do.
PartsInit ==
  /\ part \in {"callbacks", "interface"}
  /\ Init /\ InterfaceInit
  /\ part = "callbacks" => \A m \in 1..Length : methods[m] = CHOOSE body \in Bodies : TRUE

PartsNext ==
  \/ part = "callbacks" /\ Next /\ UNCHANGED <<part, interfaceVars>>
  \/ part = "interface" /\ InterfaceNext /\ UNCHANGED <<part, vars>>

PartsSpec == PartsInit /\ [][PartsNext]_<<part, vars, interfaceVars>>

-----------------------------------------------------------------------------
(* Properties.                                                             *)

\* A result is never forgotten, nor a loop over the results broken, but by what
\* the loop itself calls.
ResultsReach == NoResultForgotten /\ BrokenOnlyFromWithin

\* A method whose code can be read is found by its name, and what is called by a
\* name has that name and takes the arguments that were passed. Of those with one
\* name it is the last that a search has passed.
MethodsFound == FindsReadable /\ CallsWhatItNames /\ LastIsKept
=============================================================================
