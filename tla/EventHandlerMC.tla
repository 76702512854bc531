--------------------------- MODULE EventHandlerMC --------------------------
(***************************************************************************)
(* The listeners of one script, and the scripts of a level, for TLC. What  *)
(* the first looks into, a walk over one script's listeners, is one step   *)
(* of the second; they share no variable here, and a behaviour is of one   *)
(* of them while the other stays as it begins.                             *)
(***************************************************************************)
EXTENDS EventHandler, TLC

CONSTANTS
  Files, Chai,      \* of ScriptContexts, and what follows under its own names there
  Heard, Hearers,   \* Names and Entities
  MaxFiles, MaxHeard, MaxNotified, MaxNested  \* its bounds, MaxHeard for MaxListeners

\* "touch" is in the game, but is not dispatched.
MCNames == {"damage", "touch"}
Symmetry == Permutations(Entities) \cup Permutations(Chai)

ASSUME FilesAssumption == MaxFiles \in Nat

VARIABLES
  side,         \* whose behaviour it is: "listeners" or "scripts"
  level, directory, scripts_, activities, notified, evaluated

Scripts == INSTANCE ScriptContexts WITH
  Names <- Heard, Entities <- Hearers, MaxListeners <- MaxHeard, MaxDepth <- MaxNested,
  stack <- activities

scriptsVars == <<level, directory, scripts_, activities, notified, evaluated>>

SidesInit ==
  /\ side \in {"listeners", "scripts"}
  /\ HandlerInit /\ Scripts!Init

SidesNext ==
  \/ side = "listeners" /\ HandlerNext /\ UNCHANGED <<side, scriptsVars>>
  \/ side = "scripts" /\ Scripts!Next /\ UNCHANGED <<side, handlerVars>>

SidesSpec == SidesInit /\ [][SidesNext]_<<side, handlerVars, scriptsVars>>

-----------------------------------------------------------------------------
(* Properties.                                                             *)

\* Dispatches that nest neither hide a listener from each other nor call one
\* that is gone, or call one twice.
DispatchIsRight == []DispatchIsComplete /\ GoneOnlyInOuterWalks /\ CalledOncePerDispatch

\* The scripts that hear of events are those of this level, as many as could be
\* loaded, and each hears of every event unless one before it throws.
ScriptsHear == Scripts!ScriptsArePrefix /\ Scripts!EveryScriptHears
=============================================================================
