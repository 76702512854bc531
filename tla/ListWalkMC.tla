----------------------------- MODULE ListWalkMC -----------------------------
(***************************************************************************)
(* The concurrent list and the two schedulers built on it, for TLC. The    *)
(* three share no variable: a behaviour is of one of them, and the others  *)
(* stay as they begin, so that their states add up, not multiply.          *)
(***************************************************************************)
EXTENDS ListWalk, Sequences

CONSTANTS MaxCallbacks, MaxErrors, MaxTasks, MaxNow

\* A delay that has always passed, and one that takes a tick of the clock.
Delays == {-1, 0}

VARIABLES
  part,         \* whose behaviour it is: the "list"'s, of the "frames" that
                \* module/scheduler.cpp runs, or of the "tasks" of a script
  callbacks_, single_callbacks_, errors_, frame, frameIt,
  posted, reported, ran, abandoned,
  tasks_, task, now, taskIt, phase, taskBegan, taskVisited,
  since, over, cleared, after

Frames == INSTANCE FrameScheduler WITH it <- frameIt
Tasks == INSTANCE TaskScheduler WITH
  it <- taskIt, began <- taskBegan, visited <- taskVisited

framesVars == <<callbacks_, single_callbacks_, errors_, frame, frameIt,
  posted, reported, ran, abandoned>>
tasksVars == <<tasks_, task, now, taskIt, phase, taskBegan, taskVisited,
  since, over, cleared, after>>

PartsInit ==
  /\ part \in {"list", "frames", "tasks"}
  /\ Init /\ Frames!Init /\ Tasks!Init

PartsNext ==
  \/ part = "list" /\ Next /\ UNCHANGED <<part, framesVars, tasksVars>>
  \/ part = "frames" /\ Frames!Next /\ UNCHANGED <<part, vars, tasksVars>>
  \/ part = "tasks" /\ Tasks!Next /\ UNCHANGED <<part, vars, framesVars>>

PartsSpec ==
  /\ PartsInit /\ [][PartsNext]_<<part, vars, framesVars, tasksVars>>
  /\ \A w \in Walkers : WF_vars(part = "list" /\ Step(w))
  /\ WF_framesVars(part = "frames" /\ Frames!FrameStep)
  /\ WF_tasksVars(part = "tasks" /\ Tasks!FrameStep)

-----------------------------------------------------------------------------
(* Properties.                                                             *)

\* Errors are given to Com_Error once and in the order of posting, and a callback
\* of a single frame is called at most once.
FramesRight == []Frames!ErrorsInOrder /\ Frames!SingleOnce

\* A script's timeouts run once, its tasks no sooner than they are due, and a
\* cleared one at most once more.
TasksInTime == Tasks!TimeoutOnce /\ Tasks!CallsSpaced /\ Tasks!ClearedAtMostOnceMore

\* Loops end, although entries may be added for ever; a callback of a single
\* frame is not forgotten unless frames are abandoned for ever, and a task that
\* is due is called, if none throws.
WorkIsDone == LoopsEnd /\ Frames!SingleRuns /\ Tasks!DueTaskRuns

\* run_frame of a script's scheduler walks its list as ListWalk does.
WalksTheList == Tasks!WalksTheList
=============================================================================
