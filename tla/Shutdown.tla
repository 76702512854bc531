------------------------------ MODULE Shutdown ------------------------------
(***************************************************************************)
(* The console as one of the modules of the loader: its thread is started  *)
(* in the middle of post_start, its frames run while the game does, and    *)
(* whichever thread ends the program waits in its pre_destroy before the   *)
(* next module is told.                                                    *)
(*                                                                         *)
(* A second pre_destroy of the console while the first is in progress, and *)
(* frames after the modules are deleted, are undefined; the threads that   *)
(* come to them are not followed any further.                              *)
(***************************************************************************)
EXTENDS ModuleLoader, Sequences

CONSTANTS
  ConsoleModule,        \* the console's place in the order of registration
  PipeSize, MaxTexts

ASSUME ConsoleAssumption == ConsoleModule \in 1..Modules

VARIABLES
  console_initialized_, terminate_runner_, handles_, pipe, runner, message_queue_,
  frame, destroyer, printed, logged

console == <<console_initialized_, terminate_runner_, handles_, pipe, runner,
             message_queue_, frame, destroyer, printed, logged>>
all == <<vars, console>>

C == INSTANCE Console

ShutdownInit == Init /\ C!Init

\* The program is dead once the C library has ended it.
Running == Alive /\ runner.at # "dead"

-----------------------------------------------------------------------------
(* The start.                                                              *)

IsConsole == main_.next = ConsoleModule

ModulePostStart ==
  /\ Running /\ PostStart
  /\ IF IsConsole THEN C!PostStart ELSE UNCHANGED console

ModulePostLoad ==
  /\ Running /\ PostLoad
  /\ IF IsConsole THEN C!PostLoad ELSE UNCHANGED console

OtherStart ==
  /\ Running
  /\ VerifyTls \/ LoadBinary \/ EntryPoint \/ LeavesMain
  /\ UNCHANGED console

Start == ModulePostStart \/ ModulePostLoad \/ OtherStart

-----------------------------------------------------------------------------
(* The game.                                                               *)

\* The frames of the game are on the main thread.
GameFrame ==
  /\ Running /\ modules_ = "there" /\ main_.at = "running" /\ exiting[Main].at = "no"
  /\ C!Frame
  /\ UNCHANGED vars

RunnerThread == Running /\ C!Runner /\ UNCHANGED vars
Prints == Running /\ C!PrintText /\ UNCHANGED vars

-----------------------------------------------------------------------------
(* The end.                                                                *)

AtConsole(t) == At(t, "loop") /\ modules_ # "deleted" /\ exiting[t].next = ConsoleModule

ConsolePreDestroy(t) == Running /\ AtConsole(t) /\ C!PreDestroy /\ UNCHANGED vars
ConsoleDestroys(t) == Running /\ AtConsole(t) /\ C!Destroyer /\ UNCHANGED vars

ModulePreDestroy(t) ==
  /\ Running
  /\ AtConsole(t) => destroyer = "done"
  /\ DestroyModule(t)
  /\ UNCHANGED console

OtherEnding(t) ==
  /\ Running
  /\ \/ PreDestroyTest(t) \/ PreDestroySet(t) \/ Exit(t) \/ DeleteModules(t)
     \/ ProcessEnds(t) \/ ExitHook(t) \/ (t = Main /\ EntryReturns)
  /\ UNCHANGED console

End(t) == ConsolePreDestroy(t) \/ ConsoleDestroys(t) \/ ModulePreDestroy(t) \/ OtherEnding(t)

-----------------------------------------------------------------------------
ShutdownNext ==
  Start \/ GameFrame \/ RunnerThread \/ Prints \/ \E t \in Threads : End(t)

\* The system schedules the console's thread and the one that ends the program.
ShutdownSpec ==
  /\ ShutdownInit /\ [][ShutdownNext]_all
  /\ WF_all(RunnerThread)
  /\ WF_all(\E t \in Threads : ConsoleDestroys(t))

-----------------------------------------------------------------------------
(* Properties.                                                             *)

\* At whatever point of its life the program is ended, and by whom, no text is
\* lost, doubled or out of order between the pipe and the log.
NothingLost == C!NothingLost

\* pre_destroy of the console returns: its thread, if there is one, sees
\* terminate_runner_ after at most one more read, which the line end satisfies.
\* Only a full pipe, the end of the program in a _read that comes too late, or a
\* second thread that deletes the modules meanwhile can prevent it.
ShutdownEnds ==
  destroyer = "print" ~>
    destroyer = "done" \/ C!Full \/ runner.at = "dead" \/ modules_ # "there"

\* The console's thread, which works on the members of the console, is gone
\* when the console is deleted.
ThreadGoneBeforeDeleted ==
  modules_ # "there" /\ (\A t, u \in Exiting : t = u) => runner.at \in {"none", "ended"}
=============================================================================
