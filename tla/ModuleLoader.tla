---------------------------- MODULE ModuleLoader ----------------------------
(***************************************************************************)
(* The life of the program, main.cpp and loader/module_loader.cpp: the     *)
(* modules are started, the game is loaded, the modules are told of it,    *)
(* and the game runs until some thread ends the program. A module, or the  *)
(* loader, may stop this early by an exception. pre_destroy is reached     *)
(* from the unwinding of main, from the game's ExitProcess and from        *)
(* atexit; a flag, set before the loop over the modules, keeps the later   *)
(* ones out.                                                               *)
(***************************************************************************)
EXTENDS Integers

CONSTANTS
  Modules,   \* how many there are, in the order of registration
  Threads,   \* threads of the game that may end the program
  Main       \* the one that main runs on

ASSUME ModulesAssumption == Modules \in Nat \ {0}
ASSUME MainAssumption == Main \in Threads

VARIABLES
  main_,               \* where main is, and the module it has come to
  premature_shutdown,
  handled,             \* the static flag of pre_destroy
  exiting,             \* how far each thread is in ending the program
  exit_lock,           \* whether a thread runs the atexit handlers
  modules_,            \* "there", "deleted", or "dangling": used after that
  destroyed            \* history: how often pre_destroy was called of each

life == <<main_, premature_shutdown>>
ending == <<handled, exiting, exit_lock, modules_, destroyed>>
vars == <<life, ending>>

NotExiting == [at |-> "no", next |-> 1, then |-> "no"]

Init ==
  /\ main_ = [at |-> "verify_tls", next |-> 1]
  /\ premature_shutdown = TRUE
  /\ handled = FALSE /\ exit_lock = FALSE /\ modules_ = "there"
  /\ exiting = [t \in Threads |-> NotExiting]
  /\ destroyed = [m \in 1..Modules |-> 0]

-----------------------------------------------------------------------------
(* main.                                                                   *)

Goto(at) == main_' = [at |-> at, next |-> 1]

\* Mutant of LeavesMain: the block does not look after the modules.
LeavesMainAtOnce ==
  /\ main_.at \notin {"enter", "running", "returning"}
  /\ Goto("returning")
  /\ exiting' = [exiting EXCEPT ![Main] = [at |-> "exit", next |-> 1, then |-> "exit"]]
  /\ handled' = TRUE
  /\ UNCHANGED <<premature_shutdown, exit_lock, modules_, destroyed>>

\* An exception, a shutdown asked for by a module, or no mode chosen: main
\* returns, and the block it leaves shuts the modules down.
LeavesMain ==
  /\ main_.at \notin {"enter", "running", "returning"}
  /\ Goto("returning")
  /\ exiting' = [exiting EXCEPT ![Main] =
       [at |-> IF premature_shutdown THEN "pre_destroy" ELSE "exit", next |-> 1,
        then |-> "exit"]]
  /\ UNCHANGED <<premature_shutdown, handled, exit_lock, modules_, destroyed>>

VerifyTls ==
  /\ main_.at = "verify_tls" /\ Goto("post_start")
  /\ UNCHANGED <<premature_shutdown, ending>>

\* post_start of the next module; it may leave by LeavesMain instead.
PostStart ==
  /\ main_.at = "post_start"
  /\ IF main_.next = Modules THEN Goto("load_binary")
     ELSE main_' = [main_ EXCEPT !.next = @ + 1]
  /\ UNCHANGED <<premature_shutdown, ending>>

\* The mode is chosen, the binary loaded and the game's tables filled in.
LoadBinary ==
  /\ main_.at = "load_binary" /\ Goto("post_load")
  /\ UNCHANGED <<premature_shutdown, ending>>

PostLoad ==
  /\ main_.at = "post_load"
  /\ IF main_.next = Modules THEN Goto("enter")
     ELSE main_' = [main_ EXCEPT !.next = @ + 1]
  /\ UNCHANGED <<premature_shutdown, ending>>

EntryPoint ==
  /\ main_.at = "enter"
  /\ premature_shutdown' = FALSE
  /\ Goto("running")
  /\ UNCHANGED ending

-----------------------------------------------------------------------------
(* The end.                                                                *)

Alive == modules_ # "dangling" /\ \A t \in Threads : exiting[t].at # "ended"
At(t, at) == Alive /\ exiting[t].at = at
To(t, at) == exiting' = [exiting EXCEPT ![t].at = at]

\* A thread of the game calls ExitProcess and gets exit_hook.
ExitHook(t) ==
  /\ main_.at = "running" /\ At(t, "no")
  /\ exiting' = [exiting EXCEPT ![t] = [at |-> "pre_destroy", next |-> 1, then |-> "exit"]]
  /\ UNCHANGED <<life, handled, exit_lock, modules_, destroyed>>

\* The game's entry point returns, and main with it.
EntryReturns ==
  /\ main_.at = "running" /\ At(Main, "no")
  /\ To(Main, "exit")
  /\ UNCHANGED <<life, handled, exit_lock, modules_, destroyed>>

\* What follows pre_destroy: exit, or the deletion in destroy_modules.
Proceed(t) == exiting' = [exiting EXCEPT ![t].at = exiting[t].then]

\* Mutant of PreDestroyTest: the flag is not looked at.
PreDestroyAgain(t) ==
  /\ At(t, "pre_destroy") /\ To(t, "enter")
  /\ UNCHANGED <<life, handled, exit_lock, modules_, destroyed>>

\* The flag is a plain one: two threads may both find it unset.
PreDestroyTest(t) ==
  /\ At(t, "pre_destroy")
  /\ IF handled \/ modules_ = "deleted" THEN Proceed(t) ELSE To(t, "enter")
  /\ UNCHANGED <<life, handled, exit_lock, modules_, destroyed>>

PreDestroySet(t) ==
  /\ At(t, "enter")
  /\ handled' = TRUE
  /\ exiting' = [exiting EXCEPT ![t] = [@ EXCEPT !.at = "loop", !.next = 1]]
  /\ UNCHANGED <<life, exit_lock, modules_, destroyed>>

\* Its loop calls the modules in the order of registration. Once the vector is
\* deleted this is undefined, and the program is not followed any further.
DestroyModule(t) ==
  /\ At(t, "loop")
  /\ IF modules_ = "deleted"
       THEN modules_' = "dangling" /\ UNCHANGED <<exiting, destroyed>>
       ELSE /\ destroyed' = [destroyed EXCEPT ![exiting[t].next] = @ + 1]
            /\ IF exiting[t].next = Modules THEN Proceed(t)
               ELSE exiting' = [exiting EXCEPT ![t].next = @ + 1]
            /\ UNCHANGED modules_
  /\ UNCHANGED <<life, handled, exit_lock>>

\* exit lets one thread run the handlers: destroy_modules calls pre_destroy.
Exit(t) ==
  /\ At(t, "exit") /\ ~exit_lock
  /\ exit_lock' = TRUE
  /\ exiting' = [exiting EXCEPT ![t].at = "pre_destroy", ![t].then = "delete"]
  /\ UNCHANGED <<life, handled, modules_, destroyed>>

DeleteModules(t) ==
  /\ At(t, "delete")
  /\ modules_' = "deleted"
  /\ To(t, "process")
  /\ UNCHANGED <<life, handled, exit_lock, destroyed>>

\* The process ends, and with it every thread.
ProcessEnds(t) ==
  /\ At(t, "process") /\ To(t, "ended")
  /\ UNCHANGED <<life, handled, exit_lock, modules_, destroyed>>

-----------------------------------------------------------------------------
MainStep ==
  /\ Alive
  /\ VerifyTls \/ PostStart \/ LoadBinary \/ PostLoad \/ EntryPoint \/ LeavesMain

Ending(t) ==
  \/ PreDestroyTest(t) \/ PreDestroySet(t) \/ DestroyModule(t)
  \/ Exit(t) \/ DeleteModules(t) \/ ProcessEnds(t)

Next == MainStep \/ EntryReturns \/ \E t \in Threads : ExitHook(t) \/ Ending(t)

Spec == Init /\ [][Next]_vars

-----------------------------------------------------------------------------
(* Properties.                                                             *)

Exiting == {t \in Threads : exiting[t].at # "no"}

\* When one thread ends the program, by whatever of the three ways, every
\* module has been told exactly once before it is deleted, and what is deleted
\* is not used again. A second thread in exit_hook at the same time can delete
\* the modules under the first one's loop.
DestroyedBeforeDeleted ==
  modules_ # "there" /\ (\A t, u \in Exiting : t = u) =>
    modules_ = "deleted" /\ \A m \in 1..Modules : destroyed[m] = 1

\* Nor, with any number of threads that end the program, is a module deleted that
\* was never told, but under a thread that is still in the loop over the modules:
\* the flag turns a second thread away before the first one is through.
UntoldOnlyUnderLoop ==
  modules_ # "there" =>
    \/ \A m \in 1..Modules : destroyed[m] > 0
    \/ modules_ = "dangling" \/ \E t \in Threads : exiting[t].at \in {"enter", "loop"}
=============================================================================
