-------------------------- MODULE FrameScheduler ---------------------------
(***************************************************************************)
(* module/scheduler.cpp: callbacks run by the game thread in every frame   *)
(* (on_frame) or in one frame (once), and errors raised outside of the     *)
(* game's own stack (error) that the next frame hands to Com_Error.        *)
(* Any thread, and any callback, may register more; pre_destroy runs while *)
(* frames may still come. The registrations are single steps under mutex_; *)
(* the frame holds no lock while it runs callbacks.                        *)
(***************************************************************************)
EXTENDS ConcurrentList, Sequences

CONSTANTS
  MaxCallbacks, \* bound: registrations in each list
  MaxErrors     \* bound: errors posted

VARIABLES
  callbacks_, single_callbacks_,
  errors_,      \* queue of messages, numbered as they are posted
  frame,        \* where the game thread is in frame_stub
  it,           \* the iterator of execute_safe's loop
  posted,       \* history: errors posted
  reported,     \* history: the errors given to Com_Error, in order
  ran,          \* history: the single callbacks run
  abandoned     \* history: the last frame ended by a longjmp

history == <<posted, reported, ran, abandoned>>
vars == <<callbacks_, single_callbacks_, errors_, frame, it, history>>

Init ==
  /\ callbacks_ = EmptyList /\ single_callbacks_ = EmptyList /\ errors_ = <<>>
  /\ frame = "game" /\ it = End
  /\ posted = 0 /\ reported = <<>> /\ ran = {}
  /\ abandoned = FALSE

-----------------------------------------------------------------------------
(* Any thread, and the callbacks.                                          *)

OnFrame ==
  /\ callbacks_.size < MaxCallbacks
  /\ callbacks_' = Added(callbacks_)
  /\ UNCHANGED <<single_callbacks_, errors_, frame, it, history>>

Once ==
  /\ single_callbacks_.size < MaxCallbacks
  /\ single_callbacks_' = Added(single_callbacks_)
  /\ UNCHANGED <<callbacks_, errors_, frame, it, history>>

Error ==
  /\ posted < MaxErrors
  /\ posted' = posted + 1
  /\ errors_' = Append(errors_, posted + 1)
  /\ UNCHANGED <<callbacks_, single_callbacks_, frame, it, reported, ran, abandoned>>

\* Errors that nobody has reported yet stay in the queue.
PreDestroy ==
  /\ callbacks_' = Cleared(callbacks_)
  /\ single_callbacks_' = Cleared(single_callbacks_)
  /\ UNCHANGED <<errors_, frame, it, history>>

-----------------------------------------------------------------------------
(* The game thread: frame_stub.                                            *)

ListsUnchanged == UNCHANGED <<callbacks_, single_callbacks_>>

\* Mutant of ReportError: the error stays in the queue.
ReportErrorAgain ==
  /\ frame = "game" /\ errors_ # <<>> /\ Len(reported) < MaxErrors
  /\ reported' = Append(reported, Head(errors_)) /\ abandoned' = TRUE
  /\ UNCHANGED <<errors_, frame, it, posted, ran>> /\ ListsUnchanged

\* execute_error: Com_Error does not return, so this frame runs no callbacks.
ReportError ==
  /\ frame = "game" /\ errors_ # <<>>
  /\ reported' = Append(reported, Head(errors_))
  /\ errors_' = Tail(errors_)
  /\ abandoned' = TRUE
  /\ UNCHANGED <<frame, it, posted, ran>> /\ ListsUnchanged

\* No error is waiting: execute_safe begins with the callbacks of every frame.
BeginCallbacks ==
  /\ frame = "game" /\ errors_ = <<>>
  /\ frame' = "callbacks" /\ it' = Begin(callbacks_)
  /\ abandoned' = FALSE
  /\ UNCHANGED <<errors_, posted, reported, ran>> /\ ListsUnchanged

CallFrameCallback ==
  /\ frame = "callbacks" /\ it # End
  /\ frame' = "in callback"
  /\ UNCHANGED <<errors_, it, history>> /\ ListsUnchanged

FrameCallbackReturns ==
  /\ frame = "in callback"
  /\ frame' = "callbacks" /\ it' = Advanced(callbacks_, it)
  /\ UNCHANGED <<errors_, history>> /\ ListsUnchanged

\* Mutant of BeginSingles: single callbacks are forgotten.
SkipSingles ==
  /\ frame = "callbacks" /\ it = End /\ frame' = "game"
  /\ UNCHANGED <<it, errors_, history>> /\ ListsUnchanged

\* The loop has ended; the one over the single callbacks begins.
BeginSingles ==
  /\ frame = "callbacks" /\ it = End
  /\ frame' = "singles" /\ it' = Begin(single_callbacks_)
  /\ UNCHANGED <<errors_, history>> /\ ListsUnchanged

\* A single callback is removed, then called.
CallSingleCallback ==
  /\ frame = "singles" /\ it # End
  /\ single_callbacks_' = Removed(single_callbacks_, it.entry)
  /\ frame' = "in single"
  /\ ran' = ran \cup {it.entry}
  /\ UNCHANGED <<callbacks_, errors_, it, posted, reported, abandoned>>

SingleCallbackReturns ==
  /\ frame = "in single"
  /\ frame' = "singles" /\ it' = Advanced(single_callbacks_, it)
  /\ UNCHANGED <<errors_, history>> /\ ListsUnchanged

\* execute_safe returns, and the game's own frame function runs.
GameFrame ==
  /\ frame = "singles" /\ it = End
  /\ frame' = "game"
  /\ UNCHANGED <<it, errors_, history>> /\ ListsUnchanged

\* What a callback calls in the game ends in Com_Error, which leaves the frame.
Longjmp ==
  /\ frame \in {"in callback", "in single"}
  /\ frame' = "game" /\ it' = End
  /\ abandoned' = TRUE
  /\ UNCHANGED <<errors_, posted, reported, ran>>
  /\ ListsUnchanged

FrameStep ==
  \/ ReportError
  \/ BeginCallbacks \/ CallFrameCallback \/ FrameCallbackReturns
  \/ BeginSingles \/ CallSingleCallback \/ SingleCallbackReturns
  \/ GameFrame \/ Longjmp

Next == OnFrame \/ Once \/ Error \/ PreDestroy \/ FrameStep

Spec == Init /\ [][Next]_vars

\* The game keeps running frames, and callbacks end one way or the other.
FairSpec == Spec /\ WF_vars(FrameStep)

-----------------------------------------------------------------------------
(* Properties.                                                             *)

\* Each error posted is given to Com_Error once, in the order of posting, even
\* though every report abandons the frame it happens in.
ErrorsInOrder == reported \o errors_ = [i \in 1..posted |-> i]

\* A single callback is called at most once: not again when it leaves the frame
\* by a longjmp, and not when its list changes around it.
SingleOnce ==
  [][frame = "singles" /\ frame' = "in single" => it.entry \notin ran]_vars

\* A single callback is run sooner or later, or cleared, unless frames are
\* abandoned for ever: it waits out every error that is reported before it.
SingleRuns ==
  (<>[]~abandoned) =>
    \A n \in 1..MaxCallbacks :
      (n \in single_callbacks_.linked) ~> (n \notin single_callbacks_.linked)
=============================================================================
