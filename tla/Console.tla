------------------------------ MODULE Console -------------------------------
(***************************************************************************)
(* The console of module/console.cpp. What the program prints goes into a  *)
(* pipe; a thread reads it and queues it; the frames of the game log what  *)
(* is queued; and at the end pre_destroy stops the thread. When any of     *)
(* this happens in the life of the program is the subject of Shutdown.     *)
(*                                                                         *)
(* A text is a number, the pipe holds PipeSize of them, and printing waits *)
(* while it is full. Descriptor 0 of the pipe is locked by the C library   *)
(* while _read waits on it, so that _close waits as well.                  *)
(***************************************************************************)
EXTENDS Integers, Sequences, SequencesExt

CONSTANTS
  PipeSize,   \* texts the pipe holds, at least one
  MaxTexts    \* bound: texts that are printed

VARIABLES
  console_initialized_, terminate_runner_,
  handles_,         \* the reading end of the pipe is open
  pipe,
  runner,           \* where the thread is, if there is one, and the chunk it has read
  message_queue_,   \* chunks
  frame,            \* where log_messages is, and its copy of the queue
  destroyer,        \* where pre_destroy is
  printed, logged   \* history: all texts so far

flags == <<console_initialized_, terminate_runner_, handles_>>
history == <<printed, logged>>
vars == <<flags, pipe, runner, message_queue_, frame, destroyer, history>>

LineEnd == 0   \* what pre_destroy prints

Init ==
  /\ console_initialized_ = FALSE /\ terminate_runner_ = FALSE /\ handles_ = TRUE
  /\ pipe = <<>> /\ message_queue_ = <<>>
  /\ runner = [at |-> "none", chunk |-> <<>>]
  /\ frame = [at |-> "idle", copy |-> <<>>]
  /\ destroyer = "no"
  /\ printed = <<>> /\ logged = <<>>

\* Any thread prints, and it reaches the pipe; without a reading end it is lost. The
\* C library may keep what is printed in its buffer until the buffer is full or the
\* frame flushes it: the text is written here when it leaves that buffer.
Written(text) ==
  /\ Len(pipe) < PipeSize
  /\ pipe' = IF handles_ THEN Append(pipe, text) ELSE pipe
  /\ printed' = IF handles_ THEN Append(printed, text) ELSE printed

PrintText ==
  /\ Len(printed) < MaxTexts
  /\ Written(Len(printed) + 1)
  /\ UNCHANGED <<flags, runner, message_queue_, frame, destroyer, logged>>

\* post_start starts the thread.
PostStart ==
  /\ runner' = [runner EXCEPT !.at = "test"]
  /\ UNCHANGED <<flags, pipe, message_queue_, frame, destroyer, history>>

PostLoad ==
  /\ console_initialized_' = TRUE
  /\ UNCHANGED <<terminate_runner_, handles_, pipe, runner, message_queue_, frame,
                 destroyer, history>>

-----------------------------------------------------------------------------
(* The thread: runner.                                                     *)

RunnerUnchanged == UNCHANGED <<flags, frame, destroyer, history>>

\* The condition of the loop.
RunnerTest ==
  /\ runner.at = "test"
  /\ runner' = [runner EXCEPT !.at = IF terminate_runner_ THEN "ended" ELSE "before"]
  /\ UNCHANGED <<pipe, message_queue_>> /\ RunnerUnchanged

\* _read begins. On a closed descriptor it fails, and the thread sleeps and
\* goes on, or the C library ends the program.
RunnerReads ==
  /\ runner.at = "before"
  /\ IF handles_ THEN runner' = [runner EXCEPT !.at = "read"]
                 ELSE \E at \in {"test", "dead"} : runner' = [runner EXCEPT !.at = at]
  /\ UNCHANGED <<pipe, message_queue_>> /\ RunnerUnchanged

\* It returns with everything that is in the pipe.
RunnerHasRead ==
  /\ runner.at = "read" /\ pipe # <<>>
  /\ runner' = [at |-> "push", chunk |-> pipe]
  /\ pipe' = <<>>
  /\ UNCHANGED message_queue_ /\ RunnerUnchanged

RunnerPush ==
  /\ runner.at = "push"
  /\ message_queue_' = Append(message_queue_, runner.chunk)
  /\ runner' = [at |-> "test", chunk |-> <<>>]
  /\ UNCHANGED pipe /\ RunnerUnchanged

-----------------------------------------------------------------------------
(* log_messages, in every frame of the game.                               *)

LogUnchanged == UNCHANGED <<flags, pipe, runner, destroyer, printed>>

\* The condition of its loop looks at the queue without the mutex.
LogTest ==
  /\ frame.at = "idle"
  /\ console_initialized_ /\ message_queue_ # <<>>
  /\ frame' = [frame EXCEPT !.at = "take"]
  /\ UNCHANGED <<message_queue_, logged>> /\ LogUnchanged

\* Mutant of LogTake: the queue is copied and not emptied.
LogTakeKept ==
  /\ frame.at = "take"
  /\ frame' = [at |-> "log", copy |-> message_queue_]
  /\ UNCHANGED <<message_queue_, logged>> /\ LogUnchanged

LogTake ==
  /\ frame.at = "take"
  /\ frame' = [at |-> "log", copy |-> message_queue_]
  /\ message_queue_' = <<>>
  /\ UNCHANGED logged /\ LogUnchanged

LogMessage ==
  /\ frame.at = "log" /\ frame.copy # <<>>
  /\ logged' = logged \o Head(frame.copy)
  /\ frame' = [frame EXCEPT !.copy = Tail(@)]
  /\ UNCHANGED message_queue_ /\ LogUnchanged

\* All logged: the loop looks at the queue again. When it is empty the frame
\* flushes stdout and stderr, which is a Written, at any time.
LogDone ==
  /\ frame.at = "log" /\ frame.copy = <<>>
  /\ frame' = [frame EXCEPT !.at = "idle"]
  /\ UNCHANGED <<message_queue_, logged>> /\ LogUnchanged

-----------------------------------------------------------------------------
(* pre_destroy.                                                            *)

\* Mutant of PreDestroy: the thread is not told.
PreDestroyUntold ==
  /\ destroyer = "no"
  /\ destroyer' = "print"
  /\ UNCHANGED <<flags, pipe, runner, message_queue_, frame, history>>

PreDestroy ==
  /\ destroyer = "no"
  /\ terminate_runner_' = TRUE
  /\ destroyer' = "print"
  /\ UNCHANGED <<console_initialized_, handles_, pipe, runner, message_queue_, frame, history>>

\* A line end wakes a thread that waits in _read.
DestroyPrints ==
  /\ destroyer = "print"
  /\ Written(LineEnd)
  /\ destroyer' = "close"
  /\ UNCHANGED <<flags, runner, message_queue_, frame, logged>>

DestroyCloses ==
  /\ destroyer = "close" /\ runner.at # "read"
  /\ handles_' = FALSE
  /\ destroyer' = "join"
  /\ UNCHANGED <<console_initialized_, terminate_runner_, pipe, runner, message_queue_,
                 frame, history>>

DestroyJoined ==
  /\ destroyer = "join" /\ runner.at \in {"none", "ended"}
  /\ destroyer' = "done"
  /\ UNCHANGED <<flags, pipe, runner, message_queue_, frame, history>>

-----------------------------------------------------------------------------
Runner == RunnerTest \/ RunnerReads \/ RunnerHasRead \/ RunnerPush
Frame == LogTest \/ LogTake \/ LogMessage \/ LogDone
Destroyer == DestroyPrints \/ DestroyCloses \/ DestroyJoined

-----------------------------------------------------------------------------
(* Properties.                                                             *)

\* Nothing that was printed is lost, doubled or out of order on its way to
\* the log, although log_messages looks at the queue without the mutex.
NothingLost ==
  printed = logged \o FlattenSeq(frame.copy) \o FlattenSeq(message_queue_)
              \o runner.chunk \o pipe

\* Others have filled the pipe and there is no thread, or none any more, that
\* would empty it.
Full == destroyer = "print" /\ runner.at \in {"none", "ended"} /\ Len(pipe) = PipeSize
=============================================================================
