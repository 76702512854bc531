--------------------------- MODULE TaskScheduler ---------------------------
(***************************************************************************)
(* game::scripting::scheduler: setTimeout, setInterval and clear of one    *)
(* script, and the run_frame that scripting::run_frame calls every game    *)
(* frame. Everything happens on the game thread; what is delicate is that  *)
(* callbacks set and clear tasks while run_frame walks over them.          *)
(* An element of the list, its task and the task's id have one number.     *)
(***************************************************************************)
EXTENDS ConcurrentList

CONSTANTS
  Delays,       \* milliseconds passed to setTimeout and setInterval
  MaxTasks,     \* bound: tasks ever set
  MaxNow        \* bound: the clock

VARIABLES
  tasks_,       \* the list
  task,         \* what each of its entries holds
  now,          \* steady_clock
  it,           \* run_frame's iterator, End outside of it
  phase,        \* "out" of run_frame, at a "test", in a "callback", or
                \* "failed": an exception left run_frame
  began,        \* history: the tasks in the list when the frame began
  visited,      \* history: those the frame came to
  since,        \* history: when each task was set or last run
  over,         \* history: the tasks that have run at least once
  cleared,      \* history: the tasks a script has cleared
  after         \* history: the tasks run since they were cleared

state == <<tasks_, task, now, it, phase>>
frame == <<began, visited>>
ever == <<since, over, cleared, after>>
vars == <<state, frame, ever>>

Init ==
  /\ tasks_ = EmptyList /\ task = [n \in {} |-> 0]
  /\ now = 0 /\ it = End /\ phase = "out"
  /\ began = {} /\ visited = {}
  /\ since = [n \in {} |-> 0] /\ over = {} /\ cleared = {} /\ after = {}

Extended(f, n, value) == [k \in DOMAIN f \cup {n} |-> IF k = n THEN value ELSE f[k]]

Tick ==
  /\ now < MaxNow
  /\ now' = now + 1
  /\ UNCHANGED <<tasks_, task, it, phase, frame, ever>>

\* Scripts run inside a callback, and between frames from event listeners.
ScriptRuns == phase \in {"out", "callback"}

\* setTimeout (volatile) and setInterval.
SetTask(delay, volatile) ==
  /\ ScriptRuns
  /\ tasks_.size < MaxTasks
  /\ tasks_' = Added(tasks_)
  /\ LET id == tasks_.size + 1
     IN  /\ task' = Extended(task, id, [delay |-> delay, volatile |-> volatile, last |-> now])
         /\ since' = Extended(since, id, now)
  /\ UNCHANGED <<now, it, phase, frame, over, cleared, after>>

\* clear, clearTimeout and clearInterval; a handle may be of no task any more.
ClearTask(id) ==
  /\ ScriptRuns
  /\ tasks_' = Removed(tasks_, id)
  /\ cleared' = cleared \cup {id}
  /\ UNCHANGED <<task, now, it, phase, frame, since, over, after>>

\* run_frame goes on to an entry, or ends.
GoTo(next) ==
  /\ it' = next
  /\ phase' = IF next = End THEN "out" ELSE "test"

\* Mutant of IsDue: a task is due a little early.
IsDueEarly(n) == now - task[n].last >= task[n].delay
IsDue(n) == now - task[n].last > task[n].delay

FrameStart ==
  /\ phase = "out"
  /\ GoTo(Begin(tasks_))
  /\ began' = tasks_.linked /\ visited' = {tasks_.head} \ {0}
  /\ UNCHANGED <<tasks_, task, now, ever>>

Advance ==
  /\ GoTo(Advanced(tasks_, it))
  /\ visited' = visited \cup ({it.next} \ {0})

\* Mutant of Skip: the loop waits for the task.
SkipWaits ==
  /\ phase = "test" /\ ~IsDue(it.entry)
  /\ UNCHANGED vars

\* The task at the iterator is not due.
Skip ==
  /\ phase = "test"
  /\ ~IsDue(it.entry)
  /\ Advance
  /\ UNCHANGED <<tasks_, task, now, began, ever>>

\* It is due: a timeout is removed before its callback is called.
Run ==
  /\ phase = "test"
  /\ IsDue(it.entry)
  /\ LET n == it.entry
     IN  /\ task' = [task EXCEPT ![n].last = now]
         /\ tasks_' = IF task[n].volatile THEN Removed(tasks_, n) ELSE tasks_
         /\ over' = over \cup {n}
         /\ since' = [since EXCEPT ![n] = now]
         /\ after' = IF n \in cleared THEN after \cup {n} ELSE after
  /\ phase' = "callback"
  /\ UNCHANGED <<now, it, frame, cleared>>

\* Mutant of CallbackReturns: the loop ends with the first task called.
CallbackBreaks ==
  /\ phase = "callback" /\ GoTo(End)
  /\ UNCHANGED <<tasks_, task, now, began, visited, ever>>

CallbackReturns ==
  /\ phase = "callback"
  /\ Advance
  /\ UNCHANGED <<tasks_, task, now, began, ever>>

\* Nothing between the callback and the game catches what it throws.
CallbackThrows ==
  /\ phase = "callback"
  /\ phase' = "failed"
  /\ UNCHANGED <<tasks_, task, now, it, frame, ever>>

FrameStep == FrameStart \/ Skip \/ Run \/ CallbackReturns

Next ==
  \/ Tick
  \/ \E delay \in Delays, volatile \in BOOLEAN : SetTask(delay, volatile)
  \/ \E id \in 1..tasks_.size : ClearTask(id)
  \/ FrameStep \/ CallbackThrows

Spec == Init /\ [][Next]_vars

\* The game runs a frame for as long as a level does, and callbacks return.
FairSpec == Spec /\ WF_vars(FrameStep)

-----------------------------------------------------------------------------
(* Properties.                                                             *)

Ids == 1..tasks_.size

\* run_frame calls the callback of task n.
Calls(n) == phase = "test" /\ phase' = "callback" /\ it.entry = n

\* A timeout's callback is called at most once, although a removed entry may
\* still be come to.
TimeoutOnce == [][\A n \in Ids : Calls(n) /\ task[n].volatile => n \notin over]_vars

\* More than its delay passes before a task is first called and between two
\* calls, however long callbacks take and however often frames come.
CallsSpaced == [][\A n \in Ids : Calls(n) => now - since[n] > task[n].delay]_vars

\* A cleared task is called at most once more, by the frame during which it was
\* cleared: run_frame may already hold the way to it, a later one does not.
ClearedAtMostOnceMore ==
  [][\A n \in Ids : Calls(n) /\ n \in cleared => n \in began /\ n \notin after]_vars

\* A task that is due is called sooner or later, unless it is cleared first or
\* an exception ends run_frame for good.
DueTaskRuns ==
  \A n \in 1..MaxTasks :
    (n \in tasks_.linked /\ IsDue(n))
      ~> ((phase = "callback" /\ it.entry = n) \/ n \in cleared \/ phase = "failed")

\* The walk of run_frame over the list is the walk of ListWalk.
Walk == INSTANCE ListWalk WITH
  Walkers <- {"run_frame"}, MaxElements <- MaxTasks, list <- tasks_,
  it <- [w \in {"run_frame"} |-> it],
  began <- [w \in {"run_frame"} |-> began],
  visited <- [w \in {"run_frame"} |-> visited]
WalksTheList == Walk!Spec
=============================================================================
