-------------------------- MODULE ScriptContexts ---------------------------
(***************************************************************************)
(* module/scripting.cpp: the scripts of a level, each in a context of its  *)
(* own. When a level starts the files of a directory are loaded one after  *)
(* the other; while it runs, frames and notifications of the game go to    *)
(* every script in turn; when it stops all are dropped. All this is the    *)
(* game's thread, but what a script does in the game may notify again, so  *)
(* activities nest: `stack` holds them, the innermost last.                *)
(*                                                                         *)
(* TaskScheduler, EventHandler and ScriptStack are the parts of a context; *)
(* here a context is its file, its listeners and the last id given to one. *)
(***************************************************************************)
EXTENDS Integers, Sequences, Functions

CONSTANTS
  Files,        \* the names of files
  Chai,         \* those whose name ends in ".chai"
  Names,        \* names of events; "touch" is not dispatched
  Entities,     \* entities that are notified
  MaxFiles,     \* bound: files of a directory
  MaxListeners, \* bound: listeners ever added in the scripts of a level
  MaxNotified,  \* bound: notifications in a level
  MaxDepth      \* bound: activities that nest

AnyEntity == "any entity"
TOUCH == "touch"

VARIABLES
  level,      \* "stopped", "running", "dropped" (by an error) or "ended"
  directory,  \* the files, in the order they are listed; <<>> without directory
  scripts_,   \* the contexts, in the order they were loaded
  stack,      \* the activities in progress
  notified,   \* notifications raised in this level
  evaluated   \* history: the files evaluated to their end in this level

vars == <<level, directory, scripts_, stack, notified, evaluated>>

Init ==
  /\ level = "stopped" /\ directory = <<>> /\ scripts_ = <<>> /\ stack = <<>>
  /\ notified = 0 /\ evaluated = <<>>

this == Len(stack)
Top == stack[this]
In(kind) == stack # <<>> /\ Top.kind = kind
SetTop(a) == stack' = [stack EXCEPT ![this] = a]
Pop == stack' = SubSeq(stack, 1, this - 1)

\* Code of a script runs: its file, a timer or a listener.
ScriptRuns == stack # <<>> /\ Top.running

-----------------------------------------------------------------------------
(* Loading.                                                                *)

\* start_execution_stub, where a level starts. Meanwhile files came and went.
StartExecution(files) ==
  /\ level = "stopped"
  /\ level' = "running" /\ directory' = files
  /\ stack' = <<[kind |-> "load", todo |-> files, running |-> FALSE,
                 listeners |-> {}, current_listener_id_ |-> 0]>>
  /\ notified' = 0 /\ evaluated' = <<>>
  /\ UNCHANGED scripts_

\* Any other file is passed over.
SkipFile ==
  /\ In("load") /\ ~Top.running /\ Top.todo # <<>> /\ Head(Top.todo) \notin Chai
  /\ SetTop([Top EXCEPT !.todo = Tail(@)])
  /\ UNCHANGED <<level, directory, scripts_, notified, evaluated>>

\* A context is made, and eval_file runs the file in it.
LoadScript ==
  /\ In("load") /\ ~Top.running /\ Top.todo # <<>> /\ Head(Top.todo) \in Chai
  /\ SetTop([Top EXCEPT !.running = TRUE, !.listeners = {}, !.current_listener_id_ = 0])
  /\ UNCHANGED <<level, directory, scripts_, notified, evaluated>>

\* The file has been evaluated: the context joins the others.
Loaded ==
  /\ In("load") /\ Top.running
  /\ scripts_' = Append(scripts_,
       [file |-> Head(Top.todo), listeners |-> Top.listeners,
        current_listener_id_ |-> Top.current_listener_id_])
  /\ evaluated' = Append(evaluated, Head(Top.todo))
  /\ SetTop([Top EXCEPT !.running = FALSE, !.todo = Tail(@)])
  /\ UNCHANGED <<level, directory, notified>>

\* An exception of the file ends the loading: the error is propagated, the
\* context is dropped, and those loaded before it stay.
LoadFails ==
  /\ In("load") /\ Top.running
  /\ Pop
  /\ UNCHANGED <<level, directory, scripts_, notified, evaluated>>

\* The stub goes on to the game's own function.
StartReturns ==
  /\ In("load") /\ ~Top.running /\ Top.todo = <<>>
  /\ Pop
  /\ UNCHANGED <<level, directory, scripts_, notified, evaluated>>

\* Mutant of StopExecution: the scripts stay.
StopExecutionKept ==
  /\ stack = <<>> /\ level \in {"running", "dropped"}
  /\ level' = "stopped"
  /\ UNCHANGED <<directory, scripts_, stack, notified, evaluated>>

\* stop_execution_stub, where a level is over.
StopExecution ==
  /\ stack = <<>> /\ level \in {"running", "dropped"}
  /\ level' = "stopped" /\ scripts_' = <<>>
  /\ UNCHANGED <<directory, stack, notified, evaluated>>

-----------------------------------------------------------------------------
(* Events.                                                                 *)

\* The context whose code runs, and what it is when it has a listener more.
Own == IF Top.kind = "load" THEN Top ELSE scripts_[Top.at]

Listened(context, name, entity, volatile) ==
  LET id == context.current_listener_id_ + 1
  IN  [context EXCEPT !.current_listener_id_ = id,
                      !.listeners = @ \cup {[id |-> id, event |-> name, entity |-> entity,
                                             is_volatile |-> volatile]}]

OwnBecomes(own) ==
  /\ IF Top.kind = "load"
       THEN SetTop(own) /\ UNCHANGED scripts_
       ELSE scripts_' = [scripts_ EXCEPT ![Top.at] = own] /\ UNCHANGED stack
  /\ UNCHANGED <<level, directory, notified, evaluated>>

\* For the bound: listeners ever added in the scripts there are.
Added ==
  FoldFunction(+, IF In("load") THEN Top.current_listener_id_ ELSE 0,
               [i \in DOMAIN scripts_ |-> scripts_[i].current_listener_id_])

\* The overloads of onNotify: of an entity, or of any; for good unless said so.
OnNotify(name, entity, volatile) ==
  /\ ScriptRuns
  /\ Added < MaxListeners
  /\ OwnBecomes(Listened(Own, name, entity, volatile))

\* clear(handle), of a listener of the script's own.
Clear(id) ==
  /\ ScriptRuns
  /\ OwnBecomes([Own EXCEPT !.listeners = {l \in @ : l.id # id}])

\* The game raises an event of its own accord, or for a script: in one of the
\* overloads of notify, or in a function of the game that one of the overloads
\* of call runs, for an entity or for none.
InGame == stack = <<>> \/ ScriptRuns

Matches(l, name, entity) == l.event = name /\ l.entity \in {entity, AnyEntity}

\* The listeners that match, each with the position of its script.
Listening(name, entity) ==
  {m \in UNION {{i} \X scripts_[i].listeners : i \in DOMAIN scripts_} :
     Matches(m[2], name, entity)}

\* vm_notify_stub: it returns at once for "touch"; else scripts are asked first.
Notify(name, entity) ==
  /\ level = "running" /\ InGame
  /\ name # TOUCH /\ this < MaxDepth /\ notified < MaxNotified
  /\ notified' = notified + 1
  /\ stack' = Append(stack,
       [kind |-> "notify", event |-> name, entity |-> entity, at |-> 1,
        running |-> FALSE, called |-> {}, must |-> Listening(name, entity)])
  /\ UNCHANGED <<level, directory, scripts_, evaluated>>

Walking(kind) == In(kind) /\ ~Top.running
AtScript(kind) == Walking(kind) /\ Top.at <= Len(scripts_)
AtEnd(kind) == Walking(kind) /\ Top.at = Len(scripts_) + 1

\* The listeners of the script that this dispatch has still to call.
Due == {l \in scripts_[Top.at].listeners :
          Matches(l, Top.event, Top.entity) /\ <<Top.at, l>> \notin Top.called}

\* A volatile one is removed before it is called.
CallListener(l) ==
  /\ AtScript("notify") /\ l \in Due
  /\ SetTop([Top EXCEPT !.running = TRUE, !.called = @ \cup {<<Top.at, l>>}])
  /\ scripts_' = IF l.is_volatile THEN [scripts_ EXCEPT ![Top.at].listeners = @ \ {l}]
                                  ELSE scripts_
  /\ UNCHANGED <<level, directory, notified, evaluated>>

\* Mutant of NextScript: the first script that listens is the last one asked.
NextScriptUnlessHeard(kind) ==
  /\ AtScript(kind) /\ (kind = "notify" => Due = {})
  /\ SetTop([Top EXCEPT !.at = IF kind = "notify" /\ Top.called # {}
                                 THEN Len(scripts_) + 1 ELSE @ + 1])
  /\ UNCHANGED <<level, directory, scripts_, notified, evaluated>>

\* The loops of dispatch and run_frame go on to the next script.
NextScript(kind) ==
  /\ AtScript(kind) /\ (kind = "notify" => Due = {})
  /\ SetTop([Top EXCEPT !.at = @ + 1])
  /\ UNCHANGED <<level, directory, scripts_, notified, evaluated>>

CodeReturns ==
  /\ ScriptRuns /\ Top.kind # "load"
  /\ SetTop([Top EXCEPT !.running = FALSE])
  /\ UNCHANGED <<level, directory, scripts_, notified, evaluated>>

\* The stub catches what a listener throws: the scripts behind it do not hear of
\* the event, but the game does.
ListenerThrows ==
  /\ In("notify") /\ Top.running
  /\ SetTop([Top EXCEPT !.running = FALSE, !.at = Len(scripts_) + 1,
                        !.must = {m \in @ : m[1] < Top.at}])
  /\ UNCHANGED <<level, directory, scripts_, notified, evaluated>>

\* Every script has been asked; VM_Notify of the game.
GameNotified ==
  /\ AtEnd("notify")
  /\ Pop
  /\ UNCHANGED <<level, directory, scripts_, notified, evaluated>>

-----------------------------------------------------------------------------
(* Frames, and how activities end otherwise.                               *)

RunFrame ==
  /\ level = "running" /\ stack = <<>>
  /\ stack' = <<[kind |-> "frame", at |-> 1, running |-> FALSE]>>
  /\ UNCHANGED <<level, directory, scripts_, notified, evaluated>>

\* A timer of the script is due.
CallTimer ==
  /\ AtScript("frame")
  /\ SetTop([Top EXCEPT !.running = TRUE])
  /\ UNCHANGED <<level, directory, scripts_, notified, evaluated>>

\* The stub goes on to G_RunFrame.
FrameReturns ==
  /\ AtEnd("frame")
  /\ Pop
  /\ UNCHANGED <<level, directory, scripts_, notified, evaluated>>

\* Nobody catches what a timer throws, nor anywhere an exception that is none of
\* the standard library's: the program ends.
Uncaught ==
  /\ ScriptRuns
  /\ level' = "ended" /\ stack' = <<>>
  /\ UNCHANGED <<directory, scripts_, notified, evaluated>>

\* Com_Error, of the game's own or in a function that notify runs without an
\* error level: it leaves all activities at once, and the game stops the level.
ComError ==
  /\ level = "running" /\ InGame
  /\ level' = "dropped" /\ stack' = <<>>
  /\ UNCHANGED <<directory, scripts_, notified, evaluated>>

\* pre_destroy, when the program exits, from wherever it is called.
PreDestroy ==
  /\ level # "ended" /\ InGame
  /\ level' = "ended" /\ stack' = <<>> /\ scripts_' = <<>>
  /\ UNCHANGED <<directory, notified, evaluated>>

Listings == {f \in UNION {[1..n -> Files] : n \in 0..MaxFiles} : IsInjective(f)}

Next ==
  \/ \E files \in Listings : StartExecution(files)
  \/ SkipFile \/ LoadScript \/ Loaded \/ LoadFails \/ StartReturns \/ StopExecution
  \/ \E name \in Names :
       \/ \E entity \in Entities \cup {AnyEntity}, volatile \in BOOLEAN :
            OnNotify(name, entity, volatile)
       \/ \E entity \in Entities : Notify(name, entity)
  \/ \E id \in 1..MaxListeners : Clear(id)
  \/ \E i \in DOMAIN scripts_ : \E l \in scripts_[i].listeners : CallListener(l)
  \/ \E kind \in {"notify", "frame"} : NextScript(kind)
  \/ CodeReturns \/ ListenerThrows \/ GameNotified
  \/ RunFrame \/ CallTimer \/ FrameReturns \/ Uncaught
  \/ ComError \/ PreDestroy

Spec == Init /\ [][Next]_vars

-----------------------------------------------------------------------------
(* Properties.                                                             *)

Listener == [id : 1..MaxListeners, event : Names, entity : Entities \cup {AnyEntity},
             is_volatile : BOOLEAN]

TypeOK ==
  /\ level \in {"stopped", "running", "dropped", "ended"}
  /\ directory \in Listings
  /\ \A i \in DOMAIN scripts_ :
       scripts_[i].file \in Chai /\ scripts_[i].listeners \subseteq Listener
  /\ this <= MaxDepth /\ notified \in 0..MaxNotified

\* What was evaluated are the scripts among the first n files, in their order.
EvaluatedUpTo(n) ==
  /\ {evaluated[i] : i \in DOMAIN evaluated} = {directory[j] : j \in 1..n} \cap Chai
  /\ \A i, k \in DOMAIN evaluated : i < k =>
       \E p, q \in 1..n : p < q /\ evaluated[i] = directory[p] /\ evaluated[k] = directory[q]

\* The scripts that receive frames and events are those of this level's files
\* that were evaluated to their end, in the order of the directory and each
\* once: none that failed or is still being loaded, none that comes after one
\* that failed, and none of an earlier level, however that one ended.
ScriptsArePrefix ==
  level \in {"running", "dropped"} =>
    /\ [i \in DOMAIN scripts_ |-> scripts_[i].file] = evaluated
    /\ \E n \in 0..Len(directory) : EvaluatedUpTo(n)

\* Before the game hears of an event every listener for it that was there when
\* it was raised has been called or is gone, in all scripts, or in all up to the
\* one that threw, whatever events they raised in between.
EveryScriptHears ==
  AtEnd("notify") =>
    \A m \in Top.must : m \in Top.called \/ m[2] \notin scripts_[m[1]].listeners
=============================================================================
