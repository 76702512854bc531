--------------------------- MODULE EventHandler ----------------------------
(***************************************************************************)
(* game::scripting::event_handler: the listeners of one script, and the    *)
(* dispatch of the game's notifications to them by vm_notify_stub.         *)
(* Everything happens on the game thread, but a listener may notify the    *)
(* game, which dispatches again before the listener returns: dispatches    *)
(* nest, and each walks over lists that the inner ones change.             *)
(***************************************************************************)
EXTENDS ConcurrentList, Sequences, FiniteSets

CONSTANTS
  Names,        \* names of events; "touch" is not dispatched
  Entities,     \* entities that are notified
  MaxListeners, \* bound: listeners ever added
  MaxDepth      \* bound: dispatches in progress

ASSUME BoundsAssumption == MaxListeners \in Nat /\ MaxDepth \in Nat

Lists == {"specific", "generic"}
TOUCH == "touch"

VARIABLES
  listeners,    \* event_listeners_ and generic_event_listeners_
  listener,     \* what each entry of each list holds
  current_listener_id_,
  stack,        \* the dispatches in progress, the outermost first
  gone          \* history: ids that have left their list

handlerVars == <<listeners, listener, current_listener_id_, stack, gone>>

\* A dispatch: its event, the list it walks, its iterator, whether it is in a
\* listener's callback; and as history the ids called so far, the ids that had
\* left before its present walk began, and those it had to call on that walk.
Top == stack[Len(stack)]
SetTop(d) == stack' = [stack EXCEPT ![Len(stack)] = d]
Pop == stack' = SubSeq(stack, 1, Len(stack) - 1)

HandlerInit ==
  /\ listeners = [l \in Lists |-> EmptyList]
  /\ listener = [l \in Lists |-> <<>>]
  /\ current_listener_id_ = 0
  /\ stack = <<>> /\ gone = {}

Entry(l, n) == listener[l][n]
Linked(l) == {Entry(l, n).id : n \in listeners[l].linked}

\* Scripts run outside of dispatches, from a timer or when they are loaded,
\* and in the callback of the innermost one.
ScriptRuns == stack # <<>> => Top.calling

\* onNotify: add_event_listener numbers the listeners of both lists together.
AddEventListener(l, name, entity, volatile) ==
  /\ ScriptRuns
  /\ current_listener_id_ < MaxListeners
  /\ current_listener_id_' = current_listener_id_ + 1
  /\ listeners' = [listeners EXCEPT ![l] = Added(@)]
  /\ listener' = [listener EXCEPT ![l] =
       Append(@, [id |-> current_listener_id_ + 1, event |-> name,
                  entity |-> entity, volatile |-> volatile])]
  /\ UNCHANGED <<stack, gone>>

\* clear(handle) in a script: the first linked entry with the id, and only one.
WithId(l, id) == {n \in listeners[l].linked : Entry(l, n).id = id}
RemoveListener(id) ==
  /\ ScriptRuns
  /\ \E l \in Lists : \E n \in WithId(l, id) :
       /\ l = "generic" => WithId("specific", id) = {}
       /\ listeners' = [listeners EXCEPT ![l] = Removed(@, n)]
  /\ gone' = gone \cup {id}
  /\ UNCHANGED <<listener, current_listener_id_, stack>>

-----------------------------------------------------------------------------
(* vm_notify_stub and dispatch.                                            *)

ListsUnchanged == UNCHANGED <<listeners, listener, current_listener_id_, gone>>

\* The stub returns at once for "touch", which reaches neither scripts nor game.
Notify(name, entity) ==
  /\ ScriptRuns
  /\ name # TOUCH /\ Len(stack) < MaxDepth
  /\ stack' = Append(stack,
       [event |-> name, entity |-> entity, list |-> "arguments", it |-> End,
        calling |-> FALSE, called |-> {}, before |-> gone, must |-> {}])
  /\ ListsUnchanged

Matches(d, l, n) ==
  /\ Entry(l, n).event = d.event
  /\ l = "specific" => Entry(l, n).entity = d.entity

\* Mutant of Walking: the first entry is left out.
WalkingFromSecond(d, l) ==
  [d EXCEPT !.list = l, !.before = gone,
            !.it = Advanced(listeners[l], Begin(listeners[l])),
            !.must = {Entry(l, n).id : n \in {k \in listeners[l].linked : Matches(d, l, k)}}]

\* The walk over list l begins.
Walking(d, l) ==
  [d EXCEPT !.list = l, !.it = Begin(listeners[l]), !.before = gone,
            !.must = {Entry(l, n).id : n \in {k \in listeners[l].linked : Matches(d, l, k)}}]

Running == stack # <<>> /\ ~Top.calling
AtEntry == Running /\ Top.list \in Lists /\ Top.it # End
AtEnd(l) == Running /\ Top.list = l /\ Top.it = End

ArgumentsLoaded ==
  /\ Running /\ Top.list = "arguments"
  /\ SetTop(Walking(Top, "specific"))
  /\ ListsUnchanged

SpecificDone ==
  /\ AtEnd("specific")
  /\ SetTop(Walking(Top, "generic"))
  /\ ListsUnchanged

\* The entry at the iterator does not match the event.
Pass ==
  /\ AtEntry
  /\ ~Matches(Top, Top.list, Top.it.entry)
  /\ SetTop([Top EXCEPT !.it = Advanced(listeners[Top.list], @)])
  /\ ListsUnchanged

\* It matches: a volatile listener is removed before it is called.
CallListener ==
  /\ AtEntry
  /\ Matches(Top, Top.list, Top.it.entry)
  /\ LET l == Top.list
         n == Top.it.entry
         e == Entry(l, n)
     IN  /\ listeners' = IF e.volatile THEN [listeners EXCEPT ![l] = Removed(@, n)]
                                       ELSE listeners
         /\ gone' = IF e.volatile THEN gone \cup {e.id} ELSE gone
         /\ SetTop([Top EXCEPT !.calling = TRUE, !.called = @ \cup {e.id}])
  /\ UNCHANGED <<listener, current_listener_id_>>

ListenerReturns ==
  /\ stack # <<>> /\ Top.calling
  /\ SetTop([Top EXCEPT !.calling = FALSE, !.it = Advanced(listeners[Top.list], @)])
  /\ ListsUnchanged

\* The dispatch has come to its end, and the stub goes on to the game.
GenericDone ==
  /\ AtEnd("generic")
  /\ Pop
  /\ ListsUnchanged

\* What an argument or a listener throws ends this dispatch, and no other one:
\* the stub reports it and goes on to the game.
Throws ==
  /\ stack # <<>> /\ (Top.calling \/ Top.list = "arguments")
  /\ Pop
  /\ ListsUnchanged

HandlerNext ==
  \/ \E name \in Names, entity \in Entities :
       \/ Notify(name, entity)
       \/ \E l \in Lists, volatile \in BOOLEAN :
            AddEventListener(l, name, entity, volatile)
  \/ \E id \in 1..current_listener_id_ : RemoveListener(id)
  \/ ArgumentsLoaded \/ SpecificDone \/ GenericDone
  \/ Pass \/ CallListener \/ ListenerReturns \/ Throws

HandlerSpec == HandlerInit /\ [][HandlerNext]_handlerVars

-----------------------------------------------------------------------------
(* Properties.                                                             *)

\* The innermost dispatch calls the listener at its iterator.
CallsListener ==
  /\ AtEntry
  /\ Len(stack') = Len(stack) /\ stack'[Len(stack)].calling
Callee == Entry(Top.list, Top.it.entry)

\* A volatile listener that has been called, or a listener that was removed, is
\* only ever called by a walk that was in progress already: an outer dispatch
\* may still hold the way to it, but one that begins later cannot find it.
GoneOnlyInOuterWalks == [][CallsListener => Callee.id \notin Top.before]_handlerVars

\* One dispatch calls a listener at most once, whatever inner dispatches do to
\* the lists while it is on its way.
CalledOncePerDispatch == [][CallsListener => Callee.id \notin Top.called]_handlerVars

\* When a walk over a list ends, it has called every listener that matched when
\* it began and is still there: inner dispatches and removals hide none of them.
DispatchIsComplete ==
  stack # <<>> /\ Top.list \in Lists /\ Top.it = End
    => Top.must \cap Linked(Top.list) \subseteq Top.called
=============================================================================
