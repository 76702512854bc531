--------------------------- MODULE SteamCallbacks ---------------------------
(***************************************************************************)
(* The results of asynchronous Steam calls, steam/steam.cpp. A request of  *)
(* the game is given a number, its result is queued at once, and the game  *)
(* then says which handler wants it. run_callbacks hands the queued        *)
(* results out while it holds the recursive mutex; what it calls may make  *)
(* requests and register handlers again, on the vectors it loops over.     *)
(*                                                                         *)
(* A vector is its elements and its capacity: appending to a full one      *)
(* moves it, and the loops over it are left with dangling iterators.       *)
(* Nested calls of run_callbacks, and handlers that leave it by a longjmp, *)
(* are not modelled.                                                       *)
(***************************************************************************)
EXTENDS Integers, Sequences

CONSTANTS
  Threads,       \* threads of the game
  MaxCalls,      \* bound: requests
  MaxCallbacks   \* bound: registered callbacks

ASSUME BoundsAssumption == MaxCalls \in Nat /\ MaxCallbacks \in Nat
ASSUME ThreadsAssumption == "nobody" \notin Threads

Types == {"ticket", "created", "enter"}
Calls == 1..MaxCalls
Nobody == "nobody"
Never == [by |-> Nobody]

VARIABLES
  owner,             \* who holds mutex_ across steps
  call_id_, calls_,  \* the last number, and which calls have been returned
  result_handlers_,  \* the calls somebody wants the result of
  results_,          \* [items, capacity]; an item is a call and its type
  callback_list_,    \* [items, capacity]; an item is the type wanted
  request,           \* the request each thread is making
  run,               \* the run in progress
  handled,           \* history: how often each call's handler ran
  dropped,           \* history: results left to a run that nobody handled
  reentrant          \* history: calls returned, 0 if a callback was
                     \* registered, from within a run

vectors == <<results_, callback_list_>>
history == <<handled, dropped, reentrant>>
vars == <<owner, call_id_, calls_, result_handlers_, vectors, request, run, history>>

Empty == [items |-> <<>>, capacity |-> 0]
NoRequest == [at |-> "none"]

Init ==
  /\ owner = Nobody /\ call_id_ = 0 /\ calls_ = [c \in Calls |-> FALSE]
  /\ result_handlers_ = {} /\ results_ = Empty /\ callback_list_ = Empty
  /\ request = [t \in Threads |-> NoRequest]
  /\ run = Never
  /\ handled = [c \in Calls |-> 0] /\ dropped = {} /\ reentrant = {}

\* push_back: a full vector grows by half.
Full(v) == Len(v.items) = v.capacity
Pushed(v, e) ==
  [items |-> Append(v.items, e),
   capacity |-> IF ~Full(v) THEN v.capacity
                ELSE LET half == v.capacity + v.capacity \div 2
                     IN  IF half > v.capacity THEN half ELSE v.capacity + 1]

\* The mutex is recursive: t can take it when nobody else has it. A thread
\* does something of its own when it is not in run_callbacks, or is in
\* something that run_callbacks called.
CanLock(t) == owner \in {Nobody, t}
InRun(t) == run # Never /\ run.by = t
Acts(t) == InRun(t) => run.at = "calling"

-----------------------------------------------------------------------------
(* Requests.                                                               *)

Registered(t, type, first) ==
  /\ call_id_ < MaxCalls
  /\ call_id_' = call_id_ + 1
  /\ calls_' = [calls_ EXCEPT ![call_id_ + 1] = FALSE]
  /\ request' = [request EXCEPT ![t] =
       [at |-> "return", type |-> type, call |-> call_id_ + 1,
        result |-> IF first = 0 THEN call_id_ + 1 ELSE first]]

\* RequestEncryptedAppTicket, CreateLobby and JoinLobby start with register_call.
RegisterCall(t, type) ==
  /\ request[t] = NoRequest /\ Acts(t) /\ CanLock(t)
  /\ Registered(t, type, 0)
  /\ UNCHANGED <<owner, result_handlers_, vectors, run, history>>

\* Mutant of Lockable: return_call forgets the mutex.
Unlocked(t) == TRUE
Lockable(t) == CanLock(t)

\* return_call. CreateLobby goes on with JoinLobby, whose number it ignores.
ReturnCall(t) ==
  /\ request[t].at = "return" /\ Acts(t) /\ Lockable(t)
  /\ LET c == request[t].call
         moved == run # Never /\ Full(results_)
     IN  /\ calls_' = [calls_ EXCEPT ![c] = TRUE]
         /\ results_' = Pushed(results_, [call |-> c, type |-> request[t].type])
         /\ run' = IF moved THEN [run EXCEPT !.dangling = TRUE] ELSE run
         /\ reentrant' = IF InRun(t) THEN reentrant \cup {c} ELSE reentrant
         /\ request' = [request EXCEPT ![t].at =
              IF request[t].type = "created" THEN "join" ELSE "handler"]
  /\ UNCHANGED <<owner, call_id_, result_handlers_, callback_list_, handled, dropped>>

JoinLobby(t) ==
  /\ request[t].at = "join" /\ Acts(t) /\ CanLock(t)
  /\ Registered(t, "enter", request[t].result)
  /\ UNCHANGED <<owner, result_handlers_, vectors, run, history>>

\* The game has the number of its request: it wants the result, or not.
RegisterCallResult(t) ==
  /\ request[t].at = "handler" /\ Acts(t) /\ CanLock(t)
  /\ result_handlers_' = result_handlers_ \cup {request[t].result}
  /\ request' = [request EXCEPT ![t] = NoRequest]
  /\ UNCHANGED <<owner, call_id_, calls_, vectors, run, history>>

IgnoreResult(t) ==
  /\ request[t].at = "handler" /\ Acts(t)
  /\ request' = [request EXCEPT ![t] = NoRequest]
  /\ UNCHANGED <<owner, call_id_, calls_, result_handlers_, vectors, run, history>>

RegisterCallback(t, type) ==
  /\ request[t] = NoRequest /\ Acts(t) /\ CanLock(t)
  /\ Len(callback_list_.items) < MaxCallbacks
  /\ callback_list_' = Pushed(callback_list_, type)
  /\ LET moved == run # Never /\ run.callback > 0 /\ Full(callback_list_)
     IN  run' = IF moved THEN [run EXCEPT !.dangling = TRUE] ELSE run
  /\ reentrant' = IF InRun(t) THEN reentrant \cup {0} ELSE reentrant
  /\ UNCHANGED <<owner, call_id_, calls_, result_handlers_, results_, request, handled,
                 dropped>>

-----------------------------------------------------------------------------
(* run_callbacks: result is the index of the outer loop, callback that of  *)
(* the inner one or 0, and the ends of both loops are fixed when they      *)
(* begin.                                                                  *)

RunCallbacks(t) ==
  /\ request[t] = NoRequest /\ run = Never /\ CanLock(t)
  /\ owner' = t
  /\ run' = [by |-> t, at |-> "result", result |-> 1, results |-> Len(results_.items),
             callback |-> 0, callbacks |-> 0, dangling |-> FALSE]
  /\ UNCHANGED <<call_id_, calls_, result_handlers_, vectors, request, history>>

Current == results_.items[run.result]
Running(stage) == run # Never /\ run.at = stage

\* The handler of the result, when it has one.
RunHandler ==
  /\ Running("result") /\ run.result <= run.results
  /\ LET c == Current.call
     IN  IF c \in result_handlers_
           THEN /\ handled' = [handled EXCEPT ![c] = @ + 1]
                /\ run' = [run EXCEPT !.at = "calling"]
                /\ UNCHANGED dropped
           ELSE /\ dropped' = dropped \cup {c}
                /\ run' = [run EXCEPT !.at = "callbacks", !.callback = 1,
                                      !.callbacks = Len(callback_list_.items)]
                /\ UNCHANGED handled
  /\ UNCHANGED <<owner, call_id_, calls_, result_handlers_, vectors, request, reentrant>>

\* What run_callbacks called has returned; with a vector moved meanwhile the
\* next use of the loops is undefined.
CallReturns ==
  /\ Running("calling") /\ request[run.by] = NoRequest
  /\ run' = IF run.dangling THEN [run EXCEPT !.at = "undefined"]
            ELSE IF run.callback = 0
                   THEN [run EXCEPT !.at = "callbacks", !.callback = 1,
                                    !.callbacks = Len(callback_list_.items)]
                   ELSE [run EXCEPT !.at = "callbacks", !.callback = @ + 1]
  /\ UNCHANGED <<owner, call_id_, calls_, result_handlers_, vectors, request, history>>

\* The next callback: called when it is registered for the type.
RunCallback ==
  /\ Running("callbacks") /\ run.callback <= run.callbacks
  /\ run' = IF callback_list_.items[run.callback] = Current.type
              THEN [run EXCEPT !.at = "calling"] ELSE [run EXCEPT !.callback = @ + 1]
  /\ UNCHANGED <<owner, call_id_, calls_, result_handlers_, vectors, request, history>>

NextResult ==
  /\ Running("callbacks") /\ run.callback > run.callbacks
  /\ run' = [run EXCEPT !.at = "result", !.result = @ + 1, !.callback = 0]
  /\ UNCHANGED <<owner, call_id_, calls_, result_handlers_, vectors, request, history>>

\* Mutant of RunEnds: the last result is not reached.
RunEndsEarly ==
  /\ Running("result") /\ run.result >= run.results
  /\ results_' = [results_ EXCEPT !.items = <<>>]
  /\ owner' = Nobody /\ run' = Never
  /\ UNCHANGED <<call_id_, calls_, result_handlers_, callback_list_, request, history>>

\* clear drops all results and keeps the capacity.
RunEnds ==
  /\ Running("result") /\ run.result > run.results
  /\ results_' = [results_ EXCEPT !.items = <<>>]
  /\ owner' = Nobody /\ run' = Never
  /\ UNCHANGED <<call_id_, calls_, result_handlers_, callback_list_, request, history>>

-----------------------------------------------------------------------------
Next ==
  \/ \E t \in Threads :
       \/ \E type \in Types : RegisterCall(t, type) \/ RegisterCallback(t, type)
       \/ ReturnCall(t) \/ JoinLobby(t)
       \/ RegisterCallResult(t) \/ IgnoreResult(t)
       \/ RunCallbacks(t)
  \/ RunHandler \/ CallReturns \/ RunCallback \/ NextResult \/ RunEnds

Spec == Init /\ [][Next]_vars

-----------------------------------------------------------------------------
(* Properties.                                                             *)

Waiting == {results_.items[i].call : i \in 1..Len(results_.items)}

\* A result that was returned is waiting, was handled, or met a run before
\* anybody wanted it; only one returned from within a run is just gone.
NoResultForgotten ==
  \A c \in Calls : calls_[c] => c \in Waiting \/ handled[c] > 0 \/ c \in dropped \cup reentrant

\* The loops of a run only break when what they call returns a result or
\* registers a callback: other threads are kept out.
BrokenOnlyFromWithin == run # Never /\ run.dangling => reentrant # {}
=============================================================================
