--------------------------- MODULE ShutdownProofs ---------------------------
(***************************************************************************)
(* When one thread ends the program, every module is told exactly once,    *)
(* and then deleted, for any number of modules. The inductive invariant    *)
(* says for each place on the way out how far the loop over the modules    *)
(* has come; it holds as long as no second thread is on its way out, and   *)
(* threads that are on it stay on it.                                      *)
(*                                                                         *)
(* Seen without the console, the life of the program in Shutdown is one of *)
(* ModuleLoader, so what is proved of that holds here; and the console's   *)
(* thread is gone when the modules are deleted: a module counts as told    *)
(* only once its pre_destroy has returned, and the console's returns only  *)
(* when there is no thread. Of the texts nothing is lost on any of their   *)
(* ways; for that a few facts of FlattenSeq are proved by induction, which *)
(* for a set of numbers is the existence of a least one outside of it.     *)
(*                                                                         *)
(* Before all this main asks for the mode, and the menu decides; the image *)
(* is loaded, and its imports bound; and Steam is told what is played by a *)
(* child that is watched. Each of these is proved of an instance whose     *)
(* constants are this module's own, so for any images, pages, dlls,        *)
(* functions, versions and subscriptions.                                  *)
(***************************************************************************)
EXTENDS Shutdown, Startup, FiniteSetTheorems, SequenceTheorems, WellFoundedInduction, TLAPS

-----------------------------------------------------------------------------
(* The loader.                                                             *)

Ats == {"no", "pre_destroy", "enter", "loop", "exit", "delete", "process", "ended"}
Ways == [at : Ats, next : 1..Modules, then : {"no", "exit", "delete"}]

Types ==
  /\ exiting \in [Threads -> Ways]
  /\ destroyed \in [1..Modules -> Nat]
  /\ \A t \in Threads : exiting[t].at \in {"pre_destroy", "enter", "loop"} =>
                          exiting[t].then \in {"exit", "delete"}

\* The first n - 1 modules have been told once, and the others not at all.
Told(n) == \A m \in 1..Modules : destroyed[m] = IF m < n THEN 1 ELSE 0

\* The loop over the modules has not begun, or is over.
Whole == modules_ = "there" /\ Told(IF handled THEN Modules + 1 ELSE 1)

\* What is true while t is at its place on the way out, and nobody else is on it.
Place(t) ==
  /\ exiting[t].at \in {"pre_destroy", "exit"} => Whole
  /\ exiting[t].at = "enter" => modules_ = "there" /\ Told(1)
  /\ exiting[t].at = "loop" => modules_ = "there" /\ handled /\ Told(exiting[t].next)
  /\ exiting[t].at = "delete" => modules_ = "there" /\ handled /\ Told(Modules + 1)
  /\ exiting[t].at \in {"process", "ended"} => modules_ = "deleted" /\ Told(Modules + 1)

Nobody == \A t \in Threads : exiting[t].at = "no"
Alone == \A t, u \in Exiting : t = u

IInv ==
  /\ Types
  /\ main_.at \notin {"running", "returning"} => Nobody
  /\ Nobody => Whole /\ ~handled
  /\ Alone => \A t \in Threads : Place(t)

-----------------------------------------------------------------------------
(* The first state, and the two kinds of steps on the way out.             *)

LEMMA InitInv == Init => IInv
<1> SUFFICES ASSUME Init PROVE IInv
  OBVIOUS
<1>1. exiting = [t \in Threads |-> NotExiting] /\ NotExiting \in Ways
  BY ModulesAssumption DEF Init, NotExiting, Ways, Ats
<1>2. \A t \in Threads : exiting[t].at = "no"
  BY <1>1 DEF NotExiting
<1>3. Types
  BY <1>1, <1>2 DEF Types, Init
<1>4. Whole /\ ~handled
  BY DEF Init, Whole, Told
<1> QED
  BY <1>2, <1>3, <1>4 DEF IInv, Nobody, Place

\* A thread that is on its way out goes on, and the others stay where they are.
LEMMA GoesOn ==
  ASSUME IInv, NEW t \in Threads, Types', UNCHANGED main_,
         exiting[t].at # "no", exiting'[t].at # "no",
         \A u \in Threads \ {t} : exiting'[u] = exiting[u],
         Alone /\ Place(t) => Place(t)'
  PROVE  IInv'
<1>1. ~Nobody /\ ~Nobody'
  BY DEF Nobody
<1>2. main_'.at \in {"running", "returning"}
  BY <1>1 DEF IInv
<1>3. Exiting \subseteq Exiting' /\ t \in Exiting'
  BY DEF Exiting
<1>4. ASSUME Alone', NEW u \in Threads PROVE Place(u)'
  <2>1. Alone
    BY <1>3, <1>4 DEF Alone
  <2>2. CASE u = t
    BY <2>1, <2>2 DEF IInv
  <2>3. CASE u # t
    <3>1. exiting'[u].at = "no"
      BY <1>3, <1>4, <2>3 DEF Alone, Exiting
    <3> QED
      BY <3>1 DEF Place
  <2> QED
    BY <2>2, <2>3
<1> QED
  BY <1>1, <1>2, <1>4 DEF IInv

\* A thread sets out, to `at`, when it has not been on its way out.
LEMMA SetsOut ==
  ASSUME IInv, NEW t \in Threads, Types', main_'.at \in {"running", "returning"},
         exiting[t].at = "no", exiting'[t].at \in {"pre_destroy", "exit"},
         \A u \in Threads \ {t} : exiting'[u] = exiting[u],
         UNCHANGED <<handled, modules_, destroyed>>
  PROVE  IInv'
<1>1. ~Nobody' /\ t \in Exiting'
  BY DEF Nobody, Exiting
<1>2. ASSUME Alone', NEW u \in Threads PROVE Place(u)'
  <2>1. \A v \in Threads \ {t} : exiting'[v].at = "no"
    BY <1>1, <1>2 DEF Alone, Exiting
  <2>2. Whole'
    BY <2>1 DEF IInv, Nobody, Whole, Told
  <2>3. CASE u = t
    BY <2>2, <2>3 DEF Place
  <2>4. CASE u # t
    BY <2>1, <2>4 DEF Place
  <2> QED
    BY <2>3, <2>4
<1> QED
  BY <1>1, <1>2 DEF IInv

-----------------------------------------------------------------------------
(* Each step.                                                              *)

\* What is known of exiting after a step that gives t the way w.
LEMMA Replaced ==
  ASSUME Types, NEW t \in Threads, NEW w \in Ways, exiting' = [exiting EXCEPT ![t] = w],
         w.at \in {"pre_destroy", "enter", "loop"} => w.then \in {"exit", "delete"},
         destroyed' \in [1..Modules -> Nat]
  PROVE  Types' /\ exiting'[t] = w /\ \A u \in Threads \ {t} : exiting'[u] = exiting[u]
BY DEF Types

LEMMA MainInv == IInv /\ MainStep => IInv'
<1> SUFFICES ASSUME IInv, MainStep PROVE IInv'
  OBVIOUS
<1> USE MainAssumption
<1>1. CASE LeavesMain
  <2>1. Nobody /\ main_'.at = "returning" /\ Types
    BY <1>1 DEF LeavesMain, Goto, IInv
  <2>2. exiting' = [exiting EXCEPT ![Main] =
          [at |-> IF premature_shutdown THEN "pre_destroy" ELSE "exit", next |-> 1,
           then |-> "exit"]]
        /\ UNCHANGED <<handled, modules_, destroyed>>
    BY <1>1 DEF LeavesMain
  <2>3. Types'
    BY <2>1, <2>2, ModulesAssumption DEF Types, Ways, Ats
  <2>4. exiting[Main].at = "no" /\ exiting'[Main].at \in {"pre_destroy", "exit"}
    BY <2>1, <2>2 DEF Nobody, Types, Ways, Ats
  <2>5. \A u \in Threads \ {Main} : exiting'[u] = exiting[u]
    BY <2>1, <2>2 DEF Types
  <2> QED
    BY <2>1, <2>2, <2>3, <2>4, <2>5, SetsOut
<1>2. CASE VerifyTls \/ PostStart \/ LoadBinary \/ PostLoad \/ EntryPoint
  <2>1. main_.at \notin {"running", "returning"} /\ UNCHANGED ending
    BY <1>2 DEF VerifyTls, PostStart, LoadBinary, PostLoad, EntryPoint
  <2>2. Nobody
    BY <2>1 DEF IInv
  <2> QED
    BY <2>1, <2>2 DEF IInv, ending, Types, Whole, Told, Place, Nobody, Alone, Exiting
<1> QED
  BY <1>1, <1>2 DEF MainStep

LEMMA SettingOutInv == ASSUME IInv, NEW t \in Threads, ExitHook(t) \/ EntryReturns PROVE IInv'
<1> DEFINE s == IF ExitHook(t) THEN t ELSE Main
<1>1. s \in Threads /\ main_.at = "running" /\ exiting[s].at = "no" /\ UNCHANGED main_
      /\ UNCHANGED <<handled, modules_, destroyed>>
  BY MainAssumption DEF ExitHook, EntryReturns, At, life
<1>2. \/ exiting' = [exiting EXCEPT ![s] = [at |-> "pre_destroy", next |-> 1, then |-> "exit"]]
      \/ exiting' = [exiting EXCEPT ![s].at = "exit"]
  BY DEF ExitHook, EntryReturns, To
<1>3. Types
  BY DEF IInv
<1> HIDE DEF s
<1>4. PICK w \in Ways : /\ exiting' = [exiting EXCEPT ![s] = w]
                        /\ \/ w.at = "pre_destroy" /\ w.then = "exit"
                           \/ w.at = "exit"
  <2>1. CASE exiting' = [exiting EXCEPT ![s] =
                           [at |-> "pre_destroy", next |-> 1, then |-> "exit"]]
    <3> DEFINE w == [at |-> "pre_destroy", next |-> 1, then |-> "exit"]
    <3>1. w \in Ways
      BY ModulesAssumption DEF Ways, Ats
    <3> QED
      BY <2>1, <3>1
  <2>2. CASE exiting' = [exiting EXCEPT ![s].at = "exit"]
    <3> DEFINE w == [at |-> "exit", next |-> exiting[s].next, then |-> exiting[s].then]
    <3>1. exiting[s] \in Ways
      BY <1>1, <1>3 DEF Types
    <3>2. w \in Ways /\ [exiting[s] EXCEPT !.at = "exit"] = w
      BY <3>1 DEF Ways, Ats
    <3> QED
      BY <2>2, <3>2
  <2> QED
    BY <1>2, <2>1, <2>2
<1>5. /\ Types' /\ exiting'[s].at \in {"pre_destroy", "exit"}
      /\ \A u \in Threads \ {s} : exiting'[u] = exiting[u]
  BY <1>1, <1>3, <1>4, Replaced DEF Types
<1> QED
  BY <1>1, <1>5, SetsOut

LEMMA EndingInv == ASSUME IInv, NEW t \in Threads, Ending(t) PROVE IInv'
<1>1. Types /\ exiting[t] \in Ways
  BY DEF IInv, Types
<1>2. CASE PreDestroyTest(t)
  <2>1. exiting[t].at = "pre_destroy" /\ UNCHANGED <<main_, handled, modules_, destroyed>>
    BY <1>2 DEF PreDestroyTest, At, life
  <2>3. exiting[t].then \in {"exit", "delete"}
    BY <1>1, <2>1 DEF Types
  <2>4. /\ Types' /\ exiting'[t].at = (IF handled \/ modules_ = "deleted"
                                        THEN exiting[t].then ELSE "enter")
        /\ \A u \in Threads \ {t} : exiting'[u] = exiting[u]
    <3> DEFINE at == IF handled \/ modules_ = "deleted" THEN exiting[t].then ELSE "enter"
               w == [at |-> at, next |-> exiting[t].next, then |-> exiting[t].then]
    <3>1. w \in Ways /\ w.at = at /\ w.then \in {"exit", "delete"}
      BY <1>1, <2>3 DEF Ways, Ats
    <3>2. exiting' = [exiting EXCEPT ![t] = w]
      BY <1>1, <1>2 DEF PreDestroyTest, Proceed, To, Ways
    <3> HIDE DEF w
    <3> QED
      BY <1>1, <2>1, <3>1, <3>2, Replaced DEF Types
  <2>5. exiting'[t].at # "no"
    BY <2>3, <2>4
  <2>6. Place(t) => Place(t)'
    <3> SUFFICES ASSUME Place(t) PROVE Place(t)'
      OBVIOUS
    <3>1. Whole /\ Whole'
      BY <2>1 DEF Place, Whole, Told
    <3>2. CASE handled
      <4>1. exiting'[t].at \in {"exit", "delete"} /\ Told(Modules + 1)' /\ handled'
        BY <2>1, <2>3, <2>4, <3>1, <3>2 DEF Whole
      <4> QED
        BY <3>1, <4>1 DEF Place, Whole
    <3>3. CASE ~handled
      <4>1. exiting'[t].at = "enter" /\ Told(1)'
        BY <2>1, <2>4, <3>1, <3>3 DEF Whole
      <4> QED
        BY <3>1, <4>1 DEF Place, Whole
    <3> QED
      BY <3>2, <3>3
  <2> QED
    BY <2>1, <2>4, <2>5, <2>6, GoesOn
<1>3. CASE PreDestroySet(t)
  <2>1. exiting[t].at = "enter" /\ handled' = TRUE /\ UNCHANGED <<main_, modules_, destroyed>>
        /\ exiting' = [exiting EXCEPT ![t] = [@ EXCEPT !.at = "loop", !.next = 1]]
    BY <1>3 DEF PreDestroySet, At, life
  <2>2. exiting[t].then \in {"exit", "delete"}
    BY <1>1, <2>1 DEF Types
  <2>3. /\ Types' /\ exiting'[t].at = "loop" /\ exiting'[t].next = 1
        /\ \A u \in Threads \ {t} : exiting'[u] = exiting[u]
    <3> DEFINE w == [at |-> "loop", next |-> 1, then |-> exiting[t].then]
    <3>1. w \in Ways /\ w.at = "loop" /\ w.next = 1 /\ w.then \in {"exit", "delete"}
      BY <2>2, ModulesAssumption DEF Ways, Ats
    <3>2. exiting' = [exiting EXCEPT ![t] = w]
      <4> DEFINE e == exiting[t]
                 v == [at |-> "loop", next |-> e.next, then |-> e.then]
      <4>1. e = [at |-> e.at, next |-> e.next, then |-> e.then]
        BY <1>1 DEF Ways
      <4>2. [e EXCEPT !.at = "loop"] = v
        BY <4>1
      <4>3. [v EXCEPT !.next = 1] = w
        OBVIOUS
      <4>4. [[e EXCEPT !.at = "loop"] EXCEPT !.next = 1] = w
        BY <4>2, <4>3
      <4> QED
        BY <2>1, <4>4
    <3> HIDE DEF w
    <3> QED
      BY <1>1, <2>1, <3>1, <3>2, Replaced DEF Types
  <2>4. Place(t) => Place(t)'
    BY <2>1, <2>3 DEF Place, Told
  <2> QED
    BY <2>1, <2>3, <2>4, GoesOn
<1>4. CASE DestroyModule(t)
  <2>1. exiting[t].at = "loop" /\ UNCHANGED <<main_, handled>>
        /\ exiting[t].next \in 1..Modules /\ exiting[t].then \in {"exit", "delete"}
    BY <1>1, <1>4 DEF DestroyModule, At, life, Types, Ways
  <2>2. CASE modules_ = "deleted"
    <3>1. UNCHANGED <<exiting, destroyed>>
      BY <1>4, <2>2 DEF DestroyModule
    <3>2. Types'
      BY <1>1, <3>1 DEF Types
    <3>3. ~Place(t)
      BY <2>1, <2>2 DEF Place
    <3> QED
      BY <2>1, <3>1, <3>2, <3>3, GoesOn
  <2>3. CASE modules_ # "deleted"
    <3>1. /\ destroyed' = [destroyed EXCEPT ![exiting[t].next] = @ + 1]
          /\ UNCHANGED modules_
          /\ \/ /\ exiting[t].next = Modules
                /\ exiting' = [exiting EXCEPT ![t].at = exiting[t].then]
             \/ /\ exiting[t].next < Modules
                /\ exiting' = [exiting EXCEPT ![t].next = @ + 1]
      BY <1>4, <2>1, <2>3, ModulesAssumption DEF DestroyModule, Proceed
    <3>2. destroyed' \in [1..Modules -> Nat]
      BY <1>1, <2>1, <3>1 DEF Types
    <3>3. /\ Types' /\ exiting'[t].at \in {"exit", "delete", "loop"}
          /\ \A u \in Threads \ {t} : exiting'[u] = exiting[u]
      <4> DEFINE last == exiting[t].next = Modules
                 w == [at |-> IF last THEN exiting[t].then ELSE "loop",
                       next |-> IF last THEN Modules ELSE exiting[t].next + 1,
                       then |-> exiting[t].then]
      <4>1. w \in Ways /\ w.at \in {"exit", "delete", "loop"} /\ w.then \in {"exit", "delete"}
        BY <2>1, <3>1, ModulesAssumption DEF Ways, Ats
      <4>2. exiting' = [exiting EXCEPT ![t] = w]
        BY <1>1, <2>1, <3>1, ModulesAssumption DEF Ways
      <4> HIDE DEF w
      <4> QED
        BY <1>1, <3>2, <4>1, <4>2, Replaced
    <3>4. Place(t) => Place(t)'
      <4> SUFFICES ASSUME Place(t) PROVE Place(t)'
        OBVIOUS
      <4>1. modules_ = "there" /\ handled /\ Told(exiting[t].next)
        BY <2>1 DEF Place
      <4>2. \A m \in 1..Modules : destroyed'[m] = IF m < exiting[t].next + 1 THEN 1 ELSE 0
        BY <1>1, <2>1, <3>1, <4>1, ModulesAssumption DEF Told, Types
      <4>3. CASE exiting[t].next = Modules
        <5>1. Whole' /\ Told(Modules + 1)' /\ exiting'[t].at \in {"exit", "delete"}
          BY <1>1, <2>1, <3>1, <4>1, <4>2, <4>3 DEF Whole, Told, Types, Ways
        <5> QED
          BY <2>1, <3>1, <4>1, <5>1 DEF Place
      <4>4. CASE exiting[t].next < Modules
        <5>1. exiting'[t].at = "loop" /\ exiting'[t].next = exiting[t].next + 1
          BY <1>1, <2>1, <3>1, <4>4 DEF Types, Ways
        <5> QED
          BY <2>1, <3>1, <4>1, <4>2, <5>1 DEF Place, Told
      <4> QED
        BY <3>1, <4>3, <4>4
    <3> QED
      BY <2>1, <3>3, <3>4, GoesOn
  <2> QED
    BY <2>2, <2>3
<1>5. CASE Exit(t)
  <2>1. exiting[t].at = "exit" /\ UNCHANGED <<main_, handled, modules_, destroyed>>
        /\ exiting' = [exiting EXCEPT ![t].at = "pre_destroy", ![t].then = "delete"]
    BY <1>5 DEF Exit, At, life
  <2>2. Types'
    BY <1>1, <2>1 DEF Types, Ways, Ats
  <2>3. exiting'[t].at = "pre_destroy" /\ \A u \in Threads \ {t} : exiting'[u] = exiting[u]
    BY <1>1, <2>1 DEF Types, Ways
  <2>4. Place(t) => Place(t)'
    BY <2>1, <2>3 DEF Place, Whole, Told
  <2> QED
    BY <2>1, <2>2, <2>3, <2>4, GoesOn
<1>6. CASE DeleteModules(t)
  <2>1. exiting[t].at = "delete" /\ modules_' = "deleted"
        /\ UNCHANGED <<main_, handled, destroyed>>
        /\ exiting' = [exiting EXCEPT ![t].at = "process"]
    BY <1>6 DEF DeleteModules, At, To, life
  <2>2. Types'
    BY <1>1, <2>1 DEF Types, Ways, Ats
  <2>3. exiting'[t].at = "process" /\ \A u \in Threads \ {t} : exiting'[u] = exiting[u]
    BY <1>1, <2>1 DEF Types, Ways
  <2>4. Place(t) => Place(t)'
    BY <2>1, <2>3 DEF Place, Told
  <2> QED
    BY <2>1, <2>2, <2>3, <2>4, GoesOn
<1>7. CASE ProcessEnds(t)
  <2>1. exiting[t].at = "process" /\ UNCHANGED <<main_, handled, modules_, destroyed>>
        /\ exiting' = [exiting EXCEPT ![t].at = "ended"]
    BY <1>7 DEF ProcessEnds, At, To, life
  <2>2. Types'
    BY <1>1, <2>1 DEF Types, Ways, Ats
  <2>3. exiting'[t].at = "ended" /\ \A u \in Threads \ {t} : exiting'[u] = exiting[u]
    BY <1>1, <2>1 DEF Types, Ways
  <2>4. Place(t) => Place(t)'
    BY <2>1, <2>3 DEF Place, Told
  <2> QED
    BY <2>1, <2>2, <2>3, <2>4, GoesOn
<1> QED
  BY <1>2, <1>3, <1>4, <1>5, <1>6, <1>7 DEF Ending

-----------------------------------------------------------------------------
(* The theorem.                                                            *)

LEMMA LoaderInv == IInv /\ [Next]_vars => IInv'
<1> SUFFICES ASSUME IInv, [Next]_vars PROVE IInv'
  OBVIOUS
<1>1. CASE Next
  BY <1>1, MainInv, SettingOutInv, EndingInv, MainAssumption DEF Next
<1>2. CASE UNCHANGED vars
  BY <1>2 DEF vars, life, ending, IInv, Types, Whole, Told, Place, Nobody, Alone, Exiting
<1> QED
  BY <1>1, <1>2

\* The modules are told and deleted in this order, and each of them once, when
\* one thread ends the program, wherever in its life that happens.
THEOREM ToldOnceThenDeleted == Spec => []DestroyedBeforeDeleted
<1>1. IInv => DestroyedBeforeDeleted
  <2> SUFFICES ASSUME IInv, modules_ # "there", \A t, u \in Exiting : t = u
               PROVE  modules_ = "deleted" /\ \A m \in 1..Modules : destroyed[m] = 1
    BY DEF DestroyedBeforeDeleted
  <2>1. PICK t \in Threads : exiting[t].at # "no"
    BY DEF IInv, Nobody, Whole
  <2>2. Place(t) /\ exiting[t] \in Ways
    BY <2>1 DEF IInv, Alone, Types
  <2>3. modules_ = "deleted" /\ Told(Modules + 1)
    BY <2>1, <2>2 DEF Place, Whole, Ways, Ats
  <2> QED
    BY <2>3, ModulesAssumption DEF Told
<1> QED
  BY <1>1, LoaderInv, InitInv, PTL DEF Spec

-----------------------------------------------------------------------------
(* With any number of threads on their way out: whoever has set the flag   *)
(* is in the loop, or has told all the modules, or has come to deleted     *)
(* ones; and nobody deletes them before the flag is set.                   *)

AllTold == \A m \in 1..Modules : destroyed[m] > 0
InLoop(t) == handled /\ \A m \in 1..Modules : m < exiting[t].next => destroyed[m] > 0

OnTheWay(t) == (exiting[t].at = "loop" => InLoop(t)) /\ (exiting[t].at = "delete" => handled)
SomebodyTells == AllTold \/ modules_ = "dangling" \/ \E t \in Threads : exiting[t].at = "loop"

LInv ==
  /\ \A t \in Threads : OnTheWay(t)
  /\ modules_ # "there" => handled
  /\ handled => SomebodyTells

\* What a step of thread t has to keep: the others stay where they are.
LEMMA OneGoesOn ==
  ASSUME LInv, NEW t \in Threads,
         \A u \in Threads \ {t} : exiting'[u] = exiting[u],
         handled => handled',
         \A m \in 1..Modules : destroyed[m] > 0 => destroyed'[m] > 0,
         exiting'[t].at = "loop" => InLoop(t)',
         exiting'[t].at = "delete" => handled',
         modules_' # "there" => handled',
         modules_ = "dangling" => modules_' = "dangling",
         handled' /\ (exiting[t].at = "loop" \/ ~handled) =>
           AllTold' \/ modules_' = "dangling" \/ exiting'[t].at = "loop"
  PROVE  LInv'
<1>1. \A u \in Threads : OnTheWay(u)'
  BY DEF LInv, OnTheWay, InLoop
<1>2. handled' => SomebodyTells'
  BY DEF LInv, SomebodyTells, AllTold
<1> QED
  BY <1>1, <1>2 DEF LInv

LEMMA LInvStart == Init => LInv
BY DEF Init, LInv, OnTheWay, NotExiting

\* The steps that touch no more than one thread's way.
LEMMA WaysOnly ==
  ASSUME LInv, NEW t \in Threads, UNCHANGED <<handled, modules_, destroyed>>,
         \A u \in Threads \ {t} : exiting'[u] = exiting[u],
         exiting[t].at # "loop", exiting'[t].at # "loop",
         exiting'[t].at = "delete" => handled
  PROVE  LInv'
BY OneGoesOn DEF LInv

LEMMA EndingKeeps == ASSUME IInv, LInv, NEW t \in Threads, Ending(t) PROVE LInv'
<1>1. Types /\ exiting[t] \in Ways
  BY DEF IInv, Types
<1>2. CASE PreDestroyTest(t)
  <2>1. exiting[t].at = "pre_destroy" /\ UNCHANGED <<handled, modules_, destroyed>>
    BY <1>2 DEF PreDestroyTest, At
  <2>2. /\ \A u \in Threads \ {t} : exiting'[u] = exiting[u]
        /\ \/ (handled \/ modules_ = "deleted") /\ exiting'[t].at = exiting[t].then
           \/ exiting'[t].at = "enter"
    BY <1>1, <1>2 DEF PreDestroyTest, Proceed, To, Types, Ways
  <2>3. exiting[t].then \in {"exit", "delete"}
    BY <1>1, <2>1 DEF Types
  <2>4. exiting'[t].at = "delete" => handled
    BY <2>2 DEF LInv
  <2> QED
    BY <2>1, <2>2, <2>3, <2>4, WaysOnly
<1>3. CASE PreDestroySet(t)
  <2>1. exiting[t].at = "enter" /\ handled' = TRUE /\ UNCHANGED <<modules_, destroyed>>
        /\ exiting' = [exiting EXCEPT ![t] = [@ EXCEPT !.at = "loop", !.next = 1]]
    BY <1>3 DEF PreDestroySet, At
  <2>2. [[exiting[t] EXCEPT !.at = "loop"] EXCEPT !.next = 1]
          = [at |-> "loop", next |-> 1, then |-> exiting[t].then]
    <3> DEFINE e == exiting[t]
               v == [at |-> "loop", next |-> e.next, then |-> e.then]
    <3>1. e = [at |-> e.at, next |-> e.next, then |-> e.then]
      BY <1>1 DEF Ways
    <3>2. [e EXCEPT !.at = "loop"] = v
      BY <3>1
    <3>3. [v EXCEPT !.next = 1] = [at |-> "loop", next |-> 1, then |-> e.then]
      OBVIOUS
    <3> QED
      BY <3>2, <3>3
  <2>3. /\ exiting'[t].at = "loop" /\ exiting'[t].next = 1
        /\ \A u \in Threads \ {t} : exiting'[u] = exiting[u]
    BY <1>1, <2>1, <2>2 DEF Types
  <2>4. InLoop(t)'
    BY <2>1, <2>3 DEF InLoop
  <2> QED
    BY <2>1, <2>3, <2>4, OneGoesOn DEF LInv
<1>4. CASE DestroyModule(t)
  <2>1. exiting[t].at = "loop" /\ UNCHANGED handled /\ InLoop(t)
        /\ exiting[t].next \in 1..Modules /\ exiting[t].then \in {"exit", "delete"}
    BY <1>1, <1>4 DEF DestroyModule, At, Types, Ways, LInv, OnTheWay
  <2>2. CASE modules_ = "deleted"
    <3>1. modules_' = "dangling" /\ UNCHANGED <<exiting, destroyed>>
      BY <1>4, <2>2 DEF DestroyModule
    <3>2. InLoop(t)'
      BY <2>1, <3>1 DEF InLoop
    <3> QED
      BY <2>1, <3>1, <3>2, OneGoesOn DEF InLoop
  <2>3. CASE modules_ # "deleted"
    <3>1. /\ destroyed' = [destroyed EXCEPT ![exiting[t].next] = @ + 1]
          /\ UNCHANGED modules_
          /\ \/ /\ exiting[t].next = Modules
                /\ exiting' = [exiting EXCEPT ![t].at = exiting[t].then]
             \/ /\ exiting[t].next < Modules
                /\ exiting' = [exiting EXCEPT ![t].next = @ + 1]
      BY <1>4, <2>1, <2>3, ModulesAssumption DEF DestroyModule, Proceed
    <3>2. /\ \A u \in Threads \ {t} : exiting'[u] = exiting[u]
          /\ \/ exiting[t].next = Modules /\ exiting'[t].at \in {"exit", "delete"}
             \/ /\ exiting[t].next < Modules /\ exiting'[t].at = "loop"
                /\ exiting'[t].next = exiting[t].next + 1
      BY <1>1, <2>1, <3>1 DEF Types, Ways
    <3>3. /\ \A m \in 1..Modules : destroyed[m] > 0 => destroyed'[m] > 0
          /\ destroyed'[exiting[t].next] > 0
      BY <1>1, <2>1, <3>1 DEF Types
    <3>4. \A m \in 1..Modules : m < exiting[t].next + 1 => destroyed'[m] > 0
      <4> SUFFICES ASSUME NEW m \in 1..Modules, m < exiting[t].next + 1
                   PROVE  destroyed'[m] > 0
        OBVIOUS
      <4>1. CASE m = exiting[t].next
        BY <3>3, <4>1
      <4>2. CASE m < exiting[t].next
        BY <2>1, <3>3, <4>2 DEF InLoop
      <4> QED
        BY <2>1, <4>1, <4>2, ModulesAssumption
    <3>5. CASE exiting[t].next = Modules
      <4>1. AllTold'
        BY <3>4, <3>5, ModulesAssumption DEF AllTold
      <4>2. exiting'[t].at \in {"exit", "delete"}
        BY <3>2, <3>5, ModulesAssumption
      <4> QED
        BY <2>1, <3>1, <3>2, <3>3, <4>1, <4>2, OneGoesOn DEF InLoop
    <3>6. CASE exiting[t].next < Modules
      <4>1. exiting'[t].at = "loop" /\ exiting'[t].next = exiting[t].next + 1
        BY <2>1, <3>2, <3>6, ModulesAssumption
      <4>2. InLoop(t)'
        BY <2>1, <3>4, <4>1 DEF InLoop
      <4> QED
        BY <2>1, <3>1, <3>2, <3>3, <4>1, <4>2, OneGoesOn DEF InLoop
    <3> QED
      BY <2>1, <3>5, <3>6, ModulesAssumption
  <2> QED
    BY <2>2, <2>3
<1>5. CASE Exit(t)
  <2>1. exiting[t].at = "exit" /\ UNCHANGED <<handled, modules_, destroyed>>
        /\ exiting' = [exiting EXCEPT ![t].at = "pre_destroy", ![t].then = "delete"]
    BY <1>5 DEF Exit, At
  <2>2. exiting'[t].at = "pre_destroy" /\ \A u \in Threads \ {t} : exiting'[u] = exiting[u]
    BY <1>1, <2>1 DEF Types, Ways
  <2> QED
    BY <2>1, <2>2, WaysOnly
<1>6. CASE DeleteModules(t)
  <2>1. exiting[t].at = "delete" /\ modules_' = "deleted" /\ UNCHANGED <<handled, destroyed>>
        /\ exiting' = [exiting EXCEPT ![t].at = "process"] /\ modules_ # "dangling" /\ handled
    BY <1>6 DEF DeleteModules, At, Alive, To, LInv, OnTheWay
  <2>2. exiting'[t].at = "process" /\ \A u \in Threads \ {t} : exiting'[u] = exiting[u]
    BY <1>1, <2>1 DEF Types, Ways
  <2> QED
    BY <2>1, <2>2, OneGoesOn
<1>7. CASE ProcessEnds(t)
  <2>1. exiting[t].at = "process" /\ UNCHANGED <<handled, modules_, destroyed>>
        /\ exiting' = [exiting EXCEPT ![t].at = "ended"]
    BY <1>7 DEF ProcessEnds, At, To
  <2>2. exiting'[t].at = "ended" /\ \A u \in Threads \ {t} : exiting'[u] = exiting[u]
    BY <1>1, <2>1 DEF Types, Ways
  <2> QED
    BY <2>1, <2>2, WaysOnly
<1> QED
  BY <1>2, <1>3, <1>4, <1>5, <1>6, <1>7 DEF Ending

LEMMA StartsOutKeeps ==
  ASSUME IInv, LInv, NEW t \in Threads, MainStep \/ ExitHook(t) \/ EntryReturns
  PROVE  LInv'
<1>1. Types
  BY DEF IInv
<1>2. CASE VerifyTls \/ PostStart \/ LoadBinary \/ PostLoad \/ EntryPoint
  <2>1. UNCHANGED ending
    BY <1>2 DEF VerifyTls, PostStart, LoadBinary, PostLoad, EntryPoint
  <2> QED
    BY <2>1 DEF ending, LInv, OnTheWay, SomebodyTells, InLoop, AllTold
<1>3. CASE LeavesMain
  <2>1. main_.at \notin {"running", "returning"} /\ UNCHANGED <<handled, modules_, destroyed>>
        /\ exiting' = [exiting EXCEPT ![Main] =
             [at |-> IF premature_shutdown THEN "pre_destroy" ELSE "exit", next |-> 1,
              then |-> "exit"]]
    BY <1>3 DEF LeavesMain
  <2>2. exiting[Main].at = "no"
    BY <2>1, MainAssumption DEF IInv, Nobody
  <2>3. exiting'[Main].at \in {"pre_destroy", "exit"}
        /\ \A u \in Threads \ {Main} : exiting'[u] = exiting[u]
    BY <1>1, <2>1, MainAssumption DEF Types
  <2> QED
    BY <2>1, <2>2, <2>3, MainAssumption, WaysOnly
<1>4. CASE ExitHook(t)
  <2>1. exiting[t].at = "no" /\ UNCHANGED <<handled, modules_, destroyed>>
        /\ exiting' = [exiting EXCEPT ![t] =
             [at |-> "pre_destroy", next |-> 1, then |-> "exit"]]
    BY <1>4 DEF ExitHook, At
  <2>2. exiting'[t].at = "pre_destroy" /\ \A u \in Threads \ {t} : exiting'[u] = exiting[u]
    BY <1>1, <2>1 DEF Types
  <2> QED
    BY <2>1, <2>2, WaysOnly
<1>5. CASE EntryReturns
  <2>1. exiting[Main].at = "no" /\ UNCHANGED <<handled, modules_, destroyed>>
        /\ exiting' = [exiting EXCEPT ![Main].at = "exit"] /\ exiting[Main] \in Ways
    BY <1>1, <1>5, MainAssumption DEF EntryReturns, At, To, Types
  <2>2. exiting'[Main].at = "exit" /\ \A u \in Threads \ {Main} : exiting'[u] = exiting[u]
    BY <1>1, <2>1, MainAssumption DEF Types, Ways
  <2> QED
    BY <2>1, <2>2, MainAssumption, WaysOnly
<1> QED
  BY <1>2, <1>3, <1>4, <1>5 DEF MainStep

LEMMA UntoldInv == IInv /\ LInv /\ [Next]_vars => LInv'
<1> SUFFICES ASSUME IInv, LInv, [Next]_vars PROVE LInv'
  OBVIOUS
<1>1. CASE Next
  BY <1>1, StartsOutKeeps, EndingKeeps, MainAssumption DEF Next
<1>2. CASE UNCHANGED vars
  BY <1>2 DEF vars, ending, LInv, OnTheWay, SomebodyTells, InLoop, AllTold
<1> QED
  BY <1>1, <1>2

\* Whatever number of modules, and of threads that end the program at the same
\* time: a module that was never told is deleted only under a loop in progress.
THEOREM DeletedUntoldOnlyUnderLoop == Spec => []UntoldOnlyUnderLoop
<1>1. LInv => UntoldOnlyUnderLoop
  BY DEF LInv, SomebodyTells, UntoldOnlyUnderLoop, AllTold
<1> QED
  BY <1>1, LInvStart, UntoldInv, LoaderInv, InitInv, PTL DEF Spec

-----------------------------------------------------------------------------
(* The loader and the console together.                                    *)

\* Every step of the composition is one of the loader, or leaves it alone.
LEMMA StepOfLoader == [ShutdownNext]_all => [Next]_vars
<1> SUFFICES ASSUME ShutdownNext PROVE [Next]_vars
  BY DEF all
<1>1. CASE Start
  BY <1>1 DEF Start, ModulePostStart, ModulePostLoad, OtherStart, Running, Next, MainStep
<1>2. CASE GameFrame \/ RunnerThread \/ Prints
  BY <1>2 DEF GameFrame, RunnerThread, Prints
<1>3. ASSUME NEW t \in Threads, End(t) PROVE [Next]_vars
  <2>1. CASE ConsolePreDestroy(t) \/ ConsoleDestroys(t)
    BY <2>1 DEF ConsolePreDestroy, ConsoleDestroys
  <2>2. CASE ModulePreDestroy(t)
    BY <2>2 DEF ModulePreDestroy, Next, Ending
  <2>3. CASE OtherEnding(t)
    BY <2>3 DEF OtherEnding, Next, Ending
  <2> QED
    BY <1>3, <2>1, <2>2, <2>3 DEF End
<1> QED
  BY <1>1, <1>2, <1>3 DEF ShutdownNext

\* The composition implements the life of the program without a console.
THEOREM ImplementsLoader == ShutdownSpec => Spec
<1>1. ShutdownInit => Init
  BY DEF ShutdownInit
<1> QED
  BY <1>1, StepOfLoader, PTL DEF ShutdownSpec, Spec

\* So every module, the console among them, is told once and then deleted.
THEOREM ConsoleToldThenDeleted == ShutdownSpec => []DestroyedBeforeDeleted
BY ImplementsLoader, ToldOnceThenDeleted, PTL

-----------------------------------------------------------------------------
(* The thread.                                                             *)

Gone == runner.at \in {"none", "ended"}

GoneInv ==
  /\ Nobody => destroyer = "no"
  /\ destroyed[ConsoleModule] # 0 => destroyer = "done"
  /\ destroyer = "done" => Gone

\* No thread turns back.
LEMMA NobodyTurnsBack == IInv /\ Next /\ ~Nobody => ~Nobody'
<1> SUFFICES ASSUME IInv, Next, ~Nobody PROVE ~Nobody'
  OBVIOUS
<1>1. PICK u \in Threads : exiting[u].at # "no"
  BY DEF Nobody
<1> USE MainAssumption
<1> SUFFICES exiting'[u].at # "no"
  BY DEF Nobody
<1>2. Types /\ exiting[u] \in Ways
  BY DEF IInv, Types
<1>3. CASE MainStep
  <2>1. CASE LeavesMain
    BY <1>1, <2>1 DEF LeavesMain, IInv, Nobody
  <2>2. CASE VerifyTls \/ PostStart \/ LoadBinary \/ PostLoad \/ EntryPoint
    BY <1>1, <2>2 DEF VerifyTls, PostStart, LoadBinary, PostLoad, EntryPoint, ending
  <2> QED
    BY <1>3, <2>1, <2>2 DEF MainStep
<1>4. CASE EntryReturns
  BY <1>1, <1>2, <1>4 DEF EntryReturns, At, To, Types
<1>5. ASSUME NEW t \in Threads, ExitHook(t) PROVE exiting'[u].at # "no"
  BY <1>1, <1>2, <1>5 DEF ExitHook, At, Types
<1>6. ASSUME NEW t \in Threads, Ending(t) PROVE exiting'[u].at # "no"
  <2>1. exiting[t] \in Ways
    BY <1>2 DEF Types
  <2>2. ASSUME NEW a, a # "no", exiting' = [exiting EXCEPT ![t].at = a]
        PROVE  exiting'[u].at # "no"
    <3>1. [exiting[t] EXCEPT !.at = a].at = a
      BY <2>1 DEF Ways
    <3> QED
      BY <1>1, <1>2, <2>2, <3>1 DEF Types
  <2>3. CASE PreDestroyTest(t)
    <3>1. exiting[t].then # "no"
      BY <1>2, <2>3 DEF PreDestroyTest, At, Types
    <3> QED
      BY <2>2, <2>3, <3>1 DEF PreDestroyTest, To, Proceed
  <2>4. CASE PreDestroySet(t) \/ Exit(t)
    <3>1. \/ exiting' = [exiting EXCEPT ![t] = [exiting[t] EXCEPT !.at = "loop", !.next = 1]]
          \/ exiting' = [exiting EXCEPT ![t] = [exiting[t] EXCEPT !.at = "pre_destroy",
                                                                 !.then = "delete"]]
      BY <1>2, <2>4 DEF PreDestroySet, Exit, Types
    <3>2. /\ [exiting[t] EXCEPT !.at = "loop", !.next = 1].at = "loop"
          /\ [exiting[t] EXCEPT !.at = "pre_destroy", !.then = "delete"].at = "pre_destroy"
      BY <2>1 DEF Ways
    <3> QED
      BY <1>1, <1>2, <3>1, <3>2 DEF Types
  <2>5. CASE DestroyModule(t)
    <3>1. exiting[t].at = "loop" /\ exiting[t].then # "no"
      BY <1>2, <2>5 DEF DestroyModule, At, Types
    <3>2. CASE modules_ = "deleted" \/ exiting[t].next = Modules
      BY <1>1, <2>2, <2>5, <3>1, <3>2 DEF DestroyModule, Proceed
    <3>3. CASE modules_ # "deleted" /\ exiting[t].next # Modules
      <4>1. exiting' = [exiting EXCEPT ![t].next = @ + 1]
        BY <2>5, <3>3 DEF DestroyModule
      <4>2. [exiting[t] EXCEPT !.next = @ + 1].at = "loop"
        BY <2>1, <3>1 DEF Ways
      <4> QED
        BY <1>1, <1>2, <4>1, <4>2 DEF Types
    <3> QED
      BY <3>2, <3>3
  <2>6. CASE DeleteModules(t) \/ ProcessEnds(t)
    BY <2>2, <2>6 DEF DeleteModules, ProcessEnds, To
  <2> QED
    BY <1>6, <2>3, <2>4, <2>5, <2>6 DEF Ending
<1> QED
  BY <1>3, <1>4, <1>5, <1>6 DEF Next

LEMMA GoneStep == IInv /\ GoneInv /\ [ShutdownNext]_all => GoneInv'
<1> SUFFICES ASSUME IInv, GoneInv, [ShutdownNext]_all PROVE GoneInv'
  OBVIOUS
<1> USE ConsoleAssumption
<1>1. [Next]_vars
  BY StepOfLoader
<1>2. Nobody' => Nobody
  BY <1>1, NobodyTurnsBack DEF vars, ending, Nobody
<1>3. CASE ShutdownNext
  <2>1. CASE Start
    <3>1. CASE main_.at \in {"running", "returning"}
      BY <2>1, <3>1 DEF Start, ModulePostStart, ModulePostLoad, OtherStart, PostStart, PostLoad,
                        VerifyTls, LoadBinary, EntryPoint, LeavesMain
    <3>2. CASE main_.at \notin {"running", "returning"}
      <4>1. destroyer = "no" /\ destroyed[ConsoleModule] = 0
        BY <3>2 DEF IInv, GoneInv
      <4>2. UNCHANGED <<destroyer, destroyed>>
        BY <2>1 DEF Start, ModulePostStart, ModulePostLoad, OtherStart, PostStart, PostLoad,
                    VerifyTls, LoadBinary, EntryPoint, LeavesMain, console, ending,
                    C!PostStart, C!PostLoad
      <4> QED
        BY <4>1, <4>2 DEF GoneInv
    <3> QED
      BY <3>1, <3>2
  <2>2. CASE GameFrame \/ Prints
    <3>1. UNCHANGED <<runner, destroyer, vars>>
      BY <2>2 DEF GameFrame, Prints, C!Frame, C!LogTest, C!LogTake, C!LogMessage, C!LogDone,
                  C!LogUnchanged, C!PrintText
    <3> QED
      BY <3>1 DEF vars, ending, GoneInv, Gone, Nobody
  <2>3. CASE RunnerThread
    <3>1. UNCHANGED <<destroyer, vars>> /\ (Gone => FALSE)
      BY <2>3 DEF RunnerThread, Gone, C!Runner, C!RunnerTest, C!RunnerReads, C!RunnerHasRead,
                  C!RunnerPush, C!RunnerUnchanged
    <3> QED
      BY <3>1 DEF vars, ending, GoneInv, Nobody
  <2>4. ASSUME NEW t \in Threads, End(t) PROVE GoneInv'
    <3>1. CASE ConsolePreDestroy(t) \/ ConsoleDestroys(t)
      <4>1. ~Nobody /\ UNCHANGED vars
        BY <3>1 DEF ConsolePreDestroy, ConsoleDestroys, AtConsole, At, Nobody
      <4>2. destroyer # "done" /\ (destroyer' = "done" => Gone')
        BY <3>1 DEF ConsolePreDestroy, ConsoleDestroys, C!PreDestroy, C!Destroyer,
                    C!DestroyPrints, C!DestroyCloses, C!DestroyJoined, Gone
      <4> QED
        BY <4>1, <4>2 DEF GoneInv, vars, ending, Nobody
    <3>2. CASE ModulePreDestroy(t) \/ OtherEnding(t)
      <4>1. UNCHANGED <<runner, destroyer>>
        BY <3>2 DEF ModulePreDestroy, OtherEnding, console
      <4>2. destroyed'[ConsoleModule] # destroyed[ConsoleModule] => destroyer = "done"
        <5>1. CASE OtherEnding(t)
          <6>1. UNCHANGED destroyed
            BY <5>1 DEF OtherEnding, PreDestroyTest, PreDestroySet, Exit, DeleteModules,
                        ProcessEnds, ExitHook, EntryReturns
          <6> QED
            BY <6>1
        <5>2. CASE ModulePreDestroy(t) /\ ~AtConsole(t)
          <6>1. UNCHANGED destroyed \/ /\ exiting[t].next # ConsoleModule
                                       /\ destroyed' = [destroyed EXCEPT ![exiting[t].next] = @ + 1]
            BY <5>2 DEF ModulePreDestroy, DestroyModule, AtConsole
          <6> QED
            BY <6>1 DEF IInv, Types
        <5>3. CASE ModulePreDestroy(t) /\ AtConsole(t)
          BY <5>3 DEF ModulePreDestroy
        <5> QED
          BY <3>2, <5>1, <5>2, <5>3
      <4> QED
        BY <1>2, <4>1, <4>2 DEF GoneInv, Gone
    <3> QED
      BY <2>4, <3>1, <3>2 DEF End
  <2> QED
    BY <1>3, <2>1, <2>2, <2>3, <2>4 DEF ShutdownNext
<1>4. CASE UNCHANGED all
  BY <1>4 DEF all, vars, ending, console, GoneInv, Gone, Nobody
<1> QED
  BY <1>3, <1>4

\* The console's thread is gone when the console is deleted.
THEOREM ThreadGone == ShutdownSpec => []ThreadGoneBeforeDeleted
<1>1. ShutdownInit => IInv /\ GoneInv
  <2> SUFFICES ASSUME ShutdownInit PROVE IInv /\ GoneInv
    OBVIOUS
  <2>1. IInv
    BY InitInv DEF ShutdownInit
  <2>2. GoneInv
    BY ConsoleAssumption DEF ShutdownInit, Init, C!Init, GoneInv
  <2> QED
    BY <2>1, <2>2
<1>2. IInv /\ [ShutdownNext]_all => IInv'
  BY StepOfLoader, LoaderInv
<1>3. IInv /\ GoneInv /\ DestroyedBeforeDeleted => ThreadGoneBeforeDeleted
  BY ConsoleAssumption DEF DestroyedBeforeDeleted, ThreadGoneBeforeDeleted, GoneInv, Gone
<1> QED
  BY <1>1, <1>2, <1>3, GoneStep, ConsoleToldThenDeleted, PTL DEF ShutdownSpec
-----------------------------------------------------------------------------
(* Induction, and what it says of FlattenSeq.                              *)

\* What the thread reads at once is a chunk of texts.
Chunks == Seq(Seq(Nat))

\* Induction over the natural numbers: of those for which something fails, one
\* is the least.
LEMMA LeastOf ==
  ASSUME NEW S \in SUBSET Nat, S # {}
  PROVE  \E m \in S : \A k \in Nat : k < m => k \notin S
<1> DEFINE Less == OpToRel(<, Nat)
<1>1. \A k, m \in Nat : k < m => <<k, m>> \in Less
  BY DEF OpToRel
<1>2. IsWellFoundedOn(Less, Nat)
  BY NatLessThanWellFounded
<1> HIDE DEF Less
<1>3. PICK m \in S : \A k \in S : <<k, m>> \notin Less
  BY <1>2, WFMin
<1> QED
  BY <1>1, <1>3

LEMMA Induction ==
  ASSUME NEW S \in SUBSET Nat, 0 \in S, \A n \in S : n + 1 \in S
  PROVE  S = Nat
<1> SUFFICES ASSUME Nat \ S # {} PROVE FALSE
  OBVIOUS
<1>1. PICK m \in Nat \ S : \A k \in Nat : k < m => k \notin Nat \ S
  BY LeastOf
<1>2. m # 0
  BY <1>1
<1>3. m - 1 \in S
  BY <1>1, <1>2
<1> QED
  BY <1>1, <1>2, <1>3

-----------------------------------------------------------------------------
(* FlattenSeq.                                                             *)

\* f holds the first n steps of flattening q.
Flattens(f, q, n) ==
  f = [i \in 1..n |-> IF i = 1 THEN q[i] ELSE f[i - 1] \o q[i]]

LEMMA FlattensMore ==
  ASSUME NEW q \in Chunks, NEW n \in Nat, NEW f, Flattens(f, q, n)
  PROVE  \E g : Flattens(g, q, n + 1)
<1> DEFINE g == [i \in 1..(n + 1) |->
                   IF i <= n THEN f[i] ELSE IF i = 1 THEN q[i] ELSE f[i - 1] \o q[i]]
<1>1. ASSUME NEW i \in 1..(n + 1)
      PROVE  g[i] = IF i = 1 THEN q[i] ELSE g[i - 1] \o q[i]
  <2>1. \A j \in 1..n : f[j] = IF j = 1 THEN q[j] ELSE f[j - 1] \o q[j]
    BY DEF Flattens
  <2>2. i # 1 => i - 1 \in 1..n /\ g[i - 1] = f[i - 1]
    OBVIOUS
  <2> QED
    BY <2>1, <2>2
<1>2. g = [i \in 1..(n + 1) |-> g[i]]
  OBVIOUS
<1>3. Flattens(g, q, n + 1)
  <2> HIDE DEF g
  <2> QED
    BY <1>1, <1>2 DEF Flattens
<1> QED
  BY <1>3

LEMMA FlattensExists ==
  ASSUME NEW q \in Chunks, NEW n \in Nat
  PROVE  \E f : Flattens(f, q, n)
<1> DEFINE S == {m \in Nat : \E f : Flattens(f, q, m)}
<1>1. 0 \in S
  <2>1. Flattens(<<>>, q, 0)
    <3>1. [i \in 1..0 |-> IF i = 1 THEN q[i] ELSE (<<>>)[i - 1] \o q[i]] = <<>>
      OBVIOUS
    <3> QED
      BY <3>1 DEF Flattens
  <2> QED
    BY <2>1
<1>2. \A m \in S : m + 1 \in S
  BY FlattensMore
<1>3. S = Nat
  <2> HIDE DEF S
  <2>1. S \in SUBSET Nat
    BY DEF S
  <2> QED
    BY <1>1, <1>2, <2>1, Induction
<1> QED
  BY <1>3

\* The steps by which FlattenSeq comes to its value.
LEMMA FlattenIs ==
  ASSUME NEW q \in Chunks, q # <<>>
  PROVE  \E f : Flattens(f, q, Len(q)) /\ C!FlattenSeq(q) = f[Len(q)]
<1> DEFINE f == CHOOSE flatten : Flattens(flatten, q, Len(q))
<1>1. Len(q) # 0 /\ Len(q) \in Nat
  BY DEF Chunks
<1>2. Flattens(f, q, Len(q))
  BY <1>1, FlattensExists
<1>3. C!FlattenSeq(q) = f[Len(q)]
  BY <1>1 DEF C!FlattenSeq, Flattens
<1> QED
  BY <1>2, <1>3

LEMMA FlattensType ==
  ASSUME NEW q \in Chunks, NEW f, Flattens(f, q, Len(q))
  PROVE  \A i \in 1..Len(q) : f[i] \in Seq(Nat)
<1> DEFINE S == {n \in Nat : n \in 1..Len(q) => f[n] \in Seq(Nat)}
<1>0. Len(q) \in Nat /\ \A i \in 1..Len(q) : q[i] \in Seq(Nat)
  BY DEF Chunks
<1>1. ASSUME NEW n \in S PROVE n + 1 \in S
  <2>1. \A i \in 1..Len(q) : f[i] = IF i = 1 THEN q[i] ELSE f[i - 1] \o q[i]
    BY DEF Flattens
  <2>2. CASE n + 1 \in 1..Len(q) /\ n # 0
    <3>0. n \in Nat /\ n \in 1..Len(q) /\ f[n] \in Seq(Nat)
      BY <1>0, <2>2
    <3> HIDE DEF S
    <3>1. f[n] \in Seq(Nat) /\ f[n + 1] = f[n] \o q[n + 1]
      <4>1. f[n + 1] = IF n + 1 = 1 THEN q[n + 1] ELSE f[n + 1 - 1] \o q[n + 1]
        BY <2>1, <2>2, <3>0
      <4>2. n + 1 # 1 /\ n + 1 - 1 = n
        BY <2>2, <3>0
      <4> QED
        BY <3>0, <4>1, <4>2
    <3>2. f[n + 1] \in Seq(Nat)
      BY <1>0, <2>2, <3>1, ConcatProperties
    <3> QED
      BY <3>0, <3>2 DEF S
  <2> QED
    BY <1>0, <2>1, <2>2
<1>2. S \in SUBSET Nat /\ 0 \in S
  BY <1>0
<1> HIDE DEF S
<1>3. S = Nat
  BY <1>1, <1>2, Induction
<1> QED
  BY <1>0, <1>3 DEF S

LEMMA FlattensSame ==
  ASSUME NEW q \in Chunks, NEW p \in Chunks, NEW f, NEW g, NEW k \in Nat,
         k <= Len(q), k <= Len(p), \A i \in 1..k : q[i] = p[i],
         Flattens(f, q, Len(q)), Flattens(g, p, Len(p))
  PROVE  \A i \in 1..k : f[i] = g[i]
<1> DEFINE S == {n \in Nat : n \in 1..k => f[n] = g[n]}
<1>0. Len(q) \in Nat /\ Len(p) \in Nat
  BY DEF Chunks
<1>1. ASSUME NEW n \in S PROVE n + 1 \in S
  <2>1. /\ \A i \in 1..Len(q) : f[i] = IF i = 1 THEN q[i] ELSE f[i - 1] \o q[i]
        /\ \A i \in 1..Len(p) : g[i] = IF i = 1 THEN p[i] ELSE g[i - 1] \o p[i]
    BY DEF Flattens
  <2>2. CASE n + 1 \in 1..k /\ n # 0
    BY <1>0, <2>1, <2>2
  <2>3. CASE n = 0
    BY <1>0, <2>1, <2>3
  <2> QED
    BY <2>2, <2>3
<1>2. S \in SUBSET Nat /\ 0 \in S
  OBVIOUS
<1> HIDE DEF S
<1>3. S = Nat
  BY <1>1, <1>2, Induction
<1> QED
  BY <1>3 DEF S

LEMMA JoinedInAnyOrder == \A s, t, u \in Seq(Nat) : (s \o t) \o u = s \o (t \o u)
BY ConcatAssociative

LEMMA LengthOfNone == \A s : Len(s) # 0 => s # <<>>
OBVIOUS

\* Each step for q is its first chunk before the step for the others.
Behind(f, q, g, p) == \A i \in 1..Len(p) : f[i + 1] = q[1] \o g[i]

LEMMA FlattensTail ==
  ASSUME NEW q \in Chunks, q # <<>>, NEW p \in Chunks, p = Tail(q), NEW f, NEW g,
         Flattens(f, q, Len(q)), Flattens(g, p, Len(p))
  PROVE  Behind(f, q, g, p)
<1>p. /\ q[1] \in Seq(Nat) /\ Len(q) = Len(p) + 1
      /\ \A i \in 1..Len(p) : p[i] = q[i + 1]
  BY HeadTailProperties DEF Chunks
<1>c. PICK c \in Seq(Nat) : c = q[1]
  BY <1>p
<1> DEFINE S == {n \in Nat : n \in 1..Len(p) => f[n + 1] = c \o g[n]}
<1>0. Len(p) \in Nat /\ Len(q) \in Nat /\ \A i \in 1..Len(p) : p[i] \in Seq(Nat)
  BY DEF Chunks
<1>f. \A i \in 1..Len(q) : f[i] = IF i = 1 THEN q[i] ELSE f[i - 1] \o q[i]
  BY DEF Flattens
<1>g. \A i \in 1..Len(p) : g[i] = IF i = 1 THEN p[i] ELSE g[i - 1] \o p[i]
  BY DEF Flattens
<1>t. \A i \in 1..Len(p) : g[i] \in Seq(Nat)
  BY FlattensType
<1>1. ASSUME NEW n \in S PROVE n + 1 \in S
  <2>1. n \in Nat /\ (n \in 1..Len(p) => f[n + 1] = c \o g[n])
    OBVIOUS
  <2>2. n + 1 \in 1..Len(p) => f[n + 1 + 1] = c \o g[n + 1]
    <3> HIDE DEF S
    <3>1. CASE n + 1 \in 1..Len(p) /\ n # 0
      <4>1. n \in 1..Len(p) /\ n + 1 + 1 \in 1..Len(q) /\ n + 1 + 1 # 1 /\ n + 1 + 1 - 1 = n + 1
            /\ n + 1 # 1 /\ n + 1 - 1 = n
        BY <1>0, <1>p, <2>1, <3>1
      <4>2. f[n + 1] = c \o g[n]
        BY <2>1, <4>1
      <4>6. f[n + 1 + 1] = f[n + 1] \o q[n + 1 + 1] /\ q[n + 1 + 1] = p[n + 1]
        <5>1. PICK i \in 1..Len(q) : i = n + 1 + 1
          BY <4>1
        <5>2. i # 1 /\ n + 1 = i - 1
          BY <2>1, <4>1, <5>1
        <5>3. f[i] = IF i = 1 THEN q[i] ELSE f[i - 1] \o q[i]
          BY <1>f
        <5>4. q[n + 1 + 1] = p[n + 1]
          BY <1>p, <3>1
        <5> QED
          BY <5>1, <5>2, <5>3, <5>4
      <4>3. g[n + 1] = g[n] \o p[n + 1]
        <5>1. g[n + 1] = IF n + 1 = 1 THEN p[n + 1] ELSE g[n + 1 - 1] \o p[n + 1]
          BY <1>g, <2>1, <3>1
        <5> QED
          BY <2>1, <4>1, <5>1
      <4>4. g[n] \in Seq(Nat) /\ p[n + 1] \in Seq(Nat)
        BY <1>0, <1>t, <3>1, <4>1
      <4>5. (c \o g[n]) \o p[n + 1] = c \o (g[n] \o p[n + 1])
        BY <4>4, JoinedInAnyOrder
      <4> QED
        BY <4>2, <4>3, <4>5, <4>6
    <3>2. CASE n = 0 /\ Len(p) >= 1
      <4>1. 1 \in 1..Len(p) /\ 2 \in 1..Len(q) /\ 1 \in 1..Len(q)
        BY <1>0, <1>p, <3>2
      <4>2. f[1] = c /\ g[1] = p[1]
        BY <1>c, <1>f, <1>g, <4>1
      <4>3. f[2] = f[1] \o q[2]
        <5>1. f[2] = IF 2 = 1 THEN q[2] ELSE f[2 - 1] \o q[2]
          BY <1>f, <4>1
        <5>2. 2 # 1 /\ 2 - 1 = 1
          OBVIOUS
        <5> QED
          BY <5>1, <5>2
      <4>4. q[2] = p[1]
        BY <1>p, <4>1
      <4>5. n + 1 + 1 = 2 /\ n + 1 = 1
        BY <3>2
      <4> QED
        BY <4>2, <4>3, <4>4, <4>5
    <3> QED
      BY <1>0, <2>1, <3>1, <3>2
  <2> QED
    BY <2>1, <2>2
<1>2. S \in SUBSET Nat /\ 0 \in S
  BY <1>0
<1> HIDE DEF S
<1>3. S = Nat
  BY <1>1, <1>2, Induction
<1>4. ASSUME NEW i \in 1..Len(p) PROVE f[i + 1] = q[1] \o g[i]
  <2>1. i \in S
    BY <1>0, <1>3
  <2> QED
    BY <1>c, <2>1 DEF S
<1> QED
  BY <1>4 DEF Behind

LEMMA FlattenType ==
  ASSUME NEW q \in Chunks
  PROVE  C!FlattenSeq(q) \in Seq(Nat)
<1>1. CASE q = <<>>
  BY <1>1 DEF C!FlattenSeq
<1>2. CASE q # <<>>
  <2>1. PICK f : Flattens(f, q, Len(q)) /\ C!FlattenSeq(q) = f[Len(q)]
    BY <1>2, FlattenIs
  <2>2. Len(q) \in 1..Len(q)
    BY <1>2 DEF Chunks
  <2> QED
    BY <2>1, <2>2, FlattensType
<1> QED
  BY <1>1, <1>2

LEMMA FlattenEmpty == C!FlattenSeq(<<>>) = <<>>
BY DEF C!FlattenSeq

LEMMA FlattenAppend ==
  ASSUME NEW q \in Chunks, NEW c \in Seq(Nat)
  PROVE  C!FlattenSeq(Append(q, c)) = C!FlattenSeq(q) \o c
<1> DEFINE p == Append(q, c)
<1>1. /\ p \in Chunks /\ p # <<>> /\ Len(q) \in Nat /\ Len(p) = Len(q) + 1
      /\ p[Len(q) + 1] = c /\ \A i \in 1..Len(q) : p[i] = q[i]
  BY AppendProperties DEF Chunks
<1> HIDE DEF p
<1>2. PICK g : Flattens(g, p, Len(p)) /\ C!FlattenSeq(p) = g[Len(p)]
  BY <1>1, FlattenIs
<1>3. g[Len(p)] = IF Len(p) = 1 THEN p[Len(p)] ELSE g[Len(p) - 1] \o p[Len(p)]
  <2>1. Len(p) \in 1..Len(p)
    BY <1>1
  <2>2. \A i \in 1..Len(p) : g[i] = IF i = 1 THEN p[i] ELSE g[i - 1] \o p[i]
    BY <1>2 DEF Flattens
  <2> QED
    BY <2>1, <2>2
<1>4. CASE q = <<>>
  <2>1. C!FlattenSeq(p) = c
    BY <1>1, <1>2, <1>3, <1>4
  <2> QED
    BY <1>4, <2>1, FlattenEmpty, ConcatEmptySeq DEF p
<1>5. CASE q # <<>>
  <2>1. Len(q) \in 1..Len(q)
    BY <1>5 DEF Chunks
  <2>2. PICK f : Flattens(f, q, Len(q)) /\ C!FlattenSeq(q) = f[Len(q)]
    BY <1>5, FlattenIs
  <2>3. \A i \in 1..Len(q) : f[i] = g[i]
    BY <1>1, <1>2, <2>2, FlattensSame
  <2>4. g[Len(p)] = g[Len(q)] \o c
    <3>1. Len(p) # 1 /\ Len(p) - 1 = Len(q) /\ p[Len(p)] = c
      BY <1>1, <2>1
    <3> QED
      BY <1>3, <3>1
  <2> QED
    BY <1>2, <2>1, <2>2, <2>3, <2>4 DEF p
<1> QED
  BY <1>4, <1>5

LEMMA FlattenHead ==
  ASSUME NEW q \in Chunks, q # <<>>
  PROVE  C!FlattenSeq(q) = Head(q) \o C!FlattenSeq(Tail(q))
<1>1. /\ Len(q) \in 1..Len(q) /\ Tail(q) \in Chunks /\ Len(Tail(q)) = Len(q) - 1
      /\ Head(q) = q[1] /\ q[1] \in Seq(Nat)
  BY HeadTailProperties DEF Chunks
<1>2. PICK f : Flattens(f, q, Len(q)) /\ C!FlattenSeq(q) = f[Len(q)]
  BY FlattenIs
<1>3. CASE Len(q) = 1
  <2>1. C!FlattenSeq(q) = q[1]
    BY <1>2, <1>3 DEF Flattens
  <2>2. Tail(q) = <<>>
    <3>1. Len(Tail(q)) = 0
      BY <1>1, <1>3
    <3> QED
      BY <1>1, <3>1, EmptySeq DEF Chunks
  <2> QED
    BY <1>1, <2>1, <2>2, FlattenEmpty, ConcatEmptySeq
<1>4. CASE Len(q) # 1
  <2>1. Len(Tail(q)) \in 1..Len(Tail(q)) /\ Len(Tail(q)) + 1 = Len(q)
    BY <1>1, <1>4
  <2>2. Tail(q) # <<>>
    <3>1. Len(Tail(q)) # 0
      BY <1>1, <2>1
    <3> QED
      BY <3>1, LengthOfNone
  <2>3. PICK g : Flattens(g, Tail(q), Len(Tail(q))) /\ C!FlattenSeq(Tail(q)) = g[Len(Tail(q))]
    BY <1>1, <2>2, FlattenIs
  <2>4. \A i \in 1..Len(Tail(q)) : Tail(q)[i] = q[i + 1]
    BY HeadTailProperties DEF Chunks
  <2>5. \A i \in 1..Len(Tail(q)) : f[i + 1] = q[1] \o g[i]
    <3>p. PICK p \in Chunks : p = Tail(q)
      BY <1>1
    <3>0. Flattens(f, q, Len(q)) /\ Flattens(g, p, Len(p))
      BY <1>2, <2>3, <3>p
    <3>1. Behind(f, q, g, p)
      BY <3>0, <3>p, FlattensTail
    <3> QED
      BY <3>1, <3>p DEF Behind
  <2>6. f[Len(q)] = q[1] \o g[Len(Tail(q))]
    BY <2>1, <2>5
  <2> QED
    BY <1>1, <1>2, <2>3, <2>6
<1> QED
  BY <1>3, <1>4

-----------------------------------------------------------------------------
(* The texts.                                                              *)

LEMMA NoneJoined == \A s \in Seq(Nat) : s \o <<>> = s /\ <<>> \o s = s
OBVIOUS

LEMMA Joined == \A s, t \in Seq(Nat) : s \o t \in Seq(Nat)
OBVIOUS

LEMMA AppendJoined ==
  \A s, t \in Seq(Nat), e \in Nat : Append(s \o t, e) = s \o Append(t, e)
<1> SUFFICES ASSUME NEW s \in Seq(Nat), NEW t \in Seq(Nat), NEW e \in Nat
             PROVE  Append(s \o t, e) = s \o Append(t, e)
  OBVIOUS
<1>1. /\ s \o t \in Seq(Nat) /\ <<e>> \in Seq(Nat)
      /\ Append(s \o t, e) = (s \o t) \o <<e>> /\ Append(t, e) = t \o <<e>>
  BY AppendIsConcat
<1> QED
  BY <1>1, JoinedInAnyOrder

\* Where a text can be on its way, and what belongs to a place.
OnItsWay ==
  /\ runner \in [at : {"none", "test", "before", "read", "push", "ended", "dead"},
                 chunk : Seq(Nat)]
  /\ runner.at # "push" => runner.chunk = <<>>
  /\ frame \in [at : {"idle", "take", "log"}, copy : Chunks]
  /\ frame.at # "log" => frame.copy = <<>>
  /\ pipe \in Seq(Nat) /\ message_queue_ \in Chunks
  /\ logged \in Seq(Nat) /\ printed \in Seq(Nat)

\* The thread is started once: before, there is none.
StartedOnce ==
  /\ main_ \in [at : {"verify_tls", "post_start", "load_binary", "post_load", "enter",
                     "running", "returning"}, next : Nat]
  /\ main_.at = "verify_tls" \/ (main_.at = "post_start" /\ main_.next <= ConsoleModule) =>
       runner.at = "none"

LostInv == OnItsWay /\ StartedOnce /\ NothingLost

LEMMA LostStart == ShutdownInit => LostInv
<1> SUFFICES ASSUME ShutdownInit PROVE LostInv
  OBVIOUS
<1>1. <<>> \in Seq(Nat) /\ <<>> \in Chunks /\ C!FlattenSeq(<<>>) = <<>>
  BY FlattenEmpty DEF Chunks
<1>2. OnItsWay
  BY <1>1 DEF ShutdownInit, C!Init, OnItsWay
<1>3. StartedOnce
  BY DEF ShutdownInit, Init, C!Init, StartedOnce
<1>4. NothingLost
  BY <1>1, NoneJoined DEF ShutdownInit, C!Init, NothingLost, C!NothingLost
<1> QED
  BY <1>2, <1>3, <1>4 DEF LostInv

LEMMA PrintedIsOnItsWay ==
  ASSUME OnItsWay, NothingLost, NEW text \in Nat, C!Written(text),
         UNCHANGED <<runner, message_queue_, frame, logged>>
  PROVE  OnItsWay' /\ NothingLost'
<1>1. \/ UNCHANGED <<pipe, printed>>
      \/ pipe' = Append(pipe, text) /\ printed' = Append(printed, text)
  BY DEF C!Written
<1>2. OnItsWay'
  <2>1. pipe' \in Seq(Nat) /\ printed' \in Seq(Nat)
    <3>1. pipe \in Seq(Nat) /\ printed \in Seq(Nat)
      BY DEF OnItsWay
    <3>2. Append(pipe, text) \in Seq(Nat) /\ Append(printed, text) \in Seq(Nat)
      BY <3>1, AppendProperties
    <3> QED
      BY <1>1, <3>1, <3>2
  <2> QED
    BY <2>1 DEF OnItsWay
<1>3. CASE UNCHANGED <<pipe, printed>>
  BY <1>2, <1>3 DEF NothingLost, C!NothingLost
<1>4. CASE pipe' = Append(pipe, text) /\ printed' = Append(printed, text)
  <2> DEFINE before == logged \o C!FlattenSeq(frame.copy) \o C!FlattenSeq(message_queue_)
                         \o runner.chunk
  <2>1. before \in Seq(Nat)
    BY FlattenType, Joined DEF OnItsWay
  <2>2. printed = before \o pipe /\ pipe \in Seq(Nat)
    BY DEF NothingLost, C!NothingLost, OnItsWay
  <2>3. before' = before
    OBVIOUS
  <2>4. printed' = before \o Append(pipe, text)
    <3> HIDE DEF before
    <3> QED
      BY <1>4, <2>1, <2>2, AppendJoined
  <2> QED
    BY <1>2, <1>4, <2>3, <2>4 DEF NothingLost, C!NothingLost
<1> QED
  BY <1>1, <1>3, <1>4

LEMMA RunnerLosesNothing ==
  ASSUME OnItsWay, NothingLost, C!Runner
  PROVE  OnItsWay' /\ NothingLost'
<1> DEFINE a == logged
           b == C!FlattenSeq(frame.copy)
           c == C!FlattenSeq(message_queue_)
<1>1. /\ a \in Seq(Nat) /\ b \in Seq(Nat) /\ c \in Seq(Nat) /\ pipe \in Seq(Nat)
      /\ runner.chunk \in Seq(Nat) /\ message_queue_ \in Chunks
      /\ printed = a \o b \o c \o runner.chunk \o pipe
  BY FlattenType DEF OnItsWay, NothingLost, C!NothingLost
<1>2. UNCHANGED <<frame, printed, logged>> /\ a' = a /\ b' = b
  BY DEF C!Runner, C!RunnerTest, C!RunnerReads, C!RunnerHasRead, C!RunnerPush,
         C!RunnerUnchanged, C!history
<1>3. CASE C!RunnerTest \/ C!RunnerReads
  <2>1. /\ UNCHANGED <<pipe, message_queue_>> /\ runner.at # "push"
        /\ \E at \in {"ended", "before", "read", "test", "dead"} :
             runner' = [runner EXCEPT !.at = at]
    BY <1>3 DEF C!RunnerTest, C!RunnerReads
  <2> QED
    BY <1>2, <2>1 DEF OnItsWay, NothingLost, C!NothingLost
<1>4. CASE C!RunnerHasRead
  <2>1. /\ runner.at = "read" /\ runner' = [at |-> "push", chunk |-> pipe] /\ pipe' = <<>>
        /\ UNCHANGED message_queue_
    BY <1>4 DEF C!RunnerHasRead
  <2>2. OnItsWay'
    BY <1>2, <2>1 DEF OnItsWay
  <2>3. runner.chunk = <<>> /\ runner'.chunk = pipe
    BY <2>1 DEF OnItsWay
  <2>4. printed = a \o b \o c \o pipe \o <<>>
    <3> HIDE DEF a, b, c
    <3>1. (a \o b \o c) \o <<>> = a \o b \o c
          /\ (a \o b \o c \o pipe) \o <<>> = a \o b \o c \o pipe
      BY <1>1, NoneJoined, Joined
    <3> QED
      BY <1>1, <2>3, <3>1
  <2> QED
    BY <1>2, <2>1, <2>2, <2>3, <2>4 DEF NothingLost, C!NothingLost
<1>5. CASE C!RunnerPush
  <2>1. /\ message_queue_' = Append(message_queue_, runner.chunk)
        /\ runner' = [at |-> "test", chunk |-> <<>>] /\ UNCHANGED pipe
    BY <1>5 DEF C!RunnerPush
  <2>2. message_queue_' \in Chunks
    BY <1>1, <2>1, AppendProperties DEF Chunks
  <2>3. OnItsWay'
    BY <1>2, <2>1, <2>2 DEF OnItsWay
  <2>4. C!FlattenSeq(message_queue_') = c \o runner.chunk
    BY <1>1, <2>1, FlattenAppend
  <2>5. printed = a \o b \o (c \o runner.chunk) \o <<>> \o pipe
    <3> HIDE DEF a, b, c
    <3>0. a \o b \in Seq(Nat)
      BY <1>1, Joined
    <3>1. a \o b \o (c \o runner.chunk) = a \o b \o c \o runner.chunk
      BY <1>1, <3>0, JoinedInAnyOrder
    <3>2. (a \o b \o c \o runner.chunk) \o <<>> = a \o b \o c \o runner.chunk
      BY <1>1, NoneJoined, Joined
    <3> QED
      BY <1>1, <3>1, <3>2
  <2>6. runner'.chunk = <<>>
    BY <2>1
  <2> QED
    BY <1>2, <2>1, <2>3, <2>4, <2>5, <2>6 DEF NothingLost, C!NothingLost
<1> QED
  BY <1>3, <1>4, <1>5 DEF C!Runner

LEMMA FrameLosesNothing ==
  ASSUME OnItsWay, NothingLost, C!Frame
  PROVE  OnItsWay' /\ NothingLost'
<1> DEFINE b == C!FlattenSeq(frame.copy)
           c == C!FlattenSeq(message_queue_)
<1>1. /\ logged \in Seq(Nat) /\ b \in Seq(Nat) /\ c \in Seq(Nat)
      /\ runner.chunk \in Seq(Nat) /\ pipe \in Seq(Nat) /\ frame.copy \in Chunks
      /\ printed = logged \o b \o c \o runner.chunk \o pipe
  BY FlattenType DEF OnItsWay, NothingLost, C!NothingLost
<1>2. UNCHANGED <<pipe, runner, printed>>
  BY DEF C!Frame, C!LogTest, C!LogTake, C!LogMessage, C!LogDone, C!LogUnchanged
<1>3. CASE C!LogTest \/ C!LogDone
  <2>1. UNCHANGED <<message_queue_, logged>> /\ frame.copy = <<>>
    BY <1>3 DEF C!LogTest, C!LogDone, OnItsWay
  <2>2. frame' = [frame EXCEPT !.at = "take"] \/ frame' = [frame EXCEPT !.at = "idle"]
    BY <1>3 DEF C!LogTest, C!LogDone
  <2>3. frame'.copy = frame.copy /\ OnItsWay'
    BY <1>2, <2>1, <2>2 DEF OnItsWay
  <2> QED
    BY <1>2, <2>1, <2>3 DEF NothingLost, C!NothingLost
<1>4. CASE C!LogTake
  <2>1. /\ frame.at = "take" /\ frame' = [at |-> "log", copy |-> message_queue_]
        /\ message_queue_' = <<>> /\ UNCHANGED logged
    BY <1>4 DEF C!LogTake
  <2>2. <<>> \in Chunks
    BY DEF Chunks
  <2>3. frame.copy = <<>> /\ frame'.copy = message_queue_ /\ OnItsWay'
    BY <1>2, <2>1, <2>2 DEF OnItsWay
  <2>4. b = <<>>
    BY <2>3, FlattenEmpty
  <2>5. printed = logged \o c \o <<>> \o runner.chunk \o pipe
    <3> HIDE DEF b, c
    <3>1. logged \o <<>> = logged /\ (logged \o c) \o <<>> = logged \o c
      BY <1>1, NoneJoined, Joined
    <3> QED
      BY <1>1, <2>4, <3>1
  <2>6. C!FlattenSeq(message_queue_') = <<>> /\ C!FlattenSeq(frame'.copy) = c
    BY <2>1, <2>3, FlattenEmpty
  <2> QED
    BY <1>2, <2>1, <2>3, <2>5, <2>6 DEF NothingLost, C!NothingLost
<1>5. CASE C!LogMessage
  <2>1. /\ frame.at = "log" /\ frame.copy # <<>> /\ logged' = logged \o Head(frame.copy)
        /\ frame' = [frame EXCEPT !.copy = Tail(@)] /\ UNCHANGED message_queue_
    BY <1>5 DEF C!LogMessage
  <2>2. Head(frame.copy) \in Seq(Nat) /\ Tail(frame.copy) \in Chunks
    BY <1>1, <2>1, HeadTailProperties DEF Chunks
  <2>3. logged' \in Seq(Nat)
    BY <1>1, <2>1, <2>2, Joined
  <2>4. frame'.copy = Tail(frame.copy) /\ OnItsWay'
    BY <1>2, <2>1, <2>2, <2>3 DEF OnItsWay
  <2>5. PICK h \in Seq(Nat), r \in Seq(Nat) :
          h = Head(frame.copy) /\ r = C!FlattenSeq(Tail(frame.copy)) /\ b = h \o r
    BY <1>1, <2>1, <2>2, FlattenHead, FlattenType
  <2>6. printed = (logged \o h) \o r \o c \o runner.chunk \o pipe
    <3> HIDE DEF b, c
    <3>1. (logged \o h) \o r = logged \o (h \o r)
      <4>1. logged \in Seq(Nat) /\ h \in Seq(Nat) /\ r \in Seq(Nat)
        BY <1>1, <2>5
      <4> QED
        BY ONLY <4>1, JoinedInAnyOrder
    <3> QED
      BY <1>1, <2>5, <3>1
  <2> QED
    BY <1>2, <2>1, <2>4, <2>5, <2>6 DEF NothingLost, C!NothingLost
<1> QED
  BY <1>3, <1>4, <1>5 DEF C!Frame
\* The start of the modules, the console's among them, and what follows it.
LEMMA StartLosesNothing ==
  ASSUME OnItsWay, StartedOnce, NothingLost, Start
  PROVE  OnItsWay' /\ StartedOnce' /\ NothingLost'
<1> USE ConsoleAssumption, ModulesAssumption
<1>1. CASE ModulePostStart /\ IsConsole
  <2>1. /\ main_.at = "post_start" /\ main_.next = ConsoleModule
        /\ main_' = IF main_.next = Modules THEN [at |-> "load_binary", next |-> 1]
                    ELSE [main_ EXCEPT !.next = @ + 1]
        /\ runner' = [runner EXCEPT !.at = "test"]
        /\ UNCHANGED <<pipe, message_queue_, frame, printed, logged>>
    BY <1>1 DEF ModulePostStart, IsConsole, PostStart, Goto, C!PostStart, C!history
  <2>2. runner.at = "none"
    BY <2>1 DEF StartedOnce
  <2>3. OnItsWay' /\ runner'.chunk = runner.chunk
    BY <2>1, <2>2 DEF OnItsWay
  <2>4. StartedOnce'
    BY <2>1 DEF StartedOnce
  <2> QED
    BY <2>1, <2>3, <2>4 DEF NothingLost, C!NothingLost
<1>2. CASE (ModulePostStart /\ ~IsConsole) \/ ModulePostLoad \/ OtherStart
  <2>1. UNCHANGED <<pipe, message_queue_, frame, printed, logged, runner>>
    BY <1>2 DEF ModulePostStart, ModulePostLoad, OtherStart, C!PostLoad, C!history, console
  <2>2. \/ main_.at = "verify_tls" /\ main_' = [at |-> "post_start", next |-> 1]
        \/ /\ main_.at = "post_start" /\ main_.next # ConsoleModule
           /\ main_' = [main_ EXCEPT !.next = @ + 1]
        \/ main_.at = "post_load" /\ main_' = [main_ EXCEPT !.next = @ + 1]
        \/ \E at \in {"load_binary", "post_load", "enter", "running", "returning"} :
             main_' = [at |-> at, next |-> 1]
    BY <1>2 DEF ModulePostStart, ModulePostLoad, OtherStart, IsConsole, PostStart, PostLoad,
                VerifyTls, LoadBinary, EntryPoint, LeavesMain, Goto
  <2>3. StartedOnce'
    BY <2>1, <2>2 DEF StartedOnce
  <2>4. OnItsWay' /\ NothingLost'
    BY <2>1 DEF OnItsWay, NothingLost, C!NothingLost
  <2> QED
    BY <2>3, <2>4
<1> QED
  BY <1>1, <1>2 DEF Start

LEMMA EndLosesNothing ==
  ASSUME OnItsWay, StartedOnce, NothingLost, NEW t \in Threads, End(t)
  PROVE  OnItsWay' /\ StartedOnce' /\ NothingLost'
<1>1. UNCHANGED main_
  BY DEF End, ConsolePreDestroy, ConsoleDestroys, ModulePreDestroy, OtherEnding, DestroyModule,
         PreDestroyTest, PreDestroySet, Exit, DeleteModules, ProcessEnds, ExitHook,
         EntryReturns, vars, life
<1>2. CASE ConsoleDestroys(t) /\ C!DestroyPrints
  <2>1. /\ C!Written(0) /\ 0 \in Nat
        /\ UNCHANGED <<runner, message_queue_, frame, logged>>
    BY <1>2 DEF C!DestroyPrints, C!LineEnd
  <2>2. OnItsWay' /\ NothingLost'
    BY <2>1, PrintedIsOnItsWay
  <2> QED
    BY <1>1, <2>1, <2>2 DEF StartedOnce
<1>3. CASE ~(ConsoleDestroys(t) /\ C!DestroyPrints)
  <2>1. UNCHANGED <<pipe, message_queue_, frame, printed, logged, runner>>
    BY <1>3 DEF End, ConsolePreDestroy, ConsoleDestroys, ModulePreDestroy, OtherEnding, console,
                C!PreDestroy, C!Destroyer, C!DestroyCloses, C!DestroyJoined, C!history
  <2> QED
    BY <1>1, <2>1 DEF OnItsWay, StartedOnce, NothingLost, C!NothingLost
<1> QED
  BY <1>2, <1>3

LEMMA LostStep == LostInv /\ [ShutdownNext]_all => LostInv'
<1> SUFFICES ASSUME LostInv, [ShutdownNext]_all PROVE OnItsWay' /\ StartedOnce' /\ NothingLost'
  BY DEF LostInv
<1>0. OnItsWay /\ StartedOnce /\ NothingLost
  BY DEF LostInv
<1>1. CASE Start
  BY <1>0, <1>1, StartLosesNothing
<1>2. CASE GameFrame
  <2>1. C!Frame /\ UNCHANGED <<main_, runner>>
    BY <1>2 DEF GameFrame, vars, life, C!Frame, C!LogTest, C!LogTake, C!LogMessage, C!LogDone,
                C!LogUnchanged
  <2>2. OnItsWay' /\ NothingLost'
    BY <1>0, <2>1, FrameLosesNothing
  <2> QED
    BY <1>0, <2>1, <2>2 DEF StartedOnce
<1>3. CASE RunnerThread
  <2>1. C!Runner /\ UNCHANGED main_ /\ runner.at # "none"
    BY <1>3 DEF RunnerThread, vars, life, C!Runner, C!RunnerTest, C!RunnerReads,
                C!RunnerHasRead, C!RunnerPush
  <2>2. OnItsWay' /\ NothingLost'
    BY <1>0, <2>1, RunnerLosesNothing
  <2> QED
    BY <1>0, <2>1, <2>2 DEF StartedOnce
<1>4. CASE Prints
  <2>1. /\ C!Written(Len(printed) + 1) /\ UNCHANGED main_
        /\ UNCHANGED <<runner, message_queue_, frame, logged>>
    BY <1>4 DEF Prints, vars, life, C!PrintText
  <2>2. Len(printed) + 1 \in Nat
    BY <1>0 DEF OnItsWay
  <2>3. OnItsWay' /\ NothingLost'
    BY <1>0, <2>1, <2>2, PrintedIsOnItsWay
  <2> QED
    BY <1>0, <2>1, <2>3 DEF StartedOnce
<1>5. CASE \E t \in Threads : End(t)
  BY <1>0, <1>5, EndLosesNothing
<1>6. CASE UNCHANGED all
  <2>1. UNCHANGED <<pipe, message_queue_, frame, printed, logged, runner, main_>>
    BY <1>6 DEF all, vars, life, console
  <2> QED
    BY <1>0, <2>1 DEF OnItsWay, StartedOnce, NothingLost, C!NothingLost
<1> QED
  BY <1>1, <1>2, <1>3, <1>4, <1>5, <1>6 DEF ShutdownNext

\* However many modules there are, wherever among them the console is, whatever
\* the size of the pipe, and whenever and by whomever the program is ended: the
\* texts that were printed are those that have been logged, and behind them those
\* that frames, the queue, the thread and the pipe still hold, in their order.
THEOREM Nothing_Lost == ShutdownSpec => []NothingLost
<1>1. LostInv => NothingLost
  BY DEF LostInv
<1> QED
  BY <1>1, LostStart, LostStep, PTL DEF ShutdownSpec

-----------------------------------------------------------------------------
(* The menu. What the page has called selects mode_, and a window that is  *)
(* there is the one in the list; without one, the loop is told to end, or  *)
(* there never was one, and then no page and no choice.                    *)

Windows ==
  \/ handle_ /\ windows_ = 1
  \/ ~handle_ /\ quit /\ windows_ = 0
  \/ ~handle_ /\ windows_ = 1 /\ ~page /\ ~script /\ calls = <<>>

MenuInv ==
  /\ handle_ \in BOOLEAN /\ quit \in BOOLEAN /\ page \in BOOLEAN /\ script \in BOOLEAN
  /\ menu \in {"none", "create", "load", "run", "gone"}
  /\ calls \in Seq([name : Names, args : Seq(Variants)])
  /\ SelectLastInSeq(calls, Selecting) \in 0..Len(calls)
  /\ mode_ = LastSelected
  /\ DOMAIN ids = Names
  /\ \A n \in Names : ids[n] = NotAsked \/ (ids[n] = 1 <=> n = "selectMode")
  /\ menu \in {"create", "load", "run"} => callbacks_ = <<"openUrl", "selectMode">>
  /\ menu \in {"none", "create", "gone"} => ~script
  /\ menu \in {"none", "create"} => windows_ = 0 /\ ~handle_ /\ ~page /\ calls = <<>>
  /\ menu \in {"load", "run"} => Windows
  /\ menu # "none" => DetectMode = none
  /\ menu # "gone" =>
       \/ outcome = PENDING
       \/ menu = "none" /\ outcome = DetectMode /\ DetectMode # none
  /\ menu = "gone" => outcome \in {ERROR, mode_}

LEMMA GreatestOf ==
  ASSUME NEW S, NEW m \in Nat, m \in S, S \subseteq 1..m PROVE Max(S) = m
<1>1. \A y \in S : m >= y
  OBVIOUS
<1>2. \A x \in S : (\A y \in S : x >= y) => x = m
  OBVIOUS
<1> QED
  BY <1>1, <1>2 DEF Max

\* The last call of selectMode is the mode that a further call leaves.
LEMMA LastAppended ==
  ASSUME NEW s \in Seq([name : Names, args : Seq(Variants)]),
         NEW c \in [name : Names, args : Seq(Variants)]
  PROVE  SelectLastInSeq(Append(s, c), Selecting)
           = IF Selecting(c) THEN Len(s) + 1 ELSE SelectLastInSeq(s, Selecting)
<1> PICK n \in Nat : n = Len(s)
  OBVIOUS
<1> DEFINE I(t) == {j \in 1..Len(t) : Selecting(t[j])}
<1>1. Len(Append(s, c)) = n + 1 /\ Append(s, c)[n + 1] = c
      /\ \A j \in 1..n : Append(s, c)[j] = s[j]
  OBVIOUS
<1>2. I(Append(s, c)) = IF Selecting(c) THEN I(s) \cup {n + 1} ELSE I(s)
  <2>1. \A j : j \in I(Append(s, c)) <=> j \in 1..(n + 1) /\ Selecting(Append(s, c)[j])
    BY <1>1
  <2>2. \A j : j \in I(s) <=> j \in 1..n /\ Selecting(s[j])
    OBVIOUS
  <2> QED
    BY <1>1, <2>1, <2>2
<1>3. CASE Selecting(c)
  <2>1. n + 1 \in I(Append(s, c)) /\ \A j \in I(Append(s, c)) : j \in 1..(n + 1)
    BY <1>1, <1>3
  <2>2. I(Append(s, c)) \subseteq 1..(n + 1)
    BY <2>1
  <2>3. Max(I(Append(s, c))) = n + 1
    <3> HIDE DEF I
    <3> QED
      BY <2>1, <2>2, GreatestOf
  <2> QED
    BY <1>3, <2>1, <2>3 DEF SelectLastInSeq
<1>4. CASE ~Selecting(c)
  BY <1>2, <1>4 DEF SelectLastInSeq
<1> QED
  BY <1>3, <1>4

LEMMA NamesAsked ==
  ASSUME callbacks_ = <<"openUrl", "selectMode">>, NEW name \in Names
  PROVE  CallbackId(name) = 1 <=> name = "selectMode"
<1>1. Len(callbacks_) = 2 /\ callbacks_[1] = "openUrl" /\ callbacks_[2] = "selectMode"
  OBVIOUS
<1>2. Contains(callbacks_, name) <=> name \in {"openUrl", "selectMode"}
  BY <1>1 DEF Contains
<1> DEFINE I == {j \in 1..Len(callbacks_) : callbacks_[j] = name}
<1>3. CASE name = "openUrl"
  <2>1. I = {1}
    BY <1>1, <1>3
  <2>2. Min(I) = 1
    <3> HIDE DEF I
    <3> QED
      BY <2>1 DEF Min
  <2> QED
    BY <1>2, <1>3, <2>1, <2>2 DEF CallbackId, SelectInSeq
<1>4. CASE name = "selectMode"
  <2>1. I = {2}
    BY <1>1, <1>4
  <2>2. Min(I) = 2
    <3> HIDE DEF I
    <3> QED
      BY <2>1 DEF Min
  <2> QED
    BY <1>2, <1>4, <2>1, <2>2 DEF CallbackId, SelectInSeq
<1>5. CASE name = "other"
  BY <1>2, <1>5 DEF CallbackId, UNKNOWN
<1> QED
  BY <1>3, <1>4, <1>5 DEF Names

\* What the callback takes as the mode is what the call selects.
LEMMA ChoiceOf ==
  ASSUME NEW args \in Seq(Variants)
  PROVE  /\ Selecting([name |-> "selectMode", args |-> args])
              <=> Choice(Arguments(Reverse(args))) # {}
         /\ \A mode_1 \in Choice(Arguments(Reverse(args))) : mode_1 = args[1].value
<1>1. Arguments(Reverse(args)) = args
  <2>1. Len(Reverse(args)) = Len(args) /\ DOMAIN Reverse(args) = 1..Len(args)
        /\ \A j \in 1..Len(args) : Reverse(args)[j] = args[Len(args) - j + 1]
    BY DEF Reverse
  <2>2. \A j \in 1..Len(args) : Len(args) - j + 1 \in 1..Len(args)
        /\ Len(args) - (Len(args) - j + 1) + 1 = j
    OBVIOUS
  <2>3. Reverse(Reverse(args)) = [j \in 1..Len(args) |-> args[j]]
    BY <2>1, <2>2 DEF Reverse
  <2> QED
    BY <2>3 DEF Arguments
<1>2. args # <<>> => args[1] \in [vt : STRING, value : Int]
  BY VariantsAssumption
<1>3. \A mode_1 : args # <<>> => (args[1] = [vt |-> "I4", value |-> mode_1]
                           <=> args[1].vt = "I4" /\ args[1].value = mode_1)
  BY <1>2
<1> QED
  BY <1>1, <1>3 DEF Choice, Selecting

LEMMA Unselected ==
  calls = <<>> => SelectLastInSeq(calls, Selecting) = 0 /\ LastSelected = none
BY DEF LastSelected, SelectLastInSeq

LEMMA MenuStart == LauncherInit => MenuInv
<1> SUFFICES ASSUME LauncherInit PROVE MenuInv
  OBVIOUS
<1>1. mode_ = LastSelected /\ SelectLastInSeq(calls, Selecting) \in 0..Len(calls)
  BY Unselected DEF LauncherInit
<1>2. DOMAIN ids = Names /\ \A n \in Names : ids[n] = NotAsked
  BY DEF LauncherInit
<1>3. menu = "none" /\ outcome = PENDING /\ windows_ = 0 /\ calls = <<>>
      /\ handle_ = FALSE /\ quit = FALSE /\ page = FALSE /\ script = FALSE
  BY DEF LauncherInit
<1>4. calls \in Seq([name : Names, args : Seq(Variants)])
  BY <1>3
<1>5. /\ menu \in {"none", "create", "load", "run", "gone"}
      /\ {handle_, quit, page, script} \subseteq BOOLEAN
  BY <1>3
<1> QED
  BY <1>1, <1>2, <1>3, <1>4, <1>5 DEF MenuInv

LEMMA Closed ==
  ASSUME Close, windows_ \in Int, quit \in BOOLEAN
  PROVE  /\ page' = page /\ browser_object_' = browser_object_
         /\ handle_ /\ windows_ = 1 =>
              /\ ~handle_' /\ quit' /\ windows_' = 0
              /\ handle_' \in BOOLEAN /\ quit' \in BOOLEAN
         /\ ~handle_ => UNCHANGED <<handle_, windows_, quit>>
<1>1. CASE handle_ /\ windows_ = 1
  <2>1. handle_' = FALSE /\ windows_' = 0 /\ windows_ - 1 = 0
    BY <1>1 DEF Close, Destroyed
  <2>2. quit' = TRUE
    BY <1>1, <2>1, Zenon DEF Close, Destroyed
  <2> QED
    BY <1>1, <2>1, <2>2 DEF Close
<1> QED
  BY <1>1 DEF Close

LEMMA Called ==
  ASSUME MenuInv, NEW name \in Names, NEW args \in Seq(Variants), Invoke(name, args)
  PROVE  MenuInv'
<1> DEFINE c == [name |-> name, args |-> args]
<1> PICK n \in Nat : n = Len(calls)
  BY DEF MenuInv
<1>1. calls' = Append(calls, c) /\ c \in [name : Names, args : Seq(Variants)]
  BY DEF Invoke
<1>2. calls' \in Seq([name : Names, args : Seq(Variants)])
      /\ calls'[n + 1] = c /\ Len(calls') = n + 1
      /\ \A j \in 1..n : calls'[j] = calls[j]
  BY <1>1 DEF MenuInv
<1>3. SelectLastInSeq(calls', Selecting)
        = IF Selecting(c) THEN n + 1 ELSE SelectLastInSeq(calls, Selecting)
  BY <1>1, LastAppended DEF MenuInv
<1>4. SelectLastInSeq(calls, Selecting) \in 0..n
  BY DEF MenuInv
<1>5. ids[name] = 1 <=> name = "selectMode"
  BY DEF MenuInv, Invoke, NotAsked
<1>6. Selecting(c) => name = "selectMode"
  BY DEF Selecting
<1>7. mode_' = LastSelected' /\ SelectLastInSeq(calls, Selecting)' \in 0..Len(calls')
  <2>1. CASE Selecting(c)
    <3>1. mode_' = args[1].value
      BY <1>5, <1>6, <2>1, ChoiceOf DEF Invoke, SelectMode
    <3> QED
      BY <1>2, <1>3, <2>1, <3>1 DEF LastSelected
  <2>2. CASE ~Selecting(c)
    <3>1. mode_' = mode_
      BY <1>5, <2>2, ChoiceOf DEF Invoke
    <3> QED
      BY <1>2, <1>3, <1>4, <2>2, <3>1 DEF LastSelected, MenuInv
  <2> QED
    BY <2>1, <2>2
<1>8. menu \in {"load", "run"} /\ UNCHANGED <<menu, script, ids, callbacks_, outcome, flags>>
      /\ (handle_ => windows_ = 1) /\ (~handle_ => quit /\ windows_ = 0)
  BY DEF MenuInv, Invoke, Windows
<1>9. Windows' /\ handle_' \in BOOLEAN /\ quit' \in BOOLEAN /\ page' \in BOOLEAN
  BY <1>8, Closed DEF MenuInv, Invoke, Windows, SelectMode, window
<1>10. DetectMode' = DetectMode
  BY <1>8 DEF DetectMode
<1> QED
  BY <1>2, <1>7, <1>8, <1>9, <1>10 DEF MenuInv

LEMMA MenuStep == MenuInv /\ [LauncherNext]_launcherVars => MenuInv'
<1> SUFFICES ASSUME MenuInv, [LauncherNext]_launcherVars PROVE MenuInv'
  OBVIOUS
<1> USE DEF MenuInv, window, dispatch
<1>1. CASE UseFlags
  BY <1>1 DEF UseFlags, LastSelected, DetectMode, Windows
<1>2. CASE Construct
  BY <1>2 DEF Construct, LastSelected, DetectMode, Windows
<1>3. CASE ConstructThrows
  BY <1>3 DEF ConstructThrows, LastSelected, DetectMode, Windows
<1>4. CASE CreateThrows
  BY <1>4 DEF CreateThrows, LastSelected, DetectMode, Windows
<1>5. ASSUME NEW opened \in BOOLEAN, NEW browser \in BOOLEAN, CreateWindow(opened, browser)
      PROVE  MenuInv'
  BY <1>5 DEF CreateWindow, LastSelected, DetectMode, Windows
<1>6. CASE WritePage
  BY <1>6 DEF WritePage, LastSelected, DetectMode, Windows
<1>7. CASE Show
  BY <1>7 DEF Show, LastSelected, DetectMode, Windows
<1>8. CASE UserCloses
  <2>1. handle_ /\ windows_ = 1 /\ menu = "run"
    BY <1>8 DEF UserCloses, Windows
  <2>2. /\ ~handle_' /\ quit' /\ windows_' = 0 /\ page' = page
        /\ handle_' \in BOOLEAN /\ quit' \in BOOLEAN
    BY <1>8, <2>1, Closed DEF UserCloses
  <2>3. UNCHANGED <<flags, mode_, menu, script, callbacks_, ids, calls, outcome>>
    BY <1>8 DEF UserCloses
  <2>4. Windows'
    BY <2>2 DEF Windows
  <2> QED
    BY <2>1, <2>2, <2>3, <2>4 DEF LastSelected, DetectMode
<1>9. CASE RunReturns
  BY <1>9 DEF RunReturns, LastSelected, DetectMode, Windows
<1>10. CASE ScriptStarts
  BY <1>10 DEF ScriptStarts, LastSelected, DetectMode, Windows
<1>11. CASE ScriptReturns
  BY <1>11 DEF ScriptReturns, LastSelected, DetectMode, Windows
<1>12. ASSUME NEW name \in Names, GetIDsOfNames(name) PROVE MenuInv'
  <2>1. callbacks_ = <<"openUrl", "selectMode">>
    BY <1>12 DEF GetIDsOfNames
  <2>2. \A n \in Names : ids'[n] = IF n = name THEN CallbackId(name) ELSE ids[n]
    BY <1>12 DEF GetIDsOfNames
  <2>3. \A n \in Names : ids'[n] = NotAsked \/ (ids'[n] = 1 <=> n = "selectMode")
    BY <2>1, <2>2, NamesAsked
  <2> QED
    BY <1>12, <2>3 DEF GetIDsOfNames, LastSelected, DetectMode, Windows
<1>13. ASSUME NEW name \in Names, NEW args \in SeqOf(Variants, MaxArgs), Invoke(name, args)
       PROVE  MenuInv'
  <2>1. args \in Seq(Variants)
    BY VariantsAssumption DEF SeqOf
  <2> QED
    BY <1>13, <2>1, Called
<1>14. CASE UNCHANGED launcherVars
  BY <1>14 DEF launcherVars, LastSelected, DetectMode, Windows
<1> QED
  BY <1>1, <1>2, <1>3, <1>4, <1>5, <1>6, <1>7, <1>8, <1>9, <1>10, <1>11, <1>12, <1>13, <1>14
     DEF LauncherNext

LEMMA MenuSafe == MenuInv => MenuDecides
<1> SUFFICES ASSUME MenuInv PROVE OutcomeIsChoice /\ LoopCanEnd
  BY DEF MenuDecides
<1>1. OutcomeIsChoice
  BY DEF MenuInv, OutcomeIsChoice, DetectMode, none, singleplayer, multiplayer, server
<1>2. LoopCanEnd
  BY Unselected DEF MenuInv, Windows, LoopCanEnd, LastSelected
<1> QED
  BY <1>1, <1>2

\* Whatever the command line and whatever the page calls, before and after its
\* window is closed: the mode is that of the command line or the last choice,
\* and the message loop can end.
THEOREM Menu_Decides == PartsSpec => []MenuDecides
<1>1. PartsInit => MenuInv
  BY MenuStart DEF PartsInit
<1>2. MenuInv /\ [PartsNext]_<<part, launcherVars, loaderVars, patchesVars, searchVars, proxyVars>>
        => MenuInv'
  BY MenuStep DEF PartsNext
<1> QED
  BY <1>1, <1>2, MenuSafe, PTL DEF PartsSpec

-----------------------------------------------------------------------------
(* The Steam proxy, however many versions of the engine are tried and      *)
(* whether or not the user has subscribed.                                 *)

CONSTANTS AnyVersions, AnySubscribed
AnyProxy == INSTANCE SteamProxy WITH
  Versions <- AnyVersions, Subscribed <- AnySubscribed

Handles(p, u) == proxy["pipe"] = p /\ proxy["user"] = u

\* The members of the proxy and the state of the client are of their types, and
\* what the proxy does not know of in the client it has dropped.
ProxyTypes ==
  /\ proxy \in [AnyProxy!Members -> BOOLEAN]
  /\ client \in [connected : BOOLEAN, logged_on : BOOLEAN, pipe : BOOLEAN, user : BOOLEAN]
  /\ single \in Nat
  /\ dropped \in BOOLEAN

\* How far load_client has come. The handles the proxy holds are those open in the
\* client, until they are dropped.
LoadingProxy ==
  /\ phase = "load" => \A m \in AnyProxy!Members : ~proxy[m]
  /\ phase \in {"engine", "pipe", "clients"} => proxy["module"]
  /\ phase \in {"load", "engine", "pipe"} => ~proxy["pipe"] /\ ~proxy["user"]
  /\ phase \in {"load", "engine", "pipe", "clients", "check"} => single = 0 /\ ~dropped
  /\ proxy["user"] => proxy["pipe"]
  /\ \A m \in AnyProxy!Members : proxy[m] => proxy["module"]
  /\ ~dropped /\ phase \notin {"destroyed", "ended"} =>
       client.pipe = proxy["pipe"] /\ client.user = proxy["user"]

\* From the first look at the client on, the callback is there as long as there
\* are handles, and before the mod is started the client was just found logged on.
WatchingProxy ==
  /\ phase \in {"start", "running"} =>
       IF proxy["module"] THEN single = 1 ELSE single = 0
  /\ phase = "start" /\ proxy["module"] => checked
  /\ AnyProxy!EndsClean

\* The second process waits for somebody, and ends only when that one has.
ChildInv ==
  /\ child = "waits" => waits \in {"parent", "stranger"}
  /\ child \in {"shuts down", "ended"} => phase = "ended" \/ waits = "stranger"

ProxyInv == ProxyTypes /\ LoadingProxy /\ WatchingProxy /\ ChildInv

LEMMA ProxyStart == AnyProxy!Init => ProxyInv
<1> SUFFICES ASSUME AnyProxy!Init PROVE ProxyInv
  OBVIOUS
<1>1. /\ phase = "load" /\ single = 0 /\ child = "none" /\ dropped = FALSE
      /\ proxy = [m \in AnyProxy!Members |-> FALSE]
      /\ client \in [connected : BOOLEAN, logged_on : BOOLEAN, pipe : {FALSE}, user : {FALSE}]
  BY DEF AnyProxy!Init, AnyProxy!None
<1>2. /\ client \in [connected : BOOLEAN, logged_on : BOOLEAN, pipe : BOOLEAN, user : BOOLEAN]
      /\ client.pipe = FALSE /\ client.user = FALSE
  BY <1>1
<1>3. proxy \in [AnyProxy!Members -> BOOLEAN] /\ \A m \in AnyProxy!Members : proxy[m] = FALSE
  BY <1>1
<1>4. "user" \in AnyProxy!Members /\ "pipe" \in AnyProxy!Members
  BY DEF AnyProxy!Members
<1> QED
  BY <1>1, <1>2, <1>3, <1>4 DEF ProxyInv, ProxyTypes, LoadingProxy, WatchingProxy, ChildInv, AnyProxy!EndsClean

\* What the second process does leaves the first one alone.
LEMMA ProxyChildStep ==
  ASSUME ProxyInv,
         AnyProxy!OpenParent \/ AnyProxy!WaitEnds \/ AnyProxy!PrematureShutdown
  PROVE  ProxyInv'
<1>1. UNCHANGED <<phase, proxy, client, single, dropped, checked>>
  BY DEF AnyProxy!OpenParent, AnyProxy!WaitEnds, AnyProxy!PrematureShutdown,
         AnyProxy!ParentUnchanged, AnyProxy!Histories
<1>2. ProxyTypes' /\ LoadingProxy' /\ WatchingProxy'
  BY <1>1 DEF ProxyInv, ProxyTypes, LoadingProxy, WatchingProxy, AnyProxy!EndsClean
<1>3. ChildInv'
  BY <1>1 DEF ProxyInv, ChildInv, AnyProxy!OpenParent, AnyProxy!WaitEnds, AnyProxy!PrematureShutdown
<1> QED
  BY <1>2, <1>3 DEF ProxyInv

\* While the client is loaded.
LEMMA ProxyLoadStep ==
  ASSUME ProxyInv,
         \/ AnyProxy!NoModule \/ AnyProxy!LoadModule \/ AnyProxy!FindEngine
         \/ AnyProxy!NextVersion \/ AnyProxy!NoEngine \/ AnyProxy!Connect \/ AnyProxy!GetClients
  PROVE  ProxyInv'
<1> USE DEF AnyProxy!Members
<1>1. ChildInv'
  BY DEF ProxyInv, ChildInv, AnyProxy!NoModule, AnyProxy!LoadModule, AnyProxy!FindEngine,
         AnyProxy!NextVersion, AnyProxy!NoEngine, AnyProxy!Connect, AnyProxy!GetClients,
         AnyProxy!ChildUnchanged
<1>2. UNCHANGED <<single, dropped, checked>> /\ phase # "start" /\ phase # "running"
      /\ phase' \in {"engine", "pipe", "clients", "check"}
  BY DEF AnyProxy!NoModule, AnyProxy!LoadModule, AnyProxy!FindEngine,
         AnyProxy!NextVersion, AnyProxy!NoEngine, AnyProxy!Connect, AnyProxy!GetClients,
         AnyProxy!Histories
<1>3. WatchingProxy'
  BY <1>2 DEF ProxyInv, WatchingProxy, AnyProxy!EndsClean
<1>4. ProxyTypes' /\ LoadingProxy'
  <2>1. ProxyTypes /\ LoadingProxy
    BY DEF ProxyInv
  <2>2. CASE AnyProxy!NoModule \/ AnyProxy!NoEngine \/ AnyProxy!NextVersion
    BY <2>1, <2>2 DEF AnyProxy!NoModule, AnyProxy!NextVersion, AnyProxy!NoEngine,
                      AnyProxy!Histories, ProxyTypes, LoadingProxy
  <2>3. CASE AnyProxy!LoadModule
    BY <2>1, <2>3 DEF AnyProxy!LoadModule, AnyProxy!WithMembers, AnyProxy!Histories,
                      ProxyTypes, LoadingProxy
  <2>4. CASE AnyProxy!FindEngine
    BY <2>1, <2>4 DEF AnyProxy!FindEngine, AnyProxy!WithMembers, AnyProxy!Histories,
                      ProxyTypes, LoadingProxy
  <2>5. CASE AnyProxy!Connect
    BY <2>1, <2>5 DEF AnyProxy!Connect, AnyProxy!WithMembers, AnyProxy!Histories,
                      ProxyTypes, LoadingProxy
  <2>6. CASE AnyProxy!GetClients
    BY <2>1, <2>6 DEF AnyProxy!GetClients, AnyProxy!WithMembers, AnyProxy!Histories,
                      ProxyTypes, LoadingProxy
  <2> QED
    BY <2>2, <2>3, <2>4, <2>5, <2>6
<1> QED
  BY <1>1, <1>3, <1>4 DEF ProxyInv

\* A look at the client: the handles are kept and watched, or all are dropped.
LEMMA ProxyLookStep ==
  ASSUME ProxyInv, AnyProxy!CheckOnLoad \/ AnyProxy!Frame
  PROVE  ProxyInv'
<1> USE DEF AnyProxy!Members
<1>1. ProxyTypes /\ LoadingProxy /\ WatchingProxy /\ ChildInv
  BY DEF ProxyInv
<1>2. ChildInv'
  BY <1>1 DEF ChildInv, AnyProxy!CheckOnLoad, AnyProxy!Frame, AnyProxy!ChildUnchanged
<1>3. /\ phase \in {"check", "running"} /\ phase' \in {"start", "running"} /\ client' = client
      /\ \E n \in {0} : AnyProxy!CleanUpOnError(n)
  BY <1>1 DEF AnyProxy!CheckOnLoad, AnyProxy!Frame, LoadingProxy, WatchingProxy
<1>4. AnyProxy!CleanUpOnError(0)
  BY <1>3
<1>5. CASE AnyProxy!Usable
  <2>0. client.connected /\ client.logged_on /\ checked' = (client.connected /\ client.logged_on)
    BY <1>4, <1>5, Zenon DEF AnyProxy!CleanUpOnError, AnyProxy!Usable
  <2>2. checked'
    BY <2>0, Zenon
  <2>3. single' = 1 /\ proxy' = proxy /\ dropped' = dropped /\ proxy["module"]
    BY <1>4, <1>5 DEF AnyProxy!CleanUpOnError, AnyProxy!Usable
  <2>1. single' = 1 /\ proxy' = proxy /\ dropped' = dropped /\ checked' /\ proxy["module"]
    BY <2>2, <2>3, Zenon
  <2> QED
    BY <1>1, <1>2, <1>3, <2>1
    DEF ProxyInv, ProxyTypes, LoadingProxy, WatchingProxy, AnyProxy!EndsClean
<1>6. CASE ~AnyProxy!Usable
  <2>1. single' = 0 /\ proxy' = [m \in AnyProxy!Members |-> FALSE] /\ dropped' = TRUE
    BY <1>4, <1>6 DEF AnyProxy!CleanUpOnError, AnyProxy!None
  <2> QED
    BY <1>1, <1>2, <1>3, <2>1
    DEF ProxyInv, ProxyTypes, LoadingProxy, WatchingProxy, AnyProxy!EndsClean
<1> QED
  BY <1>5, <1>6

LEMMA ProxyOtherStep ==
  ASSUME ProxyInv,
         \/ AnyProxy!NoMod \/ AnyProxy!StartMod \/ AnyProxy!PreDestroy
         \/ AnyProxy!ProcessEnds \/ AnyProxy!ClientChanges
  PROVE  ProxyInv'
<1> USE DEF AnyProxy!Members
<1>1. ProxyTypes /\ LoadingProxy /\ WatchingProxy /\ ChildInv
  BY DEF ProxyInv
<1>2. CASE AnyProxy!NoMod \/ AnyProxy!ProcessEnds
  BY <1>1, <1>2 DEF AnyProxy!NoMod, AnyProxy!ProcessEnds, AnyProxy!Histories,
     AnyProxy!ChildUnchanged, ProxyInv, ProxyTypes, LoadingProxy, WatchingProxy, ChildInv,
     AnyProxy!EndsClean
<1>3. CASE AnyProxy!StartMod
  <2>1. /\ phase = "start" /\ phase' = "running" /\ child' \in {"none", "starts"}
        /\ UNCHANGED <<proxy, client, single, dropped>>
    BY <1>3 DEF AnyProxy!StartMod, AnyProxy!Histories
  <2> QED
    BY <1>1, <2>1
    DEF ProxyInv, ProxyTypes, LoadingProxy, WatchingProxy, ChildInv, AnyProxy!EndsClean
<1>4. CASE AnyProxy!PreDestroy
  <2>1. /\ phase = "running" /\ phase' = "destroyed"
        /\ UNCHANGED <<proxy, single, child, waits, dropped, checked>>
    BY <1>4 DEF AnyProxy!PreDestroy, AnyProxy!Histories, AnyProxy!ChildUnchanged
  <2>2. client' \in [connected : BOOLEAN, logged_on : BOOLEAN, pipe : BOOLEAN, user : BOOLEAN]
        /\ (dropped \/ ~(client'.pipe \/ client'.user))
    BY <1>1, <1>4, <2>1 DEF AnyProxy!PreDestroy, ProxyTypes, LoadingProxy
  <2> QED
    BY <1>1, <2>1, <2>2
    DEF ProxyInv, ProxyTypes, LoadingProxy, WatchingProxy, ChildInv, AnyProxy!EndsClean
<1>5. CASE AnyProxy!ClientChanges
  <2>1. UNCHANGED <<phase, proxy, single, child, waits, dropped, checked>>
    BY <1>5 DEF AnyProxy!ClientChanges, AnyProxy!Histories, AnyProxy!ChildUnchanged
  <2>2. client' \in [connected : BOOLEAN, logged_on : BOOLEAN, pipe : BOOLEAN, user : BOOLEAN]
        /\ client'.pipe = client.pipe /\ client'.user = client.user
    BY <1>1, <1>5 DEF AnyProxy!ClientChanges, ProxyTypes
  <2> QED
    BY <1>1, <2>1, <2>2
    DEF ProxyInv, ProxyTypes, LoadingProxy, WatchingProxy, ChildInv, AnyProxy!EndsClean
<1> QED
  BY <1>2, <1>3, <1>4, <1>5

LEMMA ProxyStep == ProxyInv /\ [AnyProxy!Next]_(AnyProxy!vars) => ProxyInv'
<1> SUFFICES ASSUME ProxyInv, [AnyProxy!Next]_(AnyProxy!vars) PROVE ProxyInv'
  OBVIOUS
<1>1. CASE UNCHANGED AnyProxy!vars
  <2>1. UNCHANGED <<phase, proxy, client, single, child, waits, dropped, checked>>
    BY <1>1 DEF AnyProxy!vars
  <2>2. ProxyTypes' /\ ChildInv'
    BY <2>1 DEF ProxyInv, ProxyTypes, ChildInv
  <2>3. LoadingProxy' /\ WatchingProxy'
    BY <2>1 DEF ProxyInv, LoadingProxy, WatchingProxy, AnyProxy!EndsClean
  <2> QED
    BY <2>2, <2>3 DEF ProxyInv
<1> QED
  BY <1>1, ProxyChildStep, ProxyLoadStep, ProxyLookStep, ProxyOtherStep DEF AnyProxy!Next

\* While the game runs, the callback that looks after the Steam client is in the
\* scheduler exactly as long as there are handles; a game that ends in good order
\* leaves nothing open that it has not dropped; a mod is started only through a
\* client just found logged on; and Steam sees it run until the game has ended.
THEOREM Proxy_Watches ==
  AnyProxy!Spec => /\ [](AnyProxy!Watched /\ AnyProxy!EndsClean)
                   /\ AnyProxy!StartedWhenLoggedOn
                   /\ AnyProxy!ModRunsAsLong
<1>1. ProxyInv => AnyProxy!Watched /\ AnyProxy!EndsClean
  BY DEF ProxyInv, WatchingProxy, AnyProxy!Watched
<1>2. ProxyInv /\ [AnyProxy!Next]_(AnyProxy!vars)
        => [app' # app => checked /\ proxy["module"]]_(AnyProxy!vars)
  <2> SUFFICES ASSUME ProxyInv, AnyProxy!Next, app' # app
               PROVE  checked /\ proxy["module"]
    OBVIOUS
  <2>1. AnyProxy!StartMod
    BY DEF AnyProxy!Next, AnyProxy!NoModule, AnyProxy!LoadModule, AnyProxy!FindEngine,
           AnyProxy!NextVersion, AnyProxy!NoEngine, AnyProxy!Connect, AnyProxy!GetClients,
           AnyProxy!CheckOnLoad, AnyProxy!Frame, AnyProxy!NoMod, AnyProxy!PreDestroy,
           AnyProxy!ProcessEnds, AnyProxy!OpenParent, AnyProxy!WaitEnds,
           AnyProxy!PrematureShutdown, AnyProxy!ClientChanges, AnyProxy!ParentUnchanged
  <2>2. proxy["module"] /\ phase = "start"
    BY <2>1 DEF ProxyInv, LoadingProxy, AnyProxy!StartMod, AnyProxy!Members
  <2> QED
    BY <2>2 DEF ProxyInv, WatchingProxy
<1>3. ProxyInv /\ [AnyProxy!Next]_(AnyProxy!vars)
        => [child' = "ended" => phase = "ended" \/ waits = "stranger"]_(AnyProxy!vars)
  <2> SUFFICES ASSUME ProxyInv, AnyProxy!Next, child' = "ended"
               PROVE  phase = "ended" \/ waits = "stranger"
    OBVIOUS
  <2>1. child' = child => child \in {"shuts down", "ended"}
    OBVIOUS
  <2>2. ~AnyProxy!StartMod
    BY DEF AnyProxy!StartMod, AnyProxy!Histories
  <2>3. ~AnyProxy!OpenParent
    BY DEF AnyProxy!OpenParent
  <2>4. ~AnyProxy!WaitEnds
    BY DEF AnyProxy!WaitEnds
  <2>5. AnyProxy!PrematureShutdown => child = "shuts down"
    BY DEF AnyProxy!PrematureShutdown
  <2>6. child' = child \/ AnyProxy!StartMod \/ AnyProxy!OpenParent \/ AnyProxy!WaitEnds
          \/ AnyProxy!PrematureShutdown
    BY DEF AnyProxy!Next, AnyProxy!NoModule, AnyProxy!LoadModule, AnyProxy!FindEngine,
           AnyProxy!NextVersion, AnyProxy!NoEngine, AnyProxy!Connect, AnyProxy!GetClients,
           AnyProxy!CheckOnLoad, AnyProxy!Frame, AnyProxy!NoMod, AnyProxy!PreDestroy,
           AnyProxy!ProcessEnds, AnyProxy!ClientChanges, AnyProxy!ChildUnchanged
  <2>7. child \in {"shuts down", "ended"}
    BY <2>1, <2>2, <2>3, <2>4, <2>5, <2>6
  <2> QED
    BY <2>7 DEF ProxyInv, ChildInv
<1> QED
  BY <1>1, <1>2, <1>3, ProxyStart, ProxyStep, PTL
  DEF AnyProxy!Spec, AnyProxy!StartedWhenLoggedOn, AnyProxy!ModRunsAsLong

-----------------------------------------------------------------------------
(* The loader of the image, for any images, pages, dlls and functions.     *)

CONSTANTS FileImages, AnyModes, AnyPages, AnyPayload, AnyTls, AnyLowerCase, AnyOwnExports,
          AnyExports, AnyLoaded, AnyReplaced, AnySocketCalls

AnyLoader == INSTANCE BinaryLoader WITH
  at <- loaderAt, mode_ <- loaderMode, Images <- FileImages, Modes <- AnyModes,
  Pages <- AnyPages, PayloadPages <- AnyPayload, TlsPayload <- AnyTls,
  LowerCase <- AnyLowerCase, OwnExports <- AnyOwnExports, Exports <- AnyExports,
  Loaded <- AnyLoaded, Replaced <- AnyReplaced, SocketCalls <- AnySocketCalls

\* What the headers of an image say are sequences of records, whatever is in them.
ImagesAreFiles ==
  /\ \A im \in FileImages :
       /\ im.sections \in Seq([address : Nat, raw : Nat, virtual : Nat])
       /\ im.imports \in Seq([dll : STRING, names : BOOLEAN,
            thunks : Seq([function : STRING, ordinal : BOOLEAN, low : BOOLEAN])])
  /\ AnyPages \in Nat /\ AnyPayload \in Nat

\* dw replaces no function twice.
CallsDiffer ==
  /\ AnySocketCalls \in Seq(STRING)
  /\ \A i, j \in 1..Len(AnySocketCalls) : AnySocketCalls[i] = AnySocketCalls[j] => i = j

\* The import descriptors, and the thunks of each.
IsSlot(d, t) == d \in 1..Len(image.imports) /\ t \in 1..Len(image.imports[d].thunks)
Import(d, t) == image.imports[d].thunks[t]

LoaderTypes ==
  /\ image \in FileImages
  /\ next \in (Nat \ {0}) \X (Nat \ {0})
  /\ hooking \in (Nat \ {0}) \X {1, 2}
  /\ DOMAIN memory = 0..(AnyPages - 1)
  /\ DOMAIN table = 1..Len(image.imports)
  /\ \A d \in 1..Len(image.imports) : DOMAIN table[d] = 1..Len(image.imports[d].thunks)

\* An import is bound to what the loader has found for it, or to the stub that
\* has replaced that.
BoundBy(d, t) ==
  /\ table[d][t] # AnyLoader!Nothing
  /\ table[d][t] = AnyLoader!Function(d, Import(d, t))
Stubbed(d, t) ==
  /\ table[d][t] = <<"stub", Import(d, t).function>>
  /\ Import(d, t).ordinal
  /\ <<AnyLoader!Lower(d), Import(d, t).function>> \in AnyExports
  /\ \E i \in 1..2 : AnyLoader!Lower(d) = AnyLoader!Dlls[i]

WalkedOver(d, t) == d < next[1] \/ (d = next[1] /\ t < next[2])

LinkInv ==
  /\ loaderAt \in {"binary", "sections", "imports"} => hooking = <<1, 1>>
  /\ loaderAt = "imports" => \A d, t \in Nat : IsSlot(d, t) /\ WalkedOver(d, t) => BoundBy(d, t)
  /\ loaderAt \in {"hooks", "running"} =>
       \A d, t \in Nat : IsSlot(d, t) => BoundBy(d, t) \/ Stubbed(d, t)

\* What the search of a dll's table is for.
Wanted(d, t, dll, call) ==
  IsSlot(d, t) /\ Import(d, t).ordinal /\ Import(d, t).function = call /\ AnyLoader!Lower(d) = dll
StubAt(d, t, call) == IsSlot(d, t) /\ table[d][t] = <<"stub", call>>

NoStub(call) == \A d, t \in Nat : ~StubAt(d, t, call)
NoneWanted(dll, call) == \A d, t \in Nat : ~Wanted(d, t, dll, call)

\* A call that has been looked for is replaced in one place, if it is imported.
Settled(call) ==
  \/ NoStub(call) /\ \A i \in 1..2 : NoneWanted(AnyLoader!Dlls[i], call)
  \/ \E d, t \in Nat : /\ \E i \in 1..2 : Wanted(d, t, AnyLoader!Dlls[i], call)
                       /\ \A e, u \in Nat : StubAt(e, u, call) <=> e = d /\ u = t

HookInv ==
  loaderAt \in {"hooks", "running"} =>
    /\ \A k \in 1..Len(AnySocketCalls) :
         IF k < hooking[1] THEN Settled(AnySocketCalls[k]) ELSE NoStub(AnySocketCalls[k])
    /\ hooking[1] <= Len(AnySocketCalls) =>
         /\ hooking[2] = 2 => NoneWanted(AnyLoader!Dlls[1], AnySocketCalls[hooking[1]])
         /\ loaderAt = "hooks" =>
              \A d, t \in Nat : WalkedOver(d, t) =>
                ~Wanted(d, t, AnyLoader!Dlls[hooking[2]], AnySocketCalls[hooking[1]])
    /\ loaderAt = "running" => hooking[1] > Len(AnySocketCalls)

LoadedInv == LoaderTypes /\ AnyLoader!OwnPagesKept /\ LinkInv /\ HookInv

\* The parts of an image.
LEMMA ImageIs ==
  ASSUME ImagesAreFiles, LoaderTypes
  PROVE  /\ Len(image.imports) \in Nat
         /\ \A d \in 1..Len(image.imports) :
              /\ Len(image.imports[d].thunks) \in Nat
              /\ \A t \in 1..Len(image.imports[d].thunks) : Import(d, t).ordinal \in BOOLEAN
         /\ DOMAIN image.imports = 1..Len(image.imports)
         /\ \A d \in 1..Len(image.imports) :
              DOMAIN image.imports[d].thunks = 1..Len(image.imports[d].thunks)
         /\ Len(image.sections) \in Nat
         /\ \A i \in 1..Len(image.sections) :
              image.sections[i] \in [address : Nat, raw : Nat, virtual : Nat]
<1> DEFINE R == [function : STRING, ordinal : BOOLEAN, low : BOOLEAN]
           D == [dll : STRING, names : BOOLEAN, thunks : Seq(R)]
<1>1. /\ image.sections \in Seq([address : Nat, raw : Nat, virtual : Nat])
      /\ image.imports \in Seq(D)
  BY DEF ImagesAreFiles, LoaderTypes
<1>2. \A d \in 1..Len(image.imports) : image.imports[d] \in D
  BY <1>1, ElementOfSeq
<1>3. \A d \in 1..Len(image.imports) : image.imports[d].thunks \in Seq(R)
  BY <1>2
<1>4. \A d \in 1..Len(image.imports) : \A t \in 1..Len(image.imports[d].thunks) :
        image.imports[d].thunks[t] \in R
  BY <1>3, ElementOfSeq
<1>5. \A d \in 1..Len(image.imports) : \A t \in 1..Len(image.imports[d].thunks) :
        Import(d, t).ordinal \in BOOLEAN
  BY <1>4 DEF Import
<1> HIDE DEF R, D
<1>6. Len(image.imports) \in Nat /\ Len(image.sections) \in Nat
      /\ DOMAIN image.imports = 1..Len(image.imports)
  BY <1>1, LenProperties
<1>7. \A d \in 1..Len(image.imports) :
        /\ Len(image.imports[d].thunks) \in Nat
        /\ DOMAIN image.imports[d].thunks = 1..Len(image.imports[d].thunks)
  BY <1>3, LenProperties
<1>8. \A i \in 1..Len(image.sections) :
        image.sections[i] \in [address : Nat, raw : Nat, virtual : Nat]
  BY <1>1, ElementOfSeq
<1> QED
  BY <1>5, <1>6, <1>7, <1>8

\* What the loader binds an import to; never a stub of dw.
LEMMA FunctionIs ==
  ASSUME NEW d, NEW thunk, AnyLoader!Function(d, thunk) # AnyLoader!Nothing
  PROVE  /\ AnyLoader!Function(d, thunk)[1] \in {"self", "exit_hook", "module", "system"}
         /\ thunk.ordinal =>
              /\ AnyLoader!Function(d, thunk) = <<"system", AnyLoader!Lower(d), thunk.function>>
              /\ <<AnyLoader!Lower(d), thunk.function>> \in AnyExports
         /\ ~thunk.ordinal /\ thunk.function = "ExitProcess"
              => \/ AnyLoader!Function(d, thunk) = <<"exit_hook">>
                 \/ image.imports[d].dll = "steam_api.dll"
         /\ (/\ ~thunk.ordinal /\ image.imports[d].dll = "steam_api.dll"
             /\ thunk.function \in AnyOwnExports)
              => AnyLoader!Function(d, thunk)[1] = "self"
<1> USE DEF AnyLoader!Nothing
<1> DEFINE resolved == AnyLoader!Resolver(d, thunk.function)
           system == AnyLoader!System(AnyLoader!Lower(d), thunk.function)
<1>1. AnyLoader!Function(d, thunk) =
        IF thunk.ordinal \/ resolved = <<>> THEN system ELSE resolved
  BY DEF AnyLoader!Function
<1>2. /\ system # <<>> => /\ system = <<"system", AnyLoader!Lower(d), thunk.function>>
                          /\ <<AnyLoader!Lower(d), thunk.function>> \in AnyExports
  BY DEF AnyLoader!System
<1>3. resolved # <<>> => resolved[1] \in {"self", "exit_hook", "module"}
  BY DEF AnyLoader!Resolver, AnyLoader!LoadImport
<1>4. thunk.function = "ExitProcess" =>
        resolved = <<"exit_hook">> \/ image.imports[d].dll = "steam_api.dll"
  BY DEF AnyLoader!Resolver
<1>5. image.imports[d].dll = "steam_api.dll" /\ thunk.function \in AnyOwnExports =>
        resolved = <<"self", thunk.function>>
  BY DEF AnyLoader!Resolver
<1>6. <<"exit_hook">> # <<>> /\ <<"self", thunk.function>> # <<>>
  OBVIOUS
<1> DEFINE value == AnyLoader!Function(d, thunk)
<1> HIDE DEF resolved, system, value
<1>7. CASE thunk.ordinal
  <2>1. value = system
    BY <1>1, <1>7, Zenon DEF value
  <2>2. value # <<>>
    BY DEF value
  <2> QED
    BY <1>2, <1>7, <2>1, <2>2 DEF value
<1>8. CASE ~thunk.ordinal
  <2>1. value = IF resolved = <<>> THEN system ELSE resolved
    BY <1>1, <1>8, Zenon DEF value
  <2>2. value # <<>>
    BY DEF value
  <2>3. value[1] \in {"self", "exit_hook", "module", "system"}
    BY <1>2, <1>3, <2>1, <2>2
  <2>4. thunk.function = "ExitProcess" =>
          value = <<"exit_hook">> \/ image.imports[d].dll = "steam_api.dll"
    BY <1>4, <1>6, <2>1
  <2>5. image.imports[d].dll = "steam_api.dll" /\ thunk.function \in AnyOwnExports =>
          value[1] = "self"
    BY <1>5, <1>6, <2>1
  <2> QED
    BY <1>8, <2>3, <2>4, <2>5, Zenon DEF value
<1> QED
  BY <1>7, <1>8

LEMMA LoaderStart ==
  ASSUME ImagesAreFiles, AnyLoader!Init
  PROVE  LoadedInv
<1>1. /\ image \in FileImages /\ next = <<1, 1>> /\ hooking = <<1, 1>> /\ loaderAt = "binary"
      /\ memory = [p \in 0..(AnyPages - 1) |-> 0]
      /\ table = [d \in DOMAIN image.imports |->
                    [t \in DOMAIN image.imports[d].thunks |-> AnyLoader!Nothing]]
  BY DEF AnyLoader!Init, AnyLoader!own
<1>2. /\ DOMAIN image.imports = 1..Len(image.imports)
      /\ \A d \in 1..Len(image.imports) :
           DOMAIN image.imports[d].thunks = 1..Len(image.imports[d].thunks)
  <2> DEFINE R == [function : STRING, ordinal : BOOLEAN, low : BOOLEAN]
             D == [dll : STRING, names : BOOLEAN, thunks : Seq(R)]
  <2>1. image.imports \in Seq(D)
    BY <1>1 DEF ImagesAreFiles
  <2>3. \A d \in 1..Len(image.imports) : image.imports[d] \in D
    BY <2>1, ElementOfSeq
  <2>2. \A d \in 1..Len(image.imports) : image.imports[d].thunks \in Seq(R)
    BY <2>3
  <2> HIDE DEF R, D
  <2> QED
    BY <2>1, <2>2, LenProperties
<1>3. LoaderTypes
  <2>1. DOMAIN table = 1..Len(image.imports)
    BY <1>1, <1>2
  <2>2. \A d \in 1..Len(image.imports) : DOMAIN table[d] = 1..Len(image.imports[d].thunks)
    BY <1>1, <1>2
  <2> QED
    BY <1>1, <2>1, <2>2 DEF LoaderTypes
<1>4. AnyLoader!OwnPagesKept
  BY <1>1 DEF AnyLoader!OwnPagesKept, AnyLoader!own, ImagesAreFiles
<1> QED
  BY <1>1, <1>3, <1>4 DEF LoadedInv, LinkInv, HookInv

\* Whatever has been done of it, a load that fails leaves it.
LEMMA LoaderFails ==
  ASSUME LoadedInv, AnyLoader!Fails
  PROVE  LoadedInv'
<1>1. loaderAt' = "failed" /\ UNCHANGED <<image, memory, table, next, hooking>>
  BY DEF AnyLoader!Fails
<1>2. LoaderTypes' /\ AnyLoader!OwnPagesKept'
  BY <1>1 DEF LoadedInv, LoaderTypes, AnyLoader!OwnPagesKept
<1> QED
  BY <1>1, <1>2 DEF LoadedInv, LinkInv, HookInv

\* The next stage begins with the first section, or the first import.
LEMMA LoaderGoesOn ==
  ASSUME LoadedInv, AnyLoader!BinaryBuilt \/ AnyLoader!SectionsLoaded
  PROVE  LoadedInv'
<1>1. /\ loaderAt \in {"binary", "sections"} /\ loaderAt' \in {"sections", "imports"}
      /\ next' = <<1, 1>>
      /\ UNCHANGED <<image, memory, table, hooking>>
  BY DEF AnyLoader!BinaryBuilt, AnyLoader!SectionsLoaded, AnyLoader!Goto
<1>2. LoaderTypes' /\ AnyLoader!OwnPagesKept'
  BY <1>1 DEF LoadedInv, LoaderTypes, AnyLoader!OwnPagesKept
<1>3. ASSUME NEW d \in Nat, NEW t \in Nat, IsSlot(d, t)', WalkedOver(d, t)'
      PROVE  FALSE
  BY <1>1, <1>3 DEF IsSlot, WalkedOver
<1>4. LinkInv'
  BY <1>1, <1>3 DEF LoadedInv, LinkInv
<1> QED
  BY <1>1, <1>2, <1>4 DEF LoadedInv, HookInv

\* A section is copied into the payload, or at most from there on over its end.
LEMMA LoaderCopies ==
  ASSUME ImagesAreFiles, LoadedInv, AnyLoader!LoadSection
  PROVE  LoadedInv'
<1>1. /\ loaderAt = "sections" /\ loaderAt' = "sections"
      /\ next[1] <= Len(image.sections) /\ next' = <<next[1] + 1, 1>>
      /\ ~AnyLoader!SectionExceeds
      /\ memory' = [p \in DOMAIN memory |->
                      IF p \in AnyLoader!Copied THEN next[1] ELSE memory[p]]
      /\ UNCHANGED <<image, table, hooking>>
  BY DEF AnyLoader!LoadSection
<1>2. LoaderTypes'
  BY <1>1 DEF LoadedInv, LoaderTypes
<1>3. /\ next[1] \in 1..Len(image.sections)
      /\ image.sections[next[1]] \in [address : Nat, raw : Nat, virtual : Nat]
  BY <1>1, ImageIs DEF LoadedInv, LoaderTypes
<1>4. image.sections[next[1]].address < AnyPayload
  BY <1>1, <1>3 DEF AnyLoader!SectionExceeds, AnyLoader!Section, ImagesAreFiles
<1>5. \A p \in AnyLoader!Copied : p < image.sections[next[1]].address + image.sections[next[1]].raw
  BY <1>3 DEF AnyLoader!Copied, AnyLoader!Section
<1>6. AnyLoader!OwnPagesKept'
  <2>1. \A p \in AnyPayload..(AnyPages - 1) :
          memory'[p] = IF p \in AnyLoader!Copied THEN next[1] ELSE memory[p]
    BY <1>1 DEF LoadedInv, LoaderTypes, ImagesAreFiles
  <2>2. image' = image
    BY <1>1
  <2> QED
    BY <1>4, <1>5, <2>1, <2>2 DEF LoadedInv, AnyLoader!OwnPagesKept
<1>7. LinkInv' /\ HookInv'
  BY <1>1 DEF LoadedInv, LinkInv, HookInv
<1> QED
  BY <1>2, <1>6, <1>7 DEF LoadedInv

LEMMA LoaderLinks ==
  ASSUME ImagesAreFiles, LoadedInv, AnyLoader!ResolveImport
  PROVE  LoadedInv'
<1> DEFINE d0 == next[1]
           t0 == next[2]
           value == AnyLoader!Function(d0, Import(d0, t0))
<1>1. loaderAt = "imports" /\ d0 <= Len(image.imports) /\ t0 <= Len(image.imports[d0].thunks)
  BY DEF AnyLoader!ResolveImport, AnyLoader!Walks, AnyLoader!AtThunk, AnyLoader!Thunks
<1>2. LoaderTypes /\ d0 \in Nat \ {0} /\ t0 \in Nat \ {0} /\ next = <<d0, t0>> /\ IsSlot(d0, t0)
  BY <1>1, ImageIs DEF LoadedInv, LoaderTypes, IsSlot
<1>3. CASE value = AnyLoader!Nothing
  <2>1. AnyLoader!Fails
    BY <1>3 DEF AnyLoader!ResolveImport, AnyLoader!Thunks, Import
  <2> QED
    BY <2>1, LoaderFails
<1>4. CASE value # AnyLoader!Nothing
  <2>1. /\ table' = [table EXCEPT ![d0][t0] = value]
        /\ next' = <<d0, t0 + 1>>
        /\ UNCHANGED <<loaderAt, image, memory, hooking>>
    BY <1>4 DEF AnyLoader!ResolveImport, AnyLoader!Thunks, Import, AnyLoader!NextThunk
  <2> HIDE DEF value
  <2>2. LoaderTypes' /\ \A d, t \in Nat : IsSlot(d, t) =>
          table'[d][t] = IF d = d0 /\ t = t0 THEN value ELSE table[d][t]
    BY <1>2, <2>1 DEF LoaderTypes, IsSlot
  <2>3. AnyLoader!OwnPagesKept'
    BY <2>1 DEF LoadedInv, AnyLoader!OwnPagesKept
  <2>4. ASSUME NEW d \in Nat, NEW t \in Nat, IsSlot(d, t)', WalkedOver(d, t)'
        PROVE  BoundBy(d, t)'
    <3>1. IsSlot(d, t) /\ (WalkedOver(d, t) \/ (d = d0 /\ t = t0))
      BY <1>2, <2>1, <2>4 DEF IsSlot, WalkedOver
    <3>2. AnyLoader!Function(d, Import(d, t))' = AnyLoader!Function(d, Import(d, t))
      BY <2>1 DEF Import, AnyLoader!Function, AnyLoader!Resolver, AnyLoader!Lower
    <3>3. CASE d = d0 /\ t = t0
      BY <1>4, <2>2, <3>1, <3>2, <3>3 DEF BoundBy, value
    <3>4. CASE ~(d = d0 /\ t = t0)
      <4>1. BoundBy(d, t)
        BY <1>1, <3>1, <3>4 DEF LoadedInv, LinkInv
      <4> QED
        BY <2>2, <3>1, <3>2, <3>4, <4>1 DEF BoundBy
    <3> QED
      BY <3>3, <3>4
  <2>5. LinkInv'
    BY <1>1, <2>1, <2>4 DEF LoadedInv, LinkInv
  <2>6. HookInv'
    BY <1>1, <2>1 DEF HookInv
  <2> QED
    BY <2>2, <2>3, <2>5, <2>6 DEF LoadedInv
<1> QED
  BY <1>3, <1>4

LEMMA LoaderNextDescriptor ==
  ASSUME ImagesAreFiles, LoadedInv, AnyLoader!DescriptorDone
  PROVE  LoadedInv'
<1>1. /\ loaderAt = "imports" /\ next[1] <= Len(image.imports)
      /\ ~(next[2] <= Len(image.imports[next[1]].thunks))
      /\ next' = <<next[1] + 1, 1>>
      /\ UNCHANGED <<loaderAt, image, memory, table, hooking>>
  BY DEF AnyLoader!DescriptorDone, AnyLoader!Walks, AnyLoader!AtThunk, AnyLoader!Thunks,
         AnyLoader!NextDescriptor
<1>2. LoaderTypes /\ LoaderTypes' /\ AnyLoader!OwnPagesKept'
  BY <1>1 DEF LoadedInv, LoaderTypes, AnyLoader!OwnPagesKept
<1>3. ASSUME NEW d \in Nat, NEW t \in Nat, IsSlot(d, t)', WalkedOver(d, t)'
      PROVE  BoundBy(d, t)'
  <2>1. IsSlot(d, t) /\ WalkedOver(d, t)
    <3>1. Len(image.imports[next[1]].thunks) \in Nat /\ next[1] \in Nat /\ next[2] \in Nat
      BY <1>1, <1>2, ImageIs DEF LoaderTypes
    <3> QED
      BY <1>1, <1>3, <3>1 DEF IsSlot, WalkedOver
  <2>2. BoundBy(d, t)
    BY <1>1, <2>1 DEF LoadedInv, LinkInv
  <2> QED
    BY <1>1, <2>2 DEF BoundBy, Import, AnyLoader!Function, AnyLoader!Resolver, AnyLoader!Lower
<1>4. LinkInv' /\ HookInv'
  BY <1>1, <1>3 DEF LoadedInv, LinkInv, HookInv
<1> QED
  BY <1>2, <1>4 DEF LoadedInv

\* All that is bound has been found by the loader, and no stub is in place yet.
LEMMA LoaderLinked ==
  ASSUME ImagesAreFiles, LoadedInv, AnyLoader!ImportsLoaded
  PROVE  LoadedInv'
<1>1. CASE AnyLoader!Fails
  BY <1>1, LoaderFails
<1>2. CASE ~AnyLoader!Fails
  <2>1. /\ loaderAt = "imports" /\ next[1] > Len(image.imports)
        /\ loaderAt' = "hooks" /\ next' = <<1, 1>>
        /\ UNCHANGED <<image, memory, table, hooking>>
    BY <1>2 DEF AnyLoader!ImportsLoaded, AnyLoader!Goto
  <2>2. LoaderTypes /\ LoaderTypes' /\ AnyLoader!OwnPagesKept' /\ hooking = <<1, 1>>
    BY <2>1 DEF LoadedInv, LoaderTypes, AnyLoader!OwnPagesKept, LinkInv
  <2>3. ASSUME NEW d \in Nat, NEW t \in Nat, IsSlot(d, t)
        PROVE  BoundBy(d, t)
    <3>1. WalkedOver(d, t)
      BY <2>1, <2>2, <2>3, ImageIs DEF IsSlot, WalkedOver, LoaderTypes
    <3> QED
      BY <2>1, <2>3, <3>1 DEF LoadedInv, LinkInv
  <2>4. ASSUME NEW d \in Nat, NEW t \in Nat, IsSlot(d, t)
        PROVE  BoundBy(d, t)' /\ \A call : ~StubAt(d, t, call)'
    <3>1. BoundBy(d, t)
      BY <2>3, <2>4
    <3>2. BoundBy(d, t)'
      BY <2>1, <3>1 DEF BoundBy, Import, AnyLoader!Function, AnyLoader!Resolver, AnyLoader!Lower
    <3>3. table[d][t][1] # "stub"
      BY <3>1, FunctionIs DEF BoundBy
    <3> QED
      BY <2>1, <3>2, <3>3 DEF StubAt
  <2>5. LinkInv'
    BY <2>1, <2>4 DEF LinkInv, IsSlot
  <2>6. \A call : NoStub(call)'
    BY <2>1, <2>4 DEF NoStub, StubAt, IsSlot
  <2>7. \A d, t \in Nat : ~(IsSlot(d, t) /\ WalkedOver(d, t))'
    BY <2>1 DEF IsSlot, WalkedOver
  <2>8. HookInv'
    BY <2>1, <2>2, <2>6, <2>7 DEF HookInv, Wanted
  <2> QED
    BY <2>2, <2>5, <2>8 DEF LoadedInv
<1> QED
  BY <1>1, <1>2

\* The steps of the search that leave the table as it is.
LEMMA SearchKeeps ==
  ASSUME LoadedInv, loaderAt \in {"hooks", "running"},
         UNCHANGED <<loaderAt, image, memory, table>>
  PROVE  /\ AnyLoader!OwnPagesKept' /\ LinkInv'
         /\ \A d, t : IsSlot(d, t)' = IsSlot(d, t)
         /\ \A d, t, dll, call : Wanted(d, t, dll, call)' = Wanted(d, t, dll, call)
         /\ \A call : NoStub(call)' = NoStub(call) /\ Settled(call)' = Settled(call)
         /\ \A dll, call : NoneWanted(dll, call)' = NoneWanted(dll, call)
<1>1. AnyLoader!OwnPagesKept'
  BY DEF LoadedInv, AnyLoader!OwnPagesKept
<1>2. \A d, t : IsSlot(d, t)' = IsSlot(d, t)
  BY DEF IsSlot
<1>3. \A d, t, dll, call : Wanted(d, t, dll, call)' = Wanted(d, t, dll, call)
  BY DEF Wanted, IsSlot, Import, AnyLoader!Lower
<1>4. \A call : NoStub(call)' = NoStub(call)
  BY DEF NoStub, StubAt, IsSlot
<1>5. \A dll, call : NoneWanted(dll, call)' = NoneWanted(dll, call)
  BY DEF NoneWanted, Wanted, IsSlot, Import, AnyLoader!Lower
<1>6. \A call : Settled(call)' = Settled(call)
  BY DEF Settled, NoStub, NoneWanted, StubAt, Wanted, IsSlot, Import, AnyLoader!Lower
<1>7. LinkInv'
  <2>1. \A d, t : BoundBy(d, t)' = BoundBy(d, t)
    BY DEF BoundBy, Import, AnyLoader!Lower, AnyLoader!Function, AnyLoader!Resolver
  <2>2. \A d, t : Stubbed(d, t)' = Stubbed(d, t)
    BY DEF Stubbed, Import, AnyLoader!Lower
  <2>3. \A d, t \in Nat : IsSlot(d, t) => BoundBy(d, t) \/ Stubbed(d, t)
    BY DEF LoadedInv, LinkInv
  <2>4. \A d, t \in Nat : IsSlot(d, t)' => BoundBy(d, t)' \/ Stubbed(d, t)'
    BY <1>2, <2>1, <2>2, <2>3
  <2> QED
    BY <2>4 DEF LinkInv
<1> QED
  BY <1>1, <1>2, <1>3, <1>4, <1>5, <1>6, <1>7

\* The search of one dll's table has found nothing: the other's is next, or with
\* that the call is settled.
LEMMA SearchFails ==
  ASSUME ImagesAreFiles, CallsDiffer, LoadedInv, AnyLoader!Hooking,
         NoneWanted(AnyLoader!Dll, AnyLoader!Call),
         AnyLoader!NotFound, next' = <<1, 1>>, UNCHANGED <<loaderAt, image, memory, table>>
  PROVE  LoadedInv'
<1>1. /\ loaderAt = "hooks" /\ hooking[1] <= Len(AnySocketCalls)
      /\ AnyLoader!Dll = AnyLoader!Dlls[hooking[2]] /\ AnyLoader!Call = AnySocketCalls[hooking[1]]
      /\ hooking' = IF hooking[2] = 1 THEN <<hooking[1], 2>> ELSE <<hooking[1] + 1, 1>>
  BY DEF AnyLoader!Hooking, AnyLoader!Dll, AnyLoader!Call, AnyLoader!NotFound
<1>2. LoaderTypes /\ hooking[1] \in Nat \ {0} /\ hooking[2] \in {1, 2}
      /\ hooking[1] \in 1..Len(AnySocketCalls) /\ Len(AnySocketCalls) \in Nat
  BY <1>1, LenProperties DEF LoadedInv, LoaderTypes, CallsDiffer
<1>3. LoaderTypes'
  BY <1>1, <1>2 DEF LoaderTypes
<1>4. /\ AnyLoader!OwnPagesKept' /\ LinkInv'
      /\ \A d, t, dll, call : Wanted(d, t, dll, call)' = Wanted(d, t, dll, call)
      /\ \A d, t : IsSlot(d, t)' = IsSlot(d, t)
      /\ \A call : NoStub(call)' = NoStub(call) /\ Settled(call)' = Settled(call)
      /\ \A dll, call : NoneWanted(dll, call)' = NoneWanted(dll, call)
  BY <1>1, SearchKeeps
<1>5. \A d, t \in Nat : ~(IsSlot(d, t)' /\ WalkedOver(d, t)')
  BY DEF IsSlot, WalkedOver
<1>6. \A k \in 1..Len(AnySocketCalls) :
        IF k < hooking[1] THEN Settled(AnySocketCalls[k]) ELSE NoStub(AnySocketCalls[k])
  BY <1>1 DEF LoadedInv, HookInv
<1>7. hooking[2] = 2 => NoneWanted(AnyLoader!Dlls[1], AnySocketCalls[hooking[1]])
  BY <1>1 DEF LoadedInv, HookInv
<1>8. HookInv'
  <2>1. CASE hooking[2] = 1
    <3>1. hooking' = <<hooking[1], 2>> /\ hooking'[1] = hooking[1] /\ hooking'[2] = 2
      BY <1>1, <2>1
    <3>2. NoneWanted(AnyLoader!Dlls[1], AnySocketCalls[hooking[1]])
      BY <1>1, <2>1
    <3> QED
      BY <1>1, <1>4, <1>5, <1>6, <3>1, <3>2 DEF HookInv, Wanted
  <2>2. CASE hooking[2] = 2
    <3>1. hooking' = <<hooking[1] + 1, 1>> /\ hooking'[1] = hooking[1] + 1 /\ hooking'[2] = 1
      BY <1>1, <2>2
    <3>2. NoneWanted(AnyLoader!Dlls[2], AnySocketCalls[hooking[1]])
      BY <1>1, <2>2
    <3>3. Settled(AnySocketCalls[hooking[1]])
      <4>1. NoStub(AnySocketCalls[hooking[1]])
        BY <1>2, <1>6
      <4> QED
        BY <1>7, <2>2, <3>2, <4>1 DEF Settled
    <3>4. \A k \in 1..Len(AnySocketCalls) :
            IF k < hooking'[1] THEN Settled(AnySocketCalls[k]) ELSE NoStub(AnySocketCalls[k])
      BY <1>2, <1>6, <3>1, <3>3
    <3> QED
      BY <1>1, <1>4, <1>5, <3>1, <3>4 DEF HookInv, Wanted
  <2> QED
    BY <1>2, <2>1, <2>2
<1> QED
  BY <1>3, <1>4, <1>8 DEF LoadedInv

\* A dll that an import by ordinal is bound to is in memory, and has the function:
\* so its table is searched.
LEMMA WantedIsSearched ==
  ASSUME ImagesAreFiles, LoadedInv, loaderAt = "hooks",
         NEW d \in Nat, NEW t \in Nat, Wanted(d, t, AnyLoader!Dll, AnyLoader!Call)
  PROVE  AnyLoader!Searched
<1>1. /\ IsSlot(d, t) /\ Import(d, t).ordinal /\ AnyLoader!Lower(d) = AnyLoader!Dll
      /\ Import(d, t).function = AnyLoader!Call
  BY DEF Wanted
<1>2. d \in DOMAIN table /\ t \in DOMAIN table[d]
  BY <1>1 DEF LoadedInv, LoaderTypes, IsSlot
<1>3. BoundBy(d, t) \/ Stubbed(d, t)
  BY <1>1 DEF LoadedInv, LinkInv
<1>4. CASE BoundBy(d, t)
  <2>1. /\ table[d][t] = <<"system", AnyLoader!Dll, AnyLoader!Call>>
        /\ <<AnyLoader!Dll, AnyLoader!Call>> \in AnyExports
        /\ table[d][t] # AnyLoader!Nothing
    BY <1>1, <1>4, FunctionIs DEF BoundBy
  <2>2. table[d][t][1] \in {"system", "stub"}
    BY <2>1
  <2> QED
    BY <1>1, <1>2, <2>1, <2>2 DEF AnyLoader!Searched, AnyLoader!InMemory
<1>5. CASE Stubbed(d, t)
  <2>1. /\ table[d][t] = <<"stub", AnyLoader!Call>>
        /\ <<AnyLoader!Dll, AnyLoader!Call>> \in AnyExports
    BY <1>1, <1>5 DEF Stubbed
  <2>2. table[d][t][1] \in {"system", "stub"} /\ table[d][t] # AnyLoader!Nothing
    BY <2>1 DEF AnyLoader!Nothing
  <2> QED
    BY <1>1, <1>2, <2>1, <2>2 DEF AnyLoader!Searched, AnyLoader!InMemory
<1> QED
  BY <1>3, <1>4, <1>5

LEMMA LoaderSkipsDll ==
  ASSUME ImagesAreFiles, CallsDiffer, LoadedInv, AnyLoader!NotSearched
  PROVE  LoadedInv'
<1>1. /\ AnyLoader!Hooking /\ ~AnyLoader!Searched /\ AnyLoader!NotFound /\ next' = <<1, 1>>
      /\ UNCHANGED <<loaderAt, image, memory, table>> /\ loaderAt = "hooks"
  BY DEF AnyLoader!NotSearched, AnyLoader!Hooking
<1>2. NoneWanted(AnyLoader!Dll, AnyLoader!Call)
  BY <1>1, WantedIsSearched DEF NoneWanted
<1> QED
  BY <1>1, <1>2, SearchFails

LEMMA LoaderEndsTable ==
  ASSUME ImagesAreFiles, CallsDiffer, LoadedInv, AnyLoader!TableEnds
  PROVE  LoadedInv'
<1>1. /\ AnyLoader!Hooking /\ AnyLoader!NotFound /\ next' = <<1, 1>>
      /\ UNCHANGED <<loaderAt, image, memory, table>> /\ loaderAt = "hooks"
      /\ ~(next[1] <= Len(image.imports))
      /\ hooking[1] <= Len(AnySocketCalls)
  BY DEF AnyLoader!TableEnds, AnyLoader!Hooking, AnyLoader!Walks
<1>2. \A d, t \in Nat : WalkedOver(d, t) => ~Wanted(d, t, AnyLoader!Dll, AnyLoader!Call)
  BY <1>1 DEF LoadedInv, HookInv, AnyLoader!Dll, AnyLoader!Call
<1>3. \A d, t \in Nat : IsSlot(d, t) => WalkedOver(d, t)
  BY <1>1, ImageIs DEF LoadedInv, LoaderTypes, IsSlot, WalkedOver
<1>4. NoneWanted(AnyLoader!Dll, AnyLoader!Call)
  BY <1>2, <1>3 DEF NoneWanted, Wanted
<1> QED
  BY <1>1, <1>4, SearchFails

\* Steps over what is not looked for.
LEMMA LoaderSteps ==
  ASSUME ImagesAreFiles, LoadedInv, AnyLoader!OtherDescriptor \/ AnyLoader!OtherThunk
  PROVE  LoadedInv'
<1>1. /\ loaderAt = "hooks" /\ hooking[1] <= Len(AnySocketCalls)
      /\ UNCHANGED <<loaderAt, image, memory, table, hooking>>
      /\ next[1] <= Len(image.imports)
  BY DEF AnyLoader!OtherDescriptor, AnyLoader!OtherThunk, AnyLoader!Inspects,
         AnyLoader!Hooking, AnyLoader!Walks
<1>2. \/ /\ next' = <<next[1] + 1, 1>>
         /\ \/ AnyLoader!Lower(next[1]) # AnyLoader!Dll
            \/ ~(next[2] <= Len(image.imports[next[1]].thunks))
      \/ /\ next' = <<next[1], next[2] + 1>>
         /\ ~(Import(next[1], next[2]).ordinal /\ Import(next[1], next[2]).function = AnyLoader!Call)
  BY DEF AnyLoader!OtherDescriptor, AnyLoader!OtherThunk, AnyLoader!NextDescriptor,
         AnyLoader!NextThunk, AnyLoader!Found, AnyLoader!Thunks, AnyLoader!AtThunk, Import
<1>3. LoaderTypes /\ next[1] \in Nat \ {0} /\ next[2] \in Nat \ {0} /\ LoaderTypes'
  BY <1>1, <1>2 DEF LoadedInv, LoaderTypes
<1>4. /\ AnyLoader!OwnPagesKept' /\ LinkInv'
      /\ \A d, t, dll, call : Wanted(d, t, dll, call)' = Wanted(d, t, dll, call)
      /\ \A call : NoStub(call)' = NoStub(call) /\ Settled(call)' = Settled(call)
      /\ \A dll, call : NoneWanted(dll, call)' = NoneWanted(dll, call)
  BY <1>1, SearchKeeps
<1>5. \A d, t \in Nat : WalkedOver(d, t) => ~Wanted(d, t, AnyLoader!Dll, AnyLoader!Call)
  BY <1>1 DEF LoadedInv, HookInv, AnyLoader!Dll, AnyLoader!Call
<1>6. ASSUME NEW d \in Nat, NEW t \in Nat, WalkedOver(d, t)'
      PROVE  ~Wanted(d, t, AnyLoader!Dll, AnyLoader!Call)
  <2> SUFFICES ASSUME IsSlot(d, t) PROVE ~Wanted(d, t, AnyLoader!Dll, AnyLoader!Call)
    BY Zenon DEF Wanted
  <2>0. t # 0
    BY DEF IsSlot
  <2>1. CASE WalkedOver(d, t)
    BY <1>5, <2>1
  <2>2. CASE ~WalkedOver(d, t) /\ next' = <<next[1] + 1, 1>>
    <3>1. d = next[1] /\ ~(t < next[2])
      BY <1>3, <1>6, <2>0, <2>2 DEF WalkedOver
    <3>2. AnyLoader!Lower(d) # AnyLoader!Dll \/ ~(next[2] <= Len(image.imports[d].thunks))
      BY <1>2, <1>3, <2>2, <3>1
    <3>3. Len(image.imports[d].thunks) \in Nat
      BY <1>1, <1>3, <3>1, ImageIs
    <3> QED
      BY <1>3, <3>1, <3>2, <3>3 DEF Wanted, IsSlot
  <2>3. CASE ~WalkedOver(d, t) /\ next' = <<next[1], next[2] + 1>>
    <3>1. d = next[1] /\ t = next[2]
      BY <1>3, <1>6, <2>3 DEF WalkedOver
    <3>2. ~(Import(d, t).ordinal /\ Import(d, t).function = AnyLoader!Call)
      BY <1>2, <1>3, <2>3, <3>1
    <3> QED
      BY <3>2, Zenon DEF Wanted
  <2> QED
    BY <1>2, <2>1, <2>2, <2>3
<1>7. HookInv'
  <2>1. HookInv
    BY DEF LoadedInv
  <2>2. hooking' = hooking /\ loaderAt' = loaderAt
    BY <1>1
  <2>3. \A d, t \in Nat : WalkedOver(d, t)' =>
          ~Wanted(d, t, AnyLoader!Dlls[hooking[2]], AnySocketCalls[hooking[1]])'
    BY <1>4, <1>6, <2>2 DEF AnyLoader!Dll, AnyLoader!Call
  <2> QED
    BY <1>1, <1>4, <2>1, <2>2, <2>3 DEF HookInv
<1> QED
  BY <1>3, <1>4, <1>7 DEF LoadedInv

LEMMA LoaderEnters ==
  ASSUME CallsDiffer, LoadedInv, AnyLoader!Enter
  PROVE  LoadedInv'
<1>1. /\ loaderAt = "hooks" /\ loaderAt' = "running" /\ next' = <<1, 1>>
      /\ ~(hooking[1] <= Len(AnySocketCalls))
      /\ UNCHANGED <<image, memory, table, hooking>>
  BY DEF AnyLoader!Enter, AnyLoader!Hooking, AnyLoader!Goto
<1>2. /\ LoaderTypes /\ hooking[1] \in Nat /\ Len(AnySocketCalls) \in Nat
      /\ LoaderTypes' /\ AnyLoader!OwnPagesKept'
  BY <1>1, LenProperties DEF LoadedInv, LoaderTypes, CallsDiffer, AnyLoader!OwnPagesKept
<1>3. LinkInv'
  <2>1. \A d, t : IsSlot(d, t)' = IsSlot(d, t)
    BY <1>1 DEF IsSlot
  <2>2. \A d, t : BoundBy(d, t)' = BoundBy(d, t)
    BY <1>1 DEF BoundBy, Import, AnyLoader!Lower, AnyLoader!Function, AnyLoader!Resolver
  <2>3. \A d, t : Stubbed(d, t)' = Stubbed(d, t)
    BY <1>1 DEF Stubbed, Import, AnyLoader!Lower
  <2>4. \A d, t \in Nat : IsSlot(d, t) => BoundBy(d, t) \/ Stubbed(d, t)
    BY <1>1 DEF LoadedInv, LinkInv
  <2>5. \A d, t \in Nat : IsSlot(d, t)' => BoundBy(d, t)' \/ Stubbed(d, t)'
    BY <2>1, <2>2, <2>3, <2>4
  <2> QED
    BY <1>1, <2>5 DEF LinkInv
<1>4. HookInv'
  <2>1. \A call : NoStub(call)' = NoStub(call)
    BY <1>1 DEF NoStub, StubAt, IsSlot
  <2>2. \A call : Settled(call)' = Settled(call)
    BY <1>1 DEF Settled, NoStub, NoneWanted, StubAt, Wanted, IsSlot, Import, AnyLoader!Lower
  <2>3. \A k \in 1..Len(AnySocketCalls) :
          IF k < hooking[1] THEN Settled(AnySocketCalls[k]) ELSE NoStub(AnySocketCalls[k])
    BY <1>1 DEF LoadedInv, HookInv
  <2> QED
    BY <1>1, <1>2, <2>1, <2>2, <2>3 DEF HookInv
<1> QED
  BY <1>2, <1>3, <1>4 DEF LoadedInv

\* The first import that is found is replaced: it was bound to no stub, since the
\* calls differ, and the call is settled.
LEMMA LoaderHooks ==
  ASSUME ImagesAreFiles, CallsDiffer, LoadedInv, AnyLoader!Hook
  PROVE  LoadedInv'
<1>0. PICK d0, t0, call, dll : /\ d0 = next[1] /\ t0 = next[2]
                               /\ call = AnySocketCalls[hooking[1]]
                               /\ dll = AnyLoader!Dlls[hooking[2]]
  OBVIOUS
<1>1. /\ loaderAt = "hooks" /\ hooking[1] <= Len(AnySocketCalls)
      /\ d0 <= Len(image.imports) /\ t0 <= Len(image.imports[d0].thunks)
      /\ AnyLoader!Lower(d0) = dll
      /\ Import(d0, t0).ordinal /\ Import(d0, t0).function = call
      /\ table' = [table EXCEPT ![d0][t0] = <<"stub", call>>]
      /\ hooking' = <<hooking[1] + 1, 1>> /\ next' = <<1, 1>>
      /\ UNCHANGED <<loaderAt, image, memory>>
      /\ AnyLoader!Searched
  BY <1>0 DEF AnyLoader!Hook, AnyLoader!Inspects, AnyLoader!Hooking, AnyLoader!Walks, AnyLoader!Found,
         AnyLoader!Thunks, AnyLoader!AtThunk, AnyLoader!Dll, AnyLoader!Call, Import
<1>2. /\ LoaderTypes /\ d0 \in Nat \ {0} /\ t0 \in Nat \ {0} /\ IsSlot(d0, t0)
      /\ hooking[1] \in 1..Len(AnySocketCalls) /\ hooking[1] \in Nat /\ hooking[2] \in {1, 2}
      /\ Len(AnySocketCalls) \in Nat
  BY <1>0, <1>1, ImageIs, LenProperties DEF LoadedInv, LoaderTypes, IsSlot, CallsDiffer
<1>3. <<dll, call>> \in AnyExports
  BY <1>0, <1>1 DEF AnyLoader!Searched, AnyLoader!Dll, AnyLoader!Call
<1>4. LoaderTypes' /\ \A d, t \in Nat : IsSlot(d, t) =>
        table'[d][t] = IF d = d0 /\ t = t0 THEN <<"stub", call>> ELSE table[d][t]
  BY <1>1, <1>2 DEF LoaderTypes, IsSlot
<1>5. AnyLoader!OwnPagesKept'
  BY <1>1 DEF LoadedInv, AnyLoader!OwnPagesKept
<1>6. /\ \A d, t : IsSlot(d, t)' = IsSlot(d, t)
      /\ \A d, t, l, c : Wanted(d, t, l, c)' = Wanted(d, t, l, c)
      /\ \A l, c : NoneWanted(l, c)' = NoneWanted(l, c)
  <2>1. image' = image
    BY <1>1
  <2> QED
    BY <2>1 DEF Wanted, NoneWanted, IsSlot, Import, AnyLoader!Lower
<1>7. ASSUME NEW d \in Nat, NEW t \in Nat, IsSlot(d, t)
      PROVE  BoundBy(d, t)' \/ Stubbed(d, t)'
  <2>1. BoundBy(d, t) \/ Stubbed(d, t)
    BY <1>1, <1>7 DEF LoadedInv, LinkInv
  <2>2. Import(d, t)' = Import(d, t) /\ AnyLoader!Lower(d)' = AnyLoader!Lower(d)
        /\ AnyLoader!Function(d, Import(d, t))' = AnyLoader!Function(d, Import(d, t))
    BY <1>1 DEF Import, AnyLoader!Lower, AnyLoader!Function, AnyLoader!Resolver
  <2>3. CASE d = d0 /\ t = t0
    <3>1. \E i \in 1..2 : AnyLoader!Lower(d) = AnyLoader!Dlls[i]
      BY <1>0, <1>1, <1>2, <2>3
    <3>2. table'[d][t] = <<"stub", call>>
      BY <1>4, <1>7, <2>3
    <3> QED
      BY <1>1, <1>3, <2>2, <2>3, <3>1, <3>2 DEF Stubbed
  <2>4. CASE ~(d = d0 /\ t = t0)
    <3>1. table'[d][t] = table[d][t]
      BY <1>4, <1>7, <2>4
    <3> QED
      BY <2>1, <2>2, <3>1 DEF BoundBy, Stubbed
  <2> QED
    BY <2>3, <2>4
<1>8. LinkInv'
  BY <1>1, <1>6, <1>7 DEF LinkInv
<1>9. \A k \in 1..Len(AnySocketCalls) :
        IF k < hooking[1] THEN Settled(AnySocketCalls[k]) ELSE NoStub(AnySocketCalls[k])
  BY <1>1 DEF LoadedInv, HookInv
<1>10. \A d, t \in Nat : \A c : IsSlot(d, t) =>
         (StubAt(d, t, c)' <=> IF d = d0 /\ t = t0 THEN c = call ELSE StubAt(d, t, c))
  BY <1>4, <1>6 DEF StubAt
<1>11. \A c : ~StubAt(d0, t0, c)
  <2> SUFFICES ASSUME NEW c, StubAt(d0, t0, c) PROVE FALSE
    OBVIOUS
  <2>1. BoundBy(d0, t0) \/ Stubbed(d0, t0)
    BY <1>1, <1>2 DEF LoadedInv, LinkInv
  <2>2. ~BoundBy(d0, t0)
    <3> SUFFICES ASSUME BoundBy(d0, t0) PROVE FALSE
      OBVIOUS
    <3>1. table[d0][t0][1] # "stub"
      BY FunctionIs DEF BoundBy
    <3> QED
      BY <3>1 DEF StubAt
  <2>3. table[d0][t0] = <<"stub", call>>
    BY <1>1, <2>1, <2>2 DEF Stubbed
  <2>4. NoStub(call)
    BY <1>0, <1>2, <1>9
  <2> QED
    BY <1>2, <2>3, <2>4 DEF NoStub, StubAt
<1>12. ASSUME NEW c, c # call
       PROVE  /\ \A d, t \in Nat : StubAt(d, t, c)' <=> StubAt(d, t, c)
              /\ NoStub(c) => NoStub(c)'
              /\ Settled(c) => Settled(c)'
  <2>1. \A d, t \in Nat : StubAt(d, t, c)' <=> StubAt(d, t, c)
    <3> SUFFICES ASSUME NEW d \in Nat, NEW t \in Nat
                 PROVE  StubAt(d, t, c)' <=> StubAt(d, t, c)
      OBVIOUS
    <3>1. CASE IsSlot(d, t)
      BY <1>10, <1>11, <1>12, <3>1, Zenon
    <3>2. CASE ~IsSlot(d, t)
      BY <1>6, <3>2 DEF StubAt
    <3> QED
      BY <3>1, <3>2
  <2> QED
    BY <1>6, <2>1 DEF NoStub, Settled
<1>13. Settled(call)'
  <2>1. \A d, t \in Nat : StubAt(d, t, call)' <=> d = d0 /\ t = t0
    <3>1. \A d, t \in Nat : ~StubAt(d, t, call)
      BY <1>0, <1>2, <1>9 DEF NoStub
    <3>2. ASSUME NEW d \in Nat, NEW t \in Nat
          PROVE  StubAt(d, t, call)' <=> d = d0 /\ t = t0
      <4>1. CASE IsSlot(d, t)
        BY <1>10, <3>1, <4>1, Zenon
      <4>2. CASE ~IsSlot(d, t)
        BY <1>2, <1>6, <4>2 DEF StubAt
      <4> QED
        BY <4>1, <4>2
    <3> QED
      BY <3>2
  <2>2. \E i \in 1..2 : Wanted(d0, t0, AnyLoader!Dlls[i], call)'
    <3>1. PICK i \in 1..2 : dll = AnyLoader!Dlls[i]
      BY <1>0, <1>2
    <3>2. Wanted(d0, t0, AnyLoader!Dlls[i], call)
      BY <1>1, <1>2, <3>1 DEF Wanted
    <3> QED
      BY <1>6, <3>2
  <2> QED
    BY <1>2, <2>1, <2>2 DEF Settled
<1>14. HookInv'
  <2>1. hooking'[1] = hooking[1] + 1 /\ hooking'[2] = 1 /\ loaderAt' = "hooks"
    BY <1>1
  <2>2. ASSUME NEW k \in 1..Len(AnySocketCalls)
        PROVE  IF k < hooking'[1] THEN Settled(AnySocketCalls[k])' ELSE NoStub(AnySocketCalls[k])'
    <3>1. CASE k = hooking[1]
      BY <1>0, <1>2, <1>13, <2>1, <3>1
    <3>2. CASE k # hooking[1]
      <4>1. AnySocketCalls[k] # call
        BY <1>0, <1>2, <3>2 DEF CallsDiffer
      <4>2. k < hooking[1] <=> k < hooking'[1]
        BY <1>2, <2>1, <3>2
      <4> QED
        BY <1>9, <1>12, <4>1, <4>2
    <3> QED
      BY <3>1, <3>2
  <2>3. \A d, t \in Nat : ~(IsSlot(d, t)' /\ WalkedOver(d, t)')
    BY <1>1 DEF IsSlot, WalkedOver
  <2>4. \A l, c : \A d, t \in Nat : WalkedOver(d, t)' => ~Wanted(d, t, l, c)'
    <3> SUFFICES ASSUME NEW l, NEW c, NEW d \in Nat, NEW t \in Nat, WalkedOver(d, t)'
                 PROVE  ~Wanted(d, t, l, c)'
      OBVIOUS
    <3>1. ~IsSlot(d, t)
      BY <1>6, <2>3
    <3>2. ~Wanted(d, t, l, c)
      BY <3>1 DEF Wanted
    <3> QED
      BY <1>6, <3>2
  <2>5. \A k \in 1..Len(AnySocketCalls) :
          (IF k < hooking[1] THEN Settled(AnySocketCalls[k]) ELSE NoStub(AnySocketCalls[k]))'
    BY <2>2
  <2>6. \A d, t \in Nat : WalkedOver(d, t)' =>
          ~Wanted(d, t, AnyLoader!Dlls[hooking[2]], AnySocketCalls[hooking[1]])'
    BY <2>4
  <2>7. hooking'[2] # 2 /\ loaderAt' # "running"
    BY <2>1
  <2> QED
    BY <2>5, <2>6, <2>7 DEF HookInv
<1> QED
  BY <1>4, <1>5, <1>8, <1>14 DEF LoadedInv

\* Each step of the loading keeps it.
LEMMA LoaderStep ==
  ASSUME ImagesAreFiles, CallsDiffer, LoadedInv, [AnyLoader!Next]_(AnyLoader!vars)
  PROVE  LoadedInv'
<1>1. CASE AnyLoader!BaseFails \/ AnyLoader!PatchFails \/ AnyLoader!NoImage \/ AnyLoader!SectionThrows
  <2>1. AnyLoader!Fails
    BY <1>1 DEF AnyLoader!BaseFails, AnyLoader!PatchFails, AnyLoader!NoImage, AnyLoader!SectionThrows
  <2> QED
    BY <2>1, LoaderFails
<1>2. CASE AnyLoader!BinaryBuilt \/ AnyLoader!SectionsLoaded
  BY <1>2, LoaderGoesOn
<1>3. CASE AnyLoader!LoadSection
  BY <1>3, LoaderCopies
<1>4. CASE AnyLoader!ResolveImport
  BY <1>4, LoaderLinks
<1>5. CASE AnyLoader!DescriptorDone
  BY <1>5, LoaderNextDescriptor
<1>6. CASE AnyLoader!ImportsLoaded
  BY <1>6, LoaderLinked
<1>7. CASE AnyLoader!NotSearched
  BY <1>7, LoaderSkipsDll
<1>8. CASE AnyLoader!TableEnds
  BY <1>8, LoaderEndsTable
<1>9. CASE AnyLoader!OtherDescriptor \/ AnyLoader!OtherThunk
  BY <1>9, LoaderSteps
<1>10. CASE AnyLoader!Hook
  BY <1>10, LoaderHooks
<1>11. CASE AnyLoader!Enter
  BY <1>11, LoaderEnters
<1>12. CASE UNCHANGED AnyLoader!vars
  <2>1. UNCHANGED <<loaderAt, image, memory, table, next, hooking>>
    BY <1>12 DEF AnyLoader!vars
  <2>2. LoaderTypes' /\ AnyLoader!OwnPagesKept'
    BY <2>1 DEF LoadedInv, LoaderTypes, AnyLoader!OwnPagesKept
  <2>3. /\ \A d, t : IsSlot(d, t)' = IsSlot(d, t)
        /\ \A d, t : WalkedOver(d, t)' = WalkedOver(d, t)
        /\ \A d, t, l, c : Wanted(d, t, l, c)' = Wanted(d, t, l, c)
        /\ \A l, c : NoneWanted(l, c)' = NoneWanted(l, c)
        /\ \A c : NoStub(c)' = NoStub(c)
    BY <2>1 DEF IsSlot, WalkedOver, Wanted, NoneWanted, NoStub, StubAt, Import, AnyLoader!Lower
  <2>4. \A c : Settled(c)' = Settled(c)
    BY <2>1 DEF Settled, NoStub, NoneWanted, StubAt, Wanted, IsSlot, Import, AnyLoader!Lower
  <2>5. \A d, t : BoundBy(d, t)' = BoundBy(d, t)
    BY <2>1 DEF BoundBy, Import, AnyLoader!Lower, AnyLoader!Function, AnyLoader!Resolver
  <2>6. \A d, t : Stubbed(d, t)' = Stubbed(d, t)
    BY <2>1 DEF Stubbed, Import, AnyLoader!Lower
  <2>7. LinkInv'
    <3>1. LinkInv
      BY DEF LoadedInv
    <3> QED
      BY <2>1, <2>3, <2>5, <2>6, <3>1 DEF LinkInv
  <2>8. HookInv'
    <3>1. HookInv
      BY DEF LoadedInv
    <3> QED
      BY <2>1, <2>3, <2>4, <3>1 DEF HookInv
  <2> QED
    BY <2>2, <2>7, <2>8 DEF LoadedInv
<1> QED
  BY <1>1, <1>2, <1>3, <1>4, <1>5, <1>6, <1>7, <1>8, <1>9, <1>10, <1>11, <1>12 DEF AnyLoader!Next

\* The pairs that the properties speak of are the descriptors and their thunks.
LEMMA SlotsAre ==
  ASSUME LoaderTypes
  PROVE  \A s : s \in AnyLoader!Slots <=> \E d, t \in Nat : s = <<d, t>> /\ IsSlot(d, t)
<1> SUFFICES ASSUME NEW s
             PROVE  s \in AnyLoader!Slots <=> \E d, t \in Nat : s = <<d, t>> /\ IsSlot(d, t)
  OBVIOUS
<1>1. ASSUME s \in AnyLoader!Slots
      PROVE  \E d, t \in Nat : s = <<d, t>> /\ IsSlot(d, t)
  <2>1. PICK d \in DOMAIN table : s \in {d} \X DOMAIN table[d]
    BY <1>1 DEF AnyLoader!Slots
  <2>2. PICK t \in DOMAIN table[d] : s = <<d, t>>
    BY <2>1
  <2> QED
    BY <2>1, <2>2 DEF LoaderTypes, IsSlot
<1>2. ASSUME NEW d \in Nat, NEW t \in Nat, s = <<d, t>>, IsSlot(d, t)
      PROVE  s \in AnyLoader!Slots
  BY <1>2 DEF LoaderTypes, IsSlot, AnyLoader!Slots
<1> QED
  BY <1>1, <1>2

\* Where the game is entered, each import is bound, and to what it should be.
LEMMA LoaderBinds ==
  ASSUME ImagesAreFiles, LoadedInv
  PROVE  AnyLoader!EveryImportBound
<1> SUFFICES ASSUME loaderAt = "running", NEW s \in AnyLoader!Slots
             PROVE  /\ AnyLoader!Bound(s) # AnyLoader!Nothing
                    /\ ~AnyLoader!Thunk(s).ordinal /\ AnyLoader!Thunk(s).function = "ExitProcess"
                         => \/ AnyLoader!Bound(s) = <<"exit_hook">>
                            \/ image.imports[s[1]].dll = "steam_api.dll"
                    /\ AnyLoader!Lower(s[1]) = "steam_api.dll" /\ AnyLoader!Bound(s)[1] = "system"
                         => \/ AnyLoader!Thunk(s).ordinal
                            \/ AnyLoader!Thunk(s).function \notin AnyOwnExports
                            \/ image.imports[s[1]].dll # "steam_api.dll"
  BY DEF AnyLoader!EveryImportBound
<1>1. PICK d, t \in Nat : s = <<d, t>> /\ IsSlot(d, t)
  BY SlotsAre DEF LoadedInv
<1>2. /\ AnyLoader!Thunk(s) = Import(d, t) /\ AnyLoader!Bound(s) = table[d][t] /\ s[1] = d
      /\ Import(d, t).ordinal \in BOOLEAN
  BY <1>1, ImageIs DEF AnyLoader!Thunk, AnyLoader!Bound, Import, IsSlot, LoadedInv
<1>3. CASE BoundBy(d, t)
  BY <1>2, <1>3, FunctionIs DEF BoundBy
<1>4. CASE Stubbed(d, t)
  <2>1. table[d][t] = <<"stub", Import(d, t).function>> /\ Import(d, t).ordinal
    BY <1>4 DEF Stubbed
  <2>2. table[d][t] # <<>> /\ table[d][t][1] # "system"
    BY <2>1
  <2> QED
    BY <1>2, <2>1, <2>2 DEF AnyLoader!Nothing
<1> QED
  BY <1>1, <1>3, <1>4 DEF LoadedInv, LinkInv

\* And each call that is imported is replaced in one place.
LEMMA LoaderReplaces ==
  ASSUME CallsDiffer, LoadedInv
  PROVE  AnyLoader!OnePlaceEach
<1> SUFFICES ASSUME loaderAt = "running", NEW k \in DOMAIN AnySocketCalls
             PROVE  Cardinality(AnyLoader!Replaces(AnySocketCalls[k])) =
                      IF AnyLoader!Importing(AnySocketCalls[k]) = {} THEN 0 ELSE 1
  <2>1. \A S : AnyLoader!Cardinality(S) = Cardinality(S)
    BY Zenon DEF AnyLoader!Cardinality, Cardinality
  <2> QED
    BY <2>1 DEF AnyLoader!OnePlaceEach
<1>1. PICK call : call = AnySocketCalls[k]
  OBVIOUS
<1>2. Settled(call)
  <2>1. /\ k \in 1..Len(AnySocketCalls) /\ Len(AnySocketCalls) \in Nat
        /\ hooking[1] \in Nat /\ hooking[1] > Len(AnySocketCalls)
    BY LenProperties DEF CallsDiffer, LoadedInv, LoaderTypes, HookInv
  <2> QED
    BY <1>1, <2>1 DEF LoadedInv, HookInv
<1>3. \A s : s \in AnyLoader!Replaces(call) <=>
        \E d, t \in Nat : s = <<d, t>> /\ StubAt(d, t, call)
  <2>1. \A d, t : AnyLoader!Bound(<<d, t>>) = table[d][t]
    BY DEF AnyLoader!Bound
  <2>2. \A s : s \in AnyLoader!Slots <=> \E d, t \in Nat : s = <<d, t>> /\ IsSlot(d, t)
    BY SlotsAre DEF LoadedInv
  <2>3. AnyLoader!Replaces(call) =
          {s \in AnyLoader!Slots : AnyLoader!Bound(s) = <<"stub", call>>}
    BY DEF AnyLoader!Replaces
  <2> QED
    BY <2>1, <2>2, <2>3 DEF StubAt
<1>4. \A s : s \in AnyLoader!Importing(call) <=>
        \E d, t \in Nat : s = <<d, t>> /\ \E i \in 1..2 : Wanted(d, t, AnyLoader!Dlls[i], call)
  <2>1. \A d, t : AnyLoader!Thunk(<<d, t>>) = Import(d, t) /\ <<d, t>>[1] = d
    BY DEF AnyLoader!Thunk, Import
  <2>2. \A s : s \in AnyLoader!Slots <=> \E d, t \in Nat : s = <<d, t>> /\ IsSlot(d, t)
    BY SlotsAre DEF LoadedInv
  <2>3. \A s : s \in AnyLoader!Importing(call) <=>
          /\ s \in AnyLoader!Slots
          /\ AnyLoader!Thunk(s).ordinal /\ AnyLoader!Thunk(s).function = call
          /\ \E i \in 1..2 : AnyLoader!Lower(s[1]) = AnyLoader!Dlls[i]
    BY DEF AnyLoader!Importing
  <2> QED
    BY <2>1, <2>2, <2>3 DEF Wanted
<1>5. CASE NoStub(call) /\ \A i \in 1..2 : NoneWanted(AnyLoader!Dlls[i], call)
  <2>1. AnyLoader!Replaces(call) = {} /\ AnyLoader!Importing(call) = {}
    BY <1>3, <1>4, <1>5 DEF NoStub, NoneWanted
  <2> QED
    BY <1>1, <2>1, FS_EmptySet
<1>6. CASE \E d, t \in Nat : /\ \E i \in 1..2 : Wanted(d, t, AnyLoader!Dlls[i], call)
                             /\ \A e, u \in Nat : StubAt(e, u, call) <=> e = d /\ u = t
  <2>1. PICK d, t \in Nat : /\ \E i \in 1..2 : Wanted(d, t, AnyLoader!Dlls[i], call)
                            /\ \A e, u \in Nat : StubAt(e, u, call) <=> e = d /\ u = t
    BY <1>6
  <2>2. AnyLoader!Replaces(call) = {<<d, t>>}
    BY <1>3, <2>1
  <2>3. <<d, t>> \in AnyLoader!Importing(call)
    BY <1>4, <2>1
  <2> QED
    BY <1>1, <2>2, <2>3, FS_Singleton
<1> QED
  BY <1>2, <1>5, <1>6 DEF Settled

\* THEOREM. Whatever is in the image, the program's own pages are overwritten only
\* by a section that begins inside of the payload and runs over its end; the game
\* is entered only with every import bound, ExitProcess to pre_destroy's hook and
\* a Steam function to the program's own; and each socket function that the image
\* imports by ordinal then leads to dw in exactly one place.
THEOREM Loader_Right ==
  ASSUME ImagesAreFiles, CallsDiffer
  PROVE  AnyLoader!Spec =>
           [](AnyLoader!OwnPagesKept /\ AnyLoader!EveryImportBound /\ AnyLoader!OnePlaceEach)
<1>1. AnyLoader!Init => LoadedInv
  BY LoaderStart
<1>2. LoadedInv /\ [AnyLoader!Next]_(AnyLoader!vars) => LoadedInv'
  BY LoaderStep
<1>3. LoadedInv => AnyLoader!OwnPagesKept /\ AnyLoader!EveryImportBound /\ AnyLoader!OnePlaceEach
  BY LoaderBinds, LoaderReplaces DEF LoadedInv
<1> QED
  BY <1>1, <1>2, <1>3, PTL DEF AnyLoader!Spec
=============================================================================
