----------------------------- MODULE Launcher ------------------------------
(***************************************************************************)
(* launcher/: the mode that main goes on with. Where the command line has  *)
(* none, a window is made that shows a menu page in a browser, and the     *)
(* page's script calls back into the program by name. A window is in the   *)
(* list of windows from before there is one until it is destroyed; the     *)
(* last one ends the message loop. A choice closes the window at once, but *)
(* the script goes on until it returns to the loop, or to load_html, which *)
(* may run it already. Everything here is on the thread of main.           *)
(* External: the window, the OLE library and the browser may each fail.    *)
(***************************************************************************)
EXTENDS Integers, Sequences, SequencesExt

CONSTANTS
  Flags,     \* the command lines: sets of "dedicated", "multiplayer", "singleplayer"
  Variants,  \* arguments a script passes: a type and, of numbers, a value
  MaxArgs,   \* bound: arguments of a call
  MaxCalls   \* bound: calls the page makes

ASSUME VariantsAssumption == Variants \subseteq [vt : STRING, value : Int] /\ MaxArgs \in Nat

\* launcher::mode; the page knows modes by number.
none == 0
singleplayer == 1
multiplayer == 2
server == 3

VARIABLES
  flags,     \* the command line
  mode_,
  menu,      \* how far the menu is: none, create, load, run or gone
  windows_,  \* how many pointers the list of windows holds
  handle_,   \* the window is there
  browser_object_, \* it has a browser
  page,      \* the page has been written into it
  quit,      \* WM_QUIT is in the queue
  script,    \* a script of the page is running
  callbacks_, \* names of the callbacks, in the order they were registered
  ids,       \* the ids GetIDsOfNames gave the page
  outcome,   \* what main goes on with
  calls      \* history: the calls of the script, each a name and arguments

window == <<windows_, handle_, browser_object_, page, quit>>
dispatch == <<callbacks_, ids, calls>>
launcherVars == <<flags, mode_, menu, window, script, dispatch, outcome>>

Names == {"openUrl", "selectMode", "other"}
UNKNOWN == -1     \* DISPID_UNKNOWN
NotAsked == -2
PENDING == -1     \* main has no mode yet
ERROR == -2       \* an exception came to main, which returns 1

LauncherInit ==
  /\ flags \in Flags /\ mode_ = none /\ menu = "none"
  /\ windows_ = 0 /\ handle_ = FALSE /\ browser_object_ = FALSE /\ page = FALSE /\ quit = FALSE
  /\ script = FALSE
  /\ callbacks_ = <<>> /\ ids = [n \in Names |-> NotAsked] /\ calls = <<>>
  /\ outcome = PENDING

\* Mutant of DetectMode: singleplayer is looked for before multiplayer.
DetectModeReversed ==
  IF "dedicated" \in flags THEN server
  ELSE IF "singleplayer" \in flags THEN singleplayer
  ELSE IF "multiplayer" \in flags THEN multiplayer ELSE none

\* detect_mode_from_arguments: the first flag of these that is there.
DetectMode ==
  IF "dedicated" \in flags THEN server
  ELSE IF "multiplayer" \in flags THEN multiplayer
  ELSE IF "singleplayer" \in flags THEN singleplayer ELSE none

UseFlags ==
  /\ outcome = PENDING /\ menu = "none" /\ DetectMode # none
  /\ outcome' = DetectMode
  /\ UNCHANGED <<flags, mode_, menu, window, script, dispatch>>

-----------------------------------------------------------------------------
(* The window and its page.                                                *)

\* The constructors, and create_main_menu up to the window.
Construct ==
  /\ outcome = PENDING /\ menu = "none" /\ DetectMode = none
  /\ menu' = "create"
  /\ callbacks_' = <<"openUrl", "selectMode">>
  /\ UNCHANGED <<flags, mode_, window, script, ids, calls, outcome>>

\* OleInitialize fails in the constructor of html_frame.
ConstructThrows ==
  /\ outcome = PENDING /\ menu = "none" /\ DetectMode = none
  /\ menu' = "gone" /\ outcome' = ERROR
  /\ UNCHANGED <<flags, mode_, window, script, dispatch>>

\* create, and initialize in WM_CREATE. Without a window the pointer stays in
\* the list, and everything else goes on.
CreateWindow(opened, browser) ==
  /\ menu = "create"
  /\ windows_' = windows_ + 1
  /\ handle_' = opened /\ browser_object_' = (opened /\ browser)
  /\ menu' = "load"
  /\ UNCHANGED <<flags, mode_, page, quit, script, dispatch, outcome>>

\* create_browser throws; the window goes with main_window_.
CreateThrows ==
  /\ menu = "create"
  /\ menu' = "gone" /\ outcome' = ERROR /\ quit' = TRUE
  /\ UNCHANGED <<flags, mode_, windows_, handle_, browser_object_, page, script, dispatch>>

\* load_html as far as the document is written.
WritePage ==
  /\ menu = "load" /\ handle_ /\ browser_object_ /\ ~page
  /\ page' = TRUE
  /\ UNCHANGED <<flags, mode_, menu, windows_, handle_, browser_object_, quit, script,
                 dispatch, outcome>>

\* load_html is done, or some call of it failed, which nobody notices.
Show ==
  /\ menu = "load" /\ ~script
  /\ menu' = "run"
  /\ UNCHANGED <<flags, mode_, window, script, dispatch, outcome>>

\* Mutant of Destroyed: the list is asked before the window is taken out of it.
DestroyedCounted ==
  /\ handle_' = FALSE
  /\ windows_' = windows_ - 1
  /\ quit' = (quit \/ windows_ = 0)

\* WM_DESTROY: out of the list, and with the last one the loop is to end.
Destroyed ==
  /\ handle_' = FALSE
  /\ windows_' = windows_ - 1
  /\ quit' = (quit \/ windows_ - 1 = 0)

\* close: a window that is closed stays so.
Close ==
  /\ IF handle_ THEN Destroyed ELSE UNCHANGED <<handle_, windows_, quit>>
  /\ UNCHANGED <<browser_object_, page>>

\* WM_CLOSE comes out of the loop, between scripts: close_all.
UserCloses ==
  /\ menu = "run" /\ handle_ /\ ~script
  /\ Close
  /\ UNCHANGED <<flags, mode_, menu, script, dispatch, outcome>>

\* launcher::run returns when the loop finds WM_QUIT; the launcher goes.
RunReturns ==
  /\ menu = "run" /\ quit /\ ~script
  /\ outcome' = mode_
  /\ menu' = "gone" /\ browser_object_' = FALSE /\ page' = FALSE
  /\ UNCHANGED <<flags, mode_, windows_, handle_, quit, script, dispatch>>

-----------------------------------------------------------------------------
(* The script of the page.                                                 *)

ScriptStarts ==
  /\ menu \in {"load", "run"} /\ handle_ /\ page /\ ~script
  /\ script' = TRUE
  /\ UNCHANGED <<flags, mode_, menu, window, dispatch, outcome>>

ScriptReturns ==
  /\ script
  /\ script' = FALSE
  /\ UNCHANGED <<flags, mode_, menu, window, dispatch, outcome>>

\* get_callback_id: the place of the first callback with the name, from 0.
CallbackId(name) ==
  IF Contains(callbacks_, name)
  THEN SelectInSeq(callbacks_, LAMBDA c : c = name) - 1 ELSE UNKNOWN

GetIDsOfNames(name) ==
  /\ script /\ ids[name] = NotAsked
  /\ ids' = [ids EXCEPT ![name] = CallbackId(name)]
  /\ UNCHANGED <<flags, mode_, menu, window, script, callbacks_, calls, outcome>>

\* Mutant of Arguments: as they lie in rgvarg.
ArgumentsAsTheyLie(rgvarg) == rgvarg

\* callback_params: rgvarg holds the arguments from the last to the first.
Arguments(rgvarg) == Reverse(rgvarg)

\* The callback of selectMode: the mode a call selects, if it selects one.
Choice(arguments) ==
  IF arguments # <<>> /\ arguments[1].vt = "I4"
     /\ arguments[1].value \in {singleplayer, multiplayer}
  THEN {arguments[1].value} ELSE {}

\* select_mode.
SelectMode(mode) == mode_' = mode /\ Close

\* Invoke, from a script that got the id by name; other ids do nothing.
Invoke(name, args) ==
  /\ script /\ ids[name] # NotAsked /\ Len(calls) < MaxCalls
  /\ calls' = Append(calls, [name |-> name, args |-> args])
  /\ LET chosen == Choice(Arguments(Reverse(args)))
     IN  IF ids[name] = 1 /\ chosen # {}
         THEN \E mode \in chosen : SelectMode(mode)
         ELSE UNCHANGED <<mode_, window>>
  /\ UNCHANGED <<flags, menu, script, callbacks_, ids, outcome>>

LauncherNext ==
  \/ UseFlags \/ Construct \/ ConstructThrows \/ CreateThrows
  \/ \E opened, browser \in BOOLEAN : CreateWindow(opened, browser)
  \/ WritePage \/ Show \/ UserCloses \/ RunReturns
  \/ ScriptStarts \/ ScriptReturns
  \/ \E name \in Names :
       \/ GetIDsOfNames(name)
       \/ \E args \in SeqOf(Variants, MaxArgs) : Invoke(name, args)

LauncherSpec == LauncherInit /\ [][LauncherNext]_launcherVars

-----------------------------------------------------------------------------
(* Properties.                                                             *)

\* What the calls of the page come to: the last that selected a mode.
Selecting(c) ==
  /\ c.name = "selectMode" /\ c.args # <<>>
  /\ \E mode \in {singleplayer, multiplayer} : c.args[1] = [vt |-> "I4", value |-> mode]
LastSelected ==
  LET i == SelectLastInSeq(calls, Selecting)
  IN  IF i = 0 THEN none ELSE calls[i].args[1].value

\* The program goes on in the mode the command line asks for, the most demanding
\* flag first, and otherwise in the one the page selected last with a proper
\* number as first argument, even after its window was closed by a choice
\* before. It stops where there is none: the mode "server" cannot be chosen.
OutcomeIsChoice ==
  outcome \notin {PENDING, ERROR} =>
    outcome = IF "dedicated" \in flags THEN server
              ELSE IF "multiplayer" \in flags THEN multiplayer
              ELSE IF "singleplayer" \in flags THEN singleplayer
              ELSE LastSelected

\* The message loop waits for nothing but a window that the user can close, also
\* when a script closed it before there was a loop; only where the window could
\* not be made there is nothing left to end it, and its pointer is all there is.
LoopCanEnd ==
  menu = "run" => handle_ \/ quit \/ (windows_ = 1 /\ ~page /\ mode_ = none)
=============================================================================
