----------------------------- MODULE SteamProxy -----------------------------
(***************************************************************************)
(* module/steam_proxy.cpp: Steam shows the game as running. The proxy logs *)
(* in to the Steam client of the machine, and has the client start a mod:  *)
(* a second process of this same program, told "-proc" and the id of the   *)
(* first. That process does nothing but wait for the first one to end.     *)
(*                                                                         *)
(* The Steam client comes and goes on its own: after loading, a callback   *)
(* in the scheduler looks in every frame, and drops all handles once the   *)
(* client is not logged on any more. SteamInterface models how a method of *)
(* the client's interfaces is found.                                       *)
(***************************************************************************)
EXTENDS Integers

CONSTANTS
  Versions,  \* bound: the versions of the client engine that are tried
  Subscribed \* the user has subscribed to the game

VARIABLES
  phase,     \* how far the first process is
  version,   \* the version of the engine asked for next
  proxy,     \* which members of steam_proxy are set
  client,    \* the Steam client: connected, logged on, and what is open in it
  single,    \* the callbacks of clean_up_on_error in the scheduler
  app,       \* the app id that the mod was started for, 0 if it was not
  child,     \* the second process
  waits,     \* whose end it waits for
  dropped,   \* history: the handles were dropped
  checked    \* history: the client was logged on when it was last looked at

vars == <<phase, version, proxy, client, single, app, child, waits, dropped, checked>>

Members == {"module", "engine", "pipe", "user", "client_user", "client_utils"}
None == [m \in Members |-> FALSE]
WithMembers(set) == [m \in Members |-> proxy[m] \/ m \in set]

Init ==
  /\ phase = "load" /\ version = 1
  /\ proxy = None
  /\ client \in [connected : BOOLEAN, logged_on : BOOLEAN, pipe : {FALSE}, user : {FALSE}]
  /\ single = 0 /\ app = 0
  /\ child = "none" /\ waits = "nobody"
  /\ dropped = FALSE /\ checked = FALSE

ChildUnchanged == UNCHANGED <<child, waits>>
Histories == <<dropped, checked>>

-----------------------------------------------------------------------------
(* load_client.                                                            *)

\* The registry has no path of Steam, or there is no steamclient.dll: a key
\* without the value ends here as well, whatever back() of "" yields.
NoModule ==
  /\ phase = "load"
  /\ phase' = "check"
  /\ UNCHANGED <<version, proxy, client, single, app, Histories>> /\ ChildUnchanged

LoadModule ==
  /\ phase = "load"
  /\ proxy' = WithMembers({"module"})
  /\ phase' = "engine"
  /\ UNCHANGED <<version, client, single, app, Histories>> /\ ChildUnchanged

\* load_client_engine: CreateInterface knows this version.
FindEngine ==
  /\ phase = "engine" /\ version <= Versions
  /\ proxy' = WithMembers({"engine"})
  /\ phase' = "pipe"
  /\ UNCHANGED <<version, client, single, app, Histories>> /\ ChildUnchanged

\* It does not: the next one is tried, and that has no end the code means.
NextVersion ==
  /\ phase = "engine" /\ version <= Versions
  /\ version' = version + 1
  /\ UNCHANGED <<phase, proxy, client, single, app, Histories>> /\ ChildUnchanged

\* The counter has overflowed: no engine.
NoEngine ==
  /\ phase = "engine" /\ version > Versions
  /\ phase' = "check"
  /\ UNCHANGED <<version, proxy, client, single, app, Histories>> /\ ChildUnchanged

\* Steam_CreateSteamPipe and Steam_ConnectToGlobalUser: either may yield null,
\* and a user needs a pipe.
Connect ==
  \E pipe, user \in BOOLEAN :
    /\ phase = "pipe" /\ (user => pipe)
    /\ proxy' = WithMembers({m \in {"pipe", "user"} : IF m = "pipe" THEN pipe ELSE user})
    /\ client' = [client EXCEPT !.pipe = pipe, !.user = user]
    /\ phase' = "clients"
    /\ UNCHANGED <<version, single, app, Histories>> /\ ChildUnchanged

\* GetIClientUser and GetIClientUtils.
GetClients ==
  \E got \in SUBSET {"client_user", "client_utils"} :
    /\ phase = "clients"
    /\ proxy' = WithMembers(got)
    /\ phase' = "check"
    /\ UNCHANGED <<version, client, single, app, Histories>> /\ ChildUnchanged

-----------------------------------------------------------------------------
(* clean_up_on_error, in post_load and in the frames.                      *)

\* Mutant of Usable: one of the two will do.
UsableOr ==
  /\ proxy["module"] /\ proxy["pipe"] /\ proxy["user"]
  /\ client.connected \/ client.logged_on

Usable ==
  /\ proxy["module"] /\ proxy["pipe"] /\ proxy["user"]
  /\ client.connected /\ client.logged_on

\* Nothing is released: the client that had the handles is thought to be gone.
CleanUpOnError(callbacks) ==
  /\ checked' = (client.connected /\ client.logged_on)
  /\ IF Usable
     THEN single' = callbacks + 1 /\ UNCHANGED <<proxy, dropped>>
     ELSE single' = callbacks /\ proxy' = None /\ dropped' = TRUE

CheckOnLoad ==
  /\ phase = "check"
  /\ CleanUpOnError(single)
  /\ phase' = "start"
  /\ UNCHANGED <<version, client, app>> /\ ChildUnchanged

\* Mutant of Frame: the callback is not registered again.
FrameOnce ==
  /\ phase = "running" /\ single > 0
  /\ single' = single - 1
  /\ checked' = (client.connected /\ client.logged_on)
  /\ UNCHANGED <<phase, version, proxy, client, app, dropped>> /\ ChildUnchanged

\* A frame takes the callback out of the list and calls it.
Frame ==
  /\ phase = "running" /\ single > 0
  /\ CleanUpOnError(single - 1)
  /\ UNCHANGED <<phase, version, client, app>> /\ ChildUnchanged

-----------------------------------------------------------------------------
(* start_mod.                                                              *)

\* There is no client to ask, or an interface lacks a method: post_load goes
\* on, whatever start_mod has thrown.
NoMod ==
  /\ phase = "start"
  /\ phase' = "running"
  /\ UNCHANGED <<version, proxy, client, single, app, Histories>> /\ ChildUnchanged

\* Mutant of StartMod: the clients are not looked at.
StartModAnyway ==
  /\ phase = "start"
  /\ app' = (IF Subscribed THEN 42690 ELSE 480)
  /\ child' = "starts"
  /\ phase' = "running"
  /\ UNCHANGED <<version, proxy, client, single, waits, Histories>>

\* SpawnProcess, for the game or for Spacewar; Steam may refuse to start it.
StartMod ==
  /\ phase = "start"
  /\ proxy["client_utils"] /\ proxy["client_user"]
  /\ app' = (IF Subscribed THEN 42690 ELSE 480)
  /\ child' \in {"none", "starts"}
  /\ phase' = "running"
  /\ UNCHANGED <<version, proxy, client, single, waits, Histories>>

-----------------------------------------------------------------------------
(* pre_destroy, and the end of the process.                                *)

\* Mutant of PreDestroy: without a user the pipe is left as well.
PreDestroyWithUser ==
  /\ phase = "running"
  /\ client' = IF proxy["module"] /\ proxy["user"] THEN [client EXCEPT !.user = FALSE] ELSE client
  /\ phase' = "destroyed"
  /\ UNCHANGED <<version, proxy, single, app, Histories>> /\ ChildUnchanged

PreDestroy ==
  /\ phase = "running"
  /\ client' = IF proxy["module"] /\ proxy["pipe"]
               THEN [client EXCEPT !.pipe = FALSE, !.user = @ /\ ~proxy["user"]] ELSE client
  /\ phase' = "destroyed"
  /\ UNCHANGED <<version, proxy, single, app, Histories>> /\ ChildUnchanged

\* It may be killed in the game, too.
ProcessEnds ==
  /\ phase \in {"running", "destroyed"}
  /\ phase' = "ended"
  /\ UNCHANGED <<version, proxy, client, single, app, Histories>> /\ ChildUnchanged

-----------------------------------------------------------------------------
(* The second process: run_mod, in post_start.                             *)

ParentUnchanged == UNCHANGED <<phase, version, proxy, client, single, app, Histories>>

\* OpenProcess: a process that has ended has no id, but a new process may have
\* been given it since.
OpenParent ==
  /\ child = "starts"
  /\ \/ phase # "ended" /\ waits' = "parent" /\ child' = "waits"
     \/ phase = "ended" /\ waits' = "stranger" /\ child' = "waits"
     \/ phase = "ended" /\ waits' = "nobody" /\ child' = "shuts down"
  /\ ParentUnchanged

\* Mutant of WaitEnds: the time-out is not INFINITE.
WaitTimesOut ==
  /\ child = "waits"
  /\ child' = "shuts down"
  /\ ParentUnchanged /\ UNCHANGED waits

\* WaitForSingleObject returns.
WaitEnds ==
  /\ child = "waits" /\ (waits = "parent" => phase = "ended")
  /\ child' = "shuts down"
  /\ ParentUnchanged /\ UNCHANGED waits

\* Mutant of PrematureShutdown: run_mod returns, and the game goes on.
NoShutdown ==
  /\ child = "shuts down" /\ child' = "plays"
  /\ ParentUnchanged /\ UNCHANGED waits

\* trigger_premature_shutdown: post_start has failed, and main returns.
PrematureShutdown ==
  /\ child = "shuts down" /\ child' = "ended"
  /\ ParentUnchanged /\ UNCHANGED waits

-----------------------------------------------------------------------------
\* The Steam client loses its connection, or the user logs off and on.
ClientChanges ==
  /\ \E connected, logged_on \in BOOLEAN :
       client' = [client EXCEPT !.connected = connected, !.logged_on = logged_on]
  /\ UNCHANGED <<phase, version, proxy, single, app, Histories>> /\ ChildUnchanged

Child == OpenParent \/ (waits = "parent" /\ WaitEnds) \/ PrematureShutdown

Next ==
  \/ NoModule \/ LoadModule \/ FindEngine \/ NextVersion \/ NoEngine
  \/ Connect \/ GetClients
  \/ CheckOnLoad \/ Frame
  \/ NoMod \/ StartMod
  \/ PreDestroy \/ ProcessEnds
  \/ OpenParent \/ WaitEnds \/ PrematureShutdown
  \/ ClientChanges

\* The game draws frames, and a process that can go on does.
Spec == Init /\ [][Next]_vars /\ WF_vars(Frame) /\ WF_vars(Child)

-----------------------------------------------------------------------------
(* Properties.                                                             *)

TypeOK ==
  /\ phase \in {"load", "engine", "pipe", "clients", "check", "start", "running", "destroyed", "ended"}
  /\ version \in 1..(Versions + 1)
  /\ proxy \in [Members -> BOOLEAN]
  /\ client \in [connected : BOOLEAN, logged_on : BOOLEAN, pipe : BOOLEAN, user : BOOLEAN]
  /\ single \in {0, 1} /\ app \in {0, 480, 42690}
  /\ child \in {"none", "starts", "waits", "shuts down", "ended"}
  /\ waits \in {"nobody", "parent", "stranger"}

\* A mod is started only through a client that was found logged on just before,
\* although start_mod itself asks nothing but whether it has the interfaces.
StartedWhenLoggedOn == [][app' # app => checked /\ proxy["module"]]_vars

\* In the game, the callback is in the scheduler exactly as long as there are
\* handles to look after.
Watched == phase = "running" => (single = 1 <=> proxy["module"])

\* A client that stays logged off is let go while the game is running.
LetsGo ==
  <>[](phase = "running" /\ ~client.logged_on) => <>[](~proxy["module"])

\* When the game ends in good order, it leaves nothing open in the client,
\* except what it has dropped before.
EndsClean == phase = "destroyed" => dropped \/ ~(client.pipe \/ client.user)

\* Steam sees the mod run until the game has ended ...
ModRunsAsLong == [][child' = "ended" => phase = "ended" \/ waits = "stranger"]_vars

\* ... and no longer, unless the process waits for one that it took for the game.
ModEnds == (phase = "ended" /\ child # "none") ~> (child = "ended" \/ waits = "stranger")
=============================================================================
