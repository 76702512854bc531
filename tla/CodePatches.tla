---------------------------- MODULE CodePatches ----------------------------
(***************************************************************************)
(* The patches that the modules put into the game when it is loaded: jumps *)
(* and calls to stubs of theirs (utils::hook) and single bytes, at places  *)
(* that differ between the three executables. The modules are registered   *)
(* by static objects of different source files, so that their post_load    *)
(* may come in any order. The stubs then go on in functions of the game,   *)
(* whose addresses game::initialize has picked for the executable.         *)
(***************************************************************************)
EXTENDS Integers, Sequences, FiniteSets

VARIABLES
  mode,       \* the executable
  waiting,    \* modules whose post_load is still to come
  todo,       \* the patches the running post_load still has to make
  hook,       \* the object of class hook at work
  code,       \* what the touched bytes of the game hold
  original_,  \* of the two hooks that outlive post_load
  applied,    \* history: the patches made so far
  called,     \* where the last stub went on
  through     \* history: the patches the game came through on its way there

vars == <<mode, waiting, todo, hook, code, original_, applied, called, through>>
way == <<called, through>>

Modes == {"sp", "mp", "dedi"}
Modules == {"ceg", "dw", "fastfiles", "fov", "patches", "scheduler", "scripting", "security"}
own == -1                \* the game's own function at a hook
game == <<own, "game">>   \* a byte nobody has touched

SelectValue(v, sp, mp, dedi) == CASE v = "sp" -> sp [] v = "mp" -> mp [] v = "dedi" -> dedi

-----------------------------------------------------------------------------
(* game::initialize. 0 stands for a function that an executable lacks.     *)

DB_LoadXAssets(v) == SelectValue(v, \h48A8E0, \h4CD020, \h44F770)
Dvar_SetFromStringByName(v) == SelectValue(v, \h4DD090, \h5BF740, \h518DF0)
G_RunFrame(v) == SelectValue(v, \h52EAA0, \h50CB70, \h48AD60)
MSG_ReadData(v) == SelectValue(v, 0, \h5592A0, 0)
VM_Notify(v) == SelectValue(v, \h610200, \h569720, \h4EF450)
Com_Error(v) == SelectValue(v, \h425540, \h555450, \h4D93F0)
\* What the scheduler's hook stands before is not a named function of game::native.
FrameEnds(v) == SelectValue(v, \h458600, \h556470, \h4DB070)
longjmp(v) == SelectValue(v, \h73AC20, \h7363BC, \h655558)

-----------------------------------------------------------------------------
(* post_load of the modules, as sequences of patches.                      *)

Hook(place, stub) == <<[place |-> place, size |-> 5, stub |-> stub]>>
Bytes(place, size) == <<[place |-> place, size |-> size, stub |-> "bytes"]>>
When(condition, patches) == IF condition THEN patches ELSE <<>>

\* The signature scan of ceg is the subject of module Signatures.
Ceg(v) == When(v = "sp",
  Hook(\h4CA310, "DB_LoadXAssets") \o Hook(\h493B81, "0x493BFC") \o Bytes(\h527110, 1))

Dw(v) == Hook(SelectValue(v, \h6F40A0, \h6EE1C0, \h611310), "bd_logger_stub")
Fastfiles(v) == Hook(DB_LoadXAssets(v), "db_load_stub")

FovPatches(v) ==
  Bytes(SelectValue(v, \h4302C5, \h455155, 0), 1)
    \o When(v = "mp", Bytes(\h455148, 4) \o Hook(\h4698BA, "set_server_command_dvar_stub"))

\* Mutant of Fov: it forgets that the dedicated server has no field of view.
FovEverywhere(v) == FovPatches(v)

Fov(v) == When(v # "dedi", FovPatches(v))

Patches(v) ==
  When(v # "dedi", Bytes(SelectValue(v, \h53444A, \h5CCDC0, 0), 9)
                     \o Bytes(SelectValue(v, \h4438BA, \h6371EA, 0), 2))
    \o When(v = "sp", Bytes(\h663B5A, 1) \o Bytes(\h663C54, 1))
    \o Hook(longjmp(v), "long_jump_stub")

SchedulerPatches(v) == Hook(SelectValue(v, \h44C7DB, \h55688E, \h4DB324), "scheduler frame_stub")

StartPlace(v) == SelectValue(v, \h50C575, \h50D4F2, \h48A026)

\* Mutant of StopPlace: copied from the hook above it.
StopPlaceCopied(v) == StartPlace(v)

StopPlace(v) == SelectValue(v, \h528B04, \h569E46, \h4F03FA)

Scripting(v) ==
  Hook(StartPlace(v), "start_execution_stub") \o Hook(StopPlace(v), "stop_execution_stub")
    \o Hook(SelectValue(v, \h4F9706, \h5772A0, \h4FAB88), "frame_stub")
    \o Hook(SelectValue(v, \h4FFA48, \h5774AB, \h4FEFD7), "frame_stub")
    \o Hook(SelectValue(v, \h6109F3, \h56B637, \h4EDFF7), "vm_notify_stub")
    \o Hook(SelectValue(v, \h6128BE, \h56D541, \h4EFAF9), "vm_notify_stub")
    \o When(v = "sp", Hook(\h50C57E, "frame_stub") \o Hook(\h6523A3, "frame_stub")
                        \o Hook(\h5145D2, "frame_stub") \o Hook(\h610970, "vm_notify_stub"))

Security(v) == When(v = "mp", Hook(\h4AECD4, "read_p2p_auth_ticket_stub"))

PatchesOf(m, v) ==
  CASE m = "ceg" -> Ceg(v)             [] m = "dw" -> Dw(v)
    [] m = "fastfiles" -> Fastfiles(v) [] m = "fov" -> Fov(v)
    [] m = "patches" -> Patches(v)     [] m = "scheduler" -> SchedulerPatches(v)
    [] m = "scripting" -> Scripting(v) [] m = "security" -> Security(v)

-----------------------------------------------------------------------------
(* Of the game's bytes, those that some patch touches.                     *)

BytesOf(p) == p.place..(p.place + p.size - 1)
AllPatches(v) == UNION {{PatchesOf(m, v)[i] : i \in DOMAIN PatchesOf(m, v)} : m \in Modules}
Touched(v) == UNION {BytesOf(p) : p \in AllPatches(v)}
Written(p) == [a \in BytesOf(p) |-> <<p.place, p.stub>>]

Put(bytes) == code' = [a \in DOMAIN code |-> IF a \in DOMAIN bytes THEN bytes[a] ELSE code[a]]

NoHook == [step |-> "none", installed_ |-> FALSE, buffer_ |-> <<>>]

Init ==
  /\ mode \in Modes
  /\ waiting = Modules /\ todo = <<>> /\ hook = NoHook
  /\ code = [a \in Touched(mode) |-> game]
  /\ original_ = [stub \in {"start_execution_stub", "stop_execution_stub"} |-> game]
  /\ applied = {} /\ called = own /\ through = {}

-----------------------------------------------------------------------------
(* The loading.                                                            *)

PostLoad(m) ==
  /\ m \in waiting /\ todo = <<>>
  /\ waiting' = waiting \ {m}
  /\ todo' = PatchesOf(m, mode)
  /\ UNCHANGED <<mode, hook, code, original_, applied, way>>

Now == Head(todo)
Made == todo' = Tail(todo) /\ applied' = applied \union {Now}
AtHook(step) == todo # <<>> /\ Now.stub # "bytes" /\ hook.step = step

\* hook::set and hook::nop.
SetBytes ==
  /\ todo # <<>> /\ Now.stub = "bytes"
  /\ Put(Written(Now)) /\ Made
  /\ UNCHANGED <<mode, waiting, hook, original_, way>>

\* original_ is read from the call that is at the place.
Initialize ==
  /\ AtHook("none")
  /\ hook' = [hook EXCEPT !.step = "initialized"]
  /\ original_' = IF Now.stub \in DOMAIN original_
                    THEN [original_ EXCEPT ![Now.stub] = code[Now.place]] ELSE original_
  /\ UNCHANGED <<mode, waiting, todo, code, applied, way>>

Install ==
  /\ AtHook("initialized")
  /\ hook' = [step |-> "installed", installed_ |-> TRUE,
              buffer_ |-> [a \in BytesOf(Now) |-> code[a]]]
  /\ Put(Written(Now))
  /\ UNCHANGED <<mode, waiting, todo, original_, applied, way>>

\* Mutant of Quick: the hook is still taken for installed.
QuickNothing ==
  /\ AtHook("installed")
  /\ hook' = [hook EXCEPT !.step = "quick"]
  /\ UNCHANGED <<mode, waiting, todo, code, original_, applied, way>>

Quick ==
  /\ AtHook("installed")
  /\ hook' = [hook EXCEPT !.step = "quick", !.installed_ = FALSE]
  /\ UNCHANGED <<mode, waiting, todo, code, original_, applied, way>>

\* The destructor of the temporary takes an installed hook out again. The two
\* hooks that outlive post_load are destroyed with the program, to no effect.
Destroy ==
  /\ AtHook("quick")
  /\ IF hook.installed_ /\ Now.stub \notin DOMAIN original_
       THEN Put(hook.buffer_) ELSE UNCHANGED code
  /\ hook' = NoHook /\ Made
  /\ UNCHANGED <<mode, waiting, original_, way>>

-----------------------------------------------------------------------------
(* The game comes to a hook.                                               *)

\* Mutant of Resume: at the function itself, as for the other stubs.
ResumeAtEntry(v) == DB_LoadXAssets(v)

\* The stub does what the first two instructions did and goes on behind them.
Resume(v) == DB_LoadXAssets(v) + 7

\* Where a stub, or a plain jump of ceg's, may go on in the game. The others do not.
\* The scheduler's goes to Com_Error when an error has been posted.
GoesOn ==
  [stub \in {"db_load_stub", "frame_stub", "vm_notify_stub", "read_p2p_auth_ticket_stub",
             "set_server_command_dvar_stub", "scheduler frame_stub",
             "DB_LoadXAssets", "0x493BFC"} |->
    CASE stub = "db_load_stub" -> {Resume(mode)}
      [] stub = "frame_stub" -> {G_RunFrame(mode)}
      [] stub = "vm_notify_stub" -> {VM_Notify(mode)}
      [] stub = "read_p2p_auth_ticket_stub" -> {MSG_ReadData(mode)}
      [] stub = "set_server_command_dvar_stub" -> {Dvar_SetFromStringByName(mode)}
      [] stub = "scheduler frame_stub" -> {Com_Error(mode), FrameEnds(mode)}
      [] stub = "DB_LoadXAssets" -> {DB_LoadXAssets(mode)}
      [] stub = "0x493BFC" -> {\h493BFC}]

\* The start and the stop of the scripts go on at what their hook replaced.
Continues(p) == p.stub \in DOMAIN GoesOn \union DOMAIN original_
Pass(p, before) ==
  /\ waiting = {} /\ todo = <<>>
  /\ Continues(p)
  /\ called' \in IF p.stub \in DOMAIN GoesOn THEN GoesOn[p.stub] ELSE {original_[p.stub][1]}
  /\ through' = before \union {p}
  /\ UNCHANGED <<mode, waiting, todo, hook, code, original_, applied>>

\* The game comes to a patch by itself, or where a stub went on, there is another
\* one. A way that goes round is not followed a second time.
Reach(p) == Pass(p, {})
GoOn(p) == called = p.place /\ p \notin through /\ Pass(p, through)

Loading == SetBytes \/ Initialize \/ Install \/ Quick \/ Destroy \/ \E m \in Modules : PostLoad(m)
Next == Loading \/ \E p \in applied : Reach(p) \/ GoOn(p)

Spec == Init /\ [][Next]_vars

-----------------------------------------------------------------------------
(* Properties.                                                             *)

\* In whatever order the modules are told, no patch is undone, by the end of its
\* hook or by another patch over a part of it: each is there as it was made.
PatchesStand == \A p \in applied : \A a \in BytesOf(p) : code[a] = Written(p)[a]

\* A stub that goes on comes to the game's own code in the end: not to a function
\* that the executable lacks, nor into the middle of a patch, and when it comes to
\* another patch, as ceg's jump does to fastfiles', then to one that goes on too and
\* that it has not come through already, which would go round for ever.
StubsReachTheGame ==
  /\ called # 0
  /\ called \in DOMAIN code =>
       \E p \in applied \ through : p.place = called /\ Continues(p)

\* No module patches a place that its executable does not have.
PlacesExist == \A p \in applied : p.place # 0
=============================================================================
