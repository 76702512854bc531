------------------------------ MODULE Startup ------------------------------
(***************************************************************************)
(* What main does before the game runs, for TLC: the mode is chosen        *)
(* (Launcher), the image is built and linked (BinaryLoader), the modules   *)
(* patch it (CodePatches, and ceg's search, Signatures), and Steam is told *)
(* (SteamProxy). Each begins when the one before has ended and takes       *)
(* nothing from it but the mode, of which each of them tries all: so a     *)
(* behaviour is of one of them, while the others stay as they begin.       *)
(***************************************************************************)
EXTENDS Launcher, Functions

MCFlags == SUBSET {"dedicated", "multiplayer", "singleplayer"}
MCVariants == {[vt |-> "I4", value |-> n] : n \in 0..3} \cup {[vt |-> "BSTR", value |-> 2]}

VARIABLES
  part,  \* whose behaviour it is: the "menu"'s, the "loader"'s, of the
         \* "patches", of the "search" for signatures, or the "proxy"'s
  loaderAt, loaderMode, image, memory, table, next, hooking,
  mode, waiting, todo, hook, code, original_, applied, called, through,
  searched, checks, searchedAt,
  phase, version, proxy, client, single, app, child, waits, dropped, checked

-----------------------------------------------------------------------------
(* Images. Those with all kinds of sections have few imports, and those    *)
(* with all kinds of imports one section.                                  *)

Spelled == {"steam_api.dll", "STEAM_API.DLL", "kernel32.dll", "shell32.dll",
            "wsock32.dll", "WS2_32.dll"}

Thunks(functions) ==
  [function : functions, ordinal : {TRUE}, low : {FALSE}]
    \cup [function : functions, ordinal : {FALSE}, low : BOOLEAN]
TablesOf(dll, functions) ==
  {[dll |-> dll, names |-> n, thunks |-> ts] : n \in BOOLEAN, ts \in SeqOf(Thunks(functions), 2)}

Tables == TablesOf("steam_api.dll", {"SteamAPI_Init", "SteamHTTP"})
            \cup TablesOf("STEAM_API.DLL", {"SteamAPI_Init"})
            \cup TablesOf("kernel32.dll", {"ExitProcess", "Missing"})
            \cup TablesOf("shell32.dll", {"ShellExecuteA"})
Winsock(dll) == {d \in TablesOf(dll, {"send", "recv"}) : \A t \in DOMAIN d.thunks :
                   d.thunks[t].ordinal \/ d.thunks[t].function = "send"}

Image(sections, imports, tls) == [sections |-> sections, imports |-> imports, tls |-> tls]
Sections == [address : 0..4, raw : 1..2, virtual : 1..3]
OneSection == <<[address |-> 0, raw |-> 2, virtual |-> 2]>>
Plain == Image(OneSection, <<>>, 1)
Images ==
  {Image(<<s1, s2>>, <<>>, tls) : s1 \in Sections, s2 \in Sections, tls \in 1..2}
    \cup {Plain}
    \cup {Image(OneSection, <<d>>, 1) : d \in Tables}
    \cup {Image(OneSection, <<d1, d2>>, 1) :
            d1 \in Winsock("wsock32.dll") \cup Winsock("WS2_32.dll"), d2 \in Winsock("WS2_32.dll")}

Loader == INSTANCE BinaryLoader WITH
  at <- loaderAt, mode_ <- loaderMode, Modes <- {"server", "multiplayer"},
  Pages <- 5, PayloadPages <- 3, TlsPayload <- 1,
  LowerCase <- [d \in Spelled |-> CASE d = "STEAM_API.DLL" -> "steam_api.dll"
                                    [] d = "WS2_32.dll" -> "ws2_32.dll" [] OTHER -> d],
  OwnExports <- {"SteamAPI_Init"},
  Exports <- {<<"steam_api.dll", "SteamAPI_Init">>, <<"steam_api.dll", "SteamHTTP">>,
              <<"kernel32.dll", "ExitProcess">>, <<"shell32.dll", "ShellExecuteA">>,
              <<"wsock32.dll", "send">>, <<"ws2_32.dll", "send">>, <<"ws2_32.dll", "recv">>},
  Loaded <- {"ws2_32.dll"},
  Replaced <- {<<"shell32.dll", "ShellExecuteA">>},
  SocketCalls <- <<"send", "recv">>
loaderVars == <<loaderAt, loaderMode, image, memory, table, next, hooking>>

-----------------------------------------------------------------------------
(* The game's code: up to three functions, each one of the copy            *)
(* protection's or a near miss of one, with the bytes that the masks leave *)
(* open set to values that other signatures begin with; or one function    *)
(* within or across another, wherever the masks allow it.                  *)

Patches == INSTANCE CodePatches
patchesVars == <<mode, waiting, todo, hook, code, original_, applied, called, through>>

\* What the signatures are does not depend on what is searched.
Known == INSTANCE Signatures WITH
  Codes <- {}, Beyond <- 0, found <- searched, code <- checks, i <- searchedAt
Signature(k) == Known!Containers[k].signature
Filled(s, byte) == [j \in DOMAIN s |-> IF s[j] = Known!ANY THEN byte ELSE s[j]]

Checks == {Filled(Signature(k), \h55) : k \in DOMAIN Known!Containers}
LastFixed(s) == IF s[Len(s)] = Known!ANY THEN Len(s) - 4 ELSE Len(s)
NearMisses ==
  {[Filled(Signature(k), 0) EXCEPT ![LastFixed(Signature(k))] = 1] : k \in DOMAIN Known!Containers}
Others == {<<\h55, \h8B, \hEC, \hC3>>, <<\hE8>>}
Compiled == Checks \cup NearMisses \cup Others
Apart == {f \o g \o h : f, g \in Compiled, h \in Others \cup {Filled(Signature(2), \h55)}}

\* What the byte of two signatures at one place may be, of which the second is
\* laid over the first behind its n-th byte.
ByteOf(s, j) == IF j \in DOMAIN s THEN s[j] ELSE Known!ANY
Agree(s, t, n) == \A j \in DOMAIN t : ByteOf(s, n + j) \in {Known!ANY, t[j]} \/ t[j] = Known!ANY
Over(s, t, n) ==
  [j \in 1..(IF Len(s) >= n + Len(t) THEN Len(s) ELSE n + Len(t)) |->
     IF ByteOf(s, j) # Known!ANY THEN s[j] ELSE ByteOf(t, j - n)]
Overlays ==
  {v \in [outer : DOMAIN Known!Containers, inner : DOMAIN Known!Containers, n : 1..27] :
     v.n < Len(Signature(v.outer)) /\ Agree(Signature(v.outer), Signature(v.inner), v.n)}
Overlaid ==
  {Filled(Over(Signature(v.outer), Signature(v.inner), v.n), \h55) \o h :
     v \in Overlays, h \in Others}
Codes == Apart \cup Overlaid

Search == INSTANCE Signatures WITH
  Beyond <- 6, found <- searched, code <- checks, i <- searchedAt
searchVars == <<searched, checks, searchedAt>>

Proxy == INSTANCE SteamProxy WITH Versions <- 2, Subscribed <- FALSE
proxyVars == <<phase, version, proxy, client, single, app, child, waits, dropped, checked>>

-----------------------------------------------------------------------------
PartsInit ==
  /\ part \in {"menu", "loader", "patches", "search", "proxy"}
  /\ IF part = "menu" THEN TRUE ELSE flags = {}
  /\ IF part = "loader" THEN TRUE ELSE image = Plain /\ loaderMode = "server"
  /\ IF part = "patches" THEN TRUE ELSE mode = "mp"
  /\ IF part = "search" THEN TRUE ELSE searched = CHOOSE c \in Codes : TRUE
  /\ IF part = "proxy" THEN TRUE
       ELSE client = [connected |-> TRUE, logged_on |-> TRUE, pipe |-> FALSE, user |-> FALSE]
  /\ LauncherInit /\ Loader!Init /\ Patches!Init /\ Search!Init /\ Proxy!Init

PartsNext ==
  \/ /\ part = "menu" /\ LauncherNext
     /\ UNCHANGED <<part, loaderVars, patchesVars, searchVars, proxyVars>>
  \/ /\ part = "loader" /\ Loader!Next
     /\ UNCHANGED <<part, launcherVars, patchesVars, searchVars, proxyVars>>
  \/ /\ part = "patches" /\ Patches!Next
     /\ UNCHANGED <<part, launcherVars, loaderVars, searchVars, proxyVars>>
  \/ /\ part = "search" /\ Search!Next
     /\ UNCHANGED <<part, launcherVars, loaderVars, patchesVars, proxyVars>>
  \/ /\ part = "proxy" /\ Proxy!Next
     /\ UNCHANGED <<part, launcherVars, loaderVars, patchesVars, searchVars>>

PartsSpec ==
  /\ PartsInit
  /\ [][PartsNext]_<<part, launcherVars, loaderVars, patchesVars, searchVars, proxyVars>>
  /\ WF_loaderVars(part = "loader" /\ Loader!Next)
  /\ WF_proxyVars(part = "proxy" /\ Proxy!Frame)
  /\ WF_proxyVars(part = "proxy" /\ Proxy!Child)

-----------------------------------------------------------------------------
(* Properties.                                                             *)

\* The game is played in the mode that was asked for, on the command line or by
\* the last choice in the menu, and the menu's message loop can come to its end.
MenuDecides == OutcomeIsChoice /\ LoopCanEnd

\* The loader ends, if it can step over every entry in the import tables of the two
\* socket libraries (Searchable), and enters the game only with every import bound
\* and each socket function replaced in one place; what it overwrites of the
\* program's own pages is by a section that begins inside of the payload.
LoadedRight ==
  /\ [](Loader!OwnPagesKept /\ Loader!EveryImportBound /\ Loader!OnePlaceEach)
  /\ part = "loader" => Loader!LoadingEnds

\* In whatever order the modules load, their patches stand and their stubs come
\* to the game's own code in the end; and the search for the copy protection
\* patches all that was there before it changed anything, unless another of its
\* patches lies over it, and changes nothing else.
PatchedRight ==
  /\ Patches!PatchesStand /\ Patches!StubsReachTheGame /\ Patches!PlacesExist
  /\ Search!EveryCheckDisarmed /\ Search!NothingElseTouched

\* The handles of the Steam client are watched as long as there are any, let go
\* when the user logs off, and given back at the end; a mod is started by a user
\* who is logged on, and lasts exactly as long as the game.
SteamIsTold ==
  /\ [](Proxy!Watched /\ Proxy!EndsClean)
  /\ Proxy!StartedWhenLoggedOn /\ Proxy!ModRunsAsLong
  /\ part = "proxy" => Proxy!LetsGo /\ Proxy!ModEnds
=============================================================================
