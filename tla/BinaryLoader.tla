--------------------------- MODULE BinaryLoader ----------------------------
(***************************************************************************)
(* loader/loader.cpp and binary_loader.cpp: the game's image is built from *)
(* the file of the dedicated server and a patch, copied over the payload   *)
(* section by section, and its imports are resolved: some by the program   *)
(* itself, the others by the system. Then dw's post_load looks its socket  *)
(* functions up in the image's import table (utils/nt.cpp) and replaces    *)
(* them. Any of this may throw, which leaves the image half done; main     *)
(* does not enter it then.                                                 *)
(*                                                                         *)
(* Memory is a row of pages; the program's own code is behind the payload. *)
(***************************************************************************)
EXTENDS Integers, Sequences, FiniteSets, SequencesExt

CONSTANTS
  Images,       \* the images there may be: their sections, imports and TLS size
  Modes,        \* the modes the loader may be made with
  Pages,        \* pages that belong to the program's module
  PayloadPages, \* BINARY_PAYLOAD_SIZE
  TlsPayload,   \* TLS_PAYLOAD_SIZE
  LowerCase,    \* how each dll's name is spelled in lower case
  OwnExports,   \* what the program exports
  Exports,      \* what the system has: pairs of a dll, in lower case, and a function
  Loaded,       \* dlls that the program has loaded in any case
  Replaced,     \* what modules' load_import replaces: pairs as in Exports
  SocketCalls   \* the functions that dw replaces, in order

VARIABLES
  at,      \* how far the loading is
  mode_,
  image,   \* the image that is loaded
  memory,  \* what each page holds: own code (0), or the number of a section
  table,   \* the address table: what each import is bound to
  next,    \* the section, the import or the thunk that is next
  hooking  \* the socket function and the dll that post_load looks for

vars == <<at, mode_, image, memory, table, next, hooking>>

Nothing == <<>>
own == 0
Dlls == <<"wsock32.dll", "ws2_32.dll">>   \* in the order of register_hook
Lower(d) == LowerCase[image.imports[d].dll]

Init ==
  /\ at = "binary" /\ mode_ \in Modes /\ image \in Images
  /\ memory = [p \in 0..(Pages - 1) |-> own]
  /\ table = [d \in DOMAIN image.imports |->
                [t \in DOMAIN image.imports[d].thunks |-> Nothing]]
  /\ next = <<1, 1>> /\ hooking = <<1, 1>>

Fails == at' = "failed" /\ UNCHANGED <<mode_, image, memory, table, next, hooking>>
Goto(stage) == at' = stage /\ next' = <<1, 1>>

-----------------------------------------------------------------------------
(* The image.                                                              *)

\* load_base: no file of the dedicated server, or not the one the hash is of.
BaseFails == at = "binary" /\ Fails

\* build_binary: the patch does not fit. The server needs none.
PatchFails == at = "binary" /\ mode_ # "server" /\ Fails

\* What comes out is no image: load returns null, and main throws.
NoImage == at = "binary" /\ Fails

BinaryBuilt ==
  /\ at = "binary"
  /\ Goto("sections")
  /\ UNCHANGED <<mode_, image, memory, table, hooking>>

Section == image.sections[next[1]]

\* Mutant of SectionExceeds: nothing is checked.
SectionNeverExceeds == FALSE

\* Only where a section begins is checked.
SectionExceeds == Section.address >= PayloadPages

Copied == Section.address .. (Section.address +
            (IF Section.raw < Section.virtual THEN Section.raw ELSE Section.virtual) - 1)

LoadSection ==
  /\ at = "sections" /\ next[1] <= Len(image.sections)
  /\ ~SectionExceeds
  /\ memory' = [p \in DOMAIN memory |-> IF p \in Copied THEN next[1] ELSE memory[p]]
  /\ next' = <<next[1] + 1, 1>>
  /\ UNCHANGED <<at, mode_, image, table, hooking>>

SectionThrows ==
  /\ at = "sections" /\ next[1] <= Len(image.sections)
  /\ SectionExceeds
  /\ Fails

SectionsLoaded ==
  /\ at = "sections" /\ next[1] > Len(image.sections)
  /\ Goto("imports")
  /\ UNCHANGED <<mode_, image, memory, table, hooking>>

-----------------------------------------------------------------------------
(* Imports.                                                                *)

System(dll, function) ==
  IF <<dll, function>> \in Exports THEN <<"system", dll, function>> ELSE Nothing

\* module_loader::load_import asks the modules; game_launcher has one answer.
LoadImport(dll, function) ==
  IF <<dll, function>> \in Replaced THEN <<"module", function>> ELSE Nothing

\* Mutant of Resolver: names of dlls are compared as they are meant.
ResolverOfModules(d, function) ==
  IF Lower(d) = "kernel32.dll" THEN LoadImport(Lower(d), function)
  ELSE IF Lower(d) = "steam_api.dll" /\ function \in OwnExports THEN <<"self", function>>
  ELSE Nothing

\* The resolver of load_binary; it compares this dll's name as it is spelled.
Resolver(d, function) ==
  IF image.imports[d].dll = "steam_api.dll"
    THEN IF function \in OwnExports THEN <<"self", function>> ELSE Nothing
  ELSE IF function = "ExitProcess" THEN <<"exit_hook">>
  ELSE LoadImport(Lower(d), function)

\* An import by ordinal is the system's; one by name goes to the resolver first.
Function(d, thunk) ==
  LET resolved == Resolver(d, thunk.function)
  IN  IF thunk.ordinal \/ resolved = Nothing THEN System(Lower(d), thunk.function)
      ELSE resolved

\* The walk over the descriptors and their thunks.
Walks(stage) == at = stage /\ next[1] <= Len(image.imports)
Thunks == image.imports[next[1]].thunks
AtThunk == next[2] <= Len(Thunks)
NextThunk == next' = <<next[1], next[2] + 1>>
NextDescriptor == next' = <<next[1] + 1, 1>>

ResolveImport ==
  /\ Walks("imports") /\ AtThunk
  /\ LET function == Function(next[1], Thunks[next[2]])
     IN  IF function = Nothing THEN Fails
         ELSE /\ table' = [table EXCEPT ![next[1]][next[2]] = function]
              /\ NextThunk
              /\ UNCHANGED <<at, mode_, image, memory, hooking>>

DescriptorDone ==
  /\ Walks("imports") /\ ~AtThunk
  /\ NextDescriptor
  /\ UNCHANGED <<at, mode_, image, memory, table, hooking>>

\* The TLS data must fit into what the program has reserved.
ImportsLoaded ==
  /\ at = "imports" /\ next[1] > Len(image.imports)
  /\ IF image.tls > TlsPayload THEN Fails
     ELSE Goto("hooks") /\ UNCHANGED <<mode_, image, memory, table, hooking>>

-----------------------------------------------------------------------------
(* dw::post_load and get_iat_entry, on the headers of the image.           *)

Hooking == at = "hooks" /\ hooking[1] <= Len(SocketCalls)
Call == SocketCalls[hooking[1]]
Dll == Dlls[hooking[2]]

\* GetModuleHandle and GetProcAddress. A dll that an import has come from stays
\* in memory when the import is replaced.
InMemory == Dll \in Loaded \/ \E d \in DOMAIN table : \E t \in DOMAIN table[d] :
              table[d][t] # Nothing /\ table[d][t][1] \in {"system", "stub"} /\ Lower(d) = Dll
Searched == InMemory /\ <<Dll, Call>> \in Exports

\* Mutant of NotFound: the loop over the dlls does not end.
NotFoundTwice == hooking' = <<hooking[1], 2>>

\* register_hook tries the second dll where the first has no entry.
NotFound ==
  hooking' = IF hooking[2] = 1 THEN <<hooking[1], 2>> ELSE <<hooking[1] + 1, 1>>

NotSearched ==
  /\ Hooking /\ ~Searched
  /\ NotFound /\ next' = <<1, 1>>
  /\ UNCHANGED <<at, mode_, image, memory, table>>

OtherDescriptor ==
  /\ Hooking /\ Searched /\ Walks("hooks")
  /\ Lower(next[1]) # Dll \/ ~AtThunk
  /\ NextDescriptor
  /\ UNCHANGED <<at, mode_, image, memory, table, hooking>>

Inspects == Hooking /\ Searched /\ Walks("hooks") /\ Lower(next[1]) = Dll /\ AtThunk

\* The number of the thunk does not fit an ordinal: it is the address of a name
\* or, without a table of names, the header of the image. `continue` comes before
\* the increments, so the loop looks at the same thunk for ever.
Loops == ~image.imports[next[1]].names \/ ~(Thunks[next[2]].ordinal \/ Thunks[next[2]].low)

Found == Thunks[next[2]].ordinal /\ Thunks[next[2]].function = Call

\* Mutant of Hook: the search goes on behind the entry.
HookAll ==
  /\ Inspects /\ ~Loops /\ Found
  /\ table' = [table EXCEPT ![next[1]][next[2]] = <<"stub", Call>>]
  /\ NextThunk
  /\ UNCHANGED <<at, mode_, image, memory, hooking>>

\* The first entry that is found is replaced, and no other.
Hook ==
  /\ Inspects /\ ~Loops /\ Found
  /\ table' = [table EXCEPT ![next[1]][next[2]] = <<"stub", Call>>]
  /\ hooking' = <<hooking[1] + 1, 1>> /\ next' = <<1, 1>>
  /\ UNCHANGED <<at, mode_, image, memory>>

OtherThunk ==
  /\ Inspects /\ ~Loops /\ ~Found
  /\ NextThunk
  /\ UNCHANGED <<at, mode_, image, memory, table, hooking>>

TableEnds ==
  /\ Hooking /\ Searched /\ ~Walks("hooks")
  /\ NotFound /\ next' = <<1, 1>>
  /\ UNCHANGED <<at, mode_, image, memory, table>>

\* main enters the game.
Enter ==
  /\ at = "hooks" /\ ~Hooking
  /\ Goto("running")
  /\ UNCHANGED <<mode_, image, memory, table, hooking>>

Next ==
  \/ BaseFails \/ PatchFails \/ NoImage \/ BinaryBuilt
  \/ LoadSection \/ SectionThrows \/ SectionsLoaded
  \/ ResolveImport \/ DescriptorDone \/ ImportsLoaded
  \/ NotSearched \/ OtherDescriptor \/ Hook \/ OtherThunk \/ TableEnds \/ Enter

\* Nothing but the program's own thread is at work here.
Spec == Init /\ [][Next]_vars /\ WF_vars(Next)

-----------------------------------------------------------------------------
(* Properties.                                                             *)

Slots == UNION {{d} \X DOMAIN table[d] : d \in DOMAIN table}
Thunk(s) == image.imports[s[1]].thunks[s[2]]
Bound(s) == table[s[1]][s[2]]

\* The program's own pages are only ever overwritten by a section that begins
\* inside of the payload and is longer than what is left of it.
OwnPagesKept ==
  \A p \in PayloadPages..(Pages - 1) : memory[p] # own =>
    /\ image.sections[memory[p]].address < PayloadPages
    /\ image.sections[memory[p]].address + image.sections[memory[p]].raw > p

\* The game is entered only with every import bound. One that names ExitProcess
\* leads through pre_destroy, unless it is imported from steam_api.dll; and a
\* Steam function is the program's own, unless it does not have it, or the name
\* of the dll is spelled in another way, or the import is by ordinal.
EveryImportBound ==
  at = "running" => \A s \in Slots :
    /\ Bound(s) # Nothing
    /\ ~Thunk(s).ordinal /\ Thunk(s).function = "ExitProcess"
         => Bound(s) = <<"exit_hook">> \/ image.imports[s[1]].dll = "steam_api.dll"
    /\ Lower(s[1]) = "steam_api.dll" /\ Bound(s)[1] = "system"
         => \/ Thunk(s).ordinal
            \/ Thunk(s).function \notin OwnExports
            \/ image.imports[s[1]].dll # "steam_api.dll"

\* Where a call leads to dw's stub, and where the image imports it by ordinal.
Replaces(call) == {s \in Slots : Bound(s) = <<"stub", call>>}
Importing(call) == {s \in Slots : /\ Thunk(s).ordinal /\ Thunk(s).function = call
                                 /\ \E i \in 1..2 : Lower(s[1]) = Dlls[i]}

\* When the game is entered each socket function that its image imports by
\* ordinal from one of the two dlls is replaced, but in one place only, however
\* many there are; and what is imported by name is never replaced.
OnePlaceEach ==
  at = "running" => \A i \in DOMAIN SocketCalls :
    Cardinality(Replaces(SocketCalls[i])) =
      IF Importing(SocketCalls[i]) = {} THEN 0 ELSE 1

\* No entry of the tables of the two dlls stops the search of hook::iat.
Searchable ==
  \A d \in DOMAIN image.imports : Lower(d) \in {Dlls[1], Dlls[2]} =>
    \A t \in DOMAIN image.imports[d].thunks :
      image.imports[d].names
      /\ (image.imports[d].thunks[t].ordinal \/ image.imports[d].thunks[t].low)

\* The loading comes to an end, in the game or with an error, unless an import
\* table of the two dlls has an entry that the search cannot step over.
LoadingEnds == Searchable ~> at \in {"running", "failed"}
=============================================================================
