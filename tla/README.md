# A verification project for open-iw5

open-iw5 loads a 2011 game executable into its own process, replaces the
functions through which that game talks to the outside (its online services,
Steam, sockets, process exit), and adds scripting and a console to it. This
directory holds TLA+ modules that model the parts of it that have state over
time, TLC configurations that check them on small instances, and theorems that
TLAPS proves for every value of the constants. `PROJECT.json` maps every
definition to the lines of `src/` it stands for and lists runs, mutants,
hazards and theorems.

Paths below are relative to `src/src/`.

## 1. Inventory

### How the program runs

`main.cpp` starts the modules, chooses a mode, maps the game's executable into
the process, tells the modules, and enters the game. From then on most of this
code runs inside calls the game makes: its frame function, its notifications to
scripts, its socket calls, its calls of the Steam API, its `ExitProcess`. Only
three things run on threads of their own: the demonware worker (`module/dw.cpp`),
the reader of the console pipe (`module/console.cpp`), and whatever threads the
game itself has when it calls sockets or Steam. One more process, started by the
Steam client, is this same program with nothing to do but to wait for the first.

```
 main ──▶ module loader ──▶ post_start ──▶ launcher (mode) ──▶ binary loader ──▶ post_load: patches ──▶ game
 game threads ──gethostbyname──▶ dw ──address──▶ connect, sendto
 game threads ──send/recv/recvfrom/closesocket──▶ dw sockets ──▶ service servers, STUN
                                                     ▲                  ▲
                                            pre_destroy/join       worker thread
 game frame ──▶ module scheduler ──▶ callbacks: console log, steam proxy, scripting
 game frame ──▶ scripting ──▶ task scheduler of each script ─┐
 VM_Notify  ──▶ scripting ──▶ event handler of each script ──┤ callbacks of scripts
                                                             ▼
                                   executer, parameter stack, guarded calls ──▶ game
 game threads ──Steam API──▶ steam callbacks
 ExitProcess, atexit, main ──▶ module loader ──▶ pre_destroy of every module
```

### Components

| Component | State | Operations | Interaction | What is hard | What makes it correct |
|---|---|---|---|---|---|
| service servers (`game/demonware/service_server.*`, `i_service.hpp`) | packets received, bytes to send, `reply_sent_`, a recursive mutex | `send`, `recv`, `pending_data`, `run_frame`, `parse_packet`, `call_handler`, `send_reply` | game threads on one side, the worker on the other; handlers of services | emptiness is tested before the lock; handlers throw; one packet holds many messages, and bytes that are none | answers whole and in order, one for each message that deserves one; every packet parsed that does not end in bytes that are read for ever; a thread that alone reads never told 0 bytes |
| replies (`game/demonware/i_server.hpp`) | the next transaction id | layout and encryption of a reply | written by services, read by the game | lengths, padding, optional parts | the game reads what the service replied |
| dw sockets (`module/dw.*`) | socket → server, socket → blocking mode, socket → queue of datagrams, registered servers, `terminate_`, a mutex | hooks of `connect`, `send`, `recv`, `recvfrom`, `sendto`, `closesocket`, `ioctlsocket`, `gethostbyname`; `server_thread`, `post_load`, `pre_destroy` | calls the servers; the STUN server queues datagrams back | two critical sections per call; shutdown that joins with the mutex held; handles that are reused | no iterator used after erase, no trace of a closed socket, a blocking `recv` returns when its answer is due, the shutdown returns |
| STUN server (`game/demonware/stun_server.*`) | none | answer a datagram of two types, ignore others | pushes into the dw queue of the socket | answers shadow real traffic | |
| concurrent list (`utils/concurrent_list.hpp`) | linked elements with shared pointers | `add`, `remove`, `clear`, iteration | under both schedulers and the event handler | it is changed by the bodies of loops over it | loops visit what stays linked, once, and nothing else, and end |
| task scheduler (`game/scripting/scheduler.*`) | list of tasks | `add`, `remove`, `run_frame` | callbacks of scripts set and clear tasks | a callback changes the list, throws, or takes long | timeouts once, intervals spaced, cleared tasks stop, due tasks run |
| event handler (`game/scripting/event_handler.*`) | two lists of listeners, the last id | `add_event_listener`, `remove`, `clear`, `dispatch` | callbacks notify again, so dispatches nest | inner dispatches remove what outer ones are walking | complete, once per dispatch, gone listeners stay gone |
| module scheduler (`module/scheduler.*`) | two lists of callbacks, a queue of errors | `on_frame`, `once`, `error`, `execute`, `pre_destroy` | `Com_Error` leaves by `longjmp` | a callback that never returns | errors in order and all, single callbacks once and all |
| scripting (`module/scripting.cpp`, `game/scripting/context.cpp`) | loaded scripts, each with its scheduler and listeners | `vm_notify_stub`, `frame_stub`, `start_execution`, `stop_execution`, `notify`, `run_frame` | calls the two above for each script; what scripts do notifies again | exceptions pass through a row of scripts; a level ends | a script that fails to load keeps back only those behind it; every script loaded hears of every event until one fails |
| script calls (`game/scripting/executer.*`, `safe_executer.*`, `stack_isolation.*`, `parameters.*`, `variable_value.*`) | the game's parameter stack and its error level | `call`, `notify`, `set_entity_field`, `get_entity_field` | the game runs callbacks that call again | nesting, C++ exceptions and `longjmp`s, references | the stack and level found again, references given back once |
| entities (`game/scripting/entity.*`, fields in `executer.cpp`) | a counted reference in the game for each handle, fields kept outside the game | copies, moves, assignments, `get_entity_id`, fields | ids are used again for new objects | an entity that moved from another, or is assigned to itself | counts right, the object and its fields stay the same |
| script contexts (`context_initializer.cpp`, `functions.cpp`) | none of their own | bindings, tables of names | | | |
| steam callbacks (`steam/steam.*`) | results, result handlers, callbacks, a recursive mutex | `register_call`, `return_call`, `register_call_result`, `register_callback`, `run_callbacks` | handlers call back into it | the loop's own vectors grow under it | no result forgotten, loops broken by nobody else |
| steam interfaces (`steam/interfaces/*`) | the ticket of the user | stubs; tickets, lobbies | return calls to the callbacks | one ticket for all that ask | the login that uses it |
| steam proxy (`module/steam_proxy.*`, `steam/interface.*`) | handles of the real client, a second process | `load_client`, `start_mod`, `do_shutdown`; finding a method by the name in its code | a callback of the module scheduler; the client comes and goes | the client goes away between two frames; code with more than one name in it | told when the program starts and ends; a method found is the one named |
| console (`module/console.cpp`) | pipe, queue, two flags | printing, `runner`, `log_messages`, `post_load`, `pre_destroy` | a thread, the frames, the shutdown | emptiness without the lock; a thread waiting in `_read` at shutdown | nothing lost, shutdown returns |
| module loader (`loader/module_loader.*`, `main.cpp`) | the modules, a flag | `post_start`, `post_load`, `pre_destroy`, `destroy_modules` | all modules | three ways out at any point | each module told once, then deleted |
| demonware buffers and objects (`bit_buffer`, `byte_buffer`, `data_types.hpp`) | bytes, a position, whether types are used | typed reads and writes, one layout per class | services and the game at the two ends | offsets inside bytes, types that are switched on and off | what is written is read |
| storage, title, DML and hello services (`services/*`) | files of the user, the key of the lobby's cipher | one handler per request | called by the lobby server | writes that fail, halfway or with an exception, reads that fail, deaths of the program, a key that changes within a packet | requests answered in order from the files as they are |
| authentication services (`services/bd*Auth.*`) | none | one handler each | called by the auth server; their answer has the key the lobby is told in the hello | one queue and one key for all connections | the game and the lobby server come by the same key |
| names of hosts (`module/dw.cpp`, `i_server.hpp`) | one static `hostent`; an address for each server | `get_host_by_name_stub`, `find_server_by_name`, `find_server_by_address` | any thread looks up and then connects | the caller reads the `hostent` after the lock | a name leads to its server |
| launcher (`launcher/*`, `html/*`) | the mode, the list of windows, the count of frames | `run`, `select_mode`, the callbacks of the page, window messages | `main` waits for it | window, OLE or browser fail; the page goes on after its window is closed | the mode is the choice, and the loop can end |
| binary loader (`loader/loader.*`, `binary_loader.*`, `utils/nt.*`) | the pages of the process | `load`, `load_section`, `load_imports`, `resolve_import`; `import_address_table_entry` | modules give it their own imports; dw hooks the table | sections at the edges, throws halfway, imports without names | nothing of the program is overwritten; every import bound |
| game patches (`module/*.cpp`, `utils/hook.*`, `utils/signature.*`) | bytes of the game's code | jumps, calls and bytes put in by each `post_load`; search for the copy protection | modules come in any order | three executables, code that earlier patches have changed | every patch stands, where the executable has the place |
| utilities (`utils/string.*`, `utils/memory.*`) | a ring of buffers for each thread, an allocator for all | `va`, `allocate`, `free` | every module formats texts | buffers that grow, threads that end | a text stays until the ring comes round; no buffer in two rings |
| commands (`module/command.*`) | a table of callbacks | add, dispatch | nothing adds one | | |
| game tables (`game/game.*`, `structs.hpp`) | addresses for each executable | `initialize` | every call of the game | | |

## 2. The modules

Specifications are written so that each action is a step that other threads, or
callbacks, can come between; a critical section is one action. Mutated forms of
definitions stand beside the originals and are only used to show that a
property notices the mutation.

| Module | Models | Run |
|---|---|---|
| `ReplyStream` | abstract: a server accepts requests and answers each in order, all at once | |
| `ServiceServer` | one service server, its worker and its readers | `service_server` |
| `PacketFraming` | how its parser finds messages in bytes that are cut anywhere | `service_server` |
| `Dw` | sockets, worker, shutdown | `dw_own_sockets`, `dw_shutdown` |
| `HostNames` | how names lead to the emulated servers | `lobby` |
| `Login` | tickets, the authentication service, the hello, and the keys of the lobby | `lobby` |
| `FileStore` | abstract: requests answered in order from a set of files | |
| `Lobby` | the lobby server from bytes to bytes (frames, cipher, objects), its services, and deaths of the program | `lobby` |
| `BitBuffer`, `ByteBuffer` | the buffers bit by bit and byte by byte, and the classes of objects | `buffers` |
| `Buffers` | a writer and a reader at the two ends of either buffer | `buffers` |
| `StringPool` | the rings of formatted texts and the allocator under them | `buffers` |
| `ConcurrentList` | the list as a record of pointers, its operations as operators | |
| `ListWalk` | loops over one list that changes | `lists` |
| `TaskScheduler` | timeouts and intervals of a script | `lists` |
| `FrameScheduler` | the module scheduler | `lists` |
| `EventHandler` | listeners and nested dispatches | `event_handler` |
| `ScriptContexts` | the scripts of a level, and who of them hears of what | `event_handler` |
| `ScriptStack` | nested calls of scripts into the game | `script_calls` |
| `ScriptEntities` | handles of the game's objects, their counts and their fields | `script_calls` |
| `SteamCallbacks` | asynchronous results of Steam calls | `steam` |
| `SteamInterface` | finding a method of the real client by the name in its code | `steam` |
| `Launcher` | the choice of the mode, by command line or in a window | `startup` |
| `BinaryLoader` | the image, its imports, and dw's hooks in them | `startup` |
| `CodePatches` | the patches of all modules in the three executables | `startup` |
| `Signatures` | the search for the copy protection, which changes what it searches | `startup` |
| `SteamProxy` | the second process, and the handles of the Steam client | `startup` |
| `Console` | the console's pipe, thread, queue and shutdown, as operators for `Shutdown` | |
| `ModuleLoader` | the life of the program | |
| `Shutdown` | both together: the console as a module of the loader | `shutdown` |
| `…MC`, `Startup` | the instances that TLC checks | |
| `…Proofs` | theorems, of which section 4 lists those of each module | |

Composition: of a server `Dw` knows only how many answers each request gets, none and
several included, and whether its parsing ends, which is any server; what a request is answered with, and that the answers
come whole and in order, is `ServiceServer`, which implements `ReplyStream` (checked and
proved). So the sockets need not be checked together with the parser. `TaskScheduler`, `EventHandler` and
`FrameScheduler` extend `ConcurrentList`; the walk of `TaskScheduler` is shown
to be a behaviour of `ListWalk`, so that what is proved of loops holds of it. `Shutdown`
extends `ModuleLoader` and instantiates `Console`; its behaviours are proved to be ones of
`ModuleLoader`. `Lobby` extends `ByteBuffer`; it is
the inside of the handlers that `ServiceServer` knows by their outcome only, and
implements `FileStore` (checked and proved).

Components that share no variable in the code are checked in one run without being
multiplied: the module of the run has a variable `part` that its initial state
chooses, each step is one of that part, and the others stay as they begin. The states
of such a run are the sum of those of its parts, and each property of it is
one of a part, or the conjunction of a part's. In each such module the parts are
`EventHandler` and `ScriptContexts`, `ScriptEntities` and `ScriptStack`, `SteamCallbacks` and
`SteamInterface`, and so on: one is extended, the others are instances. Where parts do meet — the console and
the loader, the servers and the sockets, files and messages — they are composed as above.

### How they correspond to the code

**ServiceServer.** `incoming` and `outgoing` are the two queues, `mutex` the
recursive mutex (only the worker holds it across steps: `run_frame` keeps it
while handlers run). `Send`, `RecvTest`/`RecvPop` are the game's calls; `recv`
looks at the outgoing queue before it locks, hence two steps. That unlocked look
is modelled as an atomic read of the queue's length, as the library's
`std::queue::empty` is a comparison of one counter. `RunFrame` takes a packet,
the `Parse…` actions are the turns of the loop in `parse_packet`, told apart by
the kinds of sub-packet; `CallHandler` is `call_handler` with a handler
that replies, stays silent or throws; `Settle` is the error reply for a message
nobody answered; `FrameDone` is the release. One to three bytes behind the last message are a kind of
their own, `Trailing`: `read_int32` fails on them, the size is what the stack holds, and `ReadTrailing`
takes them for any sub-packet in `Guesses`, which may use them up or leave some for the next turn.
Nothing says that this comes to an end: after `MaxGuesses` turns `ReadAgain` is the turn that leaves everything as it was.

**PacketFraming.** The same loop, over places in the stream of bytes the game sends.
`messages` are the sizes it means; `Send` cuts the stream anywhere. `Sizes` is what the
size field holds when four bytes are read: the size, if they are a size field, and any
number (a small one, a large one, zero, that of a connection request) if they are not, or
if the read failed and left the local variable as it was. A failed read of
a message leaves a buffer of zeros, which is handled like any other. Each handler may throw (`threw`),
which ends the packet, as the `catch` is outside of the loop.

**Dw.** One variable per map. Every lookup is a critical section of its own, so a
call is a sequence of actions joined by `call[t]` (`RecvMode` then `RecvData`;
`RemoveBlocking`, `Unlink`, then `CloseInSystem`; `RecvFromFind`, `RecvFromWait`, `RecvFromTake`, and
`RecvFromSystem` where the system is asked: when there is no queue, or when a packet was thrown away into no room). `iterator`
is the map iterator that `recv_datagam_packet` keeps while it does not hold the
mutex; it dangles when its entry is erased. `StunIgnore` is a datagram of a type the STUN server does not know. Any thread may use
any socket; `crossed` are those that one thread ever closed or set the mode of under another's call.
A request is the number of its replies and whether its parsing ends; `WorkerHangs` is one that does not, under both mutexes, and
then a call on that server waits (`Held`). `Worker…` are the statements of
`server_thread`, `PreDestroy` takes the mutex and sets `terminate_`, `Joined` is
the return of `join`, still under the mutex, and clears the servers. `Reopen`, the
operating system handing out a closed handle again, is external.

**HostNames.** `address` is the static `in_addr` behind the one static `hostent`; `Lock` to
`Unlock` are `get_host_by_name`, `ReadAddress` is the caller looking into what it was given.
`ByName` compares hashes, as the code does, and the hash is a constant.

**Login.** One `game` record for each attempt to log in. `RequestTicket` and `GetTicket` are the
stubs in `user.cpp`, `Authenticate` the three handlers, which differ in where they read the
ticket from and what they add; `Hello` sets the two keys of the lobby. A cipher is a term that
only the same key and iv undo. What `bdDediAuth` and `bdDediRSAAuth` do not read (the size of the ticket) is a choice.

**ConcurrentList, ListWalk.** Elements are numbered as they are added; a
removed element keeps its `next_` pointer, as the iterators that hold it keep it
alive. An iterator is the entry it is at and its own copy of the `next_` pointer.
The recursive mutex makes each operation one step.

**TaskScheduler.** The clock is an action. `FrameStart`, `Advance`, `Skip`, `Run`,
`CallbackReturns` are the turns of `run_frame`; `Run` removes a timeout before it
calls it. While a callback runs, `SetTask` and `ClearTask` may happen.
`CallbackThrows` ends `run_frame` for good, since nothing between the callback and
the game's frame catches it.

**EventHandler.** `stack` is the C++ stack of dispatches. `Notify` enters
`vm_notify_stub`; a dispatch walks the specific list and then the generic one;
`CallListener` removes a volatile listener before it calls it; `Throws` unwinds to
the `catch` of the innermost `vm_notify_stub`.

**ScriptContexts.** `stack` holds the activities in progress: the loading of a
directory, a frame, a notification, each at a script. `StartExecution` lists the files;
`LoadScript` to `Loaded` or `LoadFails` is the constructor of a context that evaluates its
file; `CallListener` and `CallTimer` enter a script, whose code may notify again.
`ListenerThrows` is the `catch` of `vm_notify_stub`, `Uncaught` what nobody catches, `ComError`
the `longjmp` of the game that drops the level. Each context has the ids of its listeners and the last
id given; running code adds listeners and clears them. Listeners are called one by one as in
`EventHandler`, whose order is not repeated here.

**FrameScheduler.** `ReportError` hands the first error to `Com_Error`, whose
`longjmp` abandons the frame (`Longjmp` does the same from inside a callback).
`va("%s", …)` yields no text for an empty message, which would then be dropped;
the only caller posts a constant text, so messages are numbers here.

**ScriptStack.** `vm` is the part of `scr_VmPub` that the code changes; `frames` are
the calls in progress, each with the array of its `stack_isolation` and what its
destructor restores. Actions follow a call: `Enter`, `Push`/`PushFails`, `Apply`,
the game's function, `GetReturnValue`, `ClearOutParams`, `Restore`. References are
numbered, and `given` counts how often each was given back.

**ScriptEntities.** A slot is an `entity`, which variables of a script and fields refer to; each of the
constructors, the two assignments and the destructor is an action, with its calls of
`AddRef` and `RemoveRef`. The game (`game`) keeps references of its own, frees an object with the last
one, and may give the id to a new one, which `born` counts.

**SteamCallbacks.** A vector is its elements and its capacity, because appending
to a full vector moves it. `RunCallbacks` to `RunEnds` are the two nested loops;
whatever they call may return calls and register handlers on the same thread, as
the mutex is recursive, and other threads may not.

**SteamInterface.** A method is the row of its instructions that matter: a push of a number, a return with a size, a breakpoint behind it. `Text` says what is
read at an address, and `IsRdata` is the comparison of the code: with a range that begins where the section's data is in the *file*, and includes its end, so that
what is not a string may count as one and a string may not. `Code` is what is read from the entry of a
method on, with the methods behind it; `AnalyzeMethod` goes through it until something stops it; `Learned` is what a search that passes methods adds to `methods_`;
`Invoke` calls what has the name, if the sizes agree.

**SteamProxy.** `LoadModule` to `GetClients` are `load_client`, which may stop at each of them; `Frame` is the
callback that drops the handles (`CleanUpOnError`); `StartMod` is the call of the client, and `OpenParent` to `PrematureShutdown`
are what the process started with `-proc` does. `ClientChanges`: the client of the machine comes and goes, and
logs on and off.

**StringPool.** `string_pool_[t]` is the ring of a thread, `pool_` what the allocator has handed out. `Get` is
the call of `va`; `Format` writes the text if it fits, else `Truncated` frees the buffer and `Reallocate`
allocates the larger one, in two holds of the allocator's mutex. `EndThread` and `Destroy` give a ring back.

**Launcher.** `UseFlags` and `Construct` are `main`'s choice between the command line and the launcher,
`CreateWindow` to `Show` the window, its browser and its page; `Destroyed` is what `WM_DESTROY` does;
`GetIDsOfNames` and `Invoke` are the callbacks of the page, of which `SelectMode` closes the window while the script
goes on. Window, OLE and browser are external and may each fail.

**BinaryLoader, CodePatches, Signatures.** Memory is a row of pages or of places, with who wrote
what is there. `LoadSection` is one turn over the sections, `ResolveImport` one import, `NotSearched` to `Enter` the turns of the
search for a socket function that dw hooks. `CodePatches` has for each module the list of patches that its
`post_load` makes in an executable; `Install`, `Quick` and `Destroy` are the methods of `hook`, `Reach` is the game
running into a patch, and `GoOn` the same for the place where a stub or jump went on (`GoesOn`), such as ceg's into the function that fastfiles patches. In `Signatures` the code is a row of bytes, and `Process` tries all signatures at one place and patches it at once.

**Console, Shutdown.** Texts are numbers. `Runner…`, `Log…` and `Destroy…` are the statements
of the thread, of `log_messages` and of `pre_destroy`. `Shutdown` says when they can
happen: the thread from the console's turn in `post_start`, the logging in frames on
the main thread while the game runs, and `pre_destroy` when the loop of some ending
thread has come to the console, which it leaves only when the thread is joined. What
the code leaves undefined (a second `pre_destroy` during the first, frames that use deleted
modules) is not followed.

**ModuleLoader.** `main_` is where `main` is; `exiting` is how far each thread is on
its way out. The flag of `pre_destroy` is tested and set in two steps, so a second thread
may delete the modules under the loop of the first.

**Buffers.** `BitBuffer` has `write` and `read` with their windows, masks and shifts as
arithmetic on bytes. In `ByteBuffer` each method is an operator from buffer to buffer; a
read returns whether it succeeded, its output, and the buffer. It has one
layout per class, and one more where `deserialize` reads less than `serialize` writes.

**Lobby.** A packet is a byte buffer. `Parse…` are the turns of the loop of `parse_packet`;
`Handled` is the handler that the type and the sub-type of a request select, given the
arguments it deserialized. `sound` says whether the file system does what it is asked, for the whole of a behaviour. If it does not, a write leaves
any beginning of the data or the file as it was (`Begun`), since nobody looks at its result; a read sees no file, or one
whose end is zeros (`Views`), as `read_file` resizes the text before it reads; and `ParseFailing` is the directory that cannot be made, whose
exception takes the rest of the packet with it. The program may die in a write in either case (`Die`). The game's key follows its
hello at once, the server's when it parses it, so a message that is decrypted with
the wrong key would show. `answers` is what the game makes of the replies' bytes; it takes
the name and size of a file's description and the contents of files, and of the other
objects only that there are as many as announced and nothing but padding behind them.
The cipher adds the key to each byte; SHA-1 and the clock are constants. `Tiger` hashes,
names of directories and the texts of `bdDML` are left out.

## 3. What the runs show

Bounds are constants in the `.cfg` files and definitions of the run's module. Every
property of every run has mutants of modelled definitions that violate it; of a
property that is a conjunction, most parts have one of their own.

| Run | States | Properties | What it shows |
|---|---|---|---|
| `service_server` | 490 275 | `AnswersStayWhole`, `ImplementsReplyStream`, `EveryPacketParsed`, `LoneReaderNeverEmpty` | two readers, two packets that cover every path of the parser. Answers appear whole, and are exactly the stream that the packets ask for, those to trailing bytes being the ones to what these are read as; every packet is parsed even if handlers throw, unless trailing bytes are read for ever; a reader is told 0 only when another thread reads from the server too |
| | | `PacketsParsedRight` | streams of messages cut anywhere: in a packet that begins with a message, the whole ones come first, each once and in order, up to one whose handler throws; only a cut packet makes the server take other bytes for a message; a packet of whole messages is parsed to its end |
| `dw_own_sockets` | 1 532 578 | `OwnSocketsKept`, `SystemShadowed` | two threads that share two sockets: no iterator dangles, nothing of a closed socket stays, and a `recv` loops in the mode of its socket, but on a socket that one thread closed or set under the call of the other; a `recvfrom` with room never asks the system behind STUN answers |
| `dw_shutdown` | 197 746 | `ClearedAfterJoin`, `JoinEnds`, `JoinHangs`, `BlockedRecvReturns` | two servers, two threads that share a socket, and `pre_destroy` against the worker. It returns exactly when it finds the worker asleep, ended or not started; otherwise worker and `pre_destroy` wait for each other for ever, or it never begins since a packet keeps the worker. A blocking `recv` that no other thread competes with returns when an answer is there or a request waits that gets one |
| `lists` | 127 929 | `VisitsRight`, `VisitsOnce`, `WorkIsDone` | two loops over four elements; a loop ends though elements are added while it runs, due tasks run, and queued callbacks and errors come to their turn |
| | | `FramesRight` | three callbacks per list, two errors: errors come in order and all, single callbacks once and all |
| | | `TasksInTime`, `WalksTheList` | two tasks; a task cleared by another task of the same frame may run once more, and no more; the walk is one of `ListWalk` |
| `event_handler` | 1 876 682 | `DispatchIsRight` | three listeners, two nested dispatches; a volatile listener may be called a second time by the outer of two dispatches, and only so |
| | | `ScriptsHear` | every directory of up to three files, two listeners in a level, two nested notifications: the scripts are the files up to the first that fails, and each listener that should hear of an event does |
| `script_calls` | 269 756 | `ReferencesGivenBack`, `CallsNest` | two nested calls of up to five arguments on stacks of five slots |
| | | `CountsMatch`, `SameObject` | two ids, each given to two objects, and three entities that are copied, moved, assigned and kept in fields |
| `steam` | 705 611 | `ResultsReach` | two threads, three requests, two callbacks: which results are lost, and that loops break only from within |
| | | `MethodsFound` | tables of three methods out of all bodies that a name and a size can be read from, or not, or wrongly, with strings in and outside the range in which they are sought, and numbers in it that are none |
| `shutdown` | 226 337 | `DestroyedBeforeDeleted`, `UntoldOnlyUnderLoop`, `NothingLost`, `ShutdownEnds` | three modules of which the second is the console, two threads that may end the program, four texts through a pipe of two |
| `buffers` | 867 836 | `WrittenIsRead` | three values of 1, 8, 16 and 32 bits, so all offsets they reach inside a byte, with and without types; two objects of any class or array headers, of none, one or three elements, behind each other, each with or without types |
| | | `RecentTextsStay`, `PoolIsOwned` | two threads with rings of two over four addresses |
| `lobby` | 815 474 | `ImplementsFileStore` | up to four requests in each of two lives of the program, in packets of one or two, over a file system that fails or does not: each of ten handlers, two requests without one, the keep-alive and the connection request |
| | | `LoginsSucceed` | three logins at a time in each of the three modes: one fails only if another came between, or if its ticket was not read |
| | | `NamesResolve` | two threads look up lobby, STUN and other names, while the servers may go away |
| `startup` | 299 722 | `MenuDecides` | all command lines; a page that calls with all arguments, before and after its window is closed |
| | | `LoadedRight` | images of two sections at all places, or with imports of all kinds from two libraries |
| | | `PatchedRight` | all modules in all orders in the three executables, and every way of the game from one patch to the next; code in which each signature occurs, and in which one lies within the bytes of another at each offset where both fit |
| | | `SteamIsTold` | a client that comes and goes, and a second process that may find the first one gone |

Behaviour of the code that these made visible, stated in the properties as it is:

* `pre_destroy` of dw joins the worker while it holds the mutex the worker needs
  (`module/dw.cpp:351-358`); `JoinHangs` says when this never ends.
* The size of a message is compared with that of the whole packet, and a failed read of a
  size keeps what the variable held (`game/demonware/service_server.cpp:138-148`): a cut message misleads the
  parser to the end of its packet. A packet with a message of exactly 200 bytes loses its rest.
* One to three bytes behind the last message of a packet move the position of the parser nowhere
  (`game/demonware/service_server.cpp:135-138`): it goes round with whatever the stack holds, which may be for ever, and
  then holds the mutexes of the server and of dw.
* Messages that lie behind one whose handler throws are dropped, whole ones too (`:188`, `:196`), and a directory that cannot be made
  (`utils/io.cpp:16`) is such a throw.
* `read_array_header` divides by the number of elements (`game/demonware/byte_buffer.cpp:150`), which may be 0. Nothing in `src/` reads one.
* A `recvfrom` without room takes an answer of the STUN server off the queue, returns 0 from `recv_datagam_packet`, and so asks the system as well (`module/dw.cpp:33-41`).
* A socket that one thread closes while another receives on it leaves that thread with an iterator into nothing (`module/dw.cpp:259`), or
  with the wrong mode (`:56`); `crossed` says exactly which sockets.
* Where a function that `module/ceg.cpp:59` finds has, in the bytes its signature leaves open, the beginning of one that `:50` would find, the patch of the
  first hides the second; `Spoiled` says when.
* `gethostbyname` answers with one static structure that the caller reads after the mutex is
  released (`module/dw.cpp:126`): another thread's answer may be in it by then.
* `Scr_ClearOutParams` (`game/game.cpp:170-180`) indexes `top[i - 1]`, upwards, where
  the parameters lie below `top`. It releases the first argument and then slots
  above it. `GivenBack` says which references stay: those of all arguments but the
  first of a call without result.
* A write of a user's file that fails is answered with success
  (`game/demonware/services/bdStorage.cpp:77`, `:227`), and a death of the program during a
  write leaves a truncated file; what cannot be read of a file is handed out as zeros. `FileStore` is the weaker promise that the code keeps
  where the file system fails, and the exact one where it does not.
  `delete_user_file` says success and deletes nothing, which is part of that promise too.
* The two services for dedicated servers never read the size of the ticket
  (`game/demonware/services/bdDediAuth.cpp:23`), so how much of it they look at is whatever the stack held.
* There is one ticket for all requests (`steam/interfaces/user.cpp`) and one pair of lobby keys for all connections.
  The keys do not matter, because every session key in a mode is the same; the ticket does.
* A result returned from within `run_callbacks` is dropped by the `clear` at its
  end (`steam/steam.cpp:75`), or breaks the loop when the vector moves.
* A second thread in `exit_hook` can delete the modules under the loop of the
  first (`loader/module_loader.cpp:62`).
* Only the beginning of a section is compared with the size of the payload
  (`loader/loader.cpp:78`), so one that begins inside may overwrite the program's own pages.
* The search of the import table (`utils/nt.cpp:176`) does not advance over an import by name in
  the two socket libraries and never ends there; it stops at the first place of a function, so another stays unhooked.
* The pointer to a window that could not be made stays in the list of windows, so the message loop
  waits for a window nobody can close (`launcher/window.cpp`).

None of these contradicts a comment, a document or a test of the repository, which
has very few of them, so no run states an expectation that is violated.

### Why the bounds are enough

Two threads, two sockets and two servers are every pairing the maps can tell apart.
A list of four elements has a head, a tail and two neighbours in between that can
both be removed under an iterator that is at a third. Two nested dispatches or
calls show everything an inner one can do to an outer one; deeper ones repeat it.
The two threads share both sockets, so one can close a socket at each step of the other's calls.
Packets are chosen so that each path of the parse loop occurs before and after a
message that is answered. Trailing bytes are read twice (`MaxGuesses`), so what one reading leaves is taken for
something else; from then on they are read for ever or not again. A server of `Dw` may have two requests waiting, so that one without an answer can stand
before one with. The clock goes to 3 with short delays, since only
whether a delay has passed matters. Three files are two scripts, of which the first may fail, and one
that is no script. The pipe of two is full, empty and in between. The console stands between two other
modules, so it can be told first or last of those that are left. A ring of two comes round
as the code's eight do; four addresses are the two rings, so a buffer that grows must take one
that has been freed. Three logins are one that is disturbed, one that disturbs and one beside. Four requests are
a hello, a write, and two reads of what it left; two lives let the second read what
the first wrote. A write is cut at each byte of its data. Contents are empty, or look like a type
and a zero, which is what framing by types, lengths and zeros can confuse. Memory of five pages
has three of the payload and two of the program, so a section can lie inside, across and outside. The places and bytes of
patches are those of the code, not a sample of them.

### Fairness

Liveness properties assume that the system schedules every thread that can go on
(weak fairness of the worker, of the joining thread and of a call in progress in
`Dw`; of the console's thread and its `pre_destroy` in `Shutdown`; of the parsers in
`ServiceServer` and `PacketFraming`; of the loading in `BinaryLoader`; of the second process in
`SteamProxy`), and that the game keeps running frames and callbacks end
(`TaskScheduler`, `FrameScheduler`, the frames of `SteamProxy`). Nothing is assumed of when a game thread makes
a call, when a script sets a task, when the Steam client comes or goes, or when anybody shuts down.

## 4. What is proved

All constants are arbitrary within the named assumptions of the modules: there is
no bound on threads, packets, elements, objects or modules beyond being a natural number.
What is assumed of constants is what the code gives: the memory of an isolated stack has room for a
result (`StackAssumption`), a ring has a buffer and no address is the one of nothing (`BuffersAssumption`,
`NothingAssumption`), values that stand for "nobody" are no threads and "system" no server (`ThreadsAssumption`, `HostsAssumption`,
`NoneAssumption`), a method has a breakpoint only behind its code
(`InterfaceAssumption`), the functions that the game calls on sockets are among those that dw hooks (`FunctionsAssumption`), a request has a number of replies
and is parsed to an end or not (`RequestsAssumption`), trailing bytes are the last of their packet (`PacketsAssumption` of `ServiceServer`), the slots of entities are finitely many and ids are not 0 (`SlotsAssumption`, `IdsAssumption`), a variant
has a type and a number (`VariantsAssumption`), the console is one of the modules and `main` one of the threads
(`ConsoleAssumption`, `MainAssumption`), the game's files have names and contents of bytes, a packet of it is a sequence of requests with
the arguments their handlers read, or one that is sent alone (`NamesAssumption`, `PublisherAssumption`, `PacketsAssumption`), a life of the program
has less than 2^31 requests (`BoundsAssumption`), what is written into buffers are values of their kinds, and the size of an array fits into its field (`BytesAssumption`, `SampleAssumption`, `HeadersAssumption`),
and the bounds of the models are numbers.
No theorem assumes that hashes of names differ: `Names_Resolve` says which server is reached if they do not.

The invariants are inductive: each proof shows that the first state has it, that each
action keeps it (one step per action), and that it implies the property.

* `ServiceServerProofs`. `TypeCorrect`; `AnswersWhole` by the invariant `WholeInv` (the
  readable bytes are the finished answers followed by the answer in progress, which
  is empty unless the worker holds the mutex; without the last part a reader might take
  bytes of it); `LoneReader` by `LoneInv` (when no other thread has ever called `recv`, a
  reader that waits for the lock has bytes to take, since only readers take them); `Refinement`: every step of the
  server is a step of `ReplyStream` or changes nothing of it. Its lemmas about
  numbering the waiting packets are what makes the answer go to the right request.
  `ExactReplies`: it implements `ReplyStream` also with the answers spelled out, byte for byte. `ExactInv`
  says at each place of `run_frame` how many parts of the exact answer have been pushed: all before the sub-packet it is at, and that one's
  own if it has been replied to; trailing bytes are replaced in `packet` by what they are read as, which is one of the `Readings` in the end. The exact answer is a `FlattenSeq` of parts, of which one is added for each sub-packet that is read.
  `MessagesFound` is about `PacketFraming` with constants of the proof module's own, any sizes other than 0 and the connection's (`StreamsOfSizes`).
  `Progress` says of a packet that begins with a message that the parser stands behind the first `h` messages and has handled just these, or
  that these are all that are there whole, or that the last of them threw; they are at different places in their order (`Beginnings`), so a size that is read there is theirs.
* `DwProofs`, about `Dw`, `HostNames`, `Login` and `Lobby`. `ShutdownInv` ties the mutex to the places of worker and destroyer;
  from it `Cleared_After_Join`, `No_Frame_During_Join`, and `Join_Hangs`, where
  `WillHang` is itself inductive: neither of the two threads has a step.
  `Own_Sockets_Kept` and `System_Shadowed` by `SocketsInv`, with threads that share any sockets. Of a socket that is not crossed: a call on it has a good iterator
  and the mode of the socket, one that closes it is the only call on it (`ClosedAlone`), and what it has forgotten is gone. A step that closes or sets a socket
  with another call on it makes it crossed, and any other step leaves alone what is right of the other calls. `AnswersQueued`: a socket that was sent a STUN answer has a queue,
  and of the steps only those of `closesocket` and the clearing take queues away, so that a `recvfrom` goes on to the system only
  if it found no queue or had no room. `Names_Resolve` by `HostsInv`: while a thread holds the mutex, the static address is that of
  the name it looks up, and after that until another thread takes it; what it has read is of its own name unless it was overwritten.
  `Logins_Succeed` by `LoginsInv`. It consists of `AuthInv` (whoever waits for the authentication has one message in the queues, so an undisturbed
  one finds its own; its ticket is in Steam's hands or its own) and `LobbyInv` (behind a hello in the queue, or once the
  lobby has been told, every request is encrypted with the key the lobby has by then), both for the
  one session key of a mode.
  `Files_Are_Kept`, the refinement of `FileStore` by `Lobby`, by `StoreInv`: the bytes still to be parsed are those of the requests the
  game waits for, one after another and encrypted with its key (`Sent`), and the server has that key unless the hello that brings it is among them. So what
  is parsed next is the request waited for first (`FirstAwaited`): its size is found, its type behind the cipher, the one callback that type and sub-type select
  (`RequestSelected`), and the arguments the game wrote, since objects come back (`ByteBufferProofs`). `HandledRight`
  says of each of the ten handlers that, whatever view of the files it is given, it writes the file and replies with the object or error that a store with these files would answer with, and
  `ServiceReplied` that the game reads just that: behind the size, the cipher, the checksum, the head and the counts, with only padding left.
  The views and the cut writes are those of the store (`ViewsAre`, `BegunServed`, `WrittenServed`), of which a sound file system leaves one each; and the exception
  of a write (`FailStep`) is the store's loss of a packet. The number of transaction ids used stays below that of requests, which is why each is a number of four bytes.
* `ListProofs`, about the list, `ListWalk`, `TaskScheduler`, `FrameScheduler`, `EventHandler` and `ScriptContexts`. A well-formed list has pointers that only
  go to older elements and never past a linked one; add, remove and clear keep
  it so. For a loop, `OnTheWay` says the same of the copy of the pointer that it
  carries, `Behind` that what it has visited is younger than where it is, `Inside`
  that pointers among what was linked at its beginning stay there. From them
  `VisitedRightly`, `VisitedOnce` and that the linked elements are one chain (`ListIsOneChain`).
  The lemmas are about any list and any iterator, so they serve three more components.
  `Walks_The_List` maps each step of `run_frame` to one of the loop. `Tasks_In_Time` by `TaskInv`: a timeout that has run
  and a task that is cleared are not linked, and the walk has passed what must not be called again. `Frames_Right` by `SinglesInv` (the loop over
  single callbacks stands among what was linked when it began, and what has run is behind it) and `ErrorsInv`.
  `Dispatch_Is_Right` by `HandlerInv`: every dispatch on the stack, however deep, is a
  loop in the sense of the first lemmas (`WalkRight`), whose visited entries are those it has called if they match, and whose
  beginning has all it must call; ids are given once, and an entry is linked until its id is gone.
  `Scripts_Hear` by `ContextsInv`: the contexts are the files evaluated so far (`LevelInv`), each activity is at one of them, and what
  a notification still has to tell is in the scripts it has not passed, or was cleared.
* `ScriptCallsProofs`, about `ScriptEntities` and `ScriptStack`. Of entities one inductive invariant: the counts match (`CountsMatch`), an entity
  has the object it was made for, a field the object it was set for, and the slot that set a
  field is alive and still has that object. They need each other: only an object with a right count is
  not freed while an entity has it, and only then is its id not given to another.
  `CountsAreRight` and `EntitiesAreOneObject` follow. The lemmas say how the set of holders, whose size
  the count is, changes with one constructor, assignment or destructor.
  Of calls `CallsInv`: what each call has saved is the stack of the call below it, the innermost finds on the stack
  what the stage it is in has put there (`CallRight`), and the error level is the number of safe calls; from it
  `Calls_Nest` and, since `CallRight` also says which references have been given back at each stage, `References_Given_Back`.
* `PoolAndSteamProofs`, about `StringPool`, `SteamCallbacks` and `SteamInterface`. `PoolStaysOwned`: the entries of the rings (`Shape`), that each has memory of a size
  (`Sized`) and that the allocator holds what the entries have (`PoolIsOwned`) are inductive together, though freeing
  and allocating are two steps. `RecentTextsAreSafe`: the text of an answer stands in the entry as many places before
  the current one as there are later answers, one more while a text is being formatted; a step
  frees only the memory of the entry to be written next, where no text that still counts stands, and by `PoolIsOwned`
  memory that is handed out is that of no other entry.
  `Results_Reach` by `ResultsInv`: what a run over the results is through with has been settled, and what stands behind
  the end it began with was returned from within it (`RunRight`), so its `clear` forgets nothing else.
  `Methods_Found` by `MethodsInv`: what is known under a name was read from a method, and what is read of one that is readable
  is its own code (`CodeBegins`), whatever methods are behind it. Nothing is assumed of the range in which strings are sought: `Readable` says which methods it suits.
  A method of a name gives way only to a later one of that name.
* `ShutdownProofs`, about `ModuleLoader`, `Shutdown`, `Launcher`, `BinaryLoader` and `SteamProxy`. `Place` says for each place on the way out how far the loop
  over the modules has come. It holds while one thread is on its way out, which
  is why the invariant says so only `Alone`; and as threads do not turn back, a state with
  one such thread has only predecessors with at most one (`ToldOnceThenDeleted`). With more of them,
  `DeletedUntoldOnlyUnderLoop` says what is left of it: the flag has been set by the thread whose loop is still in progress.
  Every step of `Shutdown` is one of `ModuleLoader` or leaves its variables
  alone (`ImplementsLoader`), so these facts carry over
  (`ConsoleToldThenDeleted`). `ThreadGone` needs both halves: `GoneInv` says that the console
  counts as told only when its `pre_destroy` is done, and that then its thread is gone and
  cannot come back, since nothing starts modules once somebody is on the way out.
  `Nothing_Lost` by `LostInv`: what was printed is what was logged followed by what a frame, the queue, the thread and the pipe hold, in this order;
  each step moves a text from one to the next, and the thread is started once.
  `Menu_Decides` by `MenuInv`: `mode_` is what the calls of the page come to, the ids the page has are those of the
  names it asked for, and a window that is there is the one in the list, while without one the loop has been told to end, or there was never a page.
  `Loader_Right` and `Proxy_Watches` are about `BinaryLoader` and `SteamProxy` with constants of the proof module's own, so for any
  images, dlls, functions and versions; the run checks the same formulas for those of `Startup`. The loader's
  invariant, `LoadedInv`, says that imports the walk has passed are bound to what was found for them or replaced (`LinkInv`), and
  that a call of dw already looked for stands in the one place where it is settled, or is imported nowhere, while those still to come stand nowhere (`HookInv`); that needs
  what the search has passed not to be what it wants. Its assumptions: the headers hold sequences of records (`ImagesAreFiles`), and dw replaces
  no function twice (`CallsDiffer`). `ProxyInv`: the handles held are those open in the client until they are dropped,
  and the callback is there from the first look at the client on, as long as there are handles.

* `ByteBufferProofs` and `BuffersProofs`, about `ByteBuffer`, `BitBuffer` and `Buffers`. The first says what the operators of a byte buffer
  do: an image of a number has its width and gives the number back, a read at the place where a value was written gives
  the value and goes behind it whatever follows, and so for the fields of an object and the elements of an array, whose header counts them, and can be read unless it counts none.
  `Written_Is_Read` in the second has one invariant for each part of the run. `BitsInv`: the bits of the buffer below its end are, value by
  value, the bits of what was written, and every read so far began where a write began; a byte is the sum of its bits, so writing into one
  (`Packed`) leaves alone the bits outside the window (`Kept`). `ItemsInv`: what is still to be read stands ahead, in order, as it was
  laid down. `MessagesInv`: the object before the reader is the one that was serialized there.

`FlattenSeq`, in `Nothing_Lost`, `Methods_Found`, `ExactReplies` and `Files_Are_Kept`, and the sum of lengths in `MessagesFound` are
recursive. So are the readers and writers of objects in `Written_Is_Read` and `Files_Are_Kept`. The prover cannot cite an induction theorem, but that
a set of numbers that is not empty has a least one (`LeastOf`, from well-foundedness) is enough: `Induction` is
proved from it for a given set of numbers.

Only model-checked:

* liveness (`EveryPacketParsed`, `JoinEnds`, `BlockedRecvReturns`, `WorkIsDone`, `ShutdownEnds`, and the parts of `LoadedRight`,
  `SteamIsTold` and `PacketsParsedRight` that say what happens at last), since the prover does not do fairness;
* `PatchedRight`: the places and executables are those of the code, and the bytes to be searched those of its signatures, so the run is exhaustive
  for the patches; that a search finds all that was there is not true of any code, only of one in which no function spoils another.

## 5. What is not modelled

* The commands (`module/command.*`): nothing adds one, and no module reaches the dispatcher.
* Compression, which nothing calls; the ciphers and hashes themselves, wrappers of libtomcrypt.
  They are terms in `Login` and the addition of a key in `Lobby`.
* The site objects through which the browser asks its host (`launcher/html/*`), which answer with
  constants, and the parts of `html_argument` that nothing uses.
* Tables of names and addresses: functions and fields of scripts, functions of the game but those that
  stubs go on in; the layouts in `structs.hpp`.
* Conversions between script values and the game's, other than of entities; strings and blobs without their end.
* The stubs of the Steam interfaces that answer with constants; the start of the overlay.
* `discord` and `game_launcher`, which change nothing in the game; `bd_logger`; the registry.
* Making and applying the patch of the executable, which is I/O over bytes.
* The two thousand million versions of the engine that `steam_proxy` might ask for: the model has two.
* `longjmp` over C++ frames other than those of `FrameScheduler`, `ScriptStack` and `ScriptContexts`, and a
  `run_callbacks` nested in another.
* Memory that runs out: `bad_alloc` is not thrown anywhere in the models; the buffers of C's `stdio`, so that a text of the console is printed when it is in the pipe.

## 6. Plan

What is left to extend: the conversions of script values (`script_value`, `variable_value`) with the references
of strings and vectors, in `ScriptStack`; a `run_callbacks` that nests; the order of datagrams of several STUN servers.

What is left to prove: `PatchesStand` and `NothingElseTouched` for any code and patches that do not overlap, in place of those of the code;
that of a stream of messages in `PacketFraming` the exact answers come, where `ServiceServer` has them of sub-packets.
