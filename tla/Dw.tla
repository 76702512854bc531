-------------------------------- MODULE Dw ---------------------------------
(***************************************************************************)
(* The demonware emulation of module/dw.cpp: the socket calls of the game  *)
(* that it replaces, the worker thread that runs the emulated servers, and *)
(* the shutdown of the two. Game threads, the worker and the thread that   *)
(* calls pre_destroy share the maps under one recursive mutex; every       *)
(* lookup takes and drops it, so a call is several critical sections.      *)
(* Of what an emulated server makes of its requests only matters how many  *)
(* replies each gets and whether its parsing ends.                         *)
(*                                                                         *)
(* Calls on sockets that dw does not know go to the operating system and   *)
(* change nothing here; the one that matters is recvfrom.                  *)
(***************************************************************************)
EXTENDS Integers, Sequences

CONSTANTS
  Threads,      \* game threads
  Sockets,      \* socket handles
  Functions,    \* those of the hooked functions that the game calls
  Order,        \* the servers, as std::map orders them
  None,         \* no entry in a map
  Requests,     \* what game threads send: the replies it gets, and if its parsing ends
  MaxRequests,  \* bound: the requests and replies each server may hold together, but for the last
  MaxDatagrams  \* bound: STUN answers a socket may hold

Servers == {Order[i] : i \in 1..Len(Order)}
TCP_BLOCKING == TRUE
UDP_BLOCKING == FALSE

Hooked == {"send", "recv", "sendto", "recvfrom", "connect", "closesocket", "ioctlsocket"}
ASSUME FunctionsAssumption == Functions \subseteq Hooked
ASSUME RequestsAssumption == Requests \subseteq [replies : Nat, ends : BOOLEAN]
ASSUME NoneAssumption == None \notin Servers /\ None \notin Seq(Threads)
ASSUME OrderAssumption == Order \in Seq(Servers)

VARIABLES
  server_mutex_,      \* who holds it across steps
  terminate_,
  registered,         \* servers_ and stun_servers_ are filled
  socket_links_,      \* socket -> server
  blocking_sockets_,  \* socket -> blocking mode
  datagram_packets_,  \* socket -> queue of STUN answers
  pending, stream,    \* the servers: requests waiting, and the number of replies not read
  worker,             \* where server_thread is, "off" before post_load
  frame,              \* the server it runs next, or never comes back from
  destroyer,          \* where pre_destroy is
  call,               \* the socket call each game thread is in
  open,               \* history: the handles not closed
  stunned,            \* history: sockets that got a STUN answer, until they are forgotten
  crossed             \* history: sockets that one thread closed, or set to blocking or not,
                      \* during the call of another thread on them

maps == <<socket_links_, blocking_sockets_, datagram_packets_>>
servers == <<pending, stream>>
threads == <<worker, frame, destroyer>>
history == <<open, stunned, crossed>>
vars == <<server_mutex_, terminate_, registered, maps, servers, threads, call, history>>

\* A call in progress: what it does next, its local variables, and if its buffer has
\* room; iterator is the map iterator recv_datagam_packet keeps while it does not hold
\* the mutex, and answered (history) if the socket had a STUN answer when it was called.
Idle == [op |-> "idle", sock |-> None, server |-> None, blocking |-> FALSE,
         iterator |-> "none", room |-> FALSE, answered |-> FALSE]

Init ==
  /\ server_mutex_ = "none" /\ terminate_ = FALSE /\ registered = TRUE
  /\ socket_links_ = [s \in Sockets |-> None]
  /\ blocking_sockets_ = [s \in Sockets |-> None]
  /\ datagram_packets_ = [s \in Sockets |-> None]
  /\ pending = [v \in Servers |-> <<>>] /\ stream = [v \in Servers |-> 0]
  /\ worker = "off" /\ frame = 1 /\ destroyer = "no"
  /\ call = [t \in Threads |-> Idle]
  /\ open = Sockets /\ stunned = {} /\ crossed = {}

Free == server_mutex_ = "none"
Mode(s, default) == IF blocking_sockets_[s] = None THEN default ELSE blocking_sockets_[s]
Goto(t, op) == call' = [call EXCEPT ![t].op = op]
Return(t) == call' = [call EXCEPT ![t] = Idle]

\* Thread t calls a socket function on s, which alters what dw keeps of a socket or not.
CallsOn(t, s) == {u \in Threads \ {t} : call[u].op # "idle" /\ call[u].sock = s}
Crosses(t, s, alters) ==
  \E u \in CallsOn(t, s) : alters \/ call[u].op \in {"unlink", "close"}
Calls(t, s, alters) ==
  /\ call[t].op = "idle" /\ s \in open
  /\ crossed' = IF Crosses(t, s, alters) THEN crossed \cup {s} ELSE crossed

-----------------------------------------------------------------------------
(* Stream sockets.                                                         *)

ShutdownUnchanged == UNCHANGED <<server_mutex_, terminate_, registered, threads>>
BeginUnchanged == ShutdownUnchanged /\ UNCHANGED <<open, stunned>>
StreamUnchanged == ShutdownUnchanged /\ UNCHANGED history

\* io::connect: link_socket is one critical section.
Connect(t, s, v) ==
  /\ Calls(t, s, FALSE) /\ Free /\ registered
  /\ socket_links_' = [socket_links_ EXCEPT ![s] = v]
  /\ UNCHANGED <<blocking_sockets_, datagram_packets_, servers, call>>
  /\ BeginUnchanged

\* io::send and io::recv first find the server of the socket, and from then on
\* hold a shared pointer to it and not the mutex.
Find(t, s, op, room) ==
  /\ Calls(t, s, FALSE) /\ Free
  /\ socket_links_[s] # None
  /\ call' = [call EXCEPT ![t] = [Idle EXCEPT !.op = op, !.sock = s, !.room = room,
                                              !.server = socket_links_[s]]]
  /\ UNCHANGED <<maps, servers>> /\ BeginUnchanged

\* The mutex of v itself is held by a run_frame that does not come back.
Held(v) == worker = "hung" /\ Order[frame] = v

\* Less than four bytes are refused, before the mutex of the server is taken.
Send(t) ==
  /\ call[t].op = "send"
  /\ LET v == call[t].server
     IN  \/ UNCHANGED pending
         \/ /\ ~Held(v)
            /\ Len(pending[v]) + stream[v] < MaxRequests[v]
            /\ \E q \in Requests : pending' = [pending EXCEPT ![v] = Append(@, q)]
  /\ Return(t)
  /\ UNCHANGED <<maps, stream>> /\ StreamUnchanged

\* The blocking mode is looked up once, before the loop.
RecvMode(t) ==
  /\ call[t].op = "mode" /\ Free
  /\ call' = [call EXCEPT ![t].op = "recv",
                          ![t].blocking = Mode(call[t].sock, TCP_BLOCKING)]
  /\ UNCHANGED <<maps, servers>> /\ StreamUnchanged

\* One successful turn of the loop: it reads and returns.
RecvData(t) ==
  /\ call[t].op = "recv" /\ call[t].room
  /\ stream[call[t].server] # 0 /\ ~Held(call[t].server)
  /\ stream' = [stream EXCEPT ![call[t].server] = @ - 1]
  /\ Return(t)
  /\ UNCHANGED <<maps, pending>> /\ StreamUnchanged

\* A non-blocking recv gives up; a blocking one sleeps 1 ms and tries again, for
\* ever if its buffer has no room.
RecvWouldBlock(t) ==
  /\ call[t].op = "recv" /\ ~call[t].blocking
  /\ call[t].room => stream[call[t].server] = 0
  /\ Return(t)
  /\ UNCHANGED <<maps, servers>> /\ StreamUnchanged

\* io::ioctl_socket with FIONBIO.
Ioctl(t, s, blocking) ==
  /\ Calls(t, s, TRUE) /\ Free
  /\ blocking_sockets_' = [blocking_sockets_ EXCEPT ![s] = blocking]
  /\ UNCHANGED <<socket_links_, datagram_packets_, servers, call>>
  /\ BeginUnchanged

-----------------------------------------------------------------------------
(* Closing a socket: two critical sections, then the system's closesocket. *)

\* Erasing a queue leaves every iterator to it dangling.
Dangling(gone) ==
  [t \in Threads |-> IF call[t].iterator = "valid" /\ call[t].sock \in gone
                       THEN [call[t] EXCEPT !.iterator = "dangling"] ELSE call[t]]

\* Mutant of RemoveBlocking: the mode stays.
KeepBlocking(t, s) ==
  /\ Calls(t, s, TRUE) /\ Free
  /\ call' = [call EXCEPT ![t] = [Idle EXCEPT !.op = "unlink", !.sock = s]]
  /\ UNCHANGED <<maps, servers>> /\ BeginUnchanged

\* Mutant of RemoveBlocking: the modes of all sockets are forgotten.
RemoveAllBlocking(t, s) ==
  /\ Calls(t, s, TRUE) /\ Free
  /\ blocking_sockets_' = [r \in Sockets |-> None]
  /\ call' = [call EXCEPT ![t] = [Idle EXCEPT !.op = "unlink", !.sock = s]]
  /\ UNCHANGED <<socket_links_, datagram_packets_, servers>> /\ BeginUnchanged

RemoveBlocking(t, s) ==
  /\ Calls(t, s, TRUE) /\ Free
  /\ blocking_sockets_' = [blocking_sockets_ EXCEPT ![s] = None]
  /\ call' = [call EXCEPT ![t] = [Idle EXCEPT !.op = "unlink", !.sock = s]]
  /\ UNCHANGED <<socket_links_, datagram_packets_, servers>> /\ BeginUnchanged

\* Mutant of Unlink: the whole map of queues is cleared.
UnlinkAll(t) ==
  /\ call[t].op = "unlink" /\ Free
  /\ socket_links_' = [socket_links_ EXCEPT ![call[t].sock] = None]
  /\ datagram_packets_' = [r \in Sockets |-> None]
  /\ call' = [Dangling(Sockets) EXCEPT ![t].op = "close"]
  /\ stunned' = {}
  /\ UNCHANGED <<blocking_sockets_, servers, open, crossed>> /\ ShutdownUnchanged

Unlink(t) ==
  /\ call[t].op = "unlink" /\ Free
  /\ LET s == call[t].sock
     IN  /\ socket_links_' = [socket_links_ EXCEPT ![s] = None]
         /\ datagram_packets_' = [datagram_packets_ EXCEPT ![s] = None]
         /\ call' = [Dangling({s}) EXCEPT ![t].op = "close"]
         /\ stunned' = stunned \ {s}
  /\ UNCHANGED <<blocking_sockets_, servers, open, crossed>> /\ ShutdownUnchanged

CloseInSystem(t) ==
  /\ call[t].op = "close"
  /\ open' = open \ {call[t].sock}
  /\ Return(t)
  /\ UNCHANGED <<maps, servers, stunned, crossed>> /\ ShutdownUnchanged

\* The system hands a closed handle out again.
Reopen(s) ==
  /\ s \notin open
  /\ open' = open \cup {s}
  /\ UNCHANGED <<maps, servers, call, stunned, crossed>> /\ ShutdownUnchanged

-----------------------------------------------------------------------------
(* Datagram sockets: STUN requests are answered into a queue per socket.   *)

\* io::send_to finds the STUN server, whose send then pushes the answer.
StunFind(t, s) ==
  /\ Calls(t, s, FALSE) /\ Free /\ registered
  /\ call' = [call EXCEPT ![t] = [Idle EXCEPT !.op = "stun", !.sock = s]]
  /\ UNCHANGED <<maps, servers>> /\ BeginUnchanged

Queue(s) == IF datagram_packets_[s] = None THEN <<>> ELSE datagram_packets_[s]

StunPush(t) ==
  /\ call[t].op = "stun" /\ Free
  /\ LET s == call[t].sock
     IN  /\ Len(Queue(s)) < MaxDatagrams
         /\ datagram_packets_' = [datagram_packets_ EXCEPT ![s] = Append(Queue(s), t)]
         /\ stunned' = stunned \cup {s}
  /\ Return(t)
  /\ UNCHANGED <<socket_links_, blocking_sockets_, servers, open, crossed>>
  /\ ShutdownUnchanged

\* A type of request that is not known is ignored.
StunIgnore(t) ==
  /\ call[t].op = "stun"
  /\ Return(t)
  /\ UNCHANGED <<maps, servers>> /\ StreamUnchanged

\* recv_datagam_packet looks for the queue of the socket, and for the blocking mode
\* if there is one; without one recvfrom goes on to the system.
RecvFromFind(t, s, room) ==
  /\ Calls(t, s, FALSE) /\ Free
  /\ LET found == [Idle EXCEPT !.sock = s, !.room = room, !.answered = s \in stunned]
     IN  call' = [call EXCEPT ![t] =
           IF datagram_packets_[s] = None
             THEN [found EXCEPT !.op = "system"]
             ELSE [found EXCEPT !.op = "wait", !.iterator = "valid",
                                !.blocking = Mode(s, UDP_BLOCKING)]]
  /\ UNCHANGED <<maps, servers>> /\ BeginUnchanged

\* It drops the mutex, and when it is to block waits until the queue has something ...
RecvFromWait(t) ==
  /\ call[t].op = "wait"
  /\ call[t].blocking => call[t].iterator = "valid" /\ Queue(call[t].sock) # <<>>
  /\ Goto(t, "take")
  /\ UNCHANGED <<maps, servers>> /\ StreamUnchanged

\* Mutant of RecvFromTake: an empty queue is erased.
RecvFromLast(t) ==
  /\ call[t].op = "take" /\ call[t].iterator = "valid" /\ Free
  /\ LET s == call[t].sock
         last == Len(Queue(s)) <= 1
     IN  /\ datagram_packets_' =
              [datagram_packets_ EXCEPT ![s] = IF last THEN None ELSE Tail(@)]
         /\ call' = [Dangling(IF last THEN {s} ELSE {}) EXCEPT ![t] = Idle]
  /\ UNCHANGED <<socket_links_, blocking_sockets_, servers>> /\ StreamUnchanged

\* ... takes it again and goes back to the queue with the same iterator. Another thread
\* may have emptied the queue by then. A packet for which there is no room is lost, and
\* as nothing was copied recvfrom goes on to the system.
RecvFromTake(t) ==
  /\ call[t].op = "take" /\ call[t].iterator = "valid" /\ Free
  /\ LET s == call[t].sock
         queue == datagram_packets_[s]
     IN  /\ datagram_packets_' =
              [datagram_packets_ EXCEPT ![s] = IF queue = <<>> THEN @ ELSE Tail(@)]
         /\ IF queue = <<>> \/ call[t].room
              THEN Return(t)
              ELSE call' = [call EXCEPT ![t].op = "system", ![t].iterator = "none"]
  /\ UNCHANGED <<socket_links_, blocking_sockets_, servers>> /\ StreamUnchanged

\* The system's recvfrom.
RecvFromSystem(t) ==
  /\ call[t].op = "system"
  /\ Return(t)
  /\ UNCHANGED <<maps, servers>> /\ StreamUnchanged

\* When it looks into the queue by a dangling iterator the behaviour is undefined: the
\* thread may do anything, and is not followed any further.
RecvFromUndefined(t) ==
  /\ call[t].iterator = "dangling"
  /\ (call[t].op = "take" /\ Free) \/ (call[t].op = "wait" /\ call[t].blocking)
  /\ Goto(t, "undefined")
  /\ UNCHANGED <<maps, servers>> /\ StreamUnchanged

-----------------------------------------------------------------------------
(* The worker, server_thread, and its end.                                 *)

WorkerUnchanged == UNCHANGED <<registered, maps, stream, destroyer, call, history>>

\* Mutant of PostLoad: it runs after pre_destroy too.
PostLoadLate ==
  /\ worker = "off" /\ worker' = "start"
  /\ UNCHANGED <<server_mutex_, terminate_, frame, pending>> /\ WorkerUnchanged

\* post_load starts the thread.
PostLoad ==
  /\ worker = "off" /\ destroyer = "no"
  /\ worker' = "start"
  /\ UNCHANGED <<server_mutex_, terminate_, frame, pending>> /\ WorkerUnchanged

WorkerStart ==
  /\ worker = "start"
  /\ terminate_' = FALSE
  /\ worker' = "check"
  /\ UNCHANGED <<server_mutex_, frame, pending>> /\ WorkerUnchanged

\* Mutant of WorkerCheck: terminate_ is not looked at.
WorkerCheckNothing ==
  /\ worker = "check" /\ worker' = "lock"
  /\ UNCHANGED <<server_mutex_, terminate_, frame, pending>> /\ WorkerUnchanged

WorkerCheck ==
  /\ worker = "check"
  /\ worker' = IF terminate_ THEN "ended" ELSE "lock"
  /\ UNCHANGED <<server_mutex_, terminate_, frame, pending>> /\ WorkerUnchanged

WorkerLock ==
  /\ worker = "lock" /\ Free
  /\ server_mutex_' = "worker"
  /\ worker' = "frames" /\ frame' = 1
  /\ UNCHANGED <<terminate_, pending>> /\ WorkerUnchanged

\* run_frame of v: the oldest request is off its queue and its replies are sent.
ServesNext(v) ==
  /\ pending' = [pending EXCEPT ![v] = Tail(@)]
  /\ stream' = [stream EXCEPT ![v] = @ + Head(pending[v]).replies]
  /\ UNCHANGED <<server_mutex_, terminate_, registered, maps, destroyer, call, history>>

\* run_frame of each server in turn: at most one request each is answered.
WorkerFrame ==
  /\ worker = "frames" /\ frame <= Len(Order)
  /\ LET v == Order[frame]
     IN  IF pending[v] = <<>>
           THEN UNCHANGED <<server_mutex_, terminate_, registered, maps, servers, destroyer,
                            call, history>>
           ELSE Head(pending[v]).ends /\ ServesNext(v)
  /\ frame' = frame + 1
  /\ UNCHANGED worker

\* A request that ends in a few bytes too many may keep parse_packet for ever, and with
\* it the mutex of the server and server_mutex_.
WorkerHangs ==
  /\ worker = "frames" /\ frame <= Len(Order)
  /\ LET v == Order[frame]
     IN  pending[v] # <<>> /\ ~Head(pending[v]).ends /\ ServesNext(v)
  /\ worker' = "hung"
  /\ UNCHANGED frame

\* Mutant of WorkerUnlock: the loop may stop before the last server.
WorkerUnlockEarly ==
  /\ worker = "frames" /\ frame >= Len(Order)
  /\ server_mutex_' = "none" /\ worker' = "sleep"
  /\ UNCHANGED <<terminate_, frame, pending>> /\ WorkerUnchanged

WorkerUnlock ==
  /\ worker = "frames" /\ frame > Len(Order)
  /\ server_mutex_' = "none"
  /\ worker' = "sleep"
  /\ UNCHANGED <<terminate_, frame, pending>> /\ WorkerUnchanged

WorkerWake ==
  /\ worker = "sleep"
  /\ worker' = "check"
  /\ UNCHANGED <<server_mutex_, terminate_, frame, pending>> /\ WorkerUnchanged

\* Mutant of PreDestroy: it waits without the mutex.
PreDestroyUnlocked ==
  /\ destroyer = "no" /\ Free
  /\ terminate_' = TRUE /\ destroyer' = "join"
  /\ UNCHANGED <<server_mutex_, registered, maps, servers, worker, frame, call, history>>

\* pre_destroy takes the mutex, asks the worker to end, and waits for it
\* without giving the mutex back.
PreDestroy ==
  /\ destroyer = "no" /\ Free
  /\ server_mutex_' = "destroyer"
  /\ terminate_' = TRUE
  /\ destroyer' = "join"
  /\ UNCHANGED <<registered, maps, servers, worker, frame, call, history>>

\* The worker has ended, or was never started: everything is cleared.
Cleared(map) == [s \in DOMAIN map |-> None]
Joined ==
  /\ destroyer = "join" /\ worker \in {"off", "ended"}
  /\ registered' = FALSE
  /\ socket_links_' = Cleared(socket_links_)
  /\ blocking_sockets_' = Cleared(blocking_sockets_)
  /\ datagram_packets_' = Cleared(datagram_packets_)
  /\ call' = Dangling(Sockets)
  /\ server_mutex_' = "none"
  /\ destroyer' = "done"
  /\ stunned' = {}
  /\ UNCHANGED <<terminate_, servers, worker, frame, open, crossed>>

-----------------------------------------------------------------------------
Begin(t) ==
  \E s \in Sockets :
    \/ "connect" \in Functions /\ \E v \in Servers : Connect(t, s, v)
    \/ "send" \in Functions /\ Find(t, s, "send", TRUE)
    \/ "recv" \in Functions /\ \E room \in BOOLEAN : Find(t, s, "mode", room)
    \/ "ioctlsocket" \in Functions /\ \E blocking \in BOOLEAN : Ioctl(t, s, blocking)
    \/ "closesocket" \in Functions /\ RemoveBlocking(t, s)
    \/ "sendto" \in Functions /\ StunFind(t, s)
    \/ "recvfrom" \in Functions /\ \E room \in BOOLEAN : RecvFromFind(t, s, room)

Continue(t) ==
  \/ Send(t) \/ RecvMode(t) \/ RecvData(t) \/ RecvWouldBlock(t)
  \/ Unlink(t) \/ CloseInSystem(t)
  \/ StunPush(t) \/ StunIgnore(t)
  \/ RecvFromWait(t) \/ RecvFromTake(t) \/ RecvFromSystem(t) \/ RecvFromUndefined(t)

Worker == \/ WorkerStart \/ WorkerCheck \/ WorkerLock
          \/ WorkerFrame \/ WorkerHangs \/ WorkerUnlock \/ WorkerWake

Next ==
  \/ \E t \in Threads : Begin(t) \/ Continue(t)
  \/ \E s \in Sockets : Reopen(s)
  \/ PostLoad \/ Worker
  \/ PreDestroy \/ Joined

Spec == Init /\ [][Next]_vars

\* The system schedules every thread: one that has something to do goes on.
Fairness ==
  /\ WF_vars(Worker)
  /\ WF_vars(Joined)
  /\ \A t \in Threads : WF_vars(Continue(t))
FairSpec == Spec /\ Fairness

-----------------------------------------------------------------------------
(* Properties.                                                             *)

\* The server map is emptied only when no worker iterates over it, now or later.
ClearedAfterJoin == ~registered => worker \in {"off", "ended"}

\* Between the critical sections of recv_datagam_packet its iterator stays good,
\* whatever other threads send, receive and connect on the socket, unless one closes it
\* meanwhile, or pre_destroy clears the queues.
IteratorsStayValid ==
  \A t \in Threads :
    call[t].iterator = "dangling" => call[t].sock \in crossed \/ destroyer = "done"

\* A closed handle leaves no link, mode or queue behind for the socket that gets the same
\* handle next, although close_socket forgets them in two critical sections, if no call
\* of another thread overlapped with it.
ClosedSocketForgotten ==
  \A s \in Sockets \ (open \cup crossed) :
    socket_links_[s] = None /\ blocking_sockets_[s] = None /\ datagram_packets_[s] = None

\* A recv that goes round its loop does so in the mode its socket is in now, although
\* it looked the mode up only once, after it found the server and without the mutex in
\* between, unless another thread sets the mode or closes the socket meanwhile.
LoopsInItsMode ==
  \A t \in Threads :
    call[t].op = "recv" /\ destroyer = "no" /\ call[t].sock \notin crossed =>
      call[t].blocking = Mode(call[t].sock, TCP_BLOCKING)

\* What dw keeps of a socket is right for the calls on it and goes with it, also when
\* threads share it, but for what is closed or set under the call of another thread:
\* the three above.
OwnSocketsKept == IteratorsStayValid /\ ClosedSocketForgotten /\ LoopsInItsMode

\* From the first STUN answer until the socket is closed or dw is destroyed, a recvfrom
\* that is called with room for data never asks the system: an empty queue hides the
\* real traffic. (One without room does, once it has thrown a packet away.)
SystemShadowed ==
  \A t \in Threads : call[t].op = "system" /\ call[t].room => ~call[t].answered

\* While pre_destroy waits, either the worker is about to see terminate_ ...
WillEnd ==
  /\ destroyer = "join"
  /\ worker \in {"off", "sleep", "ended"} \/ (worker = "check" /\ terminate_)
\* ... or it is past looking at it, or has yet to reset it.
WillHang ==
  /\ destroyer = "join"
  /\ worker \in {"start", "lock"} \/ (worker = "check" /\ ~terminate_)

\* No server runs a frame while pre_destroy waits for the worker.
NoFrameDuringJoin == destroyer = "join" => WillEnd \/ WillHang

\* pre_destroy returns when it finds the worker asleep, ended or not started.
JoinEnds == WillEnd ~> destroyer = "done"

\* pre_destroy never returns when the worker has read terminate_ before it was
\* set, or resets it afterwards: each then waits for the other. Nor does it ever
\* begin when a packet keeps the worker.
JoinHangs ==
  /\ [](WillHang => [](destroyer = "join"))
  /\ [](worker = "hung" => [](destroyer = "no"))

\* A thread in a blocking recv returns when a reply is due to it: one that is there, or
\* one to a request that was accepted, although the requests before it may get none. Not
\* even closing the socket keeps it, but a buffer without room does, a request whose
\* parsing does not end, another thread that receives from the same server, and may take
\* the reply, and the end of dw.
Blocked(t, v) ==
  call[t].op = "recv" /\ call[t].server = v /\ call[t].blocking /\ call[t].room
Shared(t, v) == \E u \in Threads \ {t} : call[u].op = "recv" /\ call[u].server = v
Due(v) == stream[v] > 0 \/ \E i \in DOMAIN pending[v] : pending[v][i].replies > 0
BlockedRecvReturns ==
  \A t \in Threads : \A v \in Servers :
    (Blocked(t, v) /\ Due(v) /\ worker # "off")
      ~> (~Blocked(t, v) \/ Shared(t, v) \/ worker = "hung" \/ destroyer # "no")
=============================================================================
