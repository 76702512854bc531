----------------------------- MODULE DwProofs ------------------------------
(***************************************************************************)
(* Proofs about the shutdown of Dw, and about what belongs to a socket,    *)
(* its STUN answers too, for any threads, sockets and servers; about the   *)
(* game's way to these servers: the names that lead to them, and the       *)
(* logins through them, for any threads, names and logins; and that the    *)
(* lobby, as the game reads the bytes of its replies, is a store of files, *)
(* for any names, contents, packets and lives.                             *)
(***************************************************************************)
EXTENDS Dw, LobbyMC, ByteBufferProofs, FiniteSetTheorems

\* Who holds server_mutex_ follows from where the worker and pre_destroy are,
\* and nothing is cleared before the worker has ended for good.
ShutdownInv ==
  /\ worker \in {"off", "start", "check", "lock", "frames", "hung", "sleep", "ended"}
  /\ destroyer \in {"no", "join", "done"}
  /\ terminate_ \in BOOLEAN
  /\ server_mutex_ = "worker" <=> worker \in {"frames", "hung"}
  /\ server_mutex_ = "destroyer" <=> destroyer = "join"
  /\ registered = FALSE => destroyer = "done"
  /\ registered \in BOOLEAN
  /\ destroyer = "done" => worker \in {"off", "ended"}

\* What a socket call leaves alone.
LEMMA CallsLeaveShutdown ==
  ASSUME NEW t \in Threads, Begin(t) \/ Continue(t)
  PROVE  UNCHANGED <<server_mutex_, terminate_, registered, worker, frame, destroyer>>
<1> USE DEF StreamUnchanged, BeginUnchanged, ShutdownUnchanged, threads
<1>1. CASE Begin(t)
  BY <1>1 DEF Begin, Connect, Find, Ioctl, RemoveBlocking, StunFind, RecvFromFind
<1>2. CASE Continue(t)
  BY <1>2 DEF Continue, Send, RecvMode, RecvData, RecvWouldBlock, Unlink, CloseInSystem,
              StunPush, StunIgnore, RecvFromWait, RecvFromTake, RecvFromSystem,
              RecvFromUndefined
<1>3. QED
  BY <1>1, <1>2

LEMMA InitShutdown == Init => ShutdownInv
BY DEF Init, ShutdownInv

LEMMA NextShutdown == ShutdownInv /\ [Next]_vars => ShutdownInv'
<1> SUFFICES ASSUME ShutdownInv, [Next]_vars PROVE ShutdownInv'
  OBVIOUS
<1> USE DEF ShutdownInv
<1>1. ASSUME NEW t \in Threads, Begin(t) \/ Continue(t)
      PROVE  ShutdownInv'
  BY <1>1, CallsLeaveShutdown
<1>2. ASSUME NEW s \in Sockets, Reopen(s)
      PROVE  ShutdownInv'
  BY <1>2 DEF Reopen, ShutdownUnchanged, threads
<1>3. CASE PostLoad
  BY <1>3 DEF PostLoad, WorkerUnchanged
<1>4. CASE WorkerStart
  BY <1>4 DEF WorkerStart, WorkerUnchanged
<1>5. CASE WorkerCheck
  BY <1>5 DEF WorkerCheck, WorkerUnchanged
<1>6. CASE WorkerLock
  BY <1>6 DEF WorkerLock, WorkerUnchanged, Free
<1>7. CASE WorkerFrame \/ WorkerHangs
  BY <1>7 DEF WorkerFrame, WorkerHangs, ServesNext
<1>8. CASE WorkerUnlock
  BY <1>8 DEF WorkerUnlock, WorkerUnchanged
<1>9. CASE WorkerWake
  BY <1>9 DEF WorkerWake, WorkerUnchanged
<1>10. CASE PreDestroy
  BY <1>10 DEF PreDestroy, Free
<1>11. CASE Joined
  BY <1>11 DEF Joined
<1>12. CASE UNCHANGED vars
  BY <1>12 DEF vars, threads
<1>13. QED
  BY <1>1, <1>2, <1>3, <1>4, <1>5, <1>6, <1>7, <1>8, <1>9, <1>10, <1>11, <1>12
  DEF Next, Worker

LEMMA ShutdownInvariant == Spec => []ShutdownInv
BY InitShutdown, NextShutdown, PTL DEF Spec

\* The maps are cleared only once no worker will iterate over them again.
THEOREM Cleared_After_Join == Spec => []ClearedAfterJoin
<1>1. ShutdownInv => ClearedAfterJoin
  BY DEF ShutdownInv, ClearedAfterJoin
<1>2. QED
  BY <1>1, ShutdownInvariant, PTL

\* No server runs a frame while pre_destroy waits for the worker to end.
THEOREM No_Frame_During_Join == Spec => []NoFrameDuringJoin
<1>1. ShutdownInv => NoFrameDuringJoin
  BY DEF ShutdownInv, NoFrameDuringJoin, WillEnd, WillHang
<1>2. QED
  BY <1>1, ShutdownInvariant, PTL

\* A pre_destroy that comes too late for the worker's test of terminate_, or
\* too early for its reset, waits for ever: no step of anyone resolves it. And one
\* that has not begun when a packet keeps the worker never begins.
THEOREM Join_Hangs == Spec => JoinHangs
<1>1. ShutdownInv /\ WillHang /\ [Next]_vars => WillHang'
  <2> SUFFICES ASSUME ShutdownInv, WillHang, [Next]_vars PROVE WillHang'
    OBVIOUS
  <2> USE DEF WillHang, ShutdownInv
  <2>1. ASSUME NEW t \in Threads, Begin(t) \/ Continue(t)
        PROVE  WillHang'
    BY <2>1, CallsLeaveShutdown
  <2>2. ASSUME NEW s \in Sockets, Reopen(s)
        PROVE  WillHang'
    BY <2>2 DEF Reopen, ShutdownUnchanged, threads
  <2>3. ~PostLoad /\ ~PreDestroy /\ ~Joined /\ ~WorkerLock
    BY DEF PostLoad, PreDestroy, Joined, WorkerLock, Free
  <2>4. ~WorkerFrame /\ ~WorkerHangs /\ ~WorkerUnlock /\ ~WorkerWake
    BY DEF WorkerFrame, WorkerHangs, WorkerUnlock, WorkerWake
  <2>5. CASE WorkerStart
    BY <2>5 DEF WorkerStart, WorkerUnchanged
  <2>6. CASE WorkerCheck
    BY <2>6 DEF WorkerCheck, WorkerUnchanged
  <2>7. CASE UNCHANGED vars
    BY <2>7 DEF vars, threads
  <2>8. QED
    BY <2>1, <2>2, <2>3, <2>4, <2>5, <2>6, <2>7 DEF Next, Worker
<1>2. ShutdownInv /\ worker = "hung" /\ [Next]_vars => (worker = "hung")'
  <2> SUFFICES ASSUME ShutdownInv, worker = "hung", [Next]_vars PROVE worker' = "hung"
    OBVIOUS
  <2>1. ASSUME NEW t \in Threads, Begin(t) \/ Continue(t)
        PROVE  worker' = "hung"
    BY <2>1, CallsLeaveShutdown
  <2>2. ~PostLoad /\ ~Worker
    BY DEF PostLoad, Worker, WorkerStart, WorkerCheck, WorkerLock, WorkerFrame, WorkerHangs,
           WorkerUnlock, WorkerWake
  <2>3. CASE (\E s \in Sockets : Reopen(s)) \/ PreDestroy \/ Joined \/ UNCHANGED vars
    BY <2>3 DEF Reopen, ShutdownUnchanged, PreDestroy, Joined, vars, threads
  <2>4. QED
    BY <2>1, <2>2, <2>3 DEF Next
<1>3. WillHang => destroyer = "join"
  BY DEF WillHang
<1>4. ShutdownInv /\ worker = "hung" => destroyer = "no"
  BY DEF ShutdownInv
<1>5. QED
  BY <1>1, <1>2, <1>3, <1>4, ShutdownInvariant, PTL DEF Spec, JoinHangs

-----------------------------------------------------------------------------
(***************************************************************************)
(* What belongs to a socket. A call goes on with what it found when no     *)
(* other thread closes the socket or sets its mode meanwhile: then the     *)
(* socket is not among the crossed ones, and only the call itself touches  *)
(* what the socket has.                                                    *)
(***************************************************************************)
SocketModes == BOOLEAN \cup {None}
CallRecords ==
  [op : {"idle", "send", "mode", "recv", "unlink", "close", "stun", "wait", "take", "system",
         "undefined"},
   sock : Sockets \cup {None}, server : Servers \cup {None}, blocking : BOOLEAN,
   iterator : {"none", "valid", "dangling"}, room : BOOLEAN, answered : BOOLEAN]

TypedCall(c) ==
  /\ c \in CallRecords
  /\ c.op # "idle" => c.sock \in Sockets
  /\ c.op = "idle" => c.iterator = "none"

\* A call: its iterator is at a queue, or another thread closed its socket, or all is
\* cleared; it is not at the system in vain; it loops in the mode of its socket; and
\* what it says it has forgotten is forgotten.
RightCall(c, links, modes, queues, mixed, end) ==
  /\ c.iterator = "valid" => c.op \in {"wait", "take"} /\ queues[c.sock] # None
  /\ c.iterator = "dangling" => c.sock \in mixed \/ end = "done"
  /\ c.op = "system" /\ c.room => ~c.answered
  /\ c.op = "recv" /\ end = "no" /\ c.sock \notin mixed =>
       c.blocking = IF modes[c.sock] = None THEN TCP_BLOCKING ELSE modes[c.sock]
  /\ c.op \in {"unlink", "close"} /\ c.sock \notin mixed => modes[c.sock] = None
  /\ c.op = "close" /\ c.sock \notin mixed => links[c.sock] = None /\ queues[c.sock] = None

MapTypes ==
  /\ socket_links_ \in [Sockets -> Servers \cup {None}]
  /\ blocking_sockets_ \in [Sockets -> SocketModes]
  /\ datagram_packets_ \in [Sockets -> Seq(Threads) \cup {None}]
  /\ open \subseteq Sockets /\ crossed \subseteq Sockets

CallTypes == call = [t \in Threads |-> call[t]]

On(u, s) == call[u].op # "idle" /\ call[u].sock = s
Closing(t) == call[t].op \in {"unlink", "close"}

\* A socket that is being closed and not among the crossed ones is in no other call.
ClosedAlone ==
  \A t, u \in Threads :
    t # u /\ Closing(t) /\ On(u, call[t].sock) => call[t].sock \in crossed
CallsPresent == \A t \in Threads : call[t].op # "idle" => call[t].sock \in open \cup crossed
AnswersQueued == \A s \in stunned : s \in Sockets /\ datagram_packets_[s] # None

CallsRight ==
  \A t \in Threads :
    /\ TypedCall(call[t])
    /\ RightCall(call[t], socket_links_, blocking_sockets_, datagram_packets_, crossed, destroyer)

SocketsInv ==
  /\ MapTypes /\ CallTypes /\ CallsRight
  /\ ClosedAlone /\ CallsPresent /\ ClosedSocketForgotten
  /\ AnswersQueued

LEMMA IdleIsRight ==
  ASSUME NEW links, NEW modes, NEW queues, NEW mixed, NEW end
  PROVE  TypedCall(Idle) /\ RightCall(Idle, links, modes, queues, mixed, end)
BY DEF TypedCall, RightCall, Idle, CallRecords

LEMMA InitSockets == Init => SocketsInv
<1> SUFFICES ASSUME Init PROVE SocketsInv
  OBVIOUS
<1>1. MapTypes
  BY DEF Init, MapTypes, SocketModes
<1>2. CallTypes /\ \A t \in Threads : call[t] = Idle
  BY DEF Init, CallTypes
<1>3. CallsRight
  BY <1>2, IdleIsRight DEF CallsRight
<1>4. ClosedAlone /\ CallsPresent
  BY <1>2 DEF ClosedAlone, CallsPresent, Closing, Idle
<1>5. ClosedSocketForgotten /\ AnswersQueued
  BY DEF Init, ClosedSocketForgotten, AnswersQueued
<1>6. QED
  BY <1>1, <1>2, <1>3, <1>4, <1>5 DEF SocketsInv

\* What a step of thread t does to the other threads: their calls stay, but for an
\* iterator that is left dangling in a call that is crossed.
OthersStay(t) ==
  \A u \in Threads : u # t =>
    \/ call'[u] = call[u]
    \/ /\ On(u, call[u].sock) /\ call[u].sock \in crossed
       /\ call'[u] = [call[u] EXCEPT !.iterator = "dangling"]

\* A step of t in a call on s touches what s has, in the order of the events that cross:
\* whoever is closing s crosses it, and so does who is on s when its mode changes, or
\* when it is being closed; and a queue that goes leaves no good iterator behind.
OnlyTouches(t, s) ==
  /\ \A r \in Sockets : r # s =>
       /\ socket_links_'[r] = socket_links_[r] /\ blocking_sockets_'[r] = blocking_sockets_[r]
       /\ datagram_packets_'[r] = datagram_packets_[r]
  /\ open' \in {open, open \ {s}} /\ crossed' \in {crossed, crossed \cup {s}}
  /\ destroyer' = destroyer
CrossesRight(t, s) ==
  /\ \A u \in Threads : u # t /\ On(u, s) =>
       /\ Closing(u) => s \in crossed'
       /\ blocking_sockets_'[s] # blocking_sockets_[s] => s \in crossed'
       /\ call'[t].op \in {"unlink", "close"} \/ open' # open => s \in crossed'
       /\ datagram_packets_'[s] = None => datagram_packets_[s] = None \/ call'[u].iterator # "valid"
  /\ s \in open \cup crossed'
  /\ open' # open /\ s \notin crossed' =>
       socket_links_'[s] = None /\ blocking_sockets_'[s] = None /\ datagram_packets_'[s] = None
CallRight(t, s) ==
  /\ TypedCall(call'[t])
  /\ call'[t].op # "idle" => call'[t].sock = s /\ s \in open' \cup crossed'
  /\ RightCall(call'[t], socket_links_', blocking_sockets_', datagram_packets_', crossed',
               destroyer')

\* An other thread's call is as right as before.
LEMMA OtherStaysRight ==
  ASSUME SocketsInv, MapTypes', NEW t \in Threads, NEW s \in Sockets,
         OthersStay(t), OnlyTouches(t, s), CrossesRight(t, s),
         NEW u \in Threads, u # t
  PROVE  /\ TypedCall(call'[u])
         /\ RightCall(call'[u], socket_links_', blocking_sockets_', datagram_packets_', crossed',
                      destroyer')
<1>1. /\ TypedCall(call[u])
      /\ RightCall(call[u], socket_links_, blocking_sockets_, datagram_packets_, crossed, destroyer)
  BY DEF SocketsInv, CallsRight
<1>2. crossed \subseteq crossed'
  BY DEF OnlyTouches
<1>3. ASSUME call'[u] = [call[u] EXCEPT !.iterator = "dangling"],
             On(u, call[u].sock), call[u].sock \in crossed
      PROVE  /\ TypedCall(call'[u])
             /\ RightCall(call'[u], socket_links_', blocking_sockets_', datagram_packets_',
                          crossed', destroyer')
  <2>1. /\ call'[u] \in CallRecords /\ call'[u].op # "idle" /\ call'[u].sock \in crossed'
        /\ call'[u].iterator = "dangling" /\ call'[u].op = call[u].op
        /\ call'[u].room = call[u].room /\ call'[u].answered = call[u].answered
        /\ call'[u].sock = call[u].sock
    BY <1>1, <1>2, <1>3 DEF TypedCall, CallRecords, On
  <2>2. QED
    BY <1>1, <2>1 DEF TypedCall, RightCall
<1>4. CASE call'[u] = call[u] /\ call[u].op # "idle" /\ call[u].sock # s
  <2>1. /\ socket_links_'[call[u].sock] = socket_links_[call[u].sock]
        /\ blocking_sockets_'[call[u].sock] = blocking_sockets_[call[u].sock]
        /\ datagram_packets_'[call[u].sock] = datagram_packets_[call[u].sock]
    BY <1>1, <1>4 DEF OnlyTouches, TypedCall
  <2>2. QED
    BY <1>1, <1>2, <1>4, <2>1 DEF RightCall, OnlyTouches
<1>5. CASE call'[u] = call[u] /\ call[u].op # "idle" /\ call[u].sock = s
  <2>1. /\ Closing(u) => s \in crossed'
        /\ blocking_sockets_'[s] # blocking_sockets_[s] => s \in crossed'
        /\ datagram_packets_'[s] = None => datagram_packets_[s] = None \/ call[u].iterator # "valid"
    BY <1>5 DEF CrossesRight, On
  <2>2. QED
    BY <1>1, <1>2, <1>5, <2>1 DEF RightCall, Closing, OnlyTouches
<1>6. CASE call'[u] = call[u] /\ call[u].op = "idle"
  BY <1>1, <1>6 DEF TypedCall, RightCall
<1>7. QED
  BY <1>3, <1>4, <1>5, <1>6 DEF OthersStay

LEMMA StepKeeps ==
  ASSUME SocketsInv, MapTypes', CallTypes', AnswersQueued',
         NEW t \in Threads, NEW s \in Sockets,
         call[t].op # "idle" => call[t].sock = s,
         OthersStay(t), OnlyTouches(t, s), CrossesRight(t, s), CallRight(t, s)
  PROVE  SocketsInv'
<1>1. crossed \subseteq crossed'
  BY DEF OnlyTouches
<1>2. CallsRight'
  BY OtherStaysRight DEF CallRight, CallsRight
<1>3. \A u \in Threads : u # t => call'[u].op = call[u].op /\ call'[u].sock = call[u].sock
  BY DEF OthersStay, SocketsInv, CallsRight, TypedCall, CallRecords
<1>4. CallsPresent'
  <2>1. ASSUME NEW u \in Threads, u # t, call[u].op # "idle"
        PROVE  call[u].sock \in open' \cup crossed'
    <3>1. call[u].sock \in open \cup crossed
      BY <2>1 DEF SocketsInv, CallsPresent
    <3>2. CASE call[u].sock = s
      <4>1. open' # open => s \in crossed'
        BY <2>1, <3>2 DEF CrossesRight, On
      <4>2. QED
        BY <1>1, <3>1, <3>2, <4>1
    <3>3. CASE call[u].sock # s
      BY <1>1, <3>1, <3>3 DEF OnlyTouches
    <3>4. QED
      BY <3>2, <3>3
  <2>2. QED
    BY <1>3, <2>1 DEF CallRight, CallsPresent
<1>5. ClosedAlone'
  <2>1. ASSUME NEW u \in Threads, NEW w \in Threads, u # w,
               call'[u].op \in {"unlink", "close"}, call'[w].op # "idle",
               call'[w].sock = call'[u].sock
        PROVE  call'[u].sock \in crossed'
    <3>1. CASE u = t
      <4>1. call'[u].sock = s
        BY <2>1, <3>1 DEF CallRight
      <4>2. On(w, s)
        BY <1>3, <2>1, <3>1, <4>1 DEF On
      <4>3. QED
        BY <2>1, <3>1, <4>1, <4>2 DEF CrossesRight
    <3>2. CASE w = t
      <4>1. call'[u].sock = s
        BY <2>1, <3>2 DEF CallRight
      <4>2. On(u, s) /\ Closing(u)
        BY <1>3, <2>1, <3>2, <4>1 DEF On, Closing
      <4>3. QED
        BY <2>1, <3>2, <4>1, <4>2 DEF CrossesRight
    <3>3. CASE u # t /\ w # t
      BY <1>1, <1>3, <2>1, <3>3 DEF SocketsInv, ClosedAlone, On, Closing
    <3>4. QED
      BY <3>1, <3>2, <3>3
  <2>2. QED
    BY <2>1 DEF ClosedAlone, On, Closing
<1>6. ClosedSocketForgotten'
  <2>1. ASSUME NEW r \in Sockets \ (open' \cup crossed')
        PROVE  /\ socket_links_'[r] = None /\ blocking_sockets_'[r] = None
               /\ datagram_packets_'[r] = None
    <3>1. CASE r = s
      BY <1>1, <2>1, <3>1 DEF CrossesRight, OnlyTouches
    <3>2. CASE r # s
      <4>1. r \notin open \cup crossed
        BY <1>1, <2>1, <3>2 DEF OnlyTouches
      <4>2. QED
        BY <3>2, <4>1 DEF SocketsInv, ClosedSocketForgotten, OnlyTouches
    <3>3. QED
      BY <3>1, <3>2
  <2>2. QED
    BY <2>1 DEF ClosedSocketForgotten
<1>7. QED
  BY <1>2, <1>4, <1>5, <1>6 DEF SocketsInv

\* What calling a function of t on s does to the calls on s.
LEMMA CalledOn ==
  ASSUME SocketsInv, NEW t \in Threads, NEW s \in Sockets, NEW alters \in BOOLEAN,
         Calls(t, s, alters)
  PROVE  /\ call[t].op = "idle" /\ s \in open
         /\ crossed' \in {crossed, crossed \cup {s}} /\ crossed' \subseteq Sockets
         /\ \A u \in Threads : u # t /\ On(u, s) /\ (alters \/ Closing(u)) => s \in crossed'
<1>1. crossed \subseteq Sockets
  BY DEF SocketsInv, MapTypes
<1>2. ASSUME NEW u \in Threads, u # t, On(u, s), alters \/ Closing(u) PROVE s \in crossed'
  <2>1. u \in CallsOn(t, s)
    BY <1>2 DEF CallsOn, On
  <2>2. Crosses(t, s, alters)
    BY <1>2, <2>1 DEF Crosses, Closing
  <2>3. QED
    BY <2>2 DEF Calls
<1>3. QED
  BY <1>1, <1>2 DEF Calls

\* A function is called: t goes on with c, and nothing but the mode or the link of s
\* changes.
LEMMA CallKeeps ==
  ASSUME SocketsInv, NEW t \in Threads, NEW s \in Sockets, NEW alters \in BOOLEAN,
         Calls(t, s, alters), NEW c, call' = [call EXCEPT ![t] = c],
         TypedCall(c), c.op # "idle" => c.sock = s,
         c.op \in {"unlink", "close"} => alters,
         RightCall(c, socket_links_', blocking_sockets_', datagram_packets_', crossed', destroyer'),
         MapTypes', UNCHANGED <<datagram_packets_, open, stunned, destroyer>>,
         \A r \in Sockets : r # s =>
           socket_links_'[r] = socket_links_[r] /\ blocking_sockets_'[r] = blocking_sockets_[r],
         blocking_sockets_'[s] # blocking_sockets_[s] => alters
  PROVE  SocketsInv'
<1>1. /\ call[t].op = "idle" /\ s \in open
      /\ crossed' \in {crossed, crossed \cup {s}}
      /\ \A u \in Threads : u # t /\ On(u, s) /\ (alters \/ Closing(u)) => s \in crossed'
  BY CalledOn
<1>2. CallTypes' /\ call'[t] = c /\ \A u \in Threads : u # t => call'[u] = call[u]
  BY DEF SocketsInv, CallTypes
<1>3. OthersStay(t)
  BY <1>2 DEF OthersStay
<1>4. OnlyTouches(t, s)
  BY <1>1 DEF OnlyTouches
<1>5. CrossesRight(t, s)
  BY <1>1, <1>2 DEF CrossesRight
<1>6. CallRight(t, s)
  BY <1>1, <1>2 DEF CallRight
<1>7. AnswersQueued'
  BY DEF SocketsInv, AnswersQueued
<1>8. QED
  BY <1>1, <1>2, <1>3, <1>4, <1>5, <1>6, <1>7, StepKeeps

LEMMA BeginSockets ==
  ASSUME SocketsInv, NEW t \in Threads, Begin(t)
  PROVE  SocketsInv'
<1> PICK s \in Sockets :
      \/ \E v \in Servers : Connect(t, s, v)
      \/ Find(t, s, "send", TRUE)
      \/ \E room \in BOOLEAN : Find(t, s, "mode", room)
      \/ \E blocking \in BOOLEAN : Ioctl(t, s, blocking)
      \/ RemoveBlocking(t, s) \/ StunFind(t, s)
      \/ \E room \in BOOLEAN : RecvFromFind(t, s, room)
  BY DEF Begin
<1> USE DEF BeginUnchanged, ShutdownUnchanged, threads, maps
<1>0. MapTypes /\ CallTypes /\ TypedCall(call[t])
  BY DEF SocketsInv, CallsRight
<1>a. ASSUME Calls(t, s, FALSE) \/ Calls(t, s, TRUE) PROVE crossed' \subseteq Sockets
  BY <1>a, CalledOn
<1>b. ASSUME NEW links, NEW modes, NEW queues, NEW mixed, NEW end, call[t].op = "idle"
      PROVE  RightCall(call[t], links, modes, queues, mixed, end)
  BY <1>0, <1>b DEF TypedCall, RightCall
<1>c. call = [call EXCEPT ![t] = call[t]]
  BY <1>0 DEF CallTypes
<1>1. ASSUME NEW v \in Servers, Connect(t, s, v)
      PROVE  SocketsInv'
  <2>1. Calls(t, s, FALSE) /\ call[t].op = "idle" /\ call' = call
    BY <1>1 DEF Connect, Calls
  <2>2. MapTypes'
    BY <1>0, <1>1, <1>a DEF Connect, MapTypes
  <2>3. UNCHANGED <<blocking_sockets_, datagram_packets_, open, stunned, destroyer>>
    BY <1>1 DEF Connect
  <2>4. \A r \in Sockets : r # s => socket_links_'[r] = socket_links_[r]
    BY <1>0, <1>1 DEF Connect, MapTypes
  <2>5. RightCall(call[t], socket_links_', blocking_sockets_', datagram_packets_', crossed',
                  destroyer')
    BY <1>b, <2>1
  <2>6. QED
    BY <1>0, <1>c, <2>1, <2>2, <2>3, <2>4, <2>5, CallKeeps
<1>2. ASSUME NEW op \in {"send", "mode"}, NEW room \in BOOLEAN, Find(t, s, op, room)
      PROVE  SocketsInv'
  <2> DEFINE c == [Idle EXCEPT !.op = op, !.sock = s, !.room = room,
                               !.server = socket_links_[s]]
  <2>1. /\ Calls(t, s, FALSE) /\ call' = [call EXCEPT ![t] = c]
        /\ UNCHANGED <<socket_links_, blocking_sockets_, datagram_packets_, open, stunned, destroyer>>
    BY <1>2 DEF Find
  <2>2. MapTypes'
    BY <1>0, <1>a, <2>1 DEF MapTypes
  <2>3. TypedCall(c) /\ c.sock = s /\ c.op = op
    BY <1>0 DEF TypedCall, CallRecords, Idle, MapTypes
  <2>4. RightCall(c, socket_links_', blocking_sockets_', datagram_packets_', crossed', destroyer')
    BY DEF RightCall, Idle
  <2>5. c.op \notin {"unlink", "close"}
    BY <2>3
  <2> HIDE DEF c
  <2>6. QED
    BY <2>1, <2>2, <2>3, <2>4, <2>5, CallKeeps
<1>3. ASSUME NEW b \in BOOLEAN, Ioctl(t, s, b)
      PROVE  SocketsInv'
  <2>1. Calls(t, s, TRUE) /\ call[t].op = "idle" /\ call' = call
    BY <1>3 DEF Ioctl, Calls
  <2>2. MapTypes'
    BY <1>0, <1>3, <1>a DEF Ioctl, MapTypes, SocketModes
  <2>3. UNCHANGED <<socket_links_, datagram_packets_, open, stunned, destroyer>>
    BY <1>3 DEF Ioctl
  <2>4. \A r \in Sockets : r # s => blocking_sockets_'[r] = blocking_sockets_[r]
    BY <1>0, <1>3 DEF Ioctl, MapTypes
  <2>5. RightCall(call[t], socket_links_', blocking_sockets_', datagram_packets_', crossed',
                  destroyer')
    BY <1>b, <2>1
  <2>6. QED
    BY <1>0, <1>c, <2>1, <2>2, <2>3, <2>4, <2>5, CallKeeps
<1>4. CASE RemoveBlocking(t, s)
  <2> DEFINE c == [Idle EXCEPT !.op = "unlink", !.sock = s]
  <2>1. /\ Calls(t, s, TRUE) /\ call' = [call EXCEPT ![t] = c]
        /\ UNCHANGED <<socket_links_, datagram_packets_, open, stunned, destroyer>>
        /\ blocking_sockets_' = [blocking_sockets_ EXCEPT ![s] = None]
    BY <1>4 DEF RemoveBlocking
  <2>2. MapTypes'
    BY <1>0, <1>a, <2>1 DEF MapTypes, SocketModes
  <2>3. TypedCall(c) /\ c.sock = s /\ c.op = "unlink"
    BY DEF TypedCall, CallRecords, Idle
  <2>4. /\ \A r \in Sockets : r # s => blocking_sockets_'[r] = blocking_sockets_[r]
        /\ blocking_sockets_'[s] = None
    BY <1>0, <2>1 DEF MapTypes
  <2>5. RightCall(c, socket_links_', blocking_sockets_', datagram_packets_', crossed', destroyer')
    BY <2>4 DEF RightCall, Idle
  <2> HIDE DEF c
  <2>6. QED
    BY <2>1, <2>2, <2>3, <2>4, <2>5, CallKeeps
<1>5. CASE StunFind(t, s)
  <2> DEFINE c == [Idle EXCEPT !.op = "stun", !.sock = s]
  <2>1. /\ Calls(t, s, FALSE) /\ call' = [call EXCEPT ![t] = c]
        /\ UNCHANGED <<socket_links_, blocking_sockets_, datagram_packets_, open, stunned, destroyer>>
    BY <1>5 DEF StunFind
  <2>2. MapTypes'
    BY <1>0, <1>a, <2>1 DEF MapTypes
  <2>3. TypedCall(c) /\ c.sock = s /\ c.op = "stun"
    BY DEF TypedCall, CallRecords, Idle
  <2>4. RightCall(c, socket_links_', blocking_sockets_', datagram_packets_', crossed', destroyer')
    BY DEF RightCall, Idle
  <2> HIDE DEF c
  <2>5. QED
    BY <2>1, <2>2, <2>3, <2>4, CallKeeps
<1>6. ASSUME NEW room \in BOOLEAN, RecvFromFind(t, s, room)
      PROVE  SocketsInv'
  <2> DEFINE found == [Idle EXCEPT !.sock = s, !.room = room, !.answered = s \in stunned]
             c == IF datagram_packets_[s] = None
                    THEN [found EXCEPT !.op = "system"]
                    ELSE [found EXCEPT !.op = "wait", !.iterator = "valid",
                                       !.blocking = Mode(s, UDP_BLOCKING)]
  <2>1. /\ Calls(t, s, FALSE) /\ call' = [call EXCEPT ![t] = c]
        /\ UNCHANGED <<socket_links_, blocking_sockets_, datagram_packets_, open, stunned, destroyer>>
    BY <1>6 DEF RecvFromFind
  <2>2. MapTypes'
    BY <1>0, <1>a, <2>1 DEF MapTypes
  <2>3. Mode(s, UDP_BLOCKING) \in BOOLEAN
    BY <1>0 DEF Mode, UDP_BLOCKING, MapTypes, SocketModes
  <2>4. TypedCall(c) /\ c.sock = s /\ c.op \in {"system", "wait"}
    <3> DEFINE answered == s \in stunned
    <3>0. answered \in BOOLEAN
      OBVIOUS
    <3>1. CASE datagram_packets_[s] = None
      <4>1. c = [op |-> "system", sock |-> s, server |-> None, blocking |-> FALSE,
                 iterator |-> "none", room |-> room, answered |-> answered]
        BY <3>1 DEF Idle
      <4> HIDE DEF c, answered
      <4>2. QED
        BY <3>0, <4>1 DEF TypedCall, CallRecords
    <3>2. CASE datagram_packets_[s] # None
      <4>1. c = [op |-> "wait", sock |-> s, server |-> None, blocking |-> Mode(s, UDP_BLOCKING),
                 iterator |-> "valid", room |-> room, answered |-> answered]
        BY <3>2 DEF Idle
      <4> HIDE DEF c, answered
      <4>2. QED
        BY <2>3, <3>0, <4>1 DEF TypedCall, CallRecords
    <3>3. QED
      BY <3>1, <3>2
  <2>5. s \in stunned => datagram_packets_[s] # None
    BY DEF SocketsInv, AnswersQueued
  <2>6. RightCall(c, socket_links_', blocking_sockets_', datagram_packets_', crossed', destroyer')
    BY <2>1, <2>5 DEF RightCall, Idle
  <2>7. c.op \notin {"unlink", "close"}
    BY <2>4
  <2> HIDE DEF c
  <2>8. QED
    BY <2>1, <2>2, <2>4, <2>6, <2>7, CallKeeps
<1>7. QED
  BY <1>1, <1>2, <1>3, <1>4, <1>5, <1>6

\* A call goes on as c, and nothing that sockets have changes.
LEMMA GoesOnKeeps ==
  ASSUME SocketsInv, NEW t \in Threads, call[t].op # "idle",
         NEW c, call' = [call EXCEPT ![t] = c], TypedCall(c),
         c.op # "idle" => c.sock = call[t].sock,
         c.op \in {"unlink", "close"} => Closing(t),
         RightCall(c, socket_links_', blocking_sockets_', datagram_packets_', crossed', destroyer'),
         MapTypes', AnswersQueued',
         UNCHANGED <<socket_links_, blocking_sockets_, open, crossed, destroyer>>,
         \A r \in Sockets : r # call[t].sock => datagram_packets_'[r] = datagram_packets_[r],
         datagram_packets_[call[t].sock] # None => datagram_packets_'[call[t].sock] # None
  PROVE  SocketsInv'
<1> DEFINE s == call[t].sock
<1>1. s \in Sockets /\ s \in open \cup crossed
  BY DEF SocketsInv, CallsRight, TypedCall, CallsPresent
<1>2. CallTypes' /\ call'[t] = c /\ \A u \in Threads : u # t => call'[u] = call[u]
  BY DEF SocketsInv, CallTypes
<1>3. OthersStay(t)
  BY <1>2 DEF OthersStay
<1>4. OnlyTouches(t, s)
  BY DEF OnlyTouches
<1>5. \A u \in Threads : u # t /\ On(u, s) /\ (Closing(u) \/ Closing(t)) => s \in crossed
  BY DEF SocketsInv, ClosedAlone, On
<1>6. CrossesRight(t, s)
  BY <1>1, <1>2, <1>5 DEF CrossesRight
<1>7. CallRight(t, s)
  BY <1>1, <1>2 DEF CallRight
<1>8. QED
  BY <1>1, <1>2, <1>3, <1>4, <1>6, <1>7, StepKeeps

LEMMA ContinueSockets ==
  ASSUME SocketsInv, NEW t \in Threads, Continue(t)
  PROVE  SocketsInv'
<1> USE DEF StreamUnchanged, ShutdownUnchanged, threads, history, maps, Return, Goto
<1> DEFINE s == call[t].sock
<1>0. /\ MapTypes /\ CallTypes /\ TypedCall(call[t]) /\ AnswersQueued
      /\ RightCall(call[t], socket_links_, blocking_sockets_, datagram_packets_, crossed, destroyer)
      /\ call[t].op # "idle" /\ s \in Sockets
  <2>1. call[t].op # "idle"
    BY DEF Continue, Send, RecvMode, RecvData, RecvWouldBlock, Unlink, CloseInSystem, StunPush,
           StunIgnore, RecvFromWait, RecvFromTake, RecvFromSystem, RecvFromUndefined, SocketsInv,
           CallsRight, TypedCall
  <2>2. QED
    BY <2>1 DEF SocketsInv, CallsRight, TypedCall
<1>1. ASSUME NEW c, call' = [call EXCEPT ![t] = c], TypedCall(c),
             c.op # "idle" => c.sock = s, c.op \notin {"unlink", "close"},
             RightCall(c, socket_links_, blocking_sockets_, datagram_packets_, crossed, destroyer),
             UNCHANGED <<maps, history, destroyer>>
      PROVE  SocketsInv'
  <2>1. MapTypes' /\ AnswersQueued'
    BY <1>0, <1>1 DEF MapTypes, AnswersQueued
  <2>2. QED
    BY <1>0, <1>1, <2>1, GoesOnKeeps
<1>2. ASSUME Send(t) \/ RecvData(t) \/ RecvWouldBlock(t) \/ StunIgnore(t) \/ RecvFromSystem(t)
      PROVE  SocketsInv'
  <2>1. /\ call' = [call EXCEPT ![t] = Idle]
        /\ UNCHANGED <<maps, history, destroyer>>
    BY <1>2 DEF Send, RecvData, RecvWouldBlock, StunIgnore, RecvFromSystem
  <2>2. Idle.op = "idle"
    BY DEF Idle
  <2>3. QED
    BY <1>1, <2>1, <2>2, IdleIsRight
<1>3. CASE RecvMode(t)
  <2> DEFINE c == [call[t] EXCEPT !.op = "recv", !.blocking = Mode(s, TCP_BLOCKING)]
  <2>1. call' = [call EXCEPT ![t] = c] /\ UNCHANGED <<maps, history, destroyer>>
    BY <1>0, <1>3 DEF RecvMode, CallTypes
  <2>2. Mode(s, TCP_BLOCKING) \in BOOLEAN
    BY <1>0 DEF Mode, TCP_BLOCKING, MapTypes, SocketModes
  <2>3. TypedCall(c) /\ c.sock = s /\ c.op = "recv"
    BY <1>0, <2>2 DEF TypedCall, CallRecords
  <2>4. RightCall(c, socket_links_, blocking_sockets_, datagram_packets_, crossed, destroyer)
    BY <1>0, <1>3, <2>2 DEF RecvMode, RightCall, TypedCall, CallRecords, Mode
  <2>5. c.op \notin {"unlink", "close"}
    BY <2>3
  <2> HIDE DEF c
  <2>6. QED
    BY <1>1, <2>1, <2>3, <2>4, <2>5
<1>4. CASE RecvFromWait(t)
  <2> DEFINE c == [call[t] EXCEPT !.op = "take"]
  <2>1. call' = [call EXCEPT ![t] = c] /\ UNCHANGED <<maps, history, destroyer>>
    BY <1>0, <1>4 DEF RecvFromWait, CallTypes
  <2>2. TypedCall(c) /\ c.sock = s /\ c.op = "take"
    BY <1>0 DEF TypedCall, CallRecords
  <2>3. RightCall(c, socket_links_, blocking_sockets_, datagram_packets_, crossed, destroyer)
    BY <1>0 DEF RightCall, TypedCall, CallRecords
  <2>4. c.op \notin {"unlink", "close"}
    BY <2>2
  <2> HIDE DEF c
  <2>5. QED
    BY <1>1, <2>1, <2>2, <2>3, <2>4
<1>5. CASE RecvFromUndefined(t)
  <2> DEFINE c == [call[t] EXCEPT !.op = "undefined"]
  <2>1. call' = [call EXCEPT ![t] = c] /\ UNCHANGED <<maps, history, destroyer>>
    BY <1>0, <1>5 DEF RecvFromUndefined, CallTypes
  <2>2. TypedCall(c) /\ c.sock = s /\ c.op = "undefined"
    BY <1>0 DEF TypedCall, CallRecords
  <2>3. RightCall(c, socket_links_, blocking_sockets_, datagram_packets_, crossed, destroyer)
    BY <1>0, <1>5 DEF RecvFromUndefined, RightCall, TypedCall, CallRecords
  <2>4. c.op \notin {"unlink", "close"}
    BY <2>2
  <2> HIDE DEF c
  <2>5. QED
    BY <1>1, <2>1, <2>2, <2>3, <2>4
<1>6. CASE StunPush(t)
  <2>1. /\ call' = [call EXCEPT ![t] = Idle]
        /\ datagram_packets_' = [datagram_packets_ EXCEPT ![s] = Append(Queue(s), t)]
        /\ stunned' = stunned \cup {s}
        /\ UNCHANGED <<socket_links_, blocking_sockets_, open, crossed, destroyer>>
    BY <1>6 DEF StunPush
  <2>2. Append(Queue(s), t) \in Seq(Threads) /\ Append(Queue(s), t) # None
    <3>1. Queue(s) \in Seq(Threads)
      BY <1>0 DEF MapTypes, Queue
    <3>2. QED
      BY <3>1, NoneAssumption
  <2>3. MapTypes'
    BY <1>0, <2>1, <2>2 DEF MapTypes
  <2>4. /\ datagram_packets_'[s] # None
        /\ \A r \in Sockets : r # s => datagram_packets_'[r] = datagram_packets_[r]
    BY <1>0, <2>1, <2>2 DEF MapTypes
  <2>5. AnswersQueued'
    BY <1>0, <2>1, <2>4 DEF AnswersQueued
  <2>6. Idle.op = "idle"
    BY DEF Idle
  <2>7. QED
    BY <1>0, <2>1, <2>3, <2>4, <2>5, <2>6, IdleIsRight, GoesOnKeeps
<1>7. CASE RecvFromTake(t)
  <2> DEFINE queue == datagram_packets_[s]
             left == IF queue = <<>> THEN queue ELSE Tail(queue)
             c == IF queue = <<>> \/ call[t].room THEN Idle
                  ELSE [call[t] EXCEPT !.op = "system", !.iterator = "none"]
  <2>1. /\ call' = [call EXCEPT ![t] = c]
        /\ datagram_packets_' = [datagram_packets_ EXCEPT ![s] = left]
        /\ UNCHANGED <<socket_links_, blocking_sockets_, open, stunned, crossed, destroyer>>
    BY <1>0, <1>7 DEF RecvFromTake, CallTypes
  <2>2. left \in Seq(Threads) /\ left # None
    <3>1. queue \in Seq(Threads)
      BY <1>0, <1>7 DEF RecvFromTake, RightCall, MapTypes
    <3>2. queue # <<>> => Tail(queue) \in Seq(Threads)
      BY <3>1, HeadTailProperties
    <3>3. left \in Seq(Threads)
      BY <3>1, <3>2
    <3>4. QED
      BY <3>3, NoneAssumption
  <2>3. MapTypes'
    BY <1>0, <2>1, <2>2 DEF MapTypes
  <2>4. /\ datagram_packets_'[s] # None
        /\ \A r \in Sockets : r # s => datagram_packets_'[r] = datagram_packets_[r]
    BY <1>0, <2>1, <2>2 DEF MapTypes
  <2>5. AnswersQueued'
    BY <1>0, <2>1, <2>4 DEF AnswersQueued
  <2>6. TypedCall(c) /\ c.op \in {"idle", "system"} /\ (c.op # "idle" => c.sock = s)
    BY <1>0 DEF TypedCall, CallRecords, Idle
  <2>7. RightCall(c, socket_links_', blocking_sockets_', datagram_packets_', crossed', destroyer')
    BY <1>0 DEF RightCall, TypedCall, CallRecords, Idle
  <2>8. c.op \notin {"unlink", "close"}
    BY <2>6
  <2> HIDE DEF c, left
  <2>9. QED
    BY <1>0, <2>1, <2>3, <2>4, <2>5, <2>6, <2>7, <2>8, GoesOnKeeps
<1>8. CASE Unlink(t)
  <2> DEFINE c == [call[t] EXCEPT !.op = "close"]
  <2>1. /\ Closing(t) /\ call'[t].op = "close"
        /\ socket_links_' = [socket_links_ EXCEPT ![s] = None]
        /\ datagram_packets_' = [datagram_packets_ EXCEPT ![s] = None]
        /\ stunned' = stunned \ {s}
        /\ UNCHANGED <<blocking_sockets_, open, crossed, destroyer>>
    BY <1>0, <1>8 DEF Unlink, Closing, Dangling, TypedCall, CallRecords
  <2>2. CallTypes' /\ \A u \in Threads : u # t => call'[u] = Dangling({s})[u]
    BY <1>8 DEF Unlink, CallTypes, Dangling
  <2>3. MapTypes'
    BY <1>0, <2>1 DEF MapTypes
  <2>4. \A r \in Sockets :
          /\ r # s => socket_links_'[r] = socket_links_[r] /\ datagram_packets_'[r] = datagram_packets_[r]
          /\ r = s => socket_links_'[r] = None /\ datagram_packets_'[r] = None
    BY <1>0, <2>1 DEF MapTypes
  <2>5. AnswersQueued'
    BY <1>0, <2>1, <2>4 DEF AnswersQueued
  <2>6. \A u \in Threads : u # t /\ On(u, s) => s \in crossed
    BY <2>1 DEF SocketsInv, ClosedAlone, Closing, On
  <2>7. ASSUME NEW u \in Threads, u # t
        PROVE  /\ \/ call'[u] = call[u]
                  \/ /\ On(u, call[u].sock) /\ call[u].sock \in crossed
                     /\ call'[u] = [call[u] EXCEPT !.iterator = "dangling"]
               /\ On(u, s) => call'[u].iterator # "valid"
    <3>1. TypedCall(call[u])
      BY DEF SocketsInv, CallsRight
    <3>2. CASE call[u].iterator = "valid" /\ call[u].sock = s
      <4>1. call'[u] = [call[u] EXCEPT !.iterator = "dangling"] /\ call[u].op # "idle"
        BY <2>2, <2>7, <3>1, <3>2 DEF Dangling, TypedCall
      <4>2. call'[u].iterator = "dangling"
        BY <3>1, <4>1 DEF TypedCall, CallRecords
      <4>3. QED
        BY <2>6, <2>7, <3>2, <4>1, <4>2 DEF On
    <3>3. CASE ~(call[u].iterator = "valid" /\ call[u].sock = s)
      BY <2>2, <2>7, <3>3 DEF Dangling, On
    <3>4. QED
      BY <3>2, <3>3
  <2>8. OthersStay(t)
    BY <2>7 DEF OthersStay
  <2>9. OnlyTouches(t, s)
    BY <2>1, <2>4 DEF OnlyTouches
  <2>10. s \in open \cup crossed
    BY <1>0 DEF SocketsInv, CallsPresent
  <2>11. CrossesRight(t, s)
    BY <2>1, <2>6, <2>7, <2>10 DEF CrossesRight
  <2>12. CallRight(t, s)
    <3>1. \/ call'[t] = c
          \/ call'[t] = [call[t] EXCEPT !.op = "close", !.iterator = "dangling"] /\ call[t].iterator = "valid"
      BY <1>0, <1>8 DEF Unlink, Dangling, TypedCall, CallRecords
    <3>2. call[t].iterator # "valid"
      BY <1>0, <1>8 DEF Unlink, RightCall
    <3>3. QED
      <4>1. call'[t] = c
        BY <3>1, <3>2
      <4>2. TypedCall(c) /\ c.sock = s /\ c.op = "close" /\ c.iterator = call[t].iterator
        BY <1>0 DEF TypedCall, CallRecords
      <4>3. s \notin crossed => blocking_sockets_[s] = None
        BY <1>0, <2>1 DEF RightCall, Closing
      <4> HIDE DEF c
      <4>4. RightCall(c, socket_links_', blocking_sockets_', datagram_packets_', crossed',
                      destroyer')
        BY <1>0, <2>1, <2>4, <3>2, <4>2, <4>3 DEF RightCall
      <4>5. QED
        BY <2>1, <2>10, <4>1, <4>2, <4>4 DEF CallRight
  <2>13. QED
    BY <1>0, <2>2, <2>3, <2>5, <2>8, <2>9, <2>11, <2>12, StepKeeps
<1>9. CASE CloseInSystem(t)
  <2>1. /\ call' = [call EXCEPT ![t] = Idle] /\ open' = open \ {s}
        /\ UNCHANGED <<socket_links_, blocking_sockets_, datagram_packets_, stunned, crossed,
                       destroyer>>
        /\ Closing(t)
    BY <1>9 DEF CloseInSystem, Closing
  <2>2. CallTypes' /\ call'[t] = Idle /\ \A u \in Threads : u # t => call'[u] = call[u]
    BY <1>0, <2>1 DEF CallTypes
  <2>3. MapTypes' /\ AnswersQueued'
    BY <1>0, <2>1 DEF MapTypes, AnswersQueued
  <2>4. \A u \in Threads : u # t /\ On(u, s) => s \in crossed
    BY <2>1 DEF SocketsInv, ClosedAlone
  <2>5. s \in open \cup crossed
    BY <1>0 DEF SocketsInv, CallsPresent
  <2>6. s \notin crossed =>
          socket_links_[s] = None /\ blocking_sockets_[s] = None /\ datagram_packets_[s] = None
    BY <1>0, <1>9 DEF CloseInSystem, RightCall
  <2>7. OthersStay(t) /\ OnlyTouches(t, s)
    BY <2>1, <2>2 DEF OthersStay, OnlyTouches
  <2>8. CrossesRight(t, s)
    BY <2>1, <2>4, <2>5, <2>6 DEF CrossesRight
  <2>9. CallRight(t, s)
    <3>1. call'[t].op = "idle"
      BY <2>2 DEF Idle
    <3>2. /\ TypedCall(call'[t])
          /\ RightCall(call'[t], socket_links_', blocking_sockets_', datagram_packets_', crossed',
                       destroyer')
      BY <2>2, IdleIsRight
    <3>3. QED
      BY <3>1, <3>2 DEF CallRight
  <2>10. QED
    BY <1>0, <2>2, <2>3, <2>7, <2>8, <2>9, StepKeeps
<1>10. QED
  BY <1>2, <1>3, <1>4, <1>5, <1>6, <1>7, <1>8, <1>9 DEF Continue

LEMMA NextSockets == SocketsInv /\ ShutdownInv /\ [Next]_vars => SocketsInv'
<1> SUFFICES ASSUME SocketsInv, ShutdownInv, [Next]_vars PROVE SocketsInv'
  OBVIOUS
<1> USE DEF threads, history, maps
<1>1. ASSUME NEW t \in Threads, Begin(t) \/ Continue(t)
      PROVE  SocketsInv'
  BY <1>1, BeginSockets, ContinueSockets
<1>2. ASSUME NEW s \in Sockets, Reopen(s)
      PROVE  SocketsInv'
  <2>1. open' = open \cup {s} /\ UNCHANGED <<maps, call, stunned, crossed, destroyer>>
    BY <1>2 DEF Reopen, ShutdownUnchanged
  <2>2. MapTypes' /\ CallTypes' /\ AnswersQueued' /\ CallsRight'
    BY <2>1 DEF SocketsInv, MapTypes, CallTypes, AnswersQueued, CallsRight
  <2>3. ClosedAlone' /\ CallsPresent' /\ ClosedSocketForgotten'
    BY <2>1 DEF SocketsInv, ClosedAlone, Closing, On, CallsPresent, ClosedSocketForgotten
  <2>4. QED
    BY <2>2, <2>3 DEF SocketsInv
<1>3. ASSUME UNCHANGED <<maps, call, open, stunned, crossed>>,
             destroyer' = destroyer \/ (destroyer = "no" /\ destroyer' = "join")
      PROVE  SocketsInv'
  <2>1. MapTypes' /\ CallTypes' /\ AnswersQueued'
    BY <1>3 DEF SocketsInv, MapTypes, CallTypes, AnswersQueued
  <2>2. ClosedAlone' /\ CallsPresent' /\ ClosedSocketForgotten'
    BY <1>3 DEF SocketsInv, ClosedAlone, Closing, On, CallsPresent, ClosedSocketForgotten
  <2>3. CallsRight'
    BY <1>3 DEF SocketsInv, CallsRight, RightCall
  <2>4. QED
    BY <2>1, <2>2, <2>3 DEF SocketsInv
<1>4. CASE PostLoad \/ Worker \/ PreDestroy \/ UNCHANGED vars
  BY <1>3, <1>4 DEF PostLoad, Worker, WorkerStart, WorkerCheck, WorkerLock, WorkerFrame,
       WorkerHangs, ServesNext, WorkerUnlock, WorkerWake, WorkerUnchanged, PreDestroy, vars
<1>5. CASE Joined
  <2>1. MapTypes' /\ CallTypes' /\ AnswersQueued'
    BY <1>5 DEF SocketsInv, Joined, Cleared, MapTypes, CallTypes, SocketModes, Dangling,
                AnswersQueued
  <2>2. UNCHANGED <<open, crossed>> /\ destroyer' = "done"
    BY <1>5 DEF Joined
  <2>3. \A s \in Sockets :
          socket_links_'[s] = None /\ blocking_sockets_'[s] = None /\ datagram_packets_'[s] = None
    BY <1>5 DEF SocketsInv, MapTypes, Joined, Cleared
  <2>4. ASSUME NEW t \in Threads
        PROVE  /\ TypedCall(call'[t]) /\ call'[t].iterator # "valid"
               /\ call'[t] = call[t] \/ call'[t] = [call[t] EXCEPT !.iterator = "dangling"]
               /\ call'[t].op = call[t].op /\ call'[t].sock = call[t].sock
               /\ call'[t].room = call[t].room /\ call'[t].answered = call[t].answered
    <3>1. TypedCall(call[t])
      BY DEF SocketsInv, CallsRight
    <3>2. CASE call[t].iterator = "valid"
      <4>1. call'[t] = [call[t] EXCEPT !.iterator = "dangling"] /\ call[t].op # "idle"
        BY <1>5, <3>1, <3>2 DEF Joined, Dangling, TypedCall
      <4>2. QED
        BY <3>1, <4>1 DEF TypedCall, CallRecords
    <3>3. CASE call[t].iterator # "valid"
      BY <1>5, <3>1, <3>3 DEF Joined, Dangling
    <3>4. QED
      BY <3>2, <3>3
  <2>5. ASSUME NEW t \in Threads
        PROVE  RightCall(call'[t], socket_links_', blocking_sockets_', datagram_packets_',
                         crossed', destroyer')
    <3>1. RightCall(call[t], socket_links_, blocking_sockets_, datagram_packets_, crossed, destroyer)
      BY DEF SocketsInv, CallsRight
    <3>2. call'[t].op # "idle" => call'[t].sock \in Sockets
      BY <2>4 DEF TypedCall
    <3>3. QED
      BY <2>2, <2>3, <2>4, <3>1, <3>2 DEF RightCall
  <2>6. CallsRight'
    BY <2>4, <2>5 DEF CallsRight
  <2>7. ClosedAlone' /\ CallsPresent' /\ ClosedSocketForgotten'
    <3>1. ClosedAlone'
      <4>1. ASSUME NEW t \in Threads, NEW u \in Threads, t # u,
                   call'[t].op \in {"unlink", "close"}, call'[u].op # "idle",
                   call'[u].sock = call'[t].sock
            PROVE  call'[t].sock \in crossed'
        <5>1. Closing(t) /\ On(u, call[t].sock) /\ call'[t].sock = call[t].sock
          BY <2>4, <4>1 DEF Closing, On
        <5>2. QED
          BY <2>2, <4>1, <5>1 DEF SocketsInv, ClosedAlone
      <4>2. QED
        BY <4>1 DEF ClosedAlone, Closing, On
    <3>2. CallsPresent'
      BY <2>2, <2>4 DEF SocketsInv, CallsPresent
    <3>3. QED
      BY <2>3, <3>1, <3>2 DEF ClosedSocketForgotten
  <2>8. QED
    BY <2>1, <2>6, <2>7 DEF SocketsInv
<1>6. QED
  BY <1>1, <1>2, <1>4, <1>5 DEF Next

LEMMA SocketsInvariant == Spec => []SocketsInv
BY InitSockets, NextSockets, ShutdownInvariant, PTL DEF Spec

\* However threads share their sockets: an iterator of recv_datagam_packet dangles only
\* when another thread closes its socket meanwhile or dw is destroyed, a closed socket
\* leaves nothing behind unless a call of another thread overlaps, and a recv loops in
\* the mode that its socket has unless another thread sets it meanwhile.
THEOREM Own_Sockets_Kept == Spec => []OwnSocketsKept
<1>1. SocketsInv => OwnSocketsKept
  BY DEF SocketsInv, CallsRight, RightCall, OwnSocketsKept, IteratorsStayValid, LoopsInItsMode,
         Mode
<1>2. QED
  BY <1>1, SocketsInvariant, PTL

\* From its first STUN answer on, a socket has a queue until it is closed or dw
\* is destroyed, and a recvfrom with room that finds one does not ask the system.
THEOREM System_Shadowed == Spec => []SystemShadowed
<1>1. SocketsInv => SystemShadowed
  BY DEF SocketsInv, CallsRight, RightCall, SystemShadowed
<1>2. QED
  BY <1>1, SocketsInvariant, PTL

-----------------------------------------------------------------------------
(* The names of hosts.                                                     *)

NoServer == Hosts!NoServer
NoAddress == Hosts!NoAddress

\* What a name stands for in an answer of this program, and in one of the system.
OwnAnswer(name) == Hash[name]
SystemAnswer(name) == IF name \in DOMAIN Real THEN Real[name] ELSE NoAddress

Addresses ==
  {Hash[n] : n \in HostNamesAsked} \cup {Real[n] : n \in DOMAIN Real} \cup {NoServer, NoAddress}
Lookups ==
  [at : {"idle", "servers", "stun", "fill", "filled", "returned", "resolved"},
   name : HostNamesAsked \cup {""}, found : Addresses, addr : Addresses, own : BOOLEAN]

\* Where a lookup is, and what it has to do with the one static address: it is the
\* name's own while the mutex is held, and until another thread's answer comes.
LookupRight(t) ==
  /\ lookup[t].at # "idle" => lookup[t].name \in HostNamesAsked
  /\ lookup[t].at \in {"servers", "stun", "fill", "filled"} => mutex = t
  /\ lookup[t].at \in {"servers", "stun", "fill"} => ~lookup[t].own
  /\ lookup[t].at \in {"stun", "fill"} =>
       lookup[t].found \in {NoServer, OwnAnswer(lookup[t].name)}
  /\ lookup[t].at \in {"filled", "returned"} /\ lookup[t].own /\ t \notin overwritten =>
       address = OwnAnswer(lookup[t].name)
  /\ lookup[t].at \in {"filled", "returned"} /\ ~lookup[t].own =>
       lookup[t].addr = SystemAnswer(lookup[t].name)
  /\ lookup[t].at = "resolved" /\ t \notin overwritten =>
       lookup[t].addr \in {OwnAnswer(lookup[t].name), SystemAnswer(lookup[t].name)}

\* All servers there are, or none any more.
ServersRight ==
  /\ servers_ = LobbyNames \/ servers_ = {}
  /\ servers_ # {} => stun_servers_ = StunNames
  /\ stun_servers_ \subseteq StunNames

HostTypes == lookup \in [HostThreads -> Lookups] /\ address \in Addresses

HostsInv ==
  /\ HostTypes /\ ServersRight
  /\ \A t \in HostThreads : LookupRight(t)
  /\ NamesResolve

LEMMA HostsStart == Hosts!Init => HostsInv
<1> SUFFICES ASSUME Hosts!Init PROVE HostsInv
  OBVIOUS
<1>1. HostTypes
  BY DEF Hosts!Init, Hosts!Idle, HostTypes, Lookups, Addresses, NoServer, NoAddress
<1>2. ServersRight
  BY DEF Hosts!Init, ServersRight
<1>3. ASSUME NEW t \in HostThreads PROVE LookupRight(t)
  BY DEF Hosts!Init, Hosts!Idle, LookupRight
<1>4. NamesResolve
  BY DEF Hosts!Init, Hosts!NotYet, NamesResolve, Hosts!NamedServerReached, Hosts!EmulatedStayInside
<1> QED
  BY <1>1, <1>2, <1>3, <1>4 DEF HostsInv

\* A step changes the lookup of one thread, and of the rest only what those see
\* that are past their own.
LEMMA OneLookup ==
  ASSUME HostsInv, NEW t \in HostThreads, NEW c \in Lookups, lookup' = [lookup EXCEPT ![t] = c],
         address' \in Addresses, UNCHANGED <<servers_, stun_servers_>>, NamesResolve',
         LookupRight(t)',
         \A u \in HostThreads \ {t} : LookupRight(u) => LookupRight(u)'
  PROVE  HostsInv'
<1>1. HostTypes'
  BY DEF HostsInv, HostTypes
<1>2. ServersRight'
  BY DEF HostsInv, ServersRight
<1> QED
  BY <1>1, <1>2 DEF HostsInv

\* What is reached stays what it was.
LEMMA ReachedStays == NamesResolve /\ UNCHANGED reached => NamesResolve'
BY DEF NamesResolve, Hosts!NamedServerReached, Hosts!EmulatedStayInside

LEMMA LookupStepKeeps ==
  ASSUME HostsInv, NEW t \in HostThreads,
         \/ \E name \in HostNamesAsked : Hosts!Lock(t, name)
         \/ Hosts!FindServer(t) \/ Hosts!FindStun(t) \/ Hosts!Fill(t) \/ Hosts!AskSystem(t)
         \/ Hosts!Unlock(t) \/ Hosts!ReadAddress(t) \/ Hosts!GiveUp(t)
  PROVE  HostsInv'
<1>1. HostTypes /\ NamesResolve /\ \A u \in HostThreads : LookupRight(u)
  BY DEF HostsInv
<1>2. lookup[t] \in Lookups /\ LookupRight(t) /\ t # "none"
  BY <1>1, HostsAssumption DEF HostTypes
<1>3. NamesResolve' /\ UNCHANGED <<servers_, stun_servers_>>
  BY <1>1, ReachedStays DEF Hosts!Lock, Hosts!FindServer, Hosts!FindStun, Hosts!Fill,
     Hosts!AskSystem, Hosts!Unlock, Hosts!ReadAddress, Hosts!GiveUp
<1>4. CASE \E name \in HostNamesAsked : Hosts!Lock(t, name)
  <2>1. PICK name \in HostNamesAsked : Hosts!Lock(t, name)
    BY <1>4
  <2> DEFINE c == [Hosts!Idle EXCEPT !.at = "servers", !.name = name]
  <2>2. Hosts!Idle \in Lookups /\ ~Hosts!Idle.own
    BY DEF Lookups, Addresses, Hosts!Idle, NoServer, NoAddress
  <2>3. /\ c \in Lookups /\ c.at = "servers" /\ c.name = name /\ ~c.own
        /\ lookup' = [lookup EXCEPT ![t] = c] /\ mutex = "none" /\ mutex' = t
        /\ address' = address /\ overwritten' = overwritten \ {t}
    <3>1. c \in Lookups /\ c.at = "servers" /\ c.name = name /\ ~c.own
      BY <2>2 DEF Lookups
    <3> HIDE DEF c
    <3> QED
      BY <2>1, <3>1 DEF c, Hosts!Lock, Hosts!Set
  <2>4. LookupRight(t)'
    BY <1>1, <2>3 DEF LookupRight, HostTypes
  <2>5. ASSUME NEW u \in HostThreads \ {t}, LookupRight(u) PROVE LookupRight(u)'
    BY <1>1, <2>3, <2>5, HostsAssumption DEF LookupRight, HostTypes
  <2> QED
    BY <1>1, <1>3, <2>2, <2>3, <2>4, <2>5, OneLookup DEF HostTypes
<1>5. CASE Hosts!FindServer(t)
  <2> DEFINE v == IF Hosts!ByName(servers_, lookup[t].name) # {}
                  THEN Hash[lookup[t].name] ELSE NoServer
             c == [lookup[t] EXCEPT !.at = "stun", !.found = v]
  <2>1. lookup' = [lookup EXCEPT ![t] = c] /\ lookup[t].at = "servers"
        /\ UNCHANGED <<mutex, address, overwritten>>
    BY <1>5 DEF Hosts!FindServer, Hosts!Set, Hosts!At, NoServer
  <2>2. lookup[t].name \in HostNamesAsked
    BY <1>2, <2>1 DEF LookupRight
  <2>3. v \in Addresses /\ v \in {NoServer, OwnAnswer(lookup[t].name)}
    BY <2>2 DEF Addresses, OwnAnswer
  <2> HIDE DEF v
  <2>4. c \in Lookups
    BY <1>2, <2>3 DEF Lookups
  <2>5. LookupRight(t)'
    BY <1>1, <1>2, <2>1, <2>2, <2>3, <2>4 DEF LookupRight, HostTypes, Lookups
  <2>6. ASSUME NEW u \in HostThreads \ {t}, LookupRight(u) PROVE LookupRight(u)'
    BY <1>1, <2>1, <2>6 DEF LookupRight, HostTypes
  <2> QED
    BY <1>1, <1>3, <2>1, <2>4, <2>5, <2>6, OneLookup DEF HostTypes
<1>6. CASE Hosts!FindStun(t)
  <2> DEFINE v == IF Hosts!ByName(stun_servers_, lookup[t].name) # {} THEN Hash[lookup[t].name]
                  ELSE lookup[t].found
             c == [lookup[t] EXCEPT !.at = "fill", !.found = v]
  <2>1. lookup' = [lookup EXCEPT ![t] = c] /\ lookup[t].at = "stun"
        /\ UNCHANGED <<mutex, address, overwritten>>
    BY <1>6 DEF Hosts!FindStun, Hosts!Set, Hosts!At
  <2>2. /\ lookup[t].name \in HostNamesAsked
        /\ lookup[t].found \in {NoServer, OwnAnswer(lookup[t].name)}
    BY <1>2, <2>1 DEF LookupRight
  <2>3. v \in Addresses /\ v \in {NoServer, OwnAnswer(lookup[t].name)}
    BY <1>2, <2>2 DEF Addresses, OwnAnswer, Lookups
  <2> HIDE DEF v
  <2>4. c \in Lookups
    BY <1>2, <2>3 DEF Lookups
  <2>5. LookupRight(t)'
    BY <1>1, <1>2, <2>1, <2>2, <2>3, <2>4 DEF LookupRight, HostTypes, Lookups
  <2>6. ASSUME NEW u \in HostThreads \ {t}, LookupRight(u) PROVE LookupRight(u)'
    BY <1>1, <2>1, <2>6 DEF LookupRight, HostTypes
  <2> QED
    BY <1>1, <1>3, <2>1, <2>4, <2>5, <2>6, OneLookup DEF HostTypes
<1>7. CASE Hosts!Fill(t)
  <2> DEFINE c == [lookup[t] EXCEPT !.at = "filled", !.own = TRUE]
  <2>1. /\ lookup' = [lookup EXCEPT ![t] = c] /\ lookup[t].at = "fill" /\ lookup[t].found # NoServer
        /\ mutex' = mutex /\ address' = lookup[t].found
        /\ overwritten' = overwritten \cup
             {u \in HostThreads \ {t} : lookup[u].at = "returned" /\ lookup[u].own}
    BY <1>7 DEF Hosts!Fill, Hosts!Set, Hosts!At, NoServer
  <2>2. /\ lookup[t].name \in HostNamesAsked /\ mutex = t
        /\ lookup[t].found = OwnAnswer(lookup[t].name)
    BY <1>2, <2>1 DEF LookupRight
  <2>3. c \in Lookups /\ lookup[t].found \in Addresses
    BY <1>2 DEF Lookups
  <2>4. LookupRight(t)'
    BY <1>1, <1>2, <2>1, <2>2, <2>3 DEF LookupRight, HostTypes, Lookups
  <2>5. ASSUME NEW u \in HostThreads \ {t}, LookupRight(u) PROVE LookupRight(u)'
    BY <1>1, <2>1, <2>2, <2>5 DEF LookupRight, HostTypes
  <2> QED
    BY <1>1, <1>3, <2>1, <2>3, <2>4, <2>5, OneLookup DEF HostTypes
<1>8. CASE Hosts!AskSystem(t)
  <2> DEFINE v == SystemAnswer(lookup[t].name)
             c == [lookup[t] EXCEPT !.at = "filled", !.addr = v]
  <2>1. lookup' = [lookup EXCEPT ![t] = c] /\ lookup[t].at = "fill"
        /\ UNCHANGED <<mutex, address, overwritten>>
    BY <1>8 DEF Hosts!AskSystem, Hosts!Set, Hosts!At, SystemAnswer, NoAddress
  <2>2. lookup[t].name \in HostNamesAsked /\ ~lookup[t].own /\ mutex = t
    BY <1>2, <2>1 DEF LookupRight
  <2>3. v \in Addresses
    BY DEF Addresses, SystemAnswer
  <2>4. c \in Lookups
    BY <1>2, <2>3 DEF Lookups
  <2>5. LookupRight(t)'
    BY <1>1, <1>2, <2>1, <2>2, <2>3, <2>4 DEF LookupRight, HostTypes, Lookups
  <2>6. ASSUME NEW u \in HostThreads \ {t}, LookupRight(u) PROVE LookupRight(u)'
    BY <1>1, <2>1, <2>6 DEF LookupRight, HostTypes
  <2> QED
    BY <1>1, <1>3, <2>1, <2>4, <2>5, <2>6, OneLookup DEF HostTypes
<1>9. CASE Hosts!Unlock(t)
  <2> DEFINE c == [lookup[t] EXCEPT !.at = "returned"]
  <2>1. lookup' = [lookup EXCEPT ![t] = c] /\ lookup[t].at = "filled" /\ mutex' = "none"
        /\ UNCHANGED <<address, overwritten>>
    BY <1>9 DEF Hosts!Unlock, Hosts!Set, Hosts!At
  <2>2. mutex = t
    BY <1>2, <2>1 DEF LookupRight
  <2>3. c \in Lookups
    BY <1>2 DEF Lookups
  <2>4. LookupRight(t)'
    BY <1>1, <1>2, <2>1, <2>3 DEF LookupRight, HostTypes, Lookups
  <2>5. ASSUME NEW u \in HostThreads \ {t}, LookupRight(u) PROVE LookupRight(u)'
    BY <1>1, <2>1, <2>2, <2>5 DEF LookupRight, HostTypes
  <2> QED
    BY <1>1, <1>3, <2>1, <2>3, <2>4, <2>5, OneLookup DEF HostTypes
<1>10. CASE Hosts!ReadAddress(t)
  <2> DEFINE v == IF lookup[t].own THEN address ELSE lookup[t].addr
             c == [lookup[t] EXCEPT !.at = "resolved", !.addr = v]
  <2>1. lookup' = [lookup EXCEPT ![t] = c] /\ lookup[t].at = "returned"
        /\ UNCHANGED <<mutex, address, overwritten>>
    BY <1>10 DEF Hosts!ReadAddress, Hosts!Set, Hosts!At
  <2>2. /\ v \in Addresses
        /\ t \notin overwritten => v \in {OwnAnswer(lookup[t].name), SystemAnswer(lookup[t].name)}
    BY <1>1, <1>2, <2>1 DEF HostTypes, Lookups, LookupRight
  <2> HIDE DEF v
  <2>3. c \in Lookups
    BY <1>2, <2>2 DEF Lookups
  <2>4. LookupRight(t)'
    BY <1>1, <1>2, <2>1, <2>2, <2>3 DEF LookupRight, HostTypes, Lookups
  <2>5. ASSUME NEW u \in HostThreads \ {t}, LookupRight(u) PROVE LookupRight(u)'
    BY <1>1, <2>1, <2>5 DEF LookupRight, HostTypes
  <2> QED
    BY <1>1, <1>3, <2>1, <2>3, <2>4, <2>5, OneLookup DEF HostTypes
<1>11. CASE Hosts!GiveUp(t)
  <2>1. Hosts!Idle \in Lookups /\ Hosts!Idle.at = "idle"
    BY DEF Lookups, Hosts!Idle, Addresses, NoServer, NoAddress
  <2>2. lookup' = [lookup EXCEPT ![t] = Hosts!Idle] /\ UNCHANGED <<mutex, address, overwritten>>
    BY <1>11 DEF Hosts!GiveUp, Hosts!Set
  <2>3. LookupRight(t)'
    BY <1>1, <2>1, <2>2 DEF LookupRight, HostTypes
  <2>4. ASSUME NEW u \in HostThreads \ {t}, LookupRight(u) PROVE LookupRight(u)'
    BY <1>1, <2>2, <2>4 DEF LookupRight, HostTypes
  <2> QED
    BY <1>1, <1>3, <2>1, <2>2, <2>3, <2>4, OneLookup DEF HostTypes
<1> QED
  BY <1>4, <1>5, <1>6, <1>7, <1>8, <1>9, <1>10, <1>11

\* Whatever uses an address reaches the server whose name has it, if there is one.
LEMMA UseKeeps ==
  ASSUME HostsInv, NEW t \in HostThreads, NEW op \in {"connect", "sendto"},
         Hosts!Uses(t, op, Hosts!Server(Hosts!ByAddress(
           IF op = "connect" THEN servers_ ELSE stun_servers_, lookup[t].addr)))
  PROVE  HostsInv'
<1> DEFINE among == IF op = "connect" THEN servers_ ELSE stun_servers_
           found == Hosts!ByAddress(among, lookup[t].addr)
<1>1. HostTypes /\ ServersRight /\ (\A u \in HostThreads : LookupRight(u)) /\ NamesResolve
  BY DEF HostsInv
<1>2. lookup[t] \in Lookups /\ LookupRight(t)
  BY <1>1 DEF HostTypes
<1>3. /\ lookup[t].at = "resolved" /\ lookup[t].addr # NoAddress
      /\ reached' = [op |-> op, name |-> lookup[t].name, addr |-> lookup[t].addr,
                     server |-> Hosts!Server(found), safe |-> t \notin overwritten,
                     ended |-> servers_ = {}]
      /\ lookup' = [lookup EXCEPT ![t] = Hosts!Idle]
      /\ UNCHANGED <<servers_, stun_servers_, mutex, address, overwritten>>
  BY DEF Hosts!Uses, Hosts!At, Hosts!Set, NoAddress
<1>4. found = {s \in among : Hash[s] = lookup[t].addr}
  BY DEF Hosts!ByAddress
<1>5. among \subseteq LobbyNames \cup StunNames
  BY <1>1 DEF ServersRight
<1>6. found # {} => Hosts!Server(found) \in found /\ Hosts!Server(found) # "system"
  <2> SUFFICES ASSUME found # {}
               PROVE  Hosts!Server(found) \in found /\ Hosts!Server(found) # "system"
    OBVIOUS
  <2>1. Hosts!Server(found) = CHOOSE s \in found : TRUE
    BY DEF Hosts!Server
  <2> HIDE DEF found
  <2>2. Hosts!Server(found) \in found
    BY <2>1
  <2> QED
    BY <2>2, <1>4, <1>5, HostsAssumption
<1>7. found = {} => Hosts!Server(found) = "system"
  BY DEF Hosts!Server
<1>8. Hosts!NamedServerReached'
  <2> SUFFICES ASSUME t \notin overwritten, Hosts!Server(found) # "system"
               PROVE  \/ Hash[Hosts!Server(found)] = Hash[lookup[t].name]
                      \/ /\ lookup[t].name \in DOMAIN Real
                         /\ Hash[Hosts!Server(found)] = Real[lookup[t].name]
    BY <1>3 DEF Hosts!NamedServerReached
  <2>1. Hash[Hosts!Server(found)] = lookup[t].addr
    BY <1>4, <1>6, <1>7
  <2>2. lookup[t].addr \in {OwnAnswer(lookup[t].name), SystemAnswer(lookup[t].name)}
    BY <1>2, <1>3 DEF LookupRight
  <2> QED
    BY <1>3, <2>1, <2>2 DEF OwnAnswer, SystemAnswer
<1>9. Hosts!EmulatedStayInside'
  <2> SUFFICES ASSUME Hosts!Server(found) = "system", servers_ # {}
               PROVE  lookup[t].addr \notin
                        {Hash[s] : s \in IF op = "connect" THEN LobbyNames ELSE StunNames}
    BY <1>3 DEF Hosts!EmulatedStayInside
  <2>1. among = IF op = "connect" THEN LobbyNames ELSE StunNames
    BY <1>1 DEF ServersRight
  <2>2. found = {}
    BY <1>6
  <2> QED
    BY <1>4, <2>1, <2>2
<1>10. Hosts!Idle \in Lookups /\ Hosts!Idle.at = "idle"
  BY DEF Lookups, Hosts!Idle, Addresses, NoServer, NoAddress
<1>11. LookupRight(t)'
  BY <1>1, <1>3, <1>10 DEF LookupRight, HostTypes
<1>12. ASSUME NEW u \in HostThreads \ {t}, LookupRight(u) PROVE LookupRight(u)'
  BY <1>1, <1>3, <1>12 DEF LookupRight, HostTypes
<1>13. NamesResolve'
  BY <1>8, <1>9 DEF NamesResolve
<1> QED
  BY <1>1, <1>3, <1>10, <1>11, <1>12, <1>13, OneLookup DEF HostTypes

LEMMA HostsStep == HostsInv /\ [PartsNext]_<<part, lobbyVars, loginsVars, hostsVars>> => HostsInv'
<1> SUFFICES ASSUME HostsInv, [PartsNext]_<<part, lobbyVars, loginsVars, hostsVars>>
             PROVE  HostsInv'
  OBVIOUS
<1>1. CASE UNCHANGED hostsVars
  BY <1>1 DEF hostsVars, HostsInv, HostTypes, ServersRight, LookupRight, NamesResolve,
     Hosts!NamedServerReached, Hosts!EmulatedStayInside
<1>2. CASE Hosts!PreDestroy
  <2>1. servers_' = {} /\ stun_servers_' = {}
        /\ UNCHANGED <<mutex, address, lookup, reached, overwritten>>
    BY <1>2 DEF Hosts!PreDestroy
  <2>2. HostTypes' /\ ServersRight' /\ NamesResolve'
    BY <2>1, ReachedStays DEF HostsInv, HostTypes, ServersRight
  <2>3. ASSUME NEW u \in HostThreads PROVE LookupRight(u)'
    BY <2>1 DEF HostsInv, LookupRight
  <2> QED
    BY <2>2, <2>3 DEF HostsInv
<1>3. ASSUME NEW t \in HostThreads,
             \/ \E name \in HostNamesAsked : Hosts!Lock(t, name)
             \/ Hosts!FindServer(t) \/ Hosts!FindStun(t) \/ Hosts!Fill(t) \/ Hosts!AskSystem(t)
             \/ Hosts!Unlock(t) \/ Hosts!ReadAddress(t) \/ Hosts!GiveUp(t)
      PROVE  HostsInv'
  BY <1>3, LookupStepKeeps
<1>4. ASSUME NEW t \in HostThreads, Hosts!Connect(t) PROVE HostsInv'
  BY <1>4, UseKeeps DEF Hosts!Connect
<1>5. ASSUME NEW t \in HostThreads, Hosts!SendTo(t) PROVE HostsInv'
  BY <1>5, UseKeeps DEF Hosts!SendTo
<1> QED
  BY <1>1, <1>2, <1>3, <1>4, <1>5 DEF PartsNext, Hosts!Next, hostsVars

\* Whatever the numbers of threads and names, and whichever names share a hash: a
\* name leads to its own server although all threads share one answer, unless another
\* thread's came before it was read, and the system never gets a server's address.
THEOREM Names_Resolve == PartsSpec => []NamesResolve
<1>1. PartsInit => HostsInv
  BY HostsStart DEF PartsInit
<1>2. HostsInv => NamesResolve
  BY DEF HostsInv
<1> QED
  BY <1>1, <1>2, HostsStep, PTL DEF PartsSpec

-----------------------------------------------------------------------------
(* Logging in.                                                             *)

KeyOf(a) == Logins!KeyOf(a)
Keys(s) == {KeyOf(a) : a \in Attempts} \cup {Logins!Nothing, s}
Games(s) ==
  [at : {"idle", "requested", "ready", "asked", "failed", "authorized", "online"},
   ticket : Keys(s), session : {Logins!Nothing, s}]

Question(a, k) == [seed |-> Logins!SeedOf(a), ticket |-> k, by |-> a]
Questions(s) == {Question(a, k) : a \in Attempts, k \in Keys(s)}
Answers(s) ==
  [ticket : {Logins!Encrypted(s, Logins!Tiger(Logins!SeedOf(a)), k) :
               a \in Attempts, k \in Keys(s) \cup {Logins!Stack}},
   lsg_ticket : {s}, rsa : BOOLEAN]

AuthTypes(s) ==
  /\ game \in [Attempts -> Games(s)] /\ auth_ticket \in Keys(s)
  /\ auth_in \in Seq(Questions(s)) /\ auth_out \in Seq(Answers(s))

Asked == {a \in Attempts : game[a].at = "asked"}

\* The only message is the question of a, or the answer to it.
OwnMessage(a, s) ==
  \/ auth_out = << >> /\ Len(auth_in) = 1 /\ auth_in[1] = Question(a, KeyOf(a))
  \/ /\ auth_in = << >> /\ Len(auth_out) = 1
     /\ auth_out[1].ticket = Logins!Encrypted(s, Logins!Tiger(Logins!SeedOf(a)), KeyOf(a))

\* An attempt nobody has disturbed has its own key, and waits alone.
AttemptRight(a, s) ==
  /\ game[a].at = "requested" /\ a \notin disturbed => auth_ticket = KeyOf(a)
  /\ game[a].at = "ready" /\ a \notin disturbed => game[a].ticket = KeyOf(a)
  /\ game[a].at = "asked" /\ a \notin disturbed => Asked = {a} /\ OwnMessage(a, s)
  /\ game[a].at = "failed" => a \in disturbed
  /\ game[a].at \in {"authorized", "online"} => game[a].ticket = s /\ game[a].session = s

\* Whoever waits has one message in the queues.
OneForEach == IsFiniteSet(Asked) /\ Cardinality(Asked) = Len(auth_in) + Len(auth_out)

AuthInv(s) == AuthTypes(s) /\ OneForEach /\ \A a \in Attempts : AttemptRight(a, s)

Hellos(s) == {[op |-> "hello", ticket |-> s]}
Inquiry(n, s) ==
  [op |-> "request", cipher |-> Logins!Encrypted(Logins!Asking, Logins!Tiger(<<"iv", n>>), s),
   iv |-> n]
Inquiries(s) == {Inquiry(n, s) : n \in Nat}
Echo(s) ==
  [cipher |-> Logins!Encrypted(Logins!Asking, Logins!Tiger("seed"), s), iv |-> "seed"]

\* The lobby has the key, or a hello is before the n-th message.
Told(n, s) == decryption_key_ = s \/ \E m \in 1..(n - 1) : lobby_in[m] \in Hellos(s)

LobbyInv(s) ==
  /\ lobby_in \in Seq(Hellos(s) \cup Inquiries(s)) /\ lobby_out \in Seq({Echo(s)})
  /\ requested \in Nat /\ opened
  /\ encryption_key_ = decryption_key_
  /\ \A n \in 1..Len(lobby_in) : lobby_in[n] \in Hellos(s) \/ Told(n, s)
  /\ (\E a \in Attempts : game[a].at = "online") => Told(Len(lobby_in) + 1, s)

LoginsInv == \E s : s = Logins!Session /\ AuthInv(s) /\ LobbyInv(s)

LEMMA LoginsStart == Logins!Init => LoginsInv
<1> SUFFICES ASSUME Logins!Init, NEW s, s = Logins!Session PROVE AuthInv(s) /\ LobbyInv(s)
  BY DEF LoginsInv
<1>1. AuthTypes(s)
  BY DEF Logins!Init, AuthTypes, Games, Keys
<1>2. Asked = {}
  BY DEF Logins!Init, Asked
<1>3. OneForEach
  BY <1>2, FS_EmptySet DEF Logins!Init, OneForEach
<1>4. ASSUME NEW a \in Attempts PROVE AttemptRight(a, s)
  BY DEF Logins!Init, AttemptRight
<1>5. LobbyInv(s)
  BY DEF Logins!Init, LobbyInv
<1> QED
  BY <1>1, <1>3, <1>4, <1>5 DEF AuthInv

-----------------------------------------------------------------------------
(* The authentication server.                                              *)

\* The ticket.
LEMMA TicketKeeps ==
  ASSUME NEW s, AuthInv(s), NEW a \in Attempts,
         Logins!RequestTicket(a) \/ Logins!GetTicket(a) \/ Logins!OwnTicket(a)
  PROVE  AuthInv(s)'
<1>1. AuthTypes(s) /\ OneForEach /\ (\A b \in Attempts : AttemptRight(b, s))
  BY DEF AuthInv
<1>2. KeyOf(a) \in Keys(s) /\ auth_ticket \in Keys(s) /\ game[a] \in Games(s)
  BY <1>1 DEF Keys, AuthTypes
<1>3. /\ game' \in [Attempts -> Games(s)] /\ auth_ticket' \in Keys(s)
      /\ UNCHANGED <<auth_in, auth_out>>
      /\ \A b \in Attempts \ {a} : game'[b] = game[b]
      /\ game[a].at # "asked" /\ game'[a].at \in {"requested", "ready"}
      /\ disturbed \subseteq disturbed'
  <2>1. CASE Logins!RequestTicket(a)
    BY <1>1, <1>2, <2>1 DEF Logins!RequestTicket, AuthTypes, Games, Logins!At,
       Logins!AuthUnchanged, KeyOf
  <2>2. CASE Logins!GetTicket(a)
    BY <1>1, <1>2, <2>2 DEF Logins!GetTicket, AuthTypes, Games, Logins!At, Logins!AuthUnchanged
  <2>3. CASE Logins!OwnTicket(a)
    BY <1>1, <1>2, <2>3 DEF Logins!OwnTicket, AuthTypes, Games, Logins!At,
       Logins!AuthUnchanged, KeyOf
  <2> QED
    BY <2>1, <2>2, <2>3
<1>4. AuthTypes(s)'
  BY <1>1, <1>3 DEF AuthTypes
<1>5. Asked' = Asked
  BY <1>3 DEF Asked
<1>6. OneForEach'
  BY <1>1, <1>3, <1>5 DEF OneForEach
<1>7. AttemptRight(a, s)'
  <2>1. CASE Logins!RequestTicket(a)
    BY <1>1, <2>1 DEF Logins!RequestTicket, AttemptRight, AuthTypes, Games, KeyOf
  <2>2. CASE Logins!GetTicket(a)
    BY <1>1, <2>2 DEF Logins!GetTicket, AttemptRight, AuthTypes, Games, Logins!At
  <2>3. CASE Logins!OwnTicket(a)
    BY <1>1, <2>3 DEF Logins!OwnTicket, AttemptRight, AuthTypes, Games, KeyOf
  <2> QED
    BY <2>1, <2>2, <2>3
<1>8. ASSUME NEW b \in Attempts \ {a} PROVE AttemptRight(b, s)'
  <2>1. AttemptRight(b, s) /\ game'[b] = game[b]
    BY <1>1, <1>3
  <2>2. game[b].at = "requested" /\ b \notin disturbed' => auth_ticket' = KeyOf(b)
    BY <2>1, <1>3 DEF Logins!RequestTicket, Logins!GetTicket, Logins!OwnTicket, AttemptRight,
       Logins!At
  <2> QED
    BY <2>1, <2>2, <1>3, <1>5 DEF AttemptRight, OwnMessage
<1> QED
  BY <1>4, <1>6, <1>7, <1>8 DEF AuthInv

LEMMA AskAuthKeeps ==
  ASSUME NEW s, AuthInv(s), NEW a \in Attempts, Logins!AskAuth(a)
  PROVE  AuthInv(s)'
<1> DEFINE others == {b \in Attempts \ {a} : game[b].at = "asked"}
           question == [seed |-> Logins!SeedOf(a), ticket |-> game[a].ticket, by |-> a]
<1>1. AuthTypes(s) /\ OneForEach /\ (\A b \in Attempts : AttemptRight(b, s))
  BY DEF AuthInv
<1>2. /\ game[a].at = "ready" /\ auth_in' = Append(auth_in, question)
      /\ game' = [game EXCEPT ![a].at = "asked"] /\ UNCHANGED <<auth_ticket, auth_out>>
      /\ disturbed' = disturbed \cup others \cup (IF others = {} THEN {} ELSE {a})
  BY DEF Logins!AskAuth, Logins!At
<1>3. /\ game' \in [Attempts -> Games(s)] /\ game'[a].at = "asked"
      /\ \A b \in Attempts \ {a} : game'[b] = game[b]
  BY <1>1, <1>2 DEF AuthTypes, Games
<1>4. question = Question(a, game[a].ticket) /\ question \in Questions(s)
  BY <1>1 DEF Question, Questions, AuthTypes, Games
<1>5. AuthTypes(s)'
  BY <1>1, <1>2, <1>3, <1>4 DEF AuthTypes
<1>6. others = Asked /\ Asked' = Asked \cup {a} /\ a \notin Asked
  BY <1>2, <1>3 DEF Asked
<1>7. Len(auth_in') = Len(auth_in) + 1 /\ Len(auth_in) \in Nat /\ Len(auth_out) \in Nat
  BY <1>1, <1>2, <1>4 DEF AuthTypes
<1>8. OneForEach'
  BY <1>1, <1>2, <1>6, <1>7, FS_AddElement DEF OneForEach
<1>9. AttemptRight(a, s)'
  <2> SUFFICES ASSUME a \notin disturbed, others = {}
               PROVE  Asked' = {a} /\ OwnMessage(a, s)'
    BY <1>2, <1>3 DEF AttemptRight
  <2>1. game[a].ticket = KeyOf(a)
    BY <1>1, <1>2 DEF AttemptRight
  <2>2. Len(auth_in) = 0 /\ Len(auth_out) = 0
    BY <1>1, <1>6, <1>7, FS_EmptySet DEF OneForEach
  <2>3. auth_out' = << >> /\ Len(auth_in') = 1
    BY <1>1, <1>2, <1>7, <2>2 DEF AuthTypes
  <2>4. auth_in'[1] = question
    BY <1>1, <1>2, <1>4, <2>2 DEF AuthTypes
  <2> QED
    BY <1>4, <1>6, <2>1, <2>3, <2>4 DEF OwnMessage
<1>10. ASSUME NEW b \in Attempts \ {a} PROVE AttemptRight(b, s)'
  BY <1>1, <1>2, <1>3, <1>10 DEF AttemptRight
<1> QED
  BY <1>5, <1>8, <1>9, <1>10 DEF AuthInv

LEMMA AuthenticateKeeps ==
  ASSUME NEW s, s = Logins!Session, AuthInv(s), Logins!Authenticate
  PROVE  AuthInv(s)'
<1>1. AuthTypes(s) /\ OneForEach /\ (\A b \in Attempts : AttemptRight(b, s))
  BY DEF AuthInv
<1>2. auth_in # << >> /\ auth_in' = Tail(auth_in) /\ UNCHANGED <<auth_ticket, game>>
  BY DEF Logins!Authenticate
<1>3. PICK k \in Logins!ReadTicket(Head(auth_in).ticket) :
        /\ auth_out' = Append(auth_out, Logins!AuthReply(Head(auth_in).seed, k))
        /\ disturbed' = disturbed \cup (IF k = Logins!Stack THEN {Head(auth_in).by} ELSE {})
  BY DEF Logins!Authenticate
<1> DEFINE answer == Logins!AuthReply(Head(auth_in).seed, k)
<1>4. PICK a \in Attempts, held \in Keys(s) : auth_in[1] = Question(a, held)
  BY <1>1, <1>2 DEF AuthTypes, Questions
<1>5. Head(auth_in) = auth_in[1]
  BY <1>1, <1>2 DEF AuthTypes
<1>6. /\ Head(auth_in).ticket = held /\ Head(auth_in).seed = Logins!SeedOf(a)
      /\ Head(auth_in).by = a
  BY <1>4, <1>5 DEF Question
<1>7. k \in {held, Logins!Stack}
  BY <1>3, <1>6 DEF Logins!ReadTicket
<1>8. /\ answer.ticket = Logins!Encrypted(s, Logins!Tiger(Logins!SeedOf(a)), k)
      /\ answer \in Answers(s)
  BY <1>6, <1>7 DEF Logins!AuthReply, Answers
<1> HIDE DEF answer
<1>9. Len(auth_in') = Len(auth_in) - 1 /\ Len(auth_out') = Len(auth_out) + 1
      /\ Len(auth_in) \in Nat /\ Len(auth_out) \in Nat
  BY <1>1, <1>2, <1>3, <1>8 DEF AuthTypes, answer
<1>10. AuthTypes(s)'
  BY <1>1, <1>2, <1>3, <1>8 DEF AuthTypes, answer
<1>11. Asked' = Asked
  BY <1>2 DEF Asked
<1>12. OneForEach'
  BY <1>1, <1>9, <1>11 DEF OneForEach
<1>13. ASSUME NEW b \in Attempts PROVE AttemptRight(b, s)'
  <2>1. AttemptRight(b, s)
    BY <1>1
  <2>2. ASSUME game[b].at = "asked", b \notin disturbed' PROVE OwnMessage(b, s)'
    <3>1. OwnMessage(b, s)
      BY <2>1, <2>2, <1>3 DEF AttemptRight
    <3>2. auth_out = << >> /\ Len(auth_in) = 1 /\ auth_in[1] = Question(b, KeyOf(b))
      BY <1>2, <3>1 DEF OwnMessage
    <3>3. a = b /\ held = KeyOf(b)
      BY <1>4, <3>2 DEF Question
    <3>4. k = KeyOf(b)
      BY <1>3, <1>6, <1>7, <2>2, <3>3
    <3>5. auth_in' = << >> /\ Len(auth_out') = 1 /\ auth_out'[1] = answer
      BY <1>1, <1>2, <1>3, <1>8, <1>9, <1>10, <3>2 DEF AuthTypes, answer
    <3> QED
      BY <1>8, <3>3, <3>4, <3>5 DEF OwnMessage
  <2> QED
    BY <1>2, <1>3, <1>11, <2>1, <2>2 DEF AttemptRight
<1> QED
  BY <1>10, <1>12, <1>13 DEF AuthInv

LEMMA ReadAuthKeeps ==
  ASSUME NEW s, s = Logins!Session, AuthInv(s), NEW a \in Attempts, Logins!ReadAuth(a)
  PROVE  /\ AuthInv(s)' /\ UNCHANGED <<mode, lobby_in, lobby_out, encryption_key_,
                                       decryption_key_, requested, opened>>
         /\ \A b \in Attempts : game'[b].at = "online" => game[b].at = "online"
<1> DEFINE reply == Head(auth_out)
           session == Logins!Decrypted(reply.ticket, Logins!Tiger(Logins!SeedOf(a)), KeyOf(a))
           authorized == [at |-> "authorized", ticket |-> reply.lsg_ticket, session |-> session]
<1>1. AuthTypes(s) /\ OneForEach /\ (\A b \in Attempts : AttemptRight(b, s))
  BY DEF AuthInv
<1>2. /\ game[a].at = "asked" /\ auth_out # << >> /\ auth_out' = Tail(auth_out)
      /\ game' = [game EXCEPT ![a] =
           IF session = Logins!Garbage THEN [@ EXCEPT !.at = "failed"] ELSE authorized]
      /\ UNCHANGED <<auth_ticket, auth_in, disturbed, mode>> /\ Logins!LobbyUnchanged
  BY DEF Logins!ReadAuth, Logins!At, KeyOf
<1>3. reply = auth_out[1] /\ reply \in Answers(s)
  BY <1>1, <1>2 DEF AuthTypes
<1>4. reply.ticket.text = s /\ reply.lsg_ticket = s
  <2> HIDE DEF reply
  <2>1. PICK b \in Attempts, k \in Keys(s) \cup {Logins!Stack} :
          reply.ticket = Logins!Encrypted(s, Logins!Tiger(Logins!SeedOf(b)), k)
    BY <1>3 DEF Answers
  <2> QED
    BY <1>3, <2>1 DEF Answers, Logins!Encrypted
<1>5. session \in {s, Logins!Garbage}
  BY <1>4 DEF Logins!Decrypted
<1>6. s # Logins!Garbage
  BY DEF Logins!Session, Logins!Tiger, Logins!Garbage
<1> HIDE DEF session, reply
<1>7. /\ game' \in [Attempts -> Games(s)]
      /\ \A b \in Attempts \ {a} : game'[b] = game[b]
      /\ session = Logins!Garbage => game'[a].at = "failed"
      /\ session # Logins!Garbage =>
           game'[a].at = "authorized" /\ game'[a].ticket = s /\ game'[a].session = s
  <2>1. CASE session = Logins!Garbage
    BY <1>1, <1>2, <2>1 DEF AuthTypes, Games
  <2>2. CASE session # Logins!Garbage
    <3>1. game' = [game EXCEPT ![a] = authorized]
      BY <1>2, <2>2
    <3>2. authorized \in Games(s)
      BY <1>4, <1>5, <2>2 DEF Games, Keys
    <3>3. authorized.at = "authorized" /\ authorized.ticket = s /\ authorized.session = s
      BY <1>4, <1>5, <2>2
    <3> HIDE DEF authorized
    <3> QED
      BY <1>1, <2>2, <3>1, <3>2, <3>3 DEF AuthTypes
  <2> QED
    BY <2>1, <2>2
<1>8. AuthTypes(s)'
  BY <1>1, <1>2, <1>7 DEF AuthTypes
<1>9. Asked' = Asked \ {a} /\ a \in Asked
  BY <1>2, <1>7 DEF Asked
<1>10. OneForEach'
  <2>1. Len(auth_out') = Len(auth_out) - 1 /\ Len(auth_in) \in Nat /\ Len(auth_out) \in Nat
    BY <1>1, <1>2 DEF AuthTypes
  <2> QED
    BY <1>1, <1>2, <1>9, <2>1, FS_RemoveElement DEF OneForEach
<1>11. AttemptRight(a, s)'
  <2>1. ASSUME session = Logins!Garbage PROVE a \in disturbed
    <3> SUFFICES ASSUME a \notin disturbed PROVE session = s
      BY <1>6, <2>1
    <3>1. OwnMessage(a, s)
      BY <1>1, <1>2 DEF AttemptRight
    <3>2. reply.ticket = Logins!Encrypted(s, Logins!Tiger(Logins!SeedOf(a)), KeyOf(a))
      BY <1>2, <1>3, <3>1 DEF OwnMessage
    <3> QED
      BY <3>2 DEF session, Logins!Decrypted, Logins!Encrypted
  <2> QED
    BY <1>2, <1>7, <2>1 DEF AttemptRight
<1>12. ASSUME NEW b \in Attempts \ {a} PROVE AttemptRight(b, s)'
  <2>1. AttemptRight(b, s) /\ game'[b] = game[b]
    BY <1>1, <1>7
  <2>2. game[b].at = "asked" => b \in disturbed
    BY <1>9, <2>1 DEF AttemptRight, Asked
  <2> QED
    BY <1>2, <2>1, <2>2 DEF AttemptRight
<1>13. AuthInv(s)'
  BY <1>8, <1>10, <1>11, <1>12 DEF AuthInv
<1> QED
  BY <1>2, <1>7, <1>13 DEF Logins!LobbyUnchanged

\* What the lobby does leaves the waiting attempts alone.
LEMMA AuthStays ==
  ASSUME NEW s, AuthInv(s), UNCHANGED <<auth_ticket, game, auth_in, auth_out, disturbed>>
  PROVE  AuthInv(s)'
BY DEF AuthInv, AuthTypes, OneForEach, Asked, AttemptRight, OwnMessage

-----------------------------------------------------------------------------
(* The lobby server.                                                       *)

\* Nobody comes online, and the queues stay.
LEMMA LobbyStays ==
  ASSUME NEW s, LobbyInv(s),
         UNCHANGED <<lobby_in, lobby_out, encryption_key_, decryption_key_, requested, opened>>,
         \A a \in Attempts : game'[a].at = "online" => game[a].at = "online"
  PROVE  LobbyInv(s)'
BY DEF LobbyInv, Told

\* A message more: a hello, or a request of somebody who is online.
LEMMA LobbyGrows ==
  ASSUME NEW s, LobbyInv(s), NEW e \in Hellos(s) \cup Inquiries(s),
         lobby_in' = Append(lobby_in, e),
         e \in Hellos(s) \/ (\E a \in Attempts : game[a].at = "online"),
         requested' \in Nat, UNCHANGED <<lobby_out, encryption_key_, decryption_key_, opened>>
  PROVE  LobbyInv(s)'
<1>0. lobby_in \in Seq(Hellos(s) \cup Inquiries(s))
  BY DEF LobbyInv
<1> PICK n : n = Len(lobby_in)
  OBVIOUS
<1>1. lobby_in \in Seq(Hellos(s) \cup Inquiries(s)) /\ n \in Nat
  BY <1>0
<1>2. /\ lobby_in' \in Seq(Hellos(s) \cup Inquiries(s)) /\ Len(lobby_in') = n + 1
      /\ lobby_in'[n + 1] = e /\ \A m \in 1..n : lobby_in'[m] = lobby_in[m]
  BY <1>1
<1>3. e \in Hellos(s) \/ Told(n + 1, s)
  BY DEF LobbyInv
<1>4. ASSUME NEW m \in 1..(n + 1), Told(m, s) PROVE Told(m, s)'
  BY <1>1, <1>2, <1>4 DEF Told
<1>5. ASSUME NEW m \in 1..(n + 1) PROVE lobby_in'[m] \in Hellos(s) \/ Told(m, s)'
  <2>1. CASE m = n + 1
    BY <1>1, <1>2, <1>3, <1>4, <2>1
  <2>2. CASE m \in 1..n
    BY <1>1, <1>2, <1>4, <2>2 DEF LobbyInv
  <2> QED
    BY <1>1, <2>1, <2>2
<1>6. Told(n + 2, s)'
  BY <1>1, <1>2, <1>3 DEF Told
<1> QED
  BY <1>1, <1>2, <1>5, <1>6 DEF LobbyInv

\* The first message is through, and leaves its key to those behind it.
LEMMA LobbyShrinks ==
  ASSUME NEW s, LobbyInv(s), lobby_in # << >>, lobby_in' = Tail(lobby_in),
         decryption_key_' = IF lobby_in[1] \in Hellos(s) THEN s ELSE decryption_key_,
         encryption_key_' = decryption_key_', lobby_out' \in Seq({Echo(s)}),
         UNCHANGED <<requested, opened, game>>
  PROVE  LobbyInv(s)'
<1>0. lobby_in \in Seq(Hellos(s) \cup Inquiries(s))
  BY DEF LobbyInv
<1> PICK n : n = Len(lobby_in)
  OBVIOUS
<1>1. lobby_in \in Seq(Hellos(s) \cup Inquiries(s)) /\ n \in Nat
  BY <1>0
<1>2. /\ lobby_in' \in Seq(Hellos(s) \cup Inquiries(s)) /\ Len(lobby_in') = n - 1 /\ n # 0
      /\ \A m \in 1..(n - 1) : lobby_in'[m] = lobby_in[m + 1]
  BY <1>1
<1>3. ASSUME NEW m \in 1..n, Told(m + 1, s) PROVE Told(m, s)'
  <2>1. CASE decryption_key_ = s
    BY <2>1 DEF Told
  <2>2. CASE lobby_in[1] \in Hellos(s)
    BY <2>2 DEF Told
  <2>3. CASE decryption_key_ # s /\ lobby_in[1] \notin Hellos(s)
    <3>1. PICK k \in 1..m : lobby_in[k] \in Hellos(s)
      BY <1>1, <1>3, <2>3 DEF Told
    <3>2. k # 1 /\ k - 1 \in 1..(m - 1) /\ k - 1 \in 1..(n - 1)
      BY <1>1, <2>3, <3>1
    <3>3. lobby_in'[k - 1] = lobby_in[k]
      BY <1>1, <1>2, <3>2
    <3> QED
      BY <3>1, <3>2, <3>3 DEF Told
  <2> QED
    BY <2>1, <2>2, <2>3
<1>4. ASSUME NEW m \in 1..(n - 1) PROVE lobby_in'[m] \in Hellos(s) \/ Told(m, s)'
  <2>1. lobby_in[m + 1] \in Hellos(s) \/ Told(m + 1, s)
    BY <1>1 DEF LobbyInv
  <2> QED
    BY <1>1, <1>2, <1>3, <2>1
<1>5. ASSUME \E a \in Attempts : game[a].at = "online" PROVE Told(n, s)'
  <2>1. Told(n + 1, s)
    BY <1>5 DEF LobbyInv
  <2>2. n \in 1..n
    BY <1>1, <1>2
  <2> QED
    BY <1>3, <2>1, <2>2
<1> QED
  BY <1>1, <1>2, <1>4, <1>5 DEF LobbyInv

LEMMA LobbyStepKeeps ==
  ASSUME NEW s, s = Logins!Session, AuthInv(s), LobbyInv(s),
         \/ \E a \in Attempts :
              Logins!SayHello(a) \/ Logins!AskLobby(a) \/ Logins!ReadLobby(a)
         \/ Logins!Hello \/ Logins!Serve
  PROVE  AuthInv(s)' /\ LobbyInv(s)'
<1>1. AuthTypes(s) /\ OneForEach /\ (\A b \in Attempts : AttemptRight(b, s))
  BY DEF AuthInv
<1>2. lobby_in \in Seq(Hellos(s) \cup Inquiries(s)) /\ lobby_out \in Seq({Echo(s)})
      /\ requested \in Nat /\ opened
  BY DEF LobbyInv
<1>3. ASSUME NEW a \in Attempts, Logins!SayHello(a) PROVE AuthInv(s)' /\ LobbyInv(s)'
  <2>1. /\ game[a].at = "authorized" /\ game' = [game EXCEPT ![a].at = "online"]
        /\ lobby_in' = Append(lobby_in, [op |-> "hello", ticket |-> game[a].ticket])
        /\ UNCHANGED <<auth_ticket, auth_in, auth_out, disturbed, lobby_out,
                       encryption_key_, decryption_key_, requested, opened>>
    BY <1>3 DEF Logins!SayHello, Logins!At, Logins!AuthUnchanged
  <2>2. game[a].ticket = s /\ game[a].session = s
    BY <1>1, <2>1 DEF AttemptRight
  <2>3. LobbyInv(s)'
    <3> DEFINE hello == [op |-> "hello", ticket |-> s]
    <3>1. hello \in Hellos(s) /\ lobby_in' = Append(lobby_in, hello)
      BY <2>1, <2>2 DEF Hellos
    <3> HIDE DEF hello
    <3> QED
      BY <1>2, <2>1, <3>1, LobbyGrows
  <2>4. /\ game' \in [Attempts -> Games(s)] /\ game'[a].at = "online"
        /\ game'[a].ticket = s /\ game'[a].session = s
        /\ \A b \in Attempts \ {a} : game'[b] = game[b]
    BY <1>1, <2>1, <2>2 DEF AuthTypes, Games
  <2>5. Asked' = Asked
    BY <2>1, <2>4 DEF Asked
  <2>6. AuthTypes(s)' /\ OneForEach'
    BY <1>1, <2>1, <2>4, <2>5 DEF AuthTypes, OneForEach
  <2>7. AttemptRight(a, s)'
    BY <2>4 DEF AttemptRight
  <2>8. ASSUME NEW b \in Attempts \ {a} PROVE AttemptRight(b, s)'
    BY <1>1, <2>1, <2>4, <2>5 DEF AttemptRight, OwnMessage
  <2> QED
    BY <2>3, <2>6, <2>7, <2>8 DEF AuthInv
<1>4. ASSUME NEW a \in Attempts, Logins!AskLobby(a) PROVE AuthInv(s)' /\ LobbyInv(s)'
  <2>1. /\ game[a].at = "online" /\ requested' = requested + 1
        /\ lobby_in' = Append(lobby_in, [op |-> "request", cipher |->
             Logins!Encrypted(Logins!Asking, Logins!Tiger(<<"iv", requested>>), game[a].session),
             iv |-> requested])
        /\ UNCHANGED <<auth_ticket, game, auth_in, auth_out, disturbed, lobby_out,
                       encryption_key_, decryption_key_, opened>>
    BY <1>4 DEF Logins!AskLobby, Logins!At, Logins!AuthUnchanged
  <2>2. game[a].session = s
    BY <1>1, <2>1 DEF AttemptRight
  <2>3. /\ lobby_in' = Append(lobby_in, Inquiry(requested, s))
        /\ Inquiry(requested, s) \in Inquiries(s)
    BY <1>2, <2>1, <2>2 DEF Inquiry, Inquiries
  <2>4. requested' \in Nat
    BY <1>2, <2>1
  <2>5. AuthInv(s)'
    BY <2>1, AuthStays
  <2>6. LobbyInv(s)'
    BY <2>1, <2>3, <2>4, LobbyGrows
  <2> QED
    BY <2>5, <2>6
<1>5. ASSUME NEW a \in Attempts, Logins!ReadLobby(a) PROVE AuthInv(s)' /\ LobbyInv(s)'
  <2> DEFINE reply == Head(lobby_out)
  <2>1. /\ game[a].at = "online" /\ lobby_out # << >> /\ lobby_out' = Tail(lobby_out)
        /\ opened' = (opened /\ Logins!Asking =
             Logins!Decrypted(reply.cipher, Logins!Tiger(reply.iv), game[a].session))
        /\ UNCHANGED <<auth_ticket, game, auth_in, auth_out, disturbed, lobby_in,
                       encryption_key_, decryption_key_, requested>>
    BY <1>5 DEF Logins!ReadLobby, Logins!At, Logins!AuthUnchanged
  <2>2. game[a].session = s
    BY <1>1, <2>1 DEF AttemptRight
  <2>3. reply = Echo(s)
    BY <1>2, <2>1
  <2> HIDE DEF reply
  <2>4. opened'
    <3>1. reply.cipher = Logins!Encrypted(Logins!Asking, Logins!Tiger("seed"), s)
          /\ reply.iv = "seed"
      BY <2>3 DEF Echo
    <3>2. Logins!Decrypted(reply.cipher, Logins!Tiger(reply.iv), s) = Logins!Asking
      BY <3>1 DEF Logins!Decrypted, Logins!Encrypted
    <3> QED
      BY <1>2, <2>1, <2>2, <3>2
  <2>5. lobby_out' \in Seq({Echo(s)})
    BY <1>2, <2>1
  <2>6. LobbyInv(s)'
    BY <2>1, <2>4, <2>5 DEF LobbyInv, Told
  <2> QED
    BY <2>1, <2>6, AuthStays
<1>6. ASSUME Logins!Hello PROVE AuthInv(s)' /\ LobbyInv(s)'
  <2>1. /\ lobby_in # << >> /\ Head(lobby_in).op = "hello" /\ lobby_in' = Tail(lobby_in)
        /\ encryption_key_' = Head(lobby_in).ticket /\ decryption_key_' = Head(lobby_in).ticket
        /\ UNCHANGED <<auth_ticket, game, auth_in, auth_out, disturbed, lobby_out, requested, opened>>
    BY <1>6 DEF Logins!Hello, Logins!AuthUnchanged
  <2>2. Head(lobby_in) = lobby_in[1] /\ lobby_in[1] \in Hellos(s) \cup Inquiries(s)
    BY <1>2, <2>1
  <2>3. lobby_in[1] \in Hellos(s) /\ lobby_in[1].ticket = s
    <3>1. ASSUME NEW n \in Nat PROVE lobby_in[1] # Inquiry(n, s)
      BY <2>1, <2>2 DEF Inquiry
    <3>2. lobby_in[1] \in Hellos(s)
      BY <2>2, <3>1 DEF Inquiries
    <3> QED
      BY <3>2 DEF Hellos
  <2>4. LobbyInv(s)'
    BY <1>2, <2>1, <2>2, <2>3, LobbyShrinks
  <2> QED
    BY <2>1, <2>4, AuthStays
<1>7. ASSUME Logins!Serve PROVE AuthInv(s)' /\ LobbyInv(s)'
  <2> DEFINE request == Head(lobby_in)
             cipher == Logins!Encrypted(
               Logins!Decrypted(request.cipher, Logins!Tiger(<<"iv", request.iv>>), decryption_key_),
               Logins!Tiger("seed"), encryption_key_)
  <2>1. /\ lobby_in # << >> /\ request.op = "request" /\ lobby_in' = Tail(lobby_in)
        /\ lobby_out' = Append(lobby_out, [cipher |-> cipher, iv |-> "seed"])
        /\ UNCHANGED <<auth_ticket, game, auth_in, auth_out, disturbed, encryption_key_,
                       decryption_key_, requested, opened>>
    BY <1>7 DEF Logins!Serve, Logins!AuthUnchanged
  <2>2. request = lobby_in[1] /\ lobby_in[1] \in Hellos(s) \cup Inquiries(s) /\ Len(lobby_in) >= 1
    BY <1>2, <2>1
  <2>3. lobby_in[1] \notin Hellos(s)
    BY <2>1, <2>2 DEF Hellos
  <2>4. decryption_key_ = s /\ encryption_key_ = s
    BY <2>2, <2>3 DEF LobbyInv, Told
  <2>5. PICK n \in Nat : request = Inquiry(n, s)
    BY <2>2, <2>3 DEF Inquiries
  <2>6. Logins!Decrypted(request.cipher, Logins!Tiger(<<"iv", request.iv>>), decryption_key_)
          = Logins!Asking
    BY <2>4, <2>5 DEF Inquiry, Logins!Decrypted, Logins!Encrypted
  <2>7. [cipher |-> cipher, iv |-> "seed"] = Echo(s)
    BY <2>4, <2>6 DEF Echo
  <2>8. lobby_out' \in Seq({Echo(s)})
    BY <1>2, <2>1, <2>7
  <2>9. encryption_key_' = decryption_key_'
    BY <2>1, <2>4
  <2>10. LobbyInv(s)'
    BY <2>1, <2>3, <2>8, <2>9, LobbyShrinks
  <2> QED
    BY <2>1, <2>10, AuthStays
<1> QED
  BY <1>3, <1>4, <1>5, <1>6, <1>7

LEMMA LoginsStep ==
  LoginsInv /\ [PartsNext]_<<part, lobbyVars, loginsVars, hostsVars>> => LoginsInv'
<1> SUFFICES ASSUME LoginsInv, [PartsNext]_<<part, lobbyVars, loginsVars, hostsVars>>
             PROVE  LoginsInv'
  OBVIOUS
<1>1. PICK s : s = Logins!Session /\ AuthInv(s) /\ LobbyInv(s)
  BY DEF LoginsInv
<1>2. ASSUME UNCHANGED mode, AuthInv(s)', LobbyInv(s)' PROVE LoginsInv'
  <2>1. s = Logins!Session'
    BY <1>1, <1>2 DEF Logins!Session
  <2> QED
    BY <1>2, <2>1 DEF LoginsInv
<1>3. CASE UNCHANGED loginsVars
  <2>1. AuthInv(s)' /\ LobbyInv(s)' /\ UNCHANGED mode
    BY <1>1, <1>3, AuthStays, LobbyStays DEF loginsVars
  <2> QED
    BY <1>2, <2>1
<1>4. ASSUME NEW a \in Attempts,
             Logins!RequestTicket(a) \/ Logins!GetTicket(a) \/ Logins!OwnTicket(a)
      PROVE  LoginsInv'
  <2>1. AuthInv(s)'
    BY <1>1, <1>4, TicketKeeps
  <2>2. /\ UNCHANGED <<mode, lobby_in, lobby_out, encryption_key_, decryption_key_, requested, opened>>
        /\ \A b \in Attempts : game'[b].at = "online" => game[b].at = "online"
    BY <1>1, <1>4 DEF Logins!RequestTicket, Logins!GetTicket, Logins!OwnTicket,
       Logins!LobbyUnchanged, AuthInv, AuthTypes, Games
  <2> QED
    BY <1>1, <1>2, <2>1, <2>2, LobbyStays
<1>5. ASSUME NEW a \in Attempts, Logins!AskAuth(a) PROVE LoginsInv'
  <2>1. AuthInv(s)'
    BY <1>1, <1>5, AskAuthKeeps
  <2>2. /\ UNCHANGED <<mode, lobby_in, lobby_out, encryption_key_, decryption_key_, requested, opened>>
        /\ \A b \in Attempts : game'[b].at = "online" => game[b].at = "online"
    BY <1>1, <1>5 DEF Logins!AskAuth, Logins!LobbyUnchanged, AuthInv, AuthTypes, Games
  <2> QED
    BY <1>1, <1>2, <2>1, <2>2, LobbyStays
<1>6. ASSUME Logins!Authenticate PROVE LoginsInv'
  <2>1. AuthInv(s)'
    BY <1>1, <1>6, AuthenticateKeeps
  <2>2. UNCHANGED <<mode, game, lobby_in, lobby_out, encryption_key_, decryption_key_,
                    requested, opened>>
    BY <1>6 DEF Logins!Authenticate, Logins!LobbyUnchanged
  <2> QED
    BY <1>1, <1>2, <2>1, <2>2, LobbyStays
<1>7. ASSUME NEW a \in Attempts, Logins!ReadAuth(a) PROVE LoginsInv'
  BY <1>1, <1>2, <1>7, ReadAuthKeeps, LobbyStays
<1>8. ASSUME \/ \E a \in Attempts :
                  Logins!SayHello(a) \/ Logins!AskLobby(a) \/ Logins!ReadLobby(a)
             \/ Logins!Hello \/ Logins!Serve
      PROVE  LoginsInv'
  <2>1. AuthInv(s)' /\ LobbyInv(s)'
    BY <1>1, <1>8, LobbyStepKeeps
  <2>2. UNCHANGED mode
    BY <1>8 DEF Logins!SayHello, Logins!AskLobby, Logins!ReadLobby, Logins!Hello, Logins!Serve
  <2> QED
    BY <1>2, <2>1, <2>2
<1>9. CASE Logins!Next
  BY <1>4, <1>5, <1>6, <1>7, <1>8, <1>9 DEF Logins!Next
<1> QED
  BY <1>3, <1>9 DEF PartsNext, loginsVars

\* Whatever the number of logins at a time: one fails only where another got in its
\* way, or where the server never read its ticket; and whoever is logged in
\* understands the lobby's answers, though all share its queues and its keys.
THEOREM Logins_Succeed == PartsSpec => []LoginsSucceed
<1>1. PartsInit => LoginsInv
  BY LoginsStart DEF PartsInit
<1>2. LoginsInv => LoginsSucceed
  BY DEF LoginsInv, AuthInv, LobbyInv, AttemptRight, LoginsSucceed, Logins!FailsOnlyDisturbed,
     Logins!LobbyUnderstood, Logins!At
<1> QED
  BY <1>1, <1>2, LoginsStep, PTL DEF PartsSpec

-----------------------------------------------------------------------------
(* The lobby. What is encrypted is a sequence of numbers, no bytes.        *)

Numbers == Seq(Int)

\* Bytes are numbers.
LEMMA BytesAreNumbers == Byte \subseteq Int /\ ByteString \subseteq Numbers
<1>1. Byte \subseteq Int
  BY DEF Byte
<1>2. ASSUME NEW s \in ByteString PROVE s \in Numbers
  BY <1>1, SeqMonotonic DEF ByteString, Numbers
<1> QED
  BY <1>1, <1>2

\* Joining three sequences, in either order.
Grouped(x, y, z) == (x \o y) \o z = x \o (y \o z)

\* Both ways are the same ...
LEMMA TripleGrouped ==
  ASSUME NEW S, NEW x \in Seq(S), NEW y \in Seq(S), NEW z \in Seq(S)
  PROVE  (x \o y) \o z = x \o (y \o z)
  BY SMT

\* ... for sequences of anything,
LEMMA AllGrouped ==
  ASSUME NEW S
  PROVE  \A x, y, z \in Seq(S) : Grouped(x, y, z)
<1> TAKE x, y, z \in Seq(S)
<1> QED
  BY TripleGrouped DEF Grouped

\* of numbers,
LEMMA NumbersGrouped == \A x, y, z \in Numbers : Grouped(x, y, z)
  BY AllGrouped DEF Numbers

\* and of bytes.
LEMMA BytesGrouped == \A x, y, z \in ByteString : Grouped(x, y, z)
  BY AllGrouped DEF ByteString

\* Sequences of numbers may be joined in any order.
LEMMA NumbersJoin ==
  ASSUME NEW c \in Numbers, NEW d \in Numbers, NEW e \in Numbers
  PROVE  (c \o d) \o e = c \o (d \o e) /\ c \o d \in Numbers /\ d \o e \in Numbers
<1>1. Grouped(c, d, e)
  BY NumbersGrouped
<1>2. c \o d \in Numbers /\ d \o e \in Numbers
  BY ConcatProperties DEF Numbers
<1> QED
  BY <1>1, <1>2 DEF Grouped

\* What is joined, and how long it is.
LEMMA JoinIs ==
  ASSUME NEW S, NEW a \in Seq(S), NEW b \in Seq(S)
  PROVE  a \o b \in Seq(S) /\ Len(a \o b) = Len(a) + Len(b) /\ Len(a) \in Nat /\ Len(b) \in Nat
  BY ConcatProperties, LenProperties

\* Four sequences joined one after another.
LEMMA FourParts ==
  ASSUME NEW S, NEW a \in Seq(S), NEW b \in Seq(S), NEW c \in Seq(S), NEW d \in Seq(S)
  PROVE  /\ ((a \o b) \o c) \o d = a \o (b \o (c \o d))
         /\ (a \o b) \o c \in Seq(S) /\ c \o d \in Seq(S) /\ b \o (c \o d) \in Seq(S)
         /\ a \o (b \o (c \o d)) \in Seq(S)
<1>1. /\ a \o b \in Seq(S) /\ c \o d \in Seq(S) /\ (a \o b) \o c \in Seq(S)
      /\ b \o (c \o d) \in Seq(S) /\ a \o (b \o (c \o d)) \in Seq(S)
  BY ConcatProperties
<1>2. \A x, y, z \in Seq(S) : Grouped(x, y, z)
  BY AllGrouped
<1> DEFINE u == a \o b
           v == c \o d
<1>3. u \in Seq(S) /\ v \in Seq(S)
  BY <1>1
<1> HIDE DEF u, v
<1>4. Grouped(u, c, d) /\ Grouped(a, b, v)
  BY <1>2, <1>3
<1>5. ((a \o b) \o c) \o d = a \o (b \o (c \o d))
  BY <1>4, Zenon DEF Grouped, u, v
<1> QED
  BY <1>1, <1>5

\* A number is read from the four parts that Little writes, the last of them of any size.
LEMMA LittleIs ==
  ASSUME NEW n \in Nat
  PROVE  Little(n) \in Numbers /\ Len(Little(n)) = 4 /\ Number(Little(n)) = n
<1> DEFINE q == n \div 256
           r == n \div 65536
           t == n \div 16777216
<1>1. /\ q \in Nat /\ r \in Nat /\ t \in Nat
      /\ 256 * q <= n /\ n < 256 * q + 256
      /\ 65536 * r <= n /\ n < 65536 * r + 65536
      /\ 16777216 * t <= n /\ n < 16777216 * t + 16777216
  <2>1. q \in Nat /\ 256 * q <= n /\ n < 256 * q + 256
    BY SMT
  <2>2. r \in Nat /\ 65536 * r <= n /\ n < 65536 * r + 65536
    BY SMT
  <2>3. t \in Nat /\ 16777216 * t <= n /\ n < 16777216 * t + 16777216
    BY SMT
  <2> HIDE DEF q, r, t
  <2> QED
    BY <2>1, <2>2, <2>3, SMT
<1>2. n % 256 = n - 256 * q
  BY SMT
<1> HIDE DEF q, r, t
<1>4. 256 * r <= q /\ q < 256 * r + 256 /\ 256 * t <= r /\ r < 256 * t + 256
  BY <1>1, SMT
<1>5. q % 256 = q - 256 * r /\ r % 256 = r - 256 * t
  BY <1>1, <1>4, SMT
<1>6. n % 256 \in Int /\ q % 256 \in Int /\ r % 256 \in Int /\ t \in Int
  BY <1>1, <1>2, <1>5, SMT
<1>7. n = (n % 256) + 256 * (q % 256) + 65536 * (r % 256) + 16777216 * t
  BY <1>1, <1>2, <1>5, SMT
<1>8. Little(n) = <<n % 256, q % 256, r % 256, t>>
  BY SMT DEF Little, q, r, t
<1>9. Little(n) \in Numbers /\ Len(Little(n)) = 4
  BY <1>6, <1>8, SMT DEF Numbers
<1> QED
  BY <1>7, <1>8, <1>9, SMT DEF Number

\* What is left of some data, number by number.
LEMMA LeftIs ==
  ASSUME NEW data \in Seq(Int), NEW at \in Nat, at <= Len(data)
  PROVE  \A i \in 1..(Len(data) - at) : SubSeq(data, at + 1, Len(data))[i] = data[at + i]
  OBVIOUS

\* A packet, whose bytes may be encrypted, is read from the front.
Parcels == [data : Numbers, at : Nat, typed : BOOLEAN]

\* A read takes what is in front, and leaves the rest.
LEMMA FrontRead ==
  ASSUME NEW b \in Parcels, b.at <= Len(b.data), NEW c \in Numbers, NEW rest \in Numbers,
         Remaining(b) = c \o rest
  PROVE  /\ Read(b, Len(c)).ok /\ Read(b, Len(c)).value = c
         /\ Read(b, Len(c)).buffer \in Parcels /\ Read(b, Len(c)).buffer.data = b.data
         /\ Read(b, Len(c)).buffer.at <= Len(b.data)
         /\ Remaining(Read(b, Len(c)).buffer) = rest
         /\ b.at + Len(c) + Len(rest) = Len(b.data)
         /\ Read(b, Len(c)).buffer.typed = b.typed
<1> DEFINE data == b.data
           at == b.at
           n == Len(c)
<1>1. data \in Seq(Int) /\ at \in Nat /\ Len(data) \in Nat /\ c \in Seq(Int) /\ rest \in Seq(Int)
  BY DEF Parcels, Numbers
<1>2. SubSeq(data, at + 1, Len(data)) = c \o rest /\ at <= Len(data)
  BY DEF Remaining
<1>3. b = [data |-> data, at |-> at, typed |-> b.typed] /\ b.typed \in BOOLEAN
  BY DEF Parcels
<1> HIDE DEF data, at
<1>4. n \in Nat /\ Len(rest) \in Nat /\ at + n + Len(rest) = Len(data)
  BY <1>1, <1>2
<1>5. \A i \in 1..(n + Len(rest)) : data[at + i] = (c \o rest)[i]
  <2>1. \A i \in 1..(Len(data) - at) : SubSeq(data, at + 1, Len(data))[i] = data[at + i]
    BY <1>1, <1>2, LeftIs
  <2>2. Len(data) - at = n + Len(rest)
    BY <1>1, <1>4
  <2> QED
    BY <1>2, <2>1, <2>2
<1>6. /\ \A i \in 1..n : data[at + i] = c[i]
      /\ \A i \in 1..Len(rest) : data[(at + n) + i] = rest[i]
  <2>1. ASSUME NEW i \in 1..n PROVE data[at + i] = c[i]
    <3>1. i \in 1..(n + Len(rest)) /\ (c \o rest)[i] = c[i]
      BY <1>1, <1>4
    <3> QED
      BY <1>5, <3>1
  <2>2. ASSUME NEW i \in 1..Len(rest) PROVE data[(at + n) + i] = rest[i]
    <3>1. Len(c) + i \in 1..(Len(c) + Len(rest)) /\ (c \o rest)[Len(c) + i] = rest[i]
      BY <1>1
    <3>2. at + (n + i) = (at + n) + i
      BY <1>1, <1>4
    <3> QED
      BY <1>5, <3>1, <3>2
  <2> QED
    BY <2>1, <2>2
<1>7. SubSeq(data, at + 1, at + n) = c
  BY <1>1, <1>4, <1>6, SubSeqIs
<1>8. SubSeq(data, (at + n) + 1, Len(data)) = rest
  <2> DEFINE m == at + n
  <2>1. m \in Nat /\ m + Len(rest) = Len(data) /\ \A i \in 1..Len(rest) : data[m + i] = rest[i]
    BY <1>1, <1>4, <1>6
  <2> HIDE DEF m
  <2>2. SubSeq(data, m + 1, m + Len(rest)) = rest
    BY <1>1, <2>1, SubSeqIs
  <2> QED
    BY <2>1, <2>2 DEF m
<1> HIDE DEF n
<1>9. Read(b, n) = Advance(b, n, c)
  <2>1. ~(n + b.at > Len(b.data))
    BY <1>1, <1>4 DEF data, at
  <2>2. SubSeq(b.data, b.at + 1, b.at + n) = c
    BY <1>7 DEF data, at
  <2> QED
    BY <2>1, <2>2 DEF Read
<1>10. Advance(b, n, c).buffer = [data |-> data, at |-> at + n, typed |-> b.typed]
  BY <1>3 DEF Advance, data, at
<1>11. /\ Advance(b, n, c).ok /\ Advance(b, n, c).value = c
  BY DEF Advance
<1>12. [data |-> data, at |-> at + n, typed |-> b.typed] \in Parcels
  BY <1>1, <1>3, <1>4 DEF Parcels, Numbers
<1> DEFINE d == [data |-> data, at |-> at + n, typed |-> b.typed]
<1>13. Remaining(d) = rest /\ d.data = data /\ d.at <= Len(data) /\ d.typed = b.typed
  BY <1>1, <1>4, <1>8 DEF Remaining
<1> QED
  BY <1>4, <1>9, <1>10, <1>11, <1>12, <1>13 DEF n, data, at

\* The same in short: c is in front, and a read takes it.
InFront(b, c, rest) ==
  /\ b \in Parcels /\ b.at <= Len(b.data)
  /\ c \in Numbers /\ rest \in Numbers /\ Remaining(b) = c \o rest
Takes(b, r, c, rest) ==
  /\ r.ok /\ r.value = c /\ r.buffer \in Parcels /\ r.buffer.data = b.data
  /\ r.buffer.at <= Len(r.buffer.data) /\ Remaining(r.buffer) = rest
  /\ r.buffer.typed = b.typed /\ b.at + Len(c) + Len(rest) = Len(b.data)

\* The same in short.
LEMMA FrontTaken ==
  ASSUME NEW b, NEW c, NEW rest, InFront(b, c, rest), NEW n, n = Len(c)
  PROVE  Takes(b, Read(b, n), c, rest)
<1>1. /\ b \in Parcels /\ b.at <= Len(b.data)
      /\ c \in Numbers /\ rest \in Numbers /\ Remaining(b) = c \o rest
  BY DEF InFront
<1>2. /\ Read(b, Len(c)).ok /\ Read(b, Len(c)).value = c
      /\ Read(b, Len(c)).buffer \in Parcels /\ Read(b, Len(c)).buffer.data = b.data
      /\ Read(b, Len(c)).buffer.at <= Len(b.data)
      /\ Remaining(Read(b, Len(c)).buffer) = rest
      /\ b.at + Len(c) + Len(rest) = Len(b.data)
      /\ Read(b, Len(c)).buffer.typed = b.typed
  BY <1>1, FrontRead
<1> QED
  BY <1>2 DEF Takes

\* A read of the four numbers of a size.
LEMMA SizeRead ==
  ASSUME NEW b \in Parcels, b.at <= Len(b.data), NEW l \in Numbers, NEW r \in Numbers,
         Len(l) = 4, Remaining(b) = l \o r
  PROVE  /\ Read(b, 4).value = l
         /\ Read(b, 4).buffer \in Parcels /\ Read(b, 4).buffer.data = b.data
         /\ Read(b, 4).buffer.at <= Len(b.data)
         /\ Remaining(Read(b, 4).buffer) = r
<1>1. InFront(b, l, r)
  BY DEF InFront
<1>2. Takes(b, Read(b, 4), l, r)
  BY <1>1, FrontTaken
<1> QED
  BY <1>2 DEF Takes

\* The next message of a packet: its size, and itself.
Begins(b, m, rest) ==
  /\ b \in Parcels /\ b.at <= Len(b.data) /\ m \in Numbers /\ rest \in Numbers
  /\ Remaining(b) = Framed(m) \o rest
Yields(b, m, rest) ==
  LET size == Read(b, 4)
      message == Read(size.buffer, Len(m))
  IN  /\ Number(size.value) = Len(m) /\ Len(m) <= Len(b.data)
      /\ message.value = m /\ message.buffer \in Parcels
      /\ message.buffer.at <= Len(message.buffer.data)
      /\ Remaining(message.buffer) = rest

LEMMA FrameRead ==
  ASSUME NEW b, NEW m, NEW rest, Begins(b, m, rest)
  PROVE  Yields(b, m, rest)
<1>a. /\ b \in Parcels /\ b.at <= Len(b.data) /\ m \in Numbers /\ rest \in Numbers
      /\ Remaining(b) = Framed(m) \o rest
  BY DEF Begins
<1>b. PICK size : size = Read(b, 4)
  OBVIOUS
<1>c. PICK message : message = Read(size.buffer, Len(m))
  OBVIOUS
<1> USE <1>a, <1>b, <1>c
<1> DEFINE l == Little(Len(m))
<1>1. l \in Numbers /\ Len(l) = 4 /\ Number(l) = Len(m) /\ Len(m) \in Nat
  BY LittleIs DEF Numbers
<1>2. Remaining(b) = l \o (m \o rest) /\ m \o rest \in Numbers
  <2> HIDE DEF l
  <2>1. l \in Numbers /\ m \in Numbers /\ rest \in Numbers
    BY <1>1
  <2>2. Grouped(l, m, rest)
    BY <2>1, NumbersGrouped
  <2>3. m \o rest \in Numbers
    BY <2>1, ConcatProperties DEF Numbers
  <2> QED
    BY <2>2, <2>3 DEF Framed, Grouped, l
<1> DEFINE r == m \o rest
<1> HIDE DEF l, r
<1>3. /\ size.value = l /\ size.buffer \in Parcels /\ size.buffer.data = b.data
      /\ size.buffer.at <= Len(b.data) /\ Remaining(size.buffer) = m \o rest
  <2>1. l \in Numbers /\ r \in Numbers /\ Len(l) = 4 /\ Remaining(b) = l \o r
    BY <1>1, <1>2 DEF r
  <2>2. /\ Read(b, 4).value = l
        /\ Read(b, 4).buffer \in Parcels /\ Read(b, 4).buffer.data = b.data
        /\ Read(b, 4).buffer.at <= Len(b.data)
        /\ Remaining(Read(b, 4).buffer) = r
    BY <2>1, SizeRead
  <2> QED
    BY <2>2 DEF r
<1> DEFINE s == size.buffer
<1> HIDE DEF s
<1>4. s \in Parcels /\ s.at <= Len(s.data) /\ Remaining(s) = m \o rest /\ s.data = b.data
  BY <1>3 DEF s
<1>5. Takes(s, Read(s, Len(m)), m, rest)
  <2>1. InFront(s, m, rest)
    BY <1>4 DEF InFront
  <2> QED
    BY <2>1, FrontTaken
<1>6. Len(m) <= Len(b.data)
  <2>1. /\ s.at \in Nat /\ Len(rest) \in Nat /\ Len(m) \in Nat
        /\ s.at + Len(m) + Len(rest) = Len(s.data)
    BY <1>4, <1>5, LenProperties DEF Parcels, Numbers, Takes
  <2> QED
    BY <1>4, <2>1
<1>7. /\ message.value = m /\ message.buffer \in Parcels
      /\ message.buffer.at <= Len(message.buffer.data)
      /\ Remaining(message.buffer) = rest
  BY <1>5 DEF Takes, s
<1>8. Number(size.value) = Len(m)
  BY <1>1, <1>3
<1> QED
  BY <1>6, <1>7, <1>8 DEF Yields

\* Padding is less than a block of zeros, and makes whole blocks.
LEMMA PaddedIs ==
  ASSUME NEW bytes \in ByteString
  PROVE  /\ Padded(bytes) \in ByteString
         /\ \E n \in 0..7 : /\ Padded(bytes) = bytes \o Zeros(n)
                          /\ Zeros(n) \in ByteString /\ Len(Zeros(n)) = n
                          /\ \A i \in 1..n : Zeros(n)[i] = 0
         /\ \E j \in Nat : Len(Padded(bytes)) = 8 * j
<1> DEFINE l == Len(bytes)
           n == (8 - (l % 8)) % 8
<1>1. l \in Nat
  BY DEF ByteString
<1>2. n \in 0..7 /\ (l + n) % 8 = 0
  <2> HIDE DEF l
  <2> QED
    BY <1>1, SMT
<1>3. Padded(bytes) = bytes \o Zeros(n)
  BY DEF Padded, BLOCK
<1> HIDE DEF n
<1>4. Zeros(n) \in ByteString /\ Len(Zeros(n)) = n /\ \A i \in 1..n : Zeros(n)[i] = 0
  BY <1>2 DEF Zeros, ByteString, Byte
<1>5. Padded(bytes) \in ByteString /\ Len(Padded(bytes)) = l + n
  BY <1>3, <1>4, ConcatProperties DEF ByteString
<1> HIDE DEF l
<1>6. \E j \in Nat : l + n = 8 * j
  <2> DEFINE j == (l + n) \div 8
  <2>1. l + n \in Nat
    BY <1>1, <1>2
  <2>2. j \in Nat /\ l + n = 8 * j
    BY <1>2, <2>1, SMT
  <2> QED
    BY <2>2
<1> QED
  BY <1>2, <1>3, <1>4, <1>5, <1>6

\* Only the same key undoes the cipher.
LEMMA CipherIs ==
  ASSUME NEW k \in Nat, NEW bytes \in ByteString
  PROVE  /\ Encrypt(k, bytes) \in Numbers /\ Len(Encrypt(k, bytes)) = Len(bytes)
         /\ Decrypt(k, Encrypt(k, bytes)) = bytes
<1>1. /\ Len(bytes) \in Nat /\ DOMAIN bytes = 1..Len(bytes)
      /\ \A i \in 1..Len(bytes) : bytes[i] \in Int
      /\ bytes = [i \in 1..Len(bytes) |-> bytes[i]]
  <2>1. bytes \in Seq(Int)
    BY BytesAreNumbers DEF Numbers
  <2> QED
    BY <2>1
<1> DEFINE e == Encrypt(k, bytes)
<1>2. e = [i \in 1..Len(bytes) |-> bytes[i] + 256 * k]
  BY <1>1 DEF Encrypt
<1>3. e \in Seq(Int) /\ Len(e) = Len(bytes) /\ DOMAIN e = 1..Len(bytes)
  BY <1>1, <1>2
<1> HIDE DEF e
<1>4. \A i \in 1..Len(bytes) : e[i] - 256 * k = bytes[i]
  BY <1>1, <1>2
<1>5. Decrypt(k, e) = [i \in 1..Len(bytes) |-> e[i] - 256 * k]
  BY <1>3 DEF Decrypt
<1>6. Decrypt(k, e) = [i \in 1..Len(bytes) |-> bytes[i]]
  BY <1>4, <1>5
<1> QED
  BY <1>1, <1>3, <1>6 DEF e, Numbers

\* Without types a scalar is only its bytes.
LEMMA PlainRead ==
  ASSUME NEW b \in Parcels, b.typed = FALSE, NEW kind \in Scalars
  PROVE  ReadScalar(b, kind) = Read(b, Width[kind])
<1>1. b.at \in Nat /\ b.at + 0 = b.at
  BY DEF Parcels
<1>2. [b EXCEPT !.at = @ + 0] = b
  BY <1>1 DEF Parcels
<1>3. Advance(b, 0, <<>>).ok /\ Advance(b, 0, <<>>).buffer = b
  BY <1>2 DEF Advance
<1>4. ReadDataType(b, Tag[kind]) = Advance(b, 0, <<>>)
  BY DEF ReadDataType
<1> QED
  BY <1>3, <1>4 DEF ReadScalar, Then

\* A buffer of its own has all its bytes ahead.
LEMMA FreshPlain ==
  ASSUME NEW bytes \in Numbers
  PROVE  /\ Untyped(Fresh(bytes)) = Buf(bytes, 0, FALSE) /\ Untyped(Fresh(bytes)) \in Parcels
         /\ Fresh(bytes) = Buf(bytes, 0, TRUE) /\ Fresh(bytes) \in Parcels
         /\ Remaining(Fresh(bytes)) = bytes /\ Remaining(Untyped(Fresh(bytes))) = bytes
<1>1. /\ Untyped(Fresh(bytes)) = Buf(bytes, 0, FALSE) /\ Fresh(bytes) = Buf(bytes, 0, TRUE)
  <2>1. Fresh(bytes) = Buf(bytes, 0, TRUE)
    BY DEF Fresh, Buf
  <2>2. ASSUME NEW t PROVE [Buf(bytes, 0, TRUE) EXCEPT !.typed = t] = Buf(bytes, 0, t)
    BY DEF Buf
  <2> QED
    BY <2>1, <2>2 DEF Untyped
<1>2. Buf(bytes, 0, FALSE) \in Parcels /\ Buf(bytes, 0, TRUE) \in Parcels
  BY DEF Buf, Parcels
<1>3. Remaining(Buf(bytes, 0, FALSE)) = bytes /\ Remaining(Buf(bytes, 0, TRUE)) = bytes
  BY DEF Remaining, Buf, Numbers
<1> QED
  BY <1>1, <1>2, <1>3

\* What stands behind the framing of a message: its type, and the rest.
Letter(k, type, data) == <<1>> \o SEED \o Encrypt(k, Padded(CHECKSUM \o <<type>> \o data))

\* What stands in front of a message.
LEMMA HeadsAre ==
  ASSUME NEW type \in Byte
  PROVE  /\ <<1>> \in ByteString /\ SEED \in ByteString /\ CHECKSUM \in ByteString
         /\ <<type>> \in ByteString
         /\ Len(<<1>>) = 1 /\ Len(SEED) = 4 /\ Len(CHECKSUM) = 4 /\ Len(<<type>>) = 1
         /\ <<1>> \in Numbers /\ SEED \in Numbers /\ CHECKSUM \in Numbers /\ <<type>> \in Numbers
  BY DEF SEED, CHECKSUM, ByteString, Byte, Numbers

\* A message whose first byte says that it is encrypted.
LEMMA LetterParts ==
  ASSUME NEW k \in Nat, NEW type \in Byte, NEW data \in ByteString
  PROVE  \E n \in 0..7, p \in ByteString :
           /\ p = CHECKSUM \o (<<type>> \o (data \o Zeros(n)))
           /\ Zeros(n) \in ByteString /\ Len(Zeros(n)) = n /\ \A i \in 1..n : Zeros(n)[i] = 0
           /\ data \o Zeros(n) \in ByteString /\ <<type>> \o (data \o Zeros(n)) \in ByteString
           /\ Padded(CHECKSUM \o <<type>> \o data) = p
           /\ Letter(k, type, data) = <<1>> \o (SEED \o Encrypt(k, p))
           /\ Encrypt(k, p) \in Numbers /\ Len(Encrypt(k, p)) = Len(p)
           /\ Decrypt(k, Encrypt(k, p)) = p
           /\ \E j \in Nat : Len(p) = 8 * j
<1> DEFINE plain == CHECKSUM \o <<type>> \o data
<1>1. /\ CHECKSUM \in ByteString /\ <<type>> \in ByteString
      /\ CHECKSUM \o <<type>> \in ByteString /\ plain \in ByteString
  BY HeadsAre, Associative
<1> DEFINE p == Padded(plain)
<1>2. /\ p \in ByteString
      /\ \E n \in 0..7 : /\ p = plain \o Zeros(n)
                       /\ Zeros(n) \in ByteString /\ Len(Zeros(n)) = n
                       /\ \A i \in 1..n : Zeros(n)[i] = 0
      /\ \E j \in Nat : Len(p) = 8 * j
  <2> HIDE DEF plain
  <2> QED
    BY <1>1, PaddedIs
<1>3. PICK n \in 0..7 : /\ p = plain \o Zeros(n)
                       /\ Zeros(n) \in ByteString /\ Len(Zeros(n)) = n
                       /\ \A i \in 1..n : Zeros(n)[i] = 0
  BY <1>2
<1> DEFINE z == Zeros(n)
           c == CHECKSUM
           t == <<type>>
<1> HIDE DEF z, c, t
<1>4. /\ ((c \o t) \o data) \o z = c \o (t \o (data \o z))
      /\ data \o z \in ByteString /\ t \o (data \o z) \in ByteString
  <2>1. c \in Seq(Byte) /\ t \in Seq(Byte) /\ z \in Seq(Byte) /\ data \in Seq(Byte)
    BY <1>1, <1>3 DEF c, t, z, ByteString
  <2>2. /\ ((c \o t) \o data) \o z = c \o (t \o (data \o z))
        /\ (c \o t) \o data \in Seq(Byte) /\ data \o z \in Seq(Byte) /\ t \o (data \o z) \in Seq(Byte)
        /\ c \o (t \o (data \o z)) \in Seq(Byte)
    BY <2>1, FourParts
  <2> QED
    BY <2>2 DEF ByteString
<1>5. p = c \o (t \o (data \o z))
  <2>1. plain = (c \o t) \o data
    BY DEF c, t
  <2> HIDE DEF plain, p
  <2>2. p = plain \o z
    BY <1>3 DEF z
  <2> QED
    BY <1>4, <2>1, <2>2
<1> HIDE DEF p
<1>6. /\ Encrypt(k, p) \in Numbers /\ Len(Encrypt(k, p)) = Len(p)
      /\ Decrypt(k, Encrypt(k, p)) = p
  BY <1>2, CipherIs
<1>7. Letter(k, type, data) = <<1>> \o (SEED \o Encrypt(k, p))
  <2> DEFINE e == Encrypt(k, p)
             a == <<1>>
             s == SEED
  <2>1. a \in Numbers /\ s \in Numbers /\ e \in Numbers
    BY <1>6, HeadsAre
  <2> HIDE DEF e, a, s
  <2>2. Grouped(a, s, e)
    BY <2>1, NumbersGrouped
  <2>3. Letter(k, type, data) = (a \o s) \o e
    BY DEF Letter, a, s, e, p, plain
  <2> QED
    BY <2>2, <2>3 DEF Grouped, a, s, e
<1>8. Padded(plain) = p
  BY DEF p
<1> HIDE DEF plain
<1>9. /\ p = CHECKSUM \o (<<type>> \o (data \o Zeros(n)))
      /\ data \o Zeros(n) \in ByteString /\ <<type>> \o (data \o Zeros(n)) \in ByteString
  BY <1>4, <1>5 DEF z, c, t
<1> QED
  BY <1>2, <1>3, <1>6, <1>7, <1>8, <1>9 DEF plain

\* The server finds in it the type, and behind that what was written.
LEMMA LetterOpened ==
  ASSUME NEW k \in Nat, NEW type \in Byte, NEW data \in ByteString
  PROVE  /\ Letter(k, type, data) \in Numbers
         /\ \E j \in Nat : Len(Letter(k, type, data)) = 8 * j + 5
         /\ Opened(k, Letter(k, type, data)).value = <<type>>
         /\ \E z \in ByteString : Remaining(Opened(k, Letter(k, type, data)).buffer) = data \o z
<1> DEFINE m == Letter(k, type, data)
<1>1. PICK n \in 0..7, p \in ByteString :
           /\ p = CHECKSUM \o (<<type>> \o (data \o Zeros(n)))
           /\ Zeros(n) \in ByteString /\ Len(Zeros(n)) = n /\ \A i \in 1..n : Zeros(n)[i] = 0
           /\ data \o Zeros(n) \in ByteString /\ <<type>> \o (data \o Zeros(n)) \in ByteString
           /\ Padded(CHECKSUM \o <<type>> \o data) = p
           /\ m = <<1>> \o (SEED \o Encrypt(k, p))
           /\ Encrypt(k, p) \in Numbers /\ Len(Encrypt(k, p)) = Len(p)
           /\ Decrypt(k, Encrypt(k, p)) = p
           /\ \E j \in Nat : Len(p) = 8 * j
  BY LetterParts
<1> DEFINE e == Encrypt(k, p)
           rest == data \o Zeros(n)
           behind == <<type>> \o rest
<1> HIDE DEF m, e, rest, behind
<1>2. /\ p = CHECKSUM \o behind /\ behind = <<type>> \o rest /\ m = <<1>> \o (SEED \o e)
      /\ e \in Numbers /\ Len(e) = Len(p) /\ Decrypt(k, e) = p
      /\ rest \in Numbers /\ behind \in Numbers /\ p \in Numbers
  BY <1>1, BytesAreNumbers DEF e, rest, behind
<1>3. /\ <<1>> \in Numbers /\ SEED \in Numbers /\ CHECKSUM \in Numbers /\ <<type>> \in Numbers
      /\ Len(<<1>>) = 1 /\ Len(SEED) = 4 /\ Len(CHECKSUM) = 4 /\ Len(<<type>>) = 1
  BY HeadsAre
<1>4. /\ SEED \o e \in Numbers /\ m \in Numbers /\ Len(m) = 5 + Len(p)
  <2> DEFINE a == <<1>>
             t == SEED \o e
  <2>1. a \in Seq(Int) /\ SEED \in Seq(Int) /\ e \in Seq(Int) /\ Len(a) = 1 /\ Len(SEED) = 4
    BY <1>2, <1>3 DEF Numbers
  <2>2. t \in Seq(Int) /\ Len(t) = Len(SEED) + Len(e) /\ Len(SEED) \in Nat /\ Len(e) \in Nat
    BY <2>1, JoinIs
  <2> HIDE DEF a, t
  <2>3. a \o t \in Seq(Int) /\ Len(a \o t) = Len(a) + Len(t) /\ Len(a) \in Nat /\ Len(t) \in Nat
    BY <2>1, <2>2, JoinIs
  <2>4. m = a \o t /\ Len(e) = Len(p)
    BY <1>2 DEF a, t
  <2>5. SEED \o e \in Numbers /\ m \in Numbers
    BY <2>2, <2>3, <2>4 DEF t, Numbers
  <2>6. Len(m) = 1 + (4 + Len(e))
    BY <2>1, <2>2, <2>3, <2>4
  <2> QED
    BY <2>2, <2>4, <2>5, <2>6
<1>5. \E j \in Nat : Len(m) = 8 * j + 5
  BY <1>1, <1>4
<1>6. /\ {"bool", "int32", "byte"} \subseteq Scalars
      /\ Width["bool"] = 1 /\ Width["int32"] = 4 /\ Width["byte"] = 1
  BY KindsAre DEF Width
<1> DEFINE b == Untyped(Fresh(m))
           enc == ReadScalar(b, "bool")
           iv == ReadScalar(enc.buffer, "int32")
           d == Untyped(Fresh(Decrypt(k, Remaining(iv.buffer))))
           checked == ReadScalar(d, "int32")
           last == ReadScalar(checked.buffer, "byte")
<1>7. b.typed = FALSE /\ InFront(b, <<1>>, SEED \o e)
  <2>1. b = Buf(m, 0, FALSE) /\ b \in Parcels /\ Remaining(b) = m
    BY <1>4, FreshPlain
  <2>2. b.typed = FALSE /\ b.at <= Len(b.data)
    BY <1>4, <2>1 DEF Buf, Numbers
  <2> HIDE DEF b
  <2> QED
    BY <1>2, <1>3, <1>4, <2>1, <2>2 DEF InFront
<1> HIDE DEF b
<1>8. Takes(b, enc, <<1>>, SEED \o e)
  <2>1. enc = Read(b, 1)
    BY <1>6, <1>7, PlainRead DEF InFront
  <2>2. Takes(b, Read(b, 1), <<1>>, SEED \o e)
    BY <1>3, <1>7, FrontTaken
  <2> HIDE DEF enc
  <2> QED
    BY <2>1, <2>2
<1> DEFINE f == enc.buffer
<1> HIDE DEF enc
<1>9. f.typed = FALSE /\ InFront(f, SEED, e)
  BY <1>2, <1>3, <1>7, <1>8 DEF Takes, InFront
<1> HIDE DEF f
<1>10. Takes(f, iv, SEED, e)
  <2>1. ReadScalar(f, "int32") = Read(f, 4)
    BY <1>6, <1>9, PlainRead DEF InFront
  <2>2. Takes(f, Read(f, 4), SEED, e)
    BY <1>3, <1>9, FrontTaken
  <2> QED
    BY <2>1, <2>2 DEF f
<1>11. d.typed = FALSE /\ InFront(d, CHECKSUM, behind)
  <2>1. d = Untyped(Fresh(p))
    BY <1>2, <1>10 DEF Takes
  <2>2. Untyped(Fresh(p)) = Buf(p, 0, FALSE) /\ Untyped(Fresh(p)) \in Parcels
        /\ Remaining(Untyped(Fresh(p))) = p
    BY <1>2, FreshPlain
  <2> HIDE DEF d
  <2>3. d.at = 0 /\ d.data = p /\ d.typed = FALSE
    BY <2>1, <2>2 DEF Buf
  <2>4. d.at <= Len(d.data)
    BY <1>2, <2>3 DEF Numbers
  <2> QED
    BY <1>2, <1>3, <2>1, <2>2, <2>3, <2>4 DEF InFront
<1> HIDE DEF d, iv
<1>12. Takes(d, checked, CHECKSUM, behind)
  <2>1. checked = Read(d, 4)
    BY <1>6, <1>11, PlainRead DEF InFront
  <2>2. Takes(d, Read(d, 4), CHECKSUM, behind)
    BY <1>3, <1>11, FrontTaken
  <2> HIDE DEF checked
  <2> QED
    BY <2>1, <2>2
<1> DEFINE g == checked.buffer
<1> HIDE DEF checked
<1>13. g.typed = FALSE /\ InFront(g, <<type>>, rest)
  BY <1>2, <1>3, <1>11, <1>12 DEF Takes, InFront
<1> HIDE DEF g
<1>14. last.value = <<type>> /\ Remaining(last.buffer) = rest
  <2>1. ReadScalar(g, "byte") = Read(g, 1)
    BY <1>6, <1>13, PlainRead DEF InFront
  <2>2. Takes(g, Read(g, 1), <<type>>, rest)
    BY <1>3, <1>13, FrontTaken
  <2> QED
    BY <2>1, <2>2 DEF g, Takes
<1>15. Opened(k, m) = last
  <2>1. enc.value = <<1>>
    BY <1>8 DEF Takes
  <2> QED
    BY <2>1 DEF Opened, enc, b, iv, d, checked
<1> HIDE DEF last
<1>16. Remaining(Opened(k, m).buffer) = data \o Zeros(n) /\ Opened(k, m).value = <<type>>
  BY <1>14, <1>15 DEF rest
<1> QED
  BY <1>1, <1>4, <1>5, <1>16 DEF m

\* The hello is not encrypted, and says which key is used from now on.
LEMMA HelloOpened ==
  ASSUME NEW k \in Nat, NEW t \in Nat
  PROVE  /\ <<0, HELLO, t>> \in Numbers /\ Len(<<0, HELLO, t>>) = 3
         /\ Opened(k, <<0, HELLO, t>>).value = <<HELLO>>
         /\ Remaining(Opened(k, <<0, HELLO, t>>).buffer) = <<t>>
<1> DEFINE m == <<0, HELLO, t>>
           b == Untyped(Fresh(m))
           enc == ReadScalar(b, "bool")
           last == ReadScalar(enc.buffer, "byte")
           zero == <<0>>
           hello == <<HELLO>>
           tail == <<t>>
           rest == <<HELLO, t>>
<1>1. /\ m \in Numbers /\ Len(m) = 3 /\ m = zero \o rest /\ rest = hello \o tail
      /\ zero \in Numbers /\ Len(zero) = 1 /\ hello \in Numbers /\ Len(hello) = 1
      /\ tail \in Numbers /\ rest \in Numbers
  BY DEF HELLO, Numbers
<1>2. {"bool", "int32", "byte"} \subseteq Scalars /\ Width["bool"] = 1 /\ Width["byte"] = 1
  BY KindsAre DEF Width
<1>3. zero # <<1>>
  OBVIOUS
<1> HIDE DEF m, zero, hello, tail, rest
<1>4. b = Buf(m, 0, FALSE) /\ b \in Parcels /\ Remaining(b) = m
  BY <1>1, FreshPlain
<1>5. b.typed = FALSE /\ b.at <= Len(b.data)
  BY <1>1, <1>4 DEF Buf, Numbers
<1> HIDE DEF b
<1>6. InFront(b, zero, rest)
  BY <1>1, <1>4, <1>5 DEF InFront
<1>7. Takes(b, enc, zero, rest)
  <2>1. enc = Read(b, 1)
    BY <1>2, <1>4, <1>5, PlainRead
  <2>2. Takes(b, Read(b, 1), zero, rest)
    BY <1>1, <1>6, FrontTaken
  <2> HIDE DEF enc
  <2> QED
    BY <2>1, <2>2
<1> DEFINE f == enc.buffer
<1> HIDE DEF enc
<1>8. f.typed = FALSE /\ InFront(f, hello, tail)
  BY <1>1, <1>5, <1>7 DEF Takes, InFront
<1> HIDE DEF f
<1>9. Takes(f, last, hello, tail)
  <2>1. ReadScalar(f, "byte") = Read(f, 1)
    BY <1>2, <1>8, PlainRead DEF InFront
  <2>2. Takes(f, Read(f, 1), hello, tail)
    BY <1>1, <1>8, FrontTaken
  <2> QED
    BY <2>1, <2>2 DEF f
<1>10. Opened(k, m) = last
  <2>1. enc.value # <<1>>
    BY <1>3, <1>7 DEF Takes
  <2> QED
    BY <2>1 DEF Opened, enc, b
<1> HIDE DEF last
<1>11. Opened(k, m).value = hello /\ Remaining(Opened(k, m).buffer) = tail
  BY <1>9, <1>10 DEF Takes
<1> QED
  BY <1>1, <1>11 DEF m, hello, tail

-----------------------------------------------------------------------------
(* The requests.                                                           *)

Ops == DOMAIN Callbacks \cup DOMAIN Unknown
\* The callbacks, and the requests without one.
LEMMA OpsAre ==
  /\ DOMAIN Callbacks =
       {"set_legacy_user_file", "get_legacy_user_file", "list_legacy_user_files",
        "list_publisher_files", "get_publisher_file", "set_user_file", "delete_user_file",
        "get_user_file", "get_server_time", "get_user_raw_data"}
  /\ DOMAIN Unknown = {"no_service", "no_callback"}
BY DEF Callbacks, Unknown

Entry(op, type, sub, args, class) ==
  Form(op).type = type /\ Form(op).sub = sub /\ Form(op).args = args /\ Form(op).class = class
LEMMA FormsAre ==
  /\ Entry("set_legacy_user_file", 10, 1, <<"string", "bool", "blob">>, bdFileInfo)
  /\ Entry("get_legacy_user_file", 10, 3, <<"string">>, bdFileData)
  /\ Entry("list_legacy_user_files", 10, 5,
           <<"uint64", "uint32", "uint16", "uint16", "string">>, bdFileInfo)
  /\ Entry("list_publisher_files", 10, 6, <<"uint32", "uint16", "uint16", "string">>, bdFileInfo)
  /\ Entry("get_publisher_file", 10, 7, <<"string">>, bdFileData)
  /\ Entry("set_user_file", 10, 10, <<"string", "string", "bool", "blob", "uint64">>, bdFileInfo)
  /\ Entry("delete_user_file", 10, 11, <<"string", "string", "uint64">>, bdFileInfo)
  /\ Entry("get_user_file", 10, 12, <<"string", "string", "uint64", "string">>, bdFileData)
  /\ Entry("get_server_time", 12, 6, <<>>, bdTimeStamp)
  /\ Entry("get_user_raw_data", 27, 2, <<>>, bdDMLRawData)
  /\ Entry("no_service", 99, 1, <<>>, <<>>)
  /\ Entry("no_callback", 10, 4, <<>>, <<>>)
<1>1. /\ Form("set_legacy_user_file") = Callbacks.set_legacy_user_file
      /\ Form("get_legacy_user_file") = Callbacks.get_legacy_user_file
      /\ Form("list_legacy_user_files") = Callbacks.list_legacy_user_files
      /\ Form("list_publisher_files") = Callbacks.list_publisher_files
      /\ Form("get_publisher_file") = Callbacks.get_publisher_file
      /\ Form("set_user_file") = Callbacks.set_user_file
      /\ Form("delete_user_file") = Callbacks.delete_user_file
      /\ Form("get_user_file") = Callbacks.get_user_file
      /\ Form("get_server_time") = Callbacks.get_server_time
      /\ Form("get_user_raw_data") = Callbacks.get_user_raw_data
      /\ Form("no_service") = Unknown.no_service
      /\ Form("no_callback") = Unknown.no_callback
  BY OpsAre DEF Form
<1> QED
  BY <1>1 DEF Entry, Callbacks, Unknown, Storage

\* No service has the type of the hello.
LEMMA OpTypes ==
  ASSUME NEW op \in Ops
  PROVE  /\ Form(op).type \in Byte \ {HELLO} /\ Form(op).sub \in Byte
         /\ Form(op).args \in Seq(Kinds)
         /\ Form(op).type \in {10, 12, 27, 99}
<1>1. Kinds = {"bool", "byte", "int16", "uint16", "int32", "uint32", "int64", "uint64", "float",
               "address", "nat_type", "string", "blob", "session"}
  BY KindsAre
<1>2. /\ <<"string", "bool", "blob">> \in Seq(Kinds)
      /\ <<"string">> \in Seq(Kinds)
      /\ <<"uint64", "uint32", "uint16", "uint16", "string">> \in Seq(Kinds)
      /\ <<"uint32", "uint16", "uint16", "string">> \in Seq(Kinds)
      /\ <<"string", "string", "bool", "blob", "uint64">> \in Seq(Kinds)
      /\ <<"string", "string", "uint64">> \in Seq(Kinds)
      /\ <<"string", "string", "uint64", "string">> \in Seq(Kinds)
      /\ <<>> \in Seq(Kinds)
  BY <1>1
<1>3. /\ Form("set_legacy_user_file").args \in Seq(Kinds)
      /\ Form("get_legacy_user_file").args \in Seq(Kinds)
      /\ Form("list_legacy_user_files").args \in Seq(Kinds)
      /\ Form("list_publisher_files").args \in Seq(Kinds)
      /\ Form("get_publisher_file").args \in Seq(Kinds)
      /\ Form("set_user_file").args \in Seq(Kinds)
      /\ Form("delete_user_file").args \in Seq(Kinds)
      /\ Form("get_user_file").args \in Seq(Kinds)
      /\ Form("get_server_time").args \in Seq(Kinds)
      /\ Form("get_user_raw_data").args \in Seq(Kinds)
      /\ Form("no_service").args \in Seq(Kinds)
      /\ Form("no_callback").args \in Seq(Kinds)
  BY <1>2, FormsAre DEF Entry
<1>4. /\ Form("set_legacy_user_file").type \in {10, 12, 27, 99}
      /\ Form("get_legacy_user_file").type \in {10, 12, 27, 99}
      /\ Form("list_legacy_user_files").type \in {10, 12, 27, 99}
      /\ Form("list_publisher_files").type \in {10, 12, 27, 99}
      /\ Form("get_publisher_file").type \in {10, 12, 27, 99}
      /\ Form("set_user_file").type \in {10, 12, 27, 99}
      /\ Form("delete_user_file").type \in {10, 12, 27, 99}
      /\ Form("get_user_file").type \in {10, 12, 27, 99}
      /\ Form("get_server_time").type \in {10, 12, 27, 99}
      /\ Form("get_user_raw_data").type \in {10, 12, 27, 99}
      /\ Form("no_service").type \in {10, 12, 27, 99}
      /\ Form("no_callback").type \in {10, 12, 27, 99}
  BY FormsAre DEF Entry
<1>5. /\ Form("set_legacy_user_file").sub \in 1..12
      /\ Form("get_legacy_user_file").sub \in 1..12
      /\ Form("list_legacy_user_files").sub \in 1..12
      /\ Form("list_publisher_files").sub \in 1..12
      /\ Form("get_publisher_file").sub \in 1..12
      /\ Form("set_user_file").sub \in 1..12
      /\ Form("delete_user_file").sub \in 1..12
      /\ Form("get_user_file").sub \in 1..12
      /\ Form("get_server_time").sub \in 1..12
      /\ Form("get_user_raw_data").sub \in 1..12
      /\ Form("no_service").sub \in 1..12
      /\ Form("no_callback").sub \in 1..12
  BY FormsAre DEF Entry
<1>6. Form(op).args \in Seq(Kinds)
  BY <1>3, OpsAre DEF Ops
<1>7. Form(op).type \in {10, 12, 27, 99}
  BY <1>4, OpsAre DEF Ops
<1>8. Form(op).sub \in 1..12
  BY <1>5, OpsAre DEF Ops
<1>9. Form(op).type \in Byte \ {HELLO} /\ Form(op).sub \in Byte
  BY <1>7, <1>8 DEF Byte, HELLO
<1> QED
  BY <1>6, <1>7, <1>9

\* A type and a sub-type select at most one callback.
LEMMA OneSelected ==
  ASSUME NEW op \in DOMAIN Callbacks, NEW p \in Ops,
         Form(op).type = Form(p).type, Form(op).sub = Form(p).sub
  PROVE  op = p
<1>1. /\ Form("set_legacy_user_file").type = 10 /\ Form("set_legacy_user_file").sub = 1
      /\ Form("get_legacy_user_file").type = 10 /\ Form("get_legacy_user_file").sub = 3
      /\ Form("list_legacy_user_files").type = 10 /\ Form("list_legacy_user_files").sub = 5
      /\ Form("list_publisher_files").type = 10 /\ Form("list_publisher_files").sub = 6
      /\ Form("get_publisher_file").type = 10 /\ Form("get_publisher_file").sub = 7
      /\ Form("set_user_file").type = 10 /\ Form("set_user_file").sub = 10
      /\ Form("delete_user_file").type = 10 /\ Form("delete_user_file").sub = 11
      /\ Form("get_user_file").type = 10 /\ Form("get_user_file").sub = 12
      /\ Form("get_server_time").type = 12 /\ Form("get_user_raw_data").type = 27
      /\ Form("no_service").type = 99
      /\ Form("no_callback").type = 10 /\ Form("no_callback").sub = 4
  BY FormsAre DEF Entry
<1> QED
  BY <1>1, OpsAre DEF Ops

\* What the game writes of a request is read as that request.
LEMMA RequestObject ==
  ASSUME NEW q, IsRequest(q)
  PROVE  q.op \in Ops /\ IsObject(Form(q.op).args, q.args)
<1> DEFINE op == q.op
           args == q.args
           layout == Form(op).args
<1>1. /\ op \in Ops /\ args \in Seq(Seq(Byte)) /\ Len(args) = Len(layout)
      /\ \A i \in DOMAIN args : args[i] \in ValuesOf(layout[i])
  BY DEF IsRequest, Ops
<1>2. layout \in Seq(Kinds)
  BY <1>1, OpTypes
<1> HIDE DEF op, args, layout
<1>3. DOMAIN args = 1..Len(layout) /\ args = [i \in 1..Len(layout) |-> args[i]]
  BY <1>1
<1> QED
  BY <1>1, <1>2, <1>3 DEF IsObject, op, args, layout

\* The buffer that a message is written into.
LEMMA EmptyBuffer ==
  /\ Fresh(<<>>) = Buf(<<>>, 0, TRUE) /\ Fresh(<<>>) \in Buffer
  /\ Fresh(<<>>).typed = TRUE /\ Fresh(<<>>).data = <<>>
<1>1. Fresh(<<>>) = Buf(<<>>, 0, TRUE)
  BY DEF Fresh, Buf
<1>2. <<>> \in ByteString
  BY DEF ByteString
<1>3. /\ Buf(<<>>, 0, TRUE) \in Buffer
      /\ Buf(<<>>, 0, TRUE).data = <<>> /\ Buf(<<>>, 0, TRUE).at = 0
      /\ Buf(<<>>, 0, TRUE).typed = TRUE
  BY <1>2, BufIs
<1> QED
  BY <1>1, <1>3

\* The bytes c are all that is left of a buffer.
At(b, c) ==
  b \in Buffer /\ b.at <= Len(b.data) /\ c \in ByteString /\ Remaining(b) = c
\* A read yields v and leaves c.
Gives(b, r, v, c) == r.ok /\ r.value = v /\ At(r.buffer, c) /\ r.buffer.typed = b.typed

\* Where two parts are left, the second is left behind the first.
LEMMA AtParts ==
  ASSUME NEW b, NEW c \in ByteString, NEW z \in ByteString, At(b, c \o z)
  PROVE  /\ b \in Buffer /\ Ahead(b, c) /\ At(Past(b, Len(c)), z)
         /\ Past(b, Len(c)).typed = b.typed /\ Past(b, Len(c)) \in Buffer
<1> DEFINE data == b.data
           at == b.at
<1>1. /\ b \in Buffer /\ at <= Len(data) /\ Remaining(b) = c \o z /\ c \o z \in ByteString
  BY DEF At
<1>2. b = Buf(data, at, b.typed) /\ data \in ByteString /\ at \in Nat /\ b.typed \in BOOLEAN
      /\ \A n : Past(b, n) = Buf(data, at + n, b.typed)
  BY <1>1, BufferIs DEF Buffer
<1>3. SubSeq(data, at + 1, Len(data)) = c \o z
  BY <1>1 DEF Remaining
<1> HIDE DEF data, at
<1>4. /\ Len(c) \in Nat /\ Len(z) \in Nat /\ Len(data) \in Nat
      /\ at + Len(c) + Len(z) = Len(data)
  BY <1>1, <1>2, <1>3 DEF ByteString
<1>5. \A i \in 1..(Len(c) + Len(z)) : data[at + i] = (c \o z)[i]
  <2>1. \A i \in 1..(Len(data) - at) : SubSeq(data, at + 1, Len(data))[i] = data[at + i]
    BY <1>1, <1>2 DEF ByteString
  <2>2. Len(data) - at = Len(c) + Len(z)
    BY <1>2, <1>4
  <2> QED
    BY <1>3, <2>1, <2>2
<1>6. \A i \in 1..Len(c) : data[at + i] = c[i]
  <2> TAKE i \in 1..Len(c)
  <2>1. i \in 1..(Len(c) + Len(z)) /\ (c \o z)[i] = c[i]
    BY <1>4 DEF ByteString
  <2> QED
    BY <1>5, <2>1
<1>7. Ahead(b, c)
  BY <1>2, <1>4, <1>6 DEF Ahead, data, at
<1> DEFINE m == at + Len(c)
<1>8. m \in Nat /\ m + Len(z) = Len(data)
  BY <1>2, <1>4
<1>9. \A i \in 1..Len(z) : data[m + i] = z[i]
  <2> TAKE i \in 1..Len(z)
  <2>1. Len(c) + i \in 1..(Len(c) + Len(z)) /\ (c \o z)[Len(c) + i] = z[i]
    BY <1>4 DEF ByteString
  <2>2. m + i = at + (Len(c) + i)
    BY <1>2, <1>4
  <2> QED
    BY <1>5, <2>1, <2>2
<1>10. Past(b, Len(c)) = Buf(data, m, b.typed)
  BY <1>2
<1> HIDE DEF m
<1>11. SubSeq(data, m + 1, m + Len(z)) = z
  <2>1. data \in Seq(Byte) /\ z \in Seq(Byte) /\ m + Len(z) <= Len(data)
    BY <1>2, <1>4, <1>8 DEF ByteString
  <2> QED
    BY <1>8, <1>9, <2>1, SubSeqIs
<1>12. Remaining(Buf(data, m, b.typed)) = z
  BY <1>8, <1>11 DEF Remaining, Buf
<1>13. /\ Buf(data, m, b.typed) \in Buffer /\ Buf(data, m, b.typed).typed = b.typed
       /\ Buf(data, m, b.typed).data = data /\ Buf(data, m, b.typed).at = m
  BY <1>2, <1>8, BufIs
<1>14. m <= Len(data)
  BY <1>4, <1>8
<1> QED
  BY <1>1, <1>7, <1>10, <1>12, <1>13, <1>14 DEF At

\* A number with its type, if types are used.
LEMMA ScalarAt ==
  ASSUME NEW b, NEW kind \in Scalars, NEW v \in ByteString, Len(v) = Width[kind],
         NEW typed, typed = b.typed, NEW z \in ByteString,
         At(b, ScalarImage(typed, kind, v) \o z)
  PROVE  Gives(b, ReadScalar(b, kind), v, z)
<1>1. b \in Buffer
  BY DEF At
<1> DEFINE c == ScalarImage(typed, kind, v)
<1>2. c \in ByteString
  BY <1>1, ScalarWritten
<1> HIDE DEF c
<1>3. /\ b \in Buffer /\ Ahead(b, c) /\ At(Past(b, Len(c)), z)
      /\ Past(b, Len(c)).typed = b.typed /\ Past(b, Len(c)) \in Buffer
  BY <1>2, AtParts DEF c
<1>4. ReadScalar(b, kind) = Advance(b, Len(c), v)
  <2>1. Ahead(b, ScalarImage(b.typed, kind, v))
    BY <1>3 DEF c
  <2>2. ReadScalar(b, kind) = Advance(b, Len(ScalarImage(b.typed, kind, v)), v)
    BY <1>1, <2>1, ScalarRead
  <2> QED
    BY <2>2 DEF c
<1>5. /\ Advance(b, Len(c), v).ok /\ Advance(b, Len(c), v).value = v
      /\ Advance(b, Len(c), v).buffer = Past(b, Len(c))
  BY AdvanceIs
<1> QED
  BY <1>3, <1>4, <1>5 DEF Gives

\* An object is written as the bytes c, from which it is read.
Stands(layout, object, b, c) ==
  /\ c \in ByteString /\ Serialize(layout, object, b) = Write(b, c)
  /\ \A p, z : z \in ByteString /\ p.typed = TRUE /\ At(p, c \o z) =>
       /\ Deserialize(layout, p).object = object
       /\ At(Deserialize(layout, p).buffer, z) /\ Deserialize(layout, p).buffer.typed = TRUE

\* An object of its class is written as bytes from which it is read.
LEMMA ObjectAt ==
  ASSUME NEW layout, NEW object, IsObject(layout, object), NEW b \in Buffer, b.typed = TRUE
  PROVE  \E c : Stands(layout, object, b, c)
<1>1. PICK c \in ByteString :
           /\ Serialize(layout, object, b) = Write(b, c)
           /\ \A p \in Buffer : p.typed = b.typed /\ Ahead(p, c) =>
                Deserialize(layout, p) = [object |-> object, buffer |-> Past(p, Len(c))]
  BY ObjectsComeBack
<1>2. ASSUME NEW p, NEW z \in ByteString, p.typed = TRUE, At(p, c \o z)
      PROVE  /\ Deserialize(layout, p).object = object
             /\ At(Deserialize(layout, p).buffer, z) /\ Deserialize(layout, p).buffer.typed = TRUE
  <2>1. /\ p \in Buffer /\ Ahead(p, c) /\ At(Past(p, Len(c)), z)
        /\ Past(p, Len(c)).typed = p.typed /\ Past(p, Len(c)) \in Buffer
    BY <1>2, AtParts
  <2>2. Deserialize(layout, p) = [object |-> object, buffer |-> Past(p, Len(c))]
    BY <1>1, <1>2, <2>1
  <2>3. Deserialize(layout, p).object = object /\ Deserialize(layout, p).buffer = Past(p, Len(c))
    BY <2>2
  <2> QED
    BY <1>2, <2>1, <2>3
<1>3. Stands(layout, object, b, c)
  BY <1>1, <1>2 DEF Stands
<1> QED
  BY <1>3

\* A buffer at its beginning.
LEMMA BufAt ==
  ASSUME NEW c \in ByteString, NEW t \in BOOLEAN
  PROVE  At(Buf(c, 0, t), c) /\ Buf(c, 0, t).typed = t /\ Buf(c, 0, t) \in Buffer
<1>1. Buf(c, 0, t) \in Buffer /\ Buf(c, 0, t).data = c /\ Buf(c, 0, t).at = 0
      /\ Buf(c, 0, t).typed = t
  BY BufIs
<1>2. 0 <= Len(c) /\ SubSeq(c, 1, Len(c)) = c
  BY DEF ByteString
<1>3. Remaining(Buf(c, 0, t)) = c
  BY <1>1, <1>2 DEF Remaining
<1> QED
  BY <1>1, <1>2, <1>3 DEF At

\* A buffer of its own, of bytes.
LEMMA FreshAt ==
  ASSUME NEW c \in ByteString
  PROVE  At(Fresh(c), c) /\ Fresh(c).typed = TRUE /\ Fresh(c) \in Buffer
<1>1. Fresh(c) = Buf(c, 0, TRUE)
  BY BytesAreNumbers, FreshPlain
<1>2. TRUE \in BOOLEAN
  OBVIOUS
<1>3. At(Buf(c, 0, TRUE), c) /\ Buf(c, 0, TRUE).typed = TRUE /\ Buf(c, 0, TRUE) \in Buffer
  BY <1>2, BufAt, Zenon
<1> QED
  BY <1>1, <1>3, Zenon

\* A request begins with the sub-type, from which its arguments follow.
LEMMA RequestRead ==
  ASSUME NEW q, IsRequest(q)
  PROVE  /\ RequestData(q) \in ByteString
         /\ \A z \in ByteString :
              /\ Sub(RequestData(q) \o z).value = <<Form(q.op).sub>>
              /\ Deserialize(Form(q.op).args, Sub(RequestData(q) \o z).buffer).object = q.args
<1> DEFINE sub == <<Form(q.op).sub>>
           layout == Form(q.op).args
           e == Fresh(<<>>)
           h == ScalarImage(TRUE, "byte", sub)
           b == WriteScalar(e, "byte", sub)
<1>1. q.op \in Ops /\ IsObject(layout, q.args) /\ Form(q.op).sub \in Byte
  BY RequestObject, OpTypes
<1>2. sub \in ByteString /\ Len(sub) = 1
  BY <1>1 DEF ByteString
<1>3. "byte" \in Scalars /\ Width["byte"] = 1
  BY KindsAre DEF Width
<1>4. e \in Buffer /\ e.typed = TRUE /\ e.data = <<>>
  BY EmptyBuffer
<1> HIDE DEF sub, layout, e
<1>5. h \in ByteString /\ b = Write(e, h)
  BY <1>2, <1>3, <1>4, ScalarWritten
<1> HIDE DEF h, b
<1>6. b \in Buffer /\ b.typed = TRUE /\ b.data = h
  <2>1. Write(e, h) \in Buffer /\ Write(e, h).typed = e.typed /\ Write(e, h).data = e.data \o h
    BY <1>4, <1>5, WriteWrite
  <2>2. <<>> \o h = h
    BY <1>5 DEF ByteString
  <2> QED
    BY <1>4, <1>5, <2>1, <2>2
<1>7. PICK c : Stands(layout, q.args, b, c)
  BY <1>1, <1>6, ObjectAt
<1>8. c \in ByteString /\ Serialize(layout, q.args, b) = Write(b, c)
  BY <1>7 DEF Stands
<1>9. RequestData(q) = h \o c
  <2>1. Write(b, c).data = b.data \o c
    BY <1>6, <1>8, WriteWrite
  <2>2. RequestData(q) = Serialize(layout, q.args, b).data
    BY DEF RequestData, layout, b, e, sub
  <2> QED
    BY <1>6, <1>8, <2>1, <2>2
<1>10. RequestData(q) \in ByteString
  BY <1>5, <1>8, <1>9, Associative
<1>11. ASSUME NEW z \in ByteString
       PROVE  /\ Sub(RequestData(q) \o z).value = sub
              /\ Deserialize(layout, Sub(RequestData(q) \o z).buffer).object = q.args
  <2> DEFINE data == RequestData(q) \o z
             r == ReadScalar(Fresh(data), "byte")
  <2>1. c \o z \in ByteString /\ data = h \o (c \o z)
    <3>1. c \o z \in ByteString
      BY <1>8, <1>11, Associative
    <3>2. Grouped(h, c, z)
      BY <1>5, <1>8, <1>11, BytesGrouped
    <3> QED
      BY <1>9, <3>1, <3>2 DEF Grouped
  <2>2. data \in ByteString
    BY <1>10, <1>11, Associative
  <2> HIDE DEF data
  <2>3. At(Fresh(data), data) /\ Fresh(data).typed = TRUE
    BY <2>2, FreshAt
  <2> DEFINE p == Fresh(data)
             w == c \o z
  <2> HIDE DEF p, w
  <2>4. At(p, ScalarImage(TRUE, "byte", sub) \o w) /\ p.typed = TRUE /\ w \in ByteString
    BY <2>1, <2>3 DEF h, p, w
  <2>5. Gives(p, ReadScalar(p, "byte"), sub, w)
    BY <1>2, <1>3, <2>4, ScalarAt
  <2>6. r.value = sub /\ At(r.buffer, c \o z) /\ r.buffer.typed = TRUE
    BY <2>4, <2>5 DEF Gives, p, w
  <2> HIDE DEF r
  <2>7. Deserialize(layout, r.buffer).object = q.args
    BY <1>7, <1>11, <2>6 DEF Stands
  <2>8. Sub(data) = r
    BY DEF Sub, r
  <2> QED
    BY <2>6, <2>7, <2>8 DEF data
<1> QED
  BY <1>10, <1>11 DEF sub, layout

-----------------------------------------------------------------------------
(* The replies.                                                            *)

\* A read of as many bytes as stand in front.
LEMMA ReadAt ==
  ASSUME NEW b, NEW c \in ByteString, NEW z \in ByteString, At(b, c \o z), NEW n, n = Len(c)
  PROVE  Gives(b, Read(b, n), c, z)
<1>1. /\ b \in Buffer /\ Ahead(b, c) /\ At(Past(b, Len(c)), z)
      /\ Past(b, Len(c)).typed = b.typed /\ Past(b, Len(c)) \in Buffer
  BY AtParts
<1>2. Read(b, Len(c)) = Advance(b, Len(c), c)
  BY <1>1, ReadAhead
<1>3. /\ Advance(b, Len(c), c).ok /\ Advance(b, Len(c), c).value = c
      /\ Advance(b, Len(c), c).buffer = Past(b, Len(c))
  BY AdvanceIs
<1> QED
  BY <1>1, <1>2, <1>3 DEF Gives

\* What is left does not depend on whether types are used.
LEMMA TypedAt ==
  ASSUME NEW b, NEW c, At(b, c)
  PROVE  At(Typed(b), c) /\ Typed(b).typed = TRUE
<1>1. b \in Buffer /\ b.at <= Len(b.data) /\ c \in ByteString /\ Remaining(b) = c
  BY DEF At
<1>2. b = Buf(b.data, b.at, b.typed) /\ b.data \in ByteString /\ b.at \in Nat /\ b.typed \in BOOLEAN
  BY <1>1, BufferIs DEF Buffer
<1>3. Typed(b) = Buf(b.data, b.at, TRUE)
  <2> DEFINE data == b.data
             at == b.at
             t == b.typed
  <2>1. data \in ByteString /\ at \in Nat /\ t \in BOOLEAN /\ b = Buf(data, at, t)
    BY <1>2
  <2> HIDE DEF data, at, t
  <2>2. Typed(Buf(data, at, t)) = Buf(data, at, TRUE)
    BY <2>1, TypedBuffers
  <2> QED
    BY <2>1, <2>2, Zenon DEF data, at
<1>4. TRUE \in BOOLEAN
  OBVIOUS
<1>5. /\ Buf(b.data, b.at, TRUE) \in Buffer
      /\ Buf(b.data, b.at, TRUE).data = b.data /\ Buf(b.data, b.at, TRUE).at = b.at
      /\ Buf(b.data, b.at, TRUE).typed = TRUE
  BY <1>2, <1>4, BufIs, Zenon
<1> DEFINE d == Buf(b.data, b.at, TRUE)
<1> HIDE DEF d
<1>6. d \in Buffer /\ d.data = b.data /\ d.at = b.at /\ d.typed = TRUE
  BY <1>5 DEF d
<1>7. Remaining(d) = c /\ d.at <= Len(d.data)
  BY <1>1, <1>6 DEF Remaining
<1>8. At(d, c)
  BY <1>1, <1>6, <1>7 DEF At
<1> QED
  BY <1>3, <1>6, <1>8 DEF d

\* The padding behind a message.
Padding(z) == z \in ByteString /\ Len(z) < 8 /\ \A i \in 1..Len(z) : z[i] = 0

\* When the objects have been read, only padding is left.
LEMMA PaddingIsAll ==
  ASSUME NEW b, NEW z, Padding(z), At(b, z)
  PROVE  OnlyPadding(b)
<1>1. b.at <= Len(b.data) /\ Remaining(b) = z /\ z \in ByteString
  BY DEF At
<1>2. DOMAIN z = 1..Len(z) /\ Len(z) < BLOCK
  BY <1>1 DEF Padding, BLOCK, ByteString
<1> QED
  BY <1>1, <1>2 DEF OnlyPadding, Padding

\* A transaction id is eight bytes.
LEMMA IdIs ==
  ASSUME NEW n \in Nat, n + 1 \in Int31
  PROVE  TransactionId(n) \in ByteString /\ Len(TransactionId(n)) = 8
<1> DEFINE l == Little(n + 1)
           h == <<0, 0, 0, 128>>
<1>1. l \in ByteString /\ Len(l) = 4
  BY NumberOfLittle
<1>2. h \in ByteString /\ Len(h) = 4
  BY DEF ByteString, Byte
<1> HIDE DEF l, h
<1>3. l \o h \in Seq(Byte) /\ Len(l \o h) = Len(l) + Len(h) /\ Len(l) \in Nat /\ Len(h) \in Nat
  BY <1>1, <1>2, JoinIs DEF ByteString
<1>4. TransactionId(n) = l \o h
  BY DEF TransactionId, l, h
<1> QED
  BY <1>1, <1>2, <1>3, <1>4 DEF ByteString

\* A sequence of the right length is a value of a kind of numbers.
LEMMA ScalarValue ==
  ASSUME NEW kind \in Scalars, NEW v \in ByteString, Len(v) = Width[kind]
  PROVE  v \in ValuesOf(kind)
<1>1. ValuesOf(kind) = [1..Width[kind] -> Byte]
  BY KindsAre DEF ValuesOf, Scalars
<1>2. v \in [1..Len(v) -> Byte]
  BY DEF ByteString
<1> QED
  BY <1>1, <1>2

\* The head of a reply is an object.
LEMMA HeaderObject ==
  ASSUME NEW n \in Nat, n + 1 \in Int31, NEW sub \in Byte, NEW error \in Int31
  PROVE  IsObject(ReplyHead, ReplyHeader(n, sub, error))
<1> DEFINE id == TransactionId(n)
           e == Little(error)
           s == <<sub>>
           h == <<id, e, s>>
<1>1. {"uint64", "uint32", "byte"} \subseteq Scalars /\ Scalars \subseteq Kinds
      /\ Width["uint64"] = 8 /\ Width["uint32"] = 4 /\ Width["byte"] = 1
  BY KindsAre DEF Width
<1>2. id \in ValuesOf("uint64")
  BY <1>1, IdIs, ScalarValue
<1>3. e \in ValuesOf("uint32")
  BY <1>1, NumberOfLittle, ScalarValue
<1>4. s \in ValuesOf("byte")
  <2>1. s \in ByteString /\ Len(s) = 1
    BY DEF ByteString
  <2> QED
    BY <1>1, <2>1, ScalarValue
<1> HIDE DEF id, e, s
<1>5. ReplyHead \in Seq(Kinds) /\ Len(ReplyHead) = 3
      /\ ReplyHead[1] = "uint64" /\ ReplyHead[2] = "uint32" /\ ReplyHead[3] = "byte"
  BY <1>1 DEF ReplyHead
<1>6. h = [i \in 1..3 |-> h[i]] /\ h[1] = id /\ h[2] = e /\ h[3] = s
  OBVIOUS
<1> HIDE DEF h
<1>7. ASSUME NEW i \in 1..3 PROVE h[i] \in ValuesOf(ReplyHead[i])
  <2>1. i = 1 \/ i = 2 \/ i = 3
    OBVIOUS
  <2> QED
    BY <1>2, <1>3, <1>4, <1>5, <1>6, <2>1
<1>8. IsObject(ReplyHead, h)
  BY <1>5, <1>6, <1>7 DEF IsObject
<1>9. ReplyHeader(n, sub, error) = h
  BY DEF ReplyHeader, h, id, e, s
<1> QED
  BY <1>8, <1>9

-----------------------------------------------------------------------------
(* Writing and reading objects: there is none or one.                      *)

\* No object is written as nothing ...
LEMMA SerializeNone ==
  ASSUME NEW class, NEW b
  PROVE  SerializeAll(class, <<>>, b) = b
<1> DEFINE Is(w) == w = [i \in 0..0 |-> IF i = 0 THEN b ELSE Serialize(class, (<<>>)[i], w[i - 1])]
           w == CHOOSE w : Is(w)
<1>1. Is([i \in 0..0 |-> b])
  OBVIOUS
<1>2. Is(w)
  BY <1>1
<1>3. w[0] = b
  BY <1>2
<1>4. Len(<<>>) = 0
  OBVIOUS
<1>5. SerializeAll(class, <<>>, b) = w[0]
  BY <1>4 DEF SerializeAll
<1> QED
  BY <1>3, <1>5

\* ... and one by its class.
LEMMA SerializeOne ==
  ASSUME NEW class, NEW o, NEW b
  PROVE  SerializeAll(class, <<o>>, b) = Serialize(class, o, b)
<1> DEFINE Is(w) == w = [i \in 0..1 |-> IF i = 0 THEN b ELSE Serialize(class, (<<o>>)[i], w[i - 1])]
           w == CHOOSE w : Is(w)
           v == [i \in 0..1 |-> IF i = 0 THEN b ELSE Serialize(class, o, b)]
<1>0. Len(<<o>>) = 1 /\ (<<o>>)[1] = o
  OBVIOUS
<1>1. Is(v)
  <2>1. v[0] = b /\ v[1] = Serialize(class, o, b)
    OBVIOUS
  <2>2. ASSUME NEW i \in 0..1
        PROVE  v[i] = IF i = 0 THEN b ELSE Serialize(class, (<<o>>)[i], v[i - 1])
    <3>1. i = 0 \/ i = 1
      OBVIOUS
    <3>2. CASE i = 0
      BY <2>1, <3>2
    <3>3. CASE i = 1
      <4>1. i - 1 = 0 /\ i # 0
        BY <3>3
      <4> QED
        BY <1>0, <2>1, <3>3, <4>1
    <3> QED
      BY <3>1, <3>2, <3>3
  <2>3. v = [i \in 0..1 |-> v[i]]
    OBVIOUS
  <2> HIDE DEF v
  <2> QED
    BY <2>2, <2>3
<1>2. Is(w)
  <2> HIDE DEF v
  <2> QED
    BY <1>1
<1>3. w[1] = Serialize(class, o, b)
  <2> HIDE DEF w
  <2>1. w[0] = b
    BY <1>2
  <2>2. w[1] = Serialize(class, (<<o>>)[1], w[1 - 1])
    BY <1>2
  <2> QED
    BY <1>0, <2>1, <2>2
<1>5. SerializeAll(class, <<o>>, b) = w[1]
  BY <1>0 DEF SerializeAll
<1> QED
  BY <1>3, <1>5

\* No object is read from nothing ...
LEMMA ObjectsNone ==
  ASSUME NEW class, NEW b
  PROVE  Objects(class, 0, b) = [objects |-> <<>>, buffer |-> b]
<1> DEFINE e == [objects |-> <<>>, buffer |-> b]
           Is(w) == w = [i \in 0..0 |-> IF i = 0 THEN e
                            ELSE Found(w[i - 1].objects, Deserialize(class, w[i - 1].buffer))]
           w == CHOOSE w : Is(w)
<1>1. Is([i \in 0..0 |-> e])
  <2> HIDE DEF e
  <2> QED
    OBVIOUS
<1>2. Is(w)
  BY <1>1
<1>3. w[0] = e
  <2> HIDE DEF e
  <2> QED
    BY <1>2
<1>5. Objects(class, 0, b) = w[0]
  BY DEF Objects
<1> QED
  BY <1>3, <1>5

\* ... and one by its class.
LEMMA ObjectsOne ==
  ASSUME NEW class, NEW b, NEW d, d = Deserialize(class, b)
  PROVE  Objects(class, 1, b) = [objects |-> <<d.object>>, buffer |-> d.buffer]
<1> DEFINE e == [objects |-> <<>>, buffer |-> b]
           Next_(r) == Found(r.objects, Deserialize(class, r.buffer))
           Is(w) == w = [i \in 0..1 |-> IF i = 0 THEN e ELSE Next_(w[i - 1])]
           w == CHOOSE w : Is(w)
           v == [i \in 0..1 |-> IF i = 0 THEN e ELSE Next_(e)]
<1>0. Objects(class, 1, b) = w[1]
  BY DEF Objects
<1>1. Next_(e) = [objects |-> <<d.object>>, buffer |-> d.buffer]
  <2>1. e.objects = <<>> /\ e.buffer = b /\ Append(<<>>, d.object) = <<d.object>>
    OBVIOUS
  <2> QED
    BY <2>1 DEF Found
<1> HIDE DEF e, Next_
<1>2. Is(v)
  <2>1. v[0] = e /\ v[1] = Next_(e)
    OBVIOUS
  <2>2. ASSUME NEW i \in 0..1 PROVE v[i] = IF i = 0 THEN e ELSE Next_(v[i - 1])
    <3>1. i = 0 \/ i = 1
      OBVIOUS
    <3>2. CASE i = 0
      BY <2>1, <3>2
    <3>3. CASE i = 1
      <4>1. i - 1 = 0 /\ i # 0
        BY <3>3
      <4> QED
        BY <2>1, <3>3, <4>1
    <3> QED
      BY <3>1, <3>2, <3>3
  <2>3. v = [i \in 0..1 |-> v[i]]
    OBVIOUS
  <2> HIDE DEF v
  <2> QED
    BY <2>2, <2>3
<1>3. Is(w)
  <2> HIDE DEF v
  <2> QED
    BY <1>2
<1>4. w[1] = Next_(e)
  <2> HIDE DEF w
  <2>1. w[0] = e
    BY <1>3
  <2>2. w[1] = Next_(w[1 - 1])
    BY <1>3
  <2> QED
    BY <2>1, <2>2
<1> QED
  BY <1>0, <1>1, <1>4

-----------------------------------------------------------------------------
(* The game opens a reply.                                                 *)

\* What stands where in two sequences that are joined.
LEMMA JoinAt ==
  ASSUME NEW S, NEW a \in Seq(S), NEW b \in Seq(S)
  PROVE  /\ \A i \in 1..Len(a) : (a \o b)[i] = a[i]
         /\ \A i \in 1..Len(b) : (a \o b)[Len(a) + i] = b[i]
  OBVIOUS

\* The same in short, for the provers.
InFrontOf(a, b) == \A i \in 1..Len(a) : (a \o b)[i] = a[i]
LEMMA JoinFront ==
  ASSUME NEW a \in Numbers, NEW b \in Numbers
  PROVE  InFrontOf(a, b)
<1>1. a \in Seq(Int) /\ b \in Seq(Int)
  BY DEF Numbers
<1> QED
  BY <1>1 DEF InFrontOf

Regroups(d, a, b, c) == d \o c = a \o (b \o c) /\ b \o c \in ByteString /\ d \in ByteString
\* Three byte strings may be joined in any order.
LEMMA Regrouped ==
  ASSUME NEW a \in ByteString, NEW b \in ByteString, NEW c \in ByteString, NEW d, d = a \o b
  PROVE  Regroups(d, a, b, c)
<1>1. (a \o b) \o c = a \o (b \o c) /\ a \o b \in ByteString
  BY Associative
<1>2. b \o c \in ByteString
  BY Associative
<1> QED
  BY <1>1, <1>2 DEF Regroups

\* A number is in the first four bytes.
LEMMA NumberInFront ==
  ASSUME NEW l \in Numbers, Len(l) = 4, NEW rest \in Numbers
  PROVE  Number(l \o rest) = Number(l) /\ Len(l \o rest) = 4 + Len(rest) /\ Len(rest) \in Nat
<1>1. Len(l \o rest) = Len(l) + Len(rest) /\ Len(rest) \in Nat
  BY JoinIs DEF Numbers
<1>2. InFrontOf(l, rest)
  BY JoinFront
<1>3. \A i \in 1..4 : (l \o rest)[i] = l[i]
  BY <1>2 DEF InFrontOf
<1> QED
  BY <1>1, <1>3 DEF Number

\* What the game finds in an encrypted reply, up to the objects.
Opens(k, body, z) ==
  \E p \in ByteString :
    /\ p = CHECKSUM \o (<<1>> \o (body \o z)) /\ Padding(z)
    /\ <<1>> \o (body \o z) \in ByteString /\ body \o z \in ByteString
    /\ Decrypt(k, SubSeq(EncryptedReply(k, 1, body), 10, Len(EncryptedReply(k, 1, body)))) = p

\* A reply is as long as it says, and with the key of its request the game finds the body.
LEMMA ReplyOpened ==
  ASSUME NEW k \in Nat, NEW body \in ByteString
  PROVE  /\ Len(EncryptedReply(k, 1, body)) >= 4
         /\ Number(EncryptedReply(k, 1, body)) = Len(EncryptedReply(k, 1, body)) - 4
         /\ \E z : Opens(k, body, z)
<1> DEFINE bytes == EncryptedReply(k, 1, body)
<1>0. 1 \in Byte
  BY DEF Byte
<1>1. PICK n \in 0..7, p \in ByteString :
           /\ p = CHECKSUM \o (<<1>> \o (body \o Zeros(n)))
           /\ Zeros(n) \in ByteString /\ Len(Zeros(n)) = n /\ \A i \in 1..n : Zeros(n)[i] = 0
           /\ body \o Zeros(n) \in ByteString /\ <<1>> \o (body \o Zeros(n)) \in ByteString
           /\ Padded(CHECKSUM \o <<1>> \o body) = p
           /\ Letter(k, 1, body) = <<1>> \o (SEED \o Encrypt(k, p))
           /\ Encrypt(k, p) \in Numbers /\ Len(Encrypt(k, p)) = Len(p)
           /\ Decrypt(k, Encrypt(k, p)) = p
           /\ \E j \in Nat : Len(p) = 8 * j
  BY <1>0, LetterParts
<1> DEFINE e == Encrypt(k, p)
           l == Little(Len(p) + 5)
           one == <<1>>
<1>2. Len(p) \in Nat /\ Len(p) + 5 \in Nat
  BY DEF ByteString
<1>3. l \in Numbers /\ Len(l) = 4 /\ Number(l) = Len(p) + 5
  BY <1>2, LittleIs
<1>4. e \in Numbers /\ Len(e) = Len(p) /\ Decrypt(k, e) = p
  BY <1>1
<1>5. one \in Numbers /\ Len(one) = 1 /\ SEED \in Numbers /\ Len(SEED) = 4
  BY <1>0, HeadsAre
<1>6. bytes = ((l \o one) \o SEED) \o e
  BY <1>1 DEF EncryptedReply
<1> HIDE DEF e, l, one, bytes
<1>7. /\ bytes = l \o (one \o (SEED \o e)) /\ SEED \o e \in Numbers /\ one \o (SEED \o e) \in Numbers
      /\ (l \o one) \o SEED \in Numbers
  <2>1. l \in Seq(Int) /\ one \in Seq(Int) /\ SEED \in Seq(Int) /\ e \in Seq(Int)
    BY <1>3, <1>4, <1>5 DEF Numbers
  <2>2. /\ ((l \o one) \o SEED) \o e = l \o (one \o (SEED \o e))
        /\ (l \o one) \o SEED \in Seq(Int) /\ SEED \o e \in Seq(Int) /\ one \o (SEED \o e) \in Seq(Int)
        /\ l \o (one \o (SEED \o e)) \in Seq(Int)
    BY <2>1, FourParts
  <2> QED
    BY <1>6, <2>2 DEF Numbers
<1> DEFINE s == SEED \o e
           rest == one \o s
           h == (l \o one) \o SEED
<1>8. Len(s) = 4 + Len(p)
  <2>1. s \in Seq(Int) /\ Len(s) = Len(SEED) + Len(e) /\ Len(SEED) \in Nat /\ Len(e) \in Nat
    BY <1>4, <1>5, JoinIs DEF Numbers
  <2> QED
    BY <1>4, <1>5, <2>1
<1> HIDE DEF s
<1>9. s \in Numbers
  BY <1>7 DEF s
<1>10. Len(rest) = 5 + Len(p)
  <2>1. rest \in Seq(Int) /\ Len(rest) = Len(one) + Len(s) /\ Len(one) \in Nat /\ Len(s) \in Nat
    BY <1>5, <1>9, JoinIs DEF Numbers
  <2> QED
    BY <1>2, <1>5, <1>8, <2>1
<1>11. rest \in Numbers /\ bytes = l \o rest
  BY <1>7 DEF rest, s
<1> HIDE DEF rest
<1>12. Number(bytes) = Len(p) + 5 /\ Len(bytes) = 4 + (5 + Len(p))
  <2>1. Number(l \o rest) = Number(l) /\ Len(l \o rest) = 4 + Len(rest) /\ Len(rest) \in Nat
    BY <1>3, <1>11, NumberInFront
  <2> QED
    BY <1>3, <1>10, <1>11, <2>1
<1>13. Len(h) = 9
  <2> DEFINE a == l \o one
  <2>1. a \in Seq(Int) /\ Len(a) = Len(l) + Len(one) /\ Len(l) \in Nat /\ Len(one) \in Nat
    BY <1>3, <1>5, JoinIs DEF Numbers
  <2> HIDE DEF a
  <2>2. a \o SEED \in Seq(Int) /\ Len(a \o SEED) = Len(a) + Len(SEED) /\ Len(a) \in Nat /\ Len(SEED) \in Nat
    BY <1>5, <2>1, JoinIs DEF Numbers
  <2>3. h = a \o SEED
    BY DEF a
  <2> HIDE DEF h
  <2> QED
    BY <1>3, <1>5, <2>1, <2>2, <2>3
<1>14. h \in Numbers /\ bytes = h \o e
  BY <1>6, <1>7
<1> HIDE DEF h
<1>15. SubSeq(bytes, 10, Len(bytes)) = e
  <2>1. bytes \in Seq(Int) /\ Len(bytes) = Len(h) + Len(e) /\ Len(h) \in Nat /\ Len(e) \in Nat
    BY <1>4, <1>14, JoinIs DEF Numbers
  <2>2. \A i \in 1..Len(e) : bytes[9 + i] = e[i]
    <3>1. h \in Seq(Int) /\ e \in Seq(Int)
      BY <1>4, <1>14 DEF Numbers
    <3>2. /\ \A i \in 1..Len(h) : (h \o e)[i] = h[i]
          /\ \A i \in 1..Len(e) : (h \o e)[Len(h) + i] = e[i]
      BY <3>1, JoinAt
    <3> QED
      BY <1>13, <1>14, <3>2
  <2>3. e \in Seq(Int) /\ 9 + Len(e) <= Len(bytes) /\ 9 \in Nat
    BY <1>4, <1>13, <2>1 DEF Numbers
  <2>4. SubSeq(bytes, 9 + 1, 9 + Len(e)) = e
    BY <2>1, <2>2, <2>3, SubSeqIs
  <2> QED
    BY <1>13, <2>1, <2>4
<1>16. Padding(Zeros(n))
  BY <1>1 DEF Padding
<1>17. Opens(k, body, Zeros(n))
  BY <1>1, <1>4, <1>15, <1>16 DEF Opens, bytes
<1> QED
  BY <1>2, <1>12, <1>17 DEF bytes

\* What the game finds of a reply: the head of it, and behind that the tail.
Joins(d, a, b) == d = a \o b
Holds(d, header, tail, z) ==
  d.object = header /\ d.buffer.typed = TRUE /\ Padding(z) /\ At(d.buffer, tail \o z)
Finds(answer, q, header, tail) ==
  \E d, z : answer = AnswerBehind(Form(q.op).class, d) /\ Holds(d, header, tail, z)

\* Behind the checksum and the type, the head of the reply and what is left.
LEMMA ReplyHeadRead ==
  ASSUME NEW k \in Nat, NEW body \in ByteString, NEW q, q.op \in Ops,
         NEW header, NEW b, NEW c, Stands(ReplyHead, header, b, c),
         NEW tail \in ByteString, Joins(body, c, tail)
  PROVE  Finds(AnswerIn(EncryptedReply(k, 1, body), k, q), q, header, tail)
<1> DEFINE bytes == EncryptedReply(k, 1, body)
<1>1. Len(bytes) >= 4 /\ Number(bytes) = Len(bytes) - 4 /\ \E z : Opens(k, body, z)
  BY ReplyOpened
<1>2. PICK z : Opens(k, body, z)
  BY <1>1
<1>3. PICK p \in ByteString :
        /\ p = CHECKSUM \o (<<1>> \o (body \o z)) /\ Padding(z)
        /\ <<1>> \o (body \o z) \in ByteString /\ body \o z \in ByteString
        /\ Decrypt(k, SubSeq(bytes, 10, Len(bytes))) = p
  BY <1>2 DEF Opens
<1> DEFINE coded == SubSeq(bytes, 10, Len(bytes))
           f == Untyped(Fresh(Decrypt(k, coded)))
           plain == Read(f, 4)
           type == ReadScalar(plain.buffer, "byte")
           g == Typed(type.buffer)
           d == Deserialize(ReplyHead, g)
           rest == body \o z
           behind == <<1>> \o rest
           one == <<1>>
           sum == CHECKSUM
<1>4. 1 \in Byte /\ one \in ByteString /\ Len(one) = 1 /\ sum \in ByteString /\ Len(sum) = 4
  <2>1. 1 \in Byte
    BY DEF Byte
  <2> QED
    BY <2>1, HeadsAre
<1> HIDE DEF bytes
<1>5. z \in ByteString /\ c \in ByteString
  BY <1>3 DEF Padding, Stands
<1>6. body \o z = c \o (tail \o z) /\ tail \o z \in ByteString
  <2>1. Regroups(body, c, tail, z)
    BY <1>5, Regrouped DEF Joins
  <2> QED
    BY <2>1 DEF Regroups
<1>7. p = sum \o behind /\ behind = one \o rest /\ rest \in ByteString /\ behind \in ByteString
  BY <1>3
<1> HIDE DEF rest, behind, one, sum
<1>8. At(f, sum \o behind) /\ f.typed = FALSE
  <2>1. f = Untyped(Fresh(p)) /\ p \in Numbers
    BY <1>3, BytesAreNumbers
  <2>2. Untyped(Fresh(p)) = Buf(p, 0, FALSE)
    BY <2>1, FreshPlain
  <2>3. FALSE \in BOOLEAN
    OBVIOUS
  <2>4. At(Buf(p, 0, FALSE), p) /\ Buf(p, 0, FALSE).typed = FALSE
    BY <2>3, BufAt, Zenon
  <2> HIDE DEF f
  <2> QED
    BY <1>7, <2>1, <2>2, <2>4, Zenon
<1> HIDE DEF f
<1>9. Gives(f, plain, sum, behind)
  BY <1>4, <1>7, <1>8, ReadAt
<1>10. At(plain.buffer, one \o rest) /\ plain.buffer.typed = FALSE /\ plain.value = CHECKSUM
  BY <1>7, <1>8, <1>9 DEF Gives, sum
<1> HIDE DEF plain
<1> DEFINE h == plain.buffer
<1>11. Gives(h, type, one, rest)
  <2>1. "byte" \in Scalars /\ Width["byte"] = 1
    BY KindsAre DEF Width
  <2>2. ScalarImage(FALSE, "byte", one) = one
    BY <1>4, ConcatEmptySeq DEF ScalarImage, TagOf, ByteString
  <2> HIDE DEF h
  <2>3. At(h, ScalarImage(FALSE, "byte", one) \o rest) /\ h.typed = FALSE
    BY <1>10, <2>2 DEF h
  <2>4. Gives(h, ReadScalar(h, "byte"), one, rest)
    BY <1>4, <1>7, <2>1, <2>3, ScalarAt
  <2> QED
    BY <2>4 DEF h
<1>12. type.value = <<1>> /\ At(type.buffer, rest)
  BY <1>11 DEF Gives, one
<1> HIDE DEF type
<1>13. At(g, c \o (tail \o z)) /\ g.typed = TRUE
  BY <1>6, <1>12, TypedAt DEF rest
<1> HIDE DEF g
<1>14. d.object = header /\ At(d.buffer, tail \o z) /\ d.buffer.typed = TRUE
  BY <1>6, <1>13 DEF Stands
<1>15. AnswerIn(bytes, k, q) = ServiceAnswer(coded, k, q)
  <2>1. q.op # "keep_alive" /\ q.op # "connect"
    BY OpsAre DEF Ops
  <2>2. ~(Len(bytes) < 4 \/ Number(bytes) # Len(bytes) - 4)
    <3>1. Len(bytes) \in Nat \/ ~(Len(bytes) < 4)
      OBVIOUS
    <3> QED
      BY <1>1, <3>1 DEF bytes
  <2> QED
    BY <2>1, <2>2 DEF AnswerIn
<1>16. ServiceAnswer(coded, k, q) = AnswerBehind(Form(q.op).class, d)
  <2>1. plain.value = CHECKSUM /\ type.value = <<1>>
    BY <1>10, <1>12
  <2> QED
    BY <2>1 DEF ServiceAnswer, f, plain, type, g
<1> HIDE DEF d
<1>17. Holds(d, header, tail, z)
  BY <1>3, <1>14 DEF Holds
<1>18. AnswerIn(bytes, k, q) = AnswerBehind(Form(q.op).class, d)
  BY <1>15, <1>16
<1>19. Finds(AnswerIn(bytes, k, q), q, header, tail)
  BY <1>17, <1>18 DEF Finds
<1> QED
  BY <1>19 DEF bytes

\* What the game makes of the three tails that a reply can have.
\* The three tails: of a failure, of no object, and of one.
Twice == ScalarImage(TRUE, "uint32", Little(1))
ErrorTail(n) == ScalarImage(TRUE, "uint64", TransactionId(n))
NoneTail == ScalarImage(TRUE, "uint32", Little(0))
OneTail(c) == Twice \o (Twice \o c)

\* What the game reads in the head of a reply.
LEMMA HeaderIs ==
  ASSUME NEW n, NEW sub, NEW error \in Int31
  PROVE  /\ ReplyHeader(n, sub, error)[1] = TransactionId(n)
         /\ Number(ReplyHeader(n, sub, error)[2]) = error
<1>1. Number(Little(error)) = error
  BY NumberOfLittle
<1> DEFINE e == Little(error)
           id == TransactionId(n)
<1> HIDE DEF e, id
<1>2. ReplyHeader(n, sub, error) = <<id, e, <<sub>>>>
  BY DEF ReplyHeader, e, id
<1> QED
  BY <1>1, <1>2 DEF e, id

\* Behind the head of a reply with an error stands its id.
LEMMA TailFailure ==
  ASSUME NEW n \in Nat, n + 1 \in Int31, NEW sub, NEW error \in Int31, error # 0,
         NEW d, NEW z, NEW class,
         Holds(d, ReplyHeader(n, sub, error), ErrorTail(n), z)
  PROVE  AnswerBehind(class, d) = Failure(error)
<1> DEFINE id == TransactionId(n)
           b == d.buffer
<1>1. id \in ByteString /\ Len(id) = 8
  BY IdIs
<1>2. "uint64" \in Scalars /\ Width["uint64"] = 8
  BY KindsAre DEF Width
<1>3. d.object[1] = id /\ Number(d.object[2]) = error
  BY HeaderIs DEF Holds
<1>4. z \in ByteString
  BY DEF Holds, Padding
<1> HIDE DEF id
<1>5. At(b, ScalarImage(TRUE, "uint64", id) \o z) /\ b.typed = TRUE
  BY DEF Holds, id, ErrorTail
<1> HIDE DEF b
<1>6. Gives(b, ReadScalar(b, "uint64"), id, z)
  BY <1>1, <1>2, <1>4, <1>5, ScalarAt
<1>7. ReadScalar(d.buffer, "uint64").value = id
  BY <1>6 DEF Gives, b
<1> QED
  BY <1>3, <1>7 DEF AnswerBehind, NO_ERROR

\* How many objects there are.
LEMMA SmallNumbers ==
  /\ 0 \in Int31 /\ 1 \in Int31
  /\ Little(0) \in ByteString /\ Len(Little(0)) = 4 /\ Number(Little(0)) = 0
  /\ Little(1) \in ByteString /\ Len(Little(1)) = 4 /\ Number(Little(1)) = 1
<1>1. 0 \in Int31 /\ 1 \in Int31
  BY DEF Int31
<1> QED
  BY <1>1, NumberOfLittle

\* No object: its number stands once.
LEMMA TailNone ==
  ASSUME NEW n, NEW sub, NEW d, NEW z, NEW class,
         Holds(d, ReplyHeader(n, sub, 0), NoneTail, z)
  PROVE  AnswerBehind(class, d) = Seen(class, <<>>)
<1> DEFINE l == Little(0)
           b == d.buffer
           count == ReadScalar(b, "uint32")
<1>1. l \in ByteString /\ Len(l) = 4 /\ Number(l) = 0
  BY SmallNumbers
<1>2. "uint32" \in Scalars /\ Width["uint32"] = 4
  BY KindsAre DEF Width
<1>3. Number(d.object[2]) = 0
  BY HeaderIs, SmallNumbers DEF Holds
<1>4. z \in ByteString /\ Padding(z)
  BY DEF Holds, Padding
<1> HIDE DEF l
<1>5. At(b, ScalarImage(TRUE, "uint32", l) \o z) /\ b.typed = TRUE
  BY DEF Holds, l, NoneTail
<1> HIDE DEF b
<1>6. Gives(b, count, l, z)
  BY <1>1, <1>2, <1>4, <1>5, ScalarAt
<1>7. Number(count.value) = 0 /\ At(count.buffer, z)
  BY <1>1, <1>6 DEF Gives
<1> DEFINE c == count.buffer
<1>8. AnswerBehind(class, d) = AnswerOf(class, count)
  BY <1>3 DEF AnswerBehind, NO_ERROR, b
<1> HIDE DEF count
<1>9. AnswerOf(class, count) = SeenIn(class, Objects(class, 0, c))
  BY <1>7 DEF AnswerOf
<1> HIDE DEF c
<1>10. OnlyPadding(c)
  BY <1>4, <1>7, PaddingIsAll DEF c
<1>11. Objects(class, 0, c).objects = <<>> /\ Objects(class, 0, c).buffer = c
  BY ObjectsNone
<1> QED
  BY <1>8, <1>9, <1>10, <1>11 DEF SeenIn

\* One object: its number stands twice.
LEMMA TailOne ==
  ASSUME NEW n, NEW sub, NEW d, NEW z, NEW class, NEW o, NEW w, NEW c,
         Stands(class, o, w, c), Holds(d, ReplyHeader(n, sub, 0), OneTail(c), z)
  PROVE  AnswerBehind(class, d) = Seen(class, <<o>>)
<1> DEFINE l == Little(1)
           im == ScalarImage(TRUE, "uint32", l)
           b == d.buffer
           count == ReadScalar(b, "uint32")
           again == ReadScalar(count.buffer, "uint32")
           x == c \o z
           y == im \o x
<1>1. l \in ByteString /\ Len(l) = 4 /\ Number(l) = 1
  BY SmallNumbers
<1>2. "uint32" \in Scalars /\ Width["uint32"] = 4
  BY KindsAre DEF Width
<1>3. Number(d.object[2]) = 0
  BY HeaderIs, SmallNumbers DEF Holds
<1>4. z \in ByteString /\ Padding(z) /\ c \in ByteString
  BY DEF Holds, Padding, Stands
<1> HIDE DEF l
<1>5. im \in ByteString
  <2>1. Fresh(<<>>) \in Buffer /\ Fresh(<<>>).typed = TRUE
    BY EmptyBuffer
  <2>2. ScalarImage(Fresh(<<>>).typed, "uint32", l) \in ByteString
    BY <1>1, <1>2, <2>1, ScalarWritten
  <2> QED
    BY <2>1, <2>2
<1> HIDE DEF im
<1>6. x \in ByteString /\ y \in ByteString
  <2>1. Regroups(c \o z, c, z, z)
    BY <1>4, Regrouped
  <2>2. x \in ByteString
    BY <2>1 DEF Regroups
  <2> HIDE DEF x
  <2>3. Regroups(im \o x, im, x, x)
    BY <1>5, <2>2, Regrouped
  <2> QED
    BY <2>2, <2>3 DEF Regroups
<1>7. At(b, im \o y) /\ b.typed = TRUE
  <2>1. At(b, (im \o (im \o c)) \o z) /\ b.typed = TRUE
    BY DEF Holds, im, l, OneTail, Twice
  <2>2. (im \o (im \o c)) \o z = im \o (im \o (c \o z))
    <3> DEFINE ic == im \o c
    <3>1. Regroups(ic, im, c, z)
      BY <1>4, <1>5, Regrouped
    <3>2. ic \in ByteString /\ ic \o z = im \o (c \o z)
      BY <3>1 DEF Regroups
    <3> HIDE DEF ic
    <3>3. Regroups(im \o ic, im, ic, z)
      BY <1>4, <1>5, <3>2, Regrouped
    <3>4. (im \o ic) \o z = im \o (ic \o z)
      BY <3>3 DEF Regroups
    <3> QED
      BY <3>2, <3>4 DEF ic
  <2> QED
    BY <2>1, <2>2
<1> HIDE DEF b, y
<1>8. Gives(b, count, l, y)
  <2>1. At(b, ScalarImage(TRUE, "uint32", l) \o y)
    BY <1>7 DEF im
  <2> QED
    BY <1>1, <1>2, <1>6, <1>7, <2>1, ScalarAt
<1>9. count.value = l /\ At(count.buffer, im \o x) /\ count.buffer.typed = TRUE
  BY <1>7, <1>8 DEF Gives, y
<1>10. AnswerBehind(class, d) = AnswerOf(class, count)
  BY <1>3 DEF AnswerBehind, NO_ERROR, b
<1> DEFINE e == count.buffer
<1> HIDE DEF count, x, e
<1>11. Gives(e, ReadScalar(e, "uint32"), l, x)
  <2>1. At(e, ScalarImage(TRUE, "uint32", l) \o x) /\ e.typed = TRUE
    BY <1>9 DEF im, e
  <2> QED
    BY <1>1, <1>2, <1>6, <2>1, ScalarAt
<1>12. again.value = l /\ At(again.buffer, c \o z) /\ again.buffer.typed = TRUE
  BY <1>9, <1>11 DEF Gives, e, x
<1> DEFINE g == again.buffer
           all == Objects(class, 1, g)
<1>13. AnswerOf(class, count) = SeenIn(class, all)
  <2>1. Number(count.value) = 1 /\ again.value = count.value
    BY <1>1, <1>9, <1>12
  <2> QED
    BY <2>1 DEF AnswerOf
<1> HIDE DEF again
<1> HIDE DEF g
<1> DEFINE f == Deserialize(class, g)
<1>14. f.object = o /\ At(f.buffer, z)
  BY <1>4, <1>12 DEF Stands, g
<1> HIDE DEF f
<1>15. OnlyPadding(f.buffer)
  BY <1>4, <1>14, PaddingIsAll
<1>16. all = [objects |-> <<f.object>>, buffer |-> f.buffer]
  BY ObjectsOne DEF f
<1> HIDE DEF all
<1>17. all.objects = <<o>> /\ all.buffer = f.buffer
  BY <1>14, <1>16
<1> QED
  BY <1>10, <1>13, <1>15, <1>17 DEF SeenIn

\* Up to its tail every reply is the same.
LEMMA ReplyFound ==
  ASSUME NEW k \in Nat, NEW q, q.op \in Ops, NEW header, NEW b, NEW c,
         Stands(ReplyHead, header, b, c), NEW tail \in ByteString, NEW body, Joins(body, c, tail)
  PROVE  Finds(AnswerIn(EncryptedReply(k, 1, body), k, q), q, header, tail)
<1>1. body \in ByteString
  <2>1. c \in ByteString
    BY DEF Stands
  <2>2. Regroups(body, c, tail, tail)
    BY <2>1, Regrouped DEF Joins
  <2> QED
    BY <2>2 DEF Regroups
<1> QED
  BY <1>1, ReplyHeadRead

\* Bytes written one after another.
LEMMA WrittenIs ==
  ASSUME NEW b \in Buffer, b.typed = TRUE, NEW c \in ByteString
  PROVE  Write(b, c) \in Buffer /\ Write(b, c).typed = TRUE /\ Write(b, c).data = b.data \o c
  BY WriteWrite

\* The head of a reply comes back.
LEMMA HeadWritten ==
  ASSUME NEW n \in Nat, n + 1 \in Int31, NEW sub \in Byte, NEW error \in Int31,
         NEW head, head = Serialize(ReplyHead, ReplyHeader(n, sub, error), Fresh(<<>>))
  PROVE  /\ head \in Buffer /\ head.typed = TRUE
         /\ Stands(ReplyHead, ReplyHeader(n, sub, error), Fresh(<<>>), head.data)
<1> DEFINE h == ReplyHeader(n, sub, error)
           e == Fresh(<<>>)
<1>1. IsObject(ReplyHead, h)
  BY HeaderObject
<1>2. e \in Buffer /\ e.typed = TRUE /\ e.data = <<>>
  BY EmptyBuffer
<1> HIDE DEF h, e
<1>3. PICK c : Stands(ReplyHead, h, e, c)
  BY <1>1, <1>2, ObjectAt
<1>4. c \in ByteString /\ head = Write(e, c)
  BY <1>3 DEF Stands, h, e
<1>5. head \in Buffer /\ head.typed = TRUE /\ head.data = <<>> \o c
  BY <1>2, <1>4, WrittenIs
<1>6. <<>> \o c = c
  BY <1>4 DEF ByteString
<1> QED
  BY <1>3, <1>5, <1>6 DEF h, e

\* A number is written behind what was written before.
LEMMA ScalarAdded ==
  ASSUME NEW b \in Buffer, b.typed = TRUE, NEW kind \in Scalars, NEW v \in ByteString
  PROVE  /\ ScalarImage(TRUE, kind, v) \in ByteString
         /\ WriteScalar(b, kind, v) \in Buffer /\ WriteScalar(b, kind, v).typed = TRUE
         /\ WriteScalar(b, kind, v).data = b.data \o ScalarImage(TRUE, kind, v)
<1>1. /\ ScalarImage(b.typed, kind, v) \in ByteString
      /\ WriteScalar(b, kind, v) = Write(b, ScalarImage(b.typed, kind, v))
  BY ScalarWritten
<1> DEFINE c == ScalarImage(TRUE, kind, v)
<1>2. c \in ByteString /\ WriteScalar(b, kind, v) = Write(b, c)
  BY <1>1
<1> HIDE DEF c
<1>3. Write(b, c) \in Buffer /\ Write(b, c).typed = TRUE /\ Write(b, c).data = b.data \o c
  BY <1>2, WrittenIs
<1> QED
  BY <1>2, <1>3 DEF c

\* The error stands behind the head, or the number of objects, or it twice and one object.
LEMMA BodyFailure ==
  ASSUME NEW n \in Nat, n + 1 \in Int31, NEW sub \in Byte, NEW error \in Int31, error # 0,
         NEW class, NEW objects, NEW head,
         head = Serialize(ReplyHead, ReplyHeader(n, sub, error), Fresh(<<>>))
  PROVE  /\ ScalarImage(TRUE, "uint64", TransactionId(n)) \in ByteString
         /\ Joins(ReplyBody(n, sub, error, class, objects).data, head.data,
                  ScalarImage(TRUE, "uint64", TransactionId(n)))
<1>1. head \in Buffer /\ head.typed = TRUE
  BY HeadWritten
<1>2. TransactionId(n) \in ByteString /\ "uint64" \in Scalars
  BY IdIs, KindsAre
<1>3. ReplyBody(n, sub, error, class, objects) = WriteScalar(head, "uint64", TransactionId(n))
  BY DEF ReplyBody, NO_ERROR
<1> QED
  BY <1>1, <1>2, <1>3, ScalarAdded DEF Joins

\* Without an error and without objects: their number.
LEMMA BodyNone ==
  ASSUME NEW n \in Nat, n + 1 \in Int31, NEW sub \in Byte, NEW class, NEW head,
         head = Serialize(ReplyHead, ReplyHeader(n, sub, 0), Fresh(<<>>))
  PROVE  /\ ScalarImage(TRUE, "uint32", Little(0)) \in ByteString
         /\ Joins(ReplyBody(n, sub, 0, class, <<>>).data, head.data,
                  ScalarImage(TRUE, "uint32", Little(0)))
<1>1. head \in Buffer /\ head.typed = TRUE
  BY HeadWritten, SmallNumbers
<1>2. Little(0) \in ByteString /\ "uint32" \in Scalars
  BY SmallNumbers, KindsAre
<1>3. Len(<<>>) = 0
  OBVIOUS
<1>4. Counts(head, <<>>) = WriteScalar(head, "uint32", Little(0))
  BY <1>3 DEF Counts
<1>5. ReplyBody(n, sub, 0, class, <<>>) = WriteScalar(head, "uint32", Little(0))
  BY <1>4, SerializeNone DEF ReplyBody, NO_ERROR
<1> QED
  BY <1>1, <1>2, <1>5, ScalarAdded DEF Joins

\* Two numbers and an object.
OneObject(body, h, im, class, o) ==
  \E w, c, tail : /\ Stands(class, o, w, c) /\ Joins(tail, im, im \o c)
                 /\ tail \in ByteString /\ Joins(body, h, tail)

\* With one object: the number twice, and the object.
LEMMA BodyOne ==
  ASSUME NEW n \in Nat, n + 1 \in Int31, NEW sub \in Byte, NEW class, NEW o, IsObject(class, o),
         NEW head, head = Serialize(ReplyHead, ReplyHeader(n, sub, 0), Fresh(<<>>)),
         NEW im, im = ScalarImage(TRUE, "uint32", Little(1))
  PROVE  OneObject(ReplyBody(n, sub, 0, class, <<o>>).data, head.data, im, class, o)
<1>1. head \in Buffer /\ head.typed = TRUE
  BY HeadWritten, SmallNumbers
<1>2. Little(1) \in ByteString /\ "uint32" \in Scalars
  BY SmallNumbers, KindsAre
<1>3. Len(<<o>>) = 1 /\ <<o>> # <<>>
  OBVIOUS
<1> DEFINE once == WriteScalar(head, "uint32", Little(1))
           twice == WriteScalar(once, "uint32", Little(1))
<1>4. im \in ByteString /\ once \in Buffer /\ once.typed = TRUE /\ once.data = head.data \o im
  BY <1>1, <1>2, ScalarAdded
<1> HIDE DEF once
<1>5. twice \in Buffer /\ twice.typed = TRUE /\ twice.data = once.data \o im
  BY <1>2, <1>4, ScalarAdded
<1>6. Counts(head, <<o>>) = twice
  BY <1>3 DEF Counts, once
<1>7. ReplyBody(n, sub, 0, class, <<o>>) = Serialize(class, o, twice)
  BY <1>6, SerializeOne DEF ReplyBody, NO_ERROR
<1> HIDE DEF twice
<1>8. PICK c : Stands(class, o, twice, c)
  BY <1>5, ObjectAt
<1>9. c \in ByteString /\ Serialize(class, o, twice) = Write(twice, c)
  BY <1>8 DEF Stands
<1>10. ReplyBody(n, sub, 0, class, <<o>>).data = twice.data \o c
  <2>1. Write(twice, c).data = twice.data \o c
    BY <1>5, <1>9, WriteWrite
  <2> QED
    BY <1>7, <1>9, <2>1
<1> DEFINE h == head.data
<1>11. h \in ByteString
  BY <1>1 DEF Buffer
<1>12. ((h \o im) \o im) \o c = h \o (im \o (im \o c)) /\ im \o (im \o c) \in ByteString
  <2> HIDE DEF h
  <2>1. h \in Seq(Byte) /\ im \in Seq(Byte) /\ c \in Seq(Byte)
    BY <1>4, <1>9, <1>11 DEF ByteString
  <2>2. Regroups(h \o im, h, im, im) /\ Regroups(im \o c, im, c, c)
    BY <1>4, <1>9, <1>11, Regrouped
  <2> DEFINE hi == h \o im
             ic == im \o c
  <2>3. hi \in ByteString /\ ic \in ByteString
    BY <2>2 DEF Regroups
  <2>4. Joins(hi, h, im) /\ Joins(ic, im, c)
    BY DEF Joins
  <2> HIDE DEF hi, ic
  <2>5. Regroups(hi \o im, hi, im, c)
    BY <1>4, <1>9, <2>3, Regrouped
  <2>6. (hi \o im) \o c = hi \o (im \o c)
    BY <2>5 DEF Regroups
  <2>7. Regroups(hi, h, im, ic)
    BY <1>4, <1>11, <2>3, <2>4, Regrouped DEF Joins
  <2>8. hi \o ic = h \o (im \o ic) /\ im \o ic \in ByteString
    BY <2>7 DEF Regroups
  <2> QED
    BY <2>6, <2>8 DEF hi, ic
<1>13. twice.data = (h \o im) \o im
  BY <1>4, <1>5
<1>14. ReplyBody(n, sub, 0, class, <<o>>).data = h \o (im \o (im \o c))
  BY <1>10, <1>12, <1>13
<1> QED
  BY <1>8, <1>12, <1>14 DEF OneObject, Joins

\* A reply to q that the game understands.
Ready(k, q, n, sub, error, class, objects) ==
  /\ k \in Nat /\ q.op \in Ops /\ n \in Nat /\ n + 1 \in Int31 /\ sub \in Byte
  /\ error \in Int31 /\ class = Form(q.op).class
  /\ error # 0 \/ objects = <<>> \/ \E o : objects = <<o>> /\ IsObject(class, o)

\* What the game reads in a reply is what the server put into it.
LEMMA ServiceReplied ==
  ASSUME NEW k, NEW q, NEW n, NEW sub, NEW error, NEW class, NEW objects,
         Ready(k, q, n, sub, error, class, objects)
  PROVE  AnswerIn(ServiceReply(n, k, sub, error, class, objects), k, q)
           = IF error # 0 THEN Failure(error) ELSE Seen(class, objects)
<1>0. /\ k \in Nat /\ q.op \in Ops /\ n \in Nat /\ n + 1 \in Int31 /\ sub \in Byte
      /\ error \in Int31 /\ class = Form(q.op).class
      /\ error # 0 \/ objects = <<>> \/ \E o : objects = <<o>> /\ IsObject(class, o)
  BY DEF Ready
<1> USE <1>0
<1> DEFINE body == ReplyBody(n, sub, error, class, objects).data
           header == ReplyHeader(n, sub, error)
           head == Serialize(ReplyHead, header, Fresh(<<>>))
           answer == AnswerIn(EncryptedReply(k, 1, body), k, q)
<1>1. head \in Buffer /\ head.typed = TRUE /\ Stands(ReplyHead, header, Fresh(<<>>), head.data)
  BY HeadWritten
<1>2. ServiceReply(n, k, sub, error, class, objects) = EncryptedReply(k, 1, body)
  BY DEF ServiceReply
<1>3. CASE error # 0
  <2> DEFINE tail == ScalarImage(TRUE, "uint64", TransactionId(n))
  <2>1. tail \in ByteString /\ Joins(body, head.data, tail)
    <3>1. /\ ScalarImage(TRUE, "uint64", TransactionId(n)) \in ByteString
          /\ Joins(ReplyBody(n, sub, error, class, objects).data, head.data,
                   ScalarImage(TRUE, "uint64", TransactionId(n)))
      BY <1>3, BodyFailure
    <3> QED
      BY <3>1
  <2> HIDE DEF head, header, body, tail
  <2>2. Finds(AnswerIn(EncryptedReply(k, 1, body), k, q), q, header, tail)
    BY <1>1, <2>1, ReplyFound
  <2>3. PICK d, z : answer = AnswerBehind(class, d) /\ Holds(d, header, tail, z)
    BY <2>2 DEF Finds
  <2>4. AnswerBehind(class, d) = Failure(error)
    <3>1. Holds(d, ReplyHeader(n, sub, error), ErrorTail(n), z)
      BY <2>3 DEF header, tail, ErrorTail
    <3> QED
      BY <1>3, <3>1, TailFailure
  <2> QED
    BY <1>2, <1>3, <2>3, <2>4
<1>4. CASE error = 0 /\ objects = <<>>
  <2> DEFINE tail == ScalarImage(TRUE, "uint32", Little(0))
  <2>1. tail \in ByteString /\ Joins(body, head.data, tail)
    BY <1>4, BodyNone
  <2> HIDE DEF head, header, body, tail
  <2>2. Finds(AnswerIn(EncryptedReply(k, 1, body), k, q), q, header, tail)
    BY <1>1, <2>1, ReplyFound
  <2>3. PICK d, z : answer = AnswerBehind(class, d) /\ Holds(d, header, tail, z)
    BY <2>2 DEF Finds
  <2>4. AnswerBehind(class, d) = Seen(class, <<>>)
    <3>1. Holds(d, ReplyHeader(n, sub, 0), NoneTail, z)
      BY <1>4, <2>3 DEF header, tail, NoneTail
    <3> QED
      BY <3>1, TailNone
  <2> QED
    BY <1>2, <1>4, <2>3, <2>4
<1>5. CASE error = 0 /\ \E o : objects = <<o>> /\ IsObject(class, o)
  <2>0. PICK o : objects = <<o>> /\ IsObject(class, o)
    BY <1>5
  <2> DEFINE im == ScalarImage(TRUE, "uint32", Little(1))
  <2>1. OneObject(body, head.data, im, class, o)
    <3>1. OneObject(ReplyBody(n, sub, 0, class, <<o>>).data,
                    Serialize(ReplyHead, ReplyHeader(n, sub, 0), Fresh(<<>>)).data, im, class, o)
      BY <2>0, BodyOne
    <3> QED
      BY <1>5, <2>0, <3>1
  <2>2. PICK w, c, tail : /\ Stands(class, o, w, c) /\ Joins(tail, im, im \o c)
                          /\ tail \in ByteString /\ Joins(body, head.data, tail)
    BY <2>1 DEF OneObject
  <2> HIDE DEF head, header, body
  <2>3. Finds(AnswerIn(EncryptedReply(k, 1, body), k, q), q, header, tail)
    BY <1>1, <2>2, ReplyFound
  <2>4. PICK d, z : answer = AnswerBehind(class, d) /\ Holds(d, header, tail, z)
    BY <2>3 DEF Finds
  <2>5. AnswerBehind(class, d) = Seen(class, <<o>>)
    <3>1. Holds(d, ReplyHeader(n, sub, 0), OneTail(c), z)
      BY <1>5, <2>2, <2>4 DEF header, Joins, OneTail, Twice
    <3> QED
      BY <2>2, <3>1, TailOne
  <2> QED
    BY <1>2, <1>5, <2>0, <2>4, <2>5
<1> QED
  BY <1>3, <1>4, <1>5

-----------------------------------------------------------------------------
(* The two messages that are no service's.                                 *)

\* The reply to the message that keeps the connection alive.
LEMMA KeptAlive ==
  ASSUME NEW k, NEW q, q.op = "keep_alive"
  PROVE  AnswerIn(Zeros(4), k, q) = Plain(0)
<1>1. Len(Zeros(4)) = 4 /\ \A i \in 1..4 : Zeros(4)[i] = 0
  BY DEF Zeros
<1>2. Number(Zeros(4)) = 0
  BY <1>1 DEF Number
<1>3. ~(Len(Zeros(4)) < 4 \/ Number(Zeros(4)) # Len(Zeros(4)) - 4)
  <2> DEFINE l == Len(Zeros(4))
             n == Number(Zeros(4))
  <2>1. l = 4 /\ n = 0
    BY <1>1, <1>2
  <2> HIDE DEF l, n
  <2>2. ~(l < 4 \/ n # l - 4)
    BY <2>1
  <2> QED
    BY <2>2 DEF l, n
<1> QED
  BY <1>1, <1>3 DEF AnswerIn

\* What stands behind another sequence.
LEMMA BehindIs ==
  ASSUME NEW S, NEW h \in Seq(S), NEW e \in Seq(S), NEW n, n = Len(h) + 1
  PROVE  SubSeq(h \o e, n, Len(h \o e)) = e
<1> DEFINE b == h \o e
           l == Len(h)
<1>1. b \in Seq(S) /\ Len(b) = l + Len(e) /\ l \in Nat /\ Len(e) \in Nat
  BY JoinIs
<1>2. \A i \in 1..Len(e) : b[l + i] = e[i]
  BY JoinAt
<1> HIDE DEF b, l
<1>3. l + Len(e) <= Len(b)
  BY <1>1
<1>4. SubSeq(b, l + 1, l + Len(e)) = e
  BY <1>1, <1>2, <1>3, SubSeqIs
<1> QED
  BY <1>1, <1>4 DEF b, l

\* The same in short, for the provers.
BehindOf(a, b) == \A i \in 1..Len(b) : (a \o b)[Len(a) + i] = b[i]
LEMMA JoinBehind ==
  ASSUME NEW S, NEW a \in Seq(S), NEW b \in Seq(S)
  PROVE  BehindOf(a, b)
  BY DEF BehindOf

\* The reply to a connection request.
LEMMA Connects ==
  ASSUME NEW k, NEW q, q.op = "connect"
  PROVE  AnswerIn(ConnectionReply, k, q) = Plain(0)
<1> DEFINE id == CONNECTION_ID
           kind == "uint64"
           p == ScalarImage(TRUE, kind, id)
           l == Little(11)
           t == <<0, 4>>
           h == l \o t
           bytes == ConnectionReply
<1>1. id \in ByteString /\ Len(id) = 8
  BY DEF CONNECTION_ID, ByteString, Byte
<1>2. kind \in Scalars /\ Width[kind] = 8
  BY KindsAre DEF Width
<1>3. Fresh(<<>>) \in Buffer /\ Fresh(<<>>).typed = TRUE /\ Fresh(<<>>).data = <<>>
  BY EmptyBuffer
<1>4. p \in ByteString /\ WriteScalar(Fresh(<<>>), kind, id).data = <<>> \o p
  <2> HIDE DEF id, kind
  <2>1. /\ ScalarImage(TRUE, kind, id) \in ByteString
        /\ WriteScalar(Fresh(<<>>), kind, id) \in Buffer
        /\ WriteScalar(Fresh(<<>>), kind, id).typed = TRUE
        /\ WriteScalar(Fresh(<<>>), kind, id).data = Fresh(<<>>).data \o ScalarImage(TRUE, kind, id)
    BY <1>1, <1>2, <1>3, ScalarAdded
  <2> QED
    BY <1>3, <2>1
<1>5. <<>> \o p = p
  <2> HIDE DEF p
  <2> QED
    BY <1>4 DEF ByteString
<1>6. Len(p) = 9
  <2>1. Tag[kind] \in Byte
    BY <1>2, ScalarsAre
  <2> DEFINE a == <<Tag[kind]>>
  <2>2. a \in Seq(Byte) /\ Len(a) = 1
    BY <2>1
  <2>3. p = a \o id
    BY DEF ScalarImage, TagOf
  <2> HIDE DEF a, p, id
  <2>4. Len(a \o id) = Len(a) + Len(id)
    BY <1>1, <2>2, JoinIs DEF ByteString
  <2> QED
    BY <1>1, <2>2, <2>3, <2>4
<1>7. l \in ByteString /\ Len(l) = 4 /\ Number(l) = 11
  <2>1. 11 \in Int31
    BY DEF Int31
  <2> QED
    BY <2>1, NumberOfLittle
<1>8. t \in ByteString /\ Len(t) = 2 /\ t[1] = 0
  BY DEF ByteString, Byte
<1>9. bytes = h \o p
  <2>1. bytes = Little(Len(p) + 2) \o t \o p
    BY <1>4, <1>5 DEF ConnectionReply, UnencryptedReply
  <2> HIDE DEF p, t, bytes
  <2>2. Len(p) + 2 = 11
    BY <1>6
  <2> QED
    BY <2>1, <2>2
<1> HIDE DEF id, kind, p, l, t, bytes
<1>10. h \in Seq(Byte) /\ Len(h) = 6 /\ h[5] = 0
  <2>1. l \in Seq(Byte) /\ t \in Seq(Byte)
    BY <1>7, <1>8 DEF ByteString
  <2>2. h \in Seq(Byte) /\ Len(h) = Len(l) + Len(t)
    BY <2>1, JoinIs
  <2>3. h[5] = t[1]
    <3>1. BehindOf(l, t)
      BY <2>1, JoinBehind
    <3>2. \A i \in 1..2 : h[4 + i] = t[i]
      BY <1>7, <1>8, <3>1 DEF BehindOf
    <3>3. 1 \in 1..2 /\ 4 + 1 = 5
      OBVIOUS
    <3>4. h[4 + 1] = t[1]
      BY <3>2, <3>3, Zenon
    <3> QED
      BY <3>3, <3>4, Zenon
  <2> QED
    BY <1>7, <1>8, <2>2, <2>3
<1>11. Len(bytes) = 15
  <2>1. p \in Seq(Byte)
    BY <1>4 DEF ByteString
  <2>2. h \o p \in Seq(Byte) /\ Len(h \o p) = Len(h) + Len(p)
    BY <1>10, <2>1, JoinIs
  <2> HIDE DEF h
  <2> QED
    BY <1>6, <1>9, <1>10, <2>2
<1>12. Number(bytes) = 11 /\ bytes[5] = 0
  <2>1. l \in Numbers /\ t \in Numbers /\ p \in Numbers
    BY <1>4, <1>7, <1>8, BytesAreNumbers
  <2>2. h \in Numbers
    BY <1>10, BytesAreNumbers DEF ByteString
  <2>3. Number(h) = Number(l)
    BY <1>7, <2>1, NumberInFront
  <2>4. InFrontOf(h, p)
    BY <2>1, <2>2, JoinFront
  <2> HIDE DEF h
  <2>5. \A i \in 1..6 : bytes[i] = h[i]
    BY <1>9, <1>10, <2>4 DEF InFrontOf
  <2>6. Number(bytes) = Number(h)
    BY <2>5 DEF Number
  <2> QED
    BY <1>7, <1>10, <2>3, <2>5, <2>6
<1>13. SubSeq(bytes, 7, Len(bytes)) = p
  <2>1. p \in Seq(Byte) /\ 7 = Len(h) + 1
    BY <1>4, <1>10 DEF ByteString
  <2> HIDE DEF h
  <2> QED
    BY <1>9, <1>10, <2>1, BehindIs
<1>14. ReadScalar(Fresh(p), "uint64").value = CONNECTION_ID
  <2> DEFINE b == Fresh(p)
             z == <<>>
  <2>1. At(b, p) /\ b.typed = TRUE
    BY <1>4, FreshAt
  <2>2. z \in ByteString /\ p \o z = p
    BY <1>4 DEF ByteString
  <2> HIDE DEF b, z
  <2>3. At(b, ScalarImage(TRUE, kind, id) \o z)
    BY <2>1, <2>2 DEF p
  <2>4. Gives(b, ReadScalar(b, kind), id, z)
    BY <1>1, <1>2, <2>1, <2>2, <2>3, ScalarAt
  <2> QED
    BY <2>4 DEF Gives, b, kind, id
<1>15. ~(Len(bytes) < 4 \/ Number(bytes) # Len(bytes) - 4)
  BY <1>11, <1>12
<1> QED
  BY <1>12, <1>13, <1>14, <1>15 DEF AnswerIn, bytes

-----------------------------------------------------------------------------
(* The handlers do what the game may expect of a store of files.           *)

GoodFiles(f) ==
  \A name \in DOMAIN f : name \in ValuesOf("string") /\ f[name] \in ValuesOf("blob")

\* The values of the kinds that handlers read and write.
LEMMA SomeValues ==
  /\ ValuesOf("string") = Seq(Byte \ {0})
  /\ ValuesOf("bool") = [1..1 -> Byte] /\ ValuesOf("uint32") = [1..4 -> Byte]
  /\ ValuesOf("uint64") = [1..8 -> Byte] /\ ValuesOf("float") = [1..4 -> Byte]
<1>1. DOMAIN PlainLength = {"address", "nat_type"}
  BY KindsAre
<1>2. ValuesOf("string") = Seq(Byte \ {0})
  BY KindsAre, SMT DEF ValuesOf
<1>3. /\ ValuesOf("bool") = [1..Width["bool"] -> Byte]
      /\ ValuesOf("uint32") = [1..Width["uint32"] -> Byte]
      /\ ValuesOf("uint64") = [1..Width["uint64"] -> Byte]
      /\ ValuesOf("float") = [1..Width["float"] -> Byte]
  BY <1>1, SMT DEF ValuesOf
<1> QED
  BY <1>2, <1>3 DEF Width

\* The length of a blob is a number of four bytes.
LEMMA BlobsAre ==
  /\ \A v \in ValuesOf("blob") : v \in Seq(Byte) /\ Len(v) \in Int31
  /\ \A v \in Seq(Byte) : Len(v) \in Int31 => v \in ValuesOf("blob")
<1>1. ValuesOf("blob") = {v \in Seq(Byte) : Len(v) \in Int31}
  BY KindsAre DEF ValuesOf
<1> QED
  BY <1>1

\* ... and is written as one.
LEMMA BlobLength ==
  ASSUME NEW data \in ValuesOf("blob")
  PROVE  /\ data \in ByteString /\ Len(data) \in Int31 /\ Number(Little(Len(data))) = Len(data)
         /\ Little(Len(data)) \in ValuesOf("uint32")
<1>1. data \in Seq(Byte) /\ Len(data) \in Int31
  BY BlobsAre
<1>4. "uint32" \in Scalars /\ Width["uint32"] = 4
  BY KindsAre DEF Width
<1>5. /\ Little(Len(data)) \in ByteString /\ Len(Little(Len(data))) = 4
      /\ Number(Little(Len(data))) = Len(data)
  BY <1>1, NumberOfLittle
<1> QED
  BY <1>1, <1>4, <1>5, ScalarValue DEF ByteString

\* Zeros are bytes.
LEMMA ZerosIs ==
  ASSUME NEW n \in Nat
  PROVE  Zeros(n) \in [1..n -> Byte] /\ Zeros(n) \in ByteString /\ Len(Zeros(n)) = n
  BY DEF Zeros, ByteString, Byte

\* The id of a file is eight bytes.
LEMMA FileIdIs ==
  ASSUME NEW name \in ValuesOf("string")
  PROVE  FileId(name) \in ValuesOf("uint64")
<1>1. name \in Seq(Byte) /\ Len(name) \in Nat
  BY SomeValues
<1> DEFINE z == Zeros(8)
           s == name \o z
<1>2. z \in Seq(Byte) /\ Len(z) = 8
  BY ZerosIs DEF ByteString
<1> HIDE DEF z
<1>3. s \in Seq(Byte) /\ Len(s) = Len(name) + Len(z)
  BY <1>1, <1>2, JoinIs
<1> HIDE DEF s
<1>4. Len(s) >= 8 /\ Len(s) \in Nat
  BY <1>1, <1>2, <1>3
<1> DEFINE v == SubSeq(s, 1, 8)
<1>5. v \in ByteString /\ Len(v) = 8
  BY <1>3, <1>4 DEF ByteString
<1> HIDE DEF v
<1>6. "uint64" \in Scalars /\ Width["uint64"] = 8
  BY KindsAre DEF Width
<1>7. v \in ValuesOf("uint64")
  BY <1>5, <1>6, ScalarValue
<1> QED
  BY <1>7 DEF FileId, s, v, z

\* A description of a file is an object of its class.
LEMMA InfoIs ==
  ASSUME NEW name \in ValuesOf("string"), NEW data \in ValuesOf("blob"),
         NEW time \in ValuesOf("uint32"), NEW priv \in ValuesOf("bool"),
         NEW owner \in ValuesOf("uint64")
  PROVE  /\ IsObject(bdFileInfo, FileInfo(name, data, time, priv, owner))
         /\ Seen(bdFileInfo, <<FileInfo(name, data, time, priv, owner)>>) = Described(name, data)
<1> DEFINE l == Little(Len(data))
           id == FileId(name)
           o == <<l, id, time, time, priv, owner, name>>
<1>1. l \in ValuesOf("uint32") /\ Number(l) = Len(data) /\ id \in ValuesOf("uint64")
  BY BlobLength, FileIdIs
<1> HIDE DEF l, id
<1>2. /\ o = [i \in 1..7 |-> o[i]] /\ o[1] = l /\ o[2] = id /\ o[3] = time /\ o[4] = time
      /\ o[5] = priv /\ o[6] = owner /\ o[7] = name
  OBVIOUS
<1>3. FileInfo(name, data, time, priv, owner) = o
  BY DEF FileInfo, l, id
<1> HIDE DEF o
<1>4. /\ bdFileInfo \in Seq(Kinds) /\ Len(bdFileInfo) = 7
      /\ bdFileInfo[1] = "uint32" /\ bdFileInfo[2] = "uint64" /\ bdFileInfo[3] = "uint32"
      /\ bdFileInfo[4] = "uint32" /\ bdFileInfo[5] = "bool" /\ bdFileInfo[6] = "uint64"
      /\ bdFileInfo[7] = "string"
  <2>1. {"uint32", "uint64", "bool", "string"} \subseteq Kinds
    BY KindsAre
  <2> QED
    BY <2>1 DEF bdFileInfo
<1>5. ASSUME NEW i \in 1..7 PROVE o[i] \in ValuesOf(bdFileInfo[i])
  <2>1. i = 1 \/ i = 2 \/ i = 3 \/ i = 4 \/ i = 5 \/ i = 6 \/ i = 7
    OBVIOUS
  <2> QED
    BY <1>1, <1>2, <1>4, <2>1
<1>6. IsObject(bdFileInfo, o)
  BY <1>2, <1>4, <1>5 DEF IsObject
<1>7. bdFileInfo # bdFileData
  <2>1. Len(bdFileData) = 1
    BY DEF bdFileData
  <2> QED
    BY <1>4, <2>1
<1>8. Seen(bdFileInfo, <<o>>) = Described(name, data)
  <2> DEFINE objects == <<o>>
  <2>1. Len(objects) = 1 /\ DOMAIN objects = {1} /\ objects[1] = o
    OBVIOUS
  <2> HIDE DEF objects
  <2>2. [i \in DOMAIN objects |-> [name |-> objects[i][7], size |-> Number(objects[i][1])]]
          = <<[name |-> name, size |-> Len(data)]>>
    <3> DEFINE d == [name |-> name, size |-> Len(data)]
    <3>1. [name |-> objects[1][7], size |-> Number(objects[1][1])] = d
      BY <1>1, <1>2, <2>1
    <3> HIDE DEF d
    <3>2. [i \in DOMAIN objects |-> [name |-> objects[i][7], size |-> Number(objects[i][1])]]
            = [i \in {1} |-> d]
      BY <2>1, <3>1
    <3>3. [i \in {1} |-> d] = <<d>>
      OBVIOUS
    <3> QED
      BY <3>2, <3>3 DEF d
  <2> QED
    BY <1>7, <2>1, <2>2 DEF Seen, Described, objects
<1> QED
  BY <1>3, <1>6, <1>8

\* What a handler replies with is an object of its class, or none, or an error, and
\* that is what the game may expect.
Fits(class, r, a) ==
  /\ r.error \in Int31
  /\ r.error # 0 \/ r.objects = <<>> \/ \E o : r.objects = <<o>> /\ IsObject(class, o)
  /\ a = <<IF r.error # 0 THEN Failure(r.error) ELSE Seen(class, r.objects)>>

\* The game tells the classes apart.
LEMMA ClassesDiffer ==
  /\ bdFileInfo # bdFileData /\ bdTimeStamp # bdFileData /\ bdTimeStamp # bdFileInfo
  /\ Len(bdFileInfo) = 7 /\ Len(bdFileData) = 1 /\ <<>> # bdFileData /\ <<>> # bdFileInfo
<1>1. Len(bdFileInfo) = 7 /\ Len(bdFileData) = 1 /\ Len(bdTimeStamp) = 1 /\ Len(<<>>) = 0
  BY DEF bdFileInfo, bdFileData, bdTimeStamp
<1>2. bdFileData[1] = "blob" /\ bdTimeStamp[1] = "uint32"
  BY DEF bdFileData, bdTimeStamp
<1>3. bdFileInfo # bdFileData /\ bdTimeStamp # bdFileInfo
  BY <1>1
<1>4. bdTimeStamp # bdFileData
  BY <1>2
<1>5. <<>> # bdFileData /\ <<>> # bdFileInfo
  BY <1>1
<1> QED
  BY <1>1, <1>3, <1>4, <1>5

\* A reply without objects.
LEMMA NothingSeen ==
  ASSUME NEW class
  PROVE  Seen(class, <<>>) = Plain(0)
<1>1. Len(<<>>) = 0 /\ DOMAIN <<>> = {}
  OBVIOUS
<1>2. <<>> = [i \in {} |-> [name |-> (<<>>)[i][7], size |-> Number((<<>>)[i][1])]]
  OBVIOUS
<1>3. <<>> = [i \in {} |-> (<<>>)[i][1]]
  OBVIOUS
<1> QED
  BY <1>1, <1>2, <1>3 DEF Seen, Plain

\* A reply of which the game only counts the objects.
LEMMA OthersSeen ==
  ASSUME NEW class, class # bdFileInfo, class # bdFileData, NEW o
  PROVE  Seen(class, <<o>>) = Plain(1)
<1>1. Len(<<o>>) = 1
  OBVIOUS
<1> QED
  BY <1>1 DEF Seen, Plain

\* A handler that replies with no object.
LEMMA NothingFits ==
  ASSUME NEW class
  PROVE  Fits(class, Reply(0, <<>>), <<Plain(0)>>)
<1>1. Reply(0, <<>>).error = 0 /\ Reply(0, <<>>).objects = <<>>
  BY DEF Reply
<1> QED
  BY <1>1, NothingSeen, SmallNumbers DEF Fits

\* A description of a file.
LEMMA DescribedFits ==
  ASSUME NEW name \in ValuesOf("string"), NEW data \in ValuesOf("blob"),
         NEW time \in ValuesOf("uint32"), NEW priv \in ValuesOf("bool"),
         NEW owner \in ValuesOf("uint64"), NEW r, r.error = 0,
         r.objects = <<FileInfo(name, data, time, priv, owner)>>
  PROVE  Fits(bdFileInfo, r, <<Described(name, data)>>)
<1>1. /\ IsObject(bdFileInfo, FileInfo(name, data, time, priv, owner))
      /\ Seen(bdFileInfo, <<FileInfo(name, data, time, priv, owner)>>) = Described(name, data)
  BY InfoIs
<1> QED
  BY <1>1, SmallNumbers DEF Fits

\* The list of files, with the one that was asked for, if it exists.
LEMMA ListingFits ==
  ASSUME NEW name, NEW from, GoodFiles(from)
  PROVE  /\ Fits(bdFileInfo, Listing(name, from),
                 <<IF name \in DOMAIN from THEN Described(name, from[name]) ELSE Plain(0)>>)
         /\ Listing(name, from).writes = NoFile
<1> DEFINE o == FileInfo(name, from[name], NO_TIME, <<0>>, NOBODY)
<1>1. CASE name \in DOMAIN from
  <2>1. name \in ValuesOf("string") /\ from[name] \in ValuesOf("blob")
    BY <1>1 DEF GoodFiles
  <2>2. NO_TIME \in ValuesOf("uint32") /\ NOBODY \in ValuesOf("uint64")
    BY ZerosIs, SomeValues DEF NO_TIME, NOBODY
  <2>3. <<0>> \in ValuesOf("bool")
    BY SomeValues DEF Byte
  <2> HIDE DEF o
  <2>4. Listing(name, from) = Reply(0, <<o>>)
    BY <1>1 DEF Listing, o, NO_ERROR
  <2>5. Reply(0, <<o>>).error = 0 /\ Reply(0, <<o>>).objects = <<o>> /\ Reply(0, <<o>>).writes = NoFile
    BY DEF Reply
  <2>6. Fits(bdFileInfo, Listing(name, from), <<Described(name, from[name])>>)
    BY <2>1, <2>2, <2>3, <2>4, <2>5, DescribedFits DEF o
  <2> QED
    BY <1>1, <2>4, <2>5, <2>6
<1>2. CASE name \notin DOMAIN from
  <2>1. Listing(name, from) = Reply(0, <<>>)
    BY <1>2 DEF Listing, NO_ERROR
  <2>2. Reply(0, <<>>).writes = NoFile
    BY DEF Reply
  <2> QED
    BY <1>2, <2>1, <2>2, NothingFits
<1> QED
  BY <1>1, <1>2

\* The contents of a file.
LEMMA LoadedIs ==
  ASSUME NEW data \in ValuesOf("blob")
  PROVE  IsObject(bdFileData, <<data>>) /\ Seen(bdFileData, <<<<data>>>>) = Loaded(data)
<1> DEFINE o == <<data>>
           objects == <<o>>
<1>1. o = [i \in 1..1 |-> o[i]] /\ o[1] = data
  OBVIOUS
<1> HIDE DEF o
<1>2. bdFileData \in Seq(Kinds) /\ Len(bdFileData) = 1 /\ bdFileData[1] = "blob"
  BY KindsAre DEF bdFileData
<1>3. \A i \in 1..1 : o[i] \in ValuesOf(bdFileData[i])
  BY <1>1, <1>2
<1>4. IsObject(bdFileData, o)
  BY <1>1, <1>2, <1>3 DEF IsObject
<1>5. Len(objects) = 1 /\ DOMAIN objects = {1} /\ objects[1] = o
  OBVIOUS
<1> HIDE DEF objects
<1>6. [i \in DOMAIN objects |-> objects[i][1]] = <<data>>
  <2>1. [i \in DOMAIN objects |-> objects[i][1]] = [i \in {1} |-> data]
    BY <1>1, <1>5
  <2>2. [i \in {1} |-> data] = <<data>>
    OBVIOUS
  <2> QED
    BY <2>1, <2>2
<1>7. Seen(bdFileData, objects) = Loaded(data)
  BY <1>5, <1>6, ClassesDiffer DEF Seen, Loaded
<1> QED
  BY <1>4, <1>7 DEF o, objects

\* The contents of the file that was asked for, or an error.
LEMMA LoadingFits ==
  ASSUME NEW name, NEW from, GoodFiles(from)
  PROVE  /\ Fits(bdFileData, Loading(name, from),
                 <<IF name \in DOMAIN from THEN Loaded(from[name]) ELSE Failure(BD_NO_FILE)>>)
         /\ Loading(name, from).writes = NoFile
<1>1. CASE name \in DOMAIN from
  <2> DEFINE data == from[name]
             o == <<data>>
  <2>1. data \in ValuesOf("blob")
    BY <1>1 DEF GoodFiles
  <2> HIDE DEF data
  <2>2. IsObject(bdFileData, o) /\ Seen(bdFileData, <<o>>) = Loaded(data)
    BY <2>1, LoadedIs
  <2>3. Loading(name, from) = Reply(0, <<o>>)
    BY <1>1 DEF Loading, NO_ERROR, data
  <2> HIDE DEF o
  <2>4. Reply(0, <<o>>).error = 0 /\ Reply(0, <<o>>).objects = <<o>> /\ Reply(0, <<o>>).writes = NoFile
    BY DEF Reply
  <2>5. Fits(bdFileData, Loading(name, from), <<Loaded(data)>>)
    BY <2>2, <2>3, <2>4, SmallNumbers DEF Fits
  <2> QED
    BY <1>1, <2>3, <2>4, <2>5 DEF data
<1>2. CASE name \notin DOMAIN from
  <2>1. Loading(name, from) = Reply(1000, <<>>)
    BY <1>2 DEF Loading, BD_NO_FILE
  <2>2. Reply(1000, <<>>).error = 1000 /\ Reply(1000, <<>>).writes = NoFile
    BY DEF Reply
  <2>3. 1000 \in Int31
    BY SMT DEF Int31
  <2>4. 1000 # 0
    OBVIOUS
  <2> DEFINE e == 1000
  <2> HIDE DEF e
  <2>5. Fits(bdFileData, Loading(name, from), <<Failure(e)>>)
    BY <2>1, <2>2, <2>3, <2>4 DEF Fits, e
  <2> QED
    BY <1>2, <2>1, <2>2, <2>5 DEF e, BD_NO_FILE
<1> QED
  BY <1>1, <1>2

\* The description of the file that was written.
LEMMA WroteFits ==
  ASSUME NEW name \in ValuesOf("string"), NEW data \in ValuesOf("blob"),
         NEW priv \in ValuesOf("bool"), NEW owner \in ValuesOf("uint64"), NEW r,
         r = Wrote(name, data, <<FileInfo(name, data, Now, priv, owner)>>)
  PROVE  Fits(bdFileInfo, r, <<Described(name, data)>>) /\ r.writes = <<name, data>>
<1> DEFINE o == FileInfo(name, data, Now, priv, owner)
<1>1. Now \in ValuesOf("uint32")
  BY PublisherAssumption
<1> HIDE DEF o
<1>2. r.error = 0 /\ r.objects = <<o>> /\ r.writes = <<name, data>>
  BY DEF Wrote, NO_ERROR, o
<1>3. Fits(bdFileInfo, r, <<Described(name, data)>>)
  BY <1>1, <1>2, DescribedFits DEF o
<1> QED
  BY <1>2, <1>3

\* The time.
LEMMA TimeFits ==
  Fits(bdTimeStamp, Reply(0, <<<<Now>>>>), <<Plain(1)>>)
<1> DEFINE o == <<Now>>
<1>1. Now \in ValuesOf("uint32")
  BY PublisherAssumption
<1>2. o = [i \in 1..1 |-> o[i]] /\ o[1] = Now
  OBVIOUS
<1> HIDE DEF o
<1>3. bdTimeStamp \in Seq(Kinds) /\ Len(bdTimeStamp) = 1 /\ bdTimeStamp[1] = "uint32"
  BY KindsAre DEF bdTimeStamp
<1>4. IsObject(bdTimeStamp, o)
  BY <1>1, <1>2, <1>3 DEF IsObject
<1>5. Seen(bdTimeStamp, <<o>>) = Plain(1)
  BY ClassesDiffer, OthersSeen
<1>6. Reply(0, <<o>>).error = 0 /\ Reply(0, <<o>>).objects = <<o>>
  BY DEF Reply
<1>7. Fits(bdTimeStamp, Reply(0, <<o>>), <<Plain(1)>>)
  BY <1>4, <1>5, <1>6, SmallNumbers DEF Fits
<1> QED
  BY <1>7 DEF o

\* What is in front of other sequences.
LEMMA JoinFrontOf ==
  ASSUME NEW S, NEW a \in Seq(S), NEW b \in Seq(S)
  PROVE  InFrontOf(a, b)
  BY DEF InFrontOf

\* The kinds of the values about where the user is.
LEMMA RawDataIs ==
  ASSUME NEW c, c = bdDMLRawData
  PROVE  /\ c \in Seq(Kinds) /\ Len(c) = 8
         /\ c[1] = "string" /\ c[2] = "string" /\ c[3] = "string" /\ c[4] = "string"
         /\ c[5] = "float" /\ c[6] = "float" /\ c[7] = "uint32" /\ c[8] = "string"
<1> DEFINE a == bdDMLInfo
           b == <<"uint32", "string">>
<1>1. {"float", "uint32", "string"} \subseteq Kinds
  BY KindsAre
<1>2. /\ a \in Seq(Kinds) /\ Len(a) = 6 /\ a[1] = "string" /\ a[2] = "string"
      /\ a[3] = "string" /\ a[4] = "string" /\ a[5] = "float" /\ a[6] = "float"
  BY <1>1 DEF bdDMLInfo
<1>3. b \in Seq(Kinds) /\ Len(b) = 2 /\ b[1] = "uint32" /\ b[2] = "string"
  BY <1>1
<1>4. c = a \o b
  BY DEF bdDMLRawData
<1> HIDE DEF a, b
<1>5. c \in Seq(Kinds) /\ Len(c) = Len(a) + Len(b)
  BY <1>2, <1>3, <1>4, JoinIs
<1>6. InFrontOf(a, b) /\ BehindOf(a, b)
  BY <1>2, <1>3, JoinBehind, JoinFrontOf
<1>7. /\ \A i \in 1..6 : c[i] = a[i]
      /\ \A i \in 1..2 : c[6 + i] = b[i]
  BY <1>2, <1>3, <1>4, <1>6 DEF InFrontOf, BehindOf
<1>8. c[6 + 1] = b[1] /\ c[6 + 2] = b[2] /\ 6 + 1 = 7 /\ 6 + 2 = 8
  BY <1>7
<1>9. c[7] = b[1] /\ c[8] = b[2]
  BY <1>8, Zenon
<1>10. c[1] = a[1] /\ c[2] = a[2] /\ c[3] = a[3] /\ c[4] = a[4] /\ c[5] = a[5] /\ c[6] = a[6]
  BY <1>7
<1>11. Len(c) = 8
  BY <1>2, <1>3, <1>5
<1> QED
  BY <1>2, <1>3, <1>5, <1>9, <1>10, <1>11

\* Where the user is.
LEMMA RawDataFits ==
  ASSUME NEW q
  PROVE  Fits(bdDMLRawData, GetUserRawData(q), <<Plain(1)>>) /\ GetUserRawData(q).writes = NoFile
<1> DEFINE f == Zeros(4)
           o == <<<<77, 77>>, <<>>, <<78>>, <<78>>, f, f, <<25, 33, 0, 0>>, <<43>>>>
           r == GetUserRawData(q)
<1>1. r.error = 0 /\ r.objects = <<o>> /\ r.writes = NoFile
  BY DEF GetUserRawData, Reply, NO_ERROR
<1>2. f \in ValuesOf("float")
  BY ZerosIs, SomeValues
<1>3. <<77, 77>> \in ValuesOf("string") /\ <<>> \in ValuesOf("string")
      /\ <<78>> \in ValuesOf("string") /\ <<43>> \in ValuesOf("string")
  <2>1. 77 \in Byte \ {0} /\ 78 \in Byte \ {0} /\ 43 \in Byte \ {0}
    BY DEF Byte
  <2> DEFINE S == Byte \ {0}
  <2>2. 77 \in S /\ 78 \in S /\ 43 \in S
    BY <2>1
  <2> HIDE DEF S
  <2>3. <<77, 77>> \in Seq(S) /\ <<>> \in Seq(S) /\ <<78>> \in Seq(S) /\ <<43>> \in Seq(S)
    BY <2>2
  <2> QED
    BY <2>3, SomeValues DEF S
<1>4. <<25, 33, 0, 0>> \in ValuesOf("uint32")
  BY SomeValues DEF Byte
<1> HIDE DEF r, f
<1>5. /\ o = [i \in 1..8 |-> o[i]] /\ o[1] = <<77, 77>> /\ o[2] = <<>> /\ o[3] = <<78>>
      /\ o[4] = <<78>> /\ o[5] = f /\ o[6] = f /\ o[7] = <<25, 33, 0, 0>> /\ o[8] = <<43>>
  OBVIOUS
<1> HIDE DEF o
<1> DEFINE c == bdDMLRawData
<1> HIDE DEF c
<1>6. /\ c \in Seq(Kinds) /\ Len(c) = 8 /\ c[1] = "string" /\ c[2] = "string" /\ c[3] = "string"
      /\ c[4] = "string" /\ c[5] = "float" /\ c[6] = "float" /\ c[7] = "uint32" /\ c[8] = "string"
  BY RawDataIs DEF c
<1>7. ASSUME NEW i \in 1..8 PROVE o[i] \in ValuesOf(c[i])
  <2>1. o[1] \in ValuesOf(c[1]) /\ o[2] \in ValuesOf(c[2]) /\ o[3] \in ValuesOf(c[3])
    BY <1>3, <1>5, <1>6
  <2>2. o[4] \in ValuesOf(c[4]) /\ o[8] \in ValuesOf(c[8])
    BY <1>3, <1>5, <1>6
  <2>3. o[5] \in ValuesOf(c[5]) /\ o[6] \in ValuesOf(c[6]) /\ o[7] \in ValuesOf(c[7])
    BY <1>2, <1>4, <1>5, <1>6
  <2>4. i = 1 \/ i = 2 \/ i = 3 \/ i = 4 \/ i = 5 \/ i = 6 \/ i = 7 \/ i = 8
    OBVIOUS
  <2> QED
    BY <2>1, <2>2, <2>3, <2>4
<1>8. IsObject(c, o)
  BY <1>5, <1>6, <1>7 DEF IsObject
<1>9. c # bdFileInfo /\ c # bdFileData
  <2>1. Len(c) = 8 /\ Len(bdFileInfo) = 7 /\ Len(bdFileData) = 1
    BY <1>6, ClassesDiffer
  <2> QED
    BY <2>1
<1>10. Seen(c, <<o>>) = Plain(1)
  BY <1>9, OthersSeen
<1>11. Fits(c, r, <<Plain(1)>>)
  BY <1>1, <1>8, <1>10, SmallNumbers DEF Fits
<1> QED
  BY <1>1, <1>11 DEF c, r

\* An argument is of the kind that the handler reads.
LEMMA ArgIs ==
  ASSUME NEW q, IsRequest(q), NEW i \in 1..Len(Form(q.op).args)
  PROVE  q.args[i] \in ValuesOf(Form(q.op).args[i])
<1>1. /\ q.args \in Seq(Seq(Byte)) /\ Len(q.args) = Len(Form(q.op).args)
      /\ \A j \in DOMAIN q.args : q.args[j] \in ValuesOf(Form(q.op).args[j])
  BY DEF IsRequest
<1>2. DOMAIN q.args = 1..Len(q.args)
  BY <1>1
<1> QED
  BY <1>1, <1>2

\* What the game may expect, request by request.
LEMMA AnswersAre ==
  ASSUME NEW q, NEW store
  PROVE  /\ q.op = "hello" => Answer(q, store) = <<>>
         /\ IsWrite(q) => Answer(q, store) = <<Described(FileOf(q), ContentsOf(q))>>
         /\ q.op \in {"get_user_file", "get_legacy_user_file"} =>
              Answer(q, store) =
                <<IF FileOf(q) \in DOMAIN store THEN Loaded(store[FileOf(q)]) ELSE Failure(BD_NO_FILE)>>
         /\ q.op = "get_publisher_file" =>
              Answer(q, store) =
                <<IF FileOf(q) \in DOMAIN Publisher THEN Loaded(Publisher[FileOf(q)])
                  ELSE Failure(BD_NO_FILE)>>
         /\ q.op = "list_legacy_user_files" =>
              Answer(q, store) =
                <<IF FileOf(q) \in DOMAIN store THEN Described(FileOf(q), store[FileOf(q)]) ELSE Plain(0)>>
         /\ q.op = "list_publisher_files" =>
              Answer(q, store) =
                <<IF FileOf(q) \in DOMAIN Publisher THEN Described(FileOf(q), Publisher[FileOf(q)])
                  ELSE Plain(0)>>
         /\ q.op \in {"get_server_time", "get_user_raw_data"} => Answer(q, store) = <<Plain(1)>>
         /\ q.op \in {"delete_user_file", "no_service", "no_callback", "keep_alive", "connect"} =>
              Answer(q, store) = <<Plain(0)>>
<1>1. ASSUME q.op = "hello" PROVE Answer(q, store) = <<>>
  BY <1>1 DEF Answer, IsWrite
<1>2. ASSUME IsWrite(q) PROVE Answer(q, store) = <<Described(FileOf(q), ContentsOf(q))>>
  BY <1>2 DEF Answer, IsWrite
<1>3. ASSUME q.op \in {"get_user_file", "get_legacy_user_file"}
      PROVE  Answer(q, store) =
               <<IF FileOf(q) \in DOMAIN store THEN Loaded(store[FileOf(q)]) ELSE Failure(BD_NO_FILE)>>
  BY <1>3 DEF Answer, IsWrite
<1>4. ASSUME q.op = "get_publisher_file"
      PROVE  Answer(q, store) =
               <<IF FileOf(q) \in DOMAIN Publisher THEN Loaded(Publisher[FileOf(q)])
                 ELSE Failure(BD_NO_FILE)>>
  BY <1>4 DEF Answer, IsWrite
<1>5. ASSUME q.op = "list_legacy_user_files"
      PROVE  Answer(q, store) =
               <<IF FileOf(q) \in DOMAIN store THEN Described(FileOf(q), store[FileOf(q)]) ELSE Plain(0)>>
  BY <1>5 DEF Answer, IsWrite
<1>6. ASSUME q.op = "list_publisher_files"
      PROVE  Answer(q, store) =
               <<IF FileOf(q) \in DOMAIN Publisher THEN Described(FileOf(q), Publisher[FileOf(q)])
                 ELSE Plain(0)>>
  BY <1>6 DEF Answer, IsWrite
<1>7. ASSUME q.op \in {"get_server_time", "get_user_raw_data"}
      PROVE  Answer(q, store) = <<Plain(1)>>
  BY <1>7 DEF Answer, IsWrite
<1>8. ASSUME q.op \in {"delete_user_file", "no_service", "no_callback", "keep_alive", "connect"}
      PROVE  Answer(q, store) = <<Plain(0)>>
  BY <1>8 DEF Answer, IsWrite
<1> QED
  BY <1>1, <1>2, <1>3, <1>4, <1>5, <1>6, <1>7, <1>8

\* Each callback has its handler.
LEMMA HandlersAre ==
  ASSUME NEW a, NEW seen
  PROVE  /\ Handled("set_legacy_user_file", a, seen) = SetLegacyUserFile(a)
         /\ Handled("get_legacy_user_file", a, seen) = GetLegacyUserFile(a, seen)
         /\ Handled("list_legacy_user_files", a, seen) = ListLegacyUserFiles(a, seen)
         /\ Handled("list_publisher_files", a, seen) = ListPublisherFiles(a)
         /\ Handled("get_publisher_file", a, seen) = GetPublisherFile(a)
         /\ Handled("set_user_file", a, seen) = SetUserFile(a)
         /\ Handled("delete_user_file", a, seen) = DeleteUserFile(a)
         /\ Handled("get_user_file", a, seen) = GetUserFile(a, seen)
         /\ Handled("get_server_time", a, seen) = GetServerTime(a)
         /\ Handled("get_user_raw_data", a, seen) = GetUserRawData(a)
<1>1. Handled("set_legacy_user_file", a, seen) = SetLegacyUserFile(a)
  BY DEF Handled
<1>2. Handled("get_legacy_user_file", a, seen) = GetLegacyUserFile(a, seen)
  BY DEF Handled
<1>3. Handled("list_legacy_user_files", a, seen) = ListLegacyUserFiles(a, seen)
  BY DEF Handled
<1>4. Handled("list_publisher_files", a, seen) = ListPublisherFiles(a)
  BY DEF Handled
<1>5. Handled("get_publisher_file", a, seen) = GetPublisherFile(a)
  BY DEF Handled
<1>6. Handled("set_user_file", a, seen) = SetUserFile(a)
  BY DEF Handled
<1>7. Handled("delete_user_file", a, seen) = DeleteUserFile(a)
  BY DEF Handled
<1>8. Handled("get_user_file", a, seen) = GetUserFile(a, seen)
  BY DEF Handled
<1>9. Handled("get_server_time", a, seen) = GetServerTime(a)
  BY DEF Handled
<1>10. Handled("get_user_raw_data", a, seen) = GetUserRawData(a)
  BY DEF Handled
<1> QED
  BY <1>1, <1>2, <1>3, <1>4, <1>5, <1>6, <1>7, <1>8, <1>9, <1>10

\* Which argument is the name of a file, and which the contents.
LEMMA NamesAre ==
  ASSUME NEW q
  PROVE  /\ q.op = "set_legacy_user_file" => FileOf(q) = q.args[1] /\ ContentsOf(q) = q.args[3]
         /\ q.op = "set_user_file" => FileOf(q) = q.args[2] /\ ContentsOf(q) = q.args[4]
         /\ q.op = "get_legacy_user_file" => FileOf(q) = q.args[1]
         /\ q.op = "list_legacy_user_files" => FileOf(q) = q.args[5]
         /\ q.op = "list_publisher_files" => FileOf(q) = q.args[4]
         /\ q.op = "get_publisher_file" => FileOf(q) = q.args[1]
         /\ q.op = "get_user_file" => FileOf(q) = q.args[2]
  BY DEF FileOf, ContentsOf, NameAt

\* The work of a handler is right.
Writes(q, r) ==
  IF IsWrite(q)
    THEN /\ r.writes = <<FileOf(q), ContentsOf(q)>>
         /\ FileOf(q) \in ValuesOf("string") /\ ContentsOf(q) \in ValuesOf("blob")
    ELSE r.writes = NoFile
Right(q, r, seen) == Fits(Form(q.op).class, r, Answer(q, seen)) /\ Writes(q, r)

\* Every handler does so.
LEMMA HandledRight ==
  ASSUME NEW q, IsRequest(q), q.op \in DOMAIN Callbacks, NEW seen, GoodFiles(seen)
  PROVE  Right(q, Handled(q.op, q.args, seen), seen)
<1> DEFINE a == q.args
           r == Handled(q.op, a, seen)
<1>0. GoodFiles(Publisher)
  BY PublisherAssumption DEF GoodFiles
<1>1. CASE q.op = "set_legacy_user_file"
  <2>1. Form(q.op).args = <<"string", "bool", "blob">> /\ Form(q.op).class = bdFileInfo
    BY <1>1, FormsAre DEF Entry
  <2> DEFINE f == Form(q.op).args
  <2>0. \A i \in 1..Len(f) : a[i] \in ValuesOf(f[i])
    BY ArgIs
  <2>9. Len(f) = 3 /\ f[1] = "string" /\ f[2] = "bool" /\ f[3] = "blob"
    BY <2>1
  <2> HIDE DEF f
  <2>2. a[1] \in ValuesOf("string") /\ a[2] \in ValuesOf("bool") /\ a[3] \in ValuesOf("blob")
    BY <2>0, <2>9
  <2>3. NOBODY \in ValuesOf("uint64")
    BY ZerosIs, SomeValues DEF NOBODY
  <2>4. r = Wrote(a[1], a[3], <<FileInfo(a[1], a[3], Now, a[2], NOBODY)>>)
    BY <1>1, HandlersAre DEF SetLegacyUserFile
  <2>5. IsWrite(q) /\ FileOf(q) = a[1] /\ ContentsOf(q) = a[3]
    BY <1>1, NamesAre DEF IsWrite
  <2>6. Answer(q, seen) = <<Described(a[1], a[3])>>
    BY <2>5, AnswersAre
  <2> HIDE DEF r, a
  <2>7. Fits(bdFileInfo, r, <<Described(a[1], a[3])>>) /\ r.writes = <<a[1], a[3]>>
    BY <2>2, <2>3, <2>4, WroteFits
  <2> QED
    BY <2>1, <2>2, <2>5, <2>6, <2>7 DEF Right, Writes, r, a
<1>2. CASE q.op = "set_user_file"
  <2>1. /\ Form(q.op).args = <<"string", "string", "bool", "blob", "uint64">>
        /\ Form(q.op).class = bdFileInfo
    BY <1>2, FormsAre DEF Entry
  <2> DEFINE f == Form(q.op).args
  <2>0. \A i \in 1..Len(f) : a[i] \in ValuesOf(f[i])
    BY ArgIs
  <2>9. Len(f) = 5 /\ f[2] = "string" /\ f[3] = "bool" /\ f[4] = "blob" /\ f[5] = "uint64"
    BY <2>1
  <2> HIDE DEF f
  <2>2. /\ a[2] \in ValuesOf("string") /\ a[3] \in ValuesOf("bool") /\ a[4] \in ValuesOf("blob")
        /\ a[5] \in ValuesOf("uint64")
    BY <2>0, <2>9
  <2>4. r = Wrote(a[2], a[4], <<FileInfo(a[2], a[4], Now, a[3], a[5])>>)
    BY <1>2, HandlersAre DEF SetUserFile
  <2>5. IsWrite(q) /\ FileOf(q) = a[2] /\ ContentsOf(q) = a[4]
    BY <1>2, NamesAre DEF IsWrite
  <2>6. Answer(q, seen) = <<Described(a[2], a[4])>>
    BY <2>5, AnswersAre
  <2> HIDE DEF r, a
  <2>7. Fits(bdFileInfo, r, <<Described(a[2], a[4])>>) /\ r.writes = <<a[2], a[4]>>
    BY <2>2, <2>4, WroteFits
  <2> QED
    BY <2>1, <2>2, <2>5, <2>6, <2>7 DEF Right, Writes, r, a
<1>3. CASE q.op = "get_legacy_user_file"
  <2>1. Form(q.op).class = bdFileData /\ ~IsWrite(q)
    BY <1>3, FormsAre DEF Entry, IsWrite
  <2>2. r = Loading(FileOf(q), seen)
    BY <1>3, HandlersAre, NamesAre DEF GetLegacyUserFile
  <2> QED
    BY <1>3, <2>1, <2>2, AnswersAre, LoadingFits DEF Right, Writes
<1>4. CASE q.op = "get_user_file"
  <2>1. Form(q.op).class = bdFileData /\ ~IsWrite(q)
    BY <1>4, FormsAre DEF Entry, IsWrite
  <2>2. r = Loading(FileOf(q), seen)
    BY <1>4, HandlersAre, NamesAre DEF GetUserFile
  <2> QED
    BY <1>4, <2>1, <2>2, AnswersAre, LoadingFits DEF Right, Writes
<1>5. CASE q.op = "get_publisher_file"
  <2>1. Form(q.op).class = bdFileData /\ ~IsWrite(q)
    BY <1>5, FormsAre DEF Entry, IsWrite
  <2>2. r = Loading(FileOf(q), Publisher)
    BY <1>5, HandlersAre, NamesAre DEF GetPublisherFile
  <2> QED
    BY <1>0, <1>5, <2>1, <2>2, AnswersAre, LoadingFits DEF Right, Writes
<1>6. CASE q.op = "list_legacy_user_files"
  <2>1. Form(q.op).class = bdFileInfo /\ ~IsWrite(q)
    BY <1>6, FormsAre DEF Entry, IsWrite
  <2>2. r = Listing(FileOf(q), seen)
    BY <1>6, HandlersAre, NamesAre DEF ListLegacyUserFiles
  <2> QED
    BY <1>6, <2>1, <2>2, AnswersAre, ListingFits DEF Right, Writes
<1>7. CASE q.op = "list_publisher_files"
  <2>1. Form(q.op).class = bdFileInfo /\ ~IsWrite(q)
    BY <1>7, FormsAre DEF Entry, IsWrite
  <2>2. r = Listing(FileOf(q), Publisher)
    BY <1>7, HandlersAre, NamesAre DEF ListPublisherFiles
  <2> QED
    BY <1>0, <1>7, <2>1, <2>2, AnswersAre, ListingFits DEF Right, Writes
<1>8. CASE q.op = "delete_user_file"
  <2>1. Form(q.op).class = bdFileInfo /\ ~IsWrite(q)
    BY <1>8, FormsAre DEF Entry, IsWrite
  <2>2. r = Reply(0, <<>>) /\ r.writes = NoFile
    BY <1>8, HandlersAre DEF DeleteUserFile, NO_ERROR, Reply
  <2>3. Answer(q, seen) = <<Plain(0)>>
    BY <1>8, AnswersAre
  <2> HIDE DEF r
  <2> QED
    BY <2>1, <2>2, <2>3, NothingFits DEF Right, Writes, r
<1>9. CASE q.op = "get_server_time"
  <2>1. Form(q.op).class = bdTimeStamp /\ ~IsWrite(q)
    BY <1>9, FormsAre DEF Entry, IsWrite
  <2>2. r = Reply(0, <<<<Now>>>>) /\ r.writes = NoFile
    BY <1>9, HandlersAre DEF GetServerTime, NO_ERROR, Reply
  <2>3. Answer(q, seen) = <<Plain(1)>>
    BY <1>9, AnswersAre
  <2> HIDE DEF r
  <2> QED
    BY <2>1, <2>2, <2>3, TimeFits DEF Right, Writes, r
<1>10. CASE q.op = "get_user_raw_data"
  <2>1. Form(q.op).class = bdDMLRawData /\ ~IsWrite(q)
    BY <1>10, FormsAre DEF Entry, IsWrite
  <2>2. r = GetUserRawData(a)
    BY <1>10, HandlersAre
  <2>3. Answer(q, seen) = <<Plain(1)>>
    BY <1>10, AnswersAre
  <2> QED
    BY <2>1, <2>2, <2>3, RawDataFits DEF Right, Writes
<1> QED
  BY <1>1, <1>2, <1>3, <1>4, <1>5, <1>6, <1>7, <1>8, <1>9, <1>10, OpsAre

\* What a request may leave of the files when it is stopped is what the store says
\* of it.
LEMMA BegunServed ==
  ASSUME NEW q, NEW r, Writes(q, r), GoodFiles(files)
  PROVE  Begun(r.writes) = Store!Begun(q) /\ \A f \in Begun(r.writes) : GoodFiles(f)
<1>1. CASE IsWrite(q)
  <2> DEFINE name == FileOf(q)
             data == ContentsOf(q)
             file == <<name, data>>
  <2>1. r.writes = file /\ name \in ValuesOf("string") /\ data \in ValuesOf("blob")
    BY <1>1 DEF Writes
  <2>2. file # NoFile /\ file[1] = name /\ file[2] = data
    BY DEF NoFile
  <2> HIDE DEF file
  <2>3. Begun(r.writes) = {files} \cup {Kept(name, SubSeq(data, 1, n)) : n \in 0..Len(data)}
    BY <2>1, <2>2 DEF Begun
  <2>4. Store!Begun(q) = {files} \cup {Kept(name, SubSeq(data, 1, n)) : n \in 0..Len(data)}
    BY <1>1 DEF Store!Begun, Store!Kept, Kept
  <2>5. ASSUME NEW n \in 0..Len(data) PROVE GoodFiles(Kept(name, SubSeq(data, 1, n)))
    <3> DEFINE s == SubSeq(data, 1, n)
    <3>1. data \in Seq(Byte) /\ Len(data) \in Int31
      BY <2>1, BlobsAre
    <3>2. s \in Seq(Byte) /\ Len(s) = n
      BY <3>1
    <3>3. n \in Int31
      BY <3>1, SMT DEF Int31
    <3>4. s \in ValuesOf("blob")
      BY <3>2, <3>3, BlobsAre
    <3> HIDE DEF s, name, data
    <3>5. Kept(name, s) = [f \in DOMAIN files \cup {name} |-> IF f = name THEN s ELSE files[f]]
      BY DEF Kept
    <3>6. \A f \in DOMAIN files : f \in ValuesOf("string") /\ files[f] \in ValuesOf("blob")
      BY DEF GoodFiles
    <3>7. GoodFiles([f \in DOMAIN files \cup {name} |-> IF f = name THEN s ELSE files[f]])
      BY <2>1, <3>4, <3>6 DEF GoodFiles
    <3> QED
      BY <3>5, <3>7 DEF s
  <2> HIDE DEF name, data
  <2> QED
    BY <2>3, <2>4, <2>5
<1>2. CASE ~IsWrite(q)
  <2>1. Begun(r.writes) = {files}
    BY <1>2 DEF Begun, Writes
  <2>2. Store!Begun(q) = {files}
    BY <1>2 DEF Store!Begun
  <2> QED
    BY <2>1, <2>2
<1> QED
  BY <1>1, <1>2

\* What a request may leave of them is what the store says.
LEMMA WrittenServed ==
  ASSUME NEW q, NEW r, Writes(q, r), GoodFiles(files)
  PROVE  Written(r.writes) = Store!Served(q) /\ \A f \in Written(r.writes) : GoodFiles(f)
<1>1. Begun(r.writes) = Store!Begun(q) /\ \A f \in Begun(r.writes) : GoodFiles(f)
  BY BegunServed
<1>2. CASE ~sound
  BY <1>1, <1>2 DEF Written, Store!Served
<1>3. CASE sound /\ IsWrite(q)
  <2> DEFINE name == FileOf(q)
             data == ContentsOf(q)
             file == <<name, data>>
  <2>1. r.writes = file /\ data \in ValuesOf("blob")
    BY <1>3 DEF Writes
  <2>2. file # NoFile /\ file[1] = name /\ file[2] = data
    BY DEF NoFile
  <2> HIDE DEF file
  <2>3. Written(r.writes) = {Kept(name, data)}
    BY <1>3, <2>1, <2>2 DEF Written
  <2>4. Store!Served(q) = {Kept(name, data)}
    BY <1>3 DEF Store!Served, Store!Kept, Kept
  <2>5. Kept(name, data) \in Begun(r.writes)
    <3>1. data \in Seq(Byte)
      BY <2>1, BlobsAre
    <3> HIDE DEF name, data
    <3>2. SubSeq(data, 1, Len(data)) = data /\ Len(data) \in 0..Len(data)
      BY <3>1
    <3>3. Kept(name, SubSeq(data, 1, Len(data))) \in Begun(r.writes)
      BY <2>1, <2>2, <3>2 DEF Begun
    <3> QED
      BY <3>2, <3>3
  <2> QED
    BY <1>1, <2>3, <2>4, <2>5
<1>4. CASE sound /\ ~IsWrite(q)
  <2>1. r.writes = NoFile
    BY <1>4 DEF Writes
  <2>2. Written(r.writes) = {files}
    BY <1>4, <2>1 DEF Written
  <2>3. Store!Served(q) = {files}
    BY <1>4 DEF Store!Served
  <2> QED
    BY <2>2, <2>3
<1> QED
  BY <1>2, <1>3, <1>4

\* What a request may see of the files is what the store says, and can be sent.
LEMMA ViewsAre ==
  ASSUME GoodFiles(files)
  PROVE  Views = Store!Views /\ files \in Views /\ \A seen \in Views : GoodFiles(seen)
<1>1. Views = Store!Views /\ files \in Views
  BY DEF Views, Store!Views, Cut, Store!Cut
<1>2. ASSUME NEW n PROVE GoodFiles([f \in DOMAIN files |-> Cut(files[f], n)])
  <2> DEFINE seen == [f \in DOMAIN files |-> Cut(files[f], n)]
  <2>1. ASSUME NEW f \in DOMAIN files PROVE Cut(files[f], n) \in ValuesOf("blob")
    <3> DEFINE data == files[f]
    <3>1. data \in Seq(Byte) /\ Len(data) \in Int31
      BY BlobsAre DEF GoodFiles
    <3> HIDE DEF data
    <3>2. DOMAIN data = 1..Len(data) /\ \A i \in DOMAIN data : data[i] \in Byte
      BY <3>1
    <3>3. 0 \in Byte
      BY DEF Byte
    <3>4. Cut(data, n) = [i \in 1..Len(data) |-> IF i <= n THEN data[i] ELSE 0]
      BY <3>2 DEF Cut
    <3>5. \A i \in 1..Len(data) : (IF i <= n THEN data[i] ELSE 0) \in Byte
      BY <3>2, <3>3
    <3>6. [i \in 1..Len(data) |-> IF i <= n THEN data[i] ELSE 0] \in [1..Len(data) -> Byte]
      BY <3>5
    <3>7. Len(data) \in Nat
      BY <3>1
    <3>8. Cut(data, n) \in Seq(Byte) /\ Len(Cut(data, n)) = Len(data)
      <4> DEFINE c == Cut(data, n)
                 l == Len(data)
      <4>1. c \in [1..l -> Byte] /\ l \in Nat
        BY <3>4, <3>6, <3>7
      <4> HIDE DEF c, l
      <4>2. c \in Seq(Byte) /\ Len(c) = l
        BY <4>1
      <4> QED
        BY <4>2 DEF c, l
    <3>9. Cut(data, n) \in ValuesOf("blob")
      BY <3>1, <3>8, BlobsAre
    <3> QED
      BY <3>9 DEF data
  <2>2. DOMAIN seen = DOMAIN files /\ \A f \in DOMAIN files : seen[f] = Cut(files[f], n)
    OBVIOUS
  <2> HIDE DEF seen
  <2>3. GoodFiles(seen)
    BY <2>1, <2>2 DEF GoodFiles
  <2> QED
    BY <2>3 DEF seen
<1>3. GoodFiles(<<>>)
  <2>1. DOMAIN <<>> = {}
    OBVIOUS
  <2> QED
    BY <2>1 DEF GoodFiles
<1>4. ASSUME NEW seen \in Views PROVE GoodFiles(seen)
  <2>1. \/ seen = files
        \/ seen = <<>>
        \/ \E n \in UNION {0..Len(files[f]) : f \in DOMAIN files} :
             seen = [f \in DOMAIN files |-> Cut(files[f], n)]
    BY DEF Views
  <2> QED
    BY <1>2, <1>3, <2>1
<1> QED
  BY <1>1, <1>4

-----------------------------------------------------------------------------
(* The messages of a packet, one after another.                            *)

\* f holds the first n steps of flattening s.
Spliced(f, s, n) == f = [i \in 1..n |-> IF i = 1 THEN s[i] ELSE f[i - 1] \o s[i]]

\* One step more.
LEMMA SplicedMore ==
  ASSUME NEW s \in Seq(Numbers), NEW n \in Nat, NEW f, Spliced(f, s, n)
  PROVE  \E g : Spliced(g, s, n + 1)
<1> DEFINE g == [i \in 1..(n + 1) |->
                   IF i <= n THEN f[i] ELSE IF i = 1 THEN s[i] ELSE f[i - 1] \o s[i]]
<1>1. ASSUME NEW i \in 1..(n + 1)
      PROVE  g[i] = IF i = 1 THEN s[i] ELSE g[i - 1] \o s[i]
  <2>1. \A j \in 1..n : f[j] = IF j = 1 THEN s[j] ELSE f[j - 1] \o s[j]
    BY DEF Spliced
  <2>2. i # 1 => i - 1 \in 1..n /\ g[i - 1] = f[i - 1]
    OBVIOUS
  <2> QED
    BY <2>1, <2>2
<1>2. g = [i \in 1..(n + 1) |-> g[i]]
  OBVIOUS
<1>3. Spliced(g, s, n + 1)
  <2> HIDE DEF g
  <2> QED
    BY <1>1, <1>2 DEF Spliced
<1> QED
  BY <1>3

\* There are as many steps as parts.
LEMMA SplicedExists ==
  ASSUME NEW s \in Seq(Numbers), NEW n \in Nat
  PROVE  \E f : Spliced(f, s, n)
<1> DEFINE S == {m \in Nat : \E f : Spliced(f, s, m)}
<1>1. 0 \in S
  <2>1. Spliced(<<>>, s, 0)
    <3>1. [i \in 1..0 |-> IF i = 1 THEN s[i] ELSE (<<>>)[i - 1] \o s[i]] = <<>>
      OBVIOUS
    <3> QED
      BY <3>1 DEF Spliced
  <2> QED
    BY <2>1
<1>2. \A m \in S : m + 1 \in S
  BY SplicedMore
<1>3. S = Nat
  <2> HIDE DEF S
  <2>1. S \in SUBSET Nat
    BY DEF S
  <2> QED
    BY <1>1, <1>2, <2>1, Induction
<1> QED
  BY <1>3

\* The last step is the whole.
LEMMA SplicedIs ==
  ASSUME NEW s \in Seq(Numbers), s # <<>>
  PROVE  \E f : Spliced(f, s, Len(s)) /\ FlattenSeq(s) = f[Len(s)]
<1> DEFINE f == CHOOSE flatten : Spliced(flatten, s, Len(s))
<1>1. Len(s) # 0 /\ Len(s) \in Nat
  OBVIOUS
<1>2. Spliced(f, s, Len(s))
  BY <1>1, SplicedExists
<1>3. FlattenSeq(s) = f[Len(s)]
  BY <1>1 DEF FlattenSeq, Spliced
<1> QED
  BY <1>2, <1>3

\* Every step is a sequence of numbers.
LEMMA SplicedType ==
  ASSUME NEW s \in Seq(Numbers), NEW f, Spliced(f, s, Len(s))
  PROVE  \A i \in 1..Len(s) : f[i] \in Numbers
<1> DEFINE S == {n \in Nat : n \in 1..Len(s) => f[n] \in Numbers}
<1>0. Len(s) \in Nat /\ \A i \in 1..Len(s) : s[i] \in Numbers
  OBVIOUS
<1>1. ASSUME NEW n \in S PROVE n + 1 \in S
  <2>1. \A i \in 1..Len(s) : f[i] = IF i = 1 THEN s[i] ELSE f[i - 1] \o s[i]
    BY DEF Spliced
  <2>2. CASE n + 1 \in 1..Len(s) /\ n # 0
    <3>0. n \in Nat /\ n \in 1..Len(s) /\ f[n] \in Numbers
      BY <1>0, <2>2
    <3> HIDE DEF S
    <3>1. f[n + 1] = f[n] \o s[n + 1]
      <4>1. f[n + 1] = IF n + 1 = 1 THEN s[n + 1] ELSE f[n + 1 - 1] \o s[n + 1]
        BY <2>1, <2>2, <3>0
      <4>2. n + 1 # 1 /\ n + 1 - 1 = n
        BY <2>2, <3>0
      <4> QED
        BY <4>1, <4>2
    <3>2. f[n + 1] \in Numbers
      <4>1. s[n + 1] \in Numbers
        BY <1>0, <2>2
      <4> QED
        BY <3>0, <3>1, <4>1, NumbersJoin
    <3> QED
      BY <3>0, <3>2 DEF S
  <2> QED
    BY <1>0, <2>1, <2>2
<1>2. S \in SUBSET Nat /\ 0 \in S
  BY <1>0
<1> HIDE DEF S
<1>3. S = Nat
  BY <1>1, <1>2, Induction
<1> QED
  BY <1>0, <1>3 DEF S

\* All but the first part, in front of which the first stands.
Fronted(f, c, g, n) == f[n + 1] = c \o g[n]

\* Flattening all but the first part leaves out the first part.
LEMMA SplicedTail ==
  ASSUME NEW s \in Seq(Numbers), NEW t \in Seq(Numbers), NEW f, NEW g, NEW l \in Nat,
         Len(s) = l + 1, Len(t) = l, \A i \in 1..l : t[i] = s[i + 1],
         Spliced(f, s, l + 1), Spliced(g, t, l)
  PROVE  \A n \in 1..l : Fronted(f, s[1], g, n)
<1> DEFINE c == s[1]
           S == {n \in Nat : n + 1 \in 1..l => Fronted(f, c, g, n + 1)}
<1>0. (\A i \in 1..(l + 1) : s[i] \in Numbers) /\ \A i \in 1..l : t[i] \in Numbers
  OBVIOUS
<1>1. /\ \A i \in 1..(l + 1) : f[i] = IF i = 1 THEN s[i] ELSE f[i - 1] \o s[i]
      /\ \A i \in 1..l : g[i] = IF i = 1 THEN t[i] ELSE g[i - 1] \o t[i]
  BY DEF Spliced
<1>2. \A i \in 1..l : g[i] \in Numbers
  BY SplicedType
<1>3. c \in Numbers /\ f[1] = c
  BY <1>0, <1>1
<1>4. ASSUME NEW i \in 1..l
      PROVE  f[i + 1] = f[i] \o t[i]
  <2>1. i + 1 \in 1..(l + 1) /\ i + 1 # 1 /\ (i + 1) - 1 = i
    OBVIOUS
  <2>2. f[i + 1] = IF i + 1 = 1 THEN s[i + 1] ELSE f[(i + 1) - 1] \o s[i + 1]
    BY <1>1, <2>1
  <2>3. f[i + 1] = f[i] \o s[i + 1]
    BY <2>1, <2>2
  <2> QED
    BY <2>3
<1> HIDE DEF c
<1>5. 1 \in 1..l => Fronted(f, c, g, 1)
  <2> SUFFICES ASSUME 1 \in 1..l PROVE Fronted(f, c, g, 1)
    OBVIOUS
  <2>1. f[1 + 1] = f[1] \o t[1]
    BY <1>4, Zenon
  <2>2. g[1] = t[1]
    BY <1>1
  <2> QED
    BY <1>3, <2>1, <2>2, Zenon DEF Fronted
<1>6. ASSUME NEW n \in 1..l, Fronted(f, c, g, n), n + 1 \in 1..l
      PROVE  Fronted(f, c, g, n + 1)
  <2>1. f[(n + 1) + 1] = f[n + 1] \o t[n + 1]
    BY <1>4, <1>6, Zenon
  <2>2. f[n + 1] = c \o g[n]
    BY <1>6 DEF Fronted
  <2>3. g[n + 1] = g[n] \o t[n + 1]
    <3>1. n + 1 # 1 /\ (n + 1) - 1 = n
      OBVIOUS
    <3>2. g[n + 1] = IF n + 1 = 1 THEN t[n + 1] ELSE g[(n + 1) - 1] \o t[n + 1]
      BY <1>1, <1>6, Zenon
    <3> QED
      BY <3>1, <3>2
  <2>4. g[n] \in Numbers /\ t[n + 1] \in Numbers
    BY <1>0, <1>2, <1>6
  <2>5. (c \o g[n]) \o t[n + 1] = c \o (g[n] \o t[n + 1])
    <3> DEFINE u == g[n]
               v == t[n + 1]
    <3> HIDE DEF u, v
    <3>1. c \in Numbers /\ u \in Numbers /\ v \in Numbers
      BY <1>3, <2>4 DEF u, v
    <3>2. Grouped(c, u, v)
      BY <3>1, NumbersGrouped
    <3> QED
      BY <3>2 DEF Grouped, u, v
  <2> QED
    BY <2>1, <2>2, <2>3, <2>5, Zenon DEF Fronted
<1>7. 0 \in S
  BY <1>5
<1>8. \A n \in S : n + 1 \in S
  <2> SUFFICES ASSUME NEW n \in S, (n + 1) + 1 \in 1..l PROVE Fronted(f, c, g, (n + 1) + 1)
    OBVIOUS
  <2>1. n \in Nat /\ n + 1 \in 1..l
    OBVIOUS
  <2>2. Fronted(f, c, g, n + 1)
    BY <2>1
  <2> QED
    BY <1>6, <2>1, <2>2, Zenon
<1>9. S \in SUBSET Nat
  OBVIOUS
<1>10. S = Nat
  <2> HIDE DEF S
  <2> QED
    BY <1>7, <1>8, <1>9, Induction
<1> SUFFICES ASSUME NEW n \in 1..l PROVE Fronted(f, c, g, n)
  BY DEF c
<1>11. n - 1 \in Nat /\ (n - 1) + 1 = n
  OBVIOUS
<1>12. Fronted(f, c, g, (n - 1) + 1)
  <2>1. n - 1 \in S
    BY <1>10, <1>11
  <2> QED
    BY <1>11, <2>1
<1> QED
  BY <1>11, <1>12

\* No message is no bytes.
LEMMA FlattenEmpty == FlattenSeq(<<>>) = <<>>
BY DEF FlattenSeq

\* Messages are sequences of numbers.
LEMMA FlattenType ==
  ASSUME NEW s \in Seq(Numbers)
  PROVE  FlattenSeq(s) \in Numbers
<1>1. CASE s = <<>>
  <2>1. <<>> \in Numbers
    BY DEF Numbers
  <2> QED
    BY <1>1, <2>1, FlattenEmpty
<1>2. CASE s # <<>>
  <2>1. PICK f : Spliced(f, s, Len(s)) /\ FlattenSeq(s) = f[Len(s)]
    BY <1>2, SplicedIs
  <2>2. Len(s) \in 1..Len(s)
    BY <1>2
  <2> QED
    BY <2>1, <2>2, SplicedType
<1> QED
  BY <1>1, <1>2

\* The first message stands in front.
LEMMA FlattenFront ==
  ASSUME NEW s \in Seq(Numbers), s # <<>>
  PROVE  /\ FlattenSeq(s) = s[1] \o FlattenSeq(Tail(s)) /\ s[1] \in Numbers
         /\ FlattenSeq(Tail(s)) \in Numbers
<1> DEFINE t == Tail(s)
<1>1. /\ t \in Seq(Numbers) /\ Len(t) \in Nat /\ Len(s) = Len(t) + 1 /\ s[1] \in Numbers
      /\ \A i \in 1..Len(t) : t[i] = s[i + 1]
  OBVIOUS
<1> HIDE DEF t
<1>2. FlattenSeq(t) \in Numbers
  BY <1>1, FlattenType
<1>3. PICK f : Spliced(f, s, Len(s)) /\ FlattenSeq(s) = f[Len(s)]
  BY SplicedIs
<1>4. FlattenSeq(s) = s[1] \o FlattenSeq(t)
  <2>1. CASE t = <<>>
    <3>1. Len(t) = 0
      BY <2>1
    <3>2. Len(s) = 1 /\ 1 \in 1..Len(s)
      BY <1>1, <3>1
    <3>3. f[1] = s[1]
      BY <1>3, <3>2 DEF Spliced
    <3>4. s[1] \o <<>> = s[1]
      BY <1>1 DEF Numbers
    <3> QED
      BY <1>3, <2>1, <3>2, <3>3, <3>4, FlattenEmpty
  <2>2. CASE t # <<>>
    <3>1. PICK g : Spliced(g, t, Len(t)) /\ FlattenSeq(t) = g[Len(t)]
      BY <1>1, <2>2, SplicedIs
    <3>2. Len(t) \in 1..Len(t)
      BY <1>1, <2>2
    <3> DEFINE l == Len(t)
    <3>3. l \in Nat /\ Len(s) = l + 1 /\ Len(t) = l
      BY <1>1
    <3>4. Spliced(f, s, l + 1) /\ Spliced(g, t, l) /\ \A i \in 1..l : t[i] = s[i + 1]
      BY <1>1, <1>3, <3>1
    <3> HIDE DEF l
    <3>5. \A n \in 1..l : Fronted(f, s[1], g, n)
      BY <1>1, <3>3, <3>4, SplicedTail
    <3>6. f[l + 1] = s[1] \o g[l]
      BY <3>2, <3>3, <3>5 DEF Fronted
    <3> QED
      BY <1>3, <3>1, <3>3, <3>6
  <2> QED
    BY <2>1, <2>2
<1> QED
  BY <1>1, <1>2, <1>4 DEF t

-----------------------------------------------------------------------------
(* The server reads what the game waits for.                               *)

\* What the game has asked at once and still waits for.
IsPart(p) ==
  \/ p = <<>>
  \/ \E q : p = <<q>> /\ IsAlone(q)
  \/ \E S : p \in Seq(S) /\ \A q \in S : IsRequest(q)
Sent(k, p) == [i \in DOMAIN p |-> Encoded(k, p[i])]

\* The bytes that the server has still to read are those of the requests that the
\* game waits for, and it has the game's key, unless that is on its way.
StoreInv ==
  /\ GoodFiles(files)
  /\ ticket \in Nat /\ key \in Nat /\ ids \in Nat /\ asked \in Nat /\ asked <= MaxInLife
  /\ packet \in Parcels /\ packet.at <= Len(packet.data)
  /\ IsPart(awaited) /\ Remaining(packet) = FlattenSeq(Sent(ticket, awaited))
  /\ IF awaited # <<>> /\ awaited[1].op = "hello" THEN ticket = awaited[1].args[1] ELSE key = ticket
  /\ ids + Len(awaited) <= asked
  /\ \E S : answers \in Seq(S)

\* A packet of the game.
LEMMA PacketIsPart ==
  ASSUME NEW p \in Packets
  PROVE  /\ IsPart(p) /\ p # <<>> /\ \E S : p \in Seq(S)
         /\ (\A q \in ToSet(p) : IsRequest(q)) \/ (p = <<p[1]>> /\ IsAlone(p[1]))
<1>1. p \in Seq(ToSet(p)) /\ p # <<>>
  BY PacketsAssumption
<1>2. CASE \A q \in ToSet(p) : IsRequest(q)
  BY <1>1, <1>2 DEF IsPart
<1>3. CASE Len(p) = 1 /\ IsAlone(p[1])
  <2>1. p = <<p[1]>>
    BY <1>1, <1>3
  <2> QED
    BY <1>1, <1>3, <2>1 DEF IsPart
<1> QED
  BY <1>2, <1>3, PacketsAssumption

\* A message with its size in front is not empty.
LEMMA FramedIs ==
  ASSUME NEW m \in Numbers
  PROVE  Framed(m) \in Numbers /\ Framed(m) # <<>>
<1> DEFINE l == Little(Len(m))
<1>1. l \in Seq(Int) /\ Len(l) = 4 /\ m \in Seq(Int)
  <2>1. Len(m) \in Nat
    BY DEF Numbers
  <2> QED
    BY <2>1, LittleIs DEF Numbers
<1> HIDE DEF l
<1>2. l \o m \in Seq(Int) /\ Len(l \o m) = Len(l) + Len(m) /\ Len(m) \in Nat
  BY <1>1, JoinIs
<1>3. Len(l \o m) # 0
  BY <1>1, <1>2
<1>4. l \o m # <<>>
  BY <1>3
<1> QED
  BY <1>2, <1>4 DEF Framed, l, Numbers

\* A request to a service is an encrypted message.
LEMMA EncodedRequest ==
  ASSUME NEW k \in Nat, NEW q, IsRequest(q)
  PROVE  /\ Encoded(k, q) = Framed(Letter(k, Form(q.op).type, RequestData(q)))
         /\ q.op \in Ops /\ Form(q.op).type \in Byte \ {HELLO} /\ RequestData(q) \in ByteString
         /\ Encoded(k, q) \in Numbers /\ Encoded(k, q) # <<>>
<1>1. q.op \in Ops /\ Form(q.op).type \in Byte \ {HELLO} /\ RequestData(q) \in ByteString
  BY RequestObject, OpTypes, RequestRead
<1>2. q.op # "keep_alive" /\ q.op # "connect" /\ q.op # "hello"
  BY <1>1, OpsAre DEF Ops
<1>3. Encoded(k, q) = Framed(Letter(k, Form(q.op).type, RequestData(q)))
  BY <1>2 DEF Encoded, Letter
<1>4. Letter(k, Form(q.op).type, RequestData(q)) \in Numbers
  BY <1>1, LetterOpened
<1> QED
  BY <1>1, <1>3, <1>4, FramedIs

\* The other requests are not encrypted, so no key matters.
LEMMA EncodedAlone ==
  ASSUME NEW k, NEW q, IsAlone(q)
  PROVE  /\ q.op = "keep_alive" => Encoded(k, q) = Zeros(4)
         /\ q.op = "connect" => Encoded(k, q) = Little(200)
         /\ q.op = "hello" => Encoded(k, q) = Framed(<<0, HELLO, q.args[1]>>) /\ q.args[1] \in Nat
         /\ q.op \in {"keep_alive", "connect", "hello"}
         /\ Encoded(k, q) \in Numbers /\ Encoded(k, q) # <<>>
<1>0. q.op \in {"keep_alive", "connect", "hello"} /\ (q.op = "hello" => q.args[1] \in Nat)
  BY DEF IsAlone
<1>1. CASE q.op = "keep_alive"
  <2>1. Encoded(k, q) = Zeros(4)
    BY <1>1 DEF Encoded
  <2>2. Zeros(4) \in Numbers /\ Len(Zeros(4)) = 4
    BY ZerosIs, BytesAreNumbers
  <2> DEFINE e == Zeros(4)
  <2> HIDE DEF e
  <2>3. e # <<>>
    BY <2>2 DEF e
  <2> QED
    BY <1>1, <2>1, <2>2, <2>3 DEF e
<1>2. CASE q.op = "connect"
  <2>1. Encoded(k, q) = Little(200)
    BY <1>2 DEF Encoded, CONNECTION
  <2> DEFINE e == Little(200)
  <2>2. e \in Numbers /\ Len(e) = 4
    BY LittleIs
  <2> HIDE DEF e
  <2>3. e # <<>>
    BY <2>2
  <2> QED
    BY <1>2, <2>1, <2>2, <2>3 DEF e
<1>3. CASE q.op = "hello"
  <2>1. Encoded(k, q) = Framed(<<0, HELLO, q.args[1]>>)
    BY <1>3 DEF Encoded
  <2>2. <<0, HELLO, q.args[1]>> \in Numbers
    BY <1>0, <1>3, HelloOpened
  <2> QED
    BY <1>0, <1>3, <2>1, <2>2, FramedIs
<1> QED
  BY <1>0, <1>1, <1>2, <1>3

\* After the first request the game waits for the others.
LEMMA PartIs ==
  ASSUME NEW p, IsPart(p)
  PROVE  /\ \E S : p \in Seq(S) /\ \A q \in S : IsRequest(q) \/ IsAlone(q)
         /\ p # <<>> => /\ IsPart(Tail(p)) /\ (IsRequest(p[1]) \/ IsAlone(p[1])) /\ Head(p) = p[1]
                        /\ Tail(p) = <<>> \/ (IsRequest(p[1]) /\ IsRequest(Tail(p)[1]))
                        /\ Len(p) \in Nat /\ Len(p) > 0 /\ Len(Tail(p)) = Len(p) - 1
<1>1. CASE p = <<>>
  <2>1. p \in Seq({})
    BY <1>1
  <2> QED
    BY <1>1, <2>1
<1>2. CASE \E q : p = <<q>> /\ IsAlone(q)
  <2>1. PICK q : p = <<q>> /\ IsAlone(q)
    BY <1>2
  <2>2. p \in Seq({q}) /\ p # <<>> /\ Tail(p) = <<>> /\ p[1] = q /\ Head(p) = q
    BY <2>1
  <2>3. IsPart(<<>>)
    BY DEF IsPart
  <2>4. \E S : p \in Seq(S) /\ \A x \in S : IsRequest(x) \/ IsAlone(x)
    <3>1. \A x \in {q} : IsRequest(x) \/ IsAlone(x)
      BY <2>1
    <3> QED
      BY <2>2, <3>1
  <2>5. IsPart(Tail(p)) /\ IsAlone(p[1]) /\ Head(p) = p[1] /\ Tail(p) = <<>>
    BY <2>1, <2>2, <2>3
  <2>6. Len(p) \in Nat /\ Len(p) > 0 /\ Len(Tail(p)) = Len(p) - 1
    BY <2>2
  <2> QED
    BY <2>4, <2>5, <2>6
<1>3. CASE \E S : p \in Seq(S) /\ \A q \in S : IsRequest(q)
  <2>1. PICK S : p \in Seq(S) /\ \A q \in S : IsRequest(q)
    BY <1>3
  <2>2. ASSUME p # <<>>
        PROVE  /\ Tail(p) \in Seq(S) /\ p[1] \in S /\ Head(p) = p[1]
               /\ Len(p) \in Nat /\ Len(p) > 0 /\ Len(Tail(p)) = Len(p) - 1
    BY <2>1, <2>2
  <2>4. ASSUME p # <<>>, Tail(p) # <<>> PROVE Tail(p)[1] \in S
    <3> DEFINE u == Tail(p)
    <3>1. u \in Seq(S) /\ u # <<>>
      BY <2>2, <2>4
    <3> HIDE DEF u
    <3>2. u[1] \in S
      BY <3>1
    <3> QED
      BY <3>2 DEF u
  <2>3. p # <<>> => IsPart(Tail(p))
    BY <2>1, <2>2 DEF IsPart
  <2> QED
    BY <2>1, <2>2, <2>3, <2>4
<1> QED
  BY <1>1, <1>2, <1>3 DEF IsPart

\* The bytes are those of the first request and of the others.
LEMMA SentIs ==
  ASSUME NEW k \in Nat, NEW p, IsPart(p)
  PROVE  /\ Sent(k, p) \in Seq(Numbers)
         /\ p = <<>> => Sent(k, p) = <<>>
         /\ p # <<>> => /\ Sent(k, p) # <<>> /\ Sent(k, p)[1] = Encoded(k, p[1])
                        /\ Tail(Sent(k, p)) = Sent(k, Tail(p))
<1>1. PICK S : p \in Seq(S) /\ \A q \in S : IsRequest(q) \/ IsAlone(q)
  BY PartIs
<1>2. /\ Len(p) \in Nat /\ DOMAIN p = 1..Len(p) /\ \A i \in 1..Len(p) : p[i] \in S
  BY <1>1
<1> DEFINE s == Sent(k, p)
<1>3. s = [i \in 1..Len(p) |-> Encoded(k, p[i])]
  BY <1>2 DEF Sent
<1>4. \A i \in 1..Len(p) : Encoded(k, p[i]) \in Numbers
  BY <1>1, <1>2, EncodedAlone, EncodedRequest
<1> HIDE DEF s
<1>5. s \in Seq(Numbers) /\ Len(s) = Len(p)
  BY <1>2, <1>3, <1>4
<1>6. ASSUME p = <<>> PROVE s = <<>>
  BY <1>5, <1>6
<1>7. ASSUME p # <<>> PROVE s # <<>> /\ s[1] = Encoded(k, p[1]) /\ Tail(s) = Sent(k, Tail(p))
  <2>1. Len(p) # 0 /\ 1 \in 1..Len(p)
    BY <1>1, <1>7
  <2>2. s # <<>> /\ s[1] = Encoded(k, p[1])
    BY <1>3, <1>5, <2>1
  <2> DEFINE t == Tail(p)
  <2>3. /\ Len(t) = Len(p) - 1 /\ Len(t) \in Nat /\ DOMAIN t = 1..Len(t)
        /\ \A i \in 1..Len(t) : t[i] = p[i + 1]
    BY <1>1, <1>7
  <2> HIDE DEF t
  <2>4. Tail(s) = [i \in 1..Len(t) |-> s[i + 1]]
    <3>1. /\ Tail(s) \in Seq(Numbers) /\ Len(Tail(s)) = Len(s) - 1
          /\ \A i \in 1..Len(Tail(s)) : Tail(s)[i] = s[i + 1]
      BY <1>5, <2>2
    <3> DEFINE u == Tail(s)
    <3>2. DOMAIN u = 1..Len(u) /\ u = [i \in DOMAIN u |-> u[i]]
      <4>1. u \in Seq(Numbers)
        BY <3>1
      <4> HIDE DEF u
      <4> QED
        BY <4>1
    <3>3. Len(Tail(s)) = Len(t)
      BY <1>5, <2>3, <3>1
    <3> HIDE DEF s
    <3> QED
      BY <3>1, <3>2, <3>3
  <2>5. \A i \in 1..Len(t) : s[i + 1] = Encoded(k, t[i])
    <3> TAKE i \in 1..Len(t)
    <3>1. i + 1 \in 1..Len(p)
      BY <1>2, <2>3
    <3> QED
      BY <1>3, <2>3, <3>1
  <2>6. Sent(k, t) = [i \in 1..Len(t) |-> Encoded(k, t[i])]
    BY <2>3 DEF Sent
  <2>7. Tail(s) = Sent(k, t)
    BY <2>4, <2>5, <2>6
  <2> QED
    BY <2>2, <2>7 DEF t
<1> QED
  BY <1>5, <1>6, <1>7 DEF s

\* The next bytes are those of the request that the game waits for first.
Rest == FlattenSeq(Sent(ticket, Tail(awaited)))

LEMMA NextBytes ==
  ASSUME StoreInv, awaited # <<>>
  PROVE  /\ Remaining(packet) = Encoded(ticket, awaited[1]) \o Rest /\ Rest \in Numbers
         /\ Encoded(ticket, awaited[1]) \in Numbers
         /\ Encoded(ticket, awaited[1]) # <<>>
         /\ Head(awaited) = awaited[1] /\ IsPart(Tail(awaited))
         /\ IsRequest(awaited[1]) \/ (IsAlone(awaited[1]) /\ Tail(awaited) = <<>>)
         /\ Tail(awaited) = <<>> \/ IsRequest(Tail(awaited)[1])
         /\ Len(awaited) \in Nat /\ Len(awaited) > 0 /\ Len(Tail(awaited)) = Len(awaited) - 1
<1>1. IsPart(awaited) /\ ticket \in Nat /\ Remaining(packet) = FlattenSeq(Sent(ticket, awaited))
  BY DEF StoreInv
<1> DEFINE s == Sent(ticket, awaited)
<1>2. /\ s \in Seq(Numbers) /\ s # <<>> /\ s[1] = Encoded(ticket, awaited[1])
      /\ Tail(s) = Sent(ticket, Tail(awaited))
  BY <1>1, SentIs
<1> HIDE DEF s
<1>3. /\ FlattenSeq(s) = s[1] \o FlattenSeq(Tail(s)) /\ s[1] \in Numbers
      /\ FlattenSeq(Tail(s)) \in Numbers
  BY <1>2, FlattenFront
<1>4. /\ IsPart(Tail(awaited)) /\ (IsRequest(awaited[1]) \/ IsAlone(awaited[1]))
      /\ Head(awaited) = awaited[1]
      /\ Tail(awaited) = <<>> \/ (IsRequest(awaited[1]) /\ IsRequest(Tail(awaited)[1]))
      /\ Len(awaited) \in Nat /\ Len(awaited) > 0 /\ Len(Tail(awaited)) = Len(awaited) - 1
  BY <1>1, PartIs
<1>5. Encoded(ticket, awaited[1]) # <<>>
  BY <1>1, <1>4, EncodedAlone, EncodedRequest
<1> QED
  BY <1>1, <1>2, <1>3, <1>4, <1>5 DEF Rest, s

\* The server has something to read as long as the game waits.
LEMMA MoreIsAwaited ==
  ASSUME StoreInv
  PROVE  HasMoreData(packet) <=> awaited # <<>>
<1>1. packet \in Parcels /\ packet.at <= Len(packet.data)
  BY DEF StoreInv
<1> DEFINE data == packet.data
           at == packet.at
<1>2. data \in Seq(Int) /\ at \in Nat /\ at <= Len(data) /\ Len(data) \in Nat
  BY <1>1 DEF Parcels, Numbers
<1>3. Remaining(packet) = SubSeq(data, at + 1, Len(data)) /\ (HasMoreData(packet) <=> Len(data) > at)
  BY DEF Remaining, HasMoreData
<1> HIDE DEF data, at
<1>4. Len(SubSeq(data, at + 1, Len(data))) = Len(data) - at
  BY <1>2
<1>5. CASE awaited = <<>>
  <2>1. Sent(ticket, awaited) = <<>>
    BY <1>5, SentIs DEF StoreInv
  <2>2. Remaining(packet) = <<>>
    BY <2>1, FlattenEmpty DEF StoreInv
  <2>3. Len(Remaining(packet)) = 0
    BY <2>2
  <2> QED
    BY <1>2, <1>3, <1>4, <1>5, <2>3
<1>6. CASE awaited # <<>>
  <2> DEFINE e == Encoded(ticket, awaited[1])
             r == Rest
  <2>1. Remaining(packet) = e \o r /\ e \in Seq(Int) /\ r \in Seq(Int) /\ e # <<>>
    BY <1>6, NextBytes DEF Numbers
  <2> HIDE DEF e, r
  <2>2. Len(e \o r) = Len(e) + Len(r) /\ Len(e) \in Nat /\ Len(r) \in Nat
    BY <2>1, JoinIs
  <2>3. Len(e) # 0
    BY <2>1
  <2> QED
    BY <1>2, <1>3, <1>4, <1>6, <2>1, <2>2, <2>3
<1> QED
  BY <1>5, <1>6

\* What parse_packet finds at the front of the packet.
LEMMA MessageRead ==
  ASSUME StoreInv, NEW m \in Numbers, NEW rest \in Numbers, Remaining(packet) = Framed(m) \o rest
  PROVE  /\ Size = Len(m) /\ Size <= Len(packet.data) /\ Message.value = m
         /\ Message.buffer \in Parcels /\ Message.buffer.at <= Len(Message.buffer.data)
         /\ Remaining(Message.buffer) = rest
<1>1. packet \in Parcels /\ packet.at <= Len(packet.data)
  BY DEF StoreInv
<1>2. Yields(packet, m, rest)
  BY <1>1, FrameRead DEF Begins
<1>3. /\ Number(SizeField.value) = Len(m) /\ Len(m) <= Len(packet.data)
      /\ Read(SizeField.buffer, Len(m)).value = m
      /\ Read(SizeField.buffer, Len(m)).buffer \in Parcels
      /\ Read(SizeField.buffer, Len(m)).buffer.at <= Len(Read(SizeField.buffer, Len(m)).buffer.data)
      /\ Remaining(Read(SizeField.buffer, Len(m)).buffer) = rest
  BY <1>2 DEF Yields, SizeField
<1>4. Size = Len(m)
  BY <1>3 DEF Size
<1>5. Message = Read(SizeField.buffer, Len(m))
  BY <1>4 DEF Message
<1> QED
  BY <1>3, <1>4, <1>5

SizeFirst(l, rest) ==
  l \in Numbers /\ rest \in Numbers /\ Len(l) = 4 /\ Remaining(packet) = l \o rest

\* The size in front.
LEMMA SizeIs ==
  ASSUME StoreInv, NEW l, NEW rest, SizeFirst(l, rest)
  PROVE  Size = Number(l)
<1>1. packet \in Parcels /\ packet.at <= Len(packet.data)
  BY DEF StoreInv
<1>2. l \in Numbers /\ rest \in Numbers /\ Len(l) = 4 /\ Remaining(packet) = l \o rest
  BY DEF SizeFirst
<1>3. Read(packet, 4).value = l
  BY <1>1, <1>2, SizeRead
<1> QED
  BY <1>3 DEF Size, SizeField

\* A request that is not encrypted.
LEMMA AloneFound ==
  ASSUME StoreInv, awaited # <<>>, IsAlone(awaited[1])
  PROVE  /\ awaited[1].op = "keep_alive" => Size = 0
         /\ awaited[1].op = "connect" => Size = CONNECTION
<1> DEFINE q == awaited[1]
           e == Encoded(ticket, q)
<1>1. Remaining(packet) = e \o Rest /\ Rest \in Numbers
  BY NextBytes
<1>2. CASE q.op = "keep_alive"
  <2> DEFINE l == Zeros(4)
  <2>1. e = l
    BY <1>2, EncodedAlone
  <2>2. l \in Numbers /\ Len(l) = 4 /\ Number(l) = 0
    <3>1. l \in Numbers /\ Len(l) = 4
      BY ZerosIs, BytesAreNumbers
    <3>2. \A i \in 1..4 : l[i] = 0
      BY DEF Zeros
    <3> QED
      BY <3>1, <3>2 DEF Number
  <2> HIDE DEF e, l, q
  <2>4. SizeFirst(l, Rest)
    BY <1>1, <2>1, <2>2 DEF SizeFirst
  <2>3. Size = 0
    BY <2>2, <2>4, SizeIs
  <2> QED
    BY <1>2, <2>3 DEF q
<1>3. CASE q.op = "connect"
  <2> DEFINE l == Little(200)
  <2>1. e = l
    BY <1>3, EncodedAlone
  <2>2. l \in Numbers /\ Len(l) = 4 /\ Number(l) = 200
    BY LittleIs
  <2> HIDE DEF e, l, q
  <2>4. SizeFirst(l, Rest)
    BY <1>1, <2>1, <2>2 DEF SizeFirst
  <2>3. Size = 200
    BY <2>2, <2>4, SizeIs
  <2> QED
    BY <1>3, <2>3 DEF q, CONNECTION
<1> QED
  BY <1>2, <1>3

\* The hello: behind it nothing is left of it.
LEMMA HelloFound ==
  ASSUME StoreInv, awaited # <<>>, IsAlone(awaited[1]), awaited[1].op = "hello"
  PROVE  /\ Size = 3 /\ Size <= Len(packet.data) /\ Type = <<HELLO>> /\ Data[1] = awaited[1].args[1]
         /\ Message.buffer \in Parcels /\ Message.buffer.at <= Len(Message.buffer.data)
         /\ Remaining(Message.buffer) = Rest
<1> DEFINE t == awaited[1].args[1]
           m == <<0, HELLO, t>>
<1>1. Remaining(packet) = Encoded(ticket, awaited[1]) \o Rest /\ Rest \in Numbers
  BY NextBytes
<1>2. Encoded(ticket, awaited[1]) = Framed(m) /\ t \in Nat
  BY EncodedAlone
<1>3. key \in Nat
  BY DEF StoreInv
<1> HIDE DEF t
<1>4. m \in Numbers /\ Len(m) = 3 /\ Opened(key, m).value = <<HELLO>>
      /\ Remaining(Opened(key, m).buffer) = <<t>>
  BY <1>2, <1>3, HelloOpened
<1> HIDE DEF m
<1>5. /\ Size = Len(m) /\ Size <= Len(packet.data) /\ Message.value = m
      /\ Message.buffer \in Parcels /\ Message.buffer.at <= Len(Message.buffer.data)
      /\ Remaining(Message.buffer) = Rest
  BY <1>1, <1>2, <1>4, MessageRead
<1>6. Type = <<HELLO>> /\ Data = <<t>>
  BY <1>4, <1>5 DEF Type, Data
<1>7. Data[1] = t
  BY <1>6
<1> QED
  BY <1>4, <1>5, <1>6, <1>7 DEF t

\* A request to a service is found with its type and what the game has written.
LEMMA RequestFound ==
  ASSUME StoreInv, awaited # <<>>, IsRequest(awaited[1])
  PROVE  /\ Size \notin {0, 3, CONNECTION} /\ Size <= Len(packet.data)
         /\ Type = <<Form(awaited[1].op).type>>
         /\ \E z \in ByteString : Data = RequestData(awaited[1]) \o z
         /\ Message.buffer \in Parcels /\ Message.buffer.at <= Len(Message.buffer.data)
         /\ Remaining(Message.buffer) = Rest
<1> DEFINE q == awaited[1]
           type == Form(q.op).type
           data == RequestData(q)
           m == Letter(ticket, type, data)
<1>1. Remaining(packet) = Encoded(ticket, q) \o Rest /\ Rest \in Numbers
  BY NextBytes
<1>2. ticket \in Nat
  BY DEF StoreInv
<1>3. /\ Encoded(ticket, q) = Framed(m) /\ q.op \in Ops
      /\ type \in Byte \ {HELLO} /\ data \in ByteString
  BY <1>2, EncodedRequest
<1>4. key = ticket
  <2>1. q.op # "hello"
    BY <1>3, OpsAre DEF Ops
  <2> QED
    BY <2>1 DEF StoreInv
<1> HIDE DEF q, type, data
<1>5. /\ m \in Numbers /\ \E j \in Nat : Len(m) = 8 * j + 5
      /\ Opened(ticket, m).value = <<type>>
      /\ \E z \in ByteString : Remaining(Opened(ticket, m).buffer) = data \o z
  BY <1>2, <1>3, LetterOpened
<1> HIDE DEF m
<1>6. /\ Size = Len(m) /\ Size <= Len(packet.data) /\ Message.value = m
      /\ Message.buffer \in Parcels /\ Message.buffer.at <= Len(Message.buffer.data)
      /\ Remaining(Message.buffer) = Rest
  BY <1>1, <1>3, <1>5, MessageRead
<1>7. Size \notin {0, 3, 200}
  <2>1. PICK j \in Nat : Len(m) = 8 * j + 5
    BY <1>5
  <2> QED
    BY <1>6, <2>1
<1>8. Type = <<type>> /\ \E z \in ByteString : Data = data \o z
  BY <1>4, <1>5, <1>6 DEF Type, Data
<1> QED
  BY <1>6, <1>7, <1>8 DEF q, type, data, CONNECTION

\* Which callback answers it, and with which arguments.
LEMMA RequestSelected ==
  ASSUME StoreInv, awaited # <<>>, IsRequest(awaited[1])
  PROVE  /\ Type[1] = Form(awaited[1].op).type /\ Type # <<HELLO>>
         /\ Selected(Type[1], Data) =
              IF awaited[1].op \in DOMAIN Callbacks THEN {awaited[1].op} ELSE {}
         /\ Deserialize(Form(awaited[1].op).args, Sub(Data).buffer).object = awaited[1].args
<1> DEFINE q == awaited[1]
           type == Form(q.op).type
<1>1. PICK z \in ByteString : Type = <<type>> /\ Data = RequestData(q) \o z
  BY RequestFound
<1>2. /\ Sub(Data).value = <<Form(q.op).sub>>
      /\ Deserialize(Form(q.op).args, Sub(Data).buffer).object = q.args
  BY <1>1, RequestRead
<1>3. type \in Byte \ {HELLO} /\ q.op \in Ops
  BY EncodedRequest DEF StoreInv
<1>4. Type[1] = type /\ Type # <<HELLO>>
  <2> HIDE DEF type
  <2> QED
    BY <1>1, <1>3
<1> HIDE DEF q, type
<1>5. ASSUME NEW op \in DOMAIN Callbacks
      PROVE  Callbacks[op].type = type /\ <<Callbacks[op].sub>> = Sub(Data).value <=> op = q.op
  <2>1. Form(op) = Callbacks[op]
    BY DEF Form
  <2>2. ASSUME Form(op).type = type, <<Form(op).sub>> = <<Form(q.op).sub>> PROVE op = q.op
    <3>1. Form(op).sub = Form(q.op).sub
      BY <2>2
    <3> QED
      BY <1>3, <2>2, <3>1, OneSelected DEF type
  <2> QED
    BY <1>2, <2>1, <2>2 DEF type
<1>6. Selected(type, Data) = IF q.op \in DOMAIN Callbacks THEN {q.op} ELSE {}
  BY <1>5 DEF Selected
<1> QED
  BY <1>2, <1>4, <1>6 DEF q, type

\* What is parsed is what the game waits for first.
LEMMA FirstAwaited ==
  ASSUME StoreInv, HasMoreData(packet)
  PROVE  /\ awaited # <<>> /\ Head(awaited) = awaited[1]
         /\ IsRequest(awaited[1]) \/ (IsAlone(awaited[1]) /\ Rest = <<>>)
         /\ Size = 0 => awaited[1].op = "keep_alive"
         /\ Size = CONNECTION => awaited[1].op = "connect"
         /\ Size \notin {0, CONNECTION} /\ Type = <<HELLO>> => awaited[1].op = "hello"
         /\ Size \notin {0, CONNECTION} /\ Type # <<HELLO>> => IsRequest(awaited[1])
<1> DEFINE q == awaited[1]
<1>1. awaited # <<>>
  BY MoreIsAwaited
<1>2. Head(awaited) = q /\ (IsRequest(q) \/ (IsAlone(q) /\ Tail(awaited) = <<>>))
  BY <1>1, NextBytes
<1>3. ASSUME Tail(awaited) = <<>> PROVE Rest = <<>>
  <2>1. ticket \in Nat /\ IsPart(<<>>)
    BY DEF StoreInv, IsPart
  <2>2. Sent(ticket, Tail(awaited)) = <<>>
    BY <1>3, <2>1, SentIs
  <2> QED
    BY <2>2, FlattenEmpty DEF Rest
<1>4. CASE IsRequest(q)
  <2>1. Size \notin {0, 3, CONNECTION} /\ Type # <<HELLO>>
    BY <1>1, <1>4, RequestFound, RequestSelected
  <2> QED
    BY <1>1, <1>2, <1>4, <2>1
<1>5. CASE IsAlone(q) /\ Tail(awaited) = <<>>
  <2>1. q.op \in {"keep_alive", "connect", "hello"}
    BY <1>5 DEF IsAlone
  <2>2. /\ q.op = "keep_alive" => Size = 0
        /\ q.op = "connect" => Size = CONNECTION
        /\ q.op = "hello" => Size = 3 /\ Type = <<HELLO>>
    BY <1>1, <1>5, AloneFound, HelloFound
  <2> QED
    BY <1>1, <1>2, <1>3, <1>5, <2>1, <2>2 DEF CONNECTION
<1> QED
  BY <1>2, <1>4, <1>5

\* The parts of StoreInv, when the first of the requests has been served.
MovesOn ==
  /\ awaited' = Tail(awaited) /\ ticket' = ticket /\ asked' = asked /\ key' = ticket
  /\ packet' \in Parcels /\ packet'.at <= Len(packet'.data) /\ Remaining(packet') = Rest
  /\ ids' \in {ids, ids + 1} /\ GoodFiles(files') /\ \E S : answers' \in Seq(S)

\* The game now waits for the rest.
LEMMA KeptOn ==
  ASSUME StoreInv, awaited # <<>>, MovesOn
  PROVE  StoreInv'
<1>1. /\ ticket \in Nat /\ ids \in Nat /\ asked \in Nat /\ asked <= MaxInLife
      /\ ids + Len(awaited) <= asked
  BY DEF StoreInv
<1>2. /\ IsPart(Tail(awaited)) /\ (Tail(awaited) = <<>> \/ IsRequest(Tail(awaited)[1]))
      /\ Len(awaited) \in Nat /\ Len(awaited) > 0 /\ Len(Tail(awaited)) = Len(awaited) - 1
  BY NextBytes
<1>3. Tail(awaited) # <<>> => Tail(awaited)[1].op # "hello"
  <2>1. SUFFICES ASSUME Tail(awaited) # <<>> PROVE Tail(awaited)[1].op # "hello"
    OBVIOUS
  <2>2. IsRequest(Tail(awaited)[1])
    BY <1>2, <2>1
  <2> DEFINE q == Tail(awaited)[1]
  <2> HIDE DEF q
  <2>3. q.op \in Ops
    BY <2>2, RequestObject DEF q
  <2>4. q.op # "hello"
    BY <2>3, OpsAre DEF Ops
  <2> QED
    BY <2>4 DEF q
<1>4. awaited' = Tail(awaited) /\ ticket' = ticket /\ asked' = asked /\ key' = ticket
  BY DEF MovesOn
<1>5. GoodFiles(files')
  BY DEF MovesOn
<1>6. ticket' \in Nat /\ key' \in Nat /\ ids' \in Nat /\ asked' \in Nat /\ asked' <= MaxInLife
  BY <1>1 DEF MovesOn
<1>7. packet' \in Parcels /\ packet'.at <= Len(packet'.data)
  BY DEF MovesOn
<1>8. IsPart(awaited') /\ Remaining(packet') = FlattenSeq(Sent(ticket', awaited'))
  BY <1>2, <1>4 DEF MovesOn, Rest
<1>9. IF awaited' # <<>> /\ awaited'[1].op = "hello" THEN ticket' = awaited'[1].args[1]
      ELSE key' = ticket'
  BY <1>3, <1>4
<1>10. ids' + Len(awaited') <= asked'
  <2> DEFINE l == Len(awaited)
             u == Len(Tail(awaited))
  <2>1. l \in Nat /\ l > 0 /\ u = l - 1 /\ Len(awaited') = u /\ ids + l <= asked
    BY <1>1, <1>2, <1>4
  <2>2. ids' \in {ids, ids + 1}
    BY DEF MovesOn
  <2> HIDE DEF l, u
  <2> QED
    BY <1>1, <1>4, <2>1, <2>2
<1>11. \E S : answers' \in Seq(S)
  BY DEF MovesOn
<1> QED
  BY <1>5, <1>6, <1>7, <1>8, <1>9, <1>10, <1>11 DEF StoreInv

\* An answer comes behind the others.
LEMMA ToldIs ==
  ASSUME StoreInv, NEW a, answers' = Append(answers, a)
  PROVE  answers' = answers \o <<a>> /\ \E S : answers' \in Seq(S)
<1>1. PICK S : answers \in Seq(S)
  BY DEF StoreInv
<1>2. answers \in Seq(S \cup {a})
  BY <1>1, SeqMonotonic
<1>3. Append(answers, a) = answers \o <<a>> /\ Append(answers, a) \in Seq(S \cup {a})
  BY <1>2, AppendIsConcat, AppendProperties
<1> QED
  BY <1>3

\* What is served is served as in a store of files.
Serves(q, x) == files' \in Store!Served(q) /\ \E seen \in Store!Views : x = Answer(q, seen)

\* ... and so the store serves it.
LEMMA IsServed ==
  ASSUME StoreInv, awaited # <<>>, awaited' = Tail(awaited),
         NEW x, Serves(Head(awaited), x), answers' = answers \o x
  PROVE  Store!Serve
  BY DEF Store!Serve, Serves

\* The keys agree but during a hello, and the next id is one that can be written.
LEMMA Agree ==
  ASSUME StoreInv, awaited # <<>>
  PROVE  /\ awaited[1].op # "hello" => key = ticket
         /\ ids + 1 \in Nat /\ (ids + 1) + 1 \in Int31 /\ ticket \in Nat /\ GoodFiles(files)
<1>1. /\ ticket \in Nat /\ ids \in Nat /\ asked \in Nat /\ asked <= MaxInLife
      /\ ids + Len(awaited) <= asked /\ GoodFiles(files)
      /\ awaited[1].op # "hello" => key = ticket
  BY DEF StoreInv
<1>2. Len(awaited) \in Nat /\ Len(awaited) > 0
  BY NextBytes
<1>3. MaxInLife \in Nat /\ MaxInLife <= 2147483646
  BY BoundsAssumption, SMT
<1> DEFINE l == Len(awaited)
<1>4. l \in Nat /\ l > 0 /\ ids + l <= asked
  BY <1>1, <1>2
<1> HIDE DEF l
<1>5. (ids + 1) + 1 \in Nat /\ (ids + 1) + 1 <= 2147483647
  BY <1>1, <1>3, <1>4, SMT
<1>6. (ids + 1) + 1 \in Int31
  BY <1>5, SMT DEF Int31
<1> QED
  BY <1>1, <1>6

-----------------------------------------------------------------------------
(* Every step of the lobby is one of a store of files.                     *)

\* Each way to serve the first request: the bytes answer it as a store would.
Answered == Store!Serve /\ StoreInv'

\* When a packet has ended nothing is left.
LEMMA EmptyParcel ==
  /\ Fresh(<<>>) \in Parcels /\ Fresh(<<>>).at <= Len(Fresh(<<>>).data)
  /\ Remaining(Fresh(<<>>)) = <<>> /\ <<>> \in Numbers
<1>1. <<>> \in Numbers
  BY DEF Numbers
<1>2. Fresh(<<>>) \in Parcels /\ Remaining(Fresh(<<>>)) = <<>>
  BY <1>1, FreshPlain
<1>3. Fresh(<<>>).at = 0 /\ Fresh(<<>>).data = <<>>
  BY DEF Fresh
<1>4. Len(<<>>) = 0
  OBVIOUS
<1> QED
  BY <1>1, <1>2, <1>3, <1>4

\* A reply that ends the packet.
LEMMA AloneStep ==
  ASSUME StoreInv, HasMoreData(packet), awaited[1].op \in {"keep_alive", "connect"},
         NEW bytes, AnswerIn(bytes, ticket, Head(awaited)) = Plain(0), Sends(bytes),
         packet' = Fresh(<<>>), awaited' = Tail(awaited),
         UNCHANGED <<files, key, ticket, ids, asked, lives>>
  PROVE  Answered
<1> DEFINE q == awaited[1]
<1>1. awaited # <<>> /\ Head(awaited) = q
  BY FirstAwaited
<1>2. Rest = <<>>
  <2>1. ~IsRequest(q)
    <3>1. q.op \notin Ops
      BY OpsAre DEF Ops
    <3> QED
      BY <3>1, RequestObject
  <2> QED
    BY <2>1, FirstAwaited
<1>3. Store!Served(q) = {files} /\ Answer(q, files) = <<Plain(0)>> /\ files \in Store!Views
  BY AnswersAre DEF Store!Served, Store!Begun, Store!Views, IsWrite, Answer
<1>4. answers' = Append(answers, Plain(0))
  BY DEF Sends
<1>5. answers' = answers \o <<Plain(0)>> /\ \E S : answers' \in Seq(S)
  BY <1>4, ToldIs
<1>6. Serves(Head(awaited), <<Plain(0)>>)
  BY <1>1, <1>3 DEF Serves
<1>7. Store!Serve
  BY <1>1, <1>5, <1>6, IsServed
<1>8. key' = ticket /\ GoodFiles(files')
  <2>1. key = ticket /\ GoodFiles(files)
    BY <1>1, Agree
  <2> QED
    BY <2>1
<1>9. MovesOn
  BY <1>2, <1>5, <1>8, EmptyParcel DEF MovesOn
<1>10. StoreInv'
  BY <1>1, <1>9, KeptOn
<1> QED
  BY <1>7, <1>10 DEF Answered

\* The message that keeps the connection alive,
LEMMA EmptyStep ==
  ASSUME StoreInv, ParseEmpty
  PROVE  Answered
<1>1. HasMoreData(packet) /\ Size = 0
  BY DEF ParseEmpty
<1>2. Head(awaited) = awaited[1] /\ awaited[1].op = "keep_alive"
  BY <1>1, FirstAwaited
<1>3. AnswerIn(Zeros(4), ticket, Head(awaited)) = Plain(0)
  BY <1>2, KeptAlive
<1> QED
  BY <1>1, <1>2, <1>3, AloneStep DEF ParseEmpty

\* a connection request,
LEMMA ConnectionStep ==
  ASSUME StoreInv, ParseConnection
  PROVE  Answered
<1>1. HasMoreData(packet) /\ Size = CONNECTION
  BY DEF ParseConnection
<1>2. Head(awaited) = awaited[1] /\ awaited[1].op = "connect"
  BY <1>1, FirstAwaited
<1>3. AnswerIn(ConnectionReply, ticket, Head(awaited)) = Plain(0)
  BY <1>2, Connects
<1> QED
  BY <1>1, <1>2, <1>3, AloneStep DEF ParseConnection

\* the hello, which is not answered,
LEMMA HelloStep ==
  ASSUME StoreInv, ParseHello
  PROVE  Answered
<1> DEFINE q == awaited[1]
<1>1. HasMoreData(packet) /\ Size \notin {0, CONNECTION} /\ Type = <<HELLO>>
  BY DEF ParseHello, Parsing
<1>2. awaited # <<>> /\ Head(awaited) = q /\ q.op = "hello"
  BY <1>1, FirstAwaited
<1>3. IsAlone(q)
  <2>1. q.op \notin Ops
    BY <1>2, OpsAre DEF Ops
  <2> QED
    BY <1>1, <2>1, RequestObject, FirstAwaited
<1>4. /\ Data[1] = q.args[1] /\ Message.buffer \in Parcels
      /\ Message.buffer.at <= Len(Message.buffer.data) /\ Remaining(Message.buffer) = Rest
  BY <1>2, <1>3, HelloFound
<1>5. ticket = q.args[1] /\ GoodFiles(files) /\ \E S : answers \in Seq(S)
  BY <1>2 DEF StoreInv
<1>6. MovesOn
  BY <1>4, <1>5 DEF MovesOn, ParseHello, Parsed
<1>7. Store!Served(q) = {files} /\ Answer(q, files) = <<>> /\ files \in Store!Views
  BY <1>2, AnswersAre DEF Store!Served, Store!Begun, Store!Views, IsWrite
<1>8. Serves(Head(awaited), <<>>)
  BY <1>2, <1>7 DEF Serves, ParseHello
<1>9. answers' = answers \o <<>>
  BY <1>5 DEF ParseHello
<1>10. Store!Serve
  BY <1>2, <1>8, <1>9, IsServed DEF ParseHello, Parsed
<1>11. StoreInv'
  BY <1>2, <1>6, KeptOn
<1> QED
  BY <1>10, <1>11 DEF Answered

\* A reply of a service to the first request, which it answers.
LEMMA ReplyStep ==
  ASSUME StoreInv, Parsing, Type # <<HELLO>>, Parsed, UNCHANGED <<key, ticket, asked, lives>>,
         NEW sub \in Byte, NEW r, SendsReply(sub, r.error, Form(awaited[1].op).class, r.objects),
         NEW seen \in Views, Right(awaited[1], r, seen), files' \in Written(r.writes)
  PROVE  Answered
<1> DEFINE q == awaited[1]
           class == Form(q.op).class
           a == IF r.error # 0 THEN Failure(r.error) ELSE Seen(class, r.objects)
<1>1. HasMoreData(packet) /\ Size \notin {0, CONNECTION}
  BY DEF Parsing
<1>2. awaited # <<>> /\ Head(awaited) = q /\ IsRequest(q)
  BY <1>1, FirstAwaited
<1>3. q.op \in Ops /\ q.op # "hello"
  <2>1. q.op \in Ops
    BY <1>2, RequestObject
  <2> QED
    BY <2>1, OpsAre DEF Ops
<1>4. /\ key = ticket /\ ids + 1 \in Nat /\ (ids + 1) + 1 \in Int31 /\ ticket \in Nat
      /\ GoodFiles(files)
  BY <1>2, <1>3, Agree
<1>5. /\ r.error \in Int31
      /\ r.error # 0 \/ r.objects = <<>> \/ \E o : r.objects = <<o>> /\ IsObject(class, o)
      /\ Answer(q, seen) = <<a>> /\ Writes(q, r)
  BY DEF Right, Fits
<1>15. seen \in Store!Views
  BY <1>4, ViewsAre
<1> HIDE DEF q, class, a
<1>6. AnswerIn(ServiceReply(ids + 1, ticket, sub, r.error, class, r.objects), ticket, q) = a
  <2>1. class = Form(q.op).class
    BY DEF class, q
  <2>2. Ready(ticket, q, ids + 1, sub, r.error, class, r.objects)
    BY <1>3, <1>4, <1>5, <2>1 DEF Ready
  <2> QED
    BY <2>2, ServiceReplied DEF a
<1>7. answers' = Append(answers, a) /\ ids' = ids + 1
  BY <1>2, <1>4, <1>6 DEF SendsReply, Sends, q, class
<1>8. answers' = answers \o <<a>> /\ \E S : answers' \in Seq(S)
  BY <1>7, ToldIs
<1>9. files' \in Store!Served(q) /\ GoodFiles(files')
  BY <1>4, <1>5, WrittenServed
<1>10. Serves(Head(awaited), <<a>>)
  BY <1>2, <1>5, <1>9, <1>15 DEF Serves
<1>11. Store!Serve
  BY <1>2, <1>8, <1>10, IsServed DEF Parsed
<1>12. /\ Message.buffer \in Parcels
       /\ Message.buffer.at <= Len(Message.buffer.data) /\ Remaining(Message.buffer) = Rest
  BY <1>2, RequestFound DEF q
<1>13. MovesOn
  BY <1>4, <1>7, <1>8, <1>9, <1>12 DEF MovesOn, Parsed
<1>14. StoreInv'
  BY <1>2, <1>13, KeptOn
<1> QED
  BY <1>11, <1>14 DEF Answered

\* a request to a service,
LEMMA RequestStep ==
  ASSUME StoreInv, ParseRequest
  PROVE  Answered
<1> DEFINE q == awaited[1]
<1>1. /\ Parsing /\ HasMoreData(packet) /\ Size \notin {0, CONNECTION} /\ Type # <<HELLO>>
      /\ Parsed /\ UNCHANGED <<key, ticket, asked, lives>>
  BY DEF ParseRequest, Parsing
<1>2. awaited # <<>> /\ IsRequest(q)
  BY <1>1, FirstAwaited
<1>3. /\ Selected(Type[1], Data) = IF q.op \in DOMAIN Callbacks THEN {q.op} ELSE {}
      /\ Deserialize(Form(q.op).args, Sub(Data).buffer).object = q.args
  BY <1>2, RequestSelected
<1>4. PICK op \in Selected(Type[1], Data) : \E a \in {Arguments(op)}, seen \in Views : Call(op, a, seen)
  BY DEF ParseRequest
<1>5. q.op \in DOMAIN Callbacks /\ op = q.op /\ Arguments(op) = q.args
  BY <1>3, <1>4 DEF Arguments
<1>6. PICK seen \in Views : Call(q.op, q.args, seen)
  BY <1>4, <1>5
<1> DEFINE r == Handled(q.op, q.args, seen)
<1>7. Form(q.op).sub \in Byte
  BY <1>5, OpTypes DEF Ops
<1>8. GoodFiles(seen)
  BY <1>6, ViewsAre DEF StoreInv
<1>9. Right(q, r, seen)
  BY <1>2, <1>5, <1>8, HandledRight
<1>10. /\ files' \in Written(r.writes)
       /\ SendsReply(Form(q.op).sub, r.error, Form(q.op).class, r.objects)
  BY <1>6 DEF Call
<1> HIDE DEF r
<1> QED
  BY <1>1, <1>6, <1>7, <1>9, <1>10, ReplyStep

\* and one that nobody replies to.
LEMMA UnknownStep ==
  ASSUME StoreInv, ParseUnknown
  PROVE  Answered
<1> DEFINE q == awaited[1]
           r == Reply(0, <<>>)
<1>1. /\ Parsing /\ HasMoreData(packet) /\ Size \notin {0, CONNECTION} /\ Type # <<HELLO>>
      /\ Parsed /\ UNCHANGED <<key, ticket, asked, lives>> /\ files' = files
      /\ Selected(Type[1], Data) = {}
  BY DEF ParseUnknown, Parsing
<1>2. awaited # <<>> /\ IsRequest(q)
  BY <1>1, FirstAwaited
<1>3. q.op \in Ops /\ q.op \notin DOMAIN Callbacks /\ Type[1] = Form(q.op).type
  BY <1>1, <1>2, RequestSelected, RequestObject
<1>4. q.op \in {"no_service", "no_callback"}
  BY <1>3, OpsAre DEF Ops
<1>5. Form(q.op).class = <<>> /\ Type[1] \in Byte
  BY <1>3, <1>4, FormsAre, OpTypes DEF Entry
<1>6. r.error = 0 /\ r.objects = <<>> /\ r.writes = NoFile
  BY DEF Reply
<1>7. Answer(q, files) = <<Plain(0)>> /\ ~IsWrite(q)
  BY <1>4 DEF Answer, IsWrite
<1>8. Fits(Form(q.op).class, r, <<Plain(0)>>)
  BY NothingFits
<1>9. Right(q, r, files)
  BY <1>6, <1>7, <1>8 DEF Right, Writes
<1>10. files' \in Written(r.writes)
  <2>1. Written(NoFile) = {files}
    BY DEF Written, Begun
  <2> QED
    BY <1>1, <1>6, <2>1
<1>12. files \in Views
  BY DEF Views
<1> HIDE DEF r
<1>11. SendsReply(Type[1], r.error, Form(q.op).class, r.objects)
  BY <1>5, <1>6 DEF ParseUnknown, NO_ERROR
<1> QED
  BY <1>1, <1>5, <1>9, <1>10, <1>11, <1>12, ReplyStep

\* A write that fails takes the rest of its packet with it.
LEMMA FailStep ==
  ASSUME StoreInv, ParseFailing
  PROVE  Store!Fail /\ StoreInv'
<1> DEFINE q == awaited[1]
<1>1. /\ Parsing /\ HasMoreData(packet) /\ Size \notin {0, CONNECTION} /\ Type # <<HELLO>> /\ ~sound
      /\ packet' = Fresh(<<>>) /\ awaited' = <<>>
      /\ files' = files /\ key' = key /\ ticket' = ticket /\ ids' = ids /\ asked' = asked
      /\ answers' = answers
  BY DEF ParseFailing, Parsing
<1>2. awaited # <<>> /\ Head(awaited) = q /\ IsRequest(q)
  BY <1>1, FirstAwaited
<1>3. /\ Selected(Type[1], Data) = IF q.op \in DOMAIN Callbacks THEN {q.op} ELSE {}
      /\ Deserialize(Form(q.op).args, Sub(Data).buffer).object = q.args
  BY <1>2, RequestSelected
<1>4. PICK op \in Selected(Type[1], Data) : Handled(op, Arguments(op), files).writes # NoFile
  BY DEF ParseFailing
<1>5. q.op \in DOMAIN Callbacks /\ Handled(q.op, q.args, files).writes # NoFile
  BY <1>3, <1>4 DEF Arguments
<1>6. /\ GoodFiles(files) /\ ticket \in Nat /\ ids \in Nat /\ asked \in Nat /\ asked <= MaxInLife
      /\ ids + Len(awaited) <= asked /\ \E S : answers \in Seq(S)
  BY DEF StoreInv
<1>7. IsWrite(q)
  <2> DEFINE r == Handled(q.op, q.args, files)
  <2>1. Writes(q, r)
    BY <1>2, <1>5, <1>6, HandledRight DEF Right
  <2>2. r.writes # NoFile
    BY <1>5
  <2> HIDE DEF r
  <2> QED
    BY <2>1, <2>2 DEF Writes
<1>8. Store!Fail
  BY <1>1, <1>2, <1>7 DEF Store!Fail
<1>9. key = ticket
  <2>1. q.op # "hello"
    BY <1>7 DEF IsWrite
  <2> QED
    BY <1>2, <2>1, Agree
<1>10. packet' \in Parcels /\ packet'.at <= Len(packet'.data) /\ Remaining(packet') = <<>>
  BY <1>1, EmptyParcel
<1>11. IsPart(awaited') /\ FlattenSeq(Sent(ticket', awaited')) = <<>>
  <2>1. IsPart(<<>>) /\ ticket \in Nat
    BY <1>6 DEF IsPart
  <2>2. Sent(ticket, <<>>) = <<>>
    BY <2>1, SentIs
  <2> QED
    BY <1>1, <2>1, <2>2, FlattenEmpty
<1>12. ids' + Len(awaited') <= asked'
  <2>1. Len(awaited) \in Nat
    BY <1>2, NextBytes
  <2> DEFINE l == Len(awaited)
  <2>2. l \in Nat /\ ids + l <= asked /\ Len(awaited') = 0
    BY <1>1, <1>6, <2>1
  <2> HIDE DEF l
  <2> QED
    BY <1>1, <1>6, <2>2
<1>13. StoreInv'
  BY <1>1, <1>6, <1>9, <1>10, <1>11, <1>12 DEF StoreInv
<1> QED
  BY <1>8, <1>13

\* The bytes of what is asked do not depend on the key that the hello brings.
LEMMA AskedBytes ==
  ASSUME StoreInv, NEW p \in Packets, ~HasMoreData(packet),
         ticket' = IF p[1].op = "hello" THEN p[1].args[1] ELSE ticket
  PROVE  /\ Sent(ticket', p) = Sent(ticket, p) /\ ticket' \in Nat
         /\ FlattenSeq(Sent(ticket, p)) \in Numbers
<1>1. /\ IsPart(p) /\ p # <<>>
      /\ (\A q \in ToSet(p) : IsRequest(q)) \/ (p = <<p[1]>> /\ IsAlone(p[1]))
  BY PacketIsPart
<1>2. ticket \in Nat
  BY DEF StoreInv
<1>3. FlattenSeq(Sent(ticket, p)) \in Numbers
  BY <1>1, <1>2, SentIs, FlattenType
<1>4. CASE p[1].op # "hello"
  BY <1>2, <1>3, <1>4
<1>5. CASE p[1].op = "hello"
  <2> DEFINE q == p[1]
  <2>1. ~IsRequest(q)
    <3>1. q.op \notin Ops
      BY <1>5, OpsAre DEF Ops
    <3> QED
      BY <3>1, RequestObject
  <2>2. p = <<q>> /\ IsAlone(q)
    <3>1. IsRequest(q) \/ IsAlone(q)
      BY <1>1, PartIs
    <3>2. q \in ToSet(p) \/ p = <<q>>
      <4>1. PICK S : p \in Seq(S)
        BY <1>1, PartIs
      <4>2. 1 \in DOMAIN p
        BY <1>1, <4>1
      <4> QED
        BY <4>2 DEF ToSet
    <3> QED
      BY <1>1, <2>1, <3>1, <3>2
  <2>3. Encoded(ticket, q) = Encoded(ticket', q) /\ q.args[1] \in Nat
    <3>1. q.op = "hello" /\ IsAlone(q)
      BY <1>5, <2>2
    <3> HIDE DEF q
    <3>2. Encoded(ticket, q) = Framed(<<0, HELLO, q.args[1]>>) /\ q.args[1] \in Nat
      BY <3>1, EncodedAlone
    <3>3. Encoded(ticket', q) = Framed(<<0, HELLO, q.args[1]>>)
      BY <3>1, EncodedAlone
    <3> QED
      BY <3>2, <3>3
  <2> HIDE DEF q
  <2>4. DOMAIN p = {1} /\ p[1] = q
    BY <2>2
  <2>5. \A i \in DOMAIN p : Encoded(ticket, p[i]) = Encoded(ticket', p[i])
    BY <2>3, <2>4
  <2>6. Sent(ticket', p) = Sent(ticket, p)
    BY <2>5 DEF Sent
  <2>7. ticket' \in Nat
    BY <1>5, <2>3 DEF q
  <2> QED
    BY <1>3, <2>6, <2>7
<1> QED
  BY <1>4, <1>5

\* The game asks, and the store takes note.
LEMMA AskStep ==
  ASSUME StoreInv, NEW p \in Packets, Ask(p)
  PROVE  Store!Ask(p) /\ StoreInv'
<1>1. awaited = <<>> /\ ~HasMoreData(packet)
  BY MoreIsAwaited DEF Ask
<1>2. IsPart(p) /\ p # <<>> /\ \E S : p \in Seq(S)
  BY PacketIsPart
<1>3. /\ packet' = Fresh(FlattenSeq(Sent(ticket, p)))
      /\ ticket' = IF p[1].op = "hello" THEN p[1].args[1] ELSE ticket
      /\ awaited' = p /\ asked' = asked + Len(p) /\ asked + Len(p) <= MaxInLife
      /\ files' = files /\ key' = key /\ ids' = ids /\ answers' = answers
  BY DEF Ask, Sent
<1> DEFINE bytes == FlattenSeq(Sent(ticket, p))
<1>4. Sent(ticket', p) = Sent(ticket, p) /\ ticket' \in Nat /\ bytes \in Numbers
  BY <1>1, <1>3, AskedBytes
<1>6. Store!Ask(p)
  BY <1>1, <1>3 DEF Store!Ask
<1>7. /\ GoodFiles(files) /\ key = ticket /\ \E S : answers \in Seq(S)
      /\ key \in Nat /\ ids \in Nat /\ asked \in Nat /\ ids <= asked
  <2>1. /\ ids \in Nat /\ ids + Len(awaited) <= asked
    BY DEF StoreInv
  <2>2. Len(awaited) = 0
    BY <1>1
  <2>3. ids <= asked
    BY <2>1, <2>2
  <2> QED
    BY <1>1, <2>3 DEF StoreInv
<1>8. packet' \in Parcels /\ packet'.at <= Len(packet'.data) /\ Remaining(packet') = bytes
  <2> HIDE DEF bytes
  <2>1. packet' = Fresh(bytes)
    BY <1>3 DEF bytes
  <2>2. Fresh(bytes) \in Parcels /\ Remaining(Fresh(bytes)) = bytes
    BY <1>4, FreshPlain
  <2>3. Fresh(bytes).at = 0 /\ Fresh(bytes).data = bytes /\ Len(bytes) \in Nat
    BY <1>4 DEF Fresh, Numbers
  <2> QED
    BY <2>1, <2>2, <2>3
<1>9. Len(p) \in Nat
  BY <1>2
<1>10. ids' \in Nat /\ asked' \in Nat /\ asked' <= MaxInLife /\ ids' + Len(awaited') <= asked'
  <2> DEFINE l == Len(p)
  <2>1. l \in Nat /\ asked' = asked + l /\ asked + l <= MaxInLife /\ ids' = ids /\ Len(awaited') = l
    BY <1>3, <1>9
  <2> HIDE DEF l
  <2> QED
    BY <1>7, <2>1
<1>11. GoodFiles(files')
  BY <1>3, <1>7
<1>12. IsPart(awaited') /\ Remaining(packet') = FlattenSeq(Sent(ticket', awaited'))
  BY <1>2, <1>3, <1>4, <1>8
<1>13. IF awaited' # <<>> /\ awaited'[1].op = "hello" THEN ticket' = awaited'[1].args[1]
       ELSE key' = ticket'
  <2>1. p[1].op # "hello" => key' = ticket'
    BY <1>3, <1>7
  <2> QED
    BY <1>2, <1>3, <2>1
<1>14. key' \in Nat /\ \E S : answers' \in Seq(S)
  BY <1>3, <1>7
<1>15. StoreInv'
  BY <1>4, <1>8, <1>10, <1>11, <1>12, <1>13, <1>14 DEF StoreInv
<1> QED
  BY <1>6, <1>15

\* A life begins with nothing asked.
LEMMA NothingAsked ==
  /\ IsPart(<<>>) /\ Remaining(Fresh(<<>>)) = FlattenSeq(Sent(0, <<>>))
  /\ Len(<<>>) = 0 /\ \A S : <<>> \in Seq(S)
<1>1. IsPart(<<>>)
  BY DEF IsPart
<1>2. Sent(0, <<>>) = <<>>
  BY <1>1, SentIs
<1> QED
  BY <1>1, <1>2, FlattenEmpty, EmptyParcel

\* The program dies, as the store may.
LEMMA DieStep ==
  ASSUME StoreInv, Die
  PROVE  Store!Die /\ StoreInv'
<1> DEFINE q == Head(awaited)
           r == Handled(q.op, q.args, files)
<1>1. GoodFiles(files)
  BY DEF StoreInv
<1>2. ASSUME awaited # <<>>, IsWrite(q), files' \in Begun(r.writes)
      PROVE  files' \in Store!Begun(q) /\ GoodFiles(files')
  <2>1. q.op \in DOMAIN Callbacks
    BY <1>2, OpsAre DEF IsWrite
  <2>2. q = awaited[1] /\ (IsRequest(q) \/ IsAlone(q))
    BY <1>2, NextBytes
  <2>3. IsRequest(q)
    BY <2>1, <2>2, OpsAre DEF IsAlone
  <2>4. Writes(q, r)
    BY <1>1, <2>1, <2>3, HandledRight DEF Right
  <2> HIDE DEF q, r
  <2> QED
    BY <1>1, <1>2, <2>4, BegunServed
<1>3. files' \in {files} \cup (IF awaited = <<>> THEN {} ELSE Store!Begun(q)) /\ GoodFiles(files')
  <2>1. files' = files \/ (awaited # <<>> /\ IsWrite(q) /\ files' \in Begun(r.writes))
    BY DEF Die
  <2>2. CASE files' = files
    BY <1>1, <2>2
  <2>3. CASE awaited # <<>> /\ IsWrite(q) /\ files' \in Begun(r.writes)
    BY <1>2, <2>3
  <2> QED
    BY <2>1, <2>2, <2>3
<1>4. /\ key' = 0 /\ ticket' = 0 /\ packet' = Fresh(<<>>) /\ ids' = 0
      /\ awaited' = <<>> /\ answers' = <<>> /\ asked' = 0
  BY DEF Die
<1>5. Store!Die
  BY <1>3, <1>4 DEF Store!Die
<1>6. 0 \in Nat /\ 0 <= MaxInLife
  BY BoundsAssumption, SMT
<1>7. ids' + Len(awaited') <= asked'
  BY <1>4, NothingAsked
<1>8. packet' \in Parcels /\ packet'.at <= Len(packet'.data)
      /\ IsPart(awaited') /\ Remaining(packet') = FlattenSeq(Sent(ticket', awaited'))
  BY <1>4, EmptyParcel, NothingAsked
<1>9. \E S : answers' \in Seq(S)
  BY <1>4, NothingAsked
<1>10. ticket' \in Nat /\ key' \in Nat /\ ids' \in Nat /\ asked' \in Nat /\ asked' <= MaxInLife
  BY <1>4, <1>6
<1>11. IF awaited' # <<>> /\ awaited'[1].op = "hello" THEN ticket' = awaited'[1].args[1]
       ELSE key' = ticket'
  BY <1>4
<1>12. GoodFiles(files')
  BY <1>3
<1>13. StoreInv'
  BY <1>7, <1>8, <1>9, <1>10, <1>11, <1>12 DEF StoreInv
<1> QED
  BY <1>5, <1>13

\* Both begin alike.
LEMMA StoreInit == LobbyInit => StoreInv /\ Store!Init
<1> SUFFICES ASSUME LobbyInit PROVE StoreInv /\ Store!Init
  OBVIOUS
<1>1. /\ files = <<>> /\ key = 0 /\ ticket = 0 /\ packet = Fresh(<<>>) /\ ids = 0
      /\ awaited = <<>> /\ answers = <<>> /\ asked = 0 /\ sound \in BOOLEAN
  BY DEF LobbyInit
<1>2. DOMAIN files = {} /\ files = [x \in {} |-> 0]
  BY <1>1
<1>3. GoodFiles(files)
  BY <1>2 DEF GoodFiles
<1>4. files \in [{} -> Contents] /\ {} \in SUBSET Names
  BY <1>2
<1>5. Store!Init
  BY <1>1, <1>4 DEF Store!Init
<1>6. 0 \in Nat /\ 0 <= MaxInLife
  BY BoundsAssumption, SMT
<1>7. ids + Len(awaited) <= asked
  BY <1>1, NothingAsked
<1>8. packet \in Parcels /\ packet.at <= Len(packet.data)
      /\ IsPart(awaited) /\ Remaining(packet) = FlattenSeq(Sent(ticket, awaited))
  BY <1>1, EmptyParcel, NothingAsked
<1>9. \E S : answers \in Seq(S)
  BY <1>1, NothingAsked
<1>10. StoreInv
  BY <1>1, <1>3, <1>6, <1>7, <1>8, <1>9 DEF StoreInv
<1> QED
  BY <1>5, <1>10

\* Every step of the lobby is one of the store, or none.
LEMMA StoreStep ==
  StoreInv /\ [LobbyNext]_lobbyVars => StoreInv' /\ [Store!Next]_(Store!vars)
<1> SUFFICES ASSUME StoreInv, [LobbyNext]_lobbyVars PROVE StoreInv' /\ [Store!Next]_(Store!vars)
  OBVIOUS
<1> DEFINE Served == (\E p \in Packets : Store!Ask(p)) \/ Store!Serve \/ Store!Fail \/ Store!Die
<1>1. CASE UNCHANGED lobbyVars
  <2>1. UNCHANGED <<files, key, ticket, packet, ids, awaited, answers, sound, asked>>
    BY <1>1 DEF lobbyVars
  <2>2. StoreInv'
    BY <2>1 DEF StoreInv
  <2>3. UNCHANGED Store!vars
    BY <2>1 DEF Store!vars
  <2> QED
    BY <2>2, <2>3
<1>2. ASSUME LobbyNext PROVE StoreInv' /\ Served
  <2>1. CASE \E p \in Packets : Ask(p)
    <3>1. PICK p \in Packets : Ask(p)
      BY <2>1
    <3>2. Store!Ask(p) /\ StoreInv'
      BY <3>1, AskStep
    <3> QED
      BY <3>2
  <2>2. ASSUME Answered PROVE StoreInv' /\ Served
    BY <2>2 DEF Answered
  <2>3. CASE ParseEmpty
    BY <2>2, <2>3, EmptyStep
  <2>4. CASE ParseConnection
    BY <2>2, <2>4, ConnectionStep
  <2>5. CASE ParseHello
    BY <2>2, <2>5, HelloStep
  <2>6. CASE ParseRequest
    BY <2>2, <2>6, RequestStep
  <2>7. CASE ParseUnknown
    BY <2>2, <2>7, UnknownStep
  <2>8. CASE ParseFailing
    BY <2>8, FailStep
  <2>9. CASE Die
    BY <2>9, DieStep
  <2> QED
    BY <1>2, <2>1, <2>3, <2>4, <2>5, <2>6, <2>7, <2>8, <2>9 DEF LobbyNext
<1>3. CASE LobbyNext
  <2>1. StoreInv' /\ Served /\ sound' = sound
    BY <1>2, <1>3 DEF LobbyNext
  <2> QED
    BY <2>1 DEF Store!Next
<1> QED
  BY <1>1, <1>3

\* What the game reads in the bytes of the replies of the services of the lobby
\* (service_server.cpp, i_service.hpp, services) are the answers of a store of files,
\* in order, however many lives the program has, and but for what a failing file
\* system takes away.
THEOREM Files_Are_Kept == PartsSpec => ImplementsFileStore
<1>1. PartsInit => LobbyInit
  BY DEF PartsInit
<1>2. [PartsNext]_<<part, lobbyVars, loginsVars, hostsVars>> => [LobbyNext]_lobbyVars
  BY DEF PartsNext
<1>3. PartsInit => StoreInv /\ Store!Init
  BY <1>1, StoreInit
<1>4. StoreInv /\ [PartsNext]_<<part, lobbyVars, loginsVars, hostsVars>>
        => StoreInv' /\ [Store!Next]_(Store!vars)
  BY <1>2, StoreStep
<1> QED
  BY <1>3, <1>4, PTL DEF PartsSpec, ImplementsFileStore, Store!Spec
============================================================================
