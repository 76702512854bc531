--------------------------- MODULE ServiceServer ---------------------------
(***************************************************************************)
(* One emulated demonware server (game/demonware/service_server.cpp).      *)
(* Game threads call send, which queues a whole packet, and recv, which    *)
(* pops bytes; the demonware thread calls run_frame, which takes one       *)
(* packet, parses it into sub-packets and pushes the bytes of the replies. *)
(* mutex_ guards both queues, but run_frame and recv test for emptiness    *)
(* before they take it.                                                    *)
(*                                                                         *)
(* A packet is the sequence of sub-packets that parse_packet finds in its  *)
(* bytes; <<>> stands for a buffer too short for one size field.  What the *)
(* emulator does with a sub-packet depends on its kind:                    *)
(*   "empty"       size <= 0                                               *)
(*   "connection"  size = 200                                              *)
(*   "overlong"    size exceeds the packet                                 *)
(*   "message"     a message: its type (after decryption) and what the     *)
(*                 service callback does with its data                     *)
(*   "trailing"    one to three bytes behind the others: the read of size  *)
(*                 fails and leaves in it what the stack held              *)
(* A message cut short by the end of the packet reads as zero bytes, that  *)
(* is as a message of the unregistered type 0.                             *)
(*                                                                         *)
(* Trailing bytes are read as a sub-packet of any kind. What is read need  *)
(* not use them up, and then they are read again, it may be for ever.      *)
(***************************************************************************)
EXTENDS Integers, Sequences, SequencesExt

CONSTANTS
  Readers,      \* game threads that call recv
  Packets,      \* packets the game may send
  Services,     \* message types with a registered service
  ReadSizes,    \* buffer lengths passed to recv
  ReplySize,    \* bytes in a reply
  Guesses,      \* sub-packets that trailing bytes may be read as
  MaxGuesses,   \* bound: readings of trailing bytes that are kept before the last
  MaxPackets    \* bound: packets accepted in a behaviour

HELLO == 7      \* bdLSGHello: the one service the server never answers for
Kinds == {"empty", "connection", "overlong", "message", "trailing"}
Calls == {"reply", "silent", "throw"}
SubPacket == [kind : Kinds, type : Nat, call : Calls]
Packet == Seq(SubPacket)

\* Trailing bytes are the last of their packet.
Trailing == [kind |-> "trailing", type |-> 0, call |-> "silent"]
ASSUME PacketsAssumption ==
  /\ Packets \subseteq Packet /\ Services \subseteq Nat
  /\ \A p \in Packets : \A i \in DOMAIN p :
       p[i].kind = "trailing" => i = Len(p) /\ p[i] = Trailing
  /\ Guesses \subseteq SubPacket \ {Trailing}
ASSUME SizesAssumption ==
  /\ ReplySize \in Nat \ {0}
  /\ ReadSizes \subseteq Nat \ {0}
  /\ MaxGuesses \in Nat /\ MaxPackets \in Nat

VARIABLES
  incoming,     \* incoming_queue_
  outgoing,     \* outgoing_queue_, a queue of bytes
  mutex,        \* mutex_: who holds it across steps, "server" or "none"
  reply_sent,   \* reply_sent_
  server,       \* where the demonware thread is in run_frame
  taken,        \* the packet run_frame took
  packet,       \* its sub-packets, as far as they have been read
  at,           \* index of its sub-packet being parsed
  reader,       \* where each game thread is in recv
  asked,        \* the length each game thread last passed to recv, 0 before its first call
  got,          \* what its last recv returned, -1 for SOCKET_ERROR
  log,          \* history: the packets accepted
  done,         \* history: how many of them have been parsed
  finished,     \* history: unread bytes of the answers to those
  answer        \* history: bytes pushed so far for the packet being parsed

serverVars == <<reply_sent, server, taken, packet, at>>
readerVars == <<reader, asked, got>>
vars == <<incoming, outgoing, mutex, serverVars, readerVars,
          log, done, finished, answer>>

Lowest(a, b) == IF a <= b THEN a ELSE b
Rest(s, n) == SubSeq(s, n + 1, Len(s))

\* A reply is known by the packet and sub-packet it answers and its form.
Forms == {"raw", "connection", "service", "default"}
Reply == [packet : Nat \ {0}, sub : Nat \ {0}, form : Forms]
Byte == [reply : Reply, at : 1..ReplySize]
\* Mutant of Bytes: offsets from the wrong base.
BytesOffByOne(r) == [i \in 1..ReplySize |-> [reply |-> r, at |-> i + 1]]
Bytes(r) == [i \in 1..ReplySize |-> [reply |-> r, at |-> i]]

Init ==
  /\ incoming = <<>> /\ outgoing = <<>> /\ mutex = "none"
  /\ reply_sent = FALSE /\ server = "idle" /\ at = 1
  /\ taken = <<>> /\ packet = <<>>
  /\ reader = [r \in Readers |-> "idle"]
  /\ asked = [r \in Readers |-> 0]
  /\ got = [r \in Readers |-> -1]
  /\ log = <<>> /\ done = 0 /\ finished = <<>> /\ answer = <<>>

-----------------------------------------------------------------------------
(* Game threads.                                                           *)

\* service_server::send, one critical section. A buffer of 3 bytes or fewer
\* is refused and leaves no trace.
Send(p) ==
  /\ p # <<>>
  /\ Len(log) < MaxPackets
  /\ mutex = "none"
  /\ incoming' = Append(incoming, p)
  /\ log' = Append(log, p)
  /\ UNCHANGED <<outgoing, mutex, serverVars, readerVars, done, finished, answer>>

\* Mutant of RecvTest: no test of the queue.
RecvUntested(r, n) ==
  /\ reader[r] = "idle"
  /\ reader' = [reader EXCEPT ![r] = "waiting"] /\ asked' = [asked EXCEPT ![r] = n]
  /\ UNCHANGED <<incoming, outgoing, mutex, serverVars, got, log, done, finished, answer>>

\* service_server::recv up to the lock: the unlocked test of the queue.
RecvTest(r, n) ==
  /\ reader[r] = "idle"
  /\ IF outgoing # <<>>
       THEN reader' = [reader EXCEPT ![r] = "waiting"] /\ UNCHANGED got
       ELSE got' = [got EXCEPT ![r] = -1] /\ UNCHANGED reader
  /\ asked' = [asked EXCEPT ![r] = n]
  /\ UNCHANGED <<incoming, outgoing, mutex, serverVars, log, done, finished, answer>>

\* Mutant of RecvPop: it does not take the lock.
RecvPopUnlocked(r) ==
  /\ reader[r] = "waiting"
  /\ LET n == Lowest(asked[r], Len(outgoing))
     IN  /\ outgoing' = Rest(outgoing, n) /\ finished' = Rest(finished, n)
         /\ got' = [got EXCEPT ![r] = n]
  /\ reader' = [reader EXCEPT ![r] = "idle"]
  /\ UNCHANGED <<incoming, mutex, serverVars, asked, log, done, answer>>

\* The rest of recv, under the lock: pop as many bytes as there are, at most
\* what was asked for.
RecvPop(r) ==
  /\ reader[r] = "waiting"
  /\ mutex = "none"
  /\ LET n == Lowest(asked[r], Len(outgoing))
     IN  /\ outgoing' = Rest(outgoing, n)
         /\ finished' = Rest(finished, n)
         /\ got' = [got EXCEPT ![r] = n]
  /\ reader' = [reader EXCEPT ![r] = "idle"]
  /\ UNCHANGED <<incoming, mutex, serverVars, asked, log, done, answer>>

-----------------------------------------------------------------------------
(* The demonware thread: run_frame and what it calls.                      *)

\* Mutant of SendReply: it does not note that it replied.
SendReplyUnnoted(form) ==
  LET bytes == Bytes([packet |-> done + 1, sub |-> at, form |-> form])
  IN  outgoing' = outgoing \o bytes /\ answer' = answer \o bytes /\ UNCHANGED reply_sent

\* service_server::send_reply. The thread holds the recursive mutex already.
SendReply(form) ==
  LET bytes == Bytes([packet |-> done + 1, sub |-> at, form |-> form])
  IN  /\ reply_sent' = TRUE
      /\ outgoing' = outgoing \o bytes
      /\ answer' = answer \o bytes

NoReply == UNCHANGED <<reply_sent, outgoing, answer>>

\* Only this thread pops incoming_queue_, so the unlocked test still holds
\* when it gets the lock.
RunFrame ==
  /\ server = "idle"
  /\ incoming # <<>>
  /\ mutex = "none"
  /\ mutex' = "server"
  /\ taken' = Head(incoming)
  /\ packet' = taken'
  /\ incoming' = Tail(incoming)
  /\ at' = 1
  /\ server' = "parse"
  /\ UNCHANGED <<outgoing, reply_sent, readerVars, log, done, finished, answer>>

\* parse_packet reads the next size field.
Parsing(kind) == server = "parse" /\ at <= Len(packet) /\ packet[at].kind = kind
LoopUnchanged == UNCHANGED <<incoming, mutex, taken, readerVars, log, done, finished>>
ParseUnchanged == UNCHANGED packet /\ LoopUnchanged

\* size <= 0: four zero bytes, and the rest of the packet is dropped.
ParseEmpty ==
  /\ Parsing("empty")
  /\ SendReply("raw")
  /\ server' = "unlock"
  /\ UNCHANGED at /\ ParseUnchanged

\* size = 200: the connection id, and the rest of the packet is dropped.
ParseConnection ==
  /\ Parsing("connection")
  /\ SendReply("connection")
  /\ server' = "unlock"
  /\ UNCHANGED at /\ ParseUnchanged

\* Mutant of ParseOverlong: the loop tries the same bytes again.
ParseOverlongAgain ==
  /\ Parsing("overlong")
  /\ UNCHANGED <<at, server>> /\ NoReply /\ ParseUnchanged

\* The packet is smaller than the size it names: the rest is dropped.
ParseOverlong ==
  /\ Parsing("overlong")
  /\ server' = "unlock"
  /\ UNCHANGED at /\ NoReply /\ ParseUnchanged

ParseMessage ==
  /\ Parsing("message")
  /\ reply_sent' = FALSE
  /\ server' = "handle"
  /\ UNCHANGED <<at, outgoing, answer>> /\ ParseUnchanged

\* Trailing bytes are read as some sub-packet, which uses them up or leaves some
\* of them for the next turn.
ReadTrailing ==
  /\ Parsing("trailing") /\ at = Len(packet)
  /\ \E m \in Guesses :
       LET read == [packet EXCEPT ![at] = m]
       IN  \/ packet' = read
           \/ Len(packet) < Len(taken) + MaxGuesses /\ packet' = Append(read, Trailing)
  /\ UNCHANGED <<at, server>> /\ NoReply /\ LoopUnchanged

\* They are read again once more, as a message that leaves them where they are,
\* and nothing is kept of it: the loop sets reply_sent_ to false and then to true.
ReadAgain ==
  /\ Parsing("trailing") /\ at = Len(packet)
  /\ Len(packet) = Len(taken) + MaxGuesses
  /\ reply_sent' = ~reply_sent
  /\ UNCHANGED <<at, server, outgoing, answer>> /\ ParseUnchanged

\* has_more_data is false: the loop ends.
ParseEnd ==
  /\ server = "parse"
  /\ at > Len(packet)
  /\ server' = "unlock"
  /\ UNCHANGED at /\ NoReply /\ ParseUnchanged

\* call_handler: a registered service replies, stays silent (an unknown
\* sub-type, and always bdLSGHello) or throws; an exception ends parse_packet.
CallHandler ==
  /\ server = "handle"
  /\ LET m == packet[at]
         called == m.type \in Services
     IN  /\ IF called /\ m.call = "reply" /\ m.type # HELLO
              THEN SendReply("service")
              ELSE NoReply
         /\ server' = IF called /\ m.call = "throw" THEN "unlock" ELSE "settle"
  /\ UNCHANGED at /\ ParseUnchanged

\* A message no service answered gets a default reply, unless it is a hello.
Settle ==
  /\ server = "settle"
  /\ IF ~reply_sent /\ packet[at].type # HELLO
       THEN SendReply("default")
       ELSE NoReply
  /\ at' = at + 1
  /\ server' = "parse"
  /\ ParseUnchanged

\* run_frame returns and its lock_guard releases the mutex.
FrameDone ==
  /\ server = "unlock"
  /\ mutex' = "none"
  /\ server' = "idle"
  /\ done' = done + 1
  /\ finished' = finished \o answer
  /\ answer' = <<>>
  /\ UNCHANGED <<incoming, outgoing, reply_sent, taken, packet, at, readerVars, log>>

ServerStep ==
  \/ RunFrame
  \/ ParseEmpty \/ ParseConnection \/ ParseOverlong \/ ParseMessage \/ ParseEnd
  \/ ReadTrailing \/ ReadAgain
  \/ CallHandler \/ Settle
  \/ FrameDone

Next ==
  \/ \E p \in Packets : Send(p)
  \/ \E r \in Readers : RecvPop(r) \/ \E n \in ReadSizes : RecvTest(r, n)
  \/ ServerStep

Spec == Init /\ [][Next]_vars

\* The demonware thread calls run_frame every 50 ms for as long as it runs.
FairSpec == Spec /\ WF_vars(ServerStep)

-----------------------------------------------------------------------------
(* Properties.                                                             *)

Places == {"idle", "parse", "handle", "settle", "unlock"}

\* Every variable keeps its type; replies in the queues are well-formed.
TypeOK ==
  /\ incoming \in Seq(Packet) /\ taken \in Packet /\ packet \in Packet /\ log \in Seq(Packet)
  /\ outgoing \in Seq(Byte) /\ finished \in Seq(Byte) /\ answer \in Seq(Byte)
  /\ mutex \in {"none", "server"} /\ server \in Places
  /\ reply_sent \in BOOLEAN
  /\ at \in Nat \ {0} /\ done \in Nat
  /\ reader \in [Readers -> {"idle", "waiting"}]
  /\ asked \in [Readers -> Nat]
  /\ got \in [Readers -> Nat \cup {-1}]

\* A reader sees the answer to a packet whole or not at all: what is readable
\* is the finished answers and then the one in progress, whose bytes nobody
\* takes although recv looks at the queue without the lock.
AnswersStayWhole == outgoing = finished \o answer

\* A thread that has been alone in reading never gets 0, which the game would
\* take for a closed connection: the queue can only be drained between recv's
\* test and its lock by a second reader.
LoneReaderNeverEmpty ==
  \A r \in Readers : got[r] = 0 => \E q \in Readers \ {r} : asked[q] # 0

\* A packet accepted by send is parsed eventually, whatever its sub-packets are,
\* unless from some time on the thread reads the same trailing bytes for ever.
EveryPacketParsed ==
  \/ <>[]Parsing("trailing")
  \/ \A n \in 1..MaxPackets : (Len(log) >= n) ~> (done >= n)

-----------------------------------------------------------------------------
(* The promise the server keeps, with any answer made of replies to the    *)
(* packet answered. Exact, below, says which bytes each answer is.         *)

Current == IF server = "idle" THEN <<>> ELSE <<taken>>
NumberedFrom(d, s) == [i \in 1..Len(s) |-> [no |-> d + i, packet |-> s[i]]]
Waiting == Current \o incoming
Pending == NumberedFrom(done, Waiting)
AboutPacket(q) ==
  {a \in Seq(Byte) : \A i \in 1..Len(a) : a[i].reply.packet = q.no}
Stream == INSTANCE ReplyStream WITH
  Requests <- [no : Nat \ {0}, packet : Packets],
  Answers <- AboutPacket,
  pending <- Pending,
  stream <- finished

-----------------------------------------------------------------------------
(* The exact answer to each packet, as a definition independent of the     *)
(* parse loop, and the claim that the server gives just these answers.     *)

Called(m) == m.kind = "message" /\ m.type \in Services

\* The form of the reply to a sub-packet, "none" if it gets no reply.
FormOf(m) ==
  CASE m.kind = "empty"                               -> "raw"
    [] m.kind = "connection"                          -> "connection"
    [] m.kind \in {"overlong", "trailing"}            -> "none"
    [] m.kind = "message" /\ m.type = HELLO           -> "none"
    [] m.kind = "message" /\ m.type # HELLO ->
         IF Called(m) /\ m.call = "throw" THEN "none"
         ELSE IF Called(m) /\ m.call = "reply" THEN "service"
         ELSE "default"

\* A sub-packet that ends the parsing of its packet.
Ends(m) == m.kind # "message" \/ (Called(m) /\ m.call = "throw")

\* The answer to packet p, the no-th one accepted, all of whose sub-packets are read.
AnswerTo(q) ==
  LET p == q.packet
      read == {i \in DOMAIN p : \A j \in 1..(i - 1) : ~Ends(p[j])}
      reply(i) == [packet |-> q.no, sub |-> i, form |-> FormOf(p[i])]
  IN  FlattenSeq([i \in 1..Len(p) |->
        IF i \in read /\ FormOf(p[i]) # "none" THEN Bytes(reply(i)) ELSE <<>>])

\* What a packet may be read as: trailing bytes as one guess after the other, but
\* stay what they are where the parsing ends before them.
SomeGuesses ==
  UNION {[1..n -> Guesses \cup {Trailing}] : n \in 1..(MaxGuesses + 1)}
Readings(p) ==
  IF p # <<>> /\ p[Len(p)].kind = "trailing"
    THEN {SubSeq(p, 1, Len(p) - 1) \o g : g \in SomeGuesses}
    ELSE {p}
ExactAnswers(q) == {AnswerTo([q EXCEPT !.packet = p]) : p \in Readings(q.packet)}

Exact == INSTANCE ReplyStream WITH
  Requests <- [no : 1..MaxPackets, packet : Packets],
  Answers <- ExactAnswers,
  pending <- Pending,
  stream <- finished

\* The server implements the request-reply stream: packets are answered one at
\* a time in order, each by the bytes AnswerTo says, all at once. What trailing
\* bytes add is up to the stack, but it comes behind the rest and is whole too.
ImplementsReplyStream == Exact!Spec
=============================================================================
