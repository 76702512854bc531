---------------------------- MODULE PacketFraming ----------------------------
(***************************************************************************)
(* How parse_packet finds messages in the bytes that the game sends        *)
(* (game/demonware/service_server.cpp, over the reads of byte_buffer.cpp). *)
(* Every call of send is a packet of its own, and what is left of one is   *)
(* not joined to the next. The game means to send whole messages; here it  *)
(* cuts its stream of bytes anywhere. ServiceServer and Lobby model what   *)
(* becomes of the messages.                                                *)
(*                                                                         *)
(* Of a message only its length counts. Four bytes that are not a size     *)
(* field, but are read as one, may be any number, and so may be the local  *)
(* variable when the read has failed and left it as it was.                *)
(***************************************************************************)
EXTENDS Integers, Sequences, FiniteSetsExt

CONSTANTS
  Streams,    \* sequences of messages, by their sizes, none of them 0 or Connection
  Garbage,    \* numbers that other bytes, and the stack, may hold
  Connection, \* 200 in the source
  MaxReplies  \* bound, two or more: how far replies are counted, and what is handled kept

VARIABLES
  messages,   \* what the game sends: the sizes of the messages
  packet,     \* the part of the stream being parsed: the bytes from..to - 1
  current,    \* current_byte_ of its buffer, as a place in the stream
  parsing,    \* parse_packet is running
  threw,      \* history: a handler threw, and ended the parsing of this packet
  handled,    \* history: what it has handled, as places, in this packet
  replies     \* history: replies to this packet, modulo MaxReplies

vars == <<messages, packet, current, parsing, threw, handled, replies>>

\* How long the first n messages are, each behind its size, and where one begins.
Field == 4
Length[n \in 0..Len(messages)] == IF n = 0 THEN 0 ELSE Length[n - 1] + Field + messages[n]
Begin(k) == Length[k - 1]
Begins == {Begin(k) : k \in 1..(Len(messages) + 1)}

\* A message that is handled: its place, or the zero bytes instead of one.
Place(from, to) == [from |-> from, to |-> to]
Zeros == Place(0, 0)

Init ==
  /\ messages \in Streams
  /\ packet = Place(0, 0) /\ current = 0
  /\ parsing = FALSE /\ threw = FALSE /\ handled = << >> /\ replies = 0

\* send takes four bytes or more; run_frame parses them in their turn.
Send(to) ==
  /\ ~parsing
  /\ to - packet.to > 3 /\ to <= Begin(Len(messages) + 1)
  /\ packet' = Place(packet.to, to)
  /\ current' = packet.to
  /\ parsing' = TRUE /\ threw' = FALSE
  /\ handled' = << >> /\ replies' = 0
  /\ UNCHANGED messages

\* Mutant of HasMoreData: one turn too many.
HasMoreDataStill == parsing /\ packet.to >= current

HasMoreData == parsing /\ packet.to > current

\* byte_buffer::read: whether there are so many bytes left.
CanRead(at, bytes) == at + bytes <= packet.to

\* read_int32 of the size field; where it fails, size keeps what it held.
Sizes ==
  IF CanRead(current, Field) /\ \E k \in DOMAIN messages : Begin(k) = current
  THEN {messages[k] : k \in {i \in DOMAIN messages : Begin(i) = current}}
  ELSE Garbage

AfterField == IF CanRead(current, Field) THEN current + Field ELSE current

Replied == replies' = (replies + 1) % MaxReplies
Handle(place) == handled' = IF Len(handled) < MaxReplies THEN Append(handled, place) ELSE handled

\* A size of zero, or of a connection request: a reply, and no more of this packet.
LastReply ==
  /\ HasMoreData /\ \E size \in Sizes : size <= 0 \/ size = Connection
  /\ Replied
  /\ parsing' = FALSE
  /\ UNCHANGED <<messages, packet, current, threw, handled>>

\* Mutant of TooLarge: the size field itself does not count for the packet.
TooLargeEarly(size) == packet.to - packet.from - 2 * Field < size

\* The size is compared with that of the whole packet, not of what is left.
TooLarge(size) == packet.to - packet.from < size

Overlong ==
  /\ HasMoreData /\ \E size \in Sizes : size > 0 /\ size # Connection /\ TooLarge(size)
  /\ parsing' = FALSE
  /\ UNCHANGED <<messages, packet, current, threw, handled, replies>>

\* Where the read of the message fails, the buffer stays zero and the place as
\* it is. Zero bytes are a message of type 0, which has no service, unless there
\* is one only: then the type is whatever the variable held. A message is replied
\* to; or it is a hello; or its handler throws, and the rest of the packet is lost.
Message ==
  \E size \in Sizes :
    LET whole == CanRead(AfterField, size)
        of_any_type == whole \/ size = 1
    IN
    /\ HasMoreData /\ size > 0 /\ size # Connection /\ ~TooLarge(size)
    /\ current' = IF whole THEN AfterField + size ELSE AfterField
    /\ Handle(IF whole THEN Place(AfterField, AfterField + size) ELSE Zeros)
    /\ \/ Replied /\ UNCHANGED <<parsing, threw>>
       \/ of_any_type /\ UNCHANGED <<replies, parsing, threw>>
       \/ of_any_type /\ parsing' = FALSE /\ threw' = TRUE /\ UNCHANGED replies
    /\ UNCHANGED <<messages, packet>>

ParseEnds ==
  /\ parsing /\ ~HasMoreData
  /\ parsing' = FALSE
  /\ UNCHANGED <<messages, packet, current, threw, handled, replies>>

Parse == LastReply \/ Overlong \/ Message \/ ParseEnds

Next == (\E to \in 1..Begin(Len(messages) + 1) : Send(to)) \/ Parse

\* The thread of the servers goes on with the packet.
Spec == Init /\ [][Next]_vars /\ WF_vars(Parse)

-----------------------------------------------------------------------------
(* Properties.                                                             *)

TypeOK ==
  /\ messages \in Streams
  /\ packet.from <= packet.to /\ current \in packet.from..packet.to
  /\ parsing \in BOOLEAN /\ threw \in BOOLEAN /\ replies \in 0..MaxReplies

Whole == packet.from \in Begins /\ packet.to \in Begins

\* The messages that lie in the packet as a whole.
MessagesFrom(k) ==
  LET inside == {i \in DOMAIN messages : i >= k /\ Begin(i + 1) <= packet.to}
  IN [j \in 1..Cardinality(inside) |-> Place(Begin(k + j - 1) + Field, Begin(k + j))]
MessagesOf ==
  MessagesFrom(CHOOSE k \in 1..(Len(messages) + 1) : Begin(k) = packet.from)

\* What begins with a message is parsed right up to where it was cut, or to the
\* message whose handler throws: the messages that are there as a whole come
\* first, each once and in order, and none is left out but behind such a handler.
WholeMessagesFirst ==
  packet.from \in Begins =>
    LET both == Min({Len(handled), Len(MessagesOf)})
    IN /\ SubSeq(handled, 1, both) = SubSeq(MessagesOf, 1, both)
       /\ ~parsing /\ ~threw => Len(handled) >= Len(MessagesOf)

\* Only a cut packet makes the server take other bytes for a message, or none.
OnlyCutsMislead == Whole => \A i \in DOMAIN handled : handled[i] \in {MessagesOf[j] : j \in DOMAIN MessagesOf}

\* A packet of whole messages is parsed to its end. The last bytes of a cut one,
\* fewer than a size field, may be taken for a message again and again.
ParsingEnds == (parsing /\ Whole) ~> ~parsing
=============================================================================
