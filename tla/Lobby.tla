------------------------------- MODULE Lobby --------------------------------
(***************************************************************************)
(* The lobby server as the game sees it: what parse_packet and the         *)
(* services bdLSGHello, bdStorage, bdTitleUtilities and bdDML make of      *)
(* requests that come as bytes (game/demonware/service_server.cpp,         *)
(* i_service.hpp, services), and what the game reads out of the bytes of   *)
(* the replies. Who waits for whom is the subject of ServiceServer; here a *)
(* packet is served message by message, the game reads each reply as it is *)
(* sent, and the program may die anywhere.                                 *)
(*                                                                         *)
(* External: the game, the first eight bytes of a hash, which tell names   *)
(* apart, the clock, and the file system. The game sends whole messages,   *)
(* so none is dropped for being longer than its packet. A cipher is only   *)
(* known to be undone by the same key.                                     *)
(***************************************************************************)
EXTENDS ByteBuffer

CONSTANTS
  Names,        \* names of the user's files
  Contents,     \* what the game stores in them
  Publisher,    \* publisher_resources_: names and contents
  Now,          \* time(nullptr), as bytes
  Packets,      \* sequences of requests that the game sends as one packet
  MaxInLife,  \* bound: requests in one life of the program
  MaxLives      \* bound: lives of the program

ASSUME NamesAssumption == Names \subseteq Seq(1..255) /\ Contents \subseteq Seq(Byte)
\* The ids of a life are numbers that Little writes.
ASSUME BoundsAssumption == MaxInLife \in Nat /\ MaxInLife <= 2147483646 /\ MaxLives \in Nat
ASSUME PublisherAssumption ==
  /\ \A name \in DOMAIN Publisher :
       name \in ValuesOf("string") /\ Publisher[name] \in ValuesOf("blob")
  /\ Now \in ValuesOf("uint32")

-----------------------------------------------------------------------------
(* The services: the type of each, its sub-types, what a handler reads, and *)
(* the class of the objects that it replies with.                          *)

HELLO == 7
Storage(sub, args, class) == [type |-> 10, sub |-> sub, args |-> args, class |-> class]
Callbacks == [
  set_legacy_user_file   |-> Storage(1, <<"string", "bool", "blob">>, bdFileInfo),
  get_legacy_user_file   |-> Storage(3, <<"string">>, bdFileData),
  list_legacy_user_files |-> Storage(5, <<"uint64", "uint32", "uint16", "uint16", "string">>,
                                     bdFileInfo),
  list_publisher_files   |-> Storage(6, <<"uint32", "uint16", "uint16", "string">>, bdFileInfo),
  get_publisher_file     |-> Storage(7, <<"string">>, bdFileData),
  set_user_file          |-> Storage(10, <<"string", "string", "bool", "blob", "uint64">>,
                                     bdFileInfo),
  delete_user_file       |-> Storage(11, <<"string", "string", "uint64">>, bdFileInfo),
  get_user_file          |-> Storage(12, <<"string", "string", "uint64", "string">>, bdFileData),
  get_server_time        |-> [type |-> 12, sub |-> 6, args |-> <<>>, class |-> bdTimeStamp],
  get_user_raw_data      |-> [type |-> 27, sub |-> 2, args |-> <<>>, class |-> bdDMLRawData] ]

\* Requests for which there is no service, or no callback of it.
Unknown == [ no_service  |-> [type |-> 99, sub |-> 1, args |-> <<>>, class |-> <<>>],
             no_callback |-> [type |-> 10, sub |-> 4, args |-> <<>>, class |-> <<>>] ]
Form(op) == IF op \in DOMAIN Callbacks THEN Callbacks[op] ELSE Unknown[op]

\* A request has the values that the handler is going to read. What ends a packet,
\* and the hello, after which the keys change, the game sends alone.
IsRequest(q) ==
  /\ q.op \in DOMAIN Callbacks \cup DOMAIN Unknown
  /\ q.args \in Seq(Seq(Byte)) /\ Len(q.args) = Len(Form(q.op).args)
  /\ \A i \in DOMAIN q.args : q.args[i] \in ValuesOf(Form(q.op).args[i])
IsAlone(q) == q.op \in {"keep_alive", "connect"} \/ (q.op = "hello" /\ q.args[1] \in Nat)
ASSUME PacketsAssumption ==
  \A p \in Packets :
    /\ p \in Seq(ToSet(p)) /\ p # <<>>
    /\ (\A q \in ToSet(p) : IsRequest(q)) \/ (Len(p) = 1 /\ IsAlone(p[1]))

-----------------------------------------------------------------------------
(* Cipher and frames.                                                      *)

BLOCK == 8
Encrypt(k, bytes) == [i \in DOMAIN bytes |-> bytes[i] + 256 * k]
Decrypt(k, bytes) == [i \in DOMAIN bytes |-> bytes[i] - 256 * k]
Zeros(n) == [i \in 1..n |-> 0]

\* ~7 & (size + 7), and the resize.
Padded(bytes) == bytes \o Zeros((BLOCK - (Len(bytes) % BLOCK)) % BLOCK)

CHECKSUM == <<239, 190, 173, 222>>
SEED == <<55, 19, 55, 19>>

\* encrypted_reply::get_data and unencrypted_reply::get_data.
EncryptedReply(k, type, payload) ==
  LET data == Padded(CHECKSUM \o <<type>> \o payload)
  IN  Little(Len(data) + 5) \o <<1>> \o SEED \o Encrypt(k, data)
UnencryptedReply(type, payload) == Little(Len(payload) + 2) \o <<0, type>> \o payload

\* service_reply::send: an id counted up from 0x8000000000000001, the error and
\* the sub-type, then the number of objects, twice, and the objects.
NO_ERROR == 0
BD_NO_FILE == 1000
TransactionId(n) == Little(n + 1) \o <<0, 0, 0, 128>>
ReplyHead == <<"uint64", "uint32", "byte">>
Counts(b, objects) ==
  LET once == WriteScalar(b, "uint32", Little(Len(objects)))
  IN  IF objects = <<>> THEN once ELSE WriteScalar(once, "uint32", Little(Len(objects)))
SerializeAll(class, objects, b) ==
  LET writer[i \in 0..Len(objects)] ==
        IF i = 0 THEN b ELSE Serialize(class, objects[i], writer[i - 1])
  IN  writer[Len(objects)]
ReplyHeader(n, sub, error) == <<TransactionId(n), Little(error), <<sub>>>>
ReplyBody(n, sub, error, class, objects) ==
  LET head == Serialize(ReplyHead, ReplyHeader(n, sub, error), Fresh(<<>>))
  IN  IF error # NO_ERROR THEN WriteScalar(head, "uint64", TransactionId(n))
      ELSE SerializeAll(class, objects, Counts(head, objects))
ServiceReply(n, k, sub, error, class, objects) ==
  EncryptedReply(k, 1, ReplyBody(n, sub, error, class, objects).data)

\* The reply to a packet that begins with the size of a connection request.
CONNECTION == 200
CONNECTION_ID == <<253, 0, 0, 0, 0, 0, 0, 0>>
ConnectionReply == UnencryptedReply(4, WriteScalar(Fresh(<<>>), "uint64", CONNECTION_ID).data)

-----------------------------------------------------------------------------
(* The server reads a request.                                             *)

\* Behind the framing of a message and its cipher: the type, and the rest.
Opened(k, message) ==
  LET enc == ReadScalar(Untyped(Fresh(message)), "bool")
      iv == ReadScalar(enc.buffer, "int32")
      plain == Untyped(Fresh(Decrypt(k, Remaining(iv.buffer))))
      checked == ReadScalar(plain, "int32")
  IN  ReadScalar(IF enc.value = <<1>> THEN checked.buffer ELSE enc.buffer, "byte")

\* i_service::call_service: the callbacks that the next byte selects.
Sub(data) == ReadScalar(Fresh(data), "byte")
Selected(type, data) ==
  {op \in DOMAIN Callbacks : Callbacks[op].type = type /\ <<Callbacks[op].sub>> = Sub(data).value}

-----------------------------------------------------------------------------
(* The game: it writes a request q with its key k ...                      *)

Framed(bytes) == Little(Len(bytes)) \o bytes
RequestData(q) ==
  Serialize(Form(q.op).args, q.args, WriteScalar(Fresh(<<>>), "byte", <<Form(q.op).sub>>)).data
Encoded(k, q) ==
  CASE q.op = "keep_alive" -> Zeros(4)
    [] q.op = "connect" -> Little(CONNECTION)
    [] q.op = "hello" -> Framed(<<0, HELLO, q.args[1]>>)
    [] OTHER -> Framed(<<1>> \o SEED \o
                  Encrypt(k, Padded(CHECKSUM \o <<Form(q.op).type>> \o RequestData(q))))

(* ... and reads a reply, of whose objects it knows the class. Of a file's  *)
(* description it takes the name and the size, of contents everything; of  *)
(* other objects only their number matters here.                           *)

Garbage == [error |-> -1, count |-> 0, infos |-> <<>>, data |-> <<>>]
Plain(count) == [error |-> NO_ERROR, count |-> count, infos |-> <<>>, data |-> <<>>]
Failure(error) == [error |-> error, count |-> 0, infos |-> <<>>, data |-> <<>>]
Seen(class, objects) ==
  [ error |-> NO_ERROR, count |-> Len(objects),
    infos |-> IF class = bdFileInfo
                THEN [i \in DOMAIN objects |-> [name |-> objects[i][7], size |-> Number(objects[i][1])]]
                ELSE <<>>,
    data  |-> IF class = bdFileData THEN [i \in DOMAIN objects |-> objects[i][1]] ELSE <<>> ]

\* n objects from b on, and what is left.
Found(objects, o) == [objects |-> Append(objects, o.object), buffer |-> o.buffer]
Objects(class, n, b) ==
  LET reader[i \in 0..n] ==
        IF i = 0 THEN [objects |-> <<>>, buffer |-> b]
        ELSE Found(reader[i - 1].objects, Deserialize(class, reader[i - 1].buffer))
  IN  reader[n]

OnlyPadding(b) ==
  /\ b.at <= Len(b.data) /\ Len(Remaining(b)) < BLOCK
  /\ \A i \in DOMAIN Remaining(b) : Remaining(b)[i] = 0

SeenIn(class, all) == IF OnlyPadding(all.buffer) THEN Seen(class, all.objects) ELSE Garbage
AnswerOf(class, count) ==
  LET n == Number(count.value)
      again == IF n = 0 THEN count ELSE ReadScalar(count.buffer, "uint32")
  IN  IF again.value = count.value THEN SeenIn(class, Objects(class, n, again.buffer)) ELSE Garbage
AnswerBehind(class, head) ==
  LET error == Number(head.object[2])
  IN  IF error = NO_ERROR THEN AnswerOf(class, ReadScalar(head.buffer, "uint32"))
      ELSE IF ReadScalar(head.buffer, "uint64").value = head.object[1] THEN Failure(error)
      ELSE Garbage
ServiceAnswer(bytes, k, q) ==
  LET plain == Read(Untyped(Fresh(Decrypt(k, bytes))), 4)
      type == ReadScalar(plain.buffer, "byte")
  IN  IF plain.value = CHECKSUM /\ type.value = <<1>>
        THEN AnswerBehind(Form(q.op).class, Deserialize(ReplyHead, Typed(type.buffer)))
        ELSE Garbage

\* The answer to q in the bytes of one reply.
AnswerIn(bytes, k, q) ==
  CASE Len(bytes) < 4 \/ Number(bytes) # Len(bytes) - 4 -> Garbage
    [] q.op = "keep_alive" -> IF Len(bytes) = 4 THEN Plain(0) ELSE Garbage
    [] q.op = "connect" ->
         IF bytes[5] = 0 /\ ReadScalar(Fresh(SubSeq(bytes, 7, Len(bytes))), "uint64").value = CONNECTION_ID
           THEN Plain(0) ELSE Garbage
    [] OTHER -> ServiceAnswer(SubSeq(bytes, 10, Len(bytes)), k, q)

-----------------------------------------------------------------------------
VARIABLES
  files,        \* the user's files that exist
  key,          \* encryption_key_ and decryption_key_, always set together
  ticket,       \* the key of the game, 0 before its hello
  packet,       \* the rest of the packet being parsed, as its byte buffer
  ids,          \* how many transaction ids the server has used
  awaited,      \* the requests of the packet that the game waits for
  answers,      \* what the game has read out of the replies
  sound,        \* whether the file system does all that it is asked
  asked,        \* history: requests in this life of the program
  lives         \* history: lives of the program so far

lobbyVars == <<files, key, ticket, packet, ids, awaited, answers, sound, asked, lives>>

-----------------------------------------------------------------------------
(* The handlers: the file they write, the error, and the objects they reply *)
(* with, for what they have read from the request and see of the files.    *)

NoFile == <<>>
Reply(error, objects) == [writes |-> NoFile, error |-> error, objects |-> objects]
Wrote(name, data, objects) ==
  [writes |-> <<name, data>>, error |-> NO_ERROR, objects |-> objects]

FileId(name) == SubSeq(name \o Zeros(8), 1, 8)
FileInfo(name, data, time, priv, owner) ==
  <<Little(Len(data)), FileId(name), time, time, priv, owner, name>>
NOBODY == Zeros(8)
NO_TIME == Zeros(4)

Listing(name, from) ==
  Reply(NO_ERROR, IF name \in DOMAIN from
                    THEN <<FileInfo(name, from[name], NO_TIME, <<0>>, NOBODY)>> ELSE <<>>)
Loading(name, from) ==
  IF name \in DOMAIN from THEN Reply(NO_ERROR, <<<<from[name]>>>>) ELSE Reply(BD_NO_FILE, <<>>)

\* Mutant of SetUserFile: the file is named after the game.
SetUserFileOfGame(a) == Wrote(a[1], a[4], <<FileInfo(a[2], a[4], Now, a[3], a[5])>>)

SetLegacyUserFile(a) == Wrote(a[1], a[3], <<FileInfo(a[1], a[3], Now, a[2], NOBODY)>>)
GetLegacyUserFile(a, seen) == Loading(a[1], seen)
ListLegacyUserFiles(a, seen) == Listing(a[5], seen)
ListPublisherFiles(a) == Listing(a[4], Publisher)
GetPublisherFile(a) == Loading(a[1], Publisher)
SetUserFile(a) == Wrote(a[2], a[4], <<FileInfo(a[2], a[4], Now, a[3], a[5])>>)
\* The file stays.
DeleteUserFile(a) == Reply(NO_ERROR, <<>>)
GetUserFile(a, seen) == Loading(a[2], seen)
GetServerTime(a) == Reply(NO_ERROR, <<<<Now>>>>)
\* Texts are one byte for each: two for the country code, none for the country.
GetUserRawData(a) ==
  Reply(NO_ERROR,
        <<<<<<77, 77>>, <<>>, <<78>>, <<78>>, Zeros(4), Zeros(4), <<25, 33, 0, 0>>, <<43>>>>>>)

Handled(op, a, seen) ==
  CASE op = "set_legacy_user_file" -> SetLegacyUserFile(a)
    [] op = "get_legacy_user_file" -> GetLegacyUserFile(a, seen)
    [] op = "list_legacy_user_files" -> ListLegacyUserFiles(a, seen)
    [] op = "list_publisher_files" -> ListPublisherFiles(a)
    [] op = "get_publisher_file" -> GetPublisherFile(a)
    [] op = "set_user_file" -> SetUserFile(a)
    [] op = "delete_user_file" -> DeleteUserFile(a)
    [] op = "get_user_file" -> GetUserFile(a, seen)
    [] op = "get_server_time" -> GetServerTime(a)
    [] op = "get_user_raw_data" -> GetUserRawData(a)

-----------------------------------------------------------------------------
(* parse_packet.                                                           *)

\* The next size field, the message of that size, its type and what follows.
SizeField == Read(packet, 4)
Size == Number(SizeField.value)
Message == Read(SizeField.buffer, Size)
Type == Opened(key, Message.value).value
Data == Remaining(Opened(key, Message.value).buffer)

\* The game reads the reply to the request it waits for.
Sends(bytes) == answers' = Append(answers, AnswerIn(bytes, ticket, Head(awaited)))
SendsReply(sub, error, class, objects) ==
  /\ Sends(ServiceReply(ids + 1, key, sub, error, class, objects))
  /\ ids' = ids + 1

\* Either of these ends the packet.
ParseEmpty ==
  /\ HasMoreData(packet) /\ Size = 0
  /\ Sends(Zeros(4))
  /\ packet' = Fresh(<<>>) /\ awaited' = Tail(awaited)
  /\ UNCHANGED <<files, key, ticket, ids, asked, lives>>

ParseConnection ==
  /\ HasMoreData(packet) /\ Size = CONNECTION
  /\ Sends(ConnectionReply)
  /\ packet' = Fresh(<<>>) /\ awaited' = Tail(awaited)
  /\ UNCHANGED <<files, key, ticket, ids, asked, lives>>

Parsing == HasMoreData(packet) /\ Size \notin {0, CONNECTION} /\ Size <= Len(packet.data)
Parsed == packet' = Message.buffer /\ awaited' = Tail(awaited)

\* bdLSGHello reads the ticket, from a bit buffer, and sets both keys.
ParseHello ==
  /\ Parsing /\ Type = <<HELLO>>
  /\ key' = Data[1]
  /\ Parsed
  /\ UNCHANGED <<files, ticket, ids, answers, asked, lives>>

\* utils::io::write_file, stopped anywhere: the file is not opened, or has some of
\* the data. If the file system fails, no handler looks.
Kept(name, data) == [f \in DOMAIN files \cup {name} |-> IF f = name THEN data ELSE files[f]]
Begun(file) ==
  {files} \cup IF file = NoFile THEN {}
              ELSE {Kept(file[1], SubSeq(file[2], 1, n)) : n \in 0..Len(file[2])}
Written(file) ==
  IF sound /\ file # NoFile THEN {Kept(file[1], file[2])}
  ELSE IF sound THEN {files}
  ELSE Begun(file)

\* utils::io::read_file: a file that exists may fail to open, and what cannot be
\* read of it stays as resize left it.
Cut(data, n) == [i \in DOMAIN data |-> IF i <= n THEN data[i] ELSE 0]
Views ==
  {files} \cup IF sound THEN {}
              ELSE {<<>>} \cup {[f \in DOMAIN files |-> Cut(files[f], n)] :
                                 n \in UNION {0..Len(files[f]) : f \in DOMAIN files}}

\* A callback reads its arguments, does its work and replies.
Call(op, a, seen) ==
  /\ files' \in Written(Handled(op, a, seen).writes)
  /\ SendsReply(Form(op).sub, Handled(op, a, seen).error, Form(op).class, Handled(op, a, seen).objects)
Arguments(op) == Deserialize(Form(op).args, Sub(Data).buffer).object
ParseRequest ==
  /\ Parsing /\ Type # <<HELLO>>
  /\ \E op \in Selected(Type[1], Data) :
       \E a \in {Arguments(op)}, seen \in Views : Call(op, a, seen)
  /\ Parsed
  /\ UNCHANGED <<key, ticket, asked, lives>>

\* create_directories throws before the file is opened: nobody replies, and the
\* rest of the packet is lost.
ParseFailing ==
  /\ Parsing /\ Type # <<HELLO>> /\ ~sound
  /\ \E op \in Selected(Type[1], Data) : Handled(op, Arguments(op), files).writes # NoFile
  /\ packet' = Fresh(<<>>) /\ awaited' = <<>>
  /\ UNCHANGED <<files, key, ticket, ids, answers, asked, lives>>

\* Nobody replied: parse_packet does, with the type of the service.
ParseUnknown ==
  /\ Parsing /\ Type # <<HELLO>>
  /\ Selected(Type[1], Data) = {}
  /\ SendsReply(Type[1], NO_ERROR, <<>>, <<>>)
  /\ Parsed
  /\ UNCHANGED <<files, key, ticket, asked, lives>>

-----------------------------------------------------------------------------
(* The game asks, saying hello before anything that is encrypted.          *)

Ask(p) ==
  /\ ~HasMoreData(packet) /\ asked + Len(p) <= MaxInLife
  /\ ticket = 0 => p[1].op \in {"keep_alive", "connect", "hello"}
  /\ packet' = Fresh(FlattenSeq([i \in DOMAIN p |-> Encoded(ticket, p[i])]))
  /\ ticket' = IF p[1].op = "hello" THEN p[1].args[1] ELSE ticket
  /\ awaited' = p
  /\ asked' = asked + Len(p)
  /\ UNCHANGED <<files, key, ids, answers, lives>>

\* The program dies, perhaps while it writes a file, and starts again.
IsWrite(q) == q.op \in {"set_legacy_user_file", "set_user_file"}
Die ==
  /\ lives < MaxLives
  /\ files' \in {files} \cup
       IF awaited # <<>> /\ IsWrite(Head(awaited))
         THEN Begun(Handled(Head(awaited).op, Head(awaited).args, files).writes) ELSE {}
  /\ key' = 0 /\ ticket' = 0 /\ packet' = Fresh(<<>>) /\ ids' = 0
  /\ awaited' = <<>> /\ answers' = <<>> /\ asked' = 0
  /\ lives' = lives + 1

LobbyInit ==
  /\ files = <<>>
  /\ key = 0 /\ ticket = 0 /\ packet = Fresh(<<>>) /\ ids = 0
  /\ awaited = <<>> /\ answers = <<>> /\ asked = 0
  /\ lives = 1
  /\ sound \in BOOLEAN

LobbyNext ==
  /\ \/ \E p \in Packets : Ask(p)
     \/ ParseEmpty \/ ParseConnection \/ ParseHello \/ ParseRequest \/ ParseFailing \/ ParseUnknown
     \/ Die
  /\ sound' = sound

LobbySpec == LobbyInit /\ [][LobbyNext]_lobbyVars

-----------------------------------------------------------------------------
(* What the game may expect.                                               *)

\* Which argument is the name of the file, or of the publisher's file.
NameAt == [ set_legacy_user_file |-> 1, get_legacy_user_file |-> 1, list_legacy_user_files |-> 5,
            list_publisher_files |-> 4, get_publisher_file |-> 1, set_user_file |-> 2,
            get_user_file |-> 2 ]
FileOf(q) == q.args[NameAt[q.op]]
ContentsOf(q) == q.args[IF q.op = "set_user_file" THEN 4 ELSE 3]

Described(name, data) ==
  [error |-> NO_ERROR, count |-> 1, infos |-> <<[name |-> name, size |-> Len(data)]>>, data |-> <<>>]
Loaded(data) == [error |-> NO_ERROR, count |-> 1, infos |-> <<>>, data |-> <<data>>]

Answer(q, store) ==
  LET from == IF q.op \in {"list_publisher_files", "get_publisher_file"} THEN Publisher ELSE store
  IN  CASE q.op = "hello" -> <<>>
        [] IsWrite(q) -> <<Described(FileOf(q), ContentsOf(q))>>
        [] q.op \in {"get_user_file", "get_legacy_user_file", "get_publisher_file"} ->
             <<IF FileOf(q) \in DOMAIN from THEN Loaded(from[FileOf(q)]) ELSE Failure(BD_NO_FILE)>>
        [] q.op \in {"list_legacy_user_files", "list_publisher_files"} ->
             <<IF FileOf(q) \in DOMAIN from THEN Described(FileOf(q), from[FileOf(q)]) ELSE Plain(0)>>
        [] q.op \in {"get_server_time", "get_user_raw_data"} -> <<Plain(1)>>
        [] OTHER -> <<Plain(0)>>

Store == INSTANCE FileStore WITH Files <- Names, pending <- awaited

\* The game, reading the bytes of the replies, gets the answers of a store of
\* files, in order, whatever it asks and whenever the program dies; where the file
\* system fails, files may be cut short or not be seen, and the rest of a packet may
\* be lost with a write, but nothing else goes wrong.
ImplementsFileStore == Store!Spec
=============================================================================
