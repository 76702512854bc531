----------------------------- MODULE ByteBuffer -----------------------------
(***************************************************************************)
(* The byte buffer of the lobby's messages, byte_buffer.cpp and            *)
(* data_types.hpp of game/demonware: values follow each other as bytes,    *)
(* each behind a byte that says its type when types are used. A buffer has *)
(* its bytes, one position for reading and writing, and says whether it    *)
(* uses types. A number is its bytes, lowest first; a string is the bytes  *)
(* before its terminating zero.                                            *)
(*                                                                         *)
(* A read past the end leaves its output as it was. Reading a string, a    *)
(* blob or the number of an array's elements that is not there is          *)
(* undefined in the code and outside the domain of ReadString, ReadBlob    *)
(* and ReadArrayHeader.                                                    *)
(***************************************************************************)
EXTENDS Integers, Sequences, SequencesExt

Byte == 0..255

\* The bytes of an integer below 2^31, and back.
Int31 == {n \in Nat : n <= 2147483647}
Little(n) == <<n % 256, (n \div 256) % 256, (n \div 65536) % 256, n \div 16777216>>
Number(bytes) == bytes[1] + 256 * bytes[2] + 65536 * bytes[3] + 16777216 * bytes[4]

\* The type and the length of the values of a fixed length.
Tag == [ bool |-> 1, byte |-> 3, int16 |-> 5, uint16 |-> 6, int32 |-> 7, uint32 |-> 8,
         int64 |-> 9, uint64 |-> 10, float |-> 13 ]
Width == [ bool |-> 1, byte |-> 1, int16 |-> 2, uint16 |-> 2, int32 |-> 4, uint32 |-> 4,
           int64 |-> 8, uint64 |-> 8, float |-> 4 ]
STRING_TAG == 16
BLOB_TAG == 19
ARRAY_TAG == 100

Fresh(bytes) == [data |-> bytes, at |-> 0, typed |-> TRUE]
Untyped(b) == [b EXCEPT !.typed = FALSE]
Typed(b) == [b EXCEPT !.typed = TRUE]

HasMoreData(b) == Len(b.data) > b.at
Remaining(b) == SubSeq(b.data, b.at + 1, Len(b.data))

-----------------------------------------------------------------------------
(* Writing.                                                                *)

Write(b, bytes) ==
  [data |-> b.data \o bytes, at |-> b.at + Len(bytes), typed |-> b.typed]
WriteDataType(b, tag) == IF b.typed THEN Write(b, <<tag>>) ELSE b
WriteScalar(b, kind, value) == Write(WriteDataType(b, Tag[kind]), value)
WriteString(b, text) == Write(WriteDataType(b, STRING_TAG), Append(text, 0))

WriteBlob(b, bytes) ==
  Write(WriteScalar(WriteDataType(b, BLOB_TAG), "uint32", Little(Len(bytes))), bytes)

\* The type is written plainly, the size of the array with a type, the number
\* of its elements plainly again.
WriteArrayHeader(b, tag, count, size) ==
  LET head == Write(b, <<tag + ARRAY_TAG>>)
      sized == WriteScalar(Typed(head), "uint32", Little(count * size))
  IN  [WriteScalar(Untyped(sized), "uint32", Little(count)) EXCEPT !.typed = b.typed]

-----------------------------------------------------------------------------
(* Reading. A result says whether the read succeeded, what it put into its *)
(* output, and how it leaves the buffer.                                   *)

Fails(b) == [ok |-> FALSE, value |-> <<>>, buffer |-> b]
Advance(b, n, value) == [ok |-> TRUE, value |-> value, buffer |-> [b EXCEPT !.at = @ + n]]

Read(b, n) ==
  IF n + b.at > Len(b.data) THEN Fails(b)
  ELSE Advance(b, n, SubSeq(b.data, b.at + 1, b.at + n))

\* What follows a read that may fail.
Then(r, Next(_)) == IF r.ok THEN Next(r.buffer) ELSE r

\* Mutant of ReadDataType: the type is not consumed.
ReadDataTypePeek(b, tag) ==
  IF ~b.typed \/ (HasMoreData(b) /\ b.data[b.at + 1] = tag) THEN Advance(b, 0, <<>>) ELSE Fails(b)

\* A type that differs is consumed. At the end of the data the code compares
\* an uninitialised byte; what is to be read is not there in either case.
Expected(r, tag) == IF r.ok /\ r.value = <<tag>> THEN r ELSE Fails(r.buffer)
ReadDataType(b, tag) == IF b.typed THEN Expected(Read(b, 1), tag) ELSE Advance(b, 0, <<>>)

ReadScalar(b, kind) == Then(ReadDataType(b, Tag[kind]), LAMBDA c : Read(c, Width[kind]))

\* Up to the next zero, or the one that ends the bytes of a std::string.
Terminator(b) ==
  CHOOSE i \in (b.at + 1)..(Len(b.data) + 1) :
    /\ i <= Len(b.data) => b.data[i] = 0
    /\ \A k \in (b.at + 1)..(i - 1) : b.data[k] # 0

TextAt(b) == Advance(b, Terminator(b) - b.at, SubSeq(b.data, b.at + 1, Terminator(b) - 1))
ReadString(b) == Then(ReadDataType(b, STRING_TAG), TextAt)

\* The position moves on by the length that is there to read, even past the end.
BlobAt(b, n) == Advance(b, n, SubSeq(b.data, b.at + 1, b.at + n))
Sized(size) == BlobAt(size.buffer, Number(size.value))
ReadBlob(b) == Then(ReadDataType(b, BLOB_TAG), LAMBDA c : Sized(ReadScalar(c, "uint32")))

\* Afterwards the buffer uses types, whether it did before or not. The value is
\* the number of the elements and their size. Of no elements there is no size: the
\* division by zero ends the reader's program, and the value is the number alone.
Elements(size, count) ==
  LET number == Number(count.value)
  IN  Advance(Typed(count.buffer), 0,
              IF number = 0 THEN <<0>> ELSE <<number, size \div number>>)
DividesByZero(header) == header.value = <<0>>
Counted(size) == Then(size, LAMBDA c : Elements(Number(size.value), Read(c, 4)))
ReadArrayHeader(b, tag) ==
  Then(ReadDataType(b, tag + ARRAY_TAG), LAMBDA c : Counted(ReadScalar(c, "uint32")))

-----------------------------------------------------------------------------
(* The objects in the lobby's messages, game/demonware/data_types.hpp. A   *)
(* class is the sequence of the kinds of its members, in the order in      *)
(* which serialize writes them; an object is the sequence of their values. *)
(* Where deserialize reads something else the class has a layout for that. *)

\* A session id is a blob of eight bytes, of which the reader takes eight.
SESSION_LENGTH == 8
\* Members that are written without types, whatever the buffer uses otherwise:
\* an address, that is the four bytes of bdInetAddr and a port, and a NAT type.
PlainLength == [address |-> 6, nat_type |-> 1]

\* A text has no zero byte, a session has its length, and lengths are below 2^31.
ValuesOf(kind) ==
  CASE kind = "string" -> Seq(Byte \ {0})
    [] kind = "blob" -> {v \in Seq(Byte) : Len(v) \in Int31}
    [] kind = "session" -> [1..SESSION_LENGTH -> Byte]
    [] kind \in DOMAIN PlainLength -> [1..PlainLength[kind] -> Byte]
    [] OTHER -> [1..Width[kind] -> Byte]
Kinds == DOMAIN Width \cup DOMAIN PlainLength \cup {"string", "blob", "session"}

WriteMember(b, kind, value) ==
  CASE kind = "string" -> WriteString(b, value)
    [] kind \in {"blob", "session"} -> WriteBlob(b, value)
    [] kind \in DOMAIN PlainLength -> Write(b, value)
    [] OTHER -> WriteScalar(b, kind, value)

SessionIn(blob) ==
  IF blob.ok /\ Len(blob.value) >= SESSION_LENGTH
    THEN [ok |-> TRUE, value |-> SubSeq(blob.value, 1, SESSION_LENGTH), buffer |-> blob.buffer]
    ELSE Fails(blob.buffer)
ReadSession(b) == SessionIn(ReadBlob(b))

ReadMember(b, kind) ==
  CASE kind = "string" -> ReadString(b)
    [] kind = "blob" -> ReadBlob(b)
    [] kind = "session" -> ReadSession(b)
    [] kind \in DOMAIN PlainLength -> Read(b, PlainLength[kind])
    [] OTHER -> ReadScalar(b, kind)

\* No reader looks at whether its reads succeed.
Serialize(layout, object, b) ==
  LET writer[n \in 0..Len(layout)] ==
        IF n = 0 THEN b ELSE WriteMember(writer[n - 1], layout[n], object[n])
  IN  writer[Len(layout)]

With(object, member) == [object |-> Append(object, member.value), buffer |-> member.buffer]
Further(r, kind) == With(r.object, ReadMember(r.buffer, kind))
Deserialize(layout, b) ==
  LET reader[n \in 0..Len(layout)] ==
        IF n = 0 THEN [object |-> <<>>, buffer |-> b] ELSE Further(reader[n - 1], layout[n])
  IN  reader[Len(layout)]

-----------------------------------------------------------------------------
(* The classes.                                                            *)

bdFileData == <<"blob">>

\* file_size, file_id, create_time, modified_time, priv, owner_id, filename
bdFileInfo == <<"uint32", "uint64", "uint32", "uint32", "bool", "uint64", "string">>
\* group_id, group_count
bdGroupCount == <<"uint32", "uint32">>
\* unix_time
bdTimeStamp == <<"uint32">>
\* country_code, country, region, city, latitude, longitude
bdDMLInfo == <<"string", "string", "string", "string", "float", "float">>
\* and asn, timezone
bdDMLRawData == bdDMLInfo \o <<"uint32", "string">>
bdSessionID == <<"session">>
\* host_addr, session_id, game_type, max_players, num_players
bdMatchmakingInfo == <<"blob", "session", "uint32", "uint32", "uint32">>
\* What it reads back when it is not symmetric: the client's half of it.
bdMatchmakingInfoRead == <<"blob", "uint32", "uint32">>
\* playlist_number to skill, country_code, asn, latitude, longitude,
\* max_reserved_slots, used_reserved_slots, game_security_key,
\* platform_session_id, data_centres, coop_state
MatchMakingRest ==
  [i \in 1..6 |-> "int32"] \o <<"uint32", "uint32", "float", "float", "int32", "int32",
                               "blob", "blob", "uint32", "uint32">>
MatchMakingInfo == bdMatchmakingInfo \o MatchMakingRest
MatchMakingInfoRead == bdMatchmakingInfoRead \o MatchMakingRest
\* user_id, performance
bdPerformanceValue == <<"uint64", "int64">>
\* bdInetAddr has the family AF_INET from its construction on, so every address
\* counts as valid.
bdAddr == <<"address">>
\* m_local_addrs, m_public_addr, m_nat_type
bdCommonAddr == [i \in 1..6 |-> "address"] \o <<"nat_type">>
=============================================================================
