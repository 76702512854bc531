------------------------------ MODULE Buffers -------------------------------
(***************************************************************************)
(* A writer and a reader at the two ends of a buffer, which is a bit       *)
(* buffer, with the values of BitBuffer, or a byte buffer, with the        *)
(* objects of ByteBuffer and array headers behind each other.               *)
(***************************************************************************)
EXTENDS BitBuffer, ByteBuffer

CONSTANTS
  Sample,      \* two values of each kind of member
  Headers,     \* what array headers say: the number of elements, and their size
  MaxObjects   \* bound: objects and headers written into a byte buffer

VARIABLES
  bits,      \* whether this is a bit buffer
  stream,    \* the byte buffer, of the writer and then of the reader
  sent,      \* history: what was written
  reading,   \* it has been handed over
  got,       \* history: what was read
  ended      \* the reader has divided by zero, which ended its program
bytes == <<stream, sent, reading, got, ended>>

\* Both ends use the layout of one class. Unless it is symmetric, the lobby reads
\* only a half of matchmaking information, which is then what the game writes.
Classes ==
  { bdFileData, bdFileInfo, bdGroupCount, bdTimeStamp, bdDMLInfo, bdDMLRawData,
    bdSessionID, bdMatchmakingInfo, bdMatchmakingInfoRead, MatchMakingInfo,
    MatchMakingInfoRead, bdPerformanceValue, bdAddr, bdCommonAddr }

ASSUME SampleAssumption ==
  \A layout \in Classes : \A i \in DOMAIN layout :
    Sample[layout[i]] \in [1..2 -> ValuesOf(layout[i])]

\* The writer multiplies what the reader divides.
ASSUME HeadersAssumption ==
  \A h \in Headers :
    h.count \in Int31 /\ h.size \in Int31 /\ h.count * h.size \in Int31

\* Two objects of a class.
Object(layout, n) == [i \in DOMAIN layout |-> Sample[layout[i]][((n + i) % 2) + 1]]

\* An array header means what it says only when both ends use types: without
\* them the writer still writes the type, and the reader does not skip it.
Items ==
  [what : {"object"}, layout : Classes, nth : {1, 2}, typed : BOOLEAN]
    \cup [what : {"array"}, header : Headers, typed : {TRUE}]
Contents(item) ==
  IF item.what = "object" THEN Object(item.layout, item.nth)
  ELSE <<item.header.count, item.header.size>>

SaysNone(item) == item.what = "array" /\ item.header.count = 0

Uses(item) == [stream EXCEPT !.typed = item.typed]

\* A byte buffer.
OnBytes == ~bits /\ UNCHANGED <<vars, bits>>

WriteItem(item) ==
  /\ OnBytes
  /\ ~reading /\ Len(sent) < MaxObjects
  /\ stream' = IF item.what = "object"
                 THEN Serialize(item.layout, Contents(item), Uses(item))
                 ELSE WriteArrayHeader(Uses(item), Tag.uint32, item.header.count, item.header.size)
  /\ sent' = Append(sent, item)
  /\ UNCHANGED <<reading, got, ended>>

HandOverBytes ==
  /\ OnBytes
  /\ ~reading
  /\ reading' = TRUE /\ stream' = Fresh(stream.data)
  /\ UNCHANGED <<sent, got, ended>>

\* The reader asks for what was written.
ReadItem ==
  /\ OnBytes
  /\ reading /\ Len(got) < Len(sent) /\ ~ended
  /\ LET item == sent[Len(got) + 1]
         header == ReadArrayHeader(Uses(item), Tag.uint32)
         object == Deserialize(item.layout, Uses(item))
     IN  \/ /\ item.what = "object"
            /\ got' = Append(got, object.object) /\ stream' = object.buffer
            /\ UNCHANGED ended
         \/ /\ item.what = "array" /\ ~DividesByZero(header)
            /\ got' = Append(got, header.value) /\ stream' = header.buffer
            /\ UNCHANGED ended
         \/ /\ item.what = "array" /\ DividesByZero(header)
            /\ ended' = TRUE
            /\ UNCHANGED <<got, stream>>
  /\ UNCHANGED <<sent, reading>>

BuffersInit ==
  /\ Init
  /\ bits \in BOOLEAN
  /\ stream = Fresh(<<>>) /\ sent = <<>> /\ reading = FALSE /\ got = <<>>
  /\ ended = FALSE

\* A step of a bit buffer.
OnBits(step) == bits /\ step /\ UNCHANGED <<bits, bytes>>

BuffersNext ==
  \/ \E v \in Values : OnBits(WriteValue(v))
  \/ OnBits(HandOver) \/ OnBits(ReadBool) \/ OnBits(ReadUint32) \/ OnBits(ReadBytes)
  \/ \E item \in Items : WriteItem(item)
  \/ HandOverBytes \/ ReadItem

BuffersSpec == BuffersInit /\ [][BuffersNext]_<<vars, bits, bytes>>

-----------------------------------------------------------------------------
\* Whatever objects and array headers follow each other in a byte buffer, and
\* wherever types are switched on and off between them, a reader that asks for
\* the same gets the same, and afterwards nothing is left. Only the header of an
\* array of no elements ends it, and always does.
ObjectsArrive ==
  /\ \A n \in DOMAIN got : got[n] = Contents(sent[n]) /\ ~SaysNone(sent[n])
  /\ ended => Len(got) < Len(sent) /\ SaysNone(sent[Len(got) + 1])
  /\ reading /\ Len(got) = Len(sent) => ~HasMoreData(stream)
=============================================================================
