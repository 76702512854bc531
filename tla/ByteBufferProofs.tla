-------------------------- MODULE ByteBufferProofs ---------------------------
(***************************************************************************)
(* What is written into a byte buffer is read from it: scalars, texts,     *)
(* blobs, the members of an object of any class one after the other, and   *)
(* array headers. An image is the bytes that a write appends; a buffer     *)
(* that has an image ahead of it is read to behind it.                     *)
(***************************************************************************)
EXTENDS ByteBuffer, SequenceTheorems, WellFoundedInduction, TLAPS

-----------------------------------------------------------------------------
(* What one member of an object writes, and what reading it takes.         *)

ByteString == Seq(Byte)
Buffer == [data : ByteString, at : Nat, typed : BOOLEAN]

\* The bytes c are what comes next in a buffer.
Ahead(b, c) ==
  /\ b.at + Len(c) <= Len(b.data)
  /\ \A i \in 1..Len(c) : b.data[b.at + i] = c[i]
Past(b, n) == [b EXCEPT !.at = @ + n]

LEMMA AheadParts ==
  ASSUME NEW b \in Buffer, NEW c \in ByteString, NEW d \in ByteString, Ahead(b, c \o d)
  PROVE  Ahead(b, c) /\ Past(b, Len(c)) \in Buffer /\ Ahead(Past(b, Len(c)), d)
<1>1. /\ Len(c) \in Nat /\ Len(d) \in Nat /\ Len(c \o d) = Len(c) + Len(d)
      /\ \A i \in 1..Len(c) : (c \o d)[i] = c[i]
      /\ \A i \in 1..Len(d) : (c \o d)[Len(c) + i] = d[i]
  <2>1. /\ Len(c \o d) = Len(c) + Len(d)
        /\ \A i \in 1..(Len(c) + Len(d)) :
             (c \o d)[i] = IF i <= Len(c) THEN c[i] ELSE d[i - Len(c)]
    BY ConcatProperties DEF ByteString
  <2>2. Len(c) \in Nat /\ Len(d) \in Nat
    BY LenProperties DEF ByteString
  <2>3. ASSUME NEW i \in 1..Len(d) PROVE (c \o d)[Len(c) + i] = d[i]
    <3>1. Len(c) + i \in 1..(Len(c) + Len(d)) /\ ~(Len(c) + i <= Len(c)) /\ Len(c) + i - Len(c) = i
      BY <2>2
    <3> QED
      BY <2>1, <3>1
  <2> QED
    BY <2>1, <2>2, <2>3
<1>2. Past(b, Len(c)).at = b.at + Len(c) /\ Past(b, Len(c)).data = b.data /\ Past(b, Len(c)) \in Buffer
  BY <1>1 DEF Past, Buffer
<1>3. b.at \in Nat /\ Len(b.data) \in Nat
  BY LenProperties DEF Buffer, ByteString
<1>4. Ahead(b, c)
  BY <1>1, <1>3 DEF Ahead
<1>5. Ahead(Past(b, Len(c)), d)
  <2>1. ASSUME NEW i \in 1..Len(d) PROVE b.data[b.at + Len(c) + i] = d[i]
    <3>1. Len(c) + i \in 1..Len(c \o d) /\ b.at + (Len(c) + i) = b.at + Len(c) + i
      BY <1>1, <1>3
    <3>2. b.data[b.at + (Len(c) + i)] = (c \o d)[Len(c) + i]
      BY <3>1 DEF Ahead
    <3> QED
      BY <1>1, <3>1, <3>2
  <2> QED
    BY <1>1, <1>2, <1>3, <2>1 DEF Ahead
<1> QED
  BY <1>2, <1>4, <1>5

LEMMA SubSeqIs ==
  ASSUME NEW S, NEW data \in Seq(S), NEW m \in Nat, NEW c \in Seq(S), m + Len(c) <= Len(data),
         \A i \in 1..Len(c) : data[m + i] = c[i]
  PROVE  SubSeq(data, m + 1, m + Len(c)) = c
<1> DEFINE low == m + 1
           high == m + Len(c)
           s == SubSeq(data, low, high)
<1>1. Len(c) \in Nat /\ Len(data) \in Nat
  BY LenProperties
<1>2. \A i \in low..high : data[i] \in S
  <2>1. \A i \in low..high : i \in 1..Len(data)
    BY <1>1
  <2> QED
    BY <2>1, ElementOfSeq
<1>3. low \in Int /\ high \in Int
  BY <1>1
<1> HIDE DEF low, high
<1>4. /\ s \in Seq(S)
      /\ Len(s) = IF low <= high THEN high - low + 1 ELSE 0
      /\ \A i \in 1..(high - low + 1) : s[i] = data[low + i - 1]
  BY <1>2, <1>3, SubSeqProperties
<1> HIDE DEF s
<1>5. Len(s) = Len(c)
  BY <1>1, <1>4 DEF low, high
<1>6. ASSUME NEW i \in 1..Len(s) PROVE s[i] = c[i]
  <2>1. i \in 1..(high - low + 1) /\ low + i - 1 = m + i /\ i \in 1..Len(c)
    BY <1>1, <1>5 DEF low, high
  <2> QED
    BY <1>4, <2>1
<1>7. s = c
  BY <1>4, <1>5, <1>6, SeqEqual
<1> QED
  BY <1>7 DEF s, low, high

LEMMA ReadAhead ==
  ASSUME NEW b \in Buffer, NEW c \in ByteString, Ahead(b, c)
  PROVE  Read(b, Len(c)) = Advance(b, Len(c), c)
<1>1. Len(c) \in Nat /\ b.at \in Nat /\ Len(b.data) \in Nat /\ b.data \in Seq(Byte) /\ c \in Seq(Byte)
  BY LenProperties DEF Buffer, ByteString
<1>2. ~(Len(c) + b.at > Len(b.data))
  BY <1>1 DEF Ahead
<1>3. SubSeq(b.data, b.at + 1, b.at + Len(c)) = c
  BY <1>1, SubSeqIs DEF Ahead
<1> QED
  BY <1>2, <1>3 DEF Read

LEMMA AdvanceIs ==
  ASSUME NEW b, NEW n, NEW v
  PROVE  /\ Advance(b, n, v).ok /\ Advance(b, n, v).value = v
         /\ Advance(b, n, v).buffer = Past(b, n)
  BY DEF Advance, Past

Buf(data, at_, typed) == [data |-> data, at |-> at_, typed |-> typed]

LEMMA BufferIs ==
  ASSUME NEW b \in Buffer
  PROVE  /\ b = Buf(b.data, b.at, b.typed)
         /\ \A n : Past(b, n) = Buf(b.data, b.at + n, b.typed)
         /\ \A c : Write(b, c) = Buf(b.data \o c, b.at + Len(c), b.typed)
<1>1. b = Buf(b.data, b.at, b.typed)
  BY DEF Buffer, Buf
<1>2. \A n : Past(b, n) = Buf(b.data, b.at + n, b.typed)
  BY DEF Buffer, Past, Buf
<1>3. \A c : Write(b, c) = Buf(b.data \o c, b.at + Len(c), b.typed)
  BY DEF Write, Buf
<1> QED
  BY <1>1, <1>2, <1>3

LEMMA BufIs ==
  ASSUME NEW data \in ByteString, NEW n \in Nat, NEW typed \in BOOLEAN
  PROVE  /\ Buf(data, n, typed) \in Buffer
         /\ Buf(data, n, typed).data = data /\ Buf(data, n, typed).at = n
         /\ Buf(data, n, typed).typed = typed
  BY DEF Buf, Buffer

LEMMA PastPast ==
  ASSUME NEW b \in Buffer, NEW n \in Nat, NEW m \in Nat
  PROVE  Past(b, 0) = b /\ Past(Past(b, n), m) = Past(b, n + m) /\ Past(b, n).typed = b.typed
         /\ Past(b, n) \in Buffer
<1>1. b.data \in ByteString /\ b.at \in Nat /\ b.typed \in BOOLEAN
  BY DEF Buffer
<1>2. Past(b, n) = Buf(b.data, b.at + n, b.typed) /\ Past(b, n + m) = Buf(b.data, b.at + (n + m), b.typed)
      /\ Past(b, 0) = Buf(b.data, b.at + 0, b.typed) /\ b = Buf(b.data, b.at, b.typed)
  BY BufferIs
<1>3. Past(b, n) \in Buffer /\ Past(b, n).data = b.data /\ Past(b, n).at = b.at + n /\ Past(b, n).typed = b.typed
  BY <1>1, <1>2, BufIs
<1>4. Past(Past(b, n), m) = Buf(b.data, (b.at + n) + m, b.typed)
  BY <1>3, BufferIs
<1>5. b.at + 0 = b.at /\ (b.at + n) + m = b.at + (n + m)
  BY <1>1
<1> QED
  BY <1>2, <1>3, <1>4, <1>5

LEMMA Associative ==
  ASSUME NEW c \in ByteString, NEW d \in ByteString, NEW e \in ByteString
  PROVE  (c \o d) \o e = c \o (d \o e) /\ c \o d \in ByteString
  BY ConcatAssociative, ConcatProperties DEF ByteString

LEMMA WriteWrite ==
  ASSUME NEW b \in Buffer, NEW c \in ByteString, NEW d \in ByteString
  PROVE  /\ Write(b, c) \in Buffer /\ Write(b, c).typed = b.typed
         /\ Write(b, c).data = b.data \o c
         /\ Write(Write(b, c), d) = Write(b, c \o d)
         /\ Write(b, <<>>) = b
<1>1. Len(c) \in Nat /\ Len(d) \in Nat /\ Len(c \o d) = Len(c) + Len(d) /\ b.data \in ByteString
      /\ b.at \in Nat /\ b.typed \in BOOLEAN
  <2>1. b.data \in ByteString /\ b.at \in Nat /\ b.typed \in BOOLEAN
    BY DEF Buffer
  <2> QED
    BY <2>1, LenProperties, ConcatProperties DEF ByteString
<1> DEFINE data == b.data  at_ == b.at
<1> HIDE DEF data, at_
<1>2. (data \o c) \o d = data \o (c \o d) /\ data \o c \in ByteString
  BY <1>1, Associative DEF data
<1>3. data \o <<>> = data /\ Len(<<>>) = 0
  BY <1>1, ConcatEmptySeq, EmptySeq DEF ByteString, data
<1>4. /\ Write(b, c) = Buf(data \o c, at_ + Len(c), b.typed)
      /\ Write(b, c \o d) = Buf(data \o (c \o d), at_ + Len(c \o d), b.typed)
      /\ Write(b, <<>>) = Buf(data \o <<>>, at_ + Len(<<>>), b.typed)
      /\ b = Buf(data, at_, b.typed)
  BY BufferIs DEF data, at_
<1>5. /\ Write(b, c) \in Buffer /\ Write(b, c).typed = b.typed
      /\ Write(b, c).data = data \o c /\ Write(b, c).at = at_ + Len(c)
  <2>1. at_ + Len(c) \in Nat
    BY <1>1 DEF at_
  <2> QED
    <3> DEFINE w == data \o c
               n == at_ + Len(c)
               t == b.typed
    <3>1. w \in ByteString /\ n \in Nat /\ t \in BOOLEAN /\ Write(b, c) = Buf(w, n, t)
      BY <1>1, <1>2, <1>4, <2>1
    <3> HIDE DEF w, n, t
    <3>2. /\ Buf(w, n, t) \in Buffer /\ Buf(w, n, t).data = w /\ Buf(w, n, t).at = n
          /\ Buf(w, n, t).typed = t
      BY <3>1, BufIs
    <3> QED
      BY <3>1, <3>2 DEF w, n, t
<1>6. Write(Write(b, c), d) = Buf((data \o c) \o d, (at_ + Len(c)) + Len(d), b.typed)
  BY <1>5, BufferIs
<1>7. at_ + 0 = at_ /\ (at_ + Len(c)) + Len(d) = at_ + Len(c \o d)
  BY <1>1 DEF at_
<1> QED
  BY <1>2, <1>3, <1>4, <1>5, <1>6, <1>7 DEF data

\* A number below 2^31 is its four bytes.
LEMMA NumberOfLittle ==
  ASSUME NEW n \in Int31
  PROVE  Little(n) \in ByteString /\ Len(Little(n)) = 4 /\ Number(Little(n)) = n
<1> DEFINE q == n \div 256
           r == n \div 65536
           t == n \div 16777216
<1>0. n \in Nat /\ n <= 2147483647
  BY SMT DEF Int31
<1>1. /\ n \in Nat /\ q \in Nat /\ r \in Nat /\ t \in Nat
      /\ 256 * q <= n /\ n < 256 * q + 256
      /\ 65536 * r <= n /\ n < 65536 * r + 65536
      /\ 16777216 * t <= n /\ n < 16777216 * t + 16777216
      /\ n <= 2147483647
  <2>1. q \in Nat /\ 256 * q <= n /\ n < 256 * q + 256
    BY <1>0, SMT
  <2>2. r \in Nat /\ 65536 * r <= n /\ n < 65536 * r + 65536
    BY <1>0, SMT
  <2>3. t \in Nat /\ 16777216 * t <= n /\ n < 16777216 * t + 16777216
    BY <1>0, SMT
  <2> HIDE DEF q, r, t
  <2> QED
    BY <1>0, <2>1, <2>2, <2>3, SMT
<1>2. n % 256 = n - 256 * q
  BY <1>0, SMT
<1> HIDE DEF q, r, t
<1>4. 256 * r <= q /\ q < 256 * r + 256 /\ 256 * t <= r /\ r < 256 * t + 256
  BY <1>1, SMT
<1>5. q % 256 = q - 256 * r /\ r % 256 = r - 256 * t
  BY <1>1, <1>4, SMT
<1>6. n % 256 \in Byte /\ q % 256 \in Byte /\ r % 256 \in Byte /\ t \in Byte
  BY <1>1, <1>2, <1>4, <1>5, SMT DEF Byte
<1>7. n = (n % 256) + 256 * (q % 256) + 65536 * (r % 256) + 16777216 * t
  BY <1>1, <1>2, <1>5, SMT
<1>8. Little(n) = <<n % 256, q % 256, r % 256, t>>
  BY SMT DEF Little, q, r, t
<1>9. Little(n) \in ByteString /\ Len(Little(n)) = 4
  BY <1>6, <1>8, SMT DEF ByteString
<1> QED
  BY <1>7, <1>8, <1>9, SMT DEF Number

\* What kinds there are.
Scalars == DOMAIN Width
LEMMA KindsAre ==
  /\ Scalars = {"bool", "byte", "int16", "uint16", "int32", "uint32", "int64", "uint64", "float"}
  /\ DOMAIN PlainLength = {"address", "nat_type"}
  /\ Kinds = Scalars \cup {"address", "nat_type", "string", "blob", "session"}
  BY DEF Scalars, Kinds, Width, PlainLength

LEMMA ScalarsAre ==
  ASSUME NEW kind \in Scalars
  PROVE  Tag[kind] \in Byte /\ Width[kind] \in 1..8
  BY KindsAre DEF Tag, Width, Byte

\* The bytes of a member, of the array header behind its type.
TagOf(typed, tag) == IF typed THEN <<tag>> ELSE <<>>
ScalarImage(typed, kind, v) == TagOf(typed, Tag[kind]) \o v
StringImage(typed, v) == TagOf(typed, STRING_TAG) \o Append(v, 0)
BlobImage(typed, v) ==
  TagOf(typed, BLOB_TAG) \o (ScalarImage(typed, "uint32", Little(Len(v))) \o v)
Image(typed, kind, v) ==
  CASE kind = "string" -> StringImage(typed, v)
    [] kind \in {"blob", "session"} -> BlobImage(typed, v)
    [] kind \in DOMAIN PlainLength -> v
    [] OTHER -> ScalarImage(typed, kind, v)

LEMMA TagOfIs ==
  ASSUME NEW typed \in BOOLEAN, NEW tag \in Byte
  PROVE  TagOf(typed, tag) \in ByteString
  BY DEF TagOf, ByteString

LEMMA TagWritten ==
  ASSUME NEW b \in Buffer, NEW tag \in Byte
  PROVE  WriteDataType(b, tag) = Write(b, TagOf(b.typed, tag))
  BY WriteWrite, TagOfIs DEF WriteDataType, TagOf, Buffer

LEMMA TaggedWritten ==
  ASSUME NEW b \in Buffer, NEW tag \in Byte, NEW v \in ByteString
  PROVE  /\ TagOf(b.typed, tag) \o v \in ByteString
         /\ Write(WriteDataType(b, tag), v) = Write(b, TagOf(b.typed, tag) \o v)
<1> DEFINE t == TagOf(b.typed, tag)
<1>1. t \in ByteString
  BY TagOfIs DEF Buffer
<1>2. WriteDataType(b, tag) = Write(b, t)
  BY TagWritten
<1> HIDE DEF t
<1>3. Write(Write(b, t), v) = Write(b, t \o v) /\ t \o v \in ByteString
  BY <1>1, WriteWrite, Associative
<1> QED
  BY <1>2, <1>3 DEF t

LEMMA ScalarWritten ==
  ASSUME NEW b \in Buffer, NEW kind \in Scalars, NEW v \in ByteString
  PROVE  /\ ScalarImage(b.typed, kind, v) \in ByteString
         /\ WriteScalar(b, kind, v) = Write(b, ScalarImage(b.typed, kind, v))
  BY ScalarsAre, TaggedWritten DEF ScalarImage, WriteScalar

LEMMA StringWritten ==
  ASSUME NEW b \in Buffer, NEW v \in ByteString
  PROVE  /\ StringImage(b.typed, v) \in ByteString
         /\ WriteString(b, v) = Write(b, StringImage(b.typed, v))
<1>1. Append(v, 0) \in ByteString
  BY AppendProperties DEF ByteString, Byte
<1>2. STRING_TAG \in Byte
  BY DEF STRING_TAG, Byte
<1> QED
  BY <1>1, <1>2, TaggedWritten DEF StringImage, WriteString

LEMMA BlobWritten ==
  ASSUME NEW b \in Buffer, NEW v \in ByteString, Len(v) \in Int31
  PROVE  /\ BlobImage(b.typed, v) \in ByteString
         /\ WriteBlob(b, v) = Write(b, BlobImage(b.typed, v))
<1> DEFINE size == Little(Len(v))
           tag == TagOf(b.typed, BLOB_TAG)
           sized == ScalarImage(b.typed, "uint32", size)
           c == Write(b, tag)
           d == Write(c, sized)
<1>1. BLOB_TAG \in Byte /\ "uint32" \in Scalars
  BY KindsAre DEF BLOB_TAG, Byte
<1>2. tag \in ByteString
  BY <1>1, TagOfIs DEF Buffer
<1>3. WriteDataType(b, BLOB_TAG) = c
  BY <1>1, TagWritten
<1> HIDE DEF tag
<1>4. c \in Buffer /\ c.typed = b.typed
  BY <1>2, WriteWrite
<1>5. size \in ByteString
  BY NumberOfLittle
<1> HIDE DEF size, c
<1>6. sized \in ByteString /\ WriteScalar(c, "uint32", size) = d
  BY <1>1, <1>4, <1>5, ScalarWritten
<1> HIDE DEF sized
<1>7. Write(d, v) = Write(c, sized \o v) /\ sized \o v \in ByteString
  BY <1>4, <1>6, WriteWrite, Associative
<1>8. Write(c, sized \o v) = Write(b, tag \o (sized \o v)) /\ tag \o (sized \o v) \in ByteString
  BY <1>2, <1>7, WriteWrite, Associative DEF c
<1>9. WriteBlob(b, v) = Write(b, tag \o (sized \o v))
  BY <1>3, <1>6, <1>7, <1>8 DEF WriteBlob, size
<1> QED
  BY <1>8, <1>9 DEF BlobImage, tag, sized, size

LEMMA ValuesAre ==
  ASSUME NEW kind \in Kinds, NEW v \in ValuesOf(kind)
  PROVE  /\ v \in ByteString
         /\ kind \in {"blob", "session"} => Len(v) \in Int31
         /\ kind = "session" => Len(v) = 8
         /\ kind = "string" => \A i \in 1..Len(v) : v[i] # 0
         /\ kind \in DOMAIN PlainLength => Len(v) = PlainLength[kind]
         /\ kind \in Scalars => Len(v) = Width[kind]
<1>1. CASE kind = "string"
  <2>1. v \in Seq(Byte \ {0})
    BY <1>1, KindsAre, SMT DEF ValuesOf
  <2>2. v \in Seq(Byte)
    BY <2>1, SeqMonotonic
  <2>3. \A i \in 1..Len(v) : v[i] # 0
    BY <2>1, ElementOfSeq
  <2> QED
    BY <1>1, <2>2, <2>3, KindsAre DEF ByteString
<1>2. CASE kind = "blob"
  <2>1. v \in Seq(Byte) /\ Len(v) \in Int31
    BY <1>2, KindsAre, SMT DEF ValuesOf
  <2>4. v \in ByteString
    BY <2>1, SMT DEF ByteString
  <2> QED
    BY <1>2, <2>1, <2>4, KindsAre
<1>3. CASE kind = "session"
  <2>1. v \in [1..8 -> Byte]
    BY <1>3, KindsAre, SMT DEF ValuesOf, SESSION_LENGTH
  <2>2. \A n \in Nat : [1..n -> Byte] \subseteq ByteString /\ \A w \in [1..n -> Byte] : Len(w) = n
    BY DEF ByteString
  <2>3. v \in ByteString /\ Len(v) = 8
    BY <2>1, <2>2
  <2>4. 8 \in Int31
    BY SMT DEF Int31
  <2> QED
    BY <1>3, <2>3, <2>4, KindsAre
<1>4. CASE kind \in DOMAIN PlainLength
  <2>1. v \in [1..PlainLength[kind] -> Byte]
    BY <1>4, KindsAre, SMT DEF ValuesOf
  <2>2. PlainLength[kind] \in Nat
    BY <1>4, KindsAre DEF PlainLength
  <2>3. v \in ByteString /\ Len(v) = PlainLength[kind]
    BY <2>1, <2>2 DEF ByteString
  <2> QED
    BY <1>4, <2>3, KindsAre
<1>5. CASE kind \in Scalars
  <2>1. v \in [1..Width[kind] -> Byte]
    BY <1>5, KindsAre, SMT DEF ValuesOf
  <2>2. Width[kind] \in Nat
    BY <1>5, ScalarsAre
  <2>3. v \in ByteString /\ Len(v) = Width[kind]
    BY <2>1, <2>2 DEF ByteString
  <2> QED
    BY <1>5, <2>3, KindsAre
<1> QED
  BY <1>1, <1>2, <1>3, <1>4, <1>5, KindsAre

\* A member is written behind all that is there.
LEMMA MemberWritten ==
  ASSUME NEW b \in Buffer, NEW kind \in Kinds, NEW v \in ValuesOf(kind)
  PROVE  /\ Image(b.typed, kind, v) \in ByteString
         /\ WriteMember(b, kind, v) = Write(b, Image(b.typed, kind, v))
<1>1. CASE kind = "string"
  BY <1>1, ValuesAre, StringWritten DEF Image, WriteMember
<1>2. CASE kind \in {"blob", "session"}
  BY <1>2, ValuesAre, BlobWritten DEF Image, WriteMember
<1>3. CASE kind \in DOMAIN PlainLength
  BY <1>3, ValuesAre, KindsAre DEF Image, WriteMember
<1>4. CASE kind \in Scalars
  BY <1>4, ValuesAre, ScalarWritten, KindsAre DEF Image, WriteMember
<1> QED
  BY <1>1, <1>2, <1>3, <1>4, KindsAre

\* Reading: what is ahead is read, and the position moves behind it.
LEMMA TagRead ==
  ASSUME NEW b \in Buffer, NEW tag \in Byte, Ahead(b, TagOf(b.typed, tag))
  PROVE  ReadDataType(b, tag)
           = Advance(b, Len(TagOf(b.typed, tag)), TagOf(b.typed, tag))
<1> DEFINE c == TagOf(b.typed, tag)
<1>1. c \in ByteString
  BY TagOfIs DEF Buffer
<1>2. Read(b, Len(c)) = Advance(b, Len(c), c)
  BY <1>1, ReadAhead
<1>3. CASE b.typed
  <2>1. c = <<tag>> /\ Len(c) = 1
    BY <1>3 DEF TagOf
  <2>2. Advance(b, 1, c).ok /\ Advance(b, 1, c).value = <<tag>>
    BY <2>1, AdvanceIs
  <2> HIDE DEF c
  <2>3. Expected(Read(b, 1), tag) = Advance(b, 1, c)
    BY <1>2, <2>1, <2>2 DEF Expected
  <2>4. ReadDataType(b, tag) = Advance(b, 1, c)
    BY <1>3, <2>3 DEF ReadDataType
  <2> QED
    BY <2>1, <2>4 DEF c
<1>4. CASE ~b.typed
  <2>1. c = <<>> /\ Len(c) = 0
    BY <1>4 DEF TagOf
  <2> QED
    BY <1>4, <2>1 DEF ReadDataType
<1> QED
  BY <1>3, <1>4

\* A value behind its type.
LEMMA TaggedAhead ==
  ASSUME NEW b \in Buffer, NEW tag \in Byte, NEW v \in ByteString,
         Ahead(b, TagOf(b.typed, tag) \o v)
  PROVE  \E n \in Nat :
           /\ Len(TagOf(b.typed, tag) \o v) = n + Len(v)
           /\ ReadDataType(b, tag).ok /\ ReadDataType(b, tag).buffer = Past(b, n)
           /\ Past(b, n) \in Buffer /\ Past(b, n).typed = b.typed
           /\ Ahead(Past(b, n), v)
<1> DEFINE c == TagOf(b.typed, tag)
<1>1. c \in ByteString
  BY TagOfIs DEF Buffer
<1> HIDE DEF c
<1>2. Ahead(b, c) /\ Past(b, Len(c)) \in Buffer /\ Ahead(Past(b, Len(c)), v)
  BY <1>1, AheadParts DEF c
<1>3. Len(c) \in Nat /\ Len(c \o v) = Len(c) + Len(v)
  BY <1>1, LenProperties, ConcatProperties DEF ByteString
<1>4. ReadDataType(b, tag) = Advance(b, Len(c), c)
  BY <1>2, TagRead DEF c
<1>5. ReadDataType(b, tag).ok /\ ReadDataType(b, tag).buffer = Past(b, Len(c))
  BY <1>4, AdvanceIs
<1>6. Past(b, Len(c)).typed = b.typed
  BY <1>3, PastPast
<1> QED
  BY <1>2, <1>3, <1>5, <1>6 DEF c

LEMMA AdvancePast ==
  ASSUME NEW b \in Buffer, NEW n \in Nat, NEW m \in Nat, NEW v
  PROVE  Advance(Past(b, n), m, v) = Advance(b, n + m, v)
<1>1. Past(Past(b, n), m) = Past(b, n + m)
  BY PastPast
<1> QED
  BY <1>1 DEF Advance, Past

LEMMA ScalarRead ==
  ASSUME NEW b \in Buffer, NEW kind \in Scalars, NEW v \in ByteString, Len(v) = Width[kind],
         Ahead(b, ScalarImage(b.typed, kind, v))
  PROVE  ReadScalar(b, kind) = Advance(b, Len(ScalarImage(b.typed, kind, v)), v)
<1>1. Tag[kind] \in Byte
  BY ScalarsAre
<1>2. PICK n \in Nat :
           /\ Len(ScalarImage(b.typed, kind, v)) = n + Len(v)
           /\ ReadDataType(b, Tag[kind]).ok /\ ReadDataType(b, Tag[kind]).buffer = Past(b, n)
           /\ Past(b, n) \in Buffer /\ Past(b, n).typed = b.typed
           /\ Ahead(Past(b, n), v)
  BY <1>1, TaggedAhead DEF ScalarImage
<1>3. Read(Past(b, n), Len(v)) = Advance(Past(b, n), Len(v), v)
  BY <1>2, ReadAhead
<1>4. Advance(Past(b, n), Len(v), v) = Advance(b, n + Len(v), v)
  BY AdvancePast, LenProperties DEF ByteString
<1>5. ReadScalar(b, kind) = Read(Past(b, n), Width[kind])
  BY <1>2 DEF ReadScalar, Then
<1> QED
  BY <1>2, <1>3, <1>4, <1>5

LEMMA TextRead ==
  ASSUME NEW b \in Buffer, NEW v \in ByteString, \A i \in 1..Len(v) : v[i] # 0,
         Ahead(b, Append(v, 0))
  PROVE  TextAt(b) = Advance(b, Len(v) + 1, v)
<1>1. /\ Len(v) \in Nat /\ Append(v, 0) \in ByteString /\ Len(Append(v, 0)) = Len(v) + 1
      /\ \A i \in 1..Len(v) : Append(v, 0)[i] = v[i]
      /\ Append(v, 0)[Len(v) + 1] = 0
  <2>1. 0 \in Byte
    BY DEF Byte
  <2> QED
    BY <2>1, AppendProperties, LenProperties DEF ByteString
<1>2. b.at \in Nat /\ Len(b.data) \in Nat /\ b.data \in Seq(Byte)
  BY LenProperties DEF Buffer, ByteString
<1>3. /\ b.at + Len(v) + 1 <= Len(b.data)
      /\ \A i \in 1..Len(v) : b.data[b.at + i] = v[i]
      /\ b.data[b.at + Len(v) + 1] = 0
  <2>1. Len(v) + 1 \in 1..Len(Append(v, 0)) /\ b.at + (Len(v) + 1) = b.at + Len(v) + 1
    BY <1>1, <1>2
  <2>2. b.data[b.at + (Len(v) + 1)] = 0
    BY <1>1, <2>1 DEF Ahead
  <2>3. ASSUME NEW i \in 1..Len(v) PROVE b.data[b.at + i] = v[i]
    <3>1. i \in 1..Len(Append(v, 0))
      BY <1>1
    <3> QED
      BY <1>1, <3>1 DEF Ahead
  <2>4. b.at + Len(v) + 1 <= Len(b.data)
    BY <1>1, <1>2 DEF Ahead
  <2> QED
    BY <2>1, <2>2, <2>3, <2>4
<1> DEFINE End(i) == /\ i <= Len(b.data) => b.data[i] = 0
                     /\ \A k \in (b.at + 1)..(i - 1) : b.data[k] # 0
           e == b.at + Len(v) + 1
<1>4. e \in (b.at + 1)..(Len(b.data) + 1) /\ End(e)
  <2>1. ASSUME NEW k \in (b.at + 1)..(e - 1) PROVE b.data[k] # 0
    <3>1. k - b.at \in 1..Len(v) /\ b.at + (k - b.at) = k
      BY <1>1, <1>2
    <3> QED
      BY <1>3, <3>1
  <2> QED
    BY <1>1, <1>2, <1>3, <2>1
<1>5. \A i \in (b.at + 1)..(Len(b.data) + 1) : End(i) => i = e
  <2> SUFFICES ASSUME NEW i \in (b.at + 1)..(Len(b.data) + 1), End(i), i # e PROVE FALSE
    OBVIOUS
  <2>1. CASE i < e
    <3>1. i \in (b.at + 1)..(e - 1) /\ i <= Len(b.data)
      BY <1>1, <1>2, <1>3, <2>1
    <3> QED
      BY <1>4, <3>1
  <2>2. CASE i > e
    <3>1. e \in (b.at + 1)..(i - 1)
      BY <1>1, <1>2, <2>2
    <3> QED
      BY <1>3, <3>1
  <2> QED
    BY <1>1, <1>2, <2>1, <2>2
<1>6. Terminator(b) = e
  <2> HIDE DEF e
  <2> QED
    BY <1>4, <1>5 DEF Terminator
<1>7. e - b.at = Len(v) + 1 /\ e - 1 = b.at + Len(v)
  BY <1>1, <1>2
<1>8. SubSeq(b.data, b.at + 1, b.at + Len(v)) = v
  <2>1. b.at + Len(v) <= Len(b.data)
    BY <1>1, <1>2, <1>3
  <2>2. v \in Seq(Byte)
    BY DEF ByteString
  <2> QED
    BY <1>2, <1>3, <2>1, <2>2, SubSeqIs
<1> QED
  BY <1>6, <1>7, <1>8 DEF TextAt

LEMMA StringRead ==
  ASSUME NEW b \in Buffer, NEW v \in ByteString, \A i \in 1..Len(v) : v[i] # 0,
         Ahead(b, StringImage(b.typed, v))
  PROVE  ReadString(b) = Advance(b, Len(StringImage(b.typed, v)), v)
<1>1. STRING_TAG \in Byte /\ Append(v, 0) \in ByteString /\ Len(Append(v, 0)) = Len(v) + 1
      /\ Len(v) \in Nat
  BY AppendProperties, LenProperties DEF STRING_TAG, Byte, ByteString
<1>2. PICK n \in Nat :
           /\ Len(StringImage(b.typed, v)) = n + Len(Append(v, 0))
           /\ ReadDataType(b, STRING_TAG).ok /\ ReadDataType(b, STRING_TAG).buffer = Past(b, n)
           /\ Past(b, n) \in Buffer /\ Past(b, n).typed = b.typed
           /\ Ahead(Past(b, n), Append(v, 0))
  BY <1>1, TaggedAhead DEF StringImage
<1>3. TextAt(Past(b, n)) = Advance(Past(b, n), Len(v) + 1, v)
  BY <1>2, TextRead
<1>4. Advance(Past(b, n), Len(v) + 1, v) = Advance(b, n + (Len(v) + 1), v)
  BY <1>1, AdvancePast
<1>5. ReadString(b) = TextAt(Past(b, n))
  BY <1>2 DEF ReadString, Then
<1> QED
  BY <1>1, <1>2, <1>3, <1>4, <1>5

LEMMA BlobRead ==
  ASSUME NEW b \in Buffer, NEW v \in ByteString, Len(v) \in Int31,
         Ahead(b, BlobImage(b.typed, v))
  PROVE  ReadBlob(b) = Advance(b, Len(BlobImage(b.typed, v)), v)
<1> DEFINE size == Little(Len(v))
           sized == ScalarImage(b.typed, "uint32", size)
<1>1. BLOB_TAG \in Byte /\ "uint32" \in Scalars /\ Width["uint32"] = 4
  BY KindsAre DEF BLOB_TAG, Byte, Width
<1>2. size \in ByteString /\ Len(size) = 4 /\ Number(size) = Len(v)
  BY NumberOfLittle
<1> HIDE DEF size
<1>3. sized \in ByteString
  BY <1>1, <1>2, ScalarWritten
<1>4. Len(v) \in Nat /\ Len(sized) \in Nat /\ sized \o v \in ByteString
      /\ Len(sized \o v) = Len(sized) + Len(v)
  <2> HIDE DEF sized
  <2> QED
    BY <1>3, LenProperties, ConcatProperties DEF ByteString
<1>5. PICK n \in Nat :
           /\ Len(BlobImage(b.typed, v)) = n + Len(sized \o v)
           /\ ReadDataType(b, BLOB_TAG).ok /\ ReadDataType(b, BLOB_TAG).buffer = Past(b, n)
           /\ Past(b, n) \in Buffer /\ Past(b, n).typed = b.typed
           /\ Ahead(Past(b, n), sized \o v)
  <2> HIDE DEF sized
  <2>1. BlobImage(b.typed, v) = TagOf(b.typed, BLOB_TAG) \o (sized \o v)
    BY DEF BlobImage, sized, size
  <2> QED
    BY <1>1, <1>4, <2>1, TaggedAhead
<1> DEFINE p == Past(b, n)
           q == Past(p, Len(sized))
<1>6. Ahead(p, sized) /\ q \in Buffer /\ Ahead(q, v)
  <2> HIDE DEF sized
  <2> QED
    BY <1>3, <1>5, AheadParts
<1>7. ReadScalar(p, "uint32") = Advance(p, Len(sized), size)
  <2>1. p \in Buffer /\ sized = ScalarImage(p.typed, "uint32", size)
    BY <1>5
  <2> HIDE DEF p
  <2>2. Ahead(p, ScalarImage(p.typed, "uint32", size))
    BY <1>6, <2>1
  <2>3. ReadScalar(p, "uint32") = Advance(p, Len(ScalarImage(p.typed, "uint32", size)), size)
    BY <1>1, <1>2, <2>1, <2>2, ScalarRead
  <2> QED
    BY <2>1, <2>3
<1>8. /\ ReadScalar(p, "uint32").value = size
      /\ ReadScalar(p, "uint32").buffer = q
  <2> HIDE DEF p, sized
  <2> QED
    BY <1>7, AdvanceIs
<1>9. BlobAt(q, Len(v)) = Advance(q, Len(v), v)
  <2> HIDE DEF q
  <2>1. q.data \in Seq(Byte) /\ q.at \in Nat /\ v \in Seq(Byte)
    BY <1>6 DEF Buffer, ByteString
  <2>2. SubSeq(q.data, q.at + 1, q.at + Len(v)) = v
    BY <1>6, <2>1, SubSeqIs DEF Ahead
  <2> QED
    BY <2>2 DEF BlobAt
<1>10. Advance(q, Len(v), v) = Advance(b, n + (Len(sized) + Len(v)), v)
  <2> HIDE DEF sized
  <2>1. Advance(q, Len(v), v) = Advance(p, Len(sized) + Len(v), v)
    BY <1>4, <1>5, AdvancePast
  <2>2. Advance(p, Len(sized) + Len(v), v) = Advance(b, n + (Len(sized) + Len(v)), v)
    BY <1>4, <1>5, AdvancePast
  <2> QED
    BY <2>1, <2>2
<1>11. ReadBlob(b) = Sized(ReadScalar(p, "uint32"))
  BY <1>5 DEF ReadBlob, Then
<1>12. Sized(ReadScalar(p, "uint32")) = BlobAt(q, Len(v))
  <2> HIDE DEF p, q
  <2> QED
    BY <1>2, <1>8 DEF Sized
<1> QED
  <2> HIDE DEF p, q, sized
  <2> QED
    BY <1>4, <1>5, <1>9, <1>10, <1>11, <1>12

-----------------------------------------------------------------------------
(* Members one after the other.                                            *)

\* A session id is all of its blob.
LEMMA SessionOf ==
  ASSUME NEW r, NEW v, r.ok, r.value = v, Len(v) = 8, SubSeq(v, 1, 8) = v
  PROVE  SessionIn(r) = [ok |-> TRUE, value |-> v, buffer |-> r.buffer]
<1>1. r.ok /\ Len(r.value) >= 8
  OBVIOUS
<1>2. SessionIn(r) = [ok |-> TRUE, value |-> SubSeq(r.value, 1, 8), buffer |-> r.buffer]
  BY <1>1 DEF SessionIn, SESSION_LENGTH
<1> QED
  BY <1>2

LEMMA MemberRead ==
  ASSUME NEW b \in Buffer, NEW kind \in Kinds, NEW v \in ValuesOf(kind),
         Ahead(b, Image(b.typed, kind, v))
  PROVE  ReadMember(b, kind) = Advance(b, Len(Image(b.typed, kind, v)), v)
<1> DEFINE n == Len(Image(b.typed, kind, v))
<1>1. CASE kind = "string"
  BY <1>1, ValuesAre, StringRead, KindsAre DEF Image, ReadMember
<1>2. CASE kind = "blob"
  BY <1>2, ValuesAre, BlobRead, KindsAre DEF Image, ReadMember
<1>3. CASE kind = "session"
  <2>1. v \in ByteString /\ Len(v) \in Int31 /\ Len(v) = 8
    BY <1>3, ValuesAre
  <2>2. Image(b.typed, kind, v) = BlobImage(b.typed, v)
    BY <1>3, KindsAre DEF Image
  <2>3. ReadBlob(b) = Advance(b, n, v)
    BY <2>1, <2>2, BlobRead
  <2>4. SubSeq(v, 1, 8) = v
    BY <2>1, SubSeqFull DEF ByteString
  <2> HIDE DEF n
  <2>5. SessionIn(Advance(b, n, v)) = Advance(b, n, v)
    <3>1. Advance(b, n, v) = [ok |-> TRUE, value |-> v, buffer |-> Past(b, n)]
      BY DEF Advance, Past
    <3>2. /\ Advance(b, n, v).ok /\ Advance(b, n, v).value = v
          /\ Advance(b, n, v).buffer = Past(b, n)
      BY AdvanceIs
    <3>3. SessionIn(Advance(b, n, v)) = [ok |-> TRUE, value |-> v, buffer |-> Past(b, n)]
      BY <2>1, <2>4, <3>2, SessionOf
    <3> QED
      BY <3>1, <3>3
  <2>6. ReadMember(b, kind) = SessionIn(ReadBlob(b))
    BY <1>3, KindsAre DEF ReadMember, ReadSession
  <2> QED
    BY <2>3, <2>5, <2>6 DEF n
<1>4. CASE kind \in DOMAIN PlainLength
  <2>1. v \in ByteString /\ Len(v) = PlainLength[kind] /\ Image(b.typed, kind, v) = v
    BY <1>4, ValuesAre, KindsAre DEF Image
  <2>2. ReadMember(b, kind) = Read(b, Len(v))
    BY <1>4, <2>1, KindsAre DEF ReadMember
  <2> QED
    BY <2>1, <2>2, ReadAhead
<1>5. CASE kind \in Scalars
  <2>1. v \in ByteString /\ Len(v) = Width[kind]
    BY <1>5, ValuesAre
  <2>2. Image(b.typed, kind, v) = ScalarImage(b.typed, kind, v)
    BY <1>5, KindsAre DEF Image
  <2>3. ReadMember(b, kind) = ReadScalar(b, kind)
    BY <1>5, KindsAre DEF ReadMember
  <2> QED
    BY <1>5, <2>1, <2>2, <2>3, ScalarRead
<1> QED
  BY <1>1, <1>2, <1>3, <1>4, <1>5, KindsAre

-----------------------------------------------------------------------------
(* Objects.                                                                *)

\* Induction over the natural numbers: of those for which something fails, one
\* is the least.
LEMMA LeastOf ==
  ASSUME NEW S \in SUBSET Nat, S # {}
  PROVE  \E m \in S : \A k \in Nat : k < m => k \notin S
<1> DEFINE Less == OpToRel(<, Nat)
<1>1. \A k, m \in Nat : k < m => <<k, m>> \in Less
  BY DEF OpToRel
<1>2. IsWellFoundedOn(Less, Nat)
  BY NatLessThanWellFounded
<1> HIDE DEF Less
<1>3. PICK m \in S : \A k \in S : <<k, m>> \notin Less
  BY <1>2, WFMin
<1> QED
  BY <1>1, <1>3

LEMMA Induction ==
  ASSUME NEW S \in SUBSET Nat, 0 \in S, \A n \in S : n + 1 \in S
  PROVE  S = Nat
<1> SUFFICES ASSUME Nat \ S # {} PROVE FALSE
  OBVIOUS
<1>1. PICK m \in Nat \ S : \A k \in Nat : k < m => k \notin Nat \ S
  BY LeastOf
<1>2. m # 0
  BY <1>1
<1>3. m - 1 \in S
  BY <1>1, <1>2
<1> QED
  BY <1>1, <1>2, <1>3

\* An object of a class.
IsObject(layout, object) ==
  /\ layout \in Seq(Kinds)
  /\ object = [i \in 1..Len(layout) |-> object[i]]
  /\ \A i \in 1..Len(layout) : object[i] \in ValuesOf(layout[i])

\* The steps of Serialize and of Deserialize, up to the n-th.
Writers(w, layout, object, b, n) ==
  w = [i \in 0..n |-> IF i = 0 THEN b ELSE WriteMember(w[i - 1], layout[i], object[i])]
Readers(r, layout, b, n) ==
  r = [i \in 0..n |-> IF i = 0 THEN [object |-> <<>>, buffer |-> b]
                      ELSE Further(r[i - 1], layout[i])]

LEMMA WritersExist ==
  ASSUME NEW layout, NEW object, NEW b, NEW n \in Nat
  PROVE  \E w : Writers(w, layout, object, b, n)
<1> DEFINE S == {m \in Nat : \E w : Writers(w, layout, object, b, m)}
<1>1. 0 \in S
  <2>1. Writers([i \in 0..0 |-> b], layout, object, b, 0)
    BY DEF Writers
  <2> QED
    BY <2>1
<1>2. ASSUME NEW m \in S PROVE m + 1 \in S
  <2>1. PICK w : Writers(w, layout, object, b, m)
    OBVIOUS
  <2> DEFINE g == [i \in 0..(m + 1) |->
                     IF i <= m THEN w[i] ELSE WriteMember(w[m], layout[m + 1], object[m + 1])]
  <2>2. ASSUME NEW i \in 0..(m + 1)
        PROVE  g[i] = IF i = 0 THEN b ELSE WriteMember(g[i - 1], layout[i], object[i])
    <3>1. \A j \in 0..m : w[j] = IF j = 0 THEN b ELSE WriteMember(w[j - 1], layout[j], object[j])
      BY <2>1 DEF Writers
    <3>2. i # 0 => i - 1 \in 0..m /\ g[i - 1] = w[i - 1]
      OBVIOUS
    <3> QED
      BY <3>1, <3>2
  <2>3. g = [i \in 0..(m + 1) |-> g[i]]
    OBVIOUS
  <2>4. Writers(g, layout, object, b, m + 1)
    <3> HIDE DEF g
    <3> QED
      BY <2>2, <2>3 DEF Writers
  <2> QED
    BY <2>4
<1>3. S = Nat
  <2> HIDE DEF S
  <2>1. S \in SUBSET Nat
    BY DEF S
  <2> QED
    BY <1>1, <1>2, <2>1, Induction
<1> QED
  BY <1>3

LEMMA ReadersExist ==
  ASSUME NEW layout, NEW b, NEW n \in Nat
  PROVE  \E r : Readers(r, layout, b, n)
<1> DEFINE S == {m \in Nat : \E r : Readers(r, layout, b, m)}
           first == [object |-> <<>>, buffer |-> b]
<1>1. 0 \in S
  <2>1. Readers([i \in 0..0 |-> first], layout, b, 0)
    BY DEF Readers
  <2> QED
    BY <2>1
<1>2. ASSUME NEW m \in S PROVE m + 1 \in S
  <2>1. PICK r : Readers(r, layout, b, m)
    OBVIOUS
  <2> DEFINE g == [i \in 0..(m + 1) |-> IF i <= m THEN r[i] ELSE Further(r[m], layout[m + 1])]
  <2>2. ASSUME NEW i \in 0..(m + 1)
        PROVE  g[i] = IF i = 0 THEN first ELSE Further(g[i - 1], layout[i])
    <3>1. \A j \in 0..m : r[j] = IF j = 0 THEN first ELSE Further(r[j - 1], layout[j])
      BY <2>1 DEF Readers
    <3>2. i # 0 => i - 1 \in 0..m /\ g[i - 1] = r[i - 1]
      OBVIOUS
    <3> QED
      BY <3>1, <3>2
  <2>3. g = [i \in 0..(m + 1) |-> g[i]]
    OBVIOUS
  <2>4. Readers(g, layout, b, m + 1)
    <3> HIDE DEF g
    <3> QED
      BY <2>2, <2>3 DEF Readers
  <2> QED
    BY <2>4
<1>3. S = Nat
  <2> HIDE DEF S
  <2>1. S \in SUBSET Nat
    BY DEF S
  <2> QED
    BY <1>1, <1>2, <2>1, Induction
<1> QED
  BY <1>3

LEMMA SerializeIs ==
  ASSUME NEW layout \in Seq(Kinds), NEW object, NEW b
  PROVE  \E w : /\ Writers(w, layout, object, b, Len(layout))
                /\ Serialize(layout, object, b) = w[Len(layout)]
<1> DEFINE w == CHOOSE g : Writers(g, layout, object, b, Len(layout))
<1>1. Writers(w, layout, object, b, Len(layout))
  BY WritersExist, LenProperties
<1>2. Serialize(layout, object, b) = w[Len(layout)]
  BY DEF Serialize, Writers
<1> QED
  BY <1>1, <1>2

LEMMA DeserializeIs ==
  ASSUME NEW layout \in Seq(Kinds), NEW b
  PROVE  \E r : /\ Readers(r, layout, b, Len(layout))
                /\ Deserialize(layout, b) = r[Len(layout)]
<1> DEFINE r == CHOOSE g : Readers(g, layout, b, Len(layout))
<1>1. Readers(r, layout, b, Len(layout))
  BY ReadersExist, LenProperties
<1>2. Deserialize(layout, b) = r[Len(layout)]
  BY DEF Deserialize, Readers
<1> QED
  BY <1>1, <1>2

\* The bytes of the first members.
Together(s, t) == s \o t
Pieces(f, typed, layout, object) ==
  /\ f \in [0..Len(layout) -> ByteString]
  /\ f[0] = <<>>
  /\ \A n \in 1..Len(layout) : f[n] = Together(f[n - 1], Image(typed, layout[n], object[n]))

LEMMA NextPiece ==
  ASSUME NEW f, NEW typed, NEW layout, NEW object, Pieces(f, typed, layout, object),
         Len(layout) \in Nat
  PROVE  /\ f[0] = <<>> /\ \A n \in 0..Len(layout) : f[n] \in ByteString
         /\ \A n \in Nat : n + 1 \in 1..Len(layout) =>
              f[n + 1] = Together(f[n], Image(typed, layout[n + 1], object[n + 1]))
<1>1. ASSUME NEW n \in Nat, n + 1 \in 1..Len(layout)
      PROVE  f[n + 1] = Together(f[n], Image(typed, layout[n + 1], object[n + 1]))
  <2>1. (n + 1) - 1 = n
    OBVIOUS
  <2>2. f[n + 1] = Together(f[(n + 1) - 1], Image(typed, layout[n + 1], object[n + 1]))
    BY <1>1, Zenon DEF Pieces
  <2> QED
    BY <2>1, <2>2
<1> QED
  BY <1>1 DEF Pieces

\* However far a writer is, it has written these.
LEMMA WritersAre ==
  ASSUME NEW layout, NEW object, IsObject(layout, object), NEW b \in Buffer,
         NEW f, Pieces(f, b.typed, layout, object),
         NEW w, Writers(w, layout, object, b, Len(layout))
  PROVE  \A n \in 0..Len(layout) : w[n] = Write(b, f[n])
<1> DEFINE S == {n \in Nat : n \in 0..Len(layout) => w[n] = Write(b, f[n])}
<1>1. /\ Len(layout) \in Nat /\ \A i \in 1..Len(layout) : layout[i] \in Kinds
      /\ \A i \in 1..Len(layout) : object[i] \in ValuesOf(layout[i])
  BY LenProperties, ElementOfSeq DEF IsObject
<1>2. \A n \in 0..Len(layout) :
        w[n] = IF n = 0 THEN b ELSE WriteMember(w[n - 1], layout[n], object[n])
  BY DEF Writers
<1>6. /\ f[0] = <<>> /\ \A n \in 0..Len(layout) : f[n] \in ByteString
      /\ \A n \in Nat : n + 1 \in 1..Len(layout) =>
           f[n + 1] = Together(f[n], Image(b.typed, layout[n + 1], object[n + 1]))
  BY <1>1, NextPiece
<1>3. 0 \in S
  BY <1>1, <1>2, <1>6, WriteWrite DEF ByteString
<1>4. ASSUME NEW n \in S PROVE n + 1 \in S
  <2> SUFFICES ASSUME n + 1 \in 0..Len(layout) PROVE w[n + 1] = Write(b, f[n + 1])
    OBVIOUS
  <2> DEFINE image == Image(b.typed, layout[n + 1], object[n + 1])
  <2>1. /\ n \in Nat /\ n \in 0..Len(layout) /\ n + 1 \in 1..Len(layout)
        /\ n + 1 - 1 = n /\ n + 1 # 0
    BY <1>1
  <2>2. w[n] = Write(b, f[n]) /\ f[n] \in ByteString
    BY <2>1 DEF Pieces
  <2>3. w[n] \in Buffer /\ w[n].typed = b.typed
    BY <2>2, WriteWrite
  <2>4. /\ image \in ByteString
        /\ WriteMember(w[n], layout[n + 1], object[n + 1]) = Write(w[n], image)
    BY <1>1, <2>1, <2>3, MemberWritten
  <2>5. w[n + 1] = WriteMember(w[n], layout[n + 1], object[n + 1])
    BY <1>2, <2>1
  <2>6. f[n + 1] = f[n] \o image
    BY <1>6, <2>1 DEF Together
  <2> HIDE DEF image
  <2>7. Write(Write(b, f[n]), image) = Write(b, f[n] \o image)
    BY <2>2, <2>4, WriteWrite
  <2> QED
    BY <2>2, <2>4, <2>5, <2>6, <2>7
<1>5. S = Nat
  <2> HIDE DEF S
  <2>1. S \in SUBSET Nat
    BY DEF S
  <2> QED
    BY <1>3, <1>4, <2>1, Induction
<1> QED
  BY <1>1, <1>5

\* However far a reader is, these are behind it, and it has these members.
LEMMA ReadersAre ==
  ASSUME NEW layout, NEW object, IsObject(layout, object), NEW b \in Buffer,
         NEW f, Pieces(f, b.typed, layout, object),
         NEW r, Readers(r, layout, b, Len(layout))
  PROVE  \A n \in 0..Len(layout) :
           Ahead(b, f[n]) =>
             r[n] = [object |-> [i \in 1..n |-> object[i]], buffer |-> Past(b, Len(f[n]))]
<1> DEFINE first(n) == [i \in 1..n |-> object[i]]
           Right(n) == r[n] = [object |-> first(n), buffer |-> Past(b, Len(f[n]))]
           S == {n \in Nat : n \in 0..Len(layout) => (Ahead(b, f[n]) => Right(n))}
<1>1. /\ Len(layout) \in Nat /\ \A i \in 1..Len(layout) : layout[i] \in Kinds
      /\ \A i \in 1..Len(layout) : object[i] \in ValuesOf(layout[i])
  BY LenProperties, ElementOfSeq DEF IsObject
<1>2. \A n \in 0..Len(layout) :
        r[n] = IF n = 0 THEN [object |-> <<>>, buffer |-> b] ELSE Further(r[n - 1], layout[n])
  BY DEF Readers
<1>6. /\ f[0] = <<>> /\ \A n \in 0..Len(layout) : f[n] \in ByteString
      /\ \A n \in Nat : n + 1 \in 1..Len(layout) =>
           f[n + 1] = Together(f[n], Image(b.typed, layout[n + 1], object[n + 1]))
  <2> DEFINE typed == b.typed
  <2>1. Pieces(f, typed, layout, object)
    OBVIOUS
  <2> HIDE DEF typed
  <2>2. /\ f[0] = <<>> /\ \A n \in 0..Len(layout) : f[n] \in ByteString
        /\ \A n \in Nat : n + 1 \in 1..Len(layout) =>
             f[n + 1] = Together(f[n], Image(typed, layout[n + 1], object[n + 1]))
    BY <1>1, <2>1, NextPiece
  <2> QED
    BY <2>2 DEF typed
<1>3. 0 \in S
  <2>1. f[0] = <<>> /\ Len(<<>>) = 0 /\ Past(b, 0) = b /\ first(0) = <<>>
    BY <1>6, PastPast
  <2> QED
    BY <1>1, <1>2, <2>1
<1>4. ASSUME NEW n \in S PROVE n + 1 \in S
  <2> SUFFICES ASSUME n + 1 \in 0..Len(layout), Ahead(b, f[n + 1]) PROVE Right(n + 1)
    OBVIOUS
  <2> DEFINE image == Image(b.typed, layout[n + 1], object[n + 1])
             v == object[n + 1]
             p == Past(b, Len(f[n]))
  <2>1. /\ n \in Nat /\ n \in 0..Len(layout) /\ n + 1 \in 1..Len(layout)
        /\ n + 1 - 1 = n /\ n + 1 # 0
    BY <1>1
  <2>2. f[n] \in ByteString /\ f[n + 1] = f[n] \o image
    BY <1>6, <2>1 DEF Together
  <2>3. image \in ByteString /\ layout[n + 1] \in Kinds /\ v \in ValuesOf(layout[n + 1])
    BY <1>1, <2>1, MemberWritten
  <2>4. /\ Len(f[n]) \in Nat /\ Len(image) \in Nat /\ Len(f[n + 1]) = Len(f[n]) + Len(image)
    <3> HIDE DEF image
    <3> QED
      BY <2>2, <2>3, LenProperties, ConcatProperties DEF ByteString
  <2>5. Ahead(b, f[n]) /\ p \in Buffer /\ Ahead(p, image) /\ p.typed = b.typed
    <3>1. p.typed = b.typed
      BY <2>4, PastPast
    <3>2. Ahead(b, f[n] \o image)
      BY <2>2
    <3> HIDE DEF image
    <3>3. Ahead(b, f[n]) /\ p \in Buffer /\ Ahead(p, image)
      BY <2>2, <2>3, <3>2, AheadParts
    <3> QED
      BY <3>1, <3>3
  <2>6. ReadMember(p, layout[n + 1]) = Advance(p, Len(image), v)
    <3> HIDE DEF p
    <3> QED
      BY <2>3, <2>5, MemberRead
  <2>7. /\ ReadMember(p, layout[n + 1]).value = v
        /\ ReadMember(p, layout[n + 1]).buffer = Past(b, Len(f[n + 1]))
    <3>1. Past(p, Len(image)) = Past(b, Len(f[n + 1]))
      <4> HIDE DEF image
      <4>1. Past(Past(b, Len(f[n])), Len(image)) = Past(b, Len(f[n]) + Len(image))
        BY <2>4, PastPast
      <4> QED
        BY <2>4, <4>1
    <3> HIDE DEF p, v, image
    <3> QED
      BY <2>6, <3>1, AdvanceIs
  <2>8. r[n] = [object |-> first(n), buffer |-> p]
    BY <2>1, <2>5
  <2>9. r[n + 1] = With(first(n), ReadMember(p, layout[n + 1]))
    <3>1. r[n + 1] = Further(r[n], layout[n + 1])
      BY <1>2, <2>1
    <3> HIDE DEF first, p
    <3> QED
      BY <2>8, <3>1 DEF Further
  <2>10. Append(first(n), v) = first(n + 1)
    <3>1. Append(first(n), v) = [i \in 1..(n + 1) |-> IF i = n + 1 THEN v ELSE first(n)[i]]
      OBVIOUS
    <3> QED
      BY <3>1
  <2> HIDE DEF first, p, v
  <2> QED
    BY <2>7, <2>9, <2>10 DEF With
<1>5. S = Nat
  <2> HIDE DEF S
  <2>1. S \in SUBSET Nat
    BY DEF S
  <2> QED
    BY <1>3, <1>4, <2>1, Induction
<1>7. \A n \in 0..Len(layout) : Ahead(b, f[n]) => Right(n)
  <2> HIDE DEF Right
  <2> QED
    BY <1>1, <1>5
<1> QED
  BY <1>7

-----------------------------------------------------------------------------
(* Objects.                                                                *)

Blank(typed) == Buf(<<>>, 0, typed)

LEMMA PiecesExist ==
  ASSUME NEW layout, NEW object, IsObject(layout, object), NEW typed \in BOOLEAN
  PROVE  \E f : Pieces(f, typed, layout, object)
<1>1. /\ Len(layout) \in Nat /\ layout \in Seq(Kinds)
      /\ \A i \in 1..Len(layout) : layout[i] \in Kinds
      /\ \A i \in 1..Len(layout) : object[i] \in ValuesOf(layout[i])
  BY LenProperties, ElementOfSeq DEF IsObject
<1> DEFINE b == Blank(typed)
<1>2. b \in Buffer /\ b.typed = typed /\ b.data = <<>>
  <2>1. <<>> \in ByteString
    BY DEF ByteString
  <2> QED
    BY <2>1, BufIs DEF Blank
<1> HIDE DEF b
<1>3. PICK w : Writers(w, layout, object, b, Len(layout))
  BY <1>1, WritersExist
<1>4. \A n \in 0..Len(layout) :
        w[n] = IF n = 0 THEN b ELSE WriteMember(w[n - 1], layout[n], object[n])
  BY <1>3 DEF Writers
<1> DEFINE Good(n) == w[n] \in Buffer /\ w[n].typed = typed
           Next_(n) ==
             /\ Image(typed, layout[n + 1], object[n + 1]) \in ByteString
             /\ w[n + 1].data = Together(w[n].data, Image(typed, layout[n + 1], object[n + 1]))
           S == {n \in Nat : n \in 0..Len(layout) => Good(n)}
<1>5. ASSUME NEW n \in Nat, n + 1 \in 1..Len(layout), Good(n)
      PROVE  Good(n + 1) /\ Next_(n)
  <2> DEFINE image == Image(typed, layout[n + 1], object[n + 1])
  <2>1. w[n + 1] = WriteMember(w[n], layout[n + 1], object[n + 1])
    <3>1. n + 1 \in 0..Len(layout) /\ n + 1 # 0 /\ (n + 1) - 1 = n
      BY <1>1, <1>5
    <3> QED
      BY <1>4, <3>1
  <2>2. image \in ByteString /\ w[n + 1] = Write(w[n], image)
    BY <1>1, <1>5, <2>1, MemberWritten
  <2> HIDE DEF image
  <2>3. w[n + 1] \in Buffer /\ w[n + 1].typed = typed /\ w[n + 1].data = Together(w[n].data, image)
    <3> DEFINE x == w[n]
    <3>1. x \in Buffer /\ x.typed = typed
      BY <1>5
    <3> HIDE DEF x
    <3>2. Write(x, image) \in Buffer /\ Write(x, image).typed = x.typed
      BY <2>2, <3>1, WriteWrite
    <3>3. Write(x, image).data = Together(x.data, image)
      BY DEF Write, Together
    <3> QED
      BY <2>2, <3>1, <3>2, <3>3 DEF x
  <2> QED
    BY <2>2, <2>3 DEF image
<1>6. 0 \in S
  BY <1>1, <1>2, <1>4
<1>7. ASSUME NEW n \in S PROVE n + 1 \in S
  <2> HIDE DEF Good, Next_
  <2> QED
    BY <1>1, <1>5
<1>8. S = Nat
  <2> HIDE DEF S
  <2>1. S \in SUBSET Nat
    BY DEF S
  <2> QED
    BY <1>6, <1>7, <2>1, Induction
<1> DEFINE f == [n \in 0..Len(layout) |-> w[n].data]
<1>9. \A n \in 0..Len(layout) : Good(n)
  <2> HIDE DEF Good
  <2> QED
    BY <1>1, <1>8
<1>10. \A n \in 0..Len(layout) : f[n] \in ByteString /\ f[n] = w[n].data
  BY <1>9 DEF Buffer
<1>11. f[0] = <<>>
  BY <1>1, <1>2, <1>4
<1>12. ASSUME NEW n \in 1..Len(layout)
       PROVE  f[n] = Together(f[n - 1], Image(typed, layout[n], object[n]))
  <2>1. n - 1 \in Nat /\ (n - 1) + 1 = n /\ n - 1 \in 0..Len(layout) /\ n \in 0..Len(layout)
    BY <1>1
  <2>2. Next_(n - 1)
    <3> HIDE DEF Good, Next_
    <3> QED
      BY <1>5, <1>9, <2>1
  <2>3. w[n].data = Together(w[n - 1].data, Image(typed, layout[n], object[n]))
    BY <2>1, <2>2
  <2> HIDE DEF f
  <2> QED
    BY <1>10, <2>1, <2>3
<1>13. f \in [0..Len(layout) -> ByteString]
  BY <1>10
<1> HIDE DEF f
<1> QED
  BY <1>11, <1>12, <1>13 DEF Pieces

\* What is written of an object is read as that object, wherever it stands.
LEMMA ObjectsComeBack ==
  ASSUME NEW layout, NEW object, IsObject(layout, object), NEW b \in Buffer
  PROVE  \E c \in ByteString :
           /\ Serialize(layout, object, b) = Write(b, c)
           /\ \A p \in Buffer : p.typed = b.typed /\ Ahead(p, c) =>
                Deserialize(layout, p) = [object |-> object, buffer |-> Past(p, Len(c))]
<1>1. layout \in Seq(Kinds) /\ Len(layout) \in Nat /\ object = [i \in 1..Len(layout) |-> object[i]]
  BY LenProperties DEF IsObject
<1>2. b.typed \in BOOLEAN
  BY DEF Buffer
<1>3. PICK f : Pieces(f, b.typed, layout, object)
  BY <1>2, PiecesExist
<1> DEFINE n == Len(layout)
           c == f[n]
<1>4. n \in 0..Len(layout) /\ c \in ByteString
  BY <1>1, <1>3 DEF Pieces
<1>5. Serialize(layout, object, b) = Write(b, c)
  <2>1. PICK w : Writers(w, layout, object, b, n) /\ Serialize(layout, object, b) = w[n]
    BY <1>1, SerializeIs
  <2>2. w[n] = Write(b, c)
    BY <1>3, <1>4, <2>1, WritersAre
  <2> QED
    BY <2>1, <2>2
<1>6. ASSUME NEW p \in Buffer, p.typed = b.typed, Ahead(p, c)
      PROVE  Deserialize(layout, p) = [object |-> object, buffer |-> Past(p, Len(c))]
  <2>1. PICK r : Readers(r, layout, p, n) /\ Deserialize(layout, p) = r[n]
    BY <1>1, DeserializeIs
  <2>2. Pieces(f, p.typed, layout, object)
    BY <1>3, <1>6
  <2>3. r[n] = [object |-> [i \in 1..n |-> object[i]], buffer |-> Past(p, Len(c))]
    BY <1>4, <1>6, <2>1, <2>2, ReadersAre
  <2> QED
    BY <1>1, <2>1, <2>3
<1> HIDE DEF c
<1> QED
  BY <1>4, <1>5, <1>6

-----------------------------------------------------------------------------
(* Array headers.                                                          *)

LEMMA TypedBuffers ==
  ASSUME NEW data \in ByteString, NEW n \in Nat, NEW typed \in BOOLEAN
  PROVE  /\ Typed(Buf(data, n, typed)) = Buf(data, n, TRUE)
         /\ Untyped(Buf(data, n, typed)) = Buf(data, n, FALSE)
         /\ \A t : [Buf(data, n, typed) EXCEPT !.typed = t] = Buf(data, n, t)
<1>1. ASSUME NEW t PROVE [Buf(data, n, typed) EXCEPT !.typed = t] = Buf(data, n, t)
  BY DEF Buf
<1> QED
  BY <1>1 DEF Typed, Untyped

\* An array header: its type, its size behind a type of its own, and the count.
HeaderImage(tag, count, size) ==
  <<tag + ARRAY_TAG>> \o (ScalarImage(TRUE, "uint32", Little(count * size))
                            \o ScalarImage(FALSE, "uint32", Little(count)))

LEMMA HeaderParts ==
  ASSUME NEW tag \in 0..155, NEW count \in Int31, NEW size \in Int31, count * size \in Int31
  PROVE  /\ <<tag + ARRAY_TAG>> \in ByteString /\ tag + ARRAY_TAG \in Byte
         /\ Len(<<tag + ARRAY_TAG>>) = 1
         /\ ScalarImage(TRUE, "uint32", Little(count * size)) \in ByteString
         /\ ScalarImage(FALSE, "uint32", Little(count)) = Little(count)
         /\ Little(count) \in ByteString /\ Little(count * size) \in ByteString
         /\ ScalarImage(TRUE, "uint32", Little(count * size)) \o Little(count) \in ByteString
         /\ HeaderImage(tag, count, size) \in ByteString
<1> DEFINE lower == Little(count)
           upper == Little(count * size)
           first == <<tag + ARRAY_TAG>>
           second == ScalarImage(TRUE, "uint32", upper)
<1>1. first \in ByteString /\ tag + ARRAY_TAG \in Byte /\ Len(first) = 1
  <2>1. tag + ARRAY_TAG \in Byte
    BY DEF ARRAY_TAG, Byte
  <2> QED
    BY <2>1 DEF ByteString
<1>2. lower \in ByteString /\ upper \in ByteString
  BY NumberOfLittle
<1> HIDE DEF lower, upper, first
<1>3. "uint32" \in Scalars
  BY KindsAre
<1>4. ScalarImage(FALSE, "uint32", lower) = lower
  BY <1>2, ConcatEmptySeq DEF ScalarImage, TagOf, ByteString
<1>5. second \in ByteString
  <2>1. <<>> \in ByteString
    BY DEF ByteString
  <2>2. Buf(<<>>, 0, TRUE) \in Buffer /\ Buf(<<>>, 0, TRUE).typed = TRUE
    BY <2>1, BufIs
  <2> QED
    BY <1>2, <1>3, <2>2, ScalarWritten
<1> HIDE DEF second
<1>6. second \o lower \in ByteString /\ first \o (second \o lower) \in ByteString
  BY <1>1, <1>2, <1>5, Associative
<1>7. HeaderImage(tag, count, size) = first \o (second \o lower)
  BY <1>4 DEF HeaderImage, first, second, lower, upper
<1> QED
  BY <1>1, <1>2, <1>4, <1>5, <1>6, <1>7 DEF first, second, lower, upper

LEMMA HeaderWritten ==
  ASSUME NEW tag \in 0..155, NEW count \in Int31, NEW size \in Int31, count * size \in Int31,
         NEW b \in Buffer
  PROVE  WriteArrayHeader(b, tag, count, size) = Write(b, HeaderImage(tag, count, size))
<1> DEFINE first == <<tag + ARRAY_TAG>>
           upper == Little(count * size)
           lower == Little(count)
           second == ScalarImage(TRUE, "uint32", upper)
           head == Write(b, first)
           sized == WriteScalar(Typed(head), "uint32", upper)
           whole == WriteScalar(Untyped(sized), "uint32", lower)
<1>1. /\ first \in ByteString /\ lower \in ByteString /\ upper \in ByteString
      /\ second \in ByteString /\ second \o lower \in ByteString
      /\ ScalarImage(FALSE, "uint32", lower) = lower
      /\ HeaderImage(tag, count, size) = first \o (second \o lower)
  BY HeaderParts DEF HeaderImage
<1>2. "uint32" \in Scalars
  BY KindsAre
<1> HIDE DEF first, upper, lower
<1> DEFINE data == b.data
           n == b.at
           one == n + Len(first)
           two == one + Len(second)
           three == two + Len(lower)
<1>3. /\ data \in ByteString /\ n \in Nat /\ b.typed \in BOOLEAN /\ b = Buf(data, n, b.typed)
  BY BufferIs DEF Buffer
<1> HIDE DEF second, data, n
<1>4. /\ Len(first) \in Nat /\ Len(second) \in Nat /\ Len(lower) \in Nat
      /\ one \in Nat /\ two \in Nat
  BY <1>1, <1>3, LenProperties DEF ByteString
<1> HIDE DEF one, two
<1>5. head = Buf(data \o first, one, b.typed) /\ data \o first \in ByteString
  BY <1>1, <1>3, BufferIs, Associative DEF data, n, one
<1> HIDE DEF head
<1> DEFINE d1 == data \o first
           d2 == d1 \o second
           d3 == d2 \o lower
<1>6. d1 \in ByteString /\ d2 \in ByteString /\ d3 \in ByteString
  BY <1>1, <1>5, Associative
<1>7. d3 = data \o (first \o (second \o lower))
  <2>1. d3 = d1 \o (second \o lower)
    BY <1>1, <1>5, Associative, ZenonT(30)
  <2> DEFINE rest == second \o lower
  <2>2. rest \in ByteString /\ first \in ByteString /\ data \in ByteString
    BY <1>1, <1>3
  <2> HIDE DEF rest
  <2>3. (data \o first) \o rest = data \o (first \o rest)
    BY <2>2, Associative
  <2> QED
    BY <2>1, <2>3 DEF rest
<1> HIDE DEF d1, d2, d3
<1>8. Typed(head) = Buf(d1, one, TRUE)
  BY <1>3, <1>4, <1>5, <1>6, TypedBuffers DEF d1
<1>9. sized = Buf(d2, two, TRUE)
  <2> DEFINE x == Buf(d1, one, TRUE)
  <2>1. x \in Buffer /\ x.data = d1 /\ x.at = one /\ x.typed = TRUE
    BY <1>4, <1>6, BufIs
  <2> HIDE DEF x
  <2>2. WriteScalar(x, "uint32", upper) = Write(x, second)
    BY <1>1, <1>2, <2>1, ScalarWritten DEF second
  <2>3. Write(x, second) = Buf(d1 \o second, one + Len(second), TRUE)
    BY <2>1, BufferIs
  <2> QED
    BY <1>8, <2>2, <2>3 DEF x, d2, two
<1> HIDE DEF sized
<1>10. Untyped(sized) = Buf(d2, two, FALSE)
  BY <1>4, <1>6, <1>9, TypedBuffers
<1>11. whole = Buf(d3, three, FALSE)
  <2> DEFINE x == Buf(d2, two, FALSE)
  <2>1. x \in Buffer /\ x.data = d2 /\ x.at = two /\ x.typed = FALSE
    BY <1>4, <1>6, BufIs
  <2> HIDE DEF x
  <2>2. WriteScalar(x, "uint32", lower) = Write(x, ScalarImage(x.typed, "uint32", lower))
    BY <1>1, <1>2, <2>1, ScalarWritten
  <2>4. ScalarImage(x.typed, "uint32", lower) = lower
    BY <1>1, <2>1
  <2>3. Write(x, lower) = Buf(d2 \o lower, two + Len(lower), FALSE)
    BY <2>1, BufferIs, ZenonT(30)
  <2> QED
    BY <1>10, <2>2, <2>3, <2>4 DEF x, d3
<1>12. three \in Nat
  BY <1>4
<1> HIDE DEF three, whole
<1>13. [whole EXCEPT !.typed = b.typed] = Buf(d3, three, b.typed)
  BY <1>6, <1>11, <1>12, TypedBuffers, ZenonT(30)
<1>14. WriteArrayHeader(b, tag, count, size) = [whole EXCEPT !.typed = b.typed]
  BY DEF WriteArrayHeader, whole, sized, head, lower, upper, first
<1> DEFINE image == first \o (second \o lower)
<1>15. three = n + Len(image)
  BY <1>1, <1>3, <1>4, ConcatProperties DEF ByteString, one, two, three
<1>16. Write(b, image) = Buf(data \o image, n + Len(image), b.typed)
  <2> HIDE DEF image
  <2> QED
    BY BufferIs DEF data, n
<1> QED
  BY <1>1, <1>7, <1>13, <1>14, <1>15, <1>16

\* What is ahead of a buffer that uses types is read back, as far as the size
\* is a multiple of the count.
\* What the reader makes of a header.
HeaderValue(count, size) == IF count = 0 THEN <<0>> ELSE <<count, size>>

LEMMA HeaderRead ==
  ASSUME NEW tag \in 0..155, NEW count \in Int31, NEW size \in Int31, count * size \in Int31,
         count # 0 => (count * size) \div count = size,
         NEW b \in Buffer, b.typed = TRUE, Ahead(b, HeaderImage(tag, count, size))
  PROVE  /\ ReadArrayHeader(b, tag).value = HeaderValue(count, size)
         /\ ReadArrayHeader(b, tag).buffer = Past(b, Len(HeaderImage(tag, count, size)))
<1> DEFINE first == <<tag + ARRAY_TAG>>
           upper == Little(count * size)
           lower == Little(count)
           second == ScalarImage(TRUE, "uint32", upper)
<1>1. /\ first \in ByteString /\ lower \in ByteString /\ upper \in ByteString
      /\ tag + ARRAY_TAG \in Byte
      /\ second \in ByteString /\ second \o lower \in ByteString
      /\ ScalarImage(FALSE, "uint32", lower) = lower
      /\ HeaderImage(tag, count, size) = first \o (second \o lower)
  BY HeaderParts DEF HeaderImage
<1>2. "uint32" \in Scalars /\ Width["uint32"] = 4
  BY KindsAre DEF Width
<1>3. /\ Len(upper) = 4 /\ Number(upper) = count * size
      /\ Len(lower) = 4 /\ Number(lower) = count
  BY NumberOfLittle
<1>4. TagOf(b.typed, tag + ARRAY_TAG) = first
  BY DEF TagOf
<1> HIDE DEF first, upper, lower
<1> DEFINE rest == second \o lower
<1>5. PICK n \in Nat :
         /\ Len(first \o rest) = n + Len(rest)
         /\ ReadDataType(b, tag + ARRAY_TAG).ok
         /\ ReadDataType(b, tag + ARRAY_TAG).buffer = Past(b, n)
         /\ Past(b, n) \in Buffer /\ Past(b, n).typed = b.typed
         /\ Ahead(Past(b, n), rest)
  <2>1. rest \in ByteString
    BY <1>1
  <2> HIDE DEF rest
  <2>2. Ahead(b, TagOf(b.typed, tag + ARRAY_TAG) \o rest)
    BY <1>1, <1>4 DEF rest
  <2> QED
    BY <1>1, <1>4, <2>1, <2>2, TaggedAhead
<1> DEFINE p == Past(b, n)
           m == Len(second)
           q == Past(p, m)
           r == Past(q, 4)
<1>6. p \in Buffer /\ p.typed = TRUE /\ Ahead(p, second \o lower)
  BY <1>5
<1> HIDE DEF p
<1> HIDE DEF second
<1>7. Ahead(p, second) /\ q \in Buffer /\ Ahead(q, lower) /\ m \in Nat
  BY <1>1, <1>6, AheadParts, LenProperties DEF ByteString
<1>8. q.typed = TRUE
  BY <1>6, <1>7, PastPast
<1>9. ReadScalar(p, "uint32") = Advance(p, m, upper)
  <2>1. second = ScalarImage(p.typed, "uint32", upper)
    BY <1>6 DEF second
  <2>2. Ahead(p, ScalarImage(p.typed, "uint32", upper))
    BY <1>7, <2>1
  <2>3. ReadScalar(p, "uint32") = Advance(p, Len(ScalarImage(p.typed, "uint32", upper)), upper)
    BY <1>1, <1>2, <1>3, <1>6, <2>2, ScalarRead
  <2> QED
    BY <2>1, <2>3
<1> DEFINE z == ReadScalar(p, "uint32")
<1>10. z.ok /\ z.value = upper /\ z.buffer = q
  BY <1>9, AdvanceIs
<1> HIDE DEF z, m, q
<1>11. Read(q, 4) = Advance(q, 4, lower)
  BY <1>1, <1>3, <1>7, ReadAhead
<1> DEFINE c == Read(q, 4)
<1>12. c.value = lower /\ c.buffer = r
  BY <1>11, AdvanceIs
<1> HIDE DEF c
<1>13. r \in Buffer /\ r.typed = TRUE
  BY <1>7, <1>8, PastPast
<1>14. Counted(z) = Elements(count * size, c)
  BY <1>3, <1>10 DEF Counted, Then, c
<1>15. Typed(r) = r
  <2>1. r = Buf(r.data, r.at, TRUE) /\ r.data \in ByteString /\ r.at \in Nat
    BY <1>13, BufferIs DEF Buffer
  <2> DEFINE data == r.data  at_ == r.at
  <2> HIDE DEF data, at_
  <2>2. Typed(Buf(data, at_, TRUE)) = Buf(data, at_, TRUE)
    BY <2>1, TypedBuffers DEF data, at_
  <2> QED
    BY <2>1, <2>2 DEF data, at_
<1> HIDE DEF r
<1>16. Elements(count * size, c) = Advance(r, 0, HeaderValue(count, size))
  BY <1>3, <1>12, <1>15 DEF Elements, HeaderValue
<1>17. ReadArrayHeader(b, tag) = Counted(z)
  BY <1>5 DEF ReadArrayHeader, Then, p, z
<1>18. Past(r, 0) = r
  BY <1>13, PastPast
<1>19. r = Past(b, Len(first \o rest))
  <2>1. Len(rest) = m + 4
    <3>1. second \in Seq(Byte) /\ lower \in Seq(Byte)
      BY <1>1 DEF ByteString
    <3>2. Len(second \o lower) = Len(second) + Len(lower)
      BY <3>1, ConcatProperties
    <3> QED
      BY <1>3, <3>2 DEF m
  <2>2. r = Past(p, m + 4)
    BY <1>6, <1>7, PastPast DEF r, q
  <2>3. Past(p, m + 4) = Past(b, n + (m + 4))
    BY <1>7, PastPast DEF p
  <2> QED
    BY <1>5, <2>1, <2>2, <2>3
<1> QED
  BY <1>1, <1>14, <1>16, <1>17, <1>18, <1>19, AdvanceIs

\* Both together, for counts and sizes whose product can be written and divided.
Countable(count, size) ==
  /\ count \in Int31 /\ size \in Int31 /\ count * size \in Int31
  /\ count # 0 => (count * size) \div count = size

LEMMA HeadersComeBack ==
  ASSUME NEW tag \in 0..155, NEW count, NEW size, Countable(count, size), NEW b \in Buffer
  PROVE  /\ HeaderImage(tag, count, size) \in ByteString
         /\ WriteArrayHeader(b, tag, count, size) = Write(b, HeaderImage(tag, count, size))
         /\ \A p \in Buffer : p.typed = TRUE /\ Ahead(p, HeaderImage(tag, count, size)) =>
              /\ ReadArrayHeader(p, tag).value = HeaderValue(count, size)
              /\ ReadArrayHeader(p, tag).buffer = Past(p, Len(HeaderImage(tag, count, size)))
<1>1. /\ count \in Int31 /\ size \in Int31 /\ count * size \in Int31
      /\ count # 0 => (count * size) \div count = size
  BY Zenon DEF Countable
<1>2. HeaderImage(tag, count, size) \in ByteString
  BY <1>1, HeaderParts
<1>3. WriteArrayHeader(b, tag, count, size) = Write(b, HeaderImage(tag, count, size))
  BY <1>1, HeaderWritten
<1>4. ASSUME NEW p \in Buffer, p.typed = TRUE, Ahead(p, HeaderImage(tag, count, size))
      PROVE  /\ ReadArrayHeader(p, tag).value = HeaderValue(count, size)
             /\ ReadArrayHeader(p, tag).buffer = Past(p, Len(HeaderImage(tag, count, size)))
  BY <1>1, <1>4, HeaderRead, ZenonT(30)
<1> QED
  BY <1>2, <1>3, <1>4
=============================================================================
