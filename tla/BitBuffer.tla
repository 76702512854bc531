----------------------------- MODULE BitBuffer ------------------------------
(***************************************************************************)
(* The bit buffer of the authentication messages,                          *)
(* game/demonware/bit_buffer.cpp: values of any number of bits are packed  *)
(* one after the other, lowest bit first, each behind a five-bit type when *)
(* types are used. A writer fills a buffer; it is handed over as a string  *)
(* of bytes, and a reader takes the values out again.                      *)
(***************************************************************************)
EXTENDS Integers, Sequences

CONSTANTS
  Bytes,     \* the bytes, 0..255, values are made of
  Words,     \* the 32-bit values, as four bytes each
  MaxOps     \* bound: values written

ASSUME BytesAssumption == Bytes \subseteq 0..255 /\ Words \subseteq [1..4 -> 0..255]

VARIABLES
  buffer,        \* the bytes
  current_bit_,  \* of the writer
  types,         \* use_data_types_, of both ends
  written,       \* history: the values written
  reader,        \* the reader's current_bit_, or -1 before the handing over
  read           \* history: what its reads have returned

vars == <<buffer, current_bit_, types, written, reader, read>>

\* A value: its kind says the type in front of it and how long it is.
Values == [kind : {"bool"}, data : {<<0>>, <<1>>}]
            \cup [kind : {"int32", "uint32"}, data : Words]
            \cup [kind : {"bytes"}, data : [1..1 -> Bytes] \cup [1..2 -> Bytes]]

\* Mutant of Type: both kinds of integers look alike.
TypeShared(kind) == IF kind = "bool" THEN 1 ELSE 8

Type(kind) == CASE kind = "bool" -> 1 [] kind = "int32" -> 7 [] kind = "uint32" -> 8
HasType(kind) == types /\ kind # "bytes"
Bits(v) == IF v.kind = "bool" THEN 1 ELSE 8 * Len(v.data)

Init ==
  /\ buffer = <<>> /\ current_bit_ = 0 /\ types \in BOOLEAN /\ written = <<>>
  /\ reader = -1 /\ read = <<>>

-----------------------------------------------------------------------------
(* write: each turn of its loop fills the rest of a byte of the buffer from *)
(* two neighbouring bytes of the value.                                    *)

Least(a, b) == IF a < b THEN a ELSE b
Most(a, b) == IF a < b THEN b ELSE a

\* The eight bits of data from bit `from` on, of which `bits` are the value's.
Window(data, bits, from) ==
  LET byte == from \div 8
      next == IF (bits - 1) \div 8 > byte THEN data[byte + 2] ELSE 0
  IN  ((next * 2^(8 - (from % 8))) + (data[byte + 1] \div 2^(from % 8))) % 256

\* n bits of data at pos, between what the byte had below and above.
Merged(old, data, pos, n) ==
  (old % 2^pos) + ((data % 2^n) * 2^pos) + ((old \div 2^(pos + n)) * 2^(pos + n))

\* The loop fills each of the bytes that the value reaches once.
Filled(b, at, data, bits) ==
  [i \in DOMAIN b |->
    LET from == Most(at, 8 * (i - 1))
        n == Least(at + bits, 8 * i) - from
    IN  IF n > 0 THEN Merged(b[i], Window(data, bits, from - at), from % 8, n) ELSE b[i]]

\* The buffer first grows by enough bytes for the value, and one more.
Grown(b, bits) == b \o [i \in 1..((bits \div 8) + 1) |-> 0]
Wrote(b, at, data, bits) == Filled(Grown(b, bits), at, data, bits)

\* write_bool, write_int32, write_uint32 and write_bytes.
WriteValue(v) ==
  /\ reader = -1 /\ Len(written) < MaxOps
  /\ LET tag == IF HasType(v.kind) THEN 5 ELSE 0
         tagged == IF HasType(v.kind) THEN Wrote(buffer, current_bit_, <<Type(v.kind)>>, 5)
                                    ELSE buffer
     IN  /\ buffer' = Wrote(tagged, current_bit_ + tag, v.data, Bits(v))
         /\ current_bit_' = current_bit_ + tag + Bits(v)
  /\ written' = Append(written, v)
  /\ UNCHANGED <<types, reader, read>>

\* Mutant of Size: only full bytes.
SizeDown == current_bit_ \div 8

\* get_buffer cuts the buffer to the bytes in use and hands it over.
Size == (current_bit_ \div 8) + (IF current_bit_ % 8 = 0 THEN 0 ELSE 1)
HandOver ==
  /\ reader = -1
  /\ buffer' = SubSeq(buffer, 1, Size)
  /\ reader' = 0
  /\ UNCHANGED <<current_bit_, types, written, read>>

-----------------------------------------------------------------------------
(* read: up to eight bits a turn, from one byte of the buffer or from two. *)

\* n bits from bit `at` on.
Taken(at, n) ==
  LET low == buffer[(at \div 8) + 1] \div 2^(at % 8)
  IN  IF n + (at % 8) <= 8 THEN low % 2^n
      ELSE low + ((buffer[(at \div 8) + 2] * 2^(8 - (at % 8))) % 2^n)

Fits(at, bits) == at + bits <= 8 * Len(buffer)
Took(at, bits) ==
  [i \in 1..((bits + 7) \div 8) |-> Taken(at + 8 * (i - 1), Least(bits - 8 * (i - 1), 8))]

\* read_bool, read_uint32 and read_bytes: the result, and the bits consumed. A
\* type that does not fit stays where it is, one that differs is consumed.
Result(at, kind, bits) ==
  LET tag == IF HasType(kind) THEN 5 ELSE 0
  IN  IF tag > 0 /\ ~Fits(at, 5) THEN [ok |-> FALSE, data |-> <<>>, used |-> 0]
      ELSE IF tag > 0 /\ Took(at, 5)[1] # Type(kind)
             THEN [ok |-> FALSE, data |-> <<>>, used |-> 5]
      ELSE IF ~Fits(at + tag, bits) THEN [ok |-> FALSE, data |-> <<>>, used |-> tag]
      ELSE [ok |-> TRUE, data |-> Took(at + tag, bits), used |-> tag + bits]

ReadValue(kind, bits) ==
  /\ reader >= 0 /\ Len(read) <= Len(written)
  /\ LET result == Result(reader, kind, bits)
     IN  /\ read' = Append(read, [ok |-> result.ok, data |-> result.data,
                                  kind |-> kind, bits |-> bits])
         /\ reader' = reader + result.used
  /\ UNCHANGED <<buffer, current_bit_, types, written>>

ReadBool == ReadValue("bool", 1)
ReadUint32 == ReadValue("uint32", 32)
ReadBytes == \E n \in 1..2 : ReadValue("bytes", 8 * n)

-----------------------------------------------------------------------------
Next == (\E v \in Values : WriteValue(v)) \/ HandOver \/ ReadBool \/ ReadUint32 \/ ReadBytes
Spec == Init /\ [][Next]_vars

-----------------------------------------------------------------------------
(* Properties.                                                             *)

\* The reader has asked, so far, for values as they were written.
Asked(k) == read[k].kind = written[k].kind /\ read[k].bits = Bits(written[k])
InStep(n) == n <= Len(written) /\ \A k \in 1..n : Asked(k)

\* Whatever the lengths and so the offsets, a reader that asks for the values
\* in the order they were written gets each of them; and when both sides use
\* types, it is told by the first value that it asks for by another type.
ReadsWhatWasWritten ==
  \A n \in 1..Len(read) :
    n <= Len(written) /\ InStep(n - 1) =>
      /\ Asked(n) => read[n].ok /\ read[n].data = written[n].data
      /\ HasType(written[n].kind) /\ HasType(read[n].kind) /\ written[n].kind # read[n].kind
           => ~read[n].ok
=============================================================================
