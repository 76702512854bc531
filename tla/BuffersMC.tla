----------------------------- MODULE BuffersMC ------------------------------
(***************************************************************************)
(* What values and texts are kept in, for TLC: the ring of formatted texts *)
(* and its allocator, and the buffers of the messages. They share no       *)
(* variable: a behaviour is of one of them while the other stays as it     *)
(* begins.                                                                 *)
(***************************************************************************)
EXTENDS StringPool, Buffers, TLC

\* An empty text, one that fits, and one that needs two doublings.
MCLengths ==
  [s \in {"", "short", "long"} |-> CASE s = "" -> 0 [] s = "short" -> 1 [] s = "long" -> 3]
PoolSymmetry == Permutations(Addresses)

\* Values that are empty, zero, or hold the bytes of types and lengths.
Two(n) == <<[i \in 1..n |-> i], [i \in 1..n |-> 255 * (i % 2)]>>
MCSample ==
  [ bool |-> <<<<0>>, <<1>>>>, int32 |-> Two(4), uint32 |-> Two(4), uint64 |-> Two(8),
    int64 |-> Two(8), float |-> Two(4), string |-> <<<<>>, <<16, 19, 8>>>>,
    blob |-> <<<<>>, <<0, 19, 0, 16>>>>, session |-> Two(8), address |-> Two(6),
    nat_type |-> Two(1) ]

\* No elements, one, and sizes whose product needs one byte and two.
MCHeaders == [count : {0, 1, 3}, size : {2, 300}]

MCBytes == {165, 255}
\* One value of four bytes that differ in both halves.
MCWords == {<<18, 164, 90, 231>>}

VARIABLE part  \* whose behaviour it is: the "pool"'s, or of "messages"

messagesVars == <<vars, bits, bytes>>

PartsInit ==
  /\ part \in {"pool", "messages"}
  /\ PoolInit /\ BuffersInit
  /\ part = "pool" => bits /\ types

PartsNext ==
  \/ part = "pool" /\ PoolNext /\ UNCHANGED <<part, messagesVars>>
  \/ part = "messages" /\ BuffersNext /\ UNCHANGED <<part, poolVars>>

PartsSpec == PartsInit /\ [][PartsNext]_<<part, poolVars, messagesVars>>

-----------------------------------------------------------------------------
(* Properties.                                                             *)

\* A reader that asks for what was written gets it: values from a bit buffer,
\* objects and array headers from a byte buffer.
WrittenIsRead == ReadsWhatWasWritten /\ ObjectsArrive
=============================================================================
