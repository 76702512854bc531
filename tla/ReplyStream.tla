---------------------------- MODULE ReplyStream ----------------------------
(***************************************************************************)
(* What a demonware service server promises to the game: requests are      *)
(* answered in the order they were accepted, the whole answer to a request *)
(* becomes readable in one step, and the game reads the answers as one     *)
(* byte stream, a few bytes at a time.  ServiceServer implements this      *)
(* specification with two queues, a mutex and a worker thread.             *)
(***************************************************************************)
EXTENDS Integers, Sequences

CONSTANTS
  Requests,     \* the packets the game may send
  Answers(_)    \* Answers(p): the byte strings that answer packet p

VARIABLES
  pending,      \* accepted requests not answered yet, oldest first
  stream        \* bytes of finished answers that nobody has read yet

vars == <<pending, stream>>

Init == pending = <<>> /\ stream = <<>>

Accept(p) ==
  /\ pending' = Append(pending, p)
  /\ UNCHANGED stream

\* The oldest request is answered; its whole answer appears at once.
Answer ==
  /\ pending # <<>>
  /\ \E a \in Answers(Head(pending)) : stream' = stream \o a
  /\ pending' = Tail(pending)

\* n bytes are read off the front of the stream.
Read(n) ==
  /\ stream' = SubSeq(stream, n + 1, Len(stream))
  /\ UNCHANGED pending

Next ==
  \/ \E p \in Requests : Accept(p)
  \/ Answer
  \/ \E n \in 1..Len(stream) : Read(n)

Spec == Init /\ [][Next]_vars
=============================================================================
