-------------------------- MODULE ServiceServerMC --------------------------
(***************************************************************************)
(* The service servers, for TLC: what becomes of packets of messages, and  *)
(* how the messages are found in the bytes of a packet. The two share no   *)
(* variable: a behaviour is of one of them while the other stays as it     *)
(* begins.                                                                 *)
(***************************************************************************)
EXTENDS ServiceServer

Storage == 10
Message(type, call) == [kind |-> "message", type |-> type, call |-> call]
Cut(kind) == [kind |-> kind, type |-> 0, call |-> "silent"]

\* A packet for each path through the parse loop and each way one sub-packet
\* can affect the next.
MCPackets == {
  <<>>,
  <<Message(Storage, "reply"), Message(Storage, "silent")>>,
  <<Message(HELLO, "silent"), Message(0, "silent")>>,
  <<Message(Storage, "throw"), Message(Storage, "reply")>>,
  <<Cut("connection"), Message(Storage, "reply")>>,
  <<Message(Storage, "reply"), Cut("empty"), Message(Storage, "reply")>>,
  <<Message(0, "silent"), Cut("overlong"), Message(Storage, "reply")>>,
  <<Message(Storage, "reply"), Cut("trailing")>> }
\* Answered and the end, answered and not the end, the end without an answer.
MCGuesses == {Cut("empty"), Message(0, "silent"), Message(Storage, "throw")}
MCServices == {HELLO, Storage}
MCReadSizes == {1, 3}

\* Up to three messages, some of them shorter than a size field.
MCStreams == UNION {[1..n -> {1, 6}] : n \in 1..3}

VARIABLES
  part,  \* whose behaviour it is: "answers" or "framing"
  messages, span, current, parsing, threw, handled, replies

Framing == INSTANCE PacketFraming WITH
  Streams <- MCStreams, Garbage <- {0, 1, 9, 200, 999}, Connection <- 200,
  MaxReplies <- 4, packet <- span

framingVars == <<messages, span, current, parsing, threw, handled, replies>>

PartsInit ==
  /\ part \in {"answers", "framing"}
  /\ Init /\ Framing!Init
  /\ part = "answers" => messages = <<1>>

PartsNext ==
  \/ part = "answers" /\ Next /\ UNCHANGED <<part, framingVars>>
  \/ part = "framing" /\ Framing!Next /\ UNCHANGED <<part, vars>>

\* The demonware thread goes on.
PartsSpec ==
  /\ PartsInit /\ [][PartsNext]_<<part, vars, framingVars>>
  /\ WF_vars(part = "answers" /\ ServerStep)
  /\ WF_framingVars(part = "framing" /\ Framing!Parse)

-----------------------------------------------------------------------------
(* Properties.                                                             *)

\* Messages that are in a packet as a whole are parsed first and in order, up to
\* one whose handler throws; only a cut packet makes other bytes a message, and
\* the parsing of whole messages ends.
PacketsParsedRight ==
  [](Framing!WholeMessagesFirst /\ Framing!OnlyCutsMislead) /\ Framing!ParsingEnds
=============================================================================
