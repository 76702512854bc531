------------------------ MODULE ServiceServerProofs ------------------------
(***************************************************************************)
(* Proofs about ServiceServer, for every set of readers, packets, services *)
(* and sizes: the server is an abstract stream of whole answers, in order  *)
(* and at once, and each of them is byte for byte what the sub-packets of  *)
(* its request call for. Below that, the parser finds the messages in the  *)
(* bytes of a packet, however they are cut.                                *)
(*                                                                         *)
(* Of a flattened sequence, and of the sum of the messages' lengths, the   *)
(* few facts needed are proved by induction, which for a set of numbers is *)
(* the existence of a least one outside of it.                             *)
(***************************************************************************)
EXTENDS ServiceServer, FiniteSetTheorems, SequenceTheorems, WellFoundedInduction, TLAPS

-----------------------------------------------------------------------------
(* Lemmas about the operators.                                             *)

\* Taking n bytes off the front of a byte string leaves a byte string.
LEMMA RestOfSeq ==
  ASSUME NEW S, NEW s \in Seq(S), NEW n \in 0..Len(s)
  PROVE  /\ Rest(s, n) \in Seq(S)
         /\ Len(Rest(s, n)) = Len(s) - n
         /\ \A i \in 1..(Len(s) - n) : Rest(s, n)[i] = s[i + n]
<1>1. Len(s) \in Nat
  BY LenProperties
<1>2. \A i \in (n + 1)..Len(s) : s[i] \in S
  BY <1>1, ElementOfSeq
<1>3. QED
  BY <1>1, <1>2, SubSeqProperties DEF Rest

\* The bytes of a reply are a byte string, all of that reply.
LEMMA BytesOfReply ==
  ASSUME NEW r \in Reply
  PROVE  /\ Bytes(r) \in Seq(Byte)
         /\ Len(Bytes(r)) = ReplySize
         /\ \A i \in 1..ReplySize : Bytes(r)[i] = [reply |-> r, at |-> i]
<1>1. \A i \in 1..ReplySize : [reply |-> r, at |-> i] \in Byte
  BY DEF Byte
<1>2. Bytes(r) \in [1..ReplySize -> Byte]
  BY <1>1 DEF Bytes
<1>3. QED
  BY <1>2, SizesAssumption DEF Bytes

\* What one recv can take is between nothing and everything.
LEMMA LowestBounds ==
  ASSUME NEW a \in Nat, NEW b \in Nat
  PROVE  /\ Lowest(a, b) \in 0..b
         /\ a # 0 /\ b # 0 => Lowest(a, b) # 0
BY DEF Lowest

-----------------------------------------------------------------------------
(* The type invariant.                                                     *)

\* A sub-packet is only handled while there is one.
InPacket == server \in {"handle", "settle"} => at \in 1..Len(packet)

LEMMA InitType == Init => TypeOK /\ InPacket
<1> SUFFICES ASSUME Init PROVE TypeOK /\ InPacket
  OBVIOUS
<1>1. /\ incoming \in Seq(Packet) /\ packet \in Packet /\ log \in Seq(Packet)
      /\ taken \in Packet
      /\ outgoing \in Seq(Byte) /\ finished \in Seq(Byte) /\ answer \in Seq(Byte)
  BY EmptySeq DEF Init, Packet
<1>2. /\ reader \in [Readers -> {"idle", "waiting"}]
      /\ asked \in [Readers -> Nat]
      /\ got \in [Readers -> Nat \cup {-1}]
  BY DEF Init
<1>3. InPacket /\ mutex = "none" /\ server = "idle" /\ reply_sent = FALSE /\ at = 1 /\ done = 0
  BY DEF Init, InPacket
<1>4. reply_sent \in BOOLEAN
  BY <1>3, Zenon
<1>5. QED
  BY <1>1, <1>2, <1>3, <1>4 DEF TypeOK, Places

LEMMA SendReplyType ==
  ASSUME TypeOK, NEW form \in Forms, SendReply(form)
  PROVE  /\ reply_sent' \in BOOLEAN
         /\ outgoing' \in Seq(Byte)
         /\ answer' \in Seq(Byte)
<1> DEFINE r == [packet |-> done + 1, sub |-> at, form |-> form]
<1>1. r \in Reply
  BY DEF TypeOK, Reply
<1>2. Bytes(r) \in Seq(Byte)
  BY <1>1, BytesOfReply
<1>3. outgoing' = outgoing \o Bytes(r) /\ answer' = answer \o Bytes(r)
  BY DEF SendReply
<1>4. outgoing' \in Seq(Byte) /\ answer' \in Seq(Byte)
  BY <1>2, <1>3, ConcatProperties DEF TypeOK
<1>5. QED
  BY <1>4 DEF SendReply

\* Trailing bytes that are read are a sub-packet, and may leave some behind it.
LEMMA ReadTrailingType ==
  ASSUME TypeOK, ReadTrailing
  PROVE  packet' \in Packet
<1>1. PICK m \in Guesses :
        \/ packet' = [packet EXCEPT ![at] = m]
        \/ packet' = Append([packet EXCEPT ![at] = m], Trailing)
  BY DEF ReadTrailing
<1>2. m \in SubPacket /\ Trailing \in SubPacket
  BY PacketsAssumption DEF Trailing, SubPacket, Kinds, Calls
<1>3. packet \in Seq(SubPacket) /\ at \in 1..Len(packet)
  BY LenProperties DEF TypeOK, Packet, ReadTrailing, Parsing
<1>4. [packet EXCEPT ![at] = m] \in Seq(SubPacket)
  BY <1>2, <1>3
<1>5. Append([packet EXCEPT ![at] = m], Trailing) \in Seq(SubPacket)
  BY <1>2, <1>4, AppendProperties
<1> QED
  BY <1>1, <1>4, <1>5 DEF Packet

LEMMA NextType == TypeOK /\ InPacket /\ [Next]_vars => TypeOK' /\ InPacket'
<1> SUFFICES ASSUME TypeOK, InPacket, [Next]_vars
             PROVE  TypeOK' /\ InPacket'
  OBVIOUS
<1>1. ASSUME NEW p \in Packets, Send(p)
      PROVE  TypeOK' /\ InPacket'
  <2>1. p \in Packet
    BY PacketsAssumption
  <2>2. incoming' \in Seq(Packet) /\ log' \in Seq(Packet)
    BY <1>1, <2>1 DEF Send, TypeOK
  <2>3. QED
    BY <1>1, <2>2 DEF Send, TypeOK, InPacket, serverVars, readerVars
<1>2. ASSUME NEW r \in Readers, NEW n \in ReadSizes, RecvTest(r, n)
      PROVE  TypeOK' /\ InPacket'
  <2>1. n \in Nat \ {0}
    BY SizesAssumption
  <2>2. QED
    BY <1>2, <2>1 DEF RecvTest, TypeOK, InPacket, serverVars
<1>3. ASSUME NEW r \in Readers, RecvPop(r)
      PROVE  TypeOK' /\ InPacket'
  <2> DEFINE n == Lowest(asked[r], Len(outgoing))
  <2>1. Len(outgoing) \in Nat /\ Len(finished) \in Nat /\ asked[r] \in Nat
    BY LenProperties DEF TypeOK
  <2>2. n \in 0..Len(outgoing)
    BY <2>1, LowestBounds
  <2>3. outgoing' \in Seq(Byte)
    BY <1>3, <2>2, RestOfSeq DEF RecvPop, TypeOK
  <2>4. \A i \in (n + 1)..Len(finished) : finished[i] \in Byte
    BY <2>1, <2>2, ElementOfSeq DEF TypeOK
  <2>5. finished' \in Seq(Byte)
    BY <1>3, <2>1, <2>2, <2>4, SubSeqProperties DEF RecvPop, Rest
  <2>6. QED
    BY <1>3, <2>2, <2>3, <2>5 DEF RecvPop, TypeOK, InPacket, serverVars
<1>4. CASE RunFrame
  <2>1. packet' \in Packet /\ taken' \in Packet /\ incoming' \in Seq(Packet)
    BY <1>4, HeadTailProperties DEF RunFrame, TypeOK
  <2>2. QED
    BY <1>4, <2>1 DEF RunFrame, TypeOK, InPacket, Places, readerVars
<1>5. CASE ParseEmpty
  BY <1>5, SendReplyType
  DEF ParseEmpty, Forms, ParseUnchanged, LoopUnchanged, TypeOK, InPacket, Places, readerVars
<1>6. CASE ParseConnection
  BY <1>6, SendReplyType
  DEF ParseConnection, Forms, ParseUnchanged, LoopUnchanged, TypeOK, InPacket, Places, readerVars
<1>7. CASE ParseOverlong
  BY <1>7 DEF ParseOverlong, NoReply, ParseUnchanged, LoopUnchanged, TypeOK, InPacket, Places, readerVars
<1>8. CASE ParseMessage
  <2>1. Len(packet) \in Nat
    BY LenProperties DEF TypeOK, Packet
  <2>2. InPacket'
    BY <1>8, <2>1 DEF ParseMessage, Parsing, ParseUnchanged, LoopUnchanged, TypeOK, InPacket
  <2>3. reply_sent' \in BOOLEAN
    BY <1>8, Zenon DEF ParseMessage
  <2>4. QED
    BY <1>8, <2>2, <2>3 DEF ParseMessage, ParseUnchanged, LoopUnchanged, TypeOK, Places, readerVars
<1>9. CASE ParseEnd
  BY <1>9 DEF ParseEnd, NoReply, ParseUnchanged, LoopUnchanged, TypeOK, InPacket, Places, readerVars
<1>10. CASE CallHandler
  <2>1. reply_sent' \in BOOLEAN /\ outgoing' \in Seq(Byte) /\ answer' \in Seq(Byte)
    <3>1. CASE SendReply("service")
      BY <3>1, SendReplyType DEF Forms
    <3>2. CASE NoReply
      BY <3>2 DEF NoReply, TypeOK
    <3>3. QED
      BY <1>10, <3>1, <3>2 DEF CallHandler
  <2>2. QED
    BY <1>10, <2>1 DEF CallHandler, ParseUnchanged, LoopUnchanged, TypeOK, InPacket, Places, readerVars
<1>11. CASE Settle
  <2>1. reply_sent' \in BOOLEAN /\ outgoing' \in Seq(Byte) /\ answer' \in Seq(Byte)
    <3>1. CASE SendReply("default")
      BY <3>1, SendReplyType DEF Forms
    <3>2. CASE NoReply
      BY <3>2 DEF NoReply, TypeOK
    <3>3. QED
      BY <1>11, <3>1, <3>2 DEF Settle
  <2>2. QED
    BY <1>11, <2>1 DEF Settle, ParseUnchanged, LoopUnchanged, TypeOK, InPacket, Places, readerVars
<1>12. CASE FrameDone
  <2>1. finished' \in Seq(Byte) /\ answer' \in Seq(Byte)
    BY <1>12, ConcatProperties, EmptySeq DEF FrameDone, TypeOK
  <2>2. QED
    BY <1>12, <2>1 DEF FrameDone, TypeOK, InPacket, Places, readerVars
<1>13. CASE ReadTrailing
  <2>1. packet' \in Packet
    BY <1>13, ReadTrailingType
  <2>2. QED
    BY <1>13, <2>1
    DEF ReadTrailing, Parsing, NoReply, LoopUnchanged, TypeOK, InPacket, Places, readerVars
<1>14. CASE ReadAgain
  <2>1. reply_sent' \in BOOLEAN
    BY <1>14, Zenon DEF ReadAgain
  <2>2. QED
    BY <1>14, <2>1
    DEF ReadAgain, Parsing, ParseUnchanged, LoopUnchanged, TypeOK, InPacket, Places, readerVars
<1>15. CASE UNCHANGED vars
  BY <1>15 DEF vars, serverVars, readerVars, TypeOK, InPacket
<1>16. QED
  BY <1>1, <1>2, <1>3, <1>4, <1>5, <1>6, <1>7, <1>8, <1>9, <1>10, <1>11, <1>12, <1>13, <1>14,
     <1>15
  DEF Next, ServerStep

\* Every variable of the server and of its readers keeps its type.
THEOREM TypeCorrect == Spec => [](TypeOK /\ InPacket)
BY InitType, NextType, PTL DEF Spec

-----------------------------------------------------------------------------
(* Answers stay whole. The strengthening says what the mutex is for: the   *)
(* demonware thread holds it from taking a packet to finishing its answer, *)
(* so readers, who need it, only ever pop finished answers.                *)

MutexHeld ==
  /\ mutex = "none" <=> server = "idle"
  /\ server = "idle" => answer = <<>>

WholeInv == TypeOK /\ InPacket /\ MutexHeld /\ AnswersStayWhole

\* Pushing a reply extends the answer in progress and nothing else.
LEMMA SendReplyWhole ==
  ASSUME TypeOK, AnswersStayWhole, NEW form \in Forms, SendReply(form), UNCHANGED finished
  PROVE  AnswersStayWhole'
<1> DEFINE r == [packet |-> done + 1, sub |-> at, form |-> form]
<1>1. Bytes(r) \in Seq(Byte)
  <2>1. r \in Reply
    BY DEF TypeOK, Reply
  <2>2. QED
    BY <2>1, BytesOfReply
<1>2. outgoing' = (finished \o answer) \o Bytes(r) /\ answer' = answer \o Bytes(r)
  BY DEF SendReply, AnswersStayWhole
<1>3. (finished \o answer) \o Bytes(r) = finished \o (answer \o Bytes(r))
  <2>1. finished \in Seq(Byte) /\ answer \in Seq(Byte)
    BY DEF TypeOK
  <2>2. ASSUME NEW b \in Seq(Byte)
        PROVE  (finished \o answer) \o b = finished \o (answer \o b)
    BY <2>1, ConcatAssociative, SMTT(30)
  <2>3. QED
    BY <1>1, <2>2
<1>4. QED
  BY <1>2, <1>3 DEF AnswersStayWhole

LEMMA InitWhole == Init => WholeInv
<1> SUFFICES ASSUME Init PROVE WholeInv
  OBVIOUS
<1>1. TypeOK /\ InPacket
  BY InitType
<1>2. <<>> \o <<>> = <<>>
  BY EmptySeq, ConcatEmptySeq
<1>3. AnswersStayWhole
  BY <1>2 DEF Init, AnswersStayWhole
<1>4. QED
  BY <1>1, <1>3 DEF WholeInv, Init, MutexHeld

LEMMA NextWhole == WholeInv /\ [Next]_vars => WholeInv'
<1> SUFFICES ASSUME WholeInv, [Next]_vars
             PROVE  MutexHeld' /\ AnswersStayWhole'
  BY NextType DEF WholeInv
<1> USE DEF WholeInv
<1>1. ASSUME NEW p \in Packets, Send(p)
      PROVE  MutexHeld' /\ AnswersStayWhole'
  BY <1>1 DEF Send, serverVars, MutexHeld, AnswersStayWhole
<1>2. ASSUME NEW r \in Readers, NEW n \in ReadSizes, RecvTest(r, n)
      PROVE  MutexHeld' /\ AnswersStayWhole'
  BY <1>2 DEF RecvTest, serverVars, MutexHeld, AnswersStayWhole
<1>3. ASSUME NEW r \in Readers, RecvPop(r)
      PROVE  MutexHeld' /\ AnswersStayWhole'
  <2>1. MutexHeld'
    BY <1>3 DEF RecvPop, serverVars, MutexHeld
  <2>2. answer = <<>> /\ answer' = <<>>
    BY <1>3 DEF RecvPop, MutexHeld
  <2>3. outgoing = finished
    BY <2>2, ConcatEmptySeq DEF AnswersStayWhole, TypeOK
  <2>4. outgoing' = finished'
    BY <1>3, <2>3 DEF RecvPop
  <2>5. finished' \in Seq(Byte)
    BY NextType DEF TypeOK
  <2>6. finished' \o answer' = finished'
    BY <2>2, <2>5, ConcatEmptySeq
  <2>7. QED
    BY <2>1, <2>4, <2>6 DEF AnswersStayWhole
<1>4. CASE RunFrame
  BY <1>4 DEF RunFrame, MutexHeld, AnswersStayWhole
<1>5. CASE ParseEmpty
  <2>1. AnswersStayWhole'
    BY <1>5, SendReplyWhole DEF ParseEmpty, ParseUnchanged, LoopUnchanged, Forms
  <2>2. QED
    BY <1>5, <2>1 DEF ParseEmpty, Parsing, ParseUnchanged, LoopUnchanged, MutexHeld
<1>6. CASE ParseConnection
  <2>1. AnswersStayWhole'
    BY <1>6, SendReplyWhole DEF ParseConnection, ParseUnchanged, LoopUnchanged, Forms
  <2>2. QED
    BY <1>6, <2>1 DEF ParseConnection, Parsing, ParseUnchanged, LoopUnchanged, MutexHeld
<1>7. CASE ParseOverlong
  BY <1>7 DEF ParseOverlong, Parsing, NoReply, ParseUnchanged, LoopUnchanged, MutexHeld, AnswersStayWhole
<1>8. CASE ParseMessage
  BY <1>8 DEF ParseMessage, Parsing, ParseUnchanged, LoopUnchanged, MutexHeld, AnswersStayWhole
<1>9. CASE ParseEnd
  BY <1>9 DEF ParseEnd, NoReply, ParseUnchanged, LoopUnchanged, MutexHeld, AnswersStayWhole
<1>10. CASE CallHandler
  <2>1. AnswersStayWhole'
    <3>1. CASE SendReply("service")
      BY <1>10, <3>1, SendReplyWhole DEF CallHandler, ParseUnchanged, LoopUnchanged, Forms
    <3>2. CASE NoReply
      BY <1>10, <3>2 DEF CallHandler, NoReply, ParseUnchanged, LoopUnchanged, AnswersStayWhole
    <3>3. QED
      BY <1>10, <3>1, <3>2 DEF CallHandler
  <2>2. QED
    BY <1>10, <2>1 DEF CallHandler, ParseUnchanged, LoopUnchanged, MutexHeld
<1>11. CASE Settle
  <2>1. AnswersStayWhole'
    <3>1. CASE SendReply("default")
      BY <1>11, <3>1, SendReplyWhole DEF Settle, ParseUnchanged, LoopUnchanged, Forms
    <3>2. CASE NoReply
      BY <1>11, <3>2 DEF Settle, NoReply, ParseUnchanged, LoopUnchanged, AnswersStayWhole
    <3>3. QED
      BY <1>11, <3>1, <3>2 DEF Settle
  <2>2. QED
    BY <1>11, <2>1 DEF Settle, ParseUnchanged, LoopUnchanged, MutexHeld
<1>12. CASE FrameDone
  <2>1. outgoing' = finished' /\ answer' = <<>>
    BY <1>12 DEF FrameDone, AnswersStayWhole
  <2>2. finished' \in Seq(Byte)
    BY NextType DEF TypeOK
  <2>3. AnswersStayWhole'
    BY <2>1, <2>2, ConcatEmptySeq DEF AnswersStayWhole
  <2>4. QED
    BY <1>12, <2>3 DEF FrameDone, MutexHeld
<1>13. CASE ReadTrailing \/ ReadAgain
  BY <1>13 DEF ReadTrailing, ReadAgain, Parsing, NoReply, ParseUnchanged, LoopUnchanged, MutexHeld,
               AnswersStayWhole
<1>14. CASE UNCHANGED vars
  BY <1>14 DEF vars, serverVars, readerVars, MutexHeld, AnswersStayWhole
<1>15. QED
  BY <1>1, <1>2, <1>3, <1>4, <1>5, <1>6, <1>7, <1>8, <1>9, <1>10, <1>11, <1>12, <1>13, <1>14
  DEF Next, ServerStep

LEMMA WholeInvariant == Spec => []WholeInv
BY InitWhole, NextWhole, PTL DEF Spec

\* No reader ever takes a byte of an answer that is still being written,
\* although recv tests the queue without the lock.
THEOREM AnswersWhole == Spec => []AnswersStayWhole
<1>1. WholeInv => AnswersStayWhole
  BY DEF WholeInv
<1>2. QED
  BY <1>1, WholeInvariant, PTL

-----------------------------------------------------------------------------
(* A lone reader never gets 0: between its test and its pop only the       *)
(* demonware thread touches the queue, and that thread only pushes.        *)

Alone(r) == \A q \in Readers \ {r} : asked[q] = 0
LoneInv ==
  /\ WholeInv
  /\ \A r \in Readers : reader[r] = "waiting" => asked[r] # 0
  /\ \A r \in Readers :
       Alone(r) => got[r] # 0 /\ (reader[r] = "waiting" => outgoing # <<>>)

\* A push never empties the queue.
LEMMA SendReplyGrows ==
  ASSUME TypeOK, NEW form \in Forms, SendReply(form)
  PROVE  outgoing' # <<>>
<1> DEFINE r == [packet |-> done + 1, sub |-> at, form |-> form]
<1>1. Bytes(r) \in Seq(Byte) /\ Len(Bytes(r)) = ReplySize
  <2>1. r \in Reply
    BY DEF TypeOK, Reply
  <2>2. QED
    BY <2>1, BytesOfReply
<1>2. Len(outgoing') = Len(outgoing) + ReplySize
  BY <1>1, ConcatProperties DEF SendReply, TypeOK
<1>3. QED
  BY <1>2, LenProperties, SizesAssumption DEF TypeOK

\* A thread in recv has said how much it wants.
LEMMA NextAsked ==
  ASSUME LoneInv, [Next]_vars, NEW r \in Readers
  PROVE  reader'[r] = "waiting" => asked'[r] # 0
<1>1. TypeOK /\ (reader[r] = "waiting" => asked[r] # 0)
  BY DEF LoneInv, WholeInv
<1>2. ASSUME NEW p \in Packets, Send(p)
      PROVE  reader'[r] = "waiting" => asked'[r] # 0
  BY <1>1, <1>2 DEF Send, readerVars
<1>3. ASSUME NEW q \in Readers, NEW n \in ReadSizes, RecvTest(q, n)
      PROVE  reader'[r] = "waiting" => asked'[r] # 0
  BY <1>1, <1>3, SizesAssumption DEF RecvTest, TypeOK
<1>4. ASSUME NEW q \in Readers, RecvPop(q)
      PROVE  reader'[r] = "waiting" => asked'[r] # 0
  BY <1>1, <1>4 DEF RecvPop, TypeOK
<1>5. CASE ServerStep
  BY <1>1, <1>5 DEF ServerStep, RunFrame, ParseEmpty, ParseConnection, ParseOverlong, ParseMessage,
                ParseEnd, ReadTrailing, ReadAgain, CallHandler, Settle, FrameDone,
                NoReply, ParseUnchanged, LoopUnchanged, readerVars
<1>6. CASE UNCHANGED vars
  BY <1>1, <1>6 DEF vars, readerVars
<1>7. QED
  BY <1>2, <1>3, <1>4, <1>5, <1>6 DEF Next

LEMMA NextLone == LoneInv /\ [Next]_vars => LoneInv'
<1> SUFFICES ASSUME LoneInv, [Next]_vars, NEW r \in Readers, Alone(r)'
             PROVE  got'[r] # 0 /\ (reader'[r] = "waiting" => outgoing' # <<>>)
  BY NextWhole, NextAsked DEF LoneInv
<1>0. TypeOK /\ \A q \in Readers : reader[q] = "waiting" => asked[q] # 0
  BY DEF LoneInv, WholeInv
<1>a. Alone(r)
  <2>1. CASE asked' = asked
    BY <2>1 DEF Alone
  <2>2. CASE \E q \in Readers, n \in ReadSizes : RecvTest(q, n)
    BY <1>0, <2>2, SizesAssumption DEF RecvTest, TypeOK, Alone
  <2>3. asked' = asked \/ \E q \in Readers, n \in ReadSizes : RecvTest(q, n)
    BY DEF Next, vars, Send, RecvPop, ServerStep, RunFrame, ParseEmpty, ParseConnection,
           ParseOverlong, ParseMessage, ParseEnd, ReadTrailing, ReadAgain, CallHandler,
           Settle, FrameDone, NoReply, ParseUnchanged, LoopUnchanged, readerVars
  <2>4. QED
    BY <2>1, <2>2, <2>3
<1>1. TypeOK /\ got[r] # 0 /\ (reader[r] = "waiting" => outgoing # <<>>)
  BY <1>a DEF LoneInv, WholeInv
<1>2. ASSUME NEW p \in Packets, Send(p)
      PROVE  got'[r] # 0 /\ (reader'[r] = "waiting" => outgoing' # <<>>)
  BY <1>1, <1>2 DEF Send, readerVars
<1>3. ASSUME NEW q \in Readers, NEW n \in ReadSizes, RecvTest(q, n)
      PROVE  got'[r] # 0 /\ (reader'[r] = "waiting" => outgoing' # <<>>)
  BY <1>1, <1>3 DEF RecvTest, TypeOK
<1>4. ASSUME NEW q \in Readers, RecvPop(q)
      PROVE  got'[r] # 0 /\ (reader'[r] = "waiting" => outgoing' # <<>>)
  <2>1. q = r
    BY <1>0, <1>4, <1>a DEF RecvPop, Alone
  <2>2. asked[r] \in Nat \ {0} /\ Len(outgoing) \in Nat \ {0}
    BY <1>0, <1>1, <1>4, <2>1, EmptySeq DEF RecvPop, TypeOK
  <2>3. Lowest(asked[r], Len(outgoing)) # 0
    BY <2>2, LowestBounds
  <2>4. QED
    BY <1>1, <1>4, <2>1, <2>3 DEF RecvPop, TypeOK
<1>5. CASE ServerStep
  <2>1. got' = got /\ reader' = reader
    BY <1>5 DEF ServerStep, RunFrame, ParseEmpty, ParseConnection, ParseOverlong, ParseMessage,
                ParseEnd, ReadTrailing, ReadAgain, CallHandler, Settle, FrameDone,
                NoReply, ParseUnchanged, LoopUnchanged, readerVars
  <2>2. outgoing' = outgoing \/ \E form \in Forms : SendReply(form)
    BY <1>5 DEF ServerStep, RunFrame, ParseEmpty, ParseConnection, ParseOverlong, ParseMessage,
                ParseEnd, ReadTrailing, ReadAgain, CallHandler, Settle, FrameDone, NoReply, Forms
  <2>3. outgoing # <<>> => outgoing' # <<>>
    BY <1>1, <2>2, SendReplyGrows
  <2>4. QED
    BY <1>1, <2>1, <2>3
<1>6. CASE UNCHANGED vars
  BY <1>1, <1>6 DEF vars, readerVars
<1>7. QED
  BY <1>2, <1>3, <1>4, <1>5, <1>6 DEF Next

\* A game thread is never told 0 unless another one has read from the server.
THEOREM LoneReader == Spec => []LoneReaderNeverEmpty
<1>1. Init => LoneInv
  <2> SUFFICES ASSUME Init PROVE LoneInv
    OBVIOUS
  <2>1. WholeInv
    BY InitWhole
  <2>2. ASSUME NEW r \in Readers
        PROVE  /\ got[r] # 0 /\ (reader[r] = "waiting" => outgoing # <<>>)
               /\ reader[r] = "waiting" => asked[r] # 0
    BY DEF Init
  <2>3. QED
    BY <2>1, <2>2, Zenon DEF LoneInv
<1>2. LoneInv => LoneReaderNeverEmpty
  BY DEF LoneInv, LoneReaderNeverEmpty, Alone
<1>3. QED
  BY <1>1, <1>2, NextLone, PTL DEF Spec

-----------------------------------------------------------------------------
(* The server implements ReplyStream: packets are answered one at a time,  *)
(* in order, and an answer becomes readable in one step.                   *)

NumberedPacket == [no : Nat \ {0}, packet : Packet]

LEMMA NumberedProperties ==
  ASSUME NEW d \in Nat, NEW s \in Seq(Packet)
  PROVE  /\ NumberedFrom(d, s) \in Seq(NumberedPacket)
         /\ Len(NumberedFrom(d, s)) = Len(s)
         /\ \A i \in 1..Len(s) :
              NumberedFrom(d, s)[i] = [no |-> d + i, packet |-> s[i]]
<1>1. Len(s) \in Nat
  BY LenProperties
<1>2. \A i \in 1..Len(s) : [no |-> d + i, packet |-> s[i]] \in NumberedPacket
  BY <1>1, ElementOfSeq DEF NumberedPacket
<1>3. NumberedFrom(d, s) \in [1..Len(s) -> NumberedPacket]
  BY <1>2 DEF NumberedFrom
<1>4. QED
  BY <1>1, <1>3 DEF NumberedFrom

\* Accepting a packet puts it, with the next number, behind the others.
LEMMA NumberedAppend ==
  ASSUME NEW d \in Nat, NEW s \in Seq(Packet), NEW p \in Packet
  PROVE  NumberedFrom(d, Append(s, p))
           = Append(NumberedFrom(d, s), [no |-> d + Len(s) + 1, packet |-> p])
<1> DEFINE new == [no |-> d + Len(s) + 1, packet |-> p]
           left == NumberedFrom(d, Append(s, p))
           right == Append(NumberedFrom(d, s), new)
<1>1. Len(s) \in Nat
  BY LenProperties
<1>2. /\ Append(s, p) \in Seq(Packet) /\ Len(Append(s, p)) = Len(s) + 1
      /\ \A i \in 1..Len(s) : Append(s, p)[i] = s[i]
      /\ Append(s, p)[Len(s) + 1] = p
  BY <1>1
<1>3. /\ left \in Seq(NumberedPacket) /\ Len(left) = Len(s) + 1
      /\ \A i \in 1..(Len(s) + 1) : left[i] = [no |-> d + i, packet |-> Append(s, p)[i]]
  BY <1>2, NumberedProperties
<1>4. new \in NumberedPacket
  BY <1>1 DEF NumberedPacket
<1>5. /\ NumberedFrom(d, s) \in Seq(NumberedPacket)
      /\ Len(NumberedFrom(d, s)) = Len(s)
      /\ \A i \in 1..Len(s) : NumberedFrom(d, s)[i] = [no |-> d + i, packet |-> s[i]]
  BY NumberedProperties
<1>6. /\ right \in Seq(NumberedPacket) /\ Len(right) = Len(s) + 1
      /\ \A i \in 1..Len(s) : right[i] = NumberedFrom(d, s)[i]
      /\ right[Len(s) + 1] = new
  BY <1>1, <1>4, <1>5
<1> HIDE DEF left, right, new
<1>7. \A i \in 1..Len(left) : left[i] = right[i]
  <2> TAKE i \in 1..Len(left)
  <2>1. CASE i \in 1..Len(s)
    BY <1>2, <1>3, <1>5, <1>6, <2>1
  <2>2. CASE i = Len(s) + 1
    BY <1>1, <1>2, <1>3, <1>6, <2>2 DEF new
  <2>3. QED
    BY <1>1, <1>3, <2>1, <2>2
<1>8. left = right
  BY <1>3, <1>6, <1>7, SeqEqual
<1>9. QED
  BY <1>8 DEF left, right, new

\* Finishing the oldest packet leaves the others with their numbers.
LEMMA NumberedTail ==
  ASSUME NEW d \in Nat, NEW s \in Seq(Packet), s # <<>>
  PROVE  /\ NumberedFrom(d, s) # <<>>
         /\ Head(NumberedFrom(d, s)) = [no |-> d + 1, packet |-> Head(s)]
         /\ Tail(NumberedFrom(d, s)) = NumberedFrom(d + 1, Tail(s))
<1> DEFINE all == NumberedFrom(d, s)
           left == Tail(all)
           right == NumberedFrom(d + 1, Tail(s))
<1>1. Len(s) \in Nat \ {0}
  BY EmptySeq
<1>2. /\ Tail(s) \in Seq(Packet) /\ Len(Tail(s)) = Len(s) - 1
      /\ \A i \in 1..Len(Tail(s)) : Tail(s)[i] = s[i + 1]
  BY HeadTailProperties
<1>3. /\ all \in Seq(NumberedPacket) /\ Len(all) = Len(s)
      /\ \A i \in 1..Len(s) : all[i] = [no |-> d + i, packet |-> s[i]]
  BY NumberedProperties
<1> HIDE DEF all
<1>4. all # <<>>
  BY <1>1, <1>3, EmptySeq
<1>5. Head(all) = [no |-> d + 1, packet |-> Head(s)]
  <2>1. all[1] = [no |-> d + 1, packet |-> s[1]]
    BY <1>1, <1>3
  <2>2. QED
    BY <2>1, <1>3, <1>4
<1>6. /\ left \in Seq(NumberedPacket) /\ Len(left) = Len(s) - 1
      /\ \A i \in 1..Len(left) : left[i] = all[i + 1]
  BY <1>3, <1>4, HeadTailProperties
<1>7. /\ right \in Seq(NumberedPacket) /\ Len(right) = Len(s) - 1
      /\ \A i \in 1..Len(right) : right[i] = [no |-> d + 1 + i, packet |-> Tail(s)[i]]
  <2>1. d + 1 \in Nat
    OBVIOUS
  <2>2. QED
    BY <1>2, <2>1, NumberedProperties
<1> HIDE DEF left, right
<1>8. \A i \in 1..Len(left) : left[i] = right[i]
  <2> TAKE i \in 1..Len(left)
  <2>1. /\ i \in 1..Len(Tail(s)) /\ i \in 1..Len(right)
        /\ i + 1 \in 1..Len(s) /\ d + (i + 1) = d + 1 + i
    BY <1>1, <1>2, <1>6, <1>7
  <2>2. left[i] = [no |-> d + (i + 1), packet |-> s[i + 1]]
    BY <1>3, <1>6, <2>1
  <2>3. right[i] = [no |-> d + 1 + i, packet |-> s[i + 1]]
    BY <1>2, <1>7, <2>1
  <2>4. QED
    BY <2>1, <2>2, <2>3
<1>9. left = right
  BY <1>6, <1>7, <1>8, SeqEqual
<1>10. QED
  BY <1>4, <1>5, <1>9 DEF left, right, all

-----------------------------------------------------------------------------

\* What the simulation needs besides WholeInv: every byte of the answer in
\* progress belongs to the packet that is being parsed.
StreamInv ==
  /\ WholeInv
  /\ \A i \in 1..Len(answer) : answer[i].reply.packet = done + 1

LEMMA SendReplyNumbered ==
  ASSUME TypeOK, \A i \in 1..Len(answer) : answer[i].reply.packet = done + 1,
         NEW form \in Forms, SendReply(form)
  PROVE  \A i \in 1..Len(answer') : answer'[i].reply.packet = done + 1
<1> DEFINE r == [packet |-> done + 1, sub |-> at, form |-> form]
<1>1. /\ Bytes(r) \in Seq(Byte) /\ Len(Bytes(r)) = ReplySize
      /\ \A i \in 1..ReplySize : Bytes(r)[i] = [reply |-> r, at |-> i]
  <2>1. r \in Reply
    BY DEF TypeOK, Reply
  <2>2. QED
    BY <2>1, BytesOfReply
<1>2. answer' = answer \o Bytes(r) /\ r.packet = done + 1 /\ answer \in Seq(Byte)
  BY DEF SendReply, TypeOK
<1> HIDE DEF r
<1>3. /\ Len(answer') = Len(answer) + ReplySize
      /\ \A i \in 1..(Len(answer) + ReplySize) :
           answer'[i] = IF i <= Len(answer) THEN answer[i] ELSE Bytes(r)[i - Len(answer)]
  BY <1>1, <1>2, ConcatProperties
<1>4. Len(answer) \in Nat /\ ReplySize \in Nat
  BY LenProperties, SizesAssumption DEF TypeOK
<1> SUFFICES ASSUME NEW i \in 1..Len(answer')
             PROVE  answer'[i].reply.packet = done + 1
  OBVIOUS
<1>5. CASE i <= Len(answer)
  BY <1>3, <1>4, <1>5
<1>6. CASE i > Len(answer)
  <2>1. i - Len(answer) \in 1..ReplySize
    BY <1>3, <1>4, <1>6
  <2>2. answer'[i] = [reply |-> r, at |-> i - Len(answer)]
    BY <1>1, <1>3, <1>4, <1>6, <2>1
  <2>3. QED
    BY <1>2, <2>2
<1>7. QED
  BY <1>3, <1>4, <1>5, <1>6

LEMMA NextStream == StreamInv /\ [Next]_vars => StreamInv'
<1> SUFFICES ASSUME StreamInv, [Next]_vars
             PROVE  \A i \in 1..Len(answer') : answer'[i].reply.packet = done' + 1
  BY NextWhole DEF StreamInv
<1>1. TypeOK /\ \A i \in 1..Len(answer) : answer[i].reply.packet = done + 1
  BY DEF StreamInv, WholeInv
<1>2. CASE FrameDone
  BY <1>2 DEF FrameDone
<1>3. CASE UNCHANGED <<answer, done>>
  BY <1>1, <1>3
<1>4. ASSUME NEW form \in Forms, SendReply(form), done' = done
      PROVE  \A i \in 1..Len(answer') : answer'[i].reply.packet = done' + 1
  BY <1>1, <1>4, SendReplyNumbered
<1>5. FrameDone \/ UNCHANGED <<answer, done>>
        \/ \E form \in Forms : SendReply(form) /\ done' = done
  BY DEF Next, ServerStep, Send, RecvTest, RecvPop, RunFrame, ParseEmpty, ParseConnection,
         ParseOverlong, ParseMessage, ParseEnd, ReadTrailing, ReadAgain, CallHandler,
         Settle, NoReply, ParseUnchanged, LoopUnchanged,
         Forms, vars
<1>6. QED
  BY <1>2, <1>3, <1>4, <1>5

\* The packets waiting, with the one being parsed in front.
LEMMA WaitingType == TypeOK => /\ Current \in Seq(Packet)
                               /\ Waiting \in Seq(Packet)
                               /\ done \in Nat
<1> SUFFICES ASSUME TypeOK
             PROVE  Current \in Seq(Packet) /\ Waiting \in Seq(Packet) /\ done \in Nat
  OBVIOUS
<1>1. taken \in Packet /\ incoming \in Seq(Packet) /\ done \in Nat
  BY DEF TypeOK
<1>2. Current \in Seq(Packet)
  BY <1>1, EmptySeq DEF Current
<1>3. QED
  BY <1>1, <1>2, ConcatProperties DEF Waiting

LEMMA InitSimulates == Init => Stream!Init
<1> SUFFICES ASSUME Init PROVE Pending = <<>> /\ finished = <<>>
  BY DEF Stream!Init
<1>1. Waiting = <<>>
  BY EmptySeq, ConcatEmptySeq DEF Init, Waiting, Current
<1>2. Len(Pending) = 0 /\ Pending \in Seq(NumberedPacket)
  <2>1. <<>> \in Seq(Packet) /\ done \in Nat /\ Len(<<>>) = 0
    BY EmptySeq DEF Init
  <2>2. QED
    BY <1>1, <2>1, NumberedProperties DEF Pending
<1>3. QED
  BY <1>2, EmptySeq DEF Init

\* A packet that is accepted waits behind the others, with the next number.
LEMMA SendPends ==
  ASSUME TypeOK, NEW p \in Packets, Send(p)
  PROVE  /\ Pending' = Append(Pending, [no |-> done + Len(Waiting) + 1, packet |-> p])
         /\ finished' = finished
<1>1. p \in Packet
  BY PacketsAssumption
<1>2. Current \in Seq(Packet) /\ Waiting \in Seq(Packet) /\ done \in Nat
  BY WaitingType
<1>3. Waiting' = Append(Waiting, p)
  <2>1. Current' = Current /\ incoming' = Append(incoming, p) /\ incoming \in Seq(Packet)
    BY DEF Send, serverVars, Current, TypeOK
  <2>2. Current \o Append(incoming, p) = Append(Current \o incoming, p)
    BY <1>1, <1>2, <2>1
  <2>3. QED
    BY <2>1, <2>2 DEF Waiting
<1>4. done' = done /\ finished' = finished
  BY DEF Send
<1>5. QED
  BY <1>1, <1>2, <1>3, <1>4, NumberedAppend DEF Pending

LEMMA SendSimulates ==
  ASSUME TypeOK, NEW p \in Packets, Send(p)
  PROVE  Stream!Next
<1> DEFINE q == [no |-> done + Len(Waiting) + 1, packet |-> p]
<1>1. q \in [no : Nat \ {0}, packet : Packets]
  BY WaitingType, LenProperties
<1>2. Stream!Accept(q)
  BY SendPends DEF Stream!Accept
<1>3. QED
  BY <1>1, <1>2 DEF Stream!Next

\* A recv reads some bytes off the front, or none.
LEMMA RecvReads ==
  ASSUME WholeInv, NEW r \in Readers, RecvPop(r)
  PROVE  /\ Pending' = Pending
         /\ \/ finished' = finished
            \/ \E n \in 1..Len(finished) : finished' = SubSeq(finished, n + 1, Len(finished))
<1> DEFINE n == Lowest(asked[r], Len(outgoing))
<1>1. outgoing = finished /\ finished \in Seq(Byte)
  <2>1. answer = <<>> /\ finished \in Seq(Byte)
    BY DEF WholeInv, TypeOK, MutexHeld, RecvPop
  <2>2. QED
    BY <2>1, ConcatEmptySeq DEF WholeInv, AnswersStayWhole
<1>2. Pending' = Pending
  BY DEF RecvPop, serverVars, Pending, Waiting, Current
<1>3. Len(finished) \in Nat /\ n \in 0..Len(finished)
  <2>1. Len(finished) \in Nat /\ asked[r] \in Nat
    BY <1>1, LenProperties DEF WholeInv, TypeOK
  <2>2. QED
    BY <1>1, <2>1, LowestBounds
<1>4. finished' = SubSeq(finished, n + 1, Len(finished))
  BY DEF RecvPop, Rest
<1> HIDE DEF n
<1>5. CASE n = 0
  <2>1. finished' = finished
    BY <1>1, <1>4, <1>5, SubSeqFull
  <2>2. QED
    BY <1>2, <2>1
<1>6. CASE n # 0
  <2>1. n \in 1..Len(finished)
    BY <1>3, <1>6
  <2>2. QED
    BY <1>2, <1>4, <2>1
<1>7. QED
  BY <1>5, <1>6

LEMMA RecvSimulates ==
  ASSUME WholeInv, NEW r \in Readers, RecvPop(r)
  PROVE  Stream!Next \/ UNCHANGED <<Pending, finished>>
<1>1. CASE finished' = finished
  BY <1>1, RecvReads
<1>2. ASSUME NEW n \in 1..Len(finished), finished' = SubSeq(finished, n + 1, Len(finished))
      PROVE  Stream!Next
  BY <1>2, RecvReads DEF Stream!Read, Stream!Next
<1>3. QED
  BY <1>1, <1>2, RecvReads

LEMMA RunFrameSimulates ==
  ASSUME WholeInv, RunFrame
  PROVE  UNCHANGED <<Pending, finished>>
<1>1. incoming \in Seq(Packet) /\ incoming # <<>> /\ Current = <<>>
  BY DEF WholeInv, TypeOK, RunFrame, Current
<1>2. Current' = <<Head(incoming)>> /\ incoming' = Tail(incoming)
  BY DEF RunFrame, Current
<1>3. <<Head(incoming)>> \o Tail(incoming) = incoming
  BY <1>1
<1>4. <<>> \o incoming = incoming
  BY <1>1, ConcatEmptySeq
<1>5. Waiting' = Waiting
  BY <1>1, <1>2, <1>3, <1>4 DEF Waiting
<1>6. QED
  BY <1>5 DEF RunFrame, Pending

\* The packet that was being parsed is answered, all at once.
LEMMA FrameDoneAnswers ==
  ASSUME TypeOK, FrameDone
  PROVE  /\ Pending # <<>>
         /\ Head(Pending) = [no |-> done + 1, packet |-> taken]
         /\ Pending' = Tail(Pending)
         /\ finished' = finished \o answer
<1>1. incoming \in Seq(Packet) /\ taken \in Packet
  BY DEF TypeOK
<1>2. Waiting \in Seq(Packet) /\ done \in Nat
  BY WaitingType
<1>3. Waiting = <<taken>> \o incoming /\ Waiting' = <<>> \o incoming
  BY DEF FrameDone, Waiting, Current
<1>4. Waiting # <<>> /\ Head(Waiting) = taken /\ Tail(Waiting) = incoming
  BY <1>1, <1>3
<1>5. Waiting' = Tail(Waiting)
  BY <1>1, <1>3, <1>4, ConcatEmptySeq
<1>6. /\ Pending # <<>>
      /\ Head(Pending) = [no |-> done + 1, packet |-> taken]
      /\ Tail(Pending) = NumberedFrom(done + 1, Waiting')
  BY <1>2, <1>4, <1>5, NumberedTail DEF Pending
<1>7. Pending' = Tail(Pending)
  BY <1>6 DEF Pending, FrameDone
<1>8. QED
  BY <1>6, <1>7 DEF FrameDone

LEMMA FrameDoneSimulates ==
  ASSUME StreamInv, FrameDone
  PROVE  Stream!Next
<1>1. /\ TypeOK /\ answer \in Seq(Byte)
      /\ \A i \in 1..Len(answer) : answer[i].reply.packet = done + 1
  BY DEF StreamInv, WholeInv, TypeOK
<1>2. answer \in AboutPacket(Head(Pending))
  BY <1>1, FrameDoneAnswers DEF AboutPacket
<1>3. Stream!Answer
  BY <1>1, <1>2, FrameDoneAnswers DEF Stream!Answer
<1>4. QED
  BY <1>3 DEF Stream!Next

\* The two queues, the mutex and the thread implement the request-reply stream.
THEOREM Refinement == Spec => Stream!Spec
<1>1. Init => StreamInv /\ Stream!Init
  <2> SUFFICES ASSUME Init PROVE StreamInv
    BY InitSimulates
  <2>1. \A i \in 1..Len(answer) : answer[i].reply.packet = done + 1
    BY EmptySeq DEF Init
  <2>2. QED
    BY <2>1, InitWhole DEF StreamInv
<1>2. StreamInv /\ [Next]_vars => [Stream!Next]_(Stream!vars)
  <2> SUFFICES ASSUME StreamInv, [Next]_vars
               PROVE  Stream!Next \/ UNCHANGED <<Pending, finished>>
    BY DEF Stream!vars
  <2>1. WholeInv /\ TypeOK
    BY DEF StreamInv, WholeInv
  <2>2. ASSUME NEW p \in Packets, Send(p)
        PROVE  Stream!Next
    BY <2>1, <2>2, SendSimulates
  <2>3. ASSUME NEW r \in Readers, RecvPop(r)
        PROVE  Stream!Next \/ UNCHANGED <<Pending, finished>>
    BY <2>1, <2>3, RecvSimulates
  <2>4. CASE RunFrame
    BY <2>1, <2>4, RunFrameSimulates
  <2>5. CASE FrameDone
    BY <2>5, FrameDoneSimulates
  <2>6. ASSUME NEW r \in Readers, NEW n \in ReadSizes, RecvTest(r, n)
        PROVE  UNCHANGED <<Pending, finished>>
    BY <2>6 DEF RecvTest, serverVars, Pending, Waiting, Current
  <2>7. CASE \/ ParseEmpty \/ ParseConnection \/ ParseOverlong \/ ParseMessage
             \/ ParseEnd \/ ReadTrailing \/ ReadAgain \/ CallHandler \/ Settle
    <3>1. server # "idle" /\ server' # "idle"
      BY <2>7 DEF ParseEmpty, ParseConnection, ParseOverlong, ParseMessage, ParseEnd,
                  ReadTrailing, ReadAgain, CallHandler, Settle, Parsing
    <3>2. UNCHANGED <<taken, incoming, done, finished>>
      BY <2>7 DEF ParseEmpty, ParseConnection, ParseOverlong, ParseMessage, ParseEnd,
                  ReadTrailing, ReadAgain, CallHandler, Settle, ParseUnchanged, LoopUnchanged
    <3>3. QED
      BY <3>1, <3>2 DEF Pending, Waiting, Current
  <2>8. CASE UNCHANGED vars
    BY <2>8 DEF vars, serverVars, Pending, Waiting, Current
  <2>9. QED
    BY <2>2, <2>3, <2>4, <2>5, <2>6, <2>7, <2>8 DEF Next, ServerStep
<1>3. QED
  BY <1>1, <1>2, NextStream, PTL DEF Spec, Stream!Spec
-----------------------------------------------------------------------------
(* Which bytes an answer has. The answer of the definition joins one part  *)
(* for each sub-packet; the thread pushes the same parts one by one, so    *)
(* what FlattenSeq does with one part more is proved first, by induction.  *)

\* The bytes pushed for one sub-packet each, in order.
Chunks == Seq(Seq(Byte))

\* Induction over the natural numbers: of those for which something fails, one
\* is the least.
LEMMA LeastOf ==
  ASSUME NEW S \in SUBSET Nat, S # {}
  PROVE  \E m \in S : \A k \in Nat : k < m => k \notin S
<1> DEFINE Less == OpToRel(<, Nat)
<1>1. \A k, m \in Nat : k < m => <<k, m>> \in Less
  BY DEF OpToRel
<1>2. IsWellFoundedOn(Less, Nat)
  BY NatLessThanWellFounded
<1> HIDE DEF Less
<1>3. PICK m \in S : \A k \in S : <<k, m>> \notin Less
  BY <1>2, WFMin
<1> QED
  BY <1>1, <1>3

LEMMA Induction ==
  ASSUME NEW S \in SUBSET Nat, 0 \in S, \A n \in S : n + 1 \in S
  PROVE  S = Nat
<1> SUFFICES ASSUME Nat \ S # {} PROVE FALSE
  OBVIOUS
<1>1. PICK m \in Nat \ S : \A k \in Nat : k < m => k \notin Nat \ S
  BY LeastOf
<1>2. m # 0
  BY <1>1
<1>3. m - 1 \in S
  BY <1>1, <1>2
<1> QED
  BY <1>1, <1>2, <1>3

\* f holds the first n steps of flattening q.
Flattens(f, q, n) ==
  f = [i \in 1..n |-> IF i = 1 THEN q[i] ELSE f[i - 1] \o q[i]]

LEMMA FlattensMore ==
  ASSUME NEW q \in Chunks, NEW n \in Nat, NEW f, Flattens(f, q, n)
  PROVE  \E g : Flattens(g, q, n + 1)
<1> DEFINE g == [i \in 1..(n + 1) |->
                   IF i <= n THEN f[i] ELSE IF i = 1 THEN q[i] ELSE f[i - 1] \o q[i]]
<1>1. ASSUME NEW i \in 1..(n + 1)
      PROVE  g[i] = IF i = 1 THEN q[i] ELSE g[i - 1] \o q[i]
  <2>1. \A j \in 1..n : f[j] = IF j = 1 THEN q[j] ELSE f[j - 1] \o q[j]
    BY DEF Flattens
  <2>2. i # 1 => i - 1 \in 1..n /\ g[i - 1] = f[i - 1]
    OBVIOUS
  <2> QED
    BY <2>1, <2>2
<1>2. g = [i \in 1..(n + 1) |-> g[i]]
  OBVIOUS
<1>3. Flattens(g, q, n + 1)
  <2> HIDE DEF g
  <2> QED
    BY <1>1, <1>2 DEF Flattens
<1> QED
  BY <1>3

LEMMA FlattensExists ==
  ASSUME NEW q \in Chunks, NEW n \in Nat
  PROVE  \E f : Flattens(f, q, n)
<1> DEFINE S == {m \in Nat : \E f : Flattens(f, q, m)}
<1>1. 0 \in S
  <2>1. Flattens(<<>>, q, 0)
    <3>1. [i \in 1..0 |-> IF i = 1 THEN q[i] ELSE (<<>>)[i - 1] \o q[i]] = <<>>
      OBVIOUS
    <3> QED
      BY <3>1 DEF Flattens
  <2> QED
    BY <2>1
<1>2. \A m \in S : m + 1 \in S
  BY FlattensMore
<1>3. S = Nat
  <2> HIDE DEF S
  <2>1. S \in SUBSET Nat
    BY DEF S
  <2> QED
    BY <1>1, <1>2, <2>1, Induction
<1> QED
  BY <1>3

\* The steps by which FlattenSeq comes to its value.
LEMMA FlattenIs ==
  ASSUME NEW q \in Chunks, q # <<>>
  PROVE  \E f : Flattens(f, q, Len(q)) /\ FlattenSeq(q) = f[Len(q)]
<1> DEFINE f == CHOOSE flatten : Flattens(flatten, q, Len(q))
<1>1. Len(q) # 0 /\ Len(q) \in Nat
  BY DEF Chunks
<1>2. Flattens(f, q, Len(q))
  BY <1>1, FlattensExists
<1>3. FlattenSeq(q) = f[Len(q)]
  BY <1>1 DEF FlattenSeq, Flattens
<1> QED
  BY <1>2, <1>3

LEMMA FlattensType ==
  ASSUME NEW q \in Chunks, NEW f, Flattens(f, q, Len(q))
  PROVE  \A i \in 1..Len(q) : f[i] \in Seq(Byte)
<1> DEFINE S == {n \in Nat : n \in 1..Len(q) => f[n] \in Seq(Byte)}
<1>0. Len(q) \in Nat /\ \A i \in 1..Len(q) : q[i] \in Seq(Byte)
  BY DEF Chunks
<1>1. ASSUME NEW n \in S PROVE n + 1 \in S
  <2>1. \A i \in 1..Len(q) : f[i] = IF i = 1 THEN q[i] ELSE f[i - 1] \o q[i]
    BY DEF Flattens
  <2>2. CASE n + 1 \in 1..Len(q) /\ n # 0
    <3>0. n \in Nat /\ n \in 1..Len(q) /\ f[n] \in Seq(Byte)
      BY <1>0, <2>2
    <3> HIDE DEF S
    <3>1. f[n] \in Seq(Byte) /\ f[n + 1] = f[n] \o q[n + 1]
      <4>1. f[n + 1] = IF n + 1 = 1 THEN q[n + 1] ELSE f[n + 1 - 1] \o q[n + 1]
        BY <2>1, <2>2, <3>0
      <4>2. n + 1 # 1 /\ n + 1 - 1 = n
        BY <2>2, <3>0
      <4> QED
        BY <3>0, <4>1, <4>2
    <3>2. f[n + 1] \in Seq(Byte)
      BY <1>0, <2>2, <3>1, ConcatProperties
    <3> QED
      BY <3>0, <3>2 DEF S
  <2> QED
    BY <1>0, <2>1, <2>2
<1>2. S \in SUBSET Nat /\ 0 \in S
  BY <1>0
<1> HIDE DEF S
<1>3. S = Nat
  BY <1>1, <1>2, Induction
<1> QED
  BY <1>0, <1>3 DEF S

LEMMA FlattensSame ==
  ASSUME NEW q \in Chunks, NEW p \in Chunks, NEW f, NEW g, NEW k \in Nat,
         k <= Len(q), k <= Len(p), \A i \in 1..k : q[i] = p[i],
         Flattens(f, q, Len(q)), Flattens(g, p, Len(p))
  PROVE  \A i \in 1..k : f[i] = g[i]
<1> DEFINE S == {n \in Nat : n \in 1..k => f[n] = g[n]}
<1>0. Len(q) \in Nat /\ Len(p) \in Nat
  BY DEF Chunks
<1>1. ASSUME NEW n \in S PROVE n + 1 \in S
  <2>1. /\ \A i \in 1..Len(q) : f[i] = IF i = 1 THEN q[i] ELSE f[i - 1] \o q[i]
        /\ \A i \in 1..Len(p) : g[i] = IF i = 1 THEN p[i] ELSE g[i - 1] \o p[i]
    BY DEF Flattens
  <2>2. CASE n + 1 \in 1..k /\ n # 0
    BY <1>0, <2>1, <2>2
  <2>3. CASE n = 0
    BY <1>0, <2>1, <2>3
  <2> QED
    BY <2>2, <2>3
<1>2. S \in SUBSET Nat /\ 0 \in S
  OBVIOUS
<1> HIDE DEF S
<1>3. S = Nat
  BY <1>1, <1>2, Induction
<1> QED
  BY <1>3 DEF S

LEMMA FlattenType ==
  ASSUME NEW q \in Chunks
  PROVE  FlattenSeq(q) \in Seq(Byte)
<1>1. CASE q = <<>>
  BY <1>1 DEF FlattenSeq
<1>2. CASE q # <<>>
  <2>1. PICK f : Flattens(f, q, Len(q)) /\ FlattenSeq(q) = f[Len(q)]
    BY <1>2, FlattenIs
  <2>2. Len(q) \in 1..Len(q)
    BY <1>2 DEF Chunks
  <2> QED
    BY <2>1, <2>2, FlattensType
<1> QED
  BY <1>1, <1>2

LEMMA FlattenEmpty == FlattenSeq(<<>>) = <<>>
BY DEF FlattenSeq

LEMMA FlattenAppend ==
  ASSUME NEW q \in Chunks, NEW c \in Seq(Byte)
  PROVE  FlattenSeq(Append(q, c)) = FlattenSeq(q) \o c
<1> DEFINE p == Append(q, c)
<1>1. /\ p \in Chunks /\ p # <<>> /\ Len(q) \in Nat /\ Len(p) = Len(q) + 1
      /\ p[Len(q) + 1] = c /\ \A i \in 1..Len(q) : p[i] = q[i]
  BY AppendProperties DEF Chunks
<1> HIDE DEF p
<1>2. PICK g : Flattens(g, p, Len(p)) /\ FlattenSeq(p) = g[Len(p)]
  BY <1>1, FlattenIs
<1>3. g[Len(p)] = IF Len(p) = 1 THEN p[Len(p)] ELSE g[Len(p) - 1] \o p[Len(p)]
  <2>1. Len(p) \in 1..Len(p)
    BY <1>1
  <2>2. \A i \in 1..Len(p) : g[i] = IF i = 1 THEN p[i] ELSE g[i - 1] \o p[i]
    BY <1>2 DEF Flattens
  <2> QED
    BY <2>1, <2>2
<1>4. CASE q = <<>>
  <2>1. FlattenSeq(p) = c
    BY <1>1, <1>2, <1>3, <1>4
  <2> QED
    BY <1>4, <2>1, FlattenEmpty, ConcatEmptySeq DEF p
<1>5. CASE q # <<>>
  <2>1. Len(q) \in 1..Len(q)
    BY <1>5 DEF Chunks
  <2>2. PICK f : Flattens(f, q, Len(q)) /\ FlattenSeq(q) = f[Len(q)]
    BY <1>5, FlattenIs
  <2>3. \A i \in 1..Len(q) : f[i] = g[i]
    BY <1>1, <1>2, <2>2, FlattensSame
  <2>4. g[Len(p)] = g[Len(q)] \o c
    <3>1. Len(p) # 1 /\ Len(p) - 1 = Len(q) /\ p[Len(p)] = c
      BY <1>1, <2>1
    <3> QED
      BY <1>3, <3>1
  <2> QED
    BY <1>2, <2>1, <2>2, <2>3, <2>4 DEF p
<1> QED
  BY <1>4, <1>5

Upto(q, n) == SubSeq(q, 1, n)

LEMMA UptoProperties ==
  ASSUME NEW q \in Chunks, NEW n \in 0..Len(q)
  PROVE  /\ Upto(q, n) \in Chunks
         /\ Len(Upto(q, n)) = n
         /\ \A i \in 1..n : Upto(q, n)[i] = q[i]
<1>1. Len(q) \in Nat /\ \A i \in 1..n : q[i] \in Seq(Byte)
  BY LenProperties, ElementOfSeq DEF Chunks
<1>2. QED
  BY <1>1, SubSeqProperties DEF Chunks, Upto

\* One part more is that part behind the others.
LEMMA FlattenNext ==
  ASSUME NEW q \in Chunks, NEW n \in Nat, n + 1 <= Len(q)
  PROVE  FlattenSeq(Upto(q, n + 1)) = FlattenSeq(Upto(q, n)) \o q[n + 1]
<1> DEFINE a == Upto(q, n)
           b == Upto(q, n + 1)
           c == Append(a, q[n + 1])
<1>1. Len(q) \in Nat /\ n \in 0..Len(q) /\ n + 1 \in 0..Len(q) /\ n + 1 \in 1..Len(q)
  BY LenProperties DEF Chunks
<1>2. q[n + 1] \in Seq(Byte)
  BY <1>1, ElementOfSeq DEF Chunks
<1>3. a \in Chunks /\ Len(a) = n /\ \A i \in 1..n : a[i] = q[i]
  BY <1>1, UptoProperties
<1>4. b \in Chunks /\ Len(b) = n + 1 /\ \A i \in 1..(n + 1) : b[i] = q[i]
  BY <1>1, UptoProperties
<1> HIDE DEF a, b
<1>5. /\ c \in Chunks /\ Len(c) = n + 1
      /\ \A i \in 1..n : c[i] = a[i]
      /\ c[n + 1] = q[n + 1]
  BY <1>2, <1>3, AppendProperties DEF Chunks
<1> HIDE DEF c
<1>6. \A i \in 1..Len(b) : b[i] = c[i]
  BY <1>3, <1>4, <1>5
<1>7. b = c
  BY <1>4, <1>5, <1>6, SeqEqual DEF Chunks
<1>8. FlattenSeq(c) = FlattenSeq(a) \o q[n + 1]
  BY <1>2, <1>3, FlattenAppend DEF c
<1>9. QED
  BY <1>7, <1>8 DEF a, b

\* Empty parts at the end add nothing.
LEMMA FlattenRest ==
  ASSUME NEW q \in Chunks, NEW n \in 0..Len(q), \A i \in (n + 1)..Len(q) : q[i] = <<>>
  PROVE  FlattenSeq(q) = FlattenSeq(Upto(q, n))
<1> DEFINE S == {k \in Nat : n + k <= Len(q) => FlattenSeq(Upto(q, n + k)) = FlattenSeq(Upto(q, n))}
<1>0. Len(q) \in Nat /\ n \in Nat
  BY LenProperties DEF Chunks
<1>1. 0 \in S
  BY <1>0
<1>2. ASSUME NEW k \in S PROVE k + 1 \in S
  <2> SUFFICES ASSUME n + (k + 1) <= Len(q)
               PROVE  FlattenSeq(Upto(q, n + (k + 1))) = FlattenSeq(Upto(q, n))
    BY <1>0
  <2>0. k \in Nat /\ n + k \in Nat /\ n + k \in 0..Len(q) /\ (n + k) + 1 = n + (k + 1)
        /\ n + (k + 1) \in (n + 1)..Len(q)
    BY <1>0
  <2>1. FlattenSeq(Upto(q, n + k)) = FlattenSeq(Upto(q, n))
    BY <1>0, <2>0
  <2> HIDE DEF S
  <2>2. FlattenSeq(Upto(q, n + (k + 1))) = FlattenSeq(Upto(q, n + k)) \o <<>>
    <3>1. PICK m \in Nat : m = n + k
      BY <2>0
    <3>2. FlattenSeq(Upto(q, m + 1)) = FlattenSeq(Upto(q, m)) \o q[m + 1]
      BY <2>0, <3>1, FlattenNext
    <3>3. m + 1 = n + (k + 1) /\ q[m + 1] = <<>>
      BY <2>0, <3>1
    <3>4. QED
      BY <3>1, <3>2, <3>3
  <2>3. FlattenSeq(Upto(q, n + k)) \in Seq(Byte)
    BY <2>0, UptoProperties, FlattenType
  <2>4. QED
    BY <2>1, <2>2, <2>3, ConcatEmptySeq
<1>3. S \in SUBSET Nat
  OBVIOUS
<1> HIDE DEF S
<1>4. Len(q) - n \in S
  <2>1. S = Nat
    BY <1>1, <1>2, <1>3, Induction
  <2>2. QED
    BY <1>0, <2>1
<1>5. FlattenSeq(Upto(q, Len(q))) = FlattenSeq(Upto(q, n))
  <2>1. PICK k \in Nat : k = Len(q) - n /\ n + k = Len(q) /\ k \in S
    BY <1>0, <1>4
  <2>2. n + k <= Len(q)
    BY <1>0, <2>1
  <2>3. FlattenSeq(Upto(q, n + k)) = FlattenSeq(Upto(q, n))
    BY <2>1, <2>2 DEF S
  <2>4. QED
    BY <2>1, <2>3
<1>6. Upto(q, Len(q)) = q
  BY SubSeqFull DEF Chunks, Upto
<1>7. QED
  BY <1>5, <1>6
-----------------------------------------------------------------------------
(* The parts of the exact answer, and what the thread has pushed of them.  *)

Asked == [no |-> done + 1, packet |-> packet]
IsRead(p, i) == \A j \in 1..(i - 1) : ~Ends(p[j])
ReplyTo(q, i) == [packet |-> q.no, sub |-> i, form |-> FormOf(q.packet[i])]
Part(q, i) ==
  IF IsRead(q.packet, i) /\ FormOf(q.packet[i]) # "none" THEN Bytes(ReplyTo(q, i)) ELSE <<>>
Parts(q) == [i \in 1..Len(q.packet) |-> Part(q, i)]
SoFar(n) == FlattenSeq(Upto(Parts(Asked), n))

LEMMA FormsAre ==
  ASSUME NEW m \in SubPacket
  PROVE  FormOf(m) \in Forms \cup {"none"}
BY DEF FormOf, SubPacket, Kinds, Forms

LEMMA PartsProperties ==
  ASSUME TypeOK
  PROVE  /\ Parts(Asked) \in Chunks
         /\ Len(Parts(Asked)) = Len(packet) /\ Len(packet) \in Nat
         /\ \A i \in 1..Len(packet) : Parts(Asked)[i] = Part(Asked, i)
         /\ \A i \in 1..Len(packet) : packet[i] \in SubPacket
<1>1. Asked.packet = packet /\ Asked.no = done + 1 /\ done \in Nat
  BY DEF Asked, TypeOK
<1>2. Len(packet) \in Nat /\ \A i \in 1..Len(packet) : packet[i] \in SubPacket
  BY LenProperties, ElementOfSeq DEF TypeOK, Packet
<1>3. ASSUME NEW i \in 1..Len(packet)
      PROVE  Part(Asked, i) \in Seq(Byte)
  <2>1. CASE FormOf(packet[i]) # "none"
    <3>1. FormOf(packet[i]) \in Forms
      BY <1>2, <2>1, FormsAre
    <3>2. ReplyTo(Asked, i) \in Reply
      BY <1>1, <1>2, <3>1 DEF ReplyTo, Reply
    <3>3. QED
      BY <3>2, BytesOfReply, EmptySeq DEF Part
  <2>2. CASE FormOf(packet[i]) = "none"
    BY <1>1, <2>2, EmptySeq DEF Part
  <2>3. QED
    BY <2>1, <2>2
<1>4. Parts(Asked) \in [1..Len(packet) -> Seq(Byte)]
  BY <1>1, <1>3 DEF Parts
<1>5. QED
  BY <1>1, <1>2, <1>4 DEF Parts, Chunks

\* The definition joins just these parts.
LEMMA AnswerIsParts ==
  ASSUME NEW q, q.packet \in Packet
  PROVE  AnswerTo(q) = FlattenSeq(Parts(q))
<1> DEFINE p == q.packet
           read == {i \in DOMAIN p : \A j \in 1..(i - 1) : ~Ends(p[j])}
           reply(i) == [packet |-> q.no, sub |-> i, form |-> FormOf(p[i])]
           part(i) == IF i \in read /\ FormOf(p[i]) # "none" THEN Bytes(reply(i)) ELSE <<>>
           all == [i \in 1..Len(p) |-> part(i)]
<1>1. AnswerTo(q) = FlattenSeq(all)
  BY DEF AnswerTo
<1>2. DOMAIN p = 1..Len(p)
  BY DEF Packet
<1>3. ASSUME NEW i \in 1..Len(p)
      PROVE  part(i) = Part(q, i)
  <2>1. i \in read <=> IsRead(p, i)
    BY <1>2 DEF IsRead
  <2>2. reply(i) = ReplyTo(q, i)
    BY DEF ReplyTo
  <2> HIDE DEF read, reply
  <2>3. QED
    BY <2>1, <2>2 DEF Part
<1> HIDE DEF part
<1>4. all = Parts(q)
  BY <1>3 DEF Parts
<1>5. QED
  BY <1>1, <1>4

\* What has been pushed once sub-packet n is settled, and all there is to push
\* when it is the last one read.
LEMMA SoFarNext ==
  ASSUME TypeOK, NEW n \in 1..Len(packet)
  PROVE  SoFar(n) = SoFar(n - 1) \o Part(Asked, n)
<1>1. PICK k \in Nat : k = n - 1 /\ k + 1 = n /\ k + 1 <= Len(packet)
  BY PartsProperties
<1>2. FlattenSeq(Upto(Parts(Asked), k + 1)) = FlattenSeq(Upto(Parts(Asked), k)) \o Parts(Asked)[k + 1]
  BY <1>1, PartsProperties, FlattenNext
<1>3. QED
  BY <1>1, <1>2, PartsProperties DEF SoFar

LEMMA SoFarType ==
  ASSUME TypeOK, NEW n \in 0..Len(packet)
  PROVE  SoFar(n) \in Seq(Byte)
BY PartsProperties, UptoProperties, FlattenType DEF SoFar

LEMMA SoFarNone == TypeOK => SoFar(0) = <<>>
<1> SUFFICES ASSUME TypeOK PROVE SoFar(0) = <<>>
  OBVIOUS
<1>1. Upto(Parts(Asked), 0) \in Chunks /\ Len(Upto(Parts(Asked), 0)) = 0
  BY PartsProperties, UptoProperties
<1>2. Upto(Parts(Asked), 0) = <<>>
  BY <1>1, EmptySeq DEF Chunks
<1>3. QED
  BY <1>2, FlattenEmpty DEF SoFar

LEMMA SoFarAll ==
  ASSUME TypeOK, NEW n \in 0..Len(packet),
         \A i \in (n + 1)..Len(packet) : ~IsRead(packet, i)
  PROVE  SoFar(n) = AnswerTo(Asked)
<1>1. \A i \in (n + 1)..Len(packet) : i \in 1..Len(packet) /\ Part(Asked, i) = <<>>
  BY PartsProperties DEF Part, Asked
<1>2. FlattenSeq(Parts(Asked)) = FlattenSeq(Upto(Parts(Asked), n))
  BY <1>1, PartsProperties, FlattenRest
<1>3. AnswerTo(Asked) = FlattenSeq(Parts(Asked))
  BY AnswerIsParts DEF Asked, TypeOK
<1>4. QED
  BY <1>2, <1>3 DEF SoFar

-----------------------------------------------------------------------------
(* The invariant of the parse loop. Where the thread is in run_frame says  *)
(* how much of the exact answer it has pushed.                             *)

AllRead(n) == \A j \in 1..n : ~Ends(packet[j])

ExactInv ==
  /\ WholeInv
  /\ server = "parse" =>
       /\ at \in 1..(Len(packet) + 1) /\ AllRead(at - 1)
       /\ answer = SoFar(at - 1)
  /\ server = "handle" =>
       /\ packet[at].kind = "message" /\ AllRead(at - 1) /\ ~reply_sent
       /\ answer = SoFar(at - 1)
  /\ server = "settle" =>
       /\ packet[at].kind = "message" /\ AllRead(at)
       /\ IF reply_sent THEN FormOf(packet[at]) = "service" /\ answer = SoFar(at)
                        ELSE FormOf(packet[at]) # "service" /\ answer = SoFar(at - 1)
  /\ server = "unlock" => answer = AnswerTo(Asked)

\* A reply of the right form to a sub-packet that is read is its part.
LEMMA SendReplyExact ==
  ASSUME TypeOK, at \in 1..Len(packet), AllRead(at - 1), answer = SoFar(at - 1),
         NEW form \in Forms, form = FormOf(packet[at]), SendReply(form)
  PROVE  answer' = SoFar(at)
<1>1. IsRead(packet, at)
  BY DEF AllRead, IsRead
<1>2. form # "none"
  BY DEF Forms
<1>3. Part(Asked, at) = Bytes([packet |-> done + 1, sub |-> at, form |-> form])
  BY <1>1, <1>2 DEF Part, Asked, ReplyTo
<1>4. answer' = answer \o Part(Asked, at)
  BY <1>3 DEF SendReply
<1>5. QED
  BY <1>4, SoFarNext

\* A sub-packet that gets no reply adds nothing.
LEMMA NoReplyExact ==
  ASSUME TypeOK, at \in 1..Len(packet), FormOf(packet[at]) = "none"
  PROVE  SoFar(at) = SoFar(at - 1)
<1>1. Part(Asked, at) = <<>>
  BY DEF Part, Asked
<1>2. at - 1 \in 0..Len(packet)
  BY PartsProperties
<1>3. SoFar(at - 1) \in Seq(Byte)
  BY <1>2, SoFarType
<1>4. QED
  BY <1>1, <1>3, SoFarNext, ConcatEmptySeq

\* After a sub-packet that ends the parsing, everything has been pushed.
LEMMA EndsAll ==
  ASSUME TypeOK, at \in 1..Len(packet), Ends(packet[at])
  PROVE  SoFar(at) = AnswerTo(Asked)
<1>1. Len(packet) \in Nat /\ at \in 0..Len(packet)
  BY PartsProperties
<1>2. \A i \in (at + 1)..Len(packet) : at \in 1..(i - 1)
  BY <1>1
<1>3. \A i \in (at + 1)..Len(packet) : ~IsRead(packet, i)
  BY <1>2 DEF IsRead
<1>4. QED
  BY <1>1, <1>3, SoFarAll

\* A step of the thread that stays with its packet keeps what is defined from it.
LEMMA SameParts ==
  ASSUME UNCHANGED <<done, packet>>
  PROVE  /\ Asked' = Asked
         /\ AnswerTo(Asked)' = AnswerTo(Asked)
         /\ \A n : SoFar(n)' = SoFar(n)
         /\ \A n : AllRead(n)' = AllRead(n)
BY DEF Asked, SoFar, AllRead
\* What every step of the parse loop starts from.
LEMMA LoopStep ==
  ASSUME ExactInv, [Next]_vars, server # "idle", UNCHANGED <<done, packet>>
  PROVE  /\ TypeOK /\ TypeOK' /\ InPacket /\ InPacket' /\ WholeInv'
         /\ Len(packet) \in Nat /\ at \in Nat \ {0}
         /\ at <= Len(packet) => packet[at] \in SubPacket
         /\ Asked' = Asked
         /\ AnswerTo(Asked)' = AnswerTo(Asked)
         /\ \A n : SoFar(n)' = SoFar(n)
         /\ \A n : AllRead(n)' = AllRead(n)
<1>1. TypeOK /\ InPacket /\ WholeInv'
  BY NextWhole DEF ExactInv, WholeInv
<1>2. TypeOK' /\ InPacket'
  BY <1>1 DEF WholeInv
<1>3. Len(packet) \in Nat /\ \A i \in 1..Len(packet) : packet[i] \in SubPacket
  BY <1>1, PartsProperties
<1>4. at \in Nat \ {0}
  BY <1>1 DEF TypeOK
<1>5. at <= Len(packet) => packet[at] \in SubPacket
  BY <1>3, <1>4
<1>6. QED
  BY <1>1, <1>2, <1>3, <1>4, <1>5, SameParts, Zenon

LEMMA NothingSoFar == TypeOK => 1 \in 1..(Len(packet) + 1) /\ SoFar(0) = <<>>
BY PartsProperties, SoFarNone

LEMMA RunFrameExact ==
  ASSUME ExactInv, RunFrame
  PROVE  ExactInv'
<1>1. WholeInv' /\ TypeOK'
  BY NextWhole DEF ExactInv, WholeInv, Next, ServerStep
<1>2. server' = "parse" /\ at' = 1 /\ answer' = <<>>
  BY DEF RunFrame, ExactInv, WholeInv, MutexHeld
<1>3. (1 \in 1..(Len(packet) + 1) /\ SoFar(0) = <<>>)'
  BY <1>1, NothingSoFar, PTL
<1>4. QED
  BY <1>1, <1>2, <1>3 DEF ExactInv, AllRead

\* A sub-packet that is answered and ends the parsing.
LEMMA ParseLastExact ==
  ASSUME ExactInv, ParseEmpty \/ ParseConnection
  PROVE  ExactInv'
<1>1. /\ \/ Parsing("empty") /\ SendReply("raw")
         \/ Parsing("connection") /\ SendReply("connection")
      /\ server' = "unlock" /\ UNCHANGED <<at, done, packet>> /\ [Next]_vars /\ server = "parse"
  BY DEF ParseEmpty, ParseConnection, ParseUnchanged, LoopUnchanged, Next, ServerStep, Parsing
<1>2. /\ TypeOK /\ WholeInv' /\ at \in 1..Len(packet) /\ packet[at] \in SubPacket
      /\ AnswerTo(Asked)' = AnswerTo(Asked)
  BY <1>1, LoopStep DEF Parsing
<1>3. AllRead(at - 1) /\ answer = SoFar(at - 1)
  BY <1>1 DEF ExactInv
<1>4. /\ Ends(packet[at])
      /\ \E form \in Forms : form = FormOf(packet[at]) /\ SendReply(form)
  BY <1>1 DEF Parsing, Ends, FormOf, Forms
<1>5. answer' = SoFar(at)
  BY <1>2, <1>3, <1>4, SendReplyExact
<1>6. answer' = AnswerTo(Asked)
  BY <1>2, <1>4, <1>5, EndsAll
<1>7. QED
  BY <1>1, <1>2, <1>6 DEF ExactInv

LEMMA ParseOverlongExact ==
  ASSUME ExactInv, ParseOverlong
  PROVE  ExactInv'
<1>1. /\ Parsing("overlong") /\ answer' = answer
      /\ server' = "unlock" /\ UNCHANGED <<at, done, packet>> /\ [Next]_vars /\ server = "parse"
  BY DEF ParseOverlong, ParseUnchanged, LoopUnchanged, NoReply, Next, ServerStep, Parsing
<1>2. /\ TypeOK /\ WholeInv' /\ at \in 1..Len(packet)
      /\ AnswerTo(Asked)' = AnswerTo(Asked)
  BY <1>1, LoopStep DEF Parsing
<1>3. answer = SoFar(at - 1)
  BY <1>1 DEF ExactInv
<1>4. Ends(packet[at]) /\ FormOf(packet[at]) = "none"
  BY <1>1 DEF Parsing, Ends, FormOf
<1>5. answer' = AnswerTo(Asked)
  BY <1>1, <1>2, <1>3, <1>4, NoReplyExact, EndsAll
<1>6. QED
  BY <1>1, <1>2, <1>5 DEF ExactInv

LEMMA ParseEndExact ==
  ASSUME ExactInv, ParseEnd
  PROVE  ExactInv'
<1>1. /\ at > Len(packet) /\ answer' = answer
      /\ server' = "unlock" /\ UNCHANGED <<at, done, packet>> /\ [Next]_vars /\ server = "parse"
  BY DEF ParseEnd, ParseUnchanged, LoopUnchanged, NoReply, Next, ServerStep
<1>2. /\ TypeOK /\ WholeInv' /\ Len(packet) \in Nat
      /\ AnswerTo(Asked)' = AnswerTo(Asked)
  BY <1>1, LoopStep
<1>3. at - 1 = Len(packet) /\ answer = SoFar(at - 1)
  BY <1>1, <1>2 DEF ExactInv
<1>4. SoFar(Len(packet)) = AnswerTo(Asked)
  BY <1>2, SoFarAll
<1>5. QED
  BY <1>1, <1>2, <1>3, <1>4 DEF ExactInv

LEMMA ParseMessageExact ==
  ASSUME ExactInv, ParseMessage
  PROVE  ExactInv'
<1>1. /\ Parsing("message") /\ UNCHANGED <<answer, at, done, packet>>
      /\ server' = "handle" /\ reply_sent' = FALSE /\ [Next]_vars /\ server = "parse"
  BY DEF ParseMessage, ParseUnchanged, LoopUnchanged, Next, ServerStep, Parsing
<1>2. WholeInv' /\ SoFar(at - 1)' = SoFar(at - 1) /\ AllRead(at - 1)' = AllRead(at - 1)
  <2>1. PICK n : n = at - 1
    OBVIOUS
  <2>2. WholeInv' /\ SoFar(n)' = SoFar(n) /\ AllRead(n)' = AllRead(n)
    BY <1>1, LoopStep
  <2>3. QED
    BY <1>1, <2>1, <2>2
<1>3. AllRead(at - 1) /\ answer = SoFar(at - 1)
  BY <1>1 DEF ExactInv
<1>4. QED
  BY <1>1, <1>2, <1>3 DEF ExactInv, Parsing
\* One sub-packet more has been read.
LEMMA ReadNext ==
  ASSUME NEW n \in Nat \ {0}, AllRead(n - 1), ~Ends(packet[n])
  PROVE  AllRead(n)
BY DEF AllRead

LEMMA CallHandlerExact ==
  ASSUME ExactInv, CallHandler
  PROVE  ExactInv'
<1> DEFINE m == packet[at]
           throws == Called(m) /\ m.call = "throw"
           replies == Called(m) /\ m.call = "reply" /\ m.type # HELLO
<1>1. /\ UNCHANGED <<at, done, packet>> /\ [Next]_vars /\ server = "handle"
  BY DEF CallHandler, ParseUnchanged, LoopUnchanged, Next, ServerStep
<1>2. /\ TypeOK /\ WholeInv' /\ at \in 1..Len(packet) /\ m \in SubPacket
      /\ AnswerTo(Asked)' = AnswerTo(Asked) /\ at \in Nat \ {0}
  BY <1>1, LoopStep DEF InPacket
<1>3. m.kind = "message" /\ AllRead(at - 1) /\ ~reply_sent /\ answer = SoFar(at - 1)
  BY <1>1 DEF ExactInv
<1>4. /\ IF replies THEN SendReply("service") ELSE NoReply
      /\ server' = IF throws THEN "unlock" ELSE "settle"
  BY <1>3 DEF CallHandler, Called
<1>5. PICK n : n = at /\ SoFar(n)' = SoFar(n) /\ SoFar(n - 1)' = SoFar(n - 1)
               /\ AllRead(n)' = AllRead(n)
  <2>1. PICK n, k : n = at /\ k = n - 1
    OBVIOUS
  <2>2. SoFar(n)' = SoFar(n) /\ SoFar(k)' = SoFar(k) /\ AllRead(n)' = AllRead(n)
    BY <1>1, LoopStep
  <2>3. QED
    BY <2>1, <2>2
<1>6. at' = at /\ packet' = packet
  BY <1>1
<1>7. CASE throws
  <2>1. answer' = answer /\ server' = "unlock"
    BY <1>4, <1>7 DEF NoReply
  <2>2. Ends(m) /\ FormOf(m) = "none"
    BY <1>3, <1>7 DEF Ends, FormOf, Called
  <2>3. answer' = AnswerTo(Asked)
    BY <1>2, <1>3, <2>1, <2>2, NoReplyExact, EndsAll
  <2>4. QED
    BY <1>2, <2>1, <2>3 DEF ExactInv
<1>8. CASE ~throws
  <2>1. ~Ends(m) /\ server' = "settle"
    BY <1>3, <1>4, <1>8 DEF Ends
  <2>2. AllRead(at)
    BY <1>2, <1>3, <2>1, ReadNext
  <2>3. CASE replies
    <3>1. SendReply("service") /\ reply_sent'
      BY <1>4, <2>3 DEF SendReply
    <3>2. FormOf(m) = "service"
      BY <1>3, <2>3 DEF FormOf
    <3>3. answer' = SoFar(at)
      BY <1>2, <1>3, <3>1, <3>2, SendReplyExact DEF Forms
    <3>4. QED
      BY <1>2, <1>3, <1>5, <1>6, <2>1, <2>2, <3>1, <3>2, <3>3 DEF ExactInv
  <2>4. CASE ~replies
    <3>1. answer' = answer /\ ~reply_sent'
      BY <1>3, <1>4, <2>4 DEF NoReply
    <3>2. FormOf(m) # "service"
      BY <1>3, <2>4 DEF FormOf
    <3>3. QED
      BY <1>2, <1>3, <1>5, <1>6, <2>1, <2>2, <3>1, <3>2 DEF ExactInv
  <2>5. QED
    BY <2>3, <2>4
<1>9. QED
  BY <1>7, <1>8

LEMMA SettleExact ==
  ASSUME ExactInv, Settle
  PROVE  ExactInv'
<1> DEFINE m == packet[at]
<1>1. UNCHANGED <<done, packet>> /\ at' = at + 1 /\ server' = "parse" /\ [Next]_vars
      /\ server = "settle"
  BY DEF Settle, ParseUnchanged, LoopUnchanged, Next, ServerStep
<1>2. /\ TypeOK /\ WholeInv' /\ at \in 1..Len(packet) /\ m \in SubPacket
      /\ at \in Nat \ {0} /\ Len(packet) \in Nat
  BY <1>1, LoopStep DEF InPacket
<1>3. /\ m.kind = "message" /\ AllRead(at) /\ ~Ends(m)
      /\ reply_sent => answer = SoFar(at)
      /\ ~reply_sent => FormOf(m) # "service" /\ answer = SoFar(at - 1)
  <2>1. m.kind = "message" /\ AllRead(at)
        /\ IF reply_sent THEN FormOf(m) = "service" /\ answer = SoFar(at)
                         ELSE FormOf(m) # "service" /\ answer = SoFar(at - 1)
    BY <1>1 DEF ExactInv
  <2>2. ~Ends(m)
    BY <1>2, <2>1 DEF AllRead
  <2>3. QED
    BY <2>1, <2>2
<1>4. IF ~reply_sent /\ m.type # HELLO THEN SendReply("default") ELSE NoReply
  BY DEF Settle
<1>5. answer' = SoFar(at)
  <2>1. CASE reply_sent
    BY <1>3, <1>4, <2>1 DEF NoReply
  <2>2. CASE ~reply_sent /\ m.type # HELLO
    <3>1. SendReply("default")
      BY <1>4, <2>2
    <3>2. FormOf(m) = "default"
      BY <1>3, <2>2 DEF FormOf, Ends
    <3>3. AllRead(at - 1)
      BY <1>2, <1>3 DEF AllRead
    <3>4. QED
      BY <1>2, <1>3, <2>2, <3>1, <3>2, <3>3, SendReplyExact DEF Forms
  <2>3. CASE ~reply_sent /\ m.type = HELLO
    <3>1. answer' = answer
      BY <1>4, <2>3 DEF NoReply
    <3>2. FormOf(m) = "none"
      BY <1>3, <2>3 DEF FormOf
    <3>3. QED
      BY <1>2, <1>3, <2>3, <3>1, <3>2, NoReplyExact
  <2>4. QED
    BY <2>1, <2>2, <2>3
<1>6. SoFar(at - 1)' = SoFar(at) /\ AllRead(at - 1)' = AllRead(at)
  <2>1. PICK n : n = at
    OBVIOUS
  <2>2. SoFar(n)' = SoFar(n) /\ AllRead(n)' = AllRead(n)
    BY <1>1, LoopStep
  <2>3. at' - 1 = n
    BY <1>1, <1>2, <2>1
  <2>4. QED
    BY <2>1, <2>2, <2>3
<1>7. (at \in 1..(Len(packet) + 1))'
  BY <1>1, <1>2
<1>8. (AllRead(at - 1) /\ answer = SoFar(at - 1))'
  BY <1>3, <1>5, <1>6
<1>9. QED
  BY <1>1, <1>2, <1>7, <1>8 DEF ExactInv

\* What has been pushed depends on the sub-packets read, not on those behind them.
LEMMA SoFarStays ==
  ASSUME TypeOK, TypeOK', done' = done, NEW n \in Nat, n <= Len(packet), n <= Len(packet'),
         \A i \in 1..n : packet'[i] = packet[i]
  PROVE  SoFar(n)' = SoFar(n) /\ AllRead(n)' = AllRead(n)
<1> DEFINE before == Upto(Parts(Asked), n)
           after == Upto(Parts(Asked'), n)
<1>1. /\ Parts(Asked) \in Chunks /\ Len(Parts(Asked)) = Len(packet)
      /\ \A i \in 1..Len(packet) : Parts(Asked)[i] = Part(Asked, i)
      /\ Len(packet) \in Nat
  BY PartsProperties
<1>2. /\ Parts(Asked') \in Chunks /\ Len(Parts(Asked')) = Len(packet')
      /\ \A i \in 1..Len(packet') : Parts(Asked')[i] = Part(Asked', i)
      /\ Len(packet') \in Nat
  <2>1. (/\ Parts(Asked) \in Chunks /\ Len(Parts(Asked)) = Len(packet)
         /\ \A i \in 1..Len(packet) : Parts(Asked)[i] = Part(Asked, i)
         /\ Len(packet) \in Nat)'
    BY PartsProperties, PTL
  <2> QED
    BY <2>1
<1>3. \A i \in 1..n : Part(Asked', i) = Part(Asked, i)
  <2> SUFFICES ASSUME NEW i \in 1..n PROVE Part(Asked', i) = Part(Asked, i)
    OBVIOUS
  <2>1. /\ Asked.packet = packet /\ Asked'.packet = packet' /\ Asked.no = done + 1
        /\ Asked'.no = done + 1 /\ packet'[i] = packet[i]
    BY DEF Asked
  <2>2. IsRead(packet', i) = IsRead(packet, i)
    BY DEF IsRead
  <2> QED
    BY <2>1, <2>2 DEF Part, ReplyTo
<1>4. before \in Chunks /\ Len(before) = n /\ \A i \in 1..n : before[i] = Parts(Asked)[i]
  BY <1>1, UptoProperties
<1>5. after \in Chunks /\ Len(after) = n /\ \A i \in 1..n : after[i] = Parts(Asked')[i]
  BY <1>2, UptoProperties
<1>6. \A i \in 1..n : after[i] = before[i]
  BY <1>1, <1>2, <1>3, <1>4, <1>5
<1> HIDE DEF before, after
<1>7. after = before
  BY <1>4, <1>5, <1>6, SeqEqual DEF Chunks
<1>8. SoFar(n)' = FlattenSeq(after) /\ SoFar(n) = FlattenSeq(before)
  BY DEF SoFar, before, after
<1>9. AllRead(n)' = AllRead(n)
  BY DEF AllRead
<1> QED
  BY <1>7, <1>8, <1>9

LEMMA TrailingExact ==
  ASSUME ExactInv, ReadTrailing \/ ReadAgain
  PROVE  ExactInv'
<1>1. /\ [Next]_vars /\ server = "parse" /\ server' = "parse" /\ at = Len(packet)
      /\ UNCHANGED <<at, done, answer>>
  BY DEF ReadTrailing, ReadAgain, Parsing, NoReply, ParseUnchanged, LoopUnchanged, Next,
         ServerStep
<1>2. TypeOK /\ TypeOK' /\ WholeInv'
  BY <1>1, NextWhole DEF ExactInv, WholeInv
<1>3. /\ at \in Nat \ {0} /\ Len(packet) \in Nat /\ packet \in Seq(SubPacket)
      /\ AllRead(at - 1) /\ answer = SoFar(at - 1)
  BY <1>1, <1>2 DEF ExactInv, TypeOK, Packet
<1>4. /\ at <= Len(packet') /\ Len(packet') \in Nat
      /\ \A i \in 1..(at - 1) : packet'[i] = packet[i]
  <2>1. CASE packet' = packet
    BY <1>1, <1>3, <2>1
  <2>2. CASE ReadTrailing
    <3>1. PICK m \in Guesses :
            \/ packet' = [packet EXCEPT ![at] = m]
            \/ packet' = Append([packet EXCEPT ![at] = m], Trailing)
      BY <2>2 DEF ReadTrailing
    <3>2. m \in SubPacket /\ Trailing \in SubPacket
      BY PacketsAssumption DEF Trailing, SubPacket, Kinds, Calls
    <3> DEFINE read == [packet EXCEPT ![at] = m]
    <3>3. /\ read \in Seq(SubPacket) /\ Len(read) = Len(packet)
          /\ \A i \in 1..(at - 1) : read[i] = packet[i]
      BY <1>1, <1>3, <3>2
    <3> HIDE DEF read
    <3>4. /\ Len(Append(read, Trailing)) = Len(packet) + 1
          /\ \A i \in 1..(at - 1) : Append(read, Trailing)[i] = packet[i]
      BY <1>1, <1>3, <3>2, <3>3, AppendProperties
    <3> QED
      BY <1>1, <1>3, <3>1, <3>3, <3>4 DEF read
  <2> QED
    BY <2>1, <2>2 DEF ReadAgain, ParseUnchanged
<1>5. PICK n \in Nat : n = at - 1 /\ n <= Len(packet) /\ n <= Len(packet')
  BY <1>1, <1>3, <1>4
<1>6. SoFar(n)' = SoFar(n) /\ AllRead(n)' = AllRead(n)
  BY <1>1, <1>2, <1>4, <1>5, SoFarStays
<1>7. (AllRead(at - 1) /\ answer = SoFar(at - 1))'
  BY <1>1, <1>3, <1>5, <1>6
<1>8. (at \in 1..(Len(packet) + 1))'
  BY <1>1, <1>3, <1>4
<1> QED
  BY <1>1, <1>2, <1>7, <1>8 DEF ExactInv

-----------------------------------------------------------------------------
(* What trailing bytes have been read as.                                  *)

EndsInTrailing(p) == p # <<>> /\ p[Len(p)].kind = "trailing"

\* All but the last sub-packet of p, and a few guesses.
ReadFrom(p, r) ==
  IF EndsInTrailing(p)
    THEN /\ Len(r) \in Len(p)..(Len(p) + MaxGuesses)
         /\ \A i \in 1..(Len(p) - 1) : r[i] = p[i]
         /\ \A i \in Len(p)..Len(r) : r[i] \in Guesses \cup {Trailing}
    ELSE r = p

\* That is what Readings says.
LEMMA ReadFromReadings ==
  ASSUME NEW p \in Packet, NEW r \in Packet, ReadFrom(p, r)
  PROVE  r \in Readings(p)
<1>1. CASE ~EndsInTrailing(p)
  BY <1>1 DEF ReadFrom, Readings, EndsInTrailing
<1>2. CASE EndsInTrailing(p)
  <2> DEFINE front == SubSeq(p, 1, Len(p) - 1)
             n == Len(r) - Len(p) + 1
             g == [i \in 1..n |-> r[Len(p) - 1 + i]]
             both == front \o g
  <2>1. /\ p \in Seq(SubPacket) /\ r \in Seq(SubPacket) /\ p # <<>>
        /\ Len(p) \in Nat \ {0} /\ Len(r) \in Nat /\ MaxGuesses \in Nat
        /\ Len(r) \in Len(p)..(Len(p) + MaxGuesses)
        /\ \A i \in 1..(Len(p) - 1) : r[i] = p[i]
        /\ \A i \in Len(p)..Len(r) : r[i] \in Guesses \cup {Trailing}
    BY <1>2, EmptySeq, SizesAssumption DEF Packet, ReadFrom, EndsInTrailing
  <2>2. n \in 1..(MaxGuesses + 1)
    BY <2>1
  <2>3. \A i \in 1..n : Len(p) - 1 + i \in Len(p)..Len(r)
    BY <2>1
  <2>4. g \in [1..n -> Guesses \cup {Trailing}]
    BY <2>1, <2>3
  <2>5. g \in SomeGuesses
    BY <2>2, <2>4 DEF SomeGuesses
  <2>6. /\ front \in Seq(SubPacket) /\ Len(front) = Len(p) - 1
        /\ \A i \in 1..(Len(p) - 1) : front[i] = p[i]
    <3>1. \A i \in 1..(Len(p) - 1) : p[i] \in SubPacket
      BY <2>1, ElementOfSeq
    <3>0. Len(p) - 1 \in Nat /\ Len(p) - 1 <= Len(p)
      BY <2>1
    <3>2. PICK k \in Nat : k = Len(p) - 1 /\ k <= Len(p)
      BY <3>0, Zenon
    <3>3. front = SubSeq(p, 1, k) /\ \A i \in 1..k : p[i] \in SubPacket
      BY <3>1, <3>2
    <3>4. /\ SubSeq(p, 1, k) \in Seq(SubPacket) /\ Len(SubSeq(p, 1, k)) = k
          /\ \A i \in 1..k : SubSeq(p, 1, k)[i] = p[i]
      BY <2>1, <3>2, <3>3, SubSeqProperties
    <3> QED
      BY <3>2, <3>3, <3>4
  <2>7. g \in Seq(SubPacket) /\ Len(g) = n
    <3>1. \A i \in 1..n : g[i] \in SubPacket
      BY <2>1, <2>3
    <3> QED
      BY <2>2, <2>4, <3>1
  <2>8. \A i \in 1..n : g[i] = r[Len(p) - 1 + i]
    OBVIOUS
  <2>13. n \in Nat
    BY <2>2
  <2>14. n = Len(r) - Len(p) + 1
    OBVIOUS
  <2> HIDE DEF front, g, n
  <2>9. /\ both \in Seq(SubPacket) /\ Len(both) = Len(p) - 1 + n
        /\ \A i \in 1..(Len(p) - 1 + n) :
             both[i] = IF i <= Len(p) - 1 THEN front[i] ELSE g[i - (Len(p) - 1)]
    <3>1. front \in Seq(SubPacket) /\ g \in Seq(SubPacket)
      BY <2>6, <2>7
    <3>2. /\ both \in Seq(SubPacket) /\ Len(both) = Len(front) + Len(g)
          /\ \A i \in 1..(Len(front) + Len(g)) :
               both[i] = IF i <= Len(front) THEN front[i] ELSE g[i - Len(front)]
      BY <3>1, ConcatProperties
    <3> HIDE DEF both
    <3> QED
      BY <2>6, <2>7, <3>2
  <2>10. Len(p) - 1 + n = Len(r)
    BY <2>1, <2>14
  <2> HIDE DEF both
  <2>11. \A i \in 1..Len(r) : both[i] = r[i]
    <3> SUFFICES ASSUME NEW i \in 1..Len(r) PROVE both[i] = r[i]
      OBVIOUS
    <3>1. CASE i <= Len(p) - 1
      <4>1. i \in 1..(Len(p) - 1)
        BY <2>1, <3>1
      <4> QED
        BY <2>1, <2>6, <2>9, <2>10, <3>1, <4>1
    <3>2. CASE ~(i <= Len(p) - 1)
      <4>1. i - (Len(p) - 1) \in 1..n /\ Len(p) - 1 + (i - (Len(p) - 1)) = i
        BY <2>1, <2>14, <3>2
      <4> QED
        BY <2>8, <2>9, <2>10, <3>2, <4>1
    <3> QED
      BY <3>1, <3>2
  <2>12. both = r
    BY <2>1, <2>9, <2>10, <2>11, SeqEqual
  <2> QED
    BY <1>2, <2>5, <2>12 DEF Readings, EndsInTrailing, both, front
<1> QED
  BY <1>1, <1>2

ReadInv ==
  /\ TypeOK /\ incoming \in Seq(Packets)
  /\ server # "idle" => ReadFrom(taken, packet)

\* Reading trailing bytes keeps to it.
LEMMA TrailingRead ==
  ASSUME TypeOK, ReadFrom(taken, packet), ReadTrailing
  PROVE  ReadFrom(taken, packet')
<1>1. PICK m \in Guesses :
        \/ packet' = [packet EXCEPT ![at] = m]
        \/ /\ Len(packet) < Len(taken) + MaxGuesses
           /\ packet' = Append([packet EXCEPT ![at] = m], Trailing)
  BY DEF ReadTrailing
<1>2. /\ at = Len(packet) /\ packet[at].kind = "trailing" /\ at \in Nat \ {0}
      /\ packet \in Seq(SubPacket) /\ taken \in Seq(SubPacket)
      /\ Len(packet) \in Nat /\ Len(taken) \in Nat /\ MaxGuesses \in Nat
  BY LenProperties, SizesAssumption DEF ReadTrailing, Parsing, TypeOK, Packet
<1>3. m \in SubPacket /\ Trailing \in SubPacket
  BY PacketsAssumption DEF Trailing, SubPacket, Kinds, Calls
<1>4. EndsInTrailing(taken)
  BY <1>2, EmptySeq DEF ReadFrom, EndsInTrailing
<1>5. /\ Len(packet) \in Len(taken)..(Len(taken) + MaxGuesses)
      /\ \A i \in 1..(Len(taken) - 1) : packet[i] = taken[i]
      /\ \A i \in Len(taken)..Len(packet) : packet[i] \in Guesses \cup {Trailing}
  BY <1>4 DEF ReadFrom
<1>6. Len(taken) # 0
  BY <1>2, <1>4, EmptySeq DEF EndsInTrailing
<1> DEFINE read == [packet EXCEPT ![at] = m]
<1>7. /\ read \in Seq(SubPacket) /\ Len(read) = Len(packet) /\ read[at] = m
      /\ \A i \in 1..(at - 1) : read[i] = packet[i]
  BY <1>2, <1>3
<1> HIDE DEF read
<1>8. /\ \A i \in 1..(Len(taken) - 1) : read[i] = taken[i]
      /\ \A i \in Len(taken)..Len(packet) : read[i] \in Guesses \cup {Trailing}
  <2>1. \A i \in 1..(Len(taken) - 1) : i \in 1..(at - 1)
    BY <1>2, <1>5
  <2>2. ASSUME NEW i \in Len(taken)..Len(packet) PROVE read[i] \in Guesses \cup {Trailing}
    <3>1. i = at \/ i \in 1..(at - 1)
      BY <1>2, <1>6
    <3> QED
      BY <1>1, <1>5, <1>7, <3>1
  <2> QED
    BY <1>5, <1>7, <2>1, <2>2
<1>9. CASE packet' = read
  BY <1>4, <1>5, <1>7, <1>8, <1>9 DEF ReadFrom
<1>10. CASE Len(packet) < Len(taken) + MaxGuesses /\ packet' = Append(read, Trailing)
  <2>1. /\ Len(packet') = Len(packet) + 1 /\ packet'[Len(packet) + 1] = Trailing
        /\ \A i \in 1..Len(packet) : packet'[i] = read[i]
    BY <1>3, <1>7, <1>10, AppendProperties
  <2>2. Len(packet') \in Len(taken)..(Len(taken) + MaxGuesses)
    BY <1>2, <1>5, <1>10, <2>1
  <2>3. \A i \in 1..(Len(taken) - 1) : packet'[i] = taken[i]
    <3>1. \A i \in 1..(Len(taken) - 1) : i \in 1..Len(packet)
      BY <1>2, <1>5
    <3> QED
      BY <1>8, <2>1, <3>1
  <2>4. ASSUME NEW i \in Len(taken)..Len(packet') PROVE packet'[i] \in Guesses \cup {Trailing}
    <3>1. i = Len(packet) + 1 \/ (i \in Len(taken)..Len(packet) /\ i \in 1..Len(packet))
      BY <1>2, <1>6, <2>1
    <3> QED
      BY <1>8, <2>1, <3>1
  <2> QED
    BY <1>4, <2>2, <2>3, <2>4 DEF ReadFrom
<1> QED
  BY <1>1, <1>9, <1>10 DEF read

\* A packet as it is accepted is a reading of itself.
LEMMA ReadItself ==
  ASSUME NEW p \in Packets
  PROVE  ReadFrom(p, p)
<1>1. CASE ~EndsInTrailing(p)
  BY <1>1 DEF ReadFrom
<1>2. CASE EndsInTrailing(p)
  <2>1. p \in Seq(SubPacket) /\ Len(p) \in Nat \ {0} /\ MaxGuesses \in Nat
    BY <1>2, EmptySeq, PacketsAssumption, SizesAssumption DEF EndsInTrailing, Packet
  <2>2. p[Len(p)] = Trailing
    <3>1. Len(p) \in DOMAIN p
      BY <2>1
    <3> QED
      BY <1>2, <3>1, PacketsAssumption DEF EndsInTrailing
  <2>3. \A i \in Len(p)..Len(p) : i = Len(p)
    BY <2>1
  <2> QED
    BY <1>2, <2>1, <2>2, <2>3 DEF ReadFrom
<1> QED
  BY <1>1, <1>2

LEMMA NextRead == ReadInv /\ InPacket /\ [Next]_vars => ReadInv'
<1> SUFFICES ASSUME ReadInv, InPacket, [Next]_vars
             PROVE  incoming' \in Seq(Packets) /\ (server' # "idle" => ReadFrom(taken, packet)')
  BY NextType DEF ReadInv
<1>1. /\ TypeOK /\ incoming \in Seq(Packets)
      /\ server # "idle" => ReadFrom(taken, packet)
  BY DEF ReadInv
<1>2. ASSUME NEW p \in Packets, Send(p)
      PROVE  incoming' \in Seq(Packets) /\ UNCHANGED <<server, taken, packet>>
  BY <1>1, <1>2 DEF Send, serverVars
<1>3. CASE RunFrame
  <2>1. incoming' \in Seq(Packets) /\ taken' \in Packets /\ packet' = taken'
    BY <1>1, <1>3, HeadTailProperties DEF RunFrame
  <2> QED
    BY <2>1, ReadItself
<1>4. CASE ReadTrailing
  BY <1>1, <1>4, TrailingRead DEF ReadTrailing, Parsing, LoopUnchanged
<1>5. CASE UNCHANGED <<incoming, taken, packet>> /\ (server' # "idle" => server # "idle")
  BY <1>1, <1>5
<1>6. \/ \E p \in Packets : Send(p)
      \/ RunFrame \/ ReadTrailing
      \/ UNCHANGED <<incoming, taken, packet>> /\ (server' # "idle" => server # "idle")
  BY DEF Next, ServerStep, RecvTest, RecvPop, ParseEmpty, ParseConnection, ParseOverlong,
         ParseMessage, ParseEnd, ReadAgain, CallHandler, Settle, FrameDone, Parsing,
         ParseUnchanged, LoopUnchanged, serverVars, vars
<1> QED
  BY <1>1, <1>2, <1>3, <1>4, <1>5, <1>6

\* Steps of the game threads do not touch what the thread is doing.
LEMMA OthersExact ==
  ASSUME ExactInv, [Next]_vars, UNCHANGED <<serverVars, done, answer>>
  PROVE  ExactInv'
<1>1. WholeInv' /\ TypeOK
  BY NextWhole DEF ExactInv, WholeInv
<1>2. PICK n, k : n = at /\ k = n - 1
  OBVIOUS
<1>3. /\ SoFar(n)' = SoFar(n) /\ SoFar(k)' = SoFar(k) /\ AllRead(n)' = AllRead(n)
      /\ AllRead(k)' = AllRead(k) /\ AnswerTo(Asked)' = AnswerTo(Asked)
  BY SameParts DEF serverVars
<1>4. UNCHANGED <<server, at, packet, reply_sent, answer>>
  BY DEF serverVars
<1>5. QED
  BY <1>1, <1>2, <1>3, <1>4 DEF ExactInv

LEMMA NextExact == ExactInv /\ [Next]_vars => ExactInv'
<1> SUFFICES ASSUME ExactInv, [Next]_vars
             PROVE  ExactInv'
  OBVIOUS
<1>1. ASSUME UNCHANGED <<serverVars, done, answer>>
      PROVE  ExactInv'
  BY <1>1, OthersExact
<1>2. CASE FrameDone
  <2>1. WholeInv' /\ server' = "idle"
    BY <1>2, NextWhole DEF ExactInv, FrameDone
  <2>2. QED
    BY <2>1 DEF ExactInv
<1>3. CASE ServerStep
  BY <1>2, <1>3, RunFrameExact, ParseLastExact, ParseOverlongExact, ParseEndExact,
     ParseMessageExact, TrailingExact, CallHandlerExact, SettleExact DEF ServerStep
<1>4. ~ServerStep => UNCHANGED <<serverVars, done, answer>>
  BY DEF Next, Send, RecvTest, RecvPop, vars
<1>5. QED
  BY <1>1, <1>3, <1>4

-----------------------------------------------------------------------------
(* The server implements the stream of exact answers.                      *)

\* Every packet accepted is waiting or done, so the numbers stay in bounds.
CountInv ==
  /\ TypeOK
  /\ done + Len(Waiting) = Len(log)

LEMMA NextCount == CountInv /\ WholeInv /\ [Next]_vars => CountInv'
<1> SUFFICES ASSUME CountInv, WholeInv, [Next]_vars
             PROVE  (done + Len(Waiting) = Len(log))'
  BY NextWhole DEF CountInv, WholeInv
<1>1. /\ TypeOK /\ done + Len(Waiting) = Len(log)
      /\ Waiting \in Seq(Packet) /\ done \in Nat /\ Len(log) \in Nat
      /\ incoming \in Seq(Packet) /\ log \in Seq(Packet)
  BY WaitingType, LenProperties DEF CountInv, TypeOK
<1>2. ASSUME NEW p \in Packets, Send(p)
      PROVE  (done + Len(Waiting) = Len(log))'
  <2>1. p \in Packet
    BY PacketsAssumption
  <2>2. Current' = Current /\ incoming' = Append(incoming, p) /\ log' = Append(log, p)
        /\ done' = done /\ Current \in Seq(Packet)
    BY <1>1, <1>2, WaitingType DEF Send, serverVars, Current
  <2>3. Waiting' = Append(Waiting, p)
    BY <1>1, <2>1, <2>2 DEF Waiting
  <2>4. Len(Append(Waiting, p)) = Len(Waiting) + 1 /\ Len(Append(log, p)) = Len(log) + 1
    BY <1>1, <2>1
  <2>5. Len(Waiting) \in Nat
    BY <1>1, LenProperties
  <2>6. QED
    BY <1>1, <2>2, <2>3, <2>4, <2>5
<1>3. CASE RunFrame
  <2>1. Pending' = Pending
    BY <1>3, RunFrameSimulates
  <2>2. incoming # <<>> /\ Current = <<>> /\ Current' = <<Head(incoming)>>
        /\ incoming' = Tail(incoming) /\ UNCHANGED <<done, log>>
    BY <1>3 DEF RunFrame, Current
  <2>3. Waiting' = Waiting
    BY <1>1, <2>2 DEF Waiting
  <2>4. QED
    BY <1>1, <2>2, <2>3
<1>4. CASE FrameDone
  <2>1. Waiting = <<taken>> \o incoming /\ Waiting' = incoming /\ done' = done + 1 /\ log' = log
    BY <1>1, <1>4, ConcatEmptySeq DEF FrameDone, Waiting, Current
  <2>2. Len(<<taken>> \o incoming) = 1 + Len(incoming) /\ Len(incoming) \in Nat
    BY <1>1, LenProperties DEF TypeOK
  <2>3. QED
    BY <1>1, <2>1, <2>2
<1>5. CASE \/ ParseEmpty \/ ParseConnection \/ ParseOverlong \/ ParseMessage
           \/ ParseEnd \/ ReadTrailing \/ ReadAgain \/ CallHandler \/ Settle
  <2>1. server # "idle" /\ server' # "idle"
    BY <1>5 DEF ParseEmpty, ParseConnection, ParseOverlong, ParseMessage, ParseEnd,
                ReadTrailing, ReadAgain, CallHandler, Settle, Parsing
  <2>2. UNCHANGED <<taken, incoming, done, log>>
    BY <1>5 DEF ParseEmpty, ParseConnection, ParseOverlong, ParseMessage, ParseEnd,
                ReadTrailing, ReadAgain, CallHandler, Settle, ParseUnchanged, LoopUnchanged
  <2>3. QED
    BY <1>1, <2>1, <2>2 DEF Waiting, Current
<1>6. CASE UNCHANGED <<serverVars, incoming, done, log>>
  BY <1>1, <1>6 DEF serverVars, Waiting, Current
<1>7. QED
  BY <1>2, <1>3, <1>4, <1>5, <1>6 DEF Next, ServerStep, RecvTest, RecvPop, vars

\* The game gets, to each packet it sent and in the order it sent them, exactly
\* the bytes of AnswerTo, which never mentions the parse loop, reply_sent_ or the
\* mutex: no reply is missing, doubled or torn. Bytes that trail behind a packet
\* may be read as anything, and add only what that calls for.
THEOREM ExactReplies == Spec => ImplementsReplyStream
<1> DEFINE Inv == ExactInv /\ CountInv /\ ReadInv
<1>1. Init => Inv /\ Exact!Init
  <2> SUFFICES ASSUME Init PROVE Inv /\ Exact!Init
    OBVIOUS
  <2>1. WholeInv /\ TypeOK
    BY InitWhole DEF WholeInv
  <2>2. Pending = <<>> /\ finished = <<>>
    BY InitSimulates DEF Stream!Init
  <2>3. server = "idle"
    BY DEF Init
  <2>4. ExactInv
    BY <2>1, <2>3 DEF ExactInv
  <2>5. Waiting = <<>> /\ Len(<<>>) = 0 /\ done = 0 /\ log = <<>>
    BY EmptySeq, ConcatEmptySeq DEF Init, Waiting, Current
  <2>6. QED
    BY <2>1, <2>2, <2>3, <2>4, <2>5, EmptySeq DEF CountInv, ReadInv, Init, Exact!Init
<1>2. Inv /\ [Next]_vars => Inv'
  BY NextExact, NextCount, NextRead DEF ExactInv, WholeInv
<1>3. Inv /\ [Next]_vars => [Exact!Next]_(Exact!vars)
  <2> SUFFICES ASSUME ExactInv, CountInv, ReadInv, [Next]_vars
               PROVE  Exact!Next \/ UNCHANGED <<Pending, finished>>
    BY DEF Exact!vars
  <2>1. WholeInv /\ TypeOK
    BY DEF ExactInv, CountInv
  <2>2. ASSUME NEW p \in Packets, Send(p)
        PROVE  Exact!Next
    <3> DEFINE q == [no |-> done + Len(Waiting) + 1, packet |-> p]
    <3>1. Len(log) < MaxPackets /\ done + Len(Waiting) = Len(log) /\ Len(log) \in Nat
          /\ MaxPackets \in Nat /\ done \in Nat /\ Len(Waiting) \in Nat
      BY <2>1, <2>2, WaitingType, LenProperties, SizesAssumption DEF Send, CountInv, TypeOK
    <3>2. q \in [no : 1..MaxPackets, packet : Packets]
      BY <3>1
    <3>3. Exact!Accept(q)
      BY <2>1, <2>2, SendPends DEF Exact!Accept
    <3>4. QED
      BY <3>2, <3>3 DEF Exact!Next
  <2>3. ASSUME NEW r \in Readers, RecvPop(r)
        PROVE  Exact!Next \/ UNCHANGED <<Pending, finished>>
    <3>1. CASE finished' = finished
      BY <2>1, <2>3, <3>1, RecvReads
    <3>2. ASSUME NEW n \in 1..Len(finished), finished' = SubSeq(finished, n + 1, Len(finished))
          PROVE  Exact!Next
      BY <2>1, <2>3, <3>2, RecvReads DEF Exact!Read, Exact!Next
    <3>3. QED
      BY <2>1, <2>3, <3>1, <3>2, RecvReads
  <2>4. CASE RunFrame
    BY <2>1, <2>4, RunFrameSimulates
  <2>5. CASE FrameDone
    <3>1. answer = AnswerTo(Asked)
      BY <2>5 DEF ExactInv, FrameDone
    <3>2. answer \in ExactAnswers(Head(Pending))
      <4>1. packet \in Readings(taken)
        BY <2>1, <2>5, ReadFromReadings DEF ReadInv, FrameDone, TypeOK
      <4>2. Head(Pending) = [no |-> done + 1, packet |-> taken]
        BY <2>1, <2>5, FrameDoneAnswers
      <4>3. Asked = [Head(Pending) EXCEPT !.packet = packet] /\ Head(Pending).packet = taken
        BY <4>2 DEF Asked
      <4> QED
        BY <3>1, <4>1, <4>3 DEF ExactAnswers
    <3>3. Exact!Answer
      BY <2>1, <2>5, <3>2, FrameDoneAnswers DEF Exact!Answer
    <3>4. QED
      BY <3>3 DEF Exact!Next
  <2>6. ASSUME NEW r \in Readers, NEW n \in ReadSizes, RecvTest(r, n)
        PROVE  UNCHANGED <<Pending, finished>>
    BY <2>6 DEF RecvTest, serverVars, Pending, Waiting, Current
  <2>7. CASE \/ ParseEmpty \/ ParseConnection \/ ParseOverlong \/ ParseMessage
             \/ ParseEnd \/ ReadTrailing \/ ReadAgain \/ CallHandler \/ Settle
    <3>1. server # "idle" /\ server' # "idle"
      BY <2>7 DEF ParseEmpty, ParseConnection, ParseOverlong, ParseMessage, ParseEnd,
                  ReadTrailing, ReadAgain, CallHandler, Settle, Parsing
    <3>2. UNCHANGED <<taken, incoming, done, finished>>
      BY <2>7 DEF ParseEmpty, ParseConnection, ParseOverlong, ParseMessage, ParseEnd,
                  ReadTrailing, ReadAgain, CallHandler, Settle, ParseUnchanged, LoopUnchanged
    <3>3. QED
      BY <3>1, <3>2 DEF Pending, Waiting, Current
  <2>8. CASE UNCHANGED vars
    BY <2>8 DEF vars, serverVars, Pending, Waiting, Current
  <2>9. QED
    BY <2>2, <2>3, <2>4, <2>5, <2>6, <2>7, <2>8 DEF Next, ServerStep
<1>4. QED
  BY <1>1, <1>2, <1>3, PTL DEF Spec, ImplementsReplyStream, Exact!Spec

-----------------------------------------------------------------------------
(* The messages in the bytes of a packet, for any stream of messages.      *)

CONSTANTS AnyStreams, AnyGarbage, AnyConnection, MostReplies
VARIABLES messages, span, current, parsing, threw, handled, replied

Framing == INSTANCE PacketFraming WITH
  Streams <- AnyStreams, Garbage <- AnyGarbage, Connection <- AnyConnection,
  MaxReplies <- MostReplies, packet <- span, replies <- replied

\* Messages have sizes, other than those that mean something else, and the history
\* has room for them.
StreamsOfSizes ==
  /\ MostReplies \in Nat \ {0} /\ AnyGarbage \subseteq Int
  /\ \A s \in AnyStreams : s \in Seq(Nat \ {0, AnyConnection}) /\ Len(s) <= MostReplies

Total == Len(messages)

\* Summing up the sizes, up to the n-th.
Sums(f, n) == f = [i \in 0..n |-> IF i = 0 THEN 0 ELSE f[i - 1] + 4 + messages[i]]

LEMMA MessagesAre ==
  ASSUME StreamsOfSizes, messages \in AnyStreams
  PROVE  /\ Total \in Nat /\ Total <= MostReplies /\ DOMAIN messages = 1..Total
         /\ \A i \in 1..Total : messages[i] \in Nat \ {0} /\ messages[i] # AnyConnection
<1>1. messages \in Seq(Nat \ {0, AnyConnection}) /\ Len(messages) <= MostReplies
  BY DEF StreamsOfSizes
<1>2. \A i \in 1..Len(messages) : messages[i] \in Nat \ {0, AnyConnection}
  BY <1>1, ElementOfSeq
<1> QED
  BY <1>1, <1>2, LenProperties DEF Total

LEMMA SumsExist ==
  ASSUME NEW n \in Nat
  PROVE  \E f : Sums(f, n)
<1> DEFINE S == {m \in Nat : \E f : Sums(f, m)}
<1>1. 0 \in S
  <2>1. Sums([i \in 0..0 |-> 0], 0)
    BY DEF Sums
  <2> QED
    BY <2>1
<1>2. ASSUME NEW m \in S PROVE m + 1 \in S
  <2>1. PICK f : Sums(f, m)
    OBVIOUS
  <2> DEFINE g == [i \in 0..(m + 1) |-> IF i <= m THEN f[i] ELSE f[m] + 4 + messages[m + 1]]
  <2>2. ASSUME NEW i \in 0..(m + 1)
        PROVE  g[i] = IF i = 0 THEN 0 ELSE g[i - 1] + 4 + messages[i]
    <3>1. \A j \in 0..m : f[j] = IF j = 0 THEN 0 ELSE f[j - 1] + 4 + messages[j]
      BY <2>1 DEF Sums
    <3>2. i # 0 => i - 1 \in 0..m /\ g[i - 1] = f[i - 1]
      OBVIOUS
    <3> QED
      BY <3>1, <3>2
  <2>3. g = [i \in 0..(m + 1) |-> g[i]]
    OBVIOUS
  <2>4. Sums(g, m + 1)
    <3> HIDE DEF g
    <3> QED
      BY <2>2, <2>3 DEF Sums
  <2> QED
    BY <2>4
<1>3. S = Nat
  <2> HIDE DEF S
  <2>1. S \in SUBSET Nat
    BY DEF S
  <2> QED
    BY <1>1, <1>2, <2>1, Induction
<1> QED
  BY <1>3

\* Each message begins behind the one before it.
LEMMA LengthIs ==
  ASSUME Total \in Nat
  PROVE  \A n \in 0..Total :
           Framing!Length[n] = IF n = 0 THEN 0 ELSE Framing!Length[n - 1] + 4 + messages[n]
<1> DEFINE f == CHOOSE g : Sums(g, Total)
<1>1. Sums(f, Total)
  BY SumsExist
<1>2. Framing!Length = f
  BY DEF Framing!Length, Sums, Total, Framing!Field
<1> HIDE DEF f
<1> QED
  BY <1>1, <1>2 DEF Sums

LEMMA LengthType ==
  ASSUME StreamsOfSizes, messages \in AnyStreams
  PROVE  \A n \in 0..Total : Framing!Length[n] \in Nat
<1> DEFINE S == {n \in Nat : n \in 0..Total => Framing!Length[n] \in Nat}
<1>1. Total \in Nat /\ \A i \in 1..Total : messages[i] \in Nat
  BY MessagesAre
<1>2. 0 \in S
  BY <1>1, LengthIs
<1>3. ASSUME NEW n \in S PROVE n + 1 \in S
  BY <1>1, LengthIs
<1>4. S = Nat
  <2> HIDE DEF S
  <2>1. S \in SUBSET Nat
    BY DEF S
  <2> QED
    BY <1>2, <1>3, <2>1, Induction
<1> QED
  BY <1>1, <1>4

\* So they begin in their order, at different places.
LEMMA LengthGrows ==
  ASSUME StreamsOfSizes, messages \in AnyStreams,
         NEW a \in 0..Total, NEW b \in 0..Total, a < b
  PROVE  Framing!Length[a] + 4 + messages[a + 1] <= Framing!Length[b]
<1> DEFINE Below(n) == Framing!Length[a] + 4 + messages[a + 1] <= Framing!Length[n]
           S == {n \in Nat : n \in (a + 1)..Total => Below(n)}
<1>1. /\ Total \in Nat /\ \A i \in 1..Total : messages[i] \in Nat
      /\ \A n \in 0..Total : Framing!Length[n] \in Nat
      /\ \A n \in 0..Total :
           Framing!Length[n] = IF n = 0 THEN 0 ELSE Framing!Length[n - 1] + 4 + messages[n]
  BY MessagesAre, LengthType, LengthIs
<1>2. 0 \in S
  BY <1>1
<1>3. ASSUME NEW n \in S PROVE n + 1 \in S
  <2> SUFFICES ASSUME n + 1 \in (a + 1)..Total PROVE Below(n + 1)
    OBVIOUS
  <2>1. Framing!Length[n + 1] = Framing!Length[n] + 4 + messages[n + 1]
    BY <1>1
  <2>2. CASE n = a
    BY <1>1, <2>1, <2>2
  <2>3. CASE n # a
    BY <1>1, <2>1, <2>3
  <2> QED
    BY <2>2, <2>3
<1>4. S = Nat
  <2> HIDE DEF S
  <2>1. S \in SUBSET Nat
    BY DEF S
  <2> QED
    BY <1>2, <1>3, <2>1, Induction
<1> QED
  BY <1>1, <1>4

\* The same, of the places where messages begin.
LEMMA Beginnings ==
  ASSUME StreamsOfSizes, messages \in AnyStreams
  PROVE  /\ Framing!Begin(1) = 0
         /\ \A k \in 1..(Total + 1) : Framing!Begin(k) \in Nat
         /\ \A k \in 1..Total : Framing!Begin(k + 1) = Framing!Begin(k) + 4 + messages[k]
         /\ \A k, l \in 1..(Total + 1) :
              /\ k < l => Framing!Begin(k) < Framing!Begin(l)
              /\ Framing!Begin(k) = Framing!Begin(l) => k = l
              /\ Framing!Begin(k) < Framing!Begin(l) => k < l
              /\ k <= l => Framing!Begin(k) <= Framing!Begin(l)
<1>1. Total \in Nat /\ \A i \in 1..Total : messages[i] \in Nat
  BY MessagesAre
<1>2. \A k \in 1..(Total + 1) : Framing!Begin(k) \in Nat
  BY <1>1, LengthType DEF Framing!Begin
<1>3. Framing!Begin(1) = 0
  BY <1>1, LengthIs DEF Framing!Begin
<1>4. \A k \in 1..Total : Framing!Begin(k + 1) = Framing!Begin(k) + 4 + messages[k]
  <2> SUFFICES ASSUME NEW k \in 1..Total
               PROVE  Framing!Begin(k + 1) = Framing!Begin(k) + 4 + messages[k]
    OBVIOUS
  <2>1. Framing!Length[k] = Framing!Length[k - 1] + 4 + messages[k]
    BY <1>1, LengthIs
  <2> QED
    BY <2>1 DEF Framing!Begin
<1>5. \A k, l \in 1..(Total + 1) : k < l => Framing!Begin(k) < Framing!Begin(l)
  <2> SUFFICES ASSUME NEW k \in 1..(Total + 1), NEW l \in 1..(Total + 1), k < l
               PROVE  Framing!Begin(k) < Framing!Begin(l)
    OBVIOUS
  <2>1. k - 1 \in 0..Total /\ l - 1 \in 0..Total /\ k - 1 < l - 1 /\ k \in 1..Total
    BY <1>1
  <2>2. Framing!Length[k - 1] + 4 + messages[k - 1 + 1] <= Framing!Length[l - 1]
    BY <2>1, LengthGrows
  <2>3. k - 1 + 1 = k
    OBVIOUS
  <2> QED
    BY <1>1, <1>2, <2>1, <2>2, <2>3 DEF Framing!Begin
<1> QED
  BY <1>1, <1>2, <1>3, <1>4, <1>5

\* Of a packet that begins with message k, the first h messages are there whole,
\* or all of them are.
Inside(k, h) == k + h <= Total + 1 /\ Framing!Begin(k + h) <= span.to
AllInside(k, h) == k + h > Total \/ Framing!Begin(k + h + 1) > span.to
PlaceOf(k, j) == Framing!Place(Framing!Begin(k + j - 1) + 4, Framing!Begin(k + j))

\* The first h messages have been handled; and the parser either stands behind
\* them and has handled nothing else, or has come to the end of what is whole.
Progress(k, h) ==
  /\ Inside(k, h)
  /\ h <= Len(handled) /\ \A j \in 1..h : handled[j] = PlaceOf(k, j)
  /\ \/ Len(handled) = h /\ current = Framing!Begin(k + h) /\ (parsing \/ threw \/ AllInside(k, h))
     \/ AllInside(k, h) /\ Framing!Begin(k + h) < span.to

FramingTypes ==
  /\ messages \in AnyStreams
  /\ span \in [from : Nat, to : Nat] /\ span.from <= span.to
  /\ span.to <= Framing!Begin(Total + 1)
  /\ current \in span.from..span.to
  /\ parsing \in BOOLEAN /\ threw \in BOOLEAN
  /\ handled \in Seq([from : Nat, to : Nat])
  /\ replied \in 0..MostReplies

FramingInv ==
  /\ FramingTypes
  /\ \A k \in 1..(Total + 1) : Framing!Begin(k) = span.from => \E h \in Nat : Progress(k, h)

LEMMA FramingStart ==
  ASSUME StreamsOfSizes, Framing!Init
  PROVE  FramingInv
<1>1. /\ messages \in AnyStreams /\ span = [from |-> 0, to |-> 0] /\ current = 0
      /\ parsing = FALSE /\ threw = FALSE /\ handled = << >> /\ replied = 0
  BY DEF Framing!Init, Framing!Place
<1>2. Total \in Nat /\ \A i \in 1..Total : messages[i] \in Nat \ {0}
  BY <1>1, MessagesAre
<1>3. /\ \A k \in 1..(Total + 1) : Framing!Begin(k) \in Nat
      /\ Framing!Begin(1) = 0
      /\ \A k \in 1..Total : Framing!Begin(k + 1) = Framing!Begin(k) + 4 + messages[k]
      /\ \A k, l \in 1..(Total + 1) : Framing!Begin(k) = Framing!Begin(l) => k = l
  BY <1>1, Beginnings
<1>4. FramingTypes
  <2>1. span.to <= Framing!Begin(Total + 1) /\ << >> \in Seq([from : Nat, to : Nat])
    BY <1>1, <1>2, <1>3
  <2>2. MostReplies \in Nat
    BY DEF StreamsOfSizes
  <2>3. span \in [from : Nat, to : Nat] /\ span.from = 0 /\ span.to = 0
    BY <1>1
  <2>4. span.from <= span.to /\ current \in span.from..span.to /\ replied \in 0..MostReplies
    <3>1. current = 0 /\ replied = 0
      BY <1>1
    <3> QED
      BY <2>2, <2>3, <3>1
  <2>5. parsing \in BOOLEAN /\ threw \in BOOLEAN
    BY <1>1
  <2> QED
    BY <1>1, <2>1, <2>3, <2>4, <2>5 DEF FramingTypes
<1>5. ASSUME NEW k \in 1..(Total + 1), Framing!Begin(k) = span.from
      PROVE  Progress(k, 0)
  <2>1. k = 1
    BY <1>1, <1>2, <1>3, <1>5
  <2>2. AllInside(k, 0) /\ Inside(k, 0)
    BY <1>1, <1>2, <1>3, <2>1 DEF AllInside, Inside
  <2> QED
    BY <1>1, <1>3, <2>1, <2>2 DEF Progress
<1> QED
  BY <1>4, <1>5 DEF FramingInv

\* The places stay where they are.
LEMMA PlacesStay ==
  ASSUME UNCHANGED messages
  PROVE  /\ Total' = Total
         /\ Framing!Length' = Framing!Length
         /\ \A k : Framing!Begin(k)' = Framing!Begin(k)
         /\ \A k, j : PlaceOf(k, j)' = PlaceOf(k, j)
<1>1. Total' = Total /\ Framing!Length' = Framing!Length
  BY DEF Total, Framing!Length
<1>2. \A k : Framing!Begin(k)' = Framing!Begin(k)
  BY <1>1 DEF Framing!Begin
<1> QED
  BY <1>1, <1>2 DEF PlaceOf, Framing!Place

LEMMA SendFrames ==
  ASSUME StreamsOfSizes, FramingInv, NEW to, Framing!Send(to),
         to \in 1..Framing!Begin(Total + 1)
  PROVE  FramingInv'
<1>1. /\ ~parsing /\ to - span.to > 3 /\ to <= Framing!Begin(Total + 1)
      /\ span' = [from |-> span.to, to |-> to] /\ current' = span.to
      /\ parsing' = TRUE /\ threw' = FALSE /\ handled' = << >> /\ replied' = 0
      /\ UNCHANGED messages
  BY DEF Framing!Send, Framing!Place, Total
<1>2. FramingTypes /\ Total \in Nat
  BY MessagesAre DEF FramingInv, FramingTypes
<1>3. /\ \A k \in 1..(Total + 1) : Framing!Begin(k) \in Nat
      /\ Total' = Total /\ \A k : Framing!Begin(k)' = Framing!Begin(k)
  BY <1>1, <1>2, Beginnings, PlacesStay DEF FramingTypes
<1>4. Framing!Begin(Total + 1)' = Framing!Begin(Total + 1)
  BY <1>1, <1>3 DEF Total, Framing!Begin, Framing!Length
<1>5. FramingTypes'
  <2>1. /\ messages' \in AnyStreams /\ parsing' \in BOOLEAN /\ threw' \in BOOLEAN
        /\ handled' \in Seq([from : Nat, to : Nat])
    BY <1>1, <1>2, EmptySeq DEF FramingTypes
  <2>2. /\ span' \in [from : Nat, to : Nat] /\ span'.from <= span'.to
        /\ span'.to <= Framing!Begin(Total + 1)' /\ current' \in span'.from..span'.to
        /\ replied' \in 0..MostReplies
    BY <1>1, <1>2, <1>3, <1>4 DEF FramingTypes, StreamsOfSizes
  <2> QED
    BY <2>1, <2>2 DEF FramingTypes
<1>6. ASSUME NEW k \in 1..(Total + 1), Framing!Begin(k) = span'.from
      PROVE  Progress(k, 0)'
  <2>1. Inside(k, 0)'
    BY <1>1, <1>2, <1>3, <1>6 DEF Inside, FramingTypes
  <2> QED
    BY <1>1, <1>3, <1>6, <2>1 DEF Progress
<1> QED
  BY <1>3, <1>5, <1>6 DEF FramingInv

\* What the parser makes of the size field, and of a message that is there whole.
LEMMA SizeIs ==
  ASSUME StreamsOfSizes, FramingTypes, NEW m \in 1..Total,
         current = Framing!Begin(m), Framing!Begin(m + 1) <= span.to
  PROVE  /\ Framing!Sizes = {messages[m]} /\ Framing!AfterField = current + 4
         /\ ~Framing!TooLarge(messages[m])
         /\ Framing!CanRead(current + 4, messages[m])
         /\ current + 4 + messages[m] = Framing!Begin(m + 1)
         /\ messages[m] \in Nat \ {0} /\ messages[m] # AnyConnection
<1>1. /\ Total \in Nat /\ DOMAIN messages = 1..Total
      /\ \A i \in 1..Total : messages[i] \in Nat \ {0} /\ messages[i] # AnyConnection
  BY MessagesAre DEF FramingTypes
<1>2. /\ Framing!Begin(m) \in Nat
      /\ Framing!Begin(m + 1) = Framing!Begin(m) + 4 + messages[m]
      /\ \A i \in 1..Total : Framing!Begin(i) = current => i = m
  BY <1>1, Beginnings DEF FramingTypes
<1>3. span.from \in Nat /\ span.to \in Nat /\ span.from <= current
  BY DEF FramingTypes
<1>4. Framing!CanRead(current, Framing!Field)
  BY <1>1, <1>2, <1>3 DEF Framing!CanRead, Framing!Field
<1>5. {i \in DOMAIN messages : Framing!Begin(i) = current} = {m}
  BY <1>1, <1>2
<1>6. Framing!Sizes = {messages[m]}
  <2>1. Framing!Sizes = {messages[k] : k \in {i \in DOMAIN messages : Framing!Begin(i) = current}}
    BY <1>1, <1>4 DEF Framing!Sizes
  <2> QED
    BY <1>5, <2>1
<1>7. Framing!AfterField = current + 4
  BY <1>4 DEF Framing!AfterField, Framing!Field
<1> QED
  BY <1>1, <1>2, <1>3, <1>6, <1>7 DEF Framing!TooLarge, Framing!CanRead

\* What is not one of these is behind them.
LEMMA BehindTheWhole ==
  ASSUME StreamsOfSizes, FramingTypes, NEW k \in 1..(Total + 1), NEW h \in Nat, Progress(k, h)
  PROVE  \/ AllInside(k, h)
         \/ /\ k + h \in 1..Total /\ current = Framing!Begin(k + h)
            /\ Len(handled) = h /\ (parsing \/ threw)
            /\ Framing!Begin(k + h + 1) <= span.to
<1>1. /\ Total \in Nat /\ \A i \in 1..(Total + 1) : Framing!Begin(i) \in Nat
      /\ span.to \in Nat
  BY MessagesAre, Beginnings DEF FramingTypes
<1>2. CASE AllInside(k, h)
  BY <1>2
<1>3. CASE ~AllInside(k, h)
  BY <1>1, <1>3 DEF AllInside, Progress, Inside
<1> QED
  BY <1>2, <1>3

\* When parse_packet returns: not before a message that is there whole.
LEMMA ParsingStops ==
  ASSUME StreamsOfSizes, FramingInv,
         Framing!LastReply \/ Framing!Overlong \/ Framing!ParseEnds
  PROVE  FramingInv'
<1>1. /\ parsing' = FALSE /\ parsing
      /\ UNCHANGED <<messages, span, current, threw, handled>>
      /\ replied' = replied \/ replied' = (replied + 1) % MostReplies
  BY DEF Framing!LastReply, Framing!Overlong, Framing!ParseEnds, Framing!HasMoreData,
         Framing!Replied
<1>2. /\ FramingTypes /\ Total \in Nat /\ MostReplies \in Nat \ {0}
      /\ \A k \in 1..(Total + 1) : Framing!Begin(k) \in Nat
      /\ \A k \in 1..Total : Framing!Begin(k + 1) > Framing!Begin(k)
  <2>1. FramingTypes /\ messages \in AnyStreams
    BY DEF FramingInv, FramingTypes
  <2>2. \A k \in 1..Total : messages[k] \in Nat
    BY <2>1, MessagesAre
  <2>3. Total \in Nat /\ MostReplies \in Nat \ {0}
    BY <2>1, MessagesAre DEF StreamsOfSizes
  <2>4. /\ \A k \in 1..(Total + 1) : Framing!Begin(k) \in Nat
        /\ \A k \in 1..Total : Framing!Begin(k + 1) = Framing!Begin(k) + 4 + messages[k]
    BY <2>1, Beginnings
  <2> QED
    BY <2>1, <2>2, <2>3, <2>4
<1>3. Total' = Total /\ Framing!Length' = Framing!Length
      /\ (\A k : Framing!Begin(k)' = Framing!Begin(k))
      /\ (\A k, j : PlaceOf(k, j)' = PlaceOf(k, j))
  BY <1>1, PlacesStay
<1>4. Framing!Begin(Total + 1)' = Framing!Begin(Total + 1)
  BY <1>3 DEF Framing!Begin
<1>5. FramingTypes'
  <2>1. replied' \in 0..MostReplies
    BY <1>1, <1>2 DEF FramingTypes
  <2> QED
    BY <1>1, <1>2, <1>4, <2>1 DEF FramingTypes
<1>6. ASSUME NEW k \in 1..(Total + 1), Framing!Begin(k) = span.from
      PROVE  \E h \in Nat : Progress(k, h)'
  <2>1. PICK h \in Nat : Progress(k, h)
    BY <1>6 DEF FramingInv
  <2>2. AllInside(k, h)
    <3> SUFFICES ASSUME ~AllInside(k, h) PROVE FALSE
      OBVIOUS
    <3>1. /\ k + h \in 1..Total /\ current = Framing!Begin(k + h)
          /\ Framing!Begin(k + h + 1) <= span.to
      BY <1>2, <2>1, BehindTheWhole
    <3>2. /\ Framing!Sizes = {messages[k + h]}
          /\ ~Framing!TooLarge(messages[k + h])
          /\ messages[k + h] \in Nat \ {0} /\ messages[k + h] # AnyConnection
      BY <1>2, <3>1, SizeIs
    <3>3. span.to > current
      BY <1>2, <3>1 DEF FramingTypes
    <3>4. ~Framing!LastReply /\ ~Framing!Overlong
      BY <3>2 DEF Framing!LastReply, Framing!Overlong
    <3>5. ~Framing!ParseEnds
      BY <1>1, <3>3 DEF Framing!ParseEnds, Framing!HasMoreData
    <3> QED
      BY <3>4, <3>5
  <2>3. Inside(k, h)' = Inside(k, h) /\ AllInside(k, h)' = AllInside(k, h)
    BY <1>1, <1>3 DEF Inside, AllInside, Framing!Begin
  <2>4. Framing!Begin(k + h)' = Framing!Begin(k + h)
    BY <1>3
  <2>5. Progress(k, h)'
    BY <1>1, <1>3, <2>1, <2>2, <2>3, <2>4 DEF Progress
  <2> QED
    BY <2>5
<1>7. \A k \in 1..(Total + 1) : Framing!Begin(k)' = span'.from => \E h \in Nat : Progress(k, h)'
  BY <1>1, <1>3, <1>6
<1> QED
  BY <1>3, <1>5, <1>7 DEF FramingInv

\* A message that is there whole is handled next; or, when all of these have been,
\* something else.
LEMMA MessageFrames ==
  ASSUME StreamsOfSizes, FramingInv, Framing!Message
  PROVE  FramingInv'
<1>1. PICK size \in Framing!Sizes :
        /\ parsing /\ span.to > current
        /\ size > 0 /\ size # AnyConnection /\ ~Framing!TooLarge(size)
        /\ IF Framing!CanRead(Framing!AfterField, size)
           THEN /\ current' = Framing!AfterField + size
                /\ Framing!Handle(Framing!Place(Framing!AfterField, Framing!AfterField + size))
           ELSE /\ current' = Framing!AfterField
                /\ Framing!Handle(Framing!Zeros)
        /\ replied' = replied \/ replied' = (replied + 1) % MostReplies
        /\ (parsing' = FALSE /\ threw' = TRUE) \/ UNCHANGED <<parsing, threw>>
        /\ UNCHANGED <<messages, span>>
  BY DEF Framing!Message, Framing!HasMoreData, Framing!Replied
<1>2. /\ FramingTypes /\ Total \in Nat /\ MostReplies \in Nat \ {0} /\ Total <= MostReplies
      /\ \A k \in 1..(Total + 1) : Framing!Begin(k) \in Nat
      /\ \A i \in 1..Total : messages[i] \in Nat
      /\ DOMAIN messages = 1..Total
      /\ AnyGarbage \subseteq Int
      /\ span.from \in Nat /\ span.to \in Nat /\ current \in Nat /\ span.from <= current
      /\ handled \in Seq([from : Nat, to : Nat]) /\ Len(handled) \in Nat
  BY MessagesAre, Beginnings, LenProperties DEF FramingInv, FramingTypes, StreamsOfSizes
<1>3. /\ Total' = Total /\ Framing!Length' = Framing!Length
      /\ (\A k : Framing!Begin(k)' = Framing!Begin(k))
      /\ (\A k, j : PlaceOf(k, j)' = PlaceOf(k, j))
  BY <1>1, PlacesStay
<1>4. Framing!AfterField \in Nat /\ current <= Framing!AfterField /\ Framing!AfterField <= span.to
  BY <1>1, <1>2 DEF Framing!AfterField, Framing!CanRead, Framing!Field
<1>5. size \in Nat
  <2>1. Framing!Sizes \subseteq Int
    <3>1. \A k \in DOMAIN messages : messages[k] \in Int
      BY <1>2
    <3>2. {messages[k] : k \in {i \in DOMAIN messages : Framing!Begin(i) = current}} \subseteq Int
      BY <3>1
    <3> QED
      BY <1>2, <3>2 DEF Framing!Sizes
  <2> QED
    BY <1>1, <2>1
<1>6. current' \in span.from..span.to
  BY <1>1, <1>2, <1>4, <1>5 DEF Framing!CanRead
<1>7. PICK place \in [from : Nat, to : Nat] :
        /\ handled' = IF Len(handled) < MostReplies THEN Append(handled, place) ELSE handled
        /\ Framing!CanRead(Framing!AfterField, size)
             => place = Framing!Place(Framing!AfterField, Framing!AfterField + size)
  <2>1. CASE Framing!CanRead(Framing!AfterField, size)
    <3>1. Framing!Place(Framing!AfterField, Framing!AfterField + size) \in [from : Nat, to : Nat]
      BY <1>4, <1>5 DEF Framing!Place
    <3> QED
      BY <1>1, <2>1, <3>1 DEF Framing!Handle
  <2>2. CASE ~Framing!CanRead(Framing!AfterField, size)
    <3>1. Framing!Zeros \in [from : Nat, to : Nat]
      BY DEF Framing!Zeros, Framing!Place
    <3> QED
      BY <1>1, <2>2, <3>1 DEF Framing!Handle
  <2> QED
    BY <2>1, <2>2
<1>8. /\ handled' \in Seq([from : Nat, to : Nat])
      /\ Len(handled') = IF Len(handled) < MostReplies THEN Len(handled) + 1 ELSE Len(handled)
      /\ \A j \in 1..Len(handled) : handled'[j] = handled[j]
      /\ Len(handled) < MostReplies => handled'[Len(handled) + 1] = place
  <2>1. CASE Len(handled) < MostReplies
    <3>1. handled' = Append(handled, place)
      BY <1>7, <2>1
    <3> QED
      BY <1>2, <2>1, <3>1, AppendProperties
  <2>2. CASE ~(Len(handled) < MostReplies)
    <3>1. handled' = handled
      BY <1>7, <2>2
    <3> QED
      BY <1>2, <2>2, <3>1
  <2> QED
    BY <2>1, <2>2
<1>9. FramingTypes'
  <2>1. replied' \in 0..MostReplies
    BY <1>1, <1>2 DEF FramingTypes
  <2>2. Framing!Begin(Total + 1)' = Framing!Begin(Total + 1)
    BY <1>3 DEF Framing!Begin
  <2> QED
    BY <1>1, <1>2, <1>6, <1>8, <2>1, <2>2 DEF FramingTypes
<1>10. ASSUME NEW k \in 1..(Total + 1), Framing!Begin(k) = span.from
       PROVE  \E h \in Nat : Progress(k, h)'
  <2>1. PICK h \in Nat : Progress(k, h)
    BY <1>10 DEF FramingInv
  <2>2. \A n : /\ Inside(k, n)' = Inside(k, n) /\ AllInside(k, n)' = AllInside(k, n)
               /\ Framing!Begin(k + n)' = Framing!Begin(k + n)
    BY <1>1, <1>3 DEF Inside, AllInside, Framing!Begin
  <2>3. CASE AllInside(k, h)
    <3>1. Inside(k, h) /\ Framing!Begin(k + h) < span.to
      BY <1>1, <2>1 DEF Progress
    <3>2. h <= Len(handled) /\ \A j \in 1..h : handled[j] = PlaceOf(k, j)
      BY <2>1 DEF Progress
    <3>3. h <= Len(handled') /\ \A j \in 1..h : handled'[j] = PlaceOf(k, j)'
      <4>1. Len(handled) <= Len(handled')
        BY <1>2, <1>8
      <4>2. ASSUME NEW j \in 1..h PROVE handled'[j] = PlaceOf(k, j)'
        <5>1. j \in 1..Len(handled)
          BY <1>2, <3>2
        <5> QED
          BY <1>3, <1>8, <3>2, <5>1
      <4> QED
        BY <1>2, <1>8, <3>2, <4>1, <4>2
    <3>4. Progress(k, h)'
      BY <1>1, <2>2, <2>3, <3>1, <3>3 DEF Progress
    <3> QED
      BY <3>4
  <2>4. CASE ~AllInside(k, h)
    <3>1. /\ k + h \in 1..Total /\ current = Framing!Begin(k + h) /\ Len(handled) = h
          /\ Framing!Begin(k + h + 1) <= span.to
      BY <1>2, <2>1, <2>4, BehindTheWhole
    <3>2. /\ Framing!Sizes = {messages[k + h]} /\ Framing!AfterField = current + 4
          /\ Framing!CanRead(current + 4, messages[k + h])
          /\ current + 4 + messages[k + h] = Framing!Begin(k + h + 1)
      BY <1>2, <3>1, SizeIs
    <3>3. size = messages[k + h]
      BY <1>1, <3>2
    <3>4. current' = Framing!Begin(k + (h + 1)) /\ place = PlaceOf(k, h + 1)
      <4>1. k + (h + 1) = k + h + 1 /\ k + (h + 1) - 1 = k + h
        BY <1>2
      <4>2. current' = Framing!AfterField + size
            /\ place = Framing!Place(Framing!AfterField, Framing!AfterField + size)
        BY <1>1, <1>7, <3>2, <3>3
      <4> QED
        BY <3>1, <3>2, <3>3, <4>1, <4>2 DEF PlaceOf
    <3>5. Len(handled) < MostReplies
      BY <1>2, <3>1
    <3>6. Len(handled') = h + 1 /\ \A j \in 1..(h + 1) : handled'[j] = PlaceOf(k, j)'
      <4>1. \A j \in 1..h : handled[j] = PlaceOf(k, j)
        BY <2>1 DEF Progress
      <4>2. Len(handled') = h + 1 /\ handled'[h + 1] = PlaceOf(k, h + 1)
        BY <1>8, <3>1, <3>4, <3>5
      <4>3. \A j \in 1..h : handled'[j] = PlaceOf(k, j)
        BY <1>8, <3>1, <4>1
      <4> QED
        BY <1>3, <4>2, <4>3
    <3>7. Inside(k, h + 1)
      BY <1>2, <3>1 DEF Inside
    <3>8. Progress(k, h + 1)'
      <4>1. Inside(k, h + 1)' /\ current' = Framing!Begin(k + (h + 1))' /\ (parsing' \/ threw')
        BY <1>1, <2>2, <3>1, <3>4, <3>7
      <4>2. h + 1 <= Len(handled')
        BY <3>6
      <4> QED
        BY <3>6, <4>1, <4>2 DEF Progress
    <3> QED
      BY <3>8
  <2> QED
    BY <2>3, <2>4
<1>11. \A k \in 1..(Total + 1) : Framing!Begin(k)' = span'.from => \E h \in Nat : Progress(k, h)'
  BY <1>1, <1>3, <1>10
<1> QED
  BY <1>3, <1>9, <1>11 DEF FramingInv

LEMMA FramingStep ==
  ASSUME StreamsOfSizes, FramingInv, [Framing!Next]_(Framing!vars)
  PROVE  FramingInv'
<1>1. CASE \E to \in 1..Framing!Begin(Len(messages) + 1) : Framing!Send(to)
  BY <1>1, SendFrames DEF Total
<1>2. CASE Framing!LastReply \/ Framing!Overlong \/ Framing!ParseEnds
  BY <1>2, ParsingStops
<1>3. CASE Framing!Message
  BY <1>3, MessageFrames
<1>4. CASE UNCHANGED Framing!vars
  <2>1. UNCHANGED <<messages, span, current, parsing, threw, handled, replied>>
    BY <1>4 DEF Framing!vars
  <2>2. /\ Total' = Total /\ Framing!Length' = Framing!Length
        /\ (\A k : Framing!Begin(k)' = Framing!Begin(k))
        /\ (\A k, j : PlaceOf(k, j)' = PlaceOf(k, j))
    BY <2>1, PlacesStay
  <2>3. Framing!Begin(Total + 1)' = Framing!Begin(Total + 1)
    BY <2>2 DEF Framing!Begin
  <2>4. FramingTypes'
    BY <2>1, <2>3 DEF FramingInv, FramingTypes
  <2>5. ASSUME NEW k, NEW h, Progress(k, h)
        PROVE  Progress(k, h)'
    <3>1. Inside(k, h)' = Inside(k, h) /\ AllInside(k, h)' = AllInside(k, h)
      BY <2>1, <2>2 DEF Inside, AllInside, Framing!Begin
    <3>2. Framing!Begin(k + h)' = Framing!Begin(k + h)
      BY <2>2
    <3>3. \A j \in 1..h : handled'[j] = PlaceOf(k, j)'
      <4> SUFFICES ASSUME NEW j \in 1..h PROVE handled'[j] = PlaceOf(k, j)'
        OBVIOUS
      <4> QED
        BY <2>1, <2>2, <2>5 DEF Progress
    <3> QED
      BY <2>1, <2>5, <3>1, <3>2, <3>3 DEF Progress
  <2>6. \A k \in 1..(Total + 1) : Framing!Begin(k)' = span'.from => \E h \in Nat : Progress(k, h)'
    BY <2>1, <2>2, <2>5 DEF FramingInv
  <2> QED
    BY <2>2, <2>4, <2>6 DEF FramingInv
<1> QED
  BY <1>1, <1>2, <1>3, <1>4 DEF Framing!Next, Framing!Parse

\* The messages that lie in a packet as a whole are neighbours.
LEMMA MessagesInPacket ==
  ASSUME StreamsOfSizes, FramingTypes, NEW k \in 1..(Total + 1),
         Framing!Begin(k) = span.from
  PROVE  \E n \in Nat :
           /\ Inside(k, n) /\ AllInside(k, n)
           /\ Framing!MessagesOf = [j \in 1..n |-> PlaceOf(k, j)]
           /\ \A h \in Nat : Inside(k, h) => h <= n
           /\ \A h \in Nat : Inside(k, h) /\ AllInside(k, h) => h = n
<1>1. /\ Total \in Nat /\ DOMAIN messages = 1..Total
      /\ span.to \in Nat /\ span.from <= span.to
      /\ \A i \in 1..(Total + 1) : Framing!Begin(i) \in Nat
      /\ \A i, l \in 1..(Total + 1) :
           /\ i <= l => Framing!Begin(i) <= Framing!Begin(l)
           /\ Framing!Begin(i) = Framing!Begin(l) => i = l
  BY MessagesAre, Beginnings DEF FramingTypes
<1>2. PICK n \in Nat : AllInside(k, n) /\ \A h \in Nat : h < n => ~AllInside(k, h)
  <2> DEFINE S == {h \in Nat : AllInside(k, h)}
  <2>1. Total + 1 \in S
    BY <1>1 DEF AllInside
  <2>2. S \in SUBSET Nat /\ S # {}
    BY <2>1
  <2> HIDE DEF S
  <2>3. PICK n \in S : \A h \in Nat : h < n => h \notin S
    BY <2>2, LeastOf
  <2> QED
    BY <2>3 DEF S
<1>3. \A h \in Nat : h < n => k + h <= Total /\ Framing!Begin(k + h + 1) <= span.to
  <2> SUFFICES ASSUME NEW h \in Nat, h < n
               PROVE  k + h <= Total /\ Framing!Begin(k + h + 1) <= span.to
    OBVIOUS
  <2>1. ~AllInside(k, h)
    BY <1>2
  <2>2. k + h <= Total /\ ~(Framing!Begin(k + h + 1) > span.to)
    BY <1>1, <2>1 DEF AllInside
  <2> QED
    BY <1>1, <2>2
<1>4. Inside(k, n)
  <2>1. CASE n = 0
    BY <1>1, <2>1 DEF Inside
  <2>2. CASE n # 0
    <3>1. k + (n - 1) <= Total /\ Framing!Begin(k + (n - 1) + 1) <= span.to
      BY <1>3, <2>2
    <3>2. k + (n - 1) + 1 = k + n
      OBVIOUS
    <3> QED
      BY <1>1, <3>1, <3>2 DEF Inside
  <2> QED
    BY <2>1, <2>2
<1>5. \A h \in Nat : Inside(k, h) => h <= n
  <2> SUFFICES ASSUME NEW h \in Nat, Inside(k, h), h > n PROVE FALSE
    OBVIOUS
  <2>1. k + n + 1 <= k + h /\ k + h \in 1..(Total + 1) /\ k + n + 1 \in 1..(Total + 1)
    BY <1>1 DEF Inside
  <2>2. Framing!Begin(k + n + 1) <= Framing!Begin(k + h)
    BY <1>1, <2>1
  <2> QED
    BY <1>1, <1>2, <2>1, <2>2 DEF AllInside, Inside
<1>6. \A h \in Nat : Inside(k, h) /\ AllInside(k, h) => h = n
  <2> SUFFICES ASSUME NEW h \in Nat, Inside(k, h), AllInside(k, h), h # n PROVE FALSE
    OBVIOUS
  <2>1. h < n
    BY <1>5
  <2> QED
    BY <1>2, <2>1
<1>7. Framing!MessagesOf = [j \in 1..n |-> PlaceOf(k, j)]
  <2> DEFINE inside == {i \in DOMAIN messages : i >= k /\ Framing!Begin(i + 1) <= span.to}
  <2>1. inside = k..(k + n - 1)
    <3>1. ASSUME NEW i \in inside PROVE i \in k..(k + n - 1)
      <4>1. i \in 1..Total /\ i >= k /\ Framing!Begin(i + 1) <= span.to
        BY <1>1
      <4>2. Inside(k, i + 1 - k)
        <5>1. k + (i + 1 - k) = i + 1
          BY <1>1, <4>1
        <5> QED
          BY <1>1, <4>1, <5>1 DEF Inside
      <4> QED
        BY <1>1, <1>5, <4>1, <4>2
    <3>2. ASSUME NEW i \in k..(k + n - 1) PROVE i \in inside
      <4>1. i - k \in Nat /\ i - k < n /\ k + (i - k) = i
        OBVIOUS
      <4>2. i <= Total /\ Framing!Begin(i + 1) <= span.to
        BY <1>3, <4>1
      <4> QED
        BY <1>1, <4>2
    <3> QED
      BY <3>1, <3>2
  <2>2. Cardinality(inside) = n
    <3>1. Cardinality(k..(k + n - 1)) = IF k > k + n - 1 THEN 0 ELSE (k + n - 1) - k + 1
      <4>1. k \in Int /\ k + n - 1 \in Int
        BY <1>1
      <4> QED
        BY <4>1, FS_Interval
    <3>2. (IF k > k + n - 1 THEN 0 ELSE (k + n - 1) - k + 1) = n
      BY <1>1
    <3> HIDE DEF inside
    <3> QED
      BY <2>1, <3>1, <3>2
  <2>3. (CHOOSE l \in 1..(Len(messages) + 1) : Framing!Begin(l) = span.from) = k
    BY <1>1 DEF Total
  <2>4. Framing!Cardinality(inside) = n
    <3>1. \A S : Framing!Cardinality(S) = Cardinality(S)
      BY Zenon DEF Framing!Cardinality, Cardinality
    <3> QED
      BY <2>2, <3>1
  <2> HIDE DEF inside
  <2>5. Framing!MessagesOf =
          [j \in 1..n |-> Framing!Place(Framing!Begin(k + j - 1) + 4, Framing!Begin(k + j))]
    <3>1. Framing!MessagesOf = Framing!MessagesFrom(k)
      BY <2>3 DEF Framing!MessagesOf
    <3> QED
      BY <2>4, <3>1, Zenon DEF Framing!MessagesFrom, Framing!Field, inside
  <2> QED
    BY <2>5 DEF PlaceOf
<1> QED
  BY <1>2, <1>4, <1>5, <1>6, <1>7

LEMMA FramingFinds ==
  ASSUME StreamsOfSizes, FramingInv
  PROVE  Framing!WholeMessagesFirst /\ Framing!OnlyCutsMislead
<1>1. FramingTypes /\ Total \in Nat /\ Len(handled) \in Nat
  BY MessagesAre, LenProperties DEF FramingInv, FramingTypes
<1>2. ASSUME span.from \in Framing!Begins
      PROVE  \E k \in 1..(Total + 1) : \E n, h \in Nat :
               /\ Framing!MessagesOf = [j \in 1..n |-> PlaceOf(k, j)]
               /\ h <= n /\ h <= Len(handled) /\ \A j \in 1..h : handled[j] = PlaceOf(k, j)
               /\ h = n \/ (Len(handled) = h /\ (parsing \/ threw))
               /\ \/ Len(handled) = h
                  \/ AllInside(k, h) /\ Framing!Begin(k + h) < span.to /\ Inside(k, h)
  <2>1. PICK k \in 1..(Total + 1) : Framing!Begin(k) = span.from
    BY <1>2 DEF Framing!Begins, Total
  <2>2. PICK n \in Nat :
           /\ Framing!MessagesOf = [j \in 1..n |-> PlaceOf(k, j)]
           /\ \A h \in Nat : Inside(k, h) => h <= n
           /\ \A h \in Nat : Inside(k, h) /\ AllInside(k, h) => h = n
    BY <1>1, <2>1, MessagesInPacket
  <2>3. PICK h \in Nat : Progress(k, h)
    BY <2>1 DEF FramingInv
  <2>4. h <= n /\ (AllInside(k, h) => h = n)
    BY <2>2, <2>3 DEF Progress
  <2> QED
    BY <2>2, <2>3, <2>4 DEF Progress
<1>3. Framing!WholeMessagesFirst
  <2> SUFFICES ASSUME span.from \in Framing!Begins
               PROVE  LET both == Framing!Min({Len(handled), Len(Framing!MessagesOf)})
                      IN /\ SubSeq(handled, 1, both) = SubSeq(Framing!MessagesOf, 1, both)
                         /\ ~parsing /\ ~threw => Len(handled) >= Len(Framing!MessagesOf)
    BY DEF Framing!WholeMessagesFirst
  <2>1. PICK k \in 1..(Total + 1), n \in Nat, h \in Nat :
               /\ Framing!MessagesOf = [j \in 1..n |-> PlaceOf(k, j)]
               /\ h <= n /\ h <= Len(handled) /\ \A j \in 1..h : handled[j] = PlaceOf(k, j)
               /\ h = n \/ (Len(handled) = h /\ (parsing \/ threw))
    BY <1>2
  <2> DEFINE both == Framing!Min({Len(handled), n})
  <2>2. Len(Framing!MessagesOf) = n /\ \A j \in 1..n : Framing!MessagesOf[j] = PlaceOf(k, j)
    BY <2>1
  <2>3. both = h
    <3>1. \A x \in {Len(handled), n} : h <= x
      BY <2>1
    <3>2. h \in {Len(handled), n}
      BY <2>1
    <3>3. Len(handled) \in Nat /\ n \in Nat
      BY <1>1
    <3> QED
      BY <3>1, <3>2, <3>3 DEF Framing!Min
  <2>4. SubSeq(handled, 1, h) = SubSeq(Framing!MessagesOf, 1, h)
    <3>1. SubSeq(handled, 1, h) = [j \in 1..h |-> handled[j]]
      BY DEF SubSeq
    <3>2. SubSeq(Framing!MessagesOf, 1, h) = [j \in 1..h |-> Framing!MessagesOf[j]]
      BY DEF SubSeq
    <3>3. \A j \in 1..h : handled[j] = Framing!MessagesOf[j]
      BY <2>1, <2>2
    <3> QED
      BY <3>1, <3>2, <3>3
  <2>5. ~parsing /\ ~threw => Len(handled) >= n
    BY <1>1, <2>1
  <2> QED
    BY <2>2, <2>3, <2>4, <2>5
<1>4. Framing!OnlyCutsMislead
  <2> SUFFICES ASSUME span.from \in Framing!Begins, span.to \in Framing!Begins,
                      NEW i \in DOMAIN handled
               PROVE  handled[i] \in {Framing!MessagesOf[j] : j \in DOMAIN Framing!MessagesOf}
    BY DEF Framing!OnlyCutsMislead, Framing!Whole
  <2>1. PICK k \in 1..(Total + 1), n \in Nat, h \in Nat :
               /\ Framing!MessagesOf = [j \in 1..n |-> PlaceOf(k, j)]
               /\ h <= n /\ \A j \in 1..h : handled[j] = PlaceOf(k, j)
               /\ \/ Len(handled) = h
                  \/ AllInside(k, h) /\ Framing!Begin(k + h) < span.to /\ Inside(k, h)
    BY <1>2
  <2>2. Len(handled) = h
    <3> SUFFICES ASSUME AllInside(k, h), Framing!Begin(k + h) < span.to, Inside(k, h)
                 PROVE  FALSE
      BY <2>1
    <3>1. PICK l \in 1..(Total + 1) : Framing!Begin(l) = span.to
      BY DEF Framing!Begins, Total
    <3>2. k + h \in 1..(Total + 1)
      BY <1>1 DEF Inside
    <3>3. k + h < l
      BY <1>1, <3>1, <3>2, Beginnings DEF FramingTypes
    <3>4. k + h <= Total /\ k + h + 1 <= l /\ k + h + 1 \in 1..(Total + 1)
      BY <1>1, <3>2, <3>3
    <3>5. Framing!Begin(k + h + 1) <= span.to /\ Framing!Begin(k + h + 1) \in Nat /\ span.to \in Nat
      BY <1>1, <3>1, <3>4, Beginnings DEF FramingTypes
    <3> QED
      BY <1>1, <3>4, <3>5 DEF AllInside
  <2>3. i \in 1..h
    BY <1>1, <2>2, LenProperties DEF FramingTypes
  <2>4. handled[i] = Framing!MessagesOf[i] /\ i \in DOMAIN Framing!MessagesOf
    BY <2>1, <2>3
  <2> QED
    BY <2>4
<1> QED
  BY <1>3, <1>4

\* However a stream of messages is cut into packets, those that lie in a packet as
\* a whole, if it begins with one, are handled first, each once and in order, and
\* none is left out unless it lies behind one whose handler throws; and where the game sends whole messages nothing else is ever taken for one. That
\* holds of any sizes, and whatever is left in the variable when a read fails.
THEOREM MessagesFound ==
  ASSUME StreamsOfSizes
  PROVE  Framing!Spec => [](Framing!WholeMessagesFirst /\ Framing!OnlyCutsMislead)
<1>1. Framing!Init => FramingInv
  BY FramingStart
<1>2. FramingInv /\ [Framing!Next]_(Framing!vars) => FramingInv'
  BY FramingStep
<1>3. FramingInv => Framing!WholeMessagesFirst /\ Framing!OnlyCutsMislead
  BY FramingFinds
<1> QED
  BY <1>1, <1>2, <1>3, PTL DEF Framing!Spec
=============================================================================
