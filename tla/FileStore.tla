----------------------------- MODULE FileStore ------------------------------
(***************************************************************************)
(* What the game may expect of the lobby: the requests of a packet are     *)
(* answered in the order in which it made them, and files are kept for it. *)
(* Where the file system fails, a write may be cut short and a read may    *)
(* miss the file or the end of it, of which the game is not told, or a     *)
(* write takes the rest of its packet with it. When the program dies all   *)
(* requests and answers are lost, but for the first request, which may     *)
(* have been begun.                                                        *)
(***************************************************************************)
EXTENDS Sequences, Integers

CONSTANTS
  Files,            \* names of files
  Contents,         \* what may be written into one
  Packets,          \* sequences of requests, each asked at once
  IsWrite(_),       \* a request to write a file ...
  FileOf(_),        \* ... which one ...
  ContentsOf(_),    \* ... and what into it
  Answer(_, _)      \* the answers, one or none, to a request when the files are as given

VARIABLES
  files,     \* the contents of the files that exist
  pending,   \* requests waiting for their answers
  answers,   \* answers given
  sound      \* whether the file system does all that it is asked
vars == <<files, pending, answers, sound>>

Init ==
  /\ \E S \in SUBSET Files : files \in [S -> Contents]
  /\ pending = <<>> /\ answers = <<>>
  /\ sound \in BOOLEAN

Ask(p) == pending = <<>> /\ pending' = p /\ UNCHANGED <<files, answers>>

\* How a request may leave the files if it is stopped, and how it may leave them.
Kept(name, data) == [f \in DOMAIN files \cup {name} |-> IF f = name THEN data ELSE files[f]]
Begun(q) ==
  {files} \cup IF IsWrite(q)
                 THEN {Kept(FileOf(q), SubSeq(ContentsOf(q), 1, n)) : n \in 0..Len(ContentsOf(q))}
                 ELSE {}
Served(q) ==
  IF ~sound THEN Begun(q)
  ELSE IF IsWrite(q) THEN {Kept(FileOf(q), ContentsOf(q))}
  ELSE {files}

\* What a request may see of the files: zeros where a read ended early.
Cut(data, n) == [i \in DOMAIN data |-> IF i <= n THEN data[i] ELSE 0]
Views ==
  {files} \cup IF sound THEN {}
              ELSE {<<>>} \cup {[f \in DOMAIN files |-> Cut(files[f], n)] :
                                 n \in UNION {0..Len(files[f]) : f \in DOMAIN files}}

Serve ==
  /\ pending # <<>>
  /\ files' \in Served(Head(pending))
  /\ \E seen \in Views : answers' = answers \o Answer(Head(pending), seen)
  /\ pending' = Tail(pending)

Fail ==
  /\ ~sound /\ pending # <<>> /\ IsWrite(Head(pending))
  /\ pending' = <<>> /\ UNCHANGED <<files, answers>>

Die ==
  /\ files' \in {files} \cup (IF pending = <<>> THEN {} ELSE Begun(Head(pending)))
  /\ pending' = <<>> /\ answers' = <<>>

Next == ((\E p \in Packets : Ask(p)) \/ Serve \/ Fail \/ Die) /\ sound' = sound
Spec == Init /\ [][Next]_vars
=============================================================================
