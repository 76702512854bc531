----------------------------- MODULE Signatures -----------------------------
(***************************************************************************)
(* hook::signature::process, with the signatures of module ceg: the code   *)
(* of the game is searched byte by byte for the functions of the copy      *)
(* protection, and each one found is patched at once, so that the search   *)
(* goes on in code it has already changed.                                 *)
(***************************************************************************)
EXTENDS Integers, Sequences, Functions, SequencesExt

CONSTANTS
  Codes,  \* the code there may be, a sequence of bytes
  Beyond  \* how many of the last bytes are behind the range that is searched

VARIABLES
  found,  \* history: the code before the search
  code,
  i       \* the place that is looked at

vars == <<found, code, i>>

ANY == -1   \* '?' in a mask

Wild(n) == [k \in 1..n |-> ANY]

\* set<DWORD>(address, 0xC301B0): mov al, 1; ret. set<BYTE>(address, 0xC3): ret.
\* nop: n bytes from an offset on.
ReturnTrue == <<\hB0, 1, \hC3, 0>>
Return == <<\hC3>>
Nops(offset, n) == [k \in (offset + 1)..(offset + n) |-> \h90]

Containers == <<
  [signature |-> <<\h56, \hE8>> \o Wild(4) \o <<\h8B, \hF0, \hE8>> \o Wild(4)
                   \o <<\h50, \h56, \hE8>>,
   callback |-> ReturnTrue],
  [signature |-> <<\h55, \h8B, \hEC, \h80, \h7D, 8, ANY, \h75, \h55>>,
   callback |-> ReturnTrue],
  [signature |-> <<\h55, \h8B, \hEC, \h83, \hEC, \h18, \h53, \h56, \h57, \hE8>> \o Wild(4),
   callback |-> Return],
  [signature |-> <<\h55, \h8B, \hEC, \h81, \hEC, ANY, ANY, 0, 0, \h53, \h56, \h57, \h8B, \h3D>>,
   callback |-> ReturnTrue],
  [signature |-> <<\h55, \h8B, \hEC, \h68>> \o Wild(4) \o <<\h68>> \o Wild(4)
                   \o <<\h64, \hFF, \h35>> \o Wild(4) \o <<\h64, \h89, \h25>> \o Wild(4) \o <<\hE8>>,
   callback |-> Return],
  [signature |-> <<\h55, \h8B, \hEC, \hB8>> \o Wild(4) \o <<\hE8>> \o Wild(4)
                   \o <<\hE8>> \o Wild(4) \o <<\h84, \hC0, \h75, 6>>,
   callback |-> Nops(\hD, 5) @@ Nops(\h14, 2)],
  [signature |-> <<\h55, \h8B, \hEC, \h81, \hEC>> \o Wild(4) \o <<\hE8>> \o Wild(4)
                   \o <<\h84, \hC0, \h75, 6>>,
   callback |-> Nops(9, 5) @@ Nops(\h10, 2)] >>

Init == found \in Codes /\ code = found /\ i = 1

\* Mutant of Matches: the last byte of a signature is not compared.
MatchesAlmost(c, a, s) ==
  \A j \in 1..(Len(s) - 1) : s[j] = ANY \/ (a + j - 1 <= Len(c) /\ s[j] = c[a + j - 1])

\* Mutant of Matches: only byte for byte, whatever the mask says.
MatchesLiterally(c, a, s) ==
  \A j \in DOMAIN s : a + j - 1 <= Len(c) /\ (IF s[j] = ANY THEN 0 ELSE s[j]) = c[a + j - 1]

\* A signature may lie across the end of the range.
Matches(c, a, s) == \A j \in DOMAIN s : s[j] = ANY \/ (a + j - 1 <= Len(c) /\ s[j] = c[a + j - 1])

Patched(c, a, callback) ==
  [b \in DOMAIN c |-> IF b - a + 1 \in DOMAIN callback THEN callback[b - a + 1] ELSE c[b]]

\* One container after the other, each in the code that the ones before it left.
TryContainer(c, container) ==
  IF Matches(c, i, container.signature) THEN Patched(c, i, container.callback) ELSE c

Process ==
  /\ i <= Len(code) - Beyond
  /\ code' = FoldLeft(TryContainer, code, Containers)
  /\ i' = i + 1
  /\ UNCHANGED found

Next == Process

Spec == Init /\ [][Next]_vars

-----------------------------------------------------------------------------
(* Properties.                                                             *)

Masked(bytes, s) == [j \in DOMAIN s |-> IF s[j] = ANY THEN ANY ELSE bytes[j]]

Occurrences(k) ==
  LET s == Containers[k].signature
  IN  {a \in 1..(Len(found) - Beyond) :
         a + Len(s) - 1 <= Len(found) /\ Masked(SubSeq(found, a, a + Len(s) - 1), s) = s}

PatchAt(a, k) == {a + o - 1 : o \in DOMAIN Containers[k].callback}
Compared(a, k) ==
  {a + j - 1 : j \in {n \in DOMAIN Containers[k].signature : Containers[k].signature[n] # ANY}}

\* The search comes to one occurrence before another.
Before(a, k, b, l) == a < b \/ (a = b /\ k < l)

\* Its bytes may be changed by one that the search comes to before, so that it is
\* not found, or its patch by one that comes after.
Spoiled(a, k) ==
  \E l \in DOMAIN Containers : \E b \in Occurrences(l) :
    \/ Before(b, l, a, k) /\ PatchAt(b, l) \cap Compared(a, k) # {}
    \/ Before(a, k, b, l) /\ PatchAt(b, l) \cap PatchAt(a, k) # {}

\* No function of the copy protection escapes but by a patch that lies over it:
\* what the code held when the search began is patched at its end, unless an
\* occurrence within or across it spoils it.
EveryCheckDisarmed ==
  i > Len(code) - Beyond =>
    \A k \in DOMAIN Containers : \A a \in Occurrences(k) :
      \/ \A o \in DOMAIN Containers[k].callback : code[a + o - 1] = Containers[k].callback[o]
      \/ Spoiled(a, k)

\* And no patch makes code look like such a function: the bytes that are changed
\* belong to one that was there from the beginning.
NothingElseTouched ==
  \A b \in DOMAIN code : code[b] # found[b] =>
    \E k \in DOMAIN Containers : \E a \in Occurrences(k) : b \in PatchAt(a, k)
=============================================================================
