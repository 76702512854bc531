--------------------------- MODULE SteamInterface ---------------------------
(***************************************************************************)
(* steam/interface.cpp: a method of the Steam client's interfaces is found *)
(* by its name, which the code of the method itself gives away. Every      *)
(* method of the table is disassembled up to its first return and its      *)
(* first push of an address that counts as a string of the library: what   *)
(* is read there is its name, and the return tells the size of its         *)
(* parameters. What counts is every address in a range that the headers    *)
(* give, where the section would be if it lay in memory as it does in the  *)
(* file. All methods that a search passes are kept.                        *)
(***************************************************************************)
EXTENDS Integers, SequencesExt

CONSTANTS
  Bodies,   \* what methods may consist of: sequences of instructions
  Length,   \* how many methods the table has
  Names,    \* the names that are asked for, with the parameters passed
  Start, Size, \* where the headers say the section .rdata is, as raw data
  Text,     \* what is read at addresses as a string, where anything can be read
  Strings   \* the addresses at which the library really has a string

\* A method is some code, and only behind its end there may be a breakpoint.
Instructions == [op : {"push", "ret"}, arg : Nat] \cup [op : {"int3", "other"}]

ASSUME InterfaceAssumption ==
  /\ Length \in Nat /\ Start \in Nat /\ Size \in Nat
  /\ Strings \subseteq DOMAIN Text
  /\ \A body \in Bodies :
       /\ body \in Seq(Instructions)
       /\ \A k \in 1..Len(body) : body[k].op = "int3" => k = Len(body)

VARIABLES
  methods,  \* the code of the methods, one after the other in memory
  methods_, \* the names that are known, with the method each one stands for
  called    \* what the last invoke did

interfaceVars == <<methods, methods_, called>>

InterfaceInit ==
  /\ methods \in [1..Length -> Bodies]
  /\ methods_ = << >>
  /\ called = [name |-> "", args |-> 0, did |-> "nothing", method |-> 0]

\* What is read from the entry of a method on: its code, and that of the methods
\* behind it. The end is padded, whatever the last method is.
Code(m) == FlattenSeq(SubSeq(methods, m, Length)) \o <<[op |-> "int3"]>>

-----------------------------------------------------------------------------
(* analyze_method.                                                         *)

\* Mutant of IsRdata: the section has no first string.
IsRdataExclusive(pointer) == Start < pointer /\ pointer <= Start + Size

\* is_rdata: the end is taken for a part of the section, whose raw data is looked
\* for in memory where it is in the file.
IsRdata(pointer) == Start <= pointer /\ pointer <= Start + Size

PushesName(m, k) ==
  /\ Code(m)[k].op = "push" /\ Code(m)[k].arg \in DOMAIN Text
  /\ IsRdata(Code(m)[k].arg)
Returns(m, k) == Code(m)[k].op = "ret"

\* It stops before a breakpoint, or as soon as it has seen both.
Stops(m, k) ==
  \/ Code(m)[k + 1].op = "int3"
  \/ (\E i \in 1..k : PushesName(m, i)) /\ (\E i \in 1..k : Returns(m, i))

Analysed(m) == 1..Min({k \in 1..(Len(Code(m)) - 1) : Stops(m, k)})

\* The first of each, if both were found.
AnalyzeMethod(m) ==
  LET names == {k \in Analysed(m) : PushesName(m, k)}
      returns == {k \in Analysed(m) : Returns(m, k)}
  IN IF names = {} \/ returns = {} THEN {}
     ELSE {[name |-> Text[Code(m)[Min(names)].arg], method |-> m,
            param_size |-> Code(m)[Min(returns)].arg]}

-----------------------------------------------------------------------------
(* find_method.                                                            *)

\* search_method goes through the table up to the first method of the name.
Passed(name) ==
  LET last == {m \in 1..Length : \E r \in AnalyzeMethod(m) : r.name = name}
  IN 1..(IF last = {} THEN Length ELSE Min(last))

Results(name) == UNION {AnalyzeMethod(m) : m \in Passed(name)}

\* Mutant of Learned: the methods that are passed are kept under the name asked for.
LearnedAsAsked(name) ==
  IF Results(name) = {} THEN methods_
  ELSE LET last == CHOOSE r \in Results(name) : \A q \in Results(name) : q.method <= r.method
       IN [n \in DOMAIN methods_ \cup {name} |-> IF n = name THEN last ELSE methods_[n]]

\* Mutant of Learned: a name that is known keeps its method.
LearnedOnce(name) ==
  LET found == {r.name : r \in Results(name)}
  IN [n \in DOMAIN methods_ \cup found |->
       IF n \in DOMAIN methods_ THEN methods_[n]
       ELSE CHOOSE r \in Results(name) : r.name = n /\ \A q \in Results(name) : q.name = n => q.method <= r.method]

\* Of methods with the same name the last one is kept, also over one that an
\* earlier search has found, so the first may be called once and the last then.
Learned(name) ==
  LET found == {r.name : r \in Results(name)}
  IN [n \in DOMAIN methods_ \cup found |->
       IF n \in found
       THEN CHOOSE r \in Results(name) : r.name = n /\ \A q \in Results(name) : q.name = n => q.method <= r.method
       ELSE methods_[n]]

Found(name) ==
  IF name \in DOMAIN methods_ THEN methods_ ELSE Learned(name)

\* What invoke throws, or the method it calls.
Outcome(name, args, known) ==
  IF name \notin DOMAIN known THEN [did |-> "no method", method |-> 0]
  ELSE IF known[name].param_size # args THEN [did |-> "wrong arguments", method |-> 0]
  ELSE [did |-> "called", method |-> known[name].method]

\* invoke, with a name.
Invoke(name, args) ==
  /\ methods_' = Found(name)
  /\ LET outcome == Outcome(name, args, methods_')
     IN called' = [name |-> name, args |-> args, did |-> outcome.did, method |-> outcome.method]
  /\ UNCHANGED methods

InterfaceNext == \E call \in Names : Invoke(call.name, call.args)

-----------------------------------------------------------------------------
(* Properties.                                                             *)

TypeOK ==
  /\ methods \in [1..Length -> Bodies]
  /\ \A n \in DOMAIN methods_ : methods_[n].name = n /\ methods_[n].method \in 1..Length
  /\ called.did \in {"nothing", "no method", "wrong arguments", "called"}

Pushes(m, addresses) ==
  {k \in DOMAIN methods[m] : methods[m][k].op = "push" /\ methods[m][k].arg \in addresses}
RealPushes(m) == Pushes(m, Strings)
RealReturns(m) == {k \in DOMAIN methods[m] : methods[m][k].op = "ret"}

\* A method that pushes a string, returns, and is padded can be read when its
\* string lies where strings are looked for and nothing it pushes before does.
Sought(m) == Pushes(m, Start..(Start + Size) \cap DOMAIN Text)
Readable(m) ==
  /\ RealPushes(m) # {} /\ RealReturns(m) # {} /\ Sought(m) # {}
  /\ Min(Sought(m)) = Min(RealPushes(m))
  /\ methods[m][Len(methods[m])].op = "int3"

RealName(m) == Text[methods[m][Min(RealPushes(m))].arg]
RealSize(m) == methods[m][Min(RealReturns(m))].arg

\* What a call reaches has the name that was asked for and takes the arguments
\* that were passed, so the stack is level afterwards. A method that is not
\* padded may be called by the name, or with the size, of the one behind it, and
\* one that first pushes something else from the range by whatever is read there.
CallsWhatItNames ==
  called.did = "called" /\ Readable(called.method) =>
    RealName(called.method) = called.name /\ RealSize(called.method) = called.args

\* A method that can be read is found, whatever stands before it in the table.
FindsReadable ==
  called.did = "no method" => \A m \in 1..Length : Readable(m) => RealName(m) # called.name

\* Of the methods of one name it is the last that is called, of those that some
\* search has passed: a method that can be read is known by its name unless a
\* later one has replaced it there, or lies behind all that are known.
LastIsKept ==
  \A m \in 1..Length : Readable(m) =>
    \/ RealName(m) \in DOMAIN methods_ /\ methods_[RealName(m)].method >= m
    \/ \A n \in DOMAIN methods_ : methods_[n].method < m
=============================================================================
