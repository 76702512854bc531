------------------------------ MODULE StringPool ------------------------------
(***************************************************************************)
(* The formatted strings of utils/string.hpp. Every thread has a ring of   *)
(* buffers of its own, and va answers with the next one: the text is good  *)
(* until the ring comes round. A buffer that is too small is freed and     *)
(* allocated twice as large, from an allocator that all threads share      *)
(* (utils/memory.cpp); freeing and allocating are two holds of its mutex,  *)
(* so another thread may be given the address in between.                  *)
(***************************************************************************)
EXTENDS Integers, Sequences, SequencesExt

CONSTANTS
  Callers,    \* threads that format texts
  Addresses,  \* what the heap can hand out
  Buffers,    \* 8 in the source
  Lengths,    \* the texts, and how many times MinBufferSize each one needs
  Nothing     \* no address, no text

ASSUME BuffersAssumption == Buffers \in Nat \ {0}
ASSUME NothingAssumption == Nothing \notin Addresses

Texts == DOMAIN Lengths

VARIABLES
  pool_,           \* the allocator's memory: what stands at the addresses in use
  string_pool_,    \* the ring of each thread: sizes and buffers
  current_buffer_, \* the place in the ring
  at, text,        \* what each thread does, and with which text
  answers          \* history: the last answers of va, newest last

poolVars == <<pool_, string_pool_, current_buffer_, at, text, answers>>

Slots == 0..(Buffers - 1)
NoEntry == [size |-> 0, buffer |-> Nothing]

PoolInit ==
  /\ pool_ = [a \in {} |-> Nothing]
  /\ string_pool_ = [t \in Callers |-> [i \in Slots |-> NoEntry]]
  /\ current_buffer_ = [t \in Callers |-> 0]
  /\ at = [t \in Callers |-> "no provider"]
  /\ text = [t \in Callers |-> Nothing]
  /\ answers = [t \in Callers |-> << >>]

Go(t, to) == at' = [at EXCEPT ![t] = to]
CurrentBuffer(t) == string_pool_[t][current_buffer_[t]]

-----------------------------------------------------------------------------
(* The allocator: each operation is one hold of its mutex.                 *)

\* calloc: any address that is not in use, zeroed.
Allocated(address) ==
  /\ address \notin DOMAIN pool_
  /\ pool_' = [a \in DOMAIN pool_ \cup {address} |-> IF a = address THEN Nothing ELSE pool_[a]]

\* Mutant of Freed: free does not find the pointer in its list.
FreedNothing(address) == UNCHANGED pool_

\* An address the allocator does not know is ignored.
Freed(address) == pool_' = [a \in DOMAIN pool_ \ {address} |-> pool_[a]]

-----------------------------------------------------------------------------
(* The provider, a static of each thread.                                  *)

\* entry::entry, one after the other, at the first va of the thread.
Construct(t) ==
  \E i \in Slots, address \in Addresses :
    /\ at[t] = "no provider"
    /\ string_pool_[t][i] = NoEntry /\ \A j \in 0..(i - 1) : string_pool_[t][j] # NoEntry
    /\ Allocated(address)
    /\ string_pool_' = [string_pool_ EXCEPT ![t][i] = [size |-> 1, buffer |-> address]]
    /\ IF i = Buffers - 1 THEN Go(t, "ready") ELSE UNCHANGED at
    /\ UNCHANGED <<current_buffer_, text, answers>>

\* Mutant of NextSlot: the ring is one buffer short.
NextSlotTooEarly(i) == IF i + 2 >= Buffers THEN 0 ELSE i + 1

NextSlot(i) == (i + 1) % Buffers

\* va: the oldest of the last Buffers answers is given up.
Get(t, str) ==
  /\ at[t] = "ready"
  /\ current_buffer_' = [current_buffer_ EXCEPT ![t] = NextSlot(@)]
  /\ text' = [text EXCEPT ![t] = str]
  /\ answers' = [answers EXCEPT ![t] = IF Len(@) = Buffers THEN Tail(@) ELSE @]
  /\ Go(t, "format")
  /\ UNCHANGED <<pool_, string_pool_>>

Answer(t, buffer) ==
  /\ answers' = [answers EXCEPT ![t] = Append(@, [buffer |-> buffer, text |-> text[t]])]
  /\ text' = [text EXCEPT ![t] = Nothing]
  /\ Go(t, "ready")

\* vsnprintf_s writes the text, and answers with its length: an empty text
\* counts as an error, and va returns a null pointer.
Format(t) ==
  /\ at[t] = "format" /\ Lengths[text[t]] <= CurrentBuffer(t).size
  /\ pool_' = [pool_ EXCEPT ![CurrentBuffer(t).buffer] = text[t]]
  /\ Answer(t, IF Lengths[text[t]] = 0 THEN Nothing ELSE CurrentBuffer(t).buffer)
  /\ UNCHANGED <<string_pool_, current_buffer_>>

\* The text is cut off: double_size, which frees the buffer first.
Truncated(t) ==
  /\ at[t] = "format" /\ Lengths[text[t]] > CurrentBuffer(t).size
  /\ string_pool_' = [string_pool_ EXCEPT ![t][current_buffer_[t]].size = 2 * @]
  /\ Freed(CurrentBuffer(t).buffer)
  /\ Go(t, "allocate")
  /\ UNCHANGED <<current_buffer_, text, answers>>

Reallocate(t) ==
  \E address \in Addresses :
    /\ at[t] = "allocate"
    /\ Allocated(address)
    /\ string_pool_' = [string_pool_ EXCEPT ![t][current_buffer_[t]].buffer = address]
    /\ Go(t, "format")
    /\ UNCHANGED <<current_buffer_, text, answers>>

\* The thread ends between two calls, and its texts with it: the entries are
\* destroyed from the last to the first.
EndThread(t) ==
  /\ at[t] = "ready"
  /\ answers' = [answers EXCEPT ![t] = << >>]
  /\ Go(t, "ends")
  /\ UNCHANGED <<pool_, string_pool_, current_buffer_, text>>

Destroy(t) ==
  \E i \in Slots :
    /\ at[t] = "ends"
    /\ string_pool_[t][i] # NoEntry /\ \A j \in (i + 1)..(Buffers - 1) : string_pool_[t][j] = NoEntry
    /\ Freed(string_pool_[t][i].buffer)
    /\ string_pool_' = [string_pool_ EXCEPT ![t][i] = NoEntry]
    /\ IF i = 0
       THEN Go(t, "no provider") /\ current_buffer_' = [current_buffer_ EXCEPT ![t] = 0]
       ELSE UNCHANGED <<at, current_buffer_>>
    /\ UNCHANGED <<text, answers>>

PoolNext ==
  \E t \in Callers :
    \/ Construct(t)
    \/ \E str \in Texts : Get(t, str)
    \/ Format(t) \/ Truncated(t) \/ Reallocate(t)
    \/ EndThread(t) \/ Destroy(t)

PoolSpec == PoolInit /\ [][PoolNext]_poolVars

-----------------------------------------------------------------------------
(* Properties.                                                             *)

PoolTypeOK ==
  /\ DOMAIN pool_ \subseteq Addresses /\ \A a \in DOMAIN pool_ : pool_[a] \in Texts \cup {Nothing}
  /\ string_pool_ \in [Callers -> [Slots -> [size : Nat, buffer : Addresses \cup {Nothing}]]]
  /\ current_buffer_ \in [Callers -> Slots]
  /\ at \in [Callers -> {"no provider", "ready", "format", "allocate", "ends"}]
  /\ text \in [Callers -> Texts \cup {Nothing}]
  /\ \A t \in Callers : Len(answers[t]) <= Buffers

\* The last Buffers texts that a thread has been given are unharmed, however
\* often any buffer was replaced and whatever the other threads did; while it
\* formats the next one, the oldest of them is not promised any more.
RecentTextsStay ==
  \A t \in Callers : \A k \in DOMAIN answers[t] :
    LET answer == answers[t][k] IN
    answer.buffer # Nothing =>
      answer.buffer \in DOMAIN pool_ /\ pool_[answer.buffer] = answer.text

\* The entries that have memory: one that is being replaced has none.
HasMemory(t, i) ==
  /\ string_pool_[t][i] # NoEntry
  /\ ~(at[t] = "allocate" /\ i = current_buffer_[t])

Entries == {e \in Callers \X Slots : HasMemory(e[1], e[2])}

BufferOf(entry) == string_pool_[entry[1]][entry[2]].buffer

\* The allocator holds the memory of the entries and no other, so nothing
\* leaks when buffers grow and threads end, and no two entries have the same.
PoolIsOwned ==
  /\ DOMAIN pool_ = {BufferOf(entry) : entry \in Entries}
  /\ \A e, f \in Entries : BufferOf(e) = BufferOf(f) => e = f
=============================================================================
