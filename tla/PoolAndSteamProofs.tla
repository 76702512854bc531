------------------------- MODULE PoolAndSteamProofs -------------------------
(***************************************************************************)
(* What the program hands to the threads of the game: the texts of va, and *)
(* what the Steam API answers.                                             *)
(*                                                                         *)
(* The allocator holds the memory of the string buffers and no other, and  *)
(* no two buffers share theirs, for any number of threads, of buffers and  *)
(* of addresses. A step gives memory to one entry, or takes it from one,   *)
(* or does neither; the lemmas say what each of the three does to the      *)
(* pool, and the invariant adds that a thread which is past its first va   *)
(* has all of its entries. What a thread was told last then stays: its     *)
(* texts are in its latest entries, and no step touches the memory of a    *)
(* text but the one that takes its entry again.                            *)
(*                                                                         *)
(* The results of Steam's calls reach their handlers, because a run over   *)
(* them is through with what it has settled, and all that stands behind    *)
(* its end was returned from within it. A method that can be read is found *)
(* by its name, because what the search reads of it is its own code: that  *)
(* is a fact of FlattenSeq, proved by induction over its length.           *)
(***************************************************************************)
EXTENDS StringPool, SteamCallbacksMC, SequenceTheorems, WellFoundedInduction, TLAPS

States == {"no provider", "ready", "format", "allocate", "ends"}
EntryRecords == [size : Nat, buffer : Addresses \cup {Nothing}]

Shape ==
  /\ string_pool_ \in [Callers -> [Slots -> EntryRecords]]
  /\ current_buffer_ \in [Callers -> Slots]
  /\ at \in [Callers -> States]

\* An entry has a size from its construction on, and threads at work have all.
Sized ==
  \A t \in Callers : \A i \in Slots :
    /\ string_pool_[t][i] # NoEntry => string_pool_[t][i].size > 0
    /\ at[t] \in {"ready", "format", "allocate"} => string_pool_[t][i] # NoEntry

IInv == Shape /\ Sized /\ PoolIsOwned

-----------------------------------------------------------------------------
(* The three kinds of steps.                                               *)

LEMMA Grows ==
  ASSUME PoolIsOwned, NEW e, NEW a, Entries' = Entries \cup {e}, BufferOf(e)' = a,
         \A f \in Entries : BufferOf(f)' = BufferOf(f),
         a \notin DOMAIN pool_, DOMAIN pool_' = DOMAIN pool_ \cup {a}
  PROVE  PoolIsOwned'
<1>1. \A f \in Entries : BufferOf(f) # a
  BY DEF PoolIsOwned
<1>2. DOMAIN pool_' = {BufferOf(f)' : f \in Entries'}
  BY DEF PoolIsOwned
<1>3. \A f, g \in Entries' : BufferOf(f)' = BufferOf(g)' => f = g
  BY <1>1 DEF PoolIsOwned
<1> QED
  BY <1>2, <1>3 DEF PoolIsOwned

LEMMA Shrinks ==
  ASSUME PoolIsOwned, NEW e \in Entries, Entries' = Entries \ {e},
         \A f \in Entries' : BufferOf(f)' = BufferOf(f),
         DOMAIN pool_' = DOMAIN pool_ \ {BufferOf(e)}
  PROVE  PoolIsOwned'
<1>1. \A f \in Entries' : BufferOf(f) # BufferOf(e)
  BY DEF PoolIsOwned
<1>2. DOMAIN pool_' = {BufferOf(f)' : f \in Entries'}
  BY <1>1 DEF PoolIsOwned
<1>3. \A f, g \in Entries' : BufferOf(f)' = BufferOf(g)' => f = g
  BY DEF PoolIsOwned
<1> QED
  BY <1>2, <1>3 DEF PoolIsOwned

LEMMA StaysOwned ==
  ASSUME PoolIsOwned, Entries' = Entries, UNCHANGED string_pool_, DOMAIN pool_' = DOMAIN pool_
  PROVE  PoolIsOwned'
BY DEF PoolIsOwned, BufferOf

-----------------------------------------------------------------------------
(* The steps.                                                              *)

LEMMA InitInv == PoolInit => IInv
<1> SUFFICES ASSUME PoolInit PROVE IInv
  OBVIOUS
<1>1. Shape
  <2>1. NoEntry \in EntryRecords /\ 0 \in Slots /\ "no provider" \in States
    BY BuffersAssumption DEF EntryRecords, NoEntry, Slots, States
  <2> QED
    BY <2>1 DEF PoolInit, Shape
<1>2. Sized
  BY DEF PoolInit, Sized
<1>3. Entries = {}
  BY DEF PoolInit, Entries, HasMemory
<1>4. DOMAIN pool_ = {}
  BY DEF PoolInit
<1> QED
  BY <1>1, <1>2, <1>3, <1>4 DEF IInv, PoolIsOwned

LEMMA ConstructInv == ASSUME IInv, NEW t \in Callers, Construct(t) PROVE IInv'
<1>1. PICK i \in Slots, address \in Addresses :
        /\ at[t] = "no provider" /\ string_pool_[t][i] = NoEntry
        /\ \A j \in 0..(i - 1) : string_pool_[t][j] # NoEntry
        /\ Allocated(address)
        /\ string_pool_' = [string_pool_ EXCEPT ![t][i] = [size |-> 1, buffer |-> address]]
        /\ IF i = Buffers - 1 THEN Go(t, "ready") ELSE UNCHANGED at
        /\ UNCHANGED current_buffer_
  BY DEF Construct
<1> DEFINE r == [size |-> 1, buffer |-> address]
<1>2. Shape /\ Sized /\ PoolIsOwned /\ r \in EntryRecords /\ r # NoEntry
  BY NothingAssumption DEF IInv, EntryRecords, NoEntry
<1>3. /\ string_pool_'[t][i] = r
      /\ \A u \in Callers : \A j \in Slots :
           <<u, j>> # <<t, i>> => string_pool_'[u][j] = string_pool_[u][j]
      /\ Shape'
  BY <1>1, <1>2 DEF Shape, Go, States
<1>4. \A u \in Callers \ {t} : at'[u] = at[u]
  BY <1>1, <1>2 DEF Shape, Go
<1>5. at'[t] \in {"no provider", "ready"} /\ (at'[t] = "ready" => i = Buffers - 1)
  BY <1>1, <1>2 DEF Shape, Go
<1>6. Sized'
  <2> SUFFICES ASSUME NEW u \in Callers, NEW j \in Slots
               PROVE  /\ string_pool_'[u][j] # NoEntry => string_pool_'[u][j].size > 0
                      /\ at'[u] \in {"ready", "format", "allocate"} => string_pool_'[u][j] # NoEntry
    BY DEF Sized, NoEntry
  <2>1. CASE u # t
    BY <1>2, <1>3, <1>4, <2>1 DEF Sized
  <2>2. CASE u = t /\ j = i
    BY <1>2, <1>3, <2>2
  <2>3. CASE u = t /\ j # i
    <3>1. string_pool_'[u][j] = string_pool_[u][j]
      BY <1>3, <2>3
    <3>2. i = Buffers - 1 => string_pool_[u][j] # NoEntry
      <4>1. i = Buffers - 1 => j \in 0..(i - 1)
        BY <2>3, BuffersAssumption DEF Slots
      <4> QED
        BY <1>1, <2>3, <4>1
    <3> QED
      BY <1>2, <1>5, <2>3, <3>1, <3>2 DEF Sized
  <2> QED
    BY <2>1, <2>2, <2>3
<1>7. \A u \in Callers, j \in Slots :
        HasMemory(u, j)' <=> HasMemory(u, j) \/ <<u, j>> = <<t, i>>
  BY <1>1, <1>2, <1>3, <1>4, <1>5 DEF HasMemory, NoEntry
<1>8. Entries' = Entries \cup {<<t, i>>}
  BY <1>7 DEF Entries
<1>9. /\ BufferOf(<<t, i>>)' = address
      /\ \A f \in Entries : BufferOf(f)' = BufferOf(f)
  <2>1. <<t, i>> \notin Entries
    BY <1>1 DEF Entries, HasMemory
  <2>2. ASSUME NEW f \in Entries PROVE BufferOf(f)' = BufferOf(f)
    <3>1. PICK u \in Callers, j \in Slots : f = <<u, j>>
      BY DEF Entries
    <3> QED
      BY <1>3, <2>1, <3>1 DEF BufferOf
  <2> QED
    BY <1>3, <2>2 DEF BufferOf
<1>10. address \notin DOMAIN pool_ /\ DOMAIN pool_' = DOMAIN pool_ \cup {address}
  BY <1>1 DEF Allocated
<1>11. PoolIsOwned'
  BY <1>2, <1>8, <1>9, <1>10, Grows
<1> QED
  BY <1>3, <1>6, <1>11 DEF IInv

LEMMA TruncatedInv == ASSUME IInv, NEW t \in Callers, Truncated(t) PROVE IInv'
<1>0. PICK i \in Slots : i = current_buffer_[t]
  BY DEF IInv, Shape
<1> DEFINE r == [size |-> 2 * string_pool_[t][i].size,
                 buffer |-> string_pool_[t][i].buffer]
<1>1. /\ at[t] = "format"
      /\ string_pool_' = [string_pool_ EXCEPT ![t][i].size = 2 * @]
      /\ pool_' = [a \in DOMAIN pool_ \ {string_pool_[t][i].buffer} |-> pool_[a]]
      /\ at' = [at EXCEPT ![t] = "allocate"]
      /\ UNCHANGED current_buffer_
  BY <1>0 DEF Truncated, Freed, Go, CurrentBuffer
<1>2. Shape /\ Sized /\ PoolIsOwned /\ i \in Slots /\ string_pool_[t][i] \in EntryRecords
  BY DEF IInv, Shape
<1>3. string_pool_[t][i] # NoEntry /\ string_pool_[t][i].size > 0
  BY <1>1, <1>2 DEF Sized
<1>4. r \in EntryRecords /\ r.size > 0 /\ r # NoEntry
      /\ [string_pool_[t][i] EXCEPT !.size = 2 * @] = r
  BY <1>2, <1>3 DEF EntryRecords, NoEntry
<1>5. /\ string_pool_'[t][i] = r
      /\ \A u \in Callers : \A j \in Slots :
           <<u, j>> # <<t, i>> => string_pool_'[u][j] = string_pool_[u][j]
      /\ string_pool_' \in [Callers -> [Slots -> EntryRecords]]
  BY <1>1, <1>2, <1>4 DEF Shape
<1> HIDE DEF r
<1>6. /\ at'[t] = "allocate" /\ \A u \in Callers \ {t} : at'[u] = at[u]
      /\ Shape'
  BY <1>1, <1>2, <1>5 DEF Shape, States
<1>7. Sized'
  <2> SUFFICES ASSUME NEW u \in Callers, NEW j \in Slots
               PROVE  /\ string_pool_'[u][j] # NoEntry => string_pool_'[u][j].size > 0
                      /\ at'[u] \in {"ready", "format", "allocate"} => string_pool_'[u][j] # NoEntry
    BY DEF Sized, NoEntry
  <2>1. CASE <<u, j>> = <<t, i>>
    BY <1>4, <1>5, <2>1
  <2>2. CASE <<u, j>> # <<t, i>>
    BY <1>1, <1>2, <1>5, <1>6, <2>2 DEF Sized
  <2> QED
    BY <2>1, <2>2
<1>8. \A u \in Callers, j \in Slots :
        HasMemory(u, j)' <=> HasMemory(u, j) /\ <<u, j>> # <<t, i>>
  <2> SUFFICES ASSUME NEW u \in Callers, NEW j \in Slots
               PROVE  HasMemory(u, j)' <=> HasMemory(u, j) /\ <<u, j>> # <<t, i>>
    OBVIOUS
  <2>1. CASE u # t
    BY <1>1, <1>5, <1>6, <2>1 DEF HasMemory, NoEntry
  <2>2. CASE u = t /\ j = i
    BY <1>0, <1>1, <1>6, <2>2 DEF HasMemory
  <2>3. CASE u = t /\ j # i
    BY <1>0, <1>1, <1>5, <1>6, <2>3 DEF HasMemory, NoEntry
  <2> QED
    BY <2>1, <2>2, <2>3
<1>9. <<t, i>> \in Entries /\ Entries' = Entries \ {<<t, i>>}
  BY <1>1, <1>2, <1>3, <1>8 DEF Entries, HasMemory
<1>10. \A f \in Entries' : BufferOf(f)' = BufferOf(f)
  <2> SUFFICES ASSUME NEW f \in Entries' PROVE BufferOf(f)' = BufferOf(f)
    OBVIOUS
  <2>1. PICK u \in Callers, j \in Slots : f = <<u, j>> /\ <<u, j>> # <<t, i>>
    BY <1>9 DEF Entries
  <2> QED
    BY <1>5, <2>1 DEF BufferOf
<1>11. DOMAIN pool_' = DOMAIN pool_ \ {BufferOf(<<t, i>>)}
  BY <1>1 DEF BufferOf
<1>12. PoolIsOwned'
  BY <1>2, <1>9, <1>10, <1>11, Shrinks
<1> QED
  BY <1>6, <1>7, <1>12 DEF IInv

LEMMA ReallocateInv == ASSUME IInv, NEW t \in Callers, Reallocate(t) PROVE IInv'
<1>0. PICK i \in Slots : i = current_buffer_[t]
  BY DEF IInv, Shape
<1>1. PICK address \in Addresses :
        /\ at[t] = "allocate" /\ Allocated(address)
        /\ string_pool_' = [string_pool_ EXCEPT ![t][i].buffer = address]
        /\ at' = [at EXCEPT ![t] = "format"]
        /\ UNCHANGED current_buffer_
  BY <1>0 DEF Reallocate, Go
<1> DEFINE r == [size |-> string_pool_[t][i].size, buffer |-> address]
<1>2. Shape /\ Sized /\ PoolIsOwned /\ i \in Slots /\ string_pool_[t][i] \in EntryRecords
  BY DEF IInv, Shape
<1>3. string_pool_[t][i] # NoEntry /\ string_pool_[t][i].size > 0
  BY <1>1, <1>2 DEF Sized
<1>4. r \in EntryRecords /\ r.size > 0 /\ r # NoEntry /\ r.buffer = address
      /\ [string_pool_[t][i] EXCEPT !.buffer = address] = r
  BY <1>2, <1>3 DEF EntryRecords, NoEntry
<1>5. /\ string_pool_'[t][i] = r
      /\ \A u \in Callers : \A j \in Slots :
           <<u, j>> # <<t, i>> => string_pool_'[u][j] = string_pool_[u][j]
      /\ string_pool_' \in [Callers -> [Slots -> EntryRecords]]
  BY <1>1, <1>2, <1>4 DEF Shape
<1> HIDE DEF r
<1>6. /\ at'[t] = "format" /\ \A u \in Callers \ {t} : at'[u] = at[u]
      /\ Shape'
  BY <1>1, <1>2, <1>5 DEF Shape, States
<1>7. Sized'
  <2> SUFFICES ASSUME NEW u \in Callers, NEW j \in Slots
               PROVE  /\ string_pool_'[u][j] # NoEntry => string_pool_'[u][j].size > 0
                      /\ at'[u] \in {"ready", "format", "allocate"} => string_pool_'[u][j] # NoEntry
    BY DEF Sized, NoEntry
  <2>1. CASE <<u, j>> = <<t, i>>
    BY <1>4, <1>5, <2>1
  <2>2. CASE <<u, j>> # <<t, i>>
    BY <1>1, <1>2, <1>5, <1>6, <2>2 DEF Sized
  <2> QED
    BY <2>1, <2>2
<1>8. \A u \in Callers, j \in Slots :
        HasMemory(u, j)' <=> HasMemory(u, j) \/ <<u, j>> = <<t, i>>
  <2> SUFFICES ASSUME NEW u \in Callers, NEW j \in Slots
               PROVE  HasMemory(u, j)' <=> HasMemory(u, j) \/ <<u, j>> = <<t, i>>
    OBVIOUS
  <2>1. CASE u # t
    BY <1>1, <1>5, <1>6, <2>1 DEF HasMemory, NoEntry
  <2>2. CASE u = t /\ j = i
    BY <1>4, <1>5, <1>6, <2>2 DEF HasMemory, NoEntry
  <2>3. CASE u = t /\ j # i
    BY <1>0, <1>1, <1>5, <1>6, <2>3 DEF HasMemory, NoEntry
  <2> QED
    BY <2>1, <2>2, <2>3
<1>9. <<t, i>> \notin Entries /\ Entries' = Entries \cup {<<t, i>>}
  BY <1>0, <1>1, <1>2, <1>8 DEF Entries, HasMemory
<1>10. BufferOf(<<t, i>>)' = address /\ \A f \in Entries : BufferOf(f)' = BufferOf(f)
  <2>1. ASSUME NEW f \in Entries PROVE BufferOf(f)' = BufferOf(f)
    <3>1. PICK u \in Callers, j \in Slots : f = <<u, j>> /\ <<u, j>> # <<t, i>>
      BY <1>9 DEF Entries
    <3> QED
      BY <1>5, <3>1 DEF BufferOf
  <2> QED
    BY <1>1, <1>4, <1>5, <2>1 DEF BufferOf
<1>11. address \notin DOMAIN pool_ /\ DOMAIN pool_' = DOMAIN pool_ \cup {address}
  BY <1>1 DEF Allocated
<1>12. PoolIsOwned'
  BY <1>2, <1>9, <1>10, <1>11, Grows
<1> QED
  BY <1>6, <1>7, <1>12 DEF IInv

LEMMA DestroyInv == ASSUME IInv, NEW t \in Callers, Destroy(t) PROVE IInv'
<1>1. PICK i \in Slots :
        /\ at[t] = "ends" /\ string_pool_[t][i] # NoEntry
        /\ Freed(string_pool_[t][i].buffer)
        /\ string_pool_' = [string_pool_ EXCEPT ![t][i] = NoEntry]
        /\ IF i = 0
           THEN Go(t, "no provider") /\ current_buffer_' = [current_buffer_ EXCEPT ![t] = 0]
           ELSE UNCHANGED <<at, current_buffer_>>
  BY DEF Destroy
<1>2. Shape /\ Sized /\ PoolIsOwned /\ NoEntry \in EntryRecords /\ 0 \in Slots
  BY BuffersAssumption DEF IInv, EntryRecords, NoEntry, Slots
<1>3. /\ string_pool_'[t][i] = NoEntry
      /\ \A u \in Callers : \A j \in Slots :
           <<u, j>> # <<t, i>> => string_pool_'[u][j] = string_pool_[u][j]
      /\ string_pool_' \in [Callers -> [Slots -> EntryRecords]]
  BY <1>1, <1>2 DEF Shape
<1>4. /\ at'[t] \in {"no provider", "ends"}
      /\ \A u \in Callers \ {t} : at'[u] = at[u] /\ current_buffer_'[u] = current_buffer_[u]
      /\ at' \in [Callers -> States] /\ current_buffer_' \in [Callers -> Slots]
  BY <1>1, <1>2 DEF Shape, Go, States
<1>5. Shape'
  BY <1>3, <1>4 DEF Shape
<1>6. Sized'
  <2> SUFFICES ASSUME NEW u \in Callers, NEW j \in Slots
               PROVE  /\ string_pool_'[u][j] # NoEntry => string_pool_'[u][j].size > 0
                      /\ at'[u] \in {"ready", "format", "allocate"} => string_pool_'[u][j] # NoEntry
    BY DEF Sized, NoEntry
  <2>1. CASE u = t /\ j = i
    BY <1>3, <1>4, <2>1
  <2>2. CASE u = t /\ j # i
    BY <1>2, <1>3, <1>4, <2>2 DEF Sized
  <2>3. CASE u # t
    BY <1>2, <1>3, <1>4, <2>3 DEF Sized
  <2> QED
    BY <2>1, <2>2, <2>3
<1>7. \A u \in Callers, j \in Slots :
        HasMemory(u, j)' <=> HasMemory(u, j) /\ <<u, j>> # <<t, i>>
  <2> SUFFICES ASSUME NEW u \in Callers, NEW j \in Slots
               PROVE  HasMemory(u, j)' <=> HasMemory(u, j) /\ <<u, j>> # <<t, i>>
    OBVIOUS
  <2>1. CASE u # t
    BY <1>3, <1>4, <2>1 DEF HasMemory, NoEntry
  <2>2. CASE u = t /\ j = i
    BY <1>3, <2>2 DEF HasMemory, NoEntry
  <2>3. CASE u = t /\ j # i
    BY <1>1, <1>3, <1>4, <2>3 DEF HasMemory, NoEntry
  <2> QED
    BY <2>1, <2>2, <2>3
<1>8. <<t, i>> \in Entries /\ Entries' = Entries \ {<<t, i>>}
  <2>1. HasMemory(t, i)
    BY <1>1 DEF HasMemory
  <2> QED
    BY <1>7, <2>1 DEF Entries
<1>9. \A f \in Entries' : BufferOf(f)' = BufferOf(f)
  <2> SUFFICES ASSUME NEW f \in Entries' PROVE BufferOf(f)' = BufferOf(f)
    OBVIOUS
  <2>1. PICK u \in Callers, j \in Slots : f = <<u, j>> /\ <<u, j>> # <<t, i>>
    BY <1>8 DEF Entries
  <2> QED
    BY <1>3, <2>1 DEF BufferOf
<1>10. DOMAIN pool_' = DOMAIN pool_ \ {BufferOf(<<t, i>>)}
  BY <1>1 DEF Freed, BufferOf
<1>11. PoolIsOwned'
  BY <1>2, <1>8, <1>9, <1>10, Shrinks
<1> QED
  BY <1>5, <1>6, <1>11 DEF IInv

\* The other steps leave every entry with the memory it has.
LEMMA OthersInv ==
  ASSUME IInv, NEW t \in Callers, (\E str \in Texts : Get(t, str)) \/ Format(t) \/ EndThread(t)
  PROVE  IInv'
<1>1. Shape /\ Sized /\ PoolIsOwned
  BY DEF IInv
<1>2. UNCHANGED string_pool_
  BY DEF Get, Format, EndThread
<1>3. /\ at[t] \in {"ready", "format"} /\ at'[t] \in {"ready", "format", "ends"}
      /\ \A u \in Callers \ {t} : at'[u] = at[u]
      /\ at' \in [Callers -> States]
  BY <1>1 DEF Get, Format, EndThread, Answer, Go, Shape, States
<1>4. /\ \A u \in Callers \ {t} : current_buffer_'[u] = current_buffer_[u]
      /\ current_buffer_' \in [Callers -> Slots]
  <2>1. CASE \E str \in Texts : Get(t, str)
    <3>1. current_buffer_' = [current_buffer_ EXCEPT ![t] = NextSlot(@)]
      BY <2>1 DEF Get
    <3>2. NextSlot(current_buffer_[t]) \in Slots
      BY <1>1, BuffersAssumption DEF Shape, NextSlot, Slots
    <3> QED
      BY <1>1, <3>1, <3>2 DEF Shape
  <2>2. CASE Format(t) \/ EndThread(t)
    BY <1>1, <2>2 DEF Format, EndThread, Shape
  <2> QED
    BY <2>1, <2>2
<1>5. Shape' /\ Sized'
  BY <1>1, <1>2, <1>3, <1>4 DEF Shape, Sized, NoEntry
<1>6. \A u \in Callers, j \in Slots : HasMemory(u, j)' <=> HasMemory(u, j)
  BY <1>2, <1>3, <1>4 DEF HasMemory, NoEntry
<1>7. Entries' = Entries
  BY <1>6 DEF Entries
<1>8. DOMAIN pool_' = DOMAIN pool_
  BY DEF Get, Format, EndThread
<1> QED
  BY <1>1, <1>2, <1>5, <1>7, <1>8, StaysOwned DEF IInv

LEMMA NextInv == IInv /\ [PoolNext]_poolVars => IInv'
<1> SUFFICES ASSUME IInv, [PoolNext]_poolVars PROVE IInv'
  OBVIOUS
<1>1. CASE PoolNext
  BY <1>1, ConstructInv, TruncatedInv, ReallocateInv, DestroyInv, OthersInv DEF PoolNext
<1>2. CASE UNCHANGED poolVars
  <2>1. Entries' = Entries
    BY <1>2 DEF poolVars, Entries, HasMemory, NoEntry
  <2>2. PoolIsOwned'
    BY <1>2, <2>1, StaysOwned DEF poolVars, IInv
  <2> QED
    BY <1>2, <2>2 DEF poolVars, IInv, Shape, Sized, NoEntry
<1> QED
  BY <1>1, <1>2

\* Whatever the numbers of threads, buffers and addresses: the memory of the
\* allocator is that of the entries, and no two of them have the same.
THEOREM PoolStaysOwned == PoolSpec => []PoolIsOwned
<1>1. IInv => PoolIsOwned
  BY DEF IInv
<1> QED
  BY <1>1, InitInv, NextInv, PTL DEF PoolSpec

-----------------------------------------------------------------------------
(* The texts: an answer stands in the entry that many places before the    *)
(* current one as there are later answers, one more while another text is  *)
(* being formatted.                                                        *)

Working == {"format", "allocate"}
Forming(t) == IF at[t] \in Working THEN 1 ELSE 0
Back(i, d) == IF d <= i THEN i - d ELSE i - d + Buffers
Slot(t, k) == Back(current_buffer_[t], Forming(t) + Len(answers[t]) - k)

TextsOrNone == Texts \cup {Nothing}
Answers == Seq([buffer : Addresses \cup {Nothing}, text : TextsOrNone])

Fits(t) ==
  /\ Len(answers[t]) + Forming(t) <= Buffers
  /\ at[t] \in {"no provider", "ends"} => answers[t] = << >>

\* An answer is in its entry, and what is in its memory is the text.
Stands(t, k) ==
  answers[t][k].buffer # Nothing =>
    /\ answers[t][k].buffer = string_pool_[t][Slot(t, k)].buffer
    /\ pool_[answers[t][k].buffer] = answers[t][k].text

Told(t) == Fits(t) /\ \A k \in DOMAIN answers[t] : Stands(t, k)

TInv ==
  /\ IInv
  /\ text \in [Callers -> TextsOrNone] /\ answers \in [Callers -> Answers]
  /\ \A t \in Callers : Told(t)

LEMMA BackInSlots ==
  ASSUME NEW i \in Slots, NEW d \in Slots
  PROVE  Back(i, d) \in Slots /\ (d # 0 => Back(i, d) # i)
BY BuffersAssumption DEF Back, Slots

\* One place further round the ring.
LEMMA BackFromNext ==
  ASSUME NEW i \in Slots, NEW d \in Slots, d + 1 < Buffers
  PROVE  NextSlot(i) \in Slots /\ Back(NextSlot(i), d + 1) = Back(i, d)
<1>1. CASE i + 1 < Buffers
  <2>1. NextSlot(i) = i + 1
    BY <1>1, BuffersAssumption DEF NextSlot, Slots
  <2> QED
    BY <1>1, <2>1, BuffersAssumption DEF Back, Slots
<1>2. CASE i + 1 = Buffers
  <2>1. NextSlot(i) = 0
    BY <1>2, BuffersAssumption DEF NextSlot, Slots
  <2> QED
    BY <1>2, <2>1, BuffersAssumption DEF Back, Slots
<1> QED
  BY <1>1, <1>2, BuffersAssumption DEF Slots

\* The entry of an answer has memory, and is not the one being formatted.
LEMMA AnswerHasEntry ==
  ASSUME TInv, NEW t \in Callers, NEW k \in DOMAIN answers[t]
  PROVE  /\ Slot(t, k) \in Slots /\ <<t, Slot(t, k)>> \in Entries
         /\ at[t] \in Working => Slot(t, k) # current_buffer_[t]
         /\ at[t] \in {"ready", "format", "allocate"}
<1>1. Shape /\ Sized /\ Fits(t) /\ answers[t] \in Answers
  BY DEF TInv, Told, IInv
<1>0. DOMAIN answers[t] = 1..Len(answers[t]) /\ Len(answers[t]) \in Nat
  BY <1>1 DEF Answers
<1> DEFINE d == Forming(t) + Len(answers[t]) - k
<1>2. d \in Slots /\ (at[t] \in Working => d # 0)
  <2>1. Forming(t) \in {0, 1} /\ (at[t] \in Working => Forming(t) = 1)
    BY DEF Forming
  <2>2. PICK n \in Nat, f \in {0, 1} : n = Len(answers[t]) /\ f = Forming(t)
    BY <1>0, <2>1
  <2>3. k \in 1..n /\ n + f <= Buffers /\ d = f + n - k
    BY <1>0, <1>1, <2>2 DEF Fits
  <2>4. d \in Slots /\ (f = 1 => d # 0)
    BY <2>3, BuffersAssumption DEF Slots
  <2> QED
    BY <2>1, <2>2, <2>4
<1>3. Slot(t, k) \in Slots /\ (at[t] \in Working => Slot(t, k) # current_buffer_[t])
  BY <1>1, <1>2, BackInSlots DEF Slot, Shape
<1>4. at[t] \in {"ready", "format", "allocate"}
  <2>1. answers[t] # << >>
    BY <1>0
  <2> QED
    BY <1>1, <2>1 DEF Fits, Shape, States
<1>5. HasMemory(t, Slot(t, k))
  BY <1>1, <1>3, <1>4 DEF HasMemory, Sized, Working
<1> QED
  BY <1>3, <1>4, <1>5 DEF Entries

\* Answers stand where a step leaves the ring of their thread and what the
\* memory of their entries holds.
LEMMA StillStand ==
  ASSUME TInv, NEW t \in Callers, answers'[t] = answers[t], Forming(t)' = Forming(t),
         current_buffer_'[t] = current_buffer_[t],
         \A i \in Slots : <<t, i>> \in Entries /\ (at[t] \in Working => i # current_buffer_[t]) =>
           /\ string_pool_'[t][i].buffer = string_pool_[t][i].buffer
           /\ pool_'[string_pool_[t][i].buffer] = pool_[string_pool_[t][i].buffer]
  PROVE  \A k \in DOMAIN answers'[t] : Stands(t, k)'
<1> SUFFICES ASSUME NEW k \in DOMAIN answers[t] PROVE Stands(t, k)'
  OBVIOUS
<1>1. PICK i \in Slots : i = Slot(t, k)
  BY AnswerHasEntry
<1>2. Slot(t, k)' = i
  BY <1>1 DEF Slot
<1>3. /\ string_pool_'[t][i].buffer = string_pool_[t][i].buffer
      /\ pool_'[string_pool_[t][i].buffer] = pool_[string_pool_[t][i].buffer]
  BY <1>1, AnswerHasEntry
<1>4. Stands(t, k)
  BY DEF TInv, Told
<1> QED
  BY <1>1, <1>2, <1>3, <1>4 DEF Stands

\* A step of one thread leaves the answers of another, whatever it does to the
\* memory of its own entries.
LEMMA OthersStand ==
  ASSUME TInv, NEW u \in Callers, NEW t \in Callers, t # u,
         at'[t] = at[t], answers'[t] = answers[t], current_buffer_'[t] = current_buffer_[t],
         string_pool_'[t] = string_pool_[t],
         \A a \in DOMAIN pool_ :
           \/ pool_'[a] = pool_[a]
           \/ \E i \in Slots : <<u, i>> \in Entries /\ a = string_pool_[u][i].buffer
  PROVE  Told(t)'
<1>1. Fits(t) /\ PoolIsOwned
  BY DEF TInv, Told, IInv
<1>2. Forming(t)' = Forming(t)
  BY DEF Forming
<1>3. Fits(t)'
  BY <1>1, <1>2 DEF Fits
<1>4. ASSUME NEW i \in Slots, <<t, i>> \in Entries
      PROVE  pool_'[string_pool_[t][i].buffer] = pool_[string_pool_[t][i].buffer]
  <2>1. string_pool_[t][i].buffer \in DOMAIN pool_
    BY <1>1, <1>4 DEF PoolIsOwned, BufferOf
  <2>2. \A j \in Slots :
          <<u, j>> \in Entries => string_pool_[t][i].buffer # string_pool_[u][j].buffer
    BY <1>1, <1>4 DEF PoolIsOwned, BufferOf
  <2> QED
    BY <2>1, <2>2
<1>5. \A k \in DOMAIN answers'[t] : Stands(t, k)'
  BY <1>2, <1>4, StillStand
<1> QED
  BY <1>3, <1>5 DEF Told

\* A thread that is not given any text yet, or no more.
LEMMA NothingTold ==
  ASSUME NEW t \in Callers, answers'[t] = << >>, at'[t] \notin Working
  PROVE  Told(t)'
<1>1. Forming(t)' = 0 /\ Len(answers'[t]) = 0 /\ DOMAIN answers'[t] = {}
  BY DEF Forming
<1> QED
  BY <1>1, BuffersAssumption DEF Told, Fits

LEMMA ConstructTold == ASSUME TInv, NEW u \in Callers, Construct(u)
  PROVE \A t \in Callers : Told(t)'
<1>1. PICK i \in Slots, address \in Addresses :
        /\ at[u] = "no provider" /\ Allocated(address)
        /\ string_pool_' = [string_pool_ EXCEPT ![u][i] = [size |-> 1, buffer |-> address]]
        /\ IF i = Buffers - 1 THEN Go(u, "ready") ELSE UNCHANGED at
        /\ UNCHANGED <<current_buffer_, text, answers>>
  BY DEF Construct
<1>2. Shape /\ Fits(u) /\ at'[u] \in {"no provider", "ready"}
  BY <1>1 DEF TInv, Told, IInv, Shape, Go
<1>3. Told(u)'
  BY <1>1, <1>2, NothingTold DEF Fits, Working
<1>4. ASSUME NEW t \in Callers, t # u PROVE Told(t)'
  <2>1. at'[t] = at[t] /\ string_pool_'[t] = string_pool_[t]
    BY <1>1, <1>2, <1>4 DEF Go, Shape
  <2>2. \A a \in DOMAIN pool_ : pool_'[a] = pool_[a]
    BY <1>1 DEF Allocated
  <2> QED
    BY <1>1, <1>4, <2>1, <2>2, OthersStand
<1> QED
  BY <1>3, <1>4

LEMMA DestroyTold == ASSUME TInv, NEW u \in Callers, Destroy(u) PROVE \A t \in Callers : Told(t)'
<1>1. PICK i \in Slots :
        /\ at[u] = "ends" /\ string_pool_[u][i] # NoEntry
        /\ Freed(string_pool_[u][i].buffer)
        /\ string_pool_' = [string_pool_ EXCEPT ![u][i] = NoEntry]
        /\ IF i = 0
           THEN Go(u, "no provider") /\ current_buffer_' = [current_buffer_ EXCEPT ![u] = 0]
           ELSE UNCHANGED <<at, current_buffer_>>
        /\ UNCHANGED answers
  BY DEF Destroy
<1>2. Shape /\ Fits(u) /\ at'[u] \in {"no provider", "ends"}
  BY <1>1 DEF TInv, Told, IInv, Shape, Go
<1>3. Told(u)'
  BY <1>1, <1>2, NothingTold DEF Fits, Working
<1>4. ASSUME NEW t \in Callers, t # u PROVE Told(t)'
  <2>1. /\ at'[t] = at[t] /\ string_pool_'[t] = string_pool_[t]
        /\ current_buffer_'[t] = current_buffer_[t]
    BY <1>1, <1>2, <1>4 DEF Go, Shape
  <2>2. <<u, i>> \in Entries
    BY <1>1 DEF Entries, HasMemory
  <2>3. \A a \in DOMAIN pool_ : pool_'[a] = pool_[a] \/ a = string_pool_[u][i].buffer
    BY <1>1 DEF Freed
  <2> QED
    BY <1>1, <1>4, <2>1, <2>2, <2>3, OthersStand
<1> QED
  BY <1>3, <1>4

LEMMA EndTold == ASSUME TInv, NEW u \in Callers, EndThread(u) PROVE \A t \in Callers : Told(t)'
<1>1. Shape /\ answers \in [Callers -> Answers]
  BY DEF TInv, Told, IInv
<1>2. Told(u)'
  BY <1>1, NothingTold DEF EndThread, Go, Shape, Working
<1>3. ASSUME NEW t \in Callers, t # u PROVE Told(t)'
  <2>1. at'[t] = at[t] /\ answers'[t] = answers[t]
    BY <1>1, <1>3 DEF EndThread, Go, Shape
  <2> QED
    BY <1>3, <2>1, OthersStand DEF EndThread
<1> QED
  BY <1>2, <1>3

LEMMA TruncatedTold == ASSUME TInv, NEW u \in Callers, Truncated(u)
  PROVE \A t \in Callers : Told(t)'
<1>1. PICK i \in Slots : i = current_buffer_[u]
  BY DEF TInv, IInv, Shape
<1>2. /\ Shape /\ Sized /\ PoolIsOwned /\ Fits(u)
  BY DEF TInv, Told, IInv
<1>3. /\ at[u] = "format" /\ at' = [at EXCEPT ![u] = "allocate"]
      /\ string_pool_' = [string_pool_ EXCEPT ![u][i].size = 2 * @]
      /\ \A a \in DOMAIN pool_ : pool_'[a] = pool_[a] \/ a = string_pool_[u][i].buffer
      /\ UNCHANGED <<current_buffer_, answers>>
  BY <1>1 DEF Truncated, Go, CurrentBuffer, Freed
<1>4. <<u, i>> \in Entries
  BY <1>2, <1>3 DEF Entries, HasMemory, Sized
<1>5. Told(u)'
  <2>1. at'[u] = "allocate" /\ Forming(u)' = Forming(u)
    BY <1>2, <1>3 DEF Shape, Forming, Working
  <2>2. Fits(u)'
    BY <1>2, <1>3, <2>1 DEF Fits
  <2>3. ASSUME NEW j \in Slots, <<u, j>> \in Entries, j # i
        PROVE  /\ string_pool_'[u][j].buffer = string_pool_[u][j].buffer
               /\ pool_'[string_pool_[u][j].buffer] = pool_[string_pool_[u][j].buffer]
    <3>1. string_pool_'[u][j] = string_pool_[u][j]
      BY <1>2, <1>3, <2>3 DEF Shape
    <3>2. /\ string_pool_[u][j].buffer \in DOMAIN pool_
          /\ string_pool_[u][j].buffer # string_pool_[u][i].buffer
      BY <1>2, <1>4, <2>3 DEF PoolIsOwned, BufferOf
    <3> QED
      BY <1>3, <3>1, <3>2
  <2>4. at[u] \in Working
    BY <1>3 DEF Working
  <2>5. \A k \in DOMAIN answers'[u] : Stands(u, k)'
    BY <1>1, <1>3, <2>1, <2>3, <2>4, StillStand
  <2> QED
    BY <2>2, <2>5 DEF Told
<1>6. ASSUME NEW t \in Callers, t # u PROVE Told(t)'
  <2>1. at'[t] = at[t] /\ string_pool_'[t] = string_pool_[t]
    BY <1>2, <1>3, <1>6 DEF Shape
  <2> QED
    BY <1>3, <1>4, <1>6, <2>1, OthersStand
<1> QED
  BY <1>5, <1>6

LEMMA ReallocateTold == ASSUME TInv, NEW u \in Callers, Reallocate(u)
  PROVE \A t \in Callers : Told(t)'
<1>1. PICK i \in Slots : i = current_buffer_[u]
  BY DEF TInv, IInv, Shape
<1>2. Shape /\ PoolIsOwned /\ Fits(u)
  BY DEF TInv, Told, IInv
<1>3. PICK address \in Addresses :
        /\ at[u] = "allocate" /\ at' = [at EXCEPT ![u] = "format"]
        /\ string_pool_' = [string_pool_ EXCEPT ![u][i].buffer = address]
        /\ \A a \in DOMAIN pool_ : pool_'[a] = pool_[a]
        /\ UNCHANGED <<current_buffer_, answers>>
  BY <1>1 DEF Reallocate, Go, Allocated
<1>4. Told(u)'
  <2>1. at'[u] = "format" /\ at[u] \in Working /\ Forming(u)' = Forming(u)
    BY <1>2, <1>3 DEF Shape, Forming, Working
  <2>2. Fits(u)'
    BY <1>2, <1>3, <2>1 DEF Fits
  <2>3. ASSUME NEW j \in Slots, <<u, j>> \in Entries, j # i
        PROVE  /\ string_pool_'[u][j].buffer = string_pool_[u][j].buffer
               /\ pool_'[string_pool_[u][j].buffer] = pool_[string_pool_[u][j].buffer]
    <3>1. string_pool_'[u][j] = string_pool_[u][j]
      BY <1>2, <1>3, <2>3 DEF Shape
    <3>2. string_pool_[u][j].buffer \in DOMAIN pool_
      BY <1>2, <2>3 DEF PoolIsOwned, BufferOf
    <3> QED
      BY <1>3, <3>1, <3>2
  <2>4. \A k \in DOMAIN answers'[u] : Stands(u, k)'
    BY <1>1, <1>3, <2>1, <2>3, StillStand
  <2> QED
    BY <2>2, <2>4 DEF Told
<1>5. ASSUME NEW t \in Callers, t # u PROVE Told(t)'
  <2>1. at'[t] = at[t] /\ string_pool_'[t] = string_pool_[t]
    BY <1>2, <1>3, <1>5 DEF Shape
  <2> QED
    BY <1>3, <1>5, <2>1, OthersStand
<1> QED
  BY <1>4, <1>5

\* What the sequence of answers is, for the two steps that change it.
LEMMA AnswersAre ==
  ASSUME TInv, NEW t \in Callers
  PROVE  /\ Len(answers[t]) \in Nat /\ DOMAIN answers[t] = 1..Len(answers[t])
         /\ Forming(t) \in {0, 1} /\ Len(answers[t]) + Forming(t) <= Buffers
<1>1. answers[t] \in Answers /\ Fits(t)
  BY DEF TInv, Told
<1>2. Len(answers[t]) \in Nat /\ DOMAIN answers[t] = 1..Len(answers[t])
  BY <1>1 DEF Answers
<1>3. Forming(t) \in {0, 1}
  BY DEF Forming
<1> QED
  BY <1>1, <1>2, <1>3 DEF Fits

LEMMA GetTold ==
  ASSUME TInv, NEW u \in Callers, NEW str \in Texts, Get(u, str)
  PROVE  \A t \in Callers : Told(t)'
<1>1. Shape /\ answers \in [Callers -> Answers] /\ Told(u)
  BY DEF TInv, IInv
<1>2. /\ at[u] = "ready" /\ at' = [at EXCEPT ![u] = "format"]
      /\ current_buffer_' = [current_buffer_ EXCEPT ![u] = NextSlot(@)]
      /\ answers' = [answers EXCEPT ![u] = IF Len(@) = Buffers THEN Tail(@) ELSE @]
      /\ UNCHANGED <<pool_, string_pool_>>
  BY DEF Get, Go
<1>3. /\ at'[u] = "format" /\ Forming(u) = 0 /\ Forming(u)' = 1
      /\ current_buffer_'[u] = NextSlot(current_buffer_[u])
      /\ answers'[u] = IF Len(answers[u]) = Buffers THEN Tail(answers[u]) ELSE answers[u]
  BY <1>1, <1>2 DEF Shape, Forming, Working
<1>4. PICK n \in Nat : n = Len(answers[u]) /\ DOMAIN answers[u] = 1..n /\ n <= Buffers
  BY <1>3, AnswersAre
<1>5. PICK s \in {0, 1} :
        /\ s <= n /\ n - s < Buffers
        /\ Len(answers'[u]) = n - s /\ DOMAIN answers'[u] = 1..(n - s)
        /\ \A k \in 1..(n - s) : answers'[u][k] = answers[u][k + s]
  <2>1. CASE n = Buffers
    <3>1. answers'[u] = Tail(answers[u]) /\ n >= 1
      BY <1>3, <1>4, <2>1, BuffersAssumption
    <3>2. answers[u] \in Answers /\ answers[u] # << >>
      BY <1>1, <1>4, <3>1
    <3>3. /\ Len(answers'[u]) = n - 1 /\ DOMAIN answers'[u] = 1..(n - 1)
          /\ \A k \in 1..(n - 1) : answers'[u][k] = answers[u][k + 1]
      BY <1>4, <3>1, <3>2 DEF Answers
    <3> QED
      BY <2>1, <3>1, <3>3
  <2>2. CASE n # Buffers
    BY <1>3, <1>4, <2>2, BuffersAssumption
  <2> QED
    BY <2>1, <2>2
<1>6. Fits(u)'
  <2>1. Len(answers'[u]) + Forming(u)' <= Buffers
    BY <1>3, <1>4, <1>5, BuffersAssumption
  <2> QED
    BY <1>3, <2>1 DEF Fits
<1>7. ASSUME NEW k \in 1..(n - s) PROVE Stands(u, k)'
  <2> DEFINE d == n - (k + s)
             i == current_buffer_[u]
  <2>1. k + s \in DOMAIN answers[u] /\ d \in Slots /\ d + 1 < Buffers
    BY <1>4, <1>5, BuffersAssumption DEF Slots
  <2>2. i \in Slots
    BY <1>1 DEF Shape
  <2>3. Back(NextSlot(i), d + 1) = Back(i, d)
    BY <2>1, <2>2, BackFromNext
  <2>4. Slot(u, k + s) = Back(i, d)
    BY <1>3, <1>4, <2>1 DEF Slot
  <2>5. Slot(u, k)' = Back(NextSlot(i), d + 1)
    <3>1. Forming(u)' + Len(answers'[u]) - k = d + 1
      BY <1>3, <1>4, <1>5
    <3> QED
      BY <1>3, <3>1 DEF Slot, Back
  <2>6. Stands(u, k + s) /\ answers'[u][k] = answers[u][k + s]
    BY <1>1, <1>5, <2>1 DEF Told
  <2> QED
    BY <1>2, <2>3, <2>4, <2>5, <2>6 DEF Stands
<1>8. Told(u)'
  BY <1>5, <1>6, <1>7 DEF Told
<1>9. ASSUME NEW t \in Callers, t # u PROVE Told(t)'
  <2>1. /\ at'[t] = at[t] /\ answers'[t] = answers[t]
        /\ current_buffer_'[t] = current_buffer_[t]
    BY <1>1, <1>2, <1>9 DEF Shape
  <2> QED
    BY <1>2, <1>9, <2>1, OthersStand
<1> QED
  BY <1>8, <1>9

LEMMA FormatTold == ASSUME TInv, NEW u \in Callers, Format(u) PROVE \A t \in Callers : Told(t)'
<1>1. PICK i \in Slots : i = current_buffer_[u]
  BY DEF TInv, IInv, Shape
<1>2. /\ Shape /\ Sized /\ PoolIsOwned /\ answers \in [Callers -> Answers] /\ Told(u)
  BY DEF TInv, IInv
<1> DEFINE b == string_pool_[u][i].buffer
           given == IF Lengths[text[u]] = 0 THEN Nothing ELSE b
           answer == [buffer |-> given, text |-> text[u]]
<1>3. /\ at[u] = "format" /\ at' = [at EXCEPT ![u] = "ready"]
      /\ pool_' = [pool_ EXCEPT ![b] = text[u]]
      /\ answers' = [answers EXCEPT ![u] = Append(@, answer)]
      /\ UNCHANGED <<string_pool_, current_buffer_>>
  BY <1>1 DEF Format, Answer, Go, CurrentBuffer
<1>4. <<u, i>> \in Entries
  BY <1>2, <1>3 DEF Entries, HasMemory, Sized
<1>5. b \in DOMAIN pool_ /\ pool_'[b] = text[u]
      /\ \A a \in DOMAIN pool_ : pool_'[a] = pool_[a] \/ a = b
  <2>1. b \in DOMAIN pool_
    BY <1>2, <1>4 DEF PoolIsOwned, BufferOf
  <2> QED
    BY <1>3, <2>1
<1>6. /\ at'[u] = "ready" /\ Forming(u) = 1 /\ Forming(u)' = 0
      /\ answers'[u] = Append(answers[u], answer) /\ answers[u] \in Answers
  BY <1>2, <1>3 DEF Shape, Forming, Working
<1>7. PICK n \in Nat : n = Len(answers[u]) /\ DOMAIN answers[u] = 1..n /\ n + 1 <= Buffers
  BY <1>6, AnswersAre
<1>8. /\ Len(answers'[u]) = n + 1 /\ DOMAIN answers'[u] = 1..(n + 1)
      /\ \A k \in 1..n : answers'[u][k] = answers[u][k]
      /\ answers'[u][n + 1] = answer
  <2> HIDE DEF answer
  <2> QED
    BY <1>6, <1>7 DEF Answers
<1>9. Fits(u)'
  BY <1>6, <1>7, <1>8, BuffersAssumption DEF Fits
<1>10. ASSUME NEW k \in 1..n PROVE Stands(u, k)'
  <2>1. PICK j \in Slots : j = Slot(u, k) /\ <<u, j>> \in Entries /\ j # i
    BY <1>1, <1>3, <1>7, AnswerHasEntry DEF Working
  <2>2. Slot(u, k)' = j
    <3>1. Forming(u)' + Len(answers'[u]) - k = Forming(u) + Len(answers[u]) - k
      BY <1>6, <1>7, <1>8
    <3> QED
      BY <1>3, <2>1, <3>1 DEF Slot
  <2>3. pool_'[string_pool_[u][j].buffer] = pool_[string_pool_[u][j].buffer]
    <3>1. /\ string_pool_[u][j].buffer \in DOMAIN pool_
          /\ string_pool_[u][j].buffer # b
      BY <1>2, <1>4, <2>1 DEF PoolIsOwned, BufferOf
    <3> QED
      BY <1>5, <3>1
  <2>4. Stands(u, k) /\ answers'[u][k] = answers[u][k]
    BY <1>2, <1>7, <1>8 DEF Told
  <2> QED
    BY <1>3, <2>1, <2>2, <2>3, <2>4 DEF Stands
<1>11. Stands(u, n + 1)'
  <2>1. Slot(u, n + 1)' = i
    <3>1. Forming(u)' + Len(answers'[u]) - (n + 1) = 0
      BY <1>6, <1>8
    <3>2. Back(i, 0) = i
      BY BuffersAssumption DEF Back, Slots
    <3> QED
      BY <1>1, <1>3, <3>1, <3>2 DEF Slot
  <2>2. answers'[u][n + 1].text = text[u] /\ answers'[u][n + 1].buffer = given
    BY <1>8
  <2> QED
    BY <1>3, <1>5, <2>1, <2>2 DEF Stands
<1>12. Told(u)'
  <2>1. \A k \in 1..(n + 1) : k \in 1..n \/ k = n + 1
    OBVIOUS
  <2> QED
    BY <1>8, <1>9, <1>10, <1>11, <2>1 DEF Told
<1>13. ASSUME NEW t \in Callers, t # u PROVE Told(t)'
  <2>1. at'[t] = at[t] /\ answers'[t] = answers[t]
    BY <1>2, <1>3, <1>13 DEF Shape
  <2> QED
    BY <1>3, <1>4, <1>5, <1>13, <2>1, OthersStand
<1> QED
  BY <1>12, <1>13

\* The histories keep their types.
LEMMA TextsInv ==
  ASSUME TInv, NEW u \in Callers,
         \/ Construct(u) \/ (\E str \in Texts : Get(u, str)) \/ Format(u)
         \/ Truncated(u) \/ Reallocate(u) \/ EndThread(u) \/ Destroy(u)
  PROVE  text' \in [Callers -> TextsOrNone] /\ answers' \in [Callers -> Answers]
<1>1. Shape /\ text \in [Callers -> TextsOrNone] /\ answers \in [Callers -> Answers]
  BY DEF TInv, IInv
<1>2. answers[u] \in Answers /\ text[u] \in TextsOrNone
  BY <1>1
<1>3. CASE Construct(u) \/ Truncated(u) \/ Reallocate(u) \/ Destroy(u)
  BY <1>1, <1>3 DEF Construct, Truncated, Reallocate, Destroy
<1>4. CASE EndThread(u)
  <2>1. << >> \in Answers
    BY DEF Answers
  <2> QED
    BY <1>1, <1>4, <2>1 DEF EndThread
<1>5. CASE \E str \in Texts : Get(u, str)
  <2>1. PICK str \in Texts : Get(u, str)
    BY <1>5
  <2>2. Len(answers[u]) = Buffers => Tail(answers[u]) \in Answers
    <3>1. Len(answers[u]) = Buffers => answers[u] # << >>
      BY BuffersAssumption
    <3> QED
      BY <1>2, <3>1 DEF Answers
  <2> QED
    BY <1>1, <1>2, <2>1, <2>2 DEF Get, TextsOrNone
<1>6. CASE Format(u)
  <2> DEFINE i == current_buffer_[u]
             given == IF Lengths[text[u]] = 0 THEN Nothing ELSE string_pool_[u][i].buffer
             answer == [buffer |-> given, text |-> text[u]]
  <2>1. string_pool_[u][i] \in EntryRecords
    BY <1>1 DEF Shape
  <2>2. given \in Addresses \cup {Nothing}
    BY <2>1 DEF EntryRecords
  <2>3. Append(answers[u], answer) \in Answers
    BY <1>2, <2>2 DEF Answers
  <2>4. /\ answers' = [answers EXCEPT ![u] = Append(@, answer)]
        /\ text' = [text EXCEPT ![u] = Nothing]
    BY <1>6 DEF Format, Answer, CurrentBuffer
  <2> HIDE DEF answer
  <2> QED
    BY <1>1, <2>3, <2>4 DEF TextsOrNone
<1> QED
  BY <1>3, <1>4, <1>5, <1>6

LEMMA InitTold == PoolInit => TInv
<1> SUFFICES ASSUME PoolInit PROVE TInv
  OBVIOUS
<1>1. << >> \in Answers /\ Nothing \in TextsOrNone
  BY DEF Answers, TextsOrNone
<1>2. text \in [Callers -> TextsOrNone] /\ answers \in [Callers -> Answers]
  BY <1>1 DEF PoolInit
<1>3. ASSUME NEW t \in Callers PROVE Told(t)
  <2>1. answers[t] = << >> /\ Forming(t) = 0
    BY DEF PoolInit, Forming, Working
  <2>2. Len(answers[t]) = 0 /\ DOMAIN answers[t] = {}
    BY <2>1
  <2> QED
    BY <2>1, <2>2, BuffersAssumption DEF Told, Fits
<1> QED
  BY <1>2, <1>3, InitInv DEF TInv

LEMMA NextTold == TInv /\ [PoolNext]_poolVars => TInv'
<1> SUFFICES ASSUME TInv, [PoolNext]_poolVars PROVE TInv'
  OBVIOUS
<1>1. IInv'
  BY NextInv DEF TInv
<1>2. CASE PoolNext
  <2>1. PICK u \in Callers :
          \/ Construct(u) \/ (\E str \in Texts : Get(u, str)) \/ Format(u)
          \/ Truncated(u) \/ Reallocate(u) \/ EndThread(u) \/ Destroy(u)
    BY <1>2 DEF PoolNext
  <2>2. \A t \in Callers : Told(t)'
    BY <2>1, ConstructTold, GetTold, FormatTold, TruncatedTold, ReallocateTold, EndTold, DestroyTold
  <2>3. text' \in [Callers -> TextsOrNone] /\ answers' \in [Callers -> Answers]
    BY <2>1, TextsInv
  <2> QED
    BY <1>1, <2>2, <2>3 DEF TInv
<1>3. CASE UNCHANGED poolVars
  BY <1>1, <1>3 DEF TInv, poolVars, Told, Fits, Stands, Slot, Forming
<1> QED
  BY <1>2, <1>3

\* Whatever other threads do and however often buffers are replaced, the texts
\* that a thread has been given last, as many as its ring has buffers, are unharmed.
THEOREM RecentTextsAreSafe == PoolSpec => []RecentTextsStay
<1>1. TInv => RecentTextsStay
  <2> SUFFICES ASSUME TInv, NEW t \in Callers, NEW k \in DOMAIN answers[t],
                      answers[t][k].buffer # Nothing
               PROVE  /\ answers[t][k].buffer \in DOMAIN pool_
                      /\ pool_[answers[t][k].buffer] = answers[t][k].text
    BY DEF RecentTextsStay
  <2>1. Stands(t, k) /\ PoolIsOwned
    BY DEF TInv, Told, IInv
  <2>2. <<t, Slot(t, k)>> \in Entries
    BY AnswerHasEntry
  <2>3. string_pool_[t][Slot(t, k)].buffer \in DOMAIN pool_
    BY <2>1, <2>2 DEF PoolIsOwned, BufferOf
  <2> QED
    BY <2>1, <2>3 DEF Stands
<1> QED
  BY <1>1, InitTold, NextTold, PTL DEF PoolSpec

-----------------------------------------------------------------------------
(* Induction, and what it says of FlattenSeq.                              *)

LEMMA LeastOf ==
  ASSUME NEW S \in SUBSET Nat, S # {}
  PROVE  \E m \in S : \A k \in S : m <= k
<1> DEFINE Less == OpToRel(<, Nat)
<1>1. \A k, m \in Nat : k < m => <<k, m>> \in Less
  BY DEF OpToRel
<1>2. IsWellFoundedOn(Less, Nat)
  BY NatLessThanWellFounded
<1> HIDE DEF Less
<1>3. PICK m \in S : \A k \in S : <<k, m>> \notin Less
  BY <1>2, WFMin
<1>4. ASSUME NEW k \in S PROVE m <= k
  <2>1. k \in Nat /\ m \in Nat /\ ~(k < m)
    BY <1>1, <1>3
  <2> QED
    BY <2>1
<1> QED
  BY <1>4

LEMMA MinIs ==
  ASSUME NEW S \in SUBSET Nat
  PROVE  /\ S # {} => Min(S) \in S /\ \A k \in S : Min(S) <= k
         /\ \A m \in S : (\A k \in S : m <= k) => Min(S) = m
<1>1. ASSUME S # {} PROVE Min(S) \in S /\ \A k \in S : Min(S) <= k
  <2>1. \E m \in S : \A k \in S : m <= k
    BY <1>1, LeastOf
  <2> QED
    BY <2>1 DEF Min
<1>2. ASSUME NEW m \in S, \A k \in S : m <= k PROVE Min(S) = m
  <2>1. Min(S) \in S /\ Min(S) <= m
    BY <1>1
  <2>2. m <= Min(S) /\ m \in Nat /\ Min(S) \in Nat
    BY <1>2, <2>1
  <2> QED
    BY <2>1, <2>2
<1> QED
  BY <1>1, <1>2

LEMMA Induction ==
  ASSUME NEW S \in SUBSET Nat, 0 \in S, \A n \in S : n + 1 \in S
  PROVE  S = Nat
<1> SUFFICES ASSUME Nat \ S # {} PROVE FALSE
  OBVIOUS
<1>1. PICK m \in Nat \ S : \A k \in Nat \ S : m <= k
  BY LeastOf
<1>2. m - 1 \in S
  BY <1>1
<1> QED
  BY <1>1, <1>2

\* f holds the first n steps of flattening q.
Flattens(f, q, n) ==
  f = [i \in 1..n |-> IF i = 1 THEN q[i] ELSE f[i - 1] \o q[i]]

LEMMA FlattensMore ==
  ASSUME NEW q, NEW n \in Nat, NEW f, Flattens(f, q, n)
  PROVE  \E g : Flattens(g, q, n + 1)
<1> DEFINE g == [i \in 1..(n + 1) |->
                   IF i <= n THEN f[i] ELSE IF i = 1 THEN q[i] ELSE f[i - 1] \o q[i]]
<1>1. ASSUME NEW i \in 1..(n + 1)
      PROVE  g[i] = IF i = 1 THEN q[i] ELSE g[i - 1] \o q[i]
  <2>1. \A j \in 1..n : f[j] = IF j = 1 THEN q[j] ELSE f[j - 1] \o q[j]
    BY DEF Flattens
  <2>2. i # 1 => i - 1 \in 1..n /\ g[i - 1] = f[i - 1]
    OBVIOUS
  <2> QED
    BY <2>1, <2>2
<1>2. g = [i \in 1..(n + 1) |-> g[i]]
  OBVIOUS
<1>3. Flattens(g, q, n + 1)
  <2> HIDE DEF g
  <2> QED
    BY <1>1, <1>2 DEF Flattens
<1> QED
  BY <1>3

LEMMA FlattensExists ==
  ASSUME NEW q, NEW n \in Nat
  PROVE  \E f : Flattens(f, q, n)
<1> DEFINE S == {m \in Nat : \E f : Flattens(f, q, m)}
<1>1. 0 \in S
  <2>1. Flattens(<<>>, q, 0)
    <3>1. [i \in 1..0 |-> IF i = 1 THEN q[i] ELSE (<<>>)[i - 1] \o q[i]] = <<>>
      OBVIOUS
    <3> QED
      BY <3>1 DEF Flattens
  <2> QED
    BY <2>1
<1>2. \A m \in S : m + 1 \in S
  BY FlattensMore
<1>3. S = Nat
  <2> HIDE DEF S
  <2>1. S \in SUBSET Nat
    BY DEF S
  <2> QED
    BY <1>1, <1>2, <2>1, Induction
<1> QED
  BY <1>3

\* The first of some sequences begins what they are flattened to.
Begins(b, c) == Len(b) <= Len(c) /\ \A k \in 1..Len(b) : c[k] = b[k]

LEMMA BeginsMore ==
  ASSUME NEW S, NEW b \in Seq(S), NEW c \in Seq(S), NEW d \in Seq(S), Begins(b, c)
  PROVE  c \o d \in Seq(S) /\ Begins(b, c \o d)
<1>1. /\ c \o d \in Seq(S) /\ Len(c \o d) = Len(c) + Len(d)
      /\ \A k \in 1..Len(c) : (c \o d)[k] = c[k]
  BY ConcatProperties
<1>2. Len(b) \in Nat /\ Len(c) \in Nat /\ Len(d) \in Nat
  BY LenProperties
<1> QED
  BY <1>1, <1>2 DEF Begins

LEMMA FlattenBegins ==
  ASSUME NEW S, NEW q \in Seq(Seq(S)), Len(q) # 0
  PROVE  FlattenSeq(q) \in Seq(S) /\ Begins(q[1], FlattenSeq(q))
<1> DEFINE f == CHOOSE flatten : Flattens(flatten, q, Len(q))
           N == {n \in Nat : n + 1 \in 1..Len(q) => f[n + 1] \in Seq(S) /\ Begins(q[1], f[n + 1])}
<1>0. Len(q) \in Nat /\ \A i \in 1..Len(q) : q[i] \in Seq(S)
  BY LenProperties, ElementOfSeq
<1>1. Flattens(f, q, Len(q))
  BY <1>0, FlattensExists
<1>2. FlattenSeq(q) = f[Len(q)]
  BY DEF FlattenSeq, Flattens
<1> HIDE DEF f
<1>3. \A i \in 1..Len(q) : f[i] = IF i = 1 THEN q[i] ELSE f[i - 1] \o q[i]
  BY <1>1 DEF Flattens
<1>4. 0 \in N
  <2>1. q[1] \in Seq(S) /\ f[1] = q[1]
    BY <1>0, <1>3
  <2>2. Begins(q[1], q[1])
    <3>1. Len(q[1]) \in Nat
      BY <2>1, LenProperties
    <3> QED
      BY <3>1 DEF Begins
  <2> QED
    BY <2>1, <2>2
<1>5. ASSUME NEW n \in N PROVE n + 1 \in N
  <2> SUFFICES ASSUME n + 2 \in 1..Len(q)
               PROVE  f[n + 2] \in Seq(S) /\ Begins(q[1], f[n + 2])
    OBVIOUS
  <2>0. n \in Nat
    OBVIOUS
  <2>1. f[n + 1] \in Seq(S) /\ Begins(q[1], f[n + 1])
    BY <1>0
  <2> HIDE DEF N
  <2>2. f[n + 2] = f[n + 1] \o q[n + 2]
    <3>1. n + 2 # 1 /\ (n + 2) - 1 = n + 1
      BY <2>0
    <3>2. f[n + 2] = IF n + 2 = 1 THEN q[n + 2] ELSE f[(n + 2) - 1] \o q[n + 2]
      BY <1>3
    <3> QED
      BY <3>1, <3>2
  <2>3. q[1] \in Seq(S) /\ q[n + 2] \in Seq(S)
    BY <1>0, <2>0
  <2> QED
    BY <2>1, <2>2, <2>3, BeginsMore
<1>6. N = Nat
  <2>1. N \in SUBSET Nat
    OBVIOUS
  <2> HIDE DEF N
  <2> QED
    BY <1>4, <1>5, <2>1, Induction
<1>7. Len(q) - 1 \in Nat /\ (Len(q) - 1) + 1 = Len(q)
  BY <1>0
<1>8. Len(q) - 1 \in N
  BY <1>6, <1>7
<1>9. f[Len(q)] \in Seq(S) /\ Begins(q[1], f[Len(q)])
  BY <1>0, <1>7, <1>8
<1> QED
  BY <1>2, <1>9

-----------------------------------------------------------------------------
(* The results of Steam's calls.                                           *)

Vectors(S) == [items : Seq(S), capacity : Nat]
Item == [call : Calls, type : Types]
Requests ==
  [at : {"return", "join", "handler"}, type : Types, call : Calls, result : Calls]
Runs ==
  [by : Threads, at : {"result", "calling", "callbacks", "undefined"}, result : Nat,
   results : Nat, callback : Nat, callbacks : Nat, dangling : BOOLEAN]

CallbackTypes ==
  /\ call_id_ \in Nat /\ calls_ \in [Calls -> BOOLEAN] /\ handled \in [Calls -> Nat]
  /\ results_ \in Vectors(Item)
  /\ callback_list_ \in Vectors(Types)
  /\ request \in [Threads -> Requests \cup {NoRequest}]
  /\ run \in Runs \cup {Never}

Settled(c) == handled[c] > 0 \/ c \in dropped

\* What a run is through with has been settled, and what stands behind its end
\* was returned from within it.
Through(i) == i < run.result \/ (i = run.result /\ run.at # "result")

RunRight ==
  /\ run = Never => owner = Nobody
  /\ run # Never =>
       /\ owner = run.by
       /\ \A i \in 1..Len(results_.items) :
            /\ i <= run.results /\ Through(i) => Settled(results_.items[i].call)
            /\ i > run.results => results_.items[i].call \in reentrant
       /\ run.results <= Len(results_.items)

ResultsInv == CallbackTypes /\ RunRight /\ ResultsReach

LEMMA NeverIsNoRun == Never \notin Runs /\ NoRequest \notin Requests
BY ThreadsAssumption DEF Never, Runs, NoRequest, Requests, Nobody

LEMMA PushedGrows ==
  ASSUME NEW S, NEW v \in Vectors(S), NEW e \in S
  PROVE  /\ Pushed(v, e) \in Vectors(S)
         /\ Pushed(v, e).items = Append(v.items, e)
<1>1. v.items \in Seq(S) /\ v.capacity \in Nat
  BY DEF Vectors
<1>2. Append(v.items, e) \in Seq(S)
  BY <1>1, AppendProperties
<1>3. Pushed(v, e).capacity \in Nat
  BY <1>1 DEF Pushed, Full
<1> QED
  BY <1>2, <1>3 DEF Pushed, Vectors

LEMMA ResultsStart == Init => ResultsInv
<1> SUFFICES ASSUME Init PROVE ResultsInv
  OBVIOUS
<1>1. CallbackTypes
  BY BoundsAssumption DEF Init, CallbackTypes, Vectors, Empty
<1>2. RunRight
  BY DEF Init, RunRight
<1>3. ResultsReach
  BY DEF Init, ResultsReach, NoResultForgotten, BrokenOnlyFromWithin
<1> QED
  BY <1>1, <1>2, <1>3 DEF ResultsInv

LEMMA RegisteredTypes ==
  ASSUME CallbackTypes, NEW t \in Threads, NEW type \in Types, NEW first,
         first \in Calls \cup {0}, Registered(t, type, first),
         UNCHANGED <<vectors, run, history>>
  PROVE  CallbackTypes'
<1>1. call_id_ + 1 \in Calls /\ call_id_' = call_id_ + 1
  BY BoundsAssumption DEF Registered, CallbackTypes, Calls
<1>2. request' \in [Threads -> Requests \cup {NoRequest}]
  <2> DEFINE new == [at |-> "return", type |-> type, call |-> call_id_ + 1,
                     result |-> IF first = 0 THEN call_id_ + 1 ELSE first]
  <2>1. new \in Requests
    BY <1>1 DEF Requests
  <2>2. request' = [request EXCEPT ![t] = new]
    BY DEF Registered
  <2> HIDE DEF new
  <2> QED
    BY <2>1, <2>2 DEF CallbackTypes, Vectors
<1>3. calls_' \in [Calls -> BOOLEAN]
  BY <1>1 DEF Registered, CallbackTypes
<1>4. call_id_' \in Nat
  BY <1>1 DEF CallbackTypes, Vectors
<1> QED
  BY <1>2, <1>3, <1>4 DEF CallbackTypes, Vectors, vectors, history

\* The steps by which threads make their requests leave the results and the run alone.
LEMMA RequestKeeps ==
  ASSUME ResultsInv, NEW t \in Threads,
         \/ \E type \in Types : RegisterCall(t, type)
         \/ JoinLobby(t) \/ RegisterCallResult(t) \/ IgnoreResult(t)
  PROVE  ResultsInv'
<1> USE DEF ResultsInv
<1>1. UNCHANGED <<owner, vectors, run, history>>
  BY DEF RegisterCall, JoinLobby, RegisterCallResult, IgnoreResult
<1>2. RunRight'
  BY <1>1 DEF RunRight, Through, Settled, vectors, history
<1>3. BrokenOnlyFromWithin'
  BY <1>1 DEF ResultsReach, BrokenOnlyFromWithin, history
<1>4. ASSUME \E type \in Types, first \in Calls \cup {0} :
               Registered(t, type, first)
      PROVE  CallbackTypes' /\ NoResultForgotten'
  <2>1. CallbackTypes'
    <3>1. PICK type \in Types, first \in Calls \cup {0} :
                 Registered(t, type, first)
      BY <1>4
    <3> QED
      BY <1>1, <3>1, RegisteredTypes
  <2>2. \A c \in Calls : calls_'[c] => calls_[c]
    BY <1>4 DEF Registered, CallbackTypes
  <2> QED
    BY <1>1, <2>1, <2>2 DEF ResultsReach, NoResultForgotten, Waiting,
       vectors, history
<1>5. CASE \E type \in Types : RegisterCall(t, type)
  <2>1. \E type \in Types, first \in Calls \cup {0} : Registered(t, type, first)
    BY <1>5 DEF RegisterCall
  <2> QED
    BY <1>2, <1>3, <1>4, <2>1 DEF ResultsReach
<1>6. CASE JoinLobby(t)
  <2>1. request[t].result \in Calls /\ Registered(t, "enter", request[t].result)
    BY <1>6 DEF JoinLobby, CallbackTypes, Requests, NoRequest
  <2>2. "enter" \in Types
    BY DEF Types
  <2>3. \E type \in Types, first \in Calls \cup {0} : Registered(t, type, first)
    BY <2>1, <2>2
  <2> QED
    BY <1>2, <1>3, <1>4, <2>3 DEF ResultsReach
<1>7. CASE RegisterCallResult(t) \/ IgnoreResult(t)
  <2>1. request' = [request EXCEPT ![t] = NoRequest] /\ UNCHANGED <<call_id_, calls_>>
    BY <1>7 DEF RegisterCallResult, IgnoreResult
  <2>2. CallbackTypes'
    BY <1>1, <2>1 DEF CallbackTypes, Vectors, vectors, history
  <2>3. NoResultForgotten'
    BY <1>1, <2>1 DEF ResultsReach, NoResultForgotten, Waiting, vectors,
       history
  <2> QED
    BY <1>2, <1>3, <2>2, <2>3 DEF ResultsReach
<1> QED
  BY <1>5, <1>6, <1>7

\* With a run in progress only what it called can return a result or register a callback.
LEMMA OnlyTheRunsOwn ==
  ASSUME CallbackTypes, RunRight, NEW t \in Threads, run # Never,
         CanLock(t)
  PROVE  InRun(t)
BY ThreadsAssumption DEF CallbackTypes, Vectors, RunRight, Runs,
  CanLock, InRun, Nobody

LEMMA DanglesOnly ==
  ASSUME CallbackTypes, RunRight, NEW t \in Threads, CanLock(t),
         run' = run \/ (run # Never /\ run' = [run EXCEPT !.dangling = TRUE])
  PROVE  /\ run # Never => InRun(t) /\ run \in Runs
         /\ run' = Never <=> run = Never
<1>1. CASE run = Never
  BY <1>1
<1>2. CASE run # Never
  <2>1. run \in Runs /\ InRun(t)
    BY <1>2, OnlyTheRunsOwn DEF CallbackTypes, Vectors
  <2>2. [run EXCEPT !.dangling = TRUE] \in Runs
    BY <2>1 DEF Runs
  <2>3. run' \in Runs
    BY <2>1, <2>2
  <2> QED
    BY <1>2, <2>1, <2>3, NeverIsNoRun
<1> QED
  BY <1>1, <1>2

LEMMA ReturnCallKeeps ==
  ASSUME ResultsInv, NEW t \in Threads, ReturnCall(t)
  PROVE  ResultsInv'
<1> USE DEF ResultsInv
<1> DEFINE c == request[t].call
           e == [call |-> c, type |-> request[t].type]
<1>1. /\ request[t].at = "return" /\ CanLock(t) /\ calls_' = [calls_ EXCEPT ![c] = TRUE]
      /\ results_' = Pushed(results_, e)
      /\ \/ run' = run
         \/ run # Never /\ run' = [run EXCEPT !.dangling = TRUE]
      /\ reentrant' = IF InRun(t) THEN reentrant \cup {c} ELSE reentrant
      /\ UNCHANGED <<owner, call_id_, result_handlers_, callback_list_, handled, dropped>>
  BY DEF ReturnCall, Lockable
<1>2. request[t] \in Requests /\ c \in Calls /\ e \in Item
  BY <1>1 DEF CallbackTypes, Vectors, NoRequest, Requests, Item
<1>3. /\ results_' \in Vectors(Item)
      /\ results_'.items = Append(results_.items, e)
  <2>1. results_ \in Vectors(Item)
    BY DEF CallbackTypes
  <2>2. results_' = Pushed(results_, e) /\ e \in Item
    BY <1>1, <1>2
  <2> HIDE DEF e
  <2>3. /\ Pushed(results_, e) \in Vectors(Item)
        /\ Pushed(results_, e).items = Append(results_.items, e)
    BY <2>1, <2>2, PushedGrows
  <2> QED
    BY <2>2, <2>3
<1>4. request' \in [Threads -> Requests \cup {NoRequest}]
  <2>1. PICK stage \in {"join", "handler"} : request' = [request EXCEPT ![t].at = stage]
    BY DEF ReturnCall
  <2>2. [request[t] EXCEPT !.at = stage] \in Requests
    BY <1>2 DEF Requests
  <2> QED
    BY <2>1, <2>2 DEF CallbackTypes, Vectors
<1>5. run' \in Runs \cup {Never}
  BY <1>1 DEF CallbackTypes, Vectors, Runs
<1>6. CallbackTypes'
  BY <1>1, <1>2, <1>3, <1>4, <1>5 DEF CallbackTypes, Vectors
<1>7. /\ run # Never => InRun(t) /\ run \in Runs
      /\ run' = Never <=> run = Never
  BY <1>1, DanglesOnly
<1>8. /\ results_.items \in Seq(Item) /\ Len(results_'.items) = Len(results_.items) + 1
      /\ \A i \in 1..Len(results_.items) : results_'.items[i] = results_.items[i]
      /\ results_'.items[Len(results_.items) + 1].call = c
  <2>1. results_.items \in Seq(Item)
    BY DEF CallbackTypes, Vectors
  <2> QED
    BY <1>2, <1>3, <2>1, AppendProperties
<1>9. RunRight'
  <2>1. CASE run = Never
    BY <1>1, <1>7, <2>1 DEF RunRight
  <2>2. CASE run # Never
    <3>1. /\ run'.by = run.by /\ run'.at = run.at /\ run'.result = run.result
          /\ run'.results = run.results /\ run.results \in Nat
      BY <1>1, <1>7, <2>2 DEF Runs
    <3>2. owner' = run'.by /\ run'.results <= Len(results_'.items)
      BY <1>1, <1>8, <2>2, <3>1 DEF RunRight
    <3>3. ASSUME NEW i \in 1..Len(results_'.items)
          PROVE  /\ i <= run'.results /\ Through(i)' => Settled(results_.items[i].call)'
                 /\ i > run'.results => results_'.items[i].call \in reentrant'
      <4>1. CASE i \in 1..Len(results_.items)
        <5>1. /\ i <= run.results /\ Through(i) => Settled(results_.items[i].call)
              /\ i > run.results => results_.items[i].call \in reentrant
          BY <2>2, <4>1 DEF RunRight
        <5>2. results_'.items[i] = results_.items[i] /\ (Through(i)' <=> Through(i))
          BY <1>8, <3>1, <4>1 DEF Through
        <5>3. UNCHANGED <<handled, dropped>> /\ reentrant \subseteq reentrant'
          BY <1>1
        <5> QED
          BY <3>1, <5>1, <5>2, <5>3 DEF Settled
      <4>2. CASE i = Len(results_.items) + 1
        <5>1. i > run.results
          BY <1>8, <2>2, <3>1, <4>2 DEF RunRight
        <5> QED
          BY <1>1, <1>7, <1>8, <2>2, <3>1, <4>2, <5>1
      <4> QED
        BY <1>8, <4>1, <4>2
    <3>4. run' # Never
      BY <1>7, <2>2
    <3> QED
      BY <3>2, <3>3, <3>4 DEF RunRight, Through, Settled
  <2> QED
    BY <2>1, <2>2
<1>10. NoResultForgotten'
  <2> SUFFICES ASSUME NEW d \in Calls, calls_'[d]
               PROVE  d \in Waiting' \/ handled'[d] > 0 \/ d \in dropped' \cup reentrant'
    BY DEF NoResultForgotten
  <2>1. c \in Waiting'
    BY <1>8 DEF Waiting
  <2>2. Waiting \subseteq Waiting'
    BY <1>8 DEF Waiting
  <2>3. d # c => calls_[d]
    BY <1>1, <1>2 DEF CallbackTypes, Vectors
  <2> QED
    BY <1>1, <2>1, <2>2, <2>3 DEF ResultsReach, NoResultForgotten
<1>11. BrokenOnlyFromWithin'
  <2>1. CASE run = Never
    BY <1>7, <2>1 DEF BrokenOnlyFromWithin
  <2>2. CASE run # Never
    BY <1>1, <1>7, <2>2 DEF BrokenOnlyFromWithin
  <2> QED
    BY <2>1, <2>2
<1> QED
  BY <1>6, <1>9, <1>10, <1>11 DEF ResultsReach

LEMMA RegisterCallbackKeeps ==
  ASSUME ResultsInv, NEW t \in Threads, NEW type \in Types,
         RegisterCallback(t, type)
  PROVE  ResultsInv'
<1> USE DEF ResultsInv
<1>1. /\ CanLock(t)
      /\ \/ run' = run
         \/ run # Never /\ run' = [run EXCEPT !.dangling = TRUE]
      /\ reentrant' = IF InRun(t) THEN reentrant \cup {0} ELSE reentrant
      /\ UNCHANGED <<owner, call_id_, calls_, result_handlers_, results_, request, handled,
                     dropped>>
  BY DEF RegisterCallback
<1>2. /\ run # Never => InRun(t) /\ run \in Runs
      /\ run' = Never <=> run = Never
  BY <1>1, DanglesOnly
<1>3. run' \in Runs \cup {Never}
  BY <1>1 DEF CallbackTypes, Vectors, Runs
<1>8. callback_list_' \in Vectors(Types)
  <2>1. callback_list_' = Pushed(callback_list_, type)
    BY DEF RegisterCallback
  <2> QED
    BY <2>1, PushedGrows DEF CallbackTypes
<1>4. CallbackTypes'
  BY <1>1, <1>3, <1>8 DEF CallbackTypes, Vectors
<1>5. RunRight'
  <2>1. CASE run = Never
    BY <1>1, <1>2, <2>1 DEF RunRight
  <2>2. CASE run # Never
    <3>1. /\ run'.by = run.by /\ run'.at = run.at /\ run'.result = run.result
          /\ run'.results = run.results
      BY <1>1, <1>2, <2>2 DEF Runs
    <3> QED
      BY <1>1, <1>2, <2>2, <3>1 DEF RunRight, Through, Settled
  <2> QED
    BY <2>1, <2>2
<1>6. NoResultForgotten'
  BY <1>1 DEF ResultsReach, NoResultForgotten, Waiting
<1>7. BrokenOnlyFromWithin'
  <2>1. CASE run = Never
    BY <1>2, <2>1 DEF BrokenOnlyFromWithin
  <2>2. CASE run # Never
    BY <1>1, <1>2, <2>2 DEF BrokenOnlyFromWithin
  <2> QED
    BY <2>1, <2>2
<1> QED
  BY <1>4, <1>5, <1>6, <1>7 DEF ResultsReach

-----------------------------------------------------------------------------
(* The run.                                                                *)

LEMMA RunCallbacksKeeps ==
  ASSUME ResultsInv, NEW t \in Threads, RunCallbacks(t)
  PROVE  ResultsInv'
<1> USE DEF ResultsInv
<1>1. /\ owner' = t
      /\ run' = [by |-> t, at |-> "result", result |-> 1, results |-> Len(results_.items),
                 callback |-> 0, callbacks |-> 0, dangling |-> FALSE]
      /\ UNCHANGED <<call_id_, calls_, results_, callback_list_, request, handled, dropped,
         reentrant>>
  BY DEF RunCallbacks, vectors, history
<1>2. Len(results_.items) \in Nat
  <2>1. results_.items \in Seq(Item)
    BY DEF CallbackTypes, Vectors
  <2> QED
    BY <2>1, LenProperties
<1>3. run' \in Runs
  BY <1>1, <1>2 DEF Runs
<1>4. CallbackTypes'
  BY <1>1, <1>3 DEF CallbackTypes, Vectors
<1>5. RunRight'
  <2>1. /\ run' # Never /\ owner' = run'.by /\ run'.at = "result" /\ run'.result = 1
        /\ run'.results = Len(results_'.items)
    BY <1>1, <1>3, NeverIsNoRun
  <2>2. \A i \in 1..Len(results_'.items) : ~Through(i)' /\ ~(i > run'.results)
    BY <1>1, <1>2, <2>1 DEF Through
  <2> QED
    BY <1>1, <1>2, <2>1, <2>2 DEF RunRight
<1>6. NoResultForgotten'
  BY <1>1 DEF ResultsReach, NoResultForgotten, Waiting
<1>7. BrokenOnlyFromWithin'
  BY <1>1 DEF BrokenOnlyFromWithin
<1> QED
  BY <1>4, <1>5, <1>6, <1>7 DEF ResultsReach

\* A step of the loops settles what it is newly through with.
LEMMA LoopKeeps ==
  ASSUME ResultsInv, run \in Runs, run' \in Runs,
         handled' \in [Calls -> Nat],
         run'.by = run.by, run'.results = run.results, run'.dangling = run.dangling,
         UNCHANGED <<owner, call_id_, calls_, vectors, request, reentrant>>,
         \A c \in Calls : handled[c] > 0 => handled'[c] > 0, dropped \subseteq dropped',
         \A i \in 1..Len(results_.items) :
           i <= run.results /\ Through(i)' => Through(i) \/ Settled(results_.items[i].call)'
  PROVE  ResultsInv'
<1> USE DEF ResultsInv
<1>1. UNCHANGED <<results_, callback_list_>> /\ run # Never /\ run' # Never
  BY NeverIsNoRun DEF vectors
<1>2. CallbackTypes'
  BY <1>1 DEF CallbackTypes, Vectors
<1>3. RunRight'
  <2>1. \A i \in 1..Len(results_.items) : results_.items[i].call \in Calls
    <3>1. results_.items \in Seq(Item)
      BY DEF CallbackTypes, Vectors
    <3>2. \A i \in 1..Len(results_.items) : results_.items[i] \in Item
      BY <3>1, ElementOfSeq
    <3> QED
      BY <3>2 DEF Item
  <2>2. ASSUME NEW i \in 1..Len(results_.items)
        PROVE  /\ i <= run.results /\ Through(i)' => Settled(results_.items[i].call)'
               /\ i > run.results => results_.items[i].call \in reentrant
    <3>1. /\ i <= run.results /\ Through(i) => Settled(results_.items[i].call)
          /\ i > run.results => results_.items[i].call \in reentrant
      BY <1>1 DEF RunRight
    <3>2. Settled(results_.items[i].call) => Settled(results_.items[i].call)'
      BY <1>1, <2>1 DEF Settled
    <3> QED
      BY <3>1, <3>2
  <2>3. owner = run.by /\ run.results <= Len(results_.items)
    BY <1>1 DEF RunRight
  <2> QED
    BY <1>1, <2>2, <2>3 DEF RunRight, Settled, Through
<1>4. NoResultForgotten'
  BY <1>1 DEF ResultsReach, NoResultForgotten, Waiting
<1>5. BrokenOnlyFromWithin'
  BY <1>1 DEF ResultsReach, BrokenOnlyFromWithin
<1> QED
  BY <1>2, <1>3, <1>4, <1>5 DEF ResultsReach

LEMMA RunHandlerKeeps == ResultsInv /\ RunHandler => ResultsInv'
<1> SUFFICES ASSUME ResultsInv, RunHandler PROVE ResultsInv'
  OBVIOUS
<1>1. /\ run # Never /\ run.at = "result" /\ run.result <= run.results
      /\ UNCHANGED <<owner, call_id_, calls_, vectors, request, reentrant>>
  BY DEF RunHandler, Running
<1>2. run \in Runs /\ callback_list_.items \in Seq(Types) /\ handled \in [Calls -> Nat]
  BY <1>1 DEF ResultsInv, CallbackTypes, Vectors
<1>3. \/ /\ Current.call \in result_handlers_
         /\ handled' = [handled EXCEPT ![Current.call] = @ + 1] /\ dropped' = dropped
         /\ run' = [run EXCEPT !.at = "calling"]
      \/ /\ dropped' = dropped \cup {Current.call} /\ handled' = handled
         /\ run' = [run EXCEPT !.at = "callbacks", !.callback = 1,
                               !.callbacks = Len(callback_list_.items)]
  BY DEF RunHandler
<1>4. Len(callback_list_.items) \in Nat
  BY <1>2, LenProperties
<1>5. run' \in Runs /\ run'.by = run.by /\ run'.results = run.results
      /\ run'.dangling = run.dangling /\ run'.result = run.result
  <2> DEFINE n == Len(callback_list_.items)
  <2>1. n \in Nat
    BY <1>4
  <2>2. \/ run' = [run EXCEPT !.at = "calling"]
        \/ run' = [run EXCEPT !.at = "callbacks", !.callback = 1, !.callbacks = n]
    BY <1>3
  <2> HIDE DEF n
  <2>3. CASE run' = [run EXCEPT !.at = "calling"]
    BY <1>2, <2>3 DEF Runs
  <2>4. CASE run' = [run EXCEPT !.at = "callbacks", !.callback = 1, !.callbacks = n]
    BY <1>2, <2>1, <2>4 DEF Runs
  <2> QED
    BY <2>2, <2>3, <2>4
<1>6. handled' \in [Calls -> Nat] /\ dropped \subseteq dropped'
      /\ \A c \in Calls : handled[c] > 0 => handled'[c] > 0
  BY <1>2, <1>3
<1>7. ASSUME NEW i \in 1..Len(results_.items), Through(i)'
      PROVE  Through(i) \/ Settled(results_.items[i].call)'
  <2>1. i < run.result \/ i = run.result
    BY <1>5, <1>7 DEF Through
  <2>2. CASE i = run.result
    <3>1. results_.items[i].call = Current.call /\ Current.call \in Calls
      <4>1. results_.items \in Seq(Item)
        BY DEF ResultsInv, CallbackTypes, Vectors
      <4>2. results_.items[i] \in Item
        BY <4>1, ElementOfSeq
      <4> QED
        BY <2>2, <4>2 DEF Current, Item
    <3>2. handled'[Current.call] > 0 \/ Current.call \in dropped'
      BY <1>2, <1>3, <3>1
    <3>3. results_' = results_
      BY <1>1 DEF vectors
    <3> QED
      BY <3>1, <3>2, <3>3 DEF Settled
  <2> QED
    BY <2>1, <2>2 DEF Through
<1> QED
  BY <1>1, <1>2, <1>5, <1>6, <1>7, LoopKeeps

LEMMA CallbackKeeps ==
  ResultsInv /\ (CallReturns \/ RunCallback \/ NextResult) => ResultsInv'
<1> SUFFICES ASSUME ResultsInv, CallReturns \/ RunCallback \/ NextResult
             PROVE ResultsInv'
  OBVIOUS
<1>1. /\ run # Never /\ run.at # "result"
      /\ UNCHANGED <<owner, call_id_, calls_, vectors, request, handled, dropped, reentrant>>
  BY DEF CallReturns, RunCallback, NextResult, Running, history
<1>2. run \in Runs /\ callback_list_.items \in Seq(Types) /\ handled \in [Calls -> Nat]
  BY <1>1 DEF ResultsInv, CallbackTypes, Vectors
<1>3. Len(callback_list_.items) \in Nat
  BY <1>2, LenProperties
<1>4. \/ run' = [run EXCEPT !.at = "undefined"]
      \/ run' = [run EXCEPT !.at = "callbacks", !.callback = 1,
                            !.callbacks = Len(callback_list_.items)]
      \/ run' = [run EXCEPT !.at = "callbacks", !.callback = @ + 1]
      \/ run' = [run EXCEPT !.at = "calling"]
      \/ run' = [run EXCEPT !.callback = @ + 1]
      \/ run' = [run EXCEPT !.at = "result", !.result = @ + 1, !.callback = 0]
  BY DEF CallReturns, RunCallback, NextResult
<1>5. /\ run' \in Runs /\ run'.by = run.by /\ run'.results = run.results
      /\ run'.dangling = run.dangling
      /\ \/ run'.result = run.result
         \/ run'.result = run.result + 1 /\ run'.at = "result"
  <2> DEFINE n == Len(callback_list_.items)
  <2>1. n \in Nat
    BY <1>3
  <2>2. \/ run' = [run EXCEPT !.at = "undefined"]
        \/ run' = [run EXCEPT !.at = "callbacks", !.callback = 1, !.callbacks = n]
        \/ run' = [run EXCEPT !.at = "callbacks", !.callback = @ + 1]
        \/ run' = [run EXCEPT !.at = "calling"]
        \/ run' = [run EXCEPT !.callback = @ + 1]
        \/ run' = [run EXCEPT !.at = "result", !.result = @ + 1, !.callback = 0]
    BY <1>4
  <2> HIDE DEF n
  <2>3. CASE run' = [run EXCEPT !.at = "undefined"] \/ run' = [run EXCEPT !.at = "calling"]
    BY <1>2, <2>3 DEF Runs
  <2>4. CASE run' = [run EXCEPT !.at = "callbacks", !.callback = 1, !.callbacks = n]
    BY <1>2, <2>1, <2>4 DEF Runs
  <2>5. CASE run' = [run EXCEPT !.at = "callbacks", !.callback = @ + 1]
    <3>1. run.callback + 1 \in Nat
      BY <1>2 DEF Runs
    <3> QED
      BY <1>2, <2>5, <3>1 DEF Runs
  <2>6. CASE run' = [run EXCEPT !.callback = @ + 1]
    <3>1. run.callback + 1 \in Nat
      BY <1>2 DEF Runs
    <3> QED
      BY <1>2, <2>6, <3>1 DEF Runs
  <2>7. CASE run' = [run EXCEPT !.at = "result", !.result = @ + 1, !.callback = 0]
    <3>1. run.result + 1 \in Nat
      BY <1>2 DEF Runs
    <3> QED
      BY <1>2, <2>7, <3>1 DEF Runs
  <2> QED
    BY <2>2, <2>3, <2>4, <2>5, <2>6, <2>7
<1>6. \A i \in 1..Len(results_.items) : Through(i)' => Through(i)
  BY <1>1, <1>2, <1>5 DEF Through, Runs
<1>7. handled' \in [Calls -> Nat] /\ dropped \subseteq dropped'
      /\ \A c \in Calls : handled[c] > 0 => handled'[c] > 0
  BY <1>1, <1>2
<1> QED
  BY <1>1, <1>2, <1>5, <1>6, <1>7, LoopKeeps

\* The end of a run drops what it has settled, and what was returned from within it.
LEMMA RunEndsKeeps == ResultsInv /\ RunEnds => ResultsInv'
<1> SUFFICES ASSUME ResultsInv, RunEnds PROVE ResultsInv'
  OBVIOUS
<1> USE DEF ResultsInv
<1>1. /\ run # Never /\ run.result > run.results
      /\ results_' = [results_ EXCEPT !.items = <<>>]
      /\ owner' = Nobody /\ run' = Never
      /\ UNCHANGED <<call_id_, calls_, callback_list_, request, handled, dropped, reentrant>>
  BY DEF RunEnds, Running, history
<1>2. run \in Runs
  BY <1>1 DEF CallbackTypes, Vectors
<1>3. CallbackTypes'
  <2>1. results_' \in Vectors(Item)
    <3>1. <<>> \in Seq(Item)
      BY EmptySeq
    <3> QED
      BY <1>1, <3>1 DEF CallbackTypes, Vectors
  <2> QED
    BY <1>1, <2>1 DEF CallbackTypes, Vectors
<1>4. RunRight'
  BY <1>1 DEF RunRight
<1>5. \A c \in Waiting : handled[c] > 0 \/ c \in dropped \cup reentrant
  <2> SUFFICES ASSUME NEW i \in 1..Len(results_.items)
               PROVE  Settled(results_.items[i].call) \/ results_.items[i].call \in reentrant
    BY DEF Waiting, Settled
  <2>1. /\ i <= run.results /\ Through(i) => Settled(results_.items[i].call)
        /\ i > run.results => results_.items[i].call \in reentrant
    BY <1>1 DEF RunRight
  <2>2. i <= run.results => Through(i)
    BY <1>1, <1>2 DEF Through, Runs
  <2>3. i <= run.results \/ i > run.results
    BY <1>2 DEF Runs
  <2> QED
    BY <2>1, <2>2, <2>3
<1>6. NoResultForgotten'
  BY <1>1, <1>5 DEF ResultsReach, NoResultForgotten
<1>7. BrokenOnlyFromWithin'
  BY <1>1 DEF BrokenOnlyFromWithin
<1> QED
  BY <1>3, <1>4, <1>6, <1>7 DEF ResultsReach

LEMMA ResultsStep == ResultsInv /\ [PartsNext]_<<part, vars, interfaceVars>> => ResultsInv'
<1> SUFFICES ASSUME ResultsInv, [PartsNext]_<<part, vars, interfaceVars>>
             PROVE ResultsInv'
  OBVIOUS
<1>1. CASE Next
  BY <1>1, RequestKeeps, ReturnCallKeeps, RegisterCallbackKeeps, RunCallbacksKeeps,
     RunHandlerKeeps, CallbackKeeps, RunEndsKeeps DEF Next
<1>2. CASE UNCHANGED vars
  BY <1>2 DEF vars, vectors, history, ResultsInv, CallbackTypes, RunRight,
     Through, Settled, ResultsReach, NoResultForgotten, BrokenOnlyFromWithin,
     Waiting
<1> QED
  BY <1>1, <1>2 DEF PartsNext

\* Whatever number of threads make requests and register handlers, also from
\* within a run over the results: a result that was returned waits, was handled
\* or met a run before anybody wanted it, or was returned from within the run
\* that dropped it; and only from within a run are its loops broken.
THEOREM Results_Reach == PartsSpec => []ResultsReach
<1>1. PartsInit => ResultsInv
  BY ResultsStart DEF PartsInit
<1>2. ResultsInv => ResultsReach
  BY DEF ResultsInv
<1> QED
  BY <1>1, <1>2, ResultsStep, PTL DEF PartsSpec

-----------------------------------------------------------------------------
(* The methods of the Steam client.                                        *)

MethodsTyped == methods \in [1..Length -> Bodies]

\* What is known under a name was read from a method.
KnownWasRead ==
  \A n \in DOMAIN methods_ : \E m \in 1..Length :
    methods_[n].name = n /\ methods_[n].method = m /\ methods_[n] \in AnalyzeMethod(m)

\* CallsWhatItNames, of every method.
CalledRight ==
  \A m : called.did = "called" /\ called.method = m /\ Readable(m) =>
    RealName(m) = called.name /\ RealSize(m) = called.args

\* Every method that gives away a name is known by it, or a later one is, unless
\* no search has got there.
Kept(known) ==
  \A m \in 1..Length : \A r \in AnalyzeMethod(m) :
    \/ r.name \in DOMAIN known /\ known[r.name].method >= m
    \/ \A n \in DOMAIN known : known[n].method < m
PassedAreKept == Kept(methods_)

MethodsInv == MethodsTyped /\ KnownWasRead /\ PassedAreKept /\ FindsReadable /\ CalledRight

LEMMA CodeBegins ==
  ASSUME MethodsTyped, NEW m \in 1..Length
  PROVE  /\ methods[m] \in Seq(Instructions) /\ Begins(methods[m], Code(m))
         /\ Len(methods[m]) < Len(Code(m)) /\ Len(Code(m)) \in Nat
<1> DEFINE rest == SubSeq(methods, m, Length)
<1>1. Length \in Nat /\ \A b \in Bodies : b \in Seq(Instructions)
  BY InterfaceAssumption
<1>2. methods \in Seq(Seq(Instructions)) /\ Len(methods) = Length
  BY <1>1 DEF MethodsTyped
<1>3. rest \in Seq(Seq(Instructions)) /\ Len(rest) # 0 /\ rest[1] = methods[m]
  BY <1>1, <1>2, SubSeqProperties
<1>4. /\ FlattenSeq(rest) \in Seq(Instructions)
      /\ Begins(methods[m], FlattenSeq(rest))
  BY <1>3, FlattenBegins
<1>5. methods[m] \in Seq(Instructions)
  BY <1>1 DEF MethodsTyped
<1> DEFINE end == <<[op |-> "int3"]>>
<1>6. end \in Seq(Instructions) /\ Len(end) = 1
  BY DEF Instructions
<1>7. Code(m) = FlattenSeq(rest) \o end
  BY DEF Code
<1> HIDE DEF rest, end
<1>8. /\ Code(m) \in Seq(Instructions) /\ Begins(methods[m], Code(m))
      /\ Len(Code(m)) = Len(FlattenSeq(rest)) + 1
  <2> DEFINE flat == FlattenSeq(rest)
  <2>1. flat \in Seq(Instructions) /\ Begins(methods[m], flat) /\ Code(m) = flat \o end
    BY <1>4, <1>7
  <2> HIDE DEF flat
  <2>2. flat \o end \in Seq(Instructions) /\ Begins(methods[m], flat \o end)
    BY <1>5, <1>6, <2>1, BeginsMore
  <2>3. Len(flat \o end) = Len(flat) + Len(end)
    BY <1>6, <2>1, ConcatProperties
  <2> QED
    BY <1>6, <2>1, <2>2, <2>3 DEF flat
<1>9. Len(methods[m]) \in Nat /\ Len(FlattenSeq(rest)) \in Nat
  BY <1>4, <1>5, LenProperties
<1> QED
  BY <1>4, <1>5, <1>8, <1>9 DEF Begins

\* A method gives away one name at most.
LEMMA AnalyzedOnce ==
  ASSUME NEW m, NEW r \in AnalyzeMethod(m)
  PROVE  AnalyzeMethod(m) = {r} /\ r.method = m
BY DEF AnalyzeMethod

\* One that can be read gives away its own.
LEMMA ReadableIsRead ==
  ASSUME MethodsTyped, NEW m \in 1..Length, Readable(m)
  PROVE  AnalyzeMethod(m) =
           {[name |-> RealName(m), method |-> m, param_size |-> RealSize(m)]}
<1> DEFINE b == methods[m]
           c == Code(m)
           L == Len(b)
           P == RealPushes(m)
           S == Sought(m)
           R == RealReturns(m)
           T == {k \in 1..(Len(c) - 1) : Stops(m, k)}
           e == Min(T)
<1>1. /\ b \in Seq(Instructions) /\ L \in Nat /\ DOMAIN b = 1..L
      /\ L < Len(c) /\ Len(c) \in Nat /\ \A k \in 1..L : c[k] = b[k]
  BY CodeBegins, LenProperties DEF Begins
<1>2. \A k \in 1..L :
        /\ b[k].op = "int3" => k = L
        /\ b[k].op = "push" => b[k].arg \in Nat
  <2>1. b \in Bodies /\ \A k \in 1..L : b[k] \in Instructions
    BY <1>1 DEF MethodsTyped
  <2> QED
    BY <2>1, InterfaceAssumption DEF Instructions
<1>3. S # {} /\ R # {} /\ b[L].op = "int3" /\ Min(S) = Min(P)
  BY DEF Readable
<1>4. /\ S = {k \in 1..L : b[k].op = "push" /\ b[k].arg \in Start..(Start + Size) \cap DOMAIN Text}
      /\ R = {k \in 1..L : b[k].op = "ret"}
  BY <1>1 DEF Sought, Pushes, RealReturns
<1> HIDE DEF b, c, L, P, R, S
<1>5. \A k \in 1..L : /\ PushesName(m, k) <=> k \in S
                      /\ Returns(m, k) <=> k \in R
  <2>1. Start \in Nat /\ Size \in Nat
    BY InterfaceAssumption
  <2>2. ASSUME NEW k \in 1..L
        PROVE  PushesName(m, k) <=> k \in S
    <3>1. PushesName(m, k) <=>
            /\ b[k].op = "push" /\ b[k].arg \in DOMAIN Text
            /\ Start <= b[k].arg /\ b[k].arg <= Start + Size
      BY <1>1 DEF PushesName, IsRdata, c
    <3>2. b[k].op = "push" =>
            (Start <= b[k].arg /\ b[k].arg <= Start + Size <=> b[k].arg \in Start..(Start + Size))
      BY <1>2, <2>1
    <3> QED
      BY <1>4, <3>1, <3>2
  <2>3. ASSUME NEW k \in 1..L
        PROVE  Returns(m, k) <=> k \in R
    BY <1>1, <1>4 DEF Returns, c
  <2> QED
    BY <2>2, <2>3
<1>6. S \in SUBSET Nat /\ R \in SUBSET Nat /\ L >= 1
      /\ \A k \in S \cup R : k <= L - 1
  <2>1. \A k \in S \cup R : k \in 1..L /\ k # L
    BY <1>3, <1>4
  <2> QED
    BY <1>1, <1>3, <2>1
<1> DEFINE p == Min(S)
           q == Min(R)
<1>7. p \in S /\ (\A k \in S : p <= k) /\ q \in R /\ (\A k \in R : q <= k)
  BY <1>3, <1>6, MinIs
<1>8. L - 1 \in T
  <2>1. L - 1 \in 1..(Len(c) - 1)
    <3>1. p \in 1..L /\ p <= L - 1
      BY <1>4, <1>6, <1>7
    <3> QED
      BY <1>1, <3>1
  <2>2. c[(L - 1) + 1].op = "int3"
    BY <1>1, <1>3, <1>6
  <2> QED
    BY <2>1, <2>2 DEF Stops, c
<1>9. e \in T /\ e <= L - 1
  <2>1. T \in SUBSET Nat
    OBVIOUS
  <2> QED
    BY <1>8, <2>1, MinIs
<1> HIDE DEF p, q, e
<1>10. e \in 1..(L - 1) /\ Stops(m, e)
  BY <1>1, <1>9
<1>11. p <= e /\ q <= e
  <2>1. CASE c[e + 1].op = "int3"
    <3>1. e + 1 \in 1..L /\ c[e + 1] = b[e + 1]
      BY <1>1, <1>10
    <3>2. e + 1 = L
      BY <1>2, <2>1, <3>1
    <3>3. e = L - 1
      BY <1>1, <1>10, <3>2
    <3> QED
      BY <1>6, <1>7, <3>3
  <2>2. CASE (\E i \in 1..e : PushesName(m, i)) /\ (\E i \in 1..e : Returns(m, i))
    <3>1. PICK i \in 1..e, j \in 1..e : PushesName(m, i) /\ Returns(m, j)
      BY <2>2
    <3>2. i \in 1..L /\ j \in 1..L
      BY <1>1, <1>10
    <3>3. p <= i /\ q <= j /\ p \in Nat /\ q \in Nat
      BY <1>5, <1>6, <1>7, <3>1, <3>2
    <3> QED
      BY <1>10, <3>3
  <2> QED
    BY <1>10, <2>1, <2>2 DEF Stops, c
<1> DEFINE names == {k \in Analysed(m) : PushesName(m, k)}
           returns == {k \in Analysed(m) : Returns(m, k)}
<1>12. Analysed(m) = 1..e
  BY DEF Analysed, e, c
<1>13. /\ p \in names /\ \A k \in names : p <= k
       /\ q \in returns /\ \A k \in returns : q <= k
       /\ names \in SUBSET Nat /\ returns \in SUBSET Nat
  <2>1. p \in 1..e /\ q \in 1..e
    <3>1. p \in 1..L /\ q \in 1..L /\ e \in Nat
      BY <1>4, <1>7, <1>10
    <3> QED
      BY <1>1, <1>11, <3>1
  <2>2. \A k \in 1..e : k \in 1..L
    BY <1>1, <1>10
  <2> QED
    BY <1>5, <1>7, <1>12, <2>1, <2>2
<1>14. Min(names) = p /\ Min(returns) = q
  <2> HIDE DEF names, returns
  <2> QED
    BY <1>13, MinIs
<1>15. AnalyzeMethod(m) =
         {[name |-> Text[c[p].arg], method |-> m, param_size |-> c[q].arg]}
  BY <1>13, <1>14 DEF AnalyzeMethod, c
<1>16. c[p] = b[p] /\ c[q] = b[q]
  BY <1>1, <1>4, <1>7
<1> QED
  BY <1>3, <1>15, <1>16 DEF RealName, RealSize, b, p, q, P, R

\* The names that a search finds, with the last of the methods that have them.
LEMMA FoundWasRead ==
  ASSUME MethodsTyped, KnownWasRead, PassedAreKept, NEW name
  PROVE  LET known == Found(name) IN
         /\ Kept(known)
         /\ \A n \in DOMAIN known :
              /\ known[n].name = n /\ known[n].method \in 1..Length
              /\ known[n] \in AnalyzeMethod(known[n].method)
         /\ name \notin DOMAIN known =>
              \A m \in 1..Length : \A r \in AnalyzeMethod(m) : r.name # name
<1> DEFINE known == Found(name)
           learned == Results(name)
           found == {r.name : r \in learned}
           passed == Passed(name)
           last == {m \in 1..Length : \E r \in AnalyzeMethod(m) : r.name = name}
<1>1. CASE name \in DOMAIN methods_
  BY <1>1 DEF Found, KnownWasRead, PassedAreKept
<1>2. CASE name \notin DOMAIN methods_
  <2>0. Length \in Nat
    BY InterfaceAssumption
  <2>1. last # {} => Min(last) \in last
    <3>1. last \in SUBSET Nat
      BY <2>0
    <3> QED
      BY <3>1, MinIs
  <2>2. passed = 1..(IF last = {} THEN Length ELSE Min(last))
    BY DEF Passed
  <2>3. \A m \in passed : m \in 1..Length
    BY <2>0, <2>1, <2>2
  <2>4. ASSUME NEW r \in learned
        PROVE  r.method \in 1..Length /\ r \in AnalyzeMethod(r.method)
    <3>1. PICK m \in passed : r \in AnalyzeMethod(m)
      BY DEF Results
    <3>2. r.method = m
      BY <3>1, AnalyzedOnce
    <3> QED
      BY <2>3, <3>1, <3>2
  <2>5. ASSUME NEW n \in found
        PROVE  \E r \in learned :
                 r.name = n /\ \A s \in learned : s.name = n => s.method <= r.method
    <3> DEFINE Behind == {Length - r.method : r \in {s \in learned : s.name = n}}
    <3>1. Behind \in SUBSET Nat /\ Behind # {}
      BY <2>0, <2>4
    <3>2. PICK least \in Behind : \A k \in Behind : least <= k
      <4> HIDE DEF Behind
      <4> QED
        BY <3>1, LeastOf
    <3>3. PICK r \in learned : r.name = n /\ least = Length - r.method
      BY <3>2
    <3>4. ASSUME NEW s \in learned, s.name = n PROVE s.method <= r.method
      <4>1. Length - r.method <= Length - s.method
        BY <3>2, <3>3, <3>4
      <4>2. r.method \in 1..Length /\ s.method \in 1..Length
        BY <2>4
      <4> QED
        BY <2>0, <4>1, <4>2
    <3> QED
      BY <3>3, <3>4
  <2>6. known = [n \in DOMAIN methods_ \cup found |->
                   IF n \in found
                   THEN CHOOSE r \in learned :
                          r.name = n /\ \A s \in learned : s.name = n => s.method <= r.method
                   ELSE methods_[n]]
    BY <1>2 DEF Found, Learned
  <2> HIDE DEF known, found, learned
  <2>7. ASSUME NEW n \in DOMAIN known
        PROVE  /\ known[n].name = n /\ known[n].method \in 1..Length
               /\ known[n] \in AnalyzeMethod(known[n].method)
    <3>1. CASE n \in found
      <4>1. known[n] = CHOOSE r \in learned :
                         r.name = n /\ \A s \in learned : s.name = n => s.method <= r.method
        BY <2>6, <3>1
      <4>2. known[n] \in learned /\ known[n].name = n
        BY <2>5, <3>1, <4>1
      <4> QED
        BY <2>4, <4>2
    <3>2. CASE n \notin found
      BY <2>6, <3>2 DEF KnownWasRead
    <3> QED
      BY <3>1, <3>2
  <2>8. ASSUME name \notin DOMAIN known, NEW m \in 1..Length,
               NEW r \in AnalyzeMethod(m), r.name = name
        PROVE  FALSE
    <3>1. m \in last
      BY <2>8
    <3>2. Min(last) \in last
      BY <2>1, <3>1
    <3>3. Min(last) \in passed
      BY <2>0, <2>2, <3>1, <3>2
    <3>4. PICK s \in AnalyzeMethod(Min(last)) : s.name = name
      BY <3>2
    <3>5. s \in learned
      BY <3>3, <3>4 DEF learned, Results
    <3> QED
      BY <2>6, <2>8, <3>4, <3>5 DEF found
  <2>9. ASSUME NEW m \in 1..Length, NEW r \in AnalyzeMethod(m)
        PROVE  \/ r.name \in DOMAIN known /\ known[r.name].method >= m
               \/ \A n \in DOMAIN known : known[n].method < m
    <3>1. CASE m \in passed
      <4>1. r \in learned /\ r.name \in found /\ r.method = m
        BY <3>1, AnalyzedOnce DEF learned, found, Results
      <4>2. known[r.name] = CHOOSE q \in learned :
                q.name = r.name /\ \A s \in learned : s.name = r.name => s.method <= q.method
        BY <2>6, <4>1
      <4>3. known[r.name] \in learned /\ r.method <= known[r.name].method
        BY <2>5, <4>1, <4>2
      <4>4. known[r.name].method \in Nat /\ r.name \in DOMAIN known
        BY <2>4, <2>6, <4>1, <4>3
      <4> QED
        BY <4>1, <4>3, <4>4
    <3>2. CASE m \notin passed
      <4> DEFINE j == Min(last)
      <4>1. last # {} /\ j \in last /\ j < m /\ passed = 1..j
        BY <2>0, <2>1, <2>2, <3>2
      <4>2. PICK s \in AnalyzeMethod(j) : s.name = name
        BY <4>1
      <4>3. \A n \in DOMAIN methods_ : methods_[n].method < j
        BY <1>2, <4>1, <4>2 DEF PassedAreKept, Kept
      <4>4. \A s_ \in learned : s_.method \in passed
        BY AnalyzedOnce DEF learned, Results
      <4> HIDE DEF last, j
      <4>5. ASSUME NEW n \in DOMAIN known PROVE known[n].method < m
        <5>1. j \in Nat /\ m \in Nat /\ known[n].method \in Nat
          BY <2>7, <4>1 DEF last
        <5>2. CASE n \in found
          <6>1. known[n] = CHOOSE q \in learned :
                    q.name = n /\ \A s_ \in learned : s_.name = n => s_.method <= q.method
            BY <2>6, <5>2
          <6>2. known[n] \in learned
            BY <2>5, <5>2, <6>1
          <6> QED
            BY <4>1, <4>4, <5>1, <6>2
        <5>3. CASE n \notin found
          <6>1. n \in DOMAIN methods_ /\ known[n] = methods_[n]
            BY <2>6, <5>3
          <6> QED
            BY <4>1, <4>3, <5>1, <6>1
        <5> QED
          BY <5>2, <5>3
      <4> QED
        BY <4>5
    <3> QED
      BY <3>1, <3>2
  <2>10. Kept(known)
    BY <2>9 DEF Kept
  <2> QED
    BY <2>7, <2>8, <2>10 DEF known
<1> QED
  BY <1>1, <1>2

LEMMA SameMethods ==
  ASSUME UNCHANGED methods
  PROVE  \A m : /\ AnalyzeMethod(m)' = AnalyzeMethod(m)
                /\ Readable(m)' <=> Readable(m)
                /\ RealName(m)' = RealName(m)
                /\ RealSize(m)' = RealSize(m)
<1>1. \A m : AnalyzeMethod(m)' = AnalyzeMethod(m)
  BY DEF AnalyzeMethod, Analysed, Stops, PushesName,
     Returns, Code
<1>2. \A m : /\ Readable(m)' <=> Readable(m)
             /\ RealName(m)' = RealName(m)
             /\ RealSize(m)' = RealSize(m)
  BY DEF Readable, RealName, RealSize, RealPushes,
     RealReturns, Sought, Pushes
<1> QED
  BY <1>1, <1>2

LEMMA InvokeKeeps ==
  ASSUME MethodsInv, NEW name, NEW args, Invoke(name, args)
  PROVE  MethodsInv'
<1>1. /\ methods' = methods /\ methods_' = Found(name)
      /\ called'.name = name /\ called'.args = args
      /\ called'.did = Outcome(name, args, methods_').did
      /\ called'.method = Outcome(name, args, methods_').method
  BY DEF Invoke
<1>2. MethodsTyped'
  BY <1>1 DEF MethodsInv, MethodsTyped
<1>3. /\ \A n \in DOMAIN methods_' :
           /\ methods_'[n].name = n /\ methods_'[n].method \in 1..Length
           /\ methods_'[n] \in AnalyzeMethod(methods_'[n].method)
      /\ name \notin DOMAIN methods_' =>
           \A m \in 1..Length : \A r \in AnalyzeMethod(m) : r.name # name
      /\ Kept(methods_')
  <2>1. KnownWasRead => \A n \in DOMAIN methods_ :
          /\ methods_[n].name = n /\ methods_[n].method \in 1..Length
          /\ methods_[n] \in AnalyzeMethod(methods_[n].method)
    BY DEF KnownWasRead
  <2> QED
    BY <1>1, <2>1, FoundWasRead DEF MethodsInv
<1>4. KnownWasRead'
  <2> SUFFICES ASSUME NEW n \in DOMAIN methods_', NEW m \in 1..Length, m = methods_'[n].method
               PROVE  methods_'[n].name = n /\ methods_'[n] \in AnalyzeMethod(m)'
    BY <1>3 DEF KnownWasRead
  <2> QED
    BY <1>1, <1>3, SameMethods
<1>5. \A m \in 1..Length : Readable(m) =>
        AnalyzeMethod(m) =
           {[name |-> RealName(m), method |-> m, param_size |-> RealSize(m)]}
  BY ReadableIsRead DEF MethodsInv
<1>6. FindsReadable'
  <2> SUFFICES ASSUME called'.did = "no method", NEW m \in 1..Length, Readable(m)
               PROVE  RealName(m) # name
    BY <1>1, SameMethods DEF FindsReadable
  <2>1. name \notin DOMAIN methods_'
    BY <1>1 DEF Outcome
  <2> DEFINE r == [name |-> RealName(m), method |-> m, param_size |-> RealSize(m)]
  <2>2. r \in AnalyzeMethod(m) /\ r.name = RealName(m)
    BY <1>5
  <2> HIDE DEF r
  <2> QED
    BY <1>3, <2>1, <2>2
<1>7. CalledRight'
  <2> SUFFICES ASSUME called'.did = "called", NEW m, m = called'.method, Readable(m)
               PROVE  RealName(m) = name /\ RealSize(m) = args
    BY <1>1, SameMethods DEF CalledRight
  <2>1. name \in DOMAIN methods_' /\ methods_'[name].param_size = args /\ methods_'[name].method = m
    BY <1>1 DEF Outcome
  <2>2. m \in 1..Length /\ methods_'[name].name = name
        /\ methods_'[name] \in AnalyzeMethod(m)
    BY <1>3, <2>1
  <2> QED
    BY <1>5, <2>1, <2>2
<1>8. PassedAreKept'
  BY <1>1, <1>3, SameMethods DEF PassedAreKept, Kept
<1> QED
  BY <1>2, <1>4, <1>6, <1>7, <1>8 DEF MethodsInv

LEMMA MethodsStep == MethodsInv /\ [PartsNext]_<<part, vars, interfaceVars>> => MethodsInv'
<1> SUFFICES ASSUME MethodsInv, [PartsNext]_<<part, vars, interfaceVars>>
             PROVE MethodsInv'
  OBVIOUS
<1>1. CASE InterfaceNext
  BY <1>1, InvokeKeeps DEF InterfaceNext
<1>2. CASE UNCHANGED interfaceVars
  <2>1. UNCHANGED <<methods, methods_, called>>
    BY <1>2 DEF interfaceVars
  <2> QED
    <3>1. MethodsTyped'
      BY <2>1 DEF MethodsInv, MethodsTyped
    <3>2. KnownWasRead'
      BY <2>1, SameMethods DEF MethodsInv, KnownWasRead
    <3>3. FindsReadable'
      BY <2>1, SameMethods DEF MethodsInv, FindsReadable
    <3>4. CalledRight'
      BY <2>1, SameMethods DEF MethodsInv, CalledRight
    <3>5. PassedAreKept'
      BY <2>1, SameMethods DEF MethodsInv, PassedAreKept, Kept
    <3> QED
      BY <3>1, <3>2, <3>3, <3>4, <3>5 DEF MethodsInv
<1> QED
  BY <1>1, <1>2 DEF PartsNext

\* Whatever methods the table has and wherever strings are looked for: one that can
\* be read is found by its name, what a call by a name reaches has it and takes the
\* arguments that were passed, and of those with one name it is the last that a
\* search has passed (search_method and analyze_method of interface.cpp).
THEOREM Methods_Found == PartsSpec => []MethodsFound
<1>1. PartsInit => MethodsInv
  <2> SUFFICES ASSUME PartsInit PROVE MethodsInv
    OBVIOUS
  <2>1. methods \in [1..Length -> Bodies] /\ methods_ = << >> /\ called.did = "nothing"
    BY DEF PartsInit, InterfaceInit
  <2> QED
    BY <2>1 DEF MethodsInv, MethodsTyped, KnownWasRead, CalledRight, FindsReadable,
       PassedAreKept, Kept
<1>2. MethodsInv => MethodsFound
  <2>1. MethodsInv => LastIsKept
    <3> SUFFICES ASSUME MethodsInv, NEW m \in 1..Length, Readable(m)
                 PROVE  \/ RealName(m) \in DOMAIN methods_ /\ methods_[RealName(m)].method >= m
                        \/ \A n \in DOMAIN methods_ : methods_[n].method < m
      BY DEF LastIsKept
    <3> DEFINE r == [name |-> RealName(m), method |-> m, param_size |-> RealSize(m)]
    <3>1. r \in AnalyzeMethod(m) /\ r.name = RealName(m)
      BY ReadableIsRead DEF MethodsInv
    <3> HIDE DEF r
    <3> QED
      BY <3>1 DEF MethodsInv, PassedAreKept, Kept
  <2> QED
    BY <2>1 DEF MethodsInv, CalledRight, MethodsFound, CallsWhatItNames
<1> QED
  BY <1>1, <1>2, MethodsStep, PTL DEF PartsSpec
=============================================================================
