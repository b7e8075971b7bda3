---------------------------- MODULE StorageProofs ----------------------------
(***************************************************************************)
(* Proofs about Storage, for any number of threads, names and ids.         *)
(*                                                                         *)
(* The inductive invariant IInv says what the lock_guard buys: the thread  *)
(* inside an operation is alone, so the keys it has extracted and the rows *)
(* it has filled in still describe the tables as they are.                 *)
(***************************************************************************)
EXTENDS StorageRefinement, TLAPS

-----------------------------------------------------------------------------
(* The key vectors storage.cpp works with compute the join and the         *)
(* difference of the two tables, row for row, when ids are unique.         *)

\* The rows fill_result makes of a set of keys.
FilledRows(ks, data) == {FillRow(k, data) : k \in ks}

Wanted(cmd, data) == CombineKeys(cmd, KeysOf(data[1]), KeysOf(data[2]))

\* Storage::find_name returns the name of the one record with the key.
LEMMA FindNameOfRecord ==
    ASSUME NEW data, UniqueKeys(data), NEW r \in data
    PROVE  HasKey(data, r.id) /\ FindName(data, r.id) = r.name
<1>1. HasKey(data, r.id)
  BY DEF HasKey
<1>2. (CHOOSE s \in data : s.id = r.id) = r
  BY DEF UniqueKeys
<1> QED BY <1>1, <1>2 DEF FindName

\* Storage::find_name returns an empty name for a key no record has.
LEMMA FindNameOfNobody ==
    ASSUME NEW data, NEW k, ~HasKey(data, k)
    PROVE  FindName(data, k) = Blank
BY DEF FindName

\* emplace keeps the ids of a table unique and the records it already has.
LEMMA EmplaceKeepsKeys ==
    ASSUME NEW data, UniqueKeys(data), NEW r
    PROVE  /\ UniqueKeys(Emplace(data, r))
           /\ data \subseteq Emplace(data, r)
BY DEF Emplace, UniqueKeys, HasKey

\* A row made for a wanted key carries that key.
LEMMA RowOfWantedKey ==
    ASSUME NEW data, NEW cmd, NEW k \in Wanted(cmd, data)
    PROVE  FillRow(k, data).id = k
<1>1. \E i \in Slots : HasKey(data[i], k)
  <2>1. k \in KeysOf(data[1]) \/ k \in KeysOf(data[2])
    BY DEF Wanted, CombineKeys
  <2>2. HasKey(data[1], k) \/ HasKey(data[2], k)
    BY <2>1 DEF KeysOf, HasKey
  <2> QED BY <2>2 DEF Slots
<1> QED BY <1>1 DEF FillRow

\* fill_result over std::set_intersection is the inner join of the two tables.
LEMMA IntersectionIsJoin ==
    ASSUME NEW data, UniqueKeys(data[1]), UniqueKeys(data[2])
    PROVE  FilledRows(Wanted("intersection", data), data)
             = Joined(data[1], data[2])
<1> DEFINE a == data[1]
           b == data[2]
<1>1. ASSUME NEW r \in a, NEW s \in b, r.id = s.id
      PROVE  FillRow(r.id, data) = [id |-> r.id, fields |-> Fields(r.name, s.name)]
  <2>1. HasKey(a, r.id) /\ FindName(a, r.id) = r.name
    BY FindNameOfRecord
  <2>2. HasKey(b, r.id) /\ FindName(b, r.id) = s.name
    BY FindNameOfRecord, <1>1
  <2>3. [i \in Slots |-> FindName(data[i], r.id)] = Fields(r.name, s.name)
    BY <2>1, <2>2 DEF Fields, Slots
  <2>4. \E i \in Slots : HasKey(data[i], r.id)
    BY <2>1 DEF Slots
  <2> QED BY <2>3, <2>4 DEF FillRow
<1>2. ASSUME NEW k \in Wanted("intersection", data)
      PROVE  FillRow(k, data) \in Joined(a, b)
  <2>1. PICK r \in a, s \in b : r.id = k /\ s.id = k
    BY DEF Wanted, CombineKeys, KeysOf
  <2>2. <<r, s>> \in {q \in a \X b : q[1].id = q[2].id}
    BY <2>1
  <2> QED BY <2>1, <2>2, <1>1 DEF Joined
<1>3. ASSUME NEW p \in {q \in a \X b : q[1].id = q[2].id}
      PROVE  [id |-> p[1].id, fields |-> Fields(p[1].name, p[2].name)]
               \in FilledRows(Wanted("intersection", data), data)
  <2>1. p[1] \in a /\ p[2] \in b /\ p[1].id = p[2].id
    OBVIOUS
  <2>2. p[1].id \in Wanted("intersection", data)
    BY <2>1 DEF Wanted, CombineKeys, KeysOf
  <2>3. FillRow(p[1].id, data)
          = [id |-> p[1].id, fields |-> Fields(p[1].name, p[2].name)]
    BY <2>1, <1>1
  <2> QED BY <2>2, <2>3 DEF FilledRows
<1> QED BY <1>2, <1>3, Zenon DEF FilledRows, Joined

\* fill_result over std::set_symmetric_difference is the rows only one table has.
LEMMA DifferenceIsDisjoined ==
    ASSUME NEW data, UniqueKeys(data[1]), UniqueKeys(data[2])
    PROVE  FilledRows(Wanted("symmetric_difference", data), data)
             = Disjoined(data[1], data[2])
<1> DEFINE a == data[1]
           b == data[2]
           wanted == Wanted("symmetric_difference", data)
           left(r) == [id |-> r.id, fields |-> Fields(r.name, Blank)]
           right(r) == [id |-> r.id, fields |-> Fields(Blank, r.name)]
<1>0. wanted = (KeysOf(a) \ KeysOf(b)) \cup (KeysOf(b) \ KeysOf(a))
  BY DEF Wanted, CombineKeys
<1>1. ASSUME NEW r \in Unmatched(a, b)
      PROVE  r.id \in wanted /\ FillRow(r.id, data) = left(r)
  <2>1. r \in a /\ ~HasKey(b, r.id)
    BY DEF Unmatched, HasKey
  <2>2. r.id \in KeysOf(a) \ KeysOf(b)
    BY <2>1 DEF KeysOf, HasKey
  <2>3. HasKey(a, r.id) /\ FindName(a, r.id) = r.name /\ FindName(b, r.id) = Blank
    BY <2>1, FindNameOfRecord, FindNameOfNobody
  <2>4. [i \in Slots |-> FindName(data[i], r.id)] = Fields(r.name, Blank)
    BY <2>3 DEF Fields, Slots
  <2>5. \E i \in Slots : HasKey(data[i], r.id)
    BY <2>3 DEF Slots
  <2> QED BY <1>0, <2>2, <2>4, <2>5 DEF FillRow
<1>2. ASSUME NEW r \in Unmatched(b, a)
      PROVE  r.id \in wanted /\ FillRow(r.id, data) = right(r)
  <2>1. r \in b /\ ~HasKey(a, r.id)
    BY DEF Unmatched, HasKey
  <2>2. r.id \in KeysOf(b) \ KeysOf(a)
    BY <2>1 DEF KeysOf, HasKey
  <2>3. HasKey(b, r.id) /\ FindName(b, r.id) = r.name /\ FindName(a, r.id) = Blank
    BY <2>1, FindNameOfRecord, FindNameOfNobody
  <2>4. [i \in Slots |-> FindName(data[i], r.id)] = Fields(Blank, r.name)
    BY <2>3 DEF Fields, Slots
  <2>5. \E i \in Slots : HasKey(data[i], r.id)
    BY <2>3 DEF Slots
  <2> QED BY <1>0, <2>2, <2>4, <2>5 DEF FillRow
<1>3. ASSUME NEW k \in wanted
      PROVE  \/ \E r \in Unmatched(a, b) : r.id = k
             \/ \E r \in Unmatched(b, a) : r.id = k
  BY <1>0 DEF KeysOf, Unmatched
<1>4. ASSUME NEW k \in wanted
      PROVE  FillRow(k, data) \in Disjoined(a, b)
  <2>1. CASE \E r \in Unmatched(a, b) : r.id = k
    BY <2>1, <1>1 DEF Disjoined
  <2>2. CASE \E r \in Unmatched(b, a) : r.id = k
    BY <2>2, <1>2 DEF Disjoined
  <2> QED BY <1>3, <2>1, <2>2
<1>5. ASSUME NEW x \in Disjoined(a, b)
      PROVE  x \in FilledRows(wanted, data)
  <2>1. CASE \E r \in Unmatched(a, b) : x = left(r)
    BY <2>1, <1>1 DEF FilledRows
  <2>2. CASE \E r \in Unmatched(b, a) : x = right(r)
    BY <2>2, <1>2 DEF FilledRows
  <2> QED BY <2>1, <2>2 DEF Disjoined
<1> QED BY <1>4, <1>5, Zenon DEF FilledRows

\* Whatever the set operation, the rows filled in are its answer.
LEMMA FilledRowsAreTheAnswer ==
    ASSUME NEW data, UniqueKeys(data[1]), UniqueKeys(data[2]),
           NEW cmd \in {"intersection", "symmetric_difference"}
    PROVE  FilledRows(Wanted(cmd, data), data) = Answer(cmd, data)
BY IntersectionIsJoin, DifferenceIsDisjoined DEF Answer

-----------------------------------------------------------------------------
(* The thread inside.                                                      *)

Inside == {"body", "fill", "unlock"}

\* std::mutex: the owner of m_ is the one thread inside an operation.
MutexOwner == \A t \in Threads : (m = t) <=> (pc[t] \in Inside)

\* The three states the constructor goes through, and where the references
\* stored in names_ point in each.
Unbuilt ==
    /\ tables = [block |-> 0, size |-> 0, cap |-> 0]
    /\ names = [n \in TableNames |-> NoCell]
HalfBuilt ==
    /\ tables = [block |-> 1, size |-> 1, cap |-> 1]
    /\ names = [n \in TableNames |-> IF n = "A" THEN <<1, 1>> ELSE NoCell]
Built ==
    /\ tables = [block |-> 2, size |-> 2, cap |-> 2]
    /\ names = [n \in TableNames |->
                  IF n = "A" THEN <<1, 1>> ELSE IF n = "B" THEN <<2, 2>> ELSE NoCell]

Layout ==
    /\ Unbuilt \/ HalfBuilt \/ Built
    /\ ~Built => \A c \in Cells : heap[c] = {}
    /\ ~Built => \A t \in Threads : pc[t] = "idle"
    /\ \A c \in Cells : heap[c] # {} => c \in {<<1, 1>>, <<2, 2>>}
    /\ reused => Built

UniqueIds == \A c \in Cells : UniqueKeys(heap[c])

\* How far the operation of thread t has come, and that what it has computed
\* so far agrees with the tables as they are now.
Progress(t) ==
    LET all == Wanted(call[t].cmd, Data)
        sets == call[t].cmd \in SetCommands
    IN  /\ pc[t] \in {"idle", "wait"} =>
             keys[t] = <<>> /\ todo[t] = {} /\ rows[t] = {} /\ ok[t] = FALSE
        /\ pc[t] = "body" =>
             /\ todo[t] = {} /\ rows[t] = {} /\ ok[t] = FALSE
             /\ ~sets => keys[t] = <<>>
             /\ Len(keys[t]) <= 2
             /\ \A i \in 1..Len(keys[t]) : keys[t][i] = KeysOf(Data[i])
        /\ pc[t] = "fill" =>
             /\ sets /\ ok[t] = FALSE
             /\ todo[t] \subseteq all
             /\ rows[t] = FilledRows(all \ todo[t], Data)
        /\ pc[t] = "unlock" =>
             /\ todo[t] = {}
             /\ sets => rows[t] = FilledRows(all, Data) /\ ok[t] = FALSE
             /\ ~sets => rows[t] = {}

IInv ==
    /\ TypeOK
    /\ MutexOwner
    /\ Layout
    /\ UniqueIds
    /\ \A t \in Threads : Progress(t)

-----------------------------------------------------------------------------
(* Facts about one state.                                                  *)

\* Once the constructor is done, the tables of the vector are those of block 2.
LEMMA TablesInBlockTwo ==
    ASSUME Built
    PROVE  Data = [i \in Slots |-> heap[<<2, i>>]] /\ Constructed
BY DEF Built, Data, Slot, Constructed, Schema

\* A thread is inside an operation only once the tables are built.
LEMMA InsideIsBuilt ==
    ASSUME IInv, NEW t \in Threads, pc[t] # "idle"
    PROVE  Built
BY DEF IInv, Layout

\* Both tables of a state of Storage have unique ids.
LEMMA DataHasUniqueIds ==
    ASSUME IInv, Built
    PROVE  /\ Data \in [Slots -> SUBSET Record]
           /\ UniqueKeys(Data[1]) /\ UniqueKeys(Data[2])
<1>1. \A i \in Slots : <<2, i>> \in Cells
  BY DEF Slots, Cells, Blocks
<1>2. \A i \in Slots : heap[<<2, i>>] \in SUBSET Record /\ UniqueKeys(heap[<<2, i>>])
  BY <1>1 DEF IInv, TypeOK, UniqueIds
<1> QED BY <1>2, TablesInBlockTwo DEF Slots

\* While one thread is inside, no other thread is.
LEMMA Alone ==
    ASSUME IInv, NEW t \in Threads, NEW u \in Threads, u # t, pc[t] \in Inside
    PROVE  pc[u] \in {"idle", "wait"}
BY DEF IInv, MutexOwner, Inside, TypeOK

\* A step of another thread leaves what thread u has computed true: either the
\* step leaves the tables alone, or u is not inside an operation.
LEMMA OthersUndisturbed ==
    ASSUME IInv, NEW t \in Threads, NEW u \in Threads, u # t,
           pc[t] \in Inside \/ Data' = Data,
           pc'[u] = pc[u], call'[u] = call[u], keys'[u] = keys[u],
           todo'[u] = todo[u], rows'[u] = rows[u], ok'[u] = ok[u]
    PROVE  Progress(u)'
<1>1. CASE pc[t] \in Inside
  <2>1. pc[u] \in {"idle", "wait"}
    BY <1>1, Alone
  <2> QED BY <2>1 DEF IInv, Progress
<1>2. CASE Data' = Data
  <2>1. Progress(u)
    BY DEF IInv
  <2> QED BY <1>2, <2>1 DEF Progress, Wanted, FilledRows, FillRow
<1> QED BY <1>1, <1>2

\* The constructor leaves every table empty and every thread idle.
LEMMA InitEstablishes == ASSUME Init PROVE IInv
<1>1. TypeOK
  <2>1. NoCell \in Cells
    BY DEF NoCell, Cells, Blocks
  <2>2. /\ tables \in [block : Blocks, size : 0..2, cap : 0..2]
        /\ heap \in [Cells -> SUBSET Record]
        /\ names \in [TableNames -> Cells]
    BY <2>1 DEF Init, Blocks
  <2>3. /\ m \in Threads \cup {NoThread}
        /\ pc \in [Threads -> {"idle", "wait", "body", "fill", "unlock"}]
        /\ call \in [Threads -> Calls \cup {NoCall}]
        /\ \A t \in Threads : pc[t] = "idle" <=> call[t] = NoCall
    BY DEF Init
  <2>4. /\ keys \in [Threads -> Seq(SUBSET Ids)]
        /\ todo \in [Threads -> SUBSET Ids]
        /\ rows \in [Threads -> SUBSET Row]
    BY DEF Init
  <2>5. /\ reused \in BOOLEAN /\ crashed \in BOOLEAN
        /\ ok \in [Threads -> BOOLEAN]
    BY DEF Init
  <2> QED BY <2>2, <2>3, <2>4, <2>5 DEF TypeOK
<1>2. MutexOwner
  BY StorageAssumption DEF Init, MutexOwner, Inside
<1>3. Layout
  BY DEF Init, Layout, Unbuilt, HalfBuilt, Built
<1>4. UniqueIds
  BY DEF Init, UniqueIds, UniqueKeys
<1>5. \A t \in Threads : Progress(t)
  BY DEF Init, Progress
<1> QED BY <1>1, <1>2, <1>3, <1>4, <1>5 DEF IInv

-----------------------------------------------------------------------------
(* One lemma per step of the constructor, the allocator and the operations. *)

LEMMA AddTableStep == ASSUME IInv, AddTable PROVE IInv'
<1>0. /\ Unbuilt \/ HalfBuilt
      /\ ~Built
      /\ {"A", "B"} \subseteq TableNames
  BY StorageAssumption
     DEF AddTable, Constructed, Schema, IInv, Layout, Built, Unbuilt, HalfBuilt
<1>1. /\ Unbuilt => HalfBuilt'
      /\ HalfBuilt => Built'
  <2>1. Unbuilt => HalfBuilt'
    <3>1. ASSUME Unbuilt
          PROVE  /\ tables' = [block |-> 1, size |-> 1, cap |-> 1]
                 /\ names' = [names EXCEPT !["A"] = <<1, 1>>]
      <4>1. tables.size = 0 /\ tables.cap = 0 /\ tables.block = 0
        BY <3>1 DEF Unbuilt
      <4>2. Schema[0 + 1] = "A"
        BY DEF Schema
      <4> QED BY <4>1, <4>2 DEF AddTable
    <3> QED BY <1>0, <3>1 DEF Unbuilt, HalfBuilt
  <2>2. HalfBuilt => Built'
    <3>1. ASSUME HalfBuilt
          PROVE  /\ tables' = [block |-> 2, size |-> 2, cap |-> 2]
                 /\ names' = [names EXCEPT !["B"] = <<2, 2>>]
      <4>1. tables.size = 1 /\ tables.cap = 1 /\ tables.block = 1
        BY <3>1 DEF HalfBuilt
      <4>2. Schema[1 + 1] = "B"
        BY DEF Schema
      <4> QED BY <4>1, <4>2 DEF AddTable
    <3> QED BY <1>0, <3>1 DEF HalfBuilt, Built
  <2> QED BY <2>1, <2>2
<1>2. /\ \A c \in Cells : heap[c] = {}
      /\ \A t \in Threads : pc[t] = "idle"
      /\ UNCHANGED <<heap, reused, m, pc, call, keys, todo, rows, ok, crashed>>
  BY <1>0 DEF AddTable, IInv, Layout, locals
<1>3. TypeOK'
  <2>1. {<<1, 1>>, <<2, 2>>, NoCell} \subseteq Cells
    BY DEF Cells, Blocks, NoCell
  <2>2. tables' \in [block : Blocks, size : 0..2, cap : 0..2]
    BY <1>0, <1>1 DEF HalfBuilt, Built, Blocks
  <2>3. names' \in [TableNames -> Cells]
    BY <1>0, <1>1, <2>1 DEF HalfBuilt, Built
  <2> QED BY <1>2, <2>2, <2>3 DEF IInv, TypeOK
<1>4. MutexOwner'
  BY <1>2 DEF IInv, MutexOwner
<1>5. Layout'
  BY <1>0, <1>1, <1>2 DEF IInv, Layout
<1>6. UniqueIds'
  BY <1>2 DEF IInv, UniqueIds
<1>7. \A t \in Threads : Progress(t)'
  BY <1>2 DEF IInv, Progress
<1> QED BY <1>3, <1>4, <1>5, <1>6, <1>7 DEF IInv

LEMMA ReuseStep == ASSUME IInv, ReuseFreedBlock PROVE IInv'
<1>0. /\ Built /\ reused'
      /\ UNCHANGED <<tables, heap, names, m, pc, call, keys, todo, rows, ok, crashed>>
  BY DEF ReuseFreedBlock, locals, Constructed, Schema, IInv, Layout, Unbuilt, HalfBuilt
<1>1. TypeOK'
  <2>1. reused' \in BOOLEAN
    BY DEF ReuseFreedBlock
  <2> QED BY <1>0, <2>1 DEF IInv, TypeOK
<1>2. Layout'
  BY <1>0 DEF IInv, Layout, Unbuilt, HalfBuilt, Built
<1>3. MutexOwner' /\ UniqueIds'
  BY <1>0 DEF IInv, MutexOwner, UniqueIds
<1>4. \A t \in Threads : Progress(t)'
  <2>1. Data' = Data
    BY <1>0 DEF Data, Slot
  <2>2. ASSUME NEW t \in Threads PROVE Progress(t)'
    <3>1. Progress(t)
      BY DEF IInv
    <3> QED BY <1>0, <2>1, <3>1 DEF Progress, Wanted, FilledRows, FillRow
  <2> QED BY <2>2
<1> QED BY <1>1, <1>2, <1>3, <1>4 DEF IInv

\* The part of the invariant that a step leaving memory alone keeps.
LEMMA MemoryKept ==
    ASSUME IInv, Built, UNCHANGED <<tables, heap, names, reused>>
    PROVE  Layout' /\ Built' /\ UniqueIds' /\ Data' = Data
BY DEF IInv, Layout, Built, Unbuilt, HalfBuilt, UniqueIds, Data, Slot

LEMMA InvokeStep ==
    ASSUME IInv, NEW t \in Threads, NEW c \in Calls, Invoke(t, c)
    PROVE  IInv'
<1>0. Built /\ Layout' /\ UniqueIds' /\ Data' = Data
  BY MemoryKept
     DEF Invoke, Constructed, Schema, IInv, Layout, Unbuilt, HalfBuilt
<1>1. TypeOK'
  <2>1. c # NoCall
    BY DEF Calls, NoCall, SetCommands
  <2> QED BY <2>1 DEF Invoke, locals, IInv, TypeOK
<1>2. MutexOwner'
  BY DEF Invoke, IInv, TypeOK, MutexOwner, Inside
<1>3. ASSUME NEW u \in Threads PROVE Progress(u)'
  <2>1. CASE u = t
    BY <2>1 DEF Invoke, locals, IInv, TypeOK, Progress
  <2>2. CASE u # t
    BY <2>2, <1>0, OthersUndisturbed DEF Invoke, locals, IInv, TypeOK
  <2> QED BY <2>1, <2>2
<1> QED BY <1>0, <1>1, <1>2, <1>3 DEF IInv

LEMMA LockStep ==
    ASSUME IInv, NEW t \in Threads, Lock(t)
    PROVE  IInv'
<1>0. Built /\ Layout' /\ UniqueIds' /\ Data' = Data
  BY MemoryKept, InsideIsBuilt DEF Lock
<1>1. TypeOK'
  BY DEF Lock, locals, IInv, TypeOK
<1>2. MutexOwner'
  BY StorageAssumption DEF Lock, IInv, TypeOK, MutexOwner, Inside
<1>3. ASSUME NEW u \in Threads PROVE Progress(u)'
  <2>1. CASE u = t
    <3>1. keys[t] = <<>> /\ todo[t] = {} /\ rows[t] = {} /\ ok[t] = FALSE
      BY DEF Lock, IInv, Progress
    <3>2. /\ pc'[t] = "body" /\ keys'[t] = <<>> /\ todo'[t] = {}
          /\ rows'[t] = {} /\ ok'[t] = FALSE
      BY <3>1 DEF Lock, locals, IInv, TypeOK
    <3> QED BY <2>1, <3>2 DEF Progress
  <2>2. CASE u # t
    BY <2>2, <1>0, OthersUndisturbed DEF Lock, locals, IInv, TypeOK
  <2> QED BY <2>1, <2>2
<1> QED BY <1>0, <1>1, <1>2, <1>3 DEF IInv

LEMMA ExtractKeysStep ==
    ASSUME IInv, NEW t \in Threads, ExtractKeys(t)
    PROVE  IInv'
<1>0. Built /\ Layout' /\ UniqueIds' /\ Data' = Data
  BY MemoryKept, InsideIsBuilt DEF ExtractKeys
<1> DEFINE n == Len(keys[t]) + 1
           new == KeysOf(heap[Slot(n)])
<1>1. /\ n \in 1..2 /\ keys[t] \in Seq(SUBSET Ids)
      /\ heap[Slot(n)] = Data[n]
  <2>1. keys[t] \in Seq(SUBSET Ids) /\ Len(keys[t]) \in Nat
    BY DEF IInv, TypeOK
  <2>2. n \in 1..2
    BY <1>0, <2>1 DEF ExtractKeys, Built
  <2> QED BY <2>1, <2>2 DEF Data, Slots
<1>2. new \in SUBSET Ids
  BY <1>0, <1>1, DataHasUniqueIds DEF KeysOf, Record, Slots
<1>3. keys'[t] = Append(keys[t], new)
  BY DEF ExtractKeys, IInv, TypeOK
<1>4. TypeOK'
  <2>1. Append(keys[t], new) \in Seq(SUBSET Ids)
    BY <1>1, <1>2
  <2>2. keys' \in [Threads -> Seq(SUBSET Ids)]
    BY <2>1 DEF ExtractKeys, IInv, TypeOK
  <2> QED BY <2>2 DEF ExtractKeys, IInv, TypeOK
<1>5. MutexOwner'
  BY DEF ExtractKeys, IInv, TypeOK, MutexOwner
<1>6. ASSUME NEW u \in Threads PROVE Progress(u)'
  <2>1. CASE u = t
    <3>1. /\ Len(keys[t]) <= 2
          /\ \A i \in 1..Len(keys[t]) : keys[t][i] = KeysOf(Data[i])
          /\ todo[t] = {} /\ rows[t] = {} /\ ok[t] = FALSE
      BY DEF ExtractKeys, IInv, Progress
    <3>2. Len(keys'[t]) = n
      BY <1>1, <1>3
    <3>3. \A i \in 1..n : keys'[t][i] = KeysOf(Data[i])
      BY <1>1, <1>3, <3>1
    <3>4. /\ pc'[t] = "body" /\ call'[t].cmd \in SetCommands
          /\ todo'[t] = {} /\ rows'[t] = {} /\ ok'[t] = FALSE
      BY <3>1 DEF ExtractKeys
    <3>5. \A i \in 1..Len(keys'[t]) : keys'[t][i] = KeysOf(Data'[i])
      BY <1>0, <3>2, <3>3
    <3> QED BY <1>1, <2>1, <3>2, <3>4, <3>5 DEF Progress
  <2>2. CASE u # t
    BY <2>2, <1>0, OthersUndisturbed DEF ExtractKeys, IInv, TypeOK
  <2> QED BY <2>1, <2>2
<1> QED BY <1>0, <1>4, <1>5, <1>6 DEF IInv

LEMMA CombineStep ==
    ASSUME IInv, NEW t \in Threads, CombineKeyVectors(t)
    PROVE  IInv'
<1>0. Built /\ Layout' /\ UniqueIds' /\ Data' = Data
  BY MemoryKept, InsideIsBuilt DEF CombineKeyVectors
<1> DEFINE all == Wanted(call[t].cmd, Data)
<1>1. todo'[t] = all
  <2>1. Len(keys[t]) = 2
    BY <1>0 DEF CombineKeyVectors, Built
  <2>2. \A i \in 1..Len(keys[t]) : keys[t][i] = KeysOf(Data[i])
    BY DEF CombineKeyVectors, IInv, Progress
  <2>3. keys[t][1] = KeysOf(Data[1]) /\ keys[t][2] = KeysOf(Data[2])
    BY <2>1, <2>2
  <2> QED BY <2>3 DEF CombineKeyVectors, IInv, TypeOK, Wanted
<1>2. all \in SUBSET Ids
  BY <1>0, DataHasUniqueIds DEF Wanted, CombineKeys, KeysOf, Record, Slots
<1>3. TypeOK'
  <2>1. todo' \in [Threads -> SUBSET Ids]
    BY <1>1, <1>2 DEF CombineKeyVectors, IInv, TypeOK
  <2>2. /\ pc' \in [Threads -> {"idle", "wait", "body", "fill", "unlock"}]
        /\ \A u \in Threads : pc'[u] = "idle" <=> call'[u] = NoCall
    BY DEF CombineKeyVectors, IInv, TypeOK
  <2> QED BY <2>1, <2>2 DEF CombineKeyVectors, IInv, TypeOK
<1>4. MutexOwner'
  BY DEF CombineKeyVectors, IInv, TypeOK, MutexOwner, Inside
<1>5. ASSUME NEW u \in Threads PROVE Progress(u)'
  <2>1. CASE u = t
    <3>1. rows[t] = {} /\ ok[t] = FALSE
      BY DEF CombineKeyVectors, IInv, Progress
    <3>2. rows[t] = FilledRows(all \ todo'[t], Data)
      BY <1>1, <3>1 DEF FilledRows
    <3>3. /\ pc'[t] = "fill" /\ call'[t].cmd \in SetCommands
          /\ call'[t] = call[t] /\ rows'[t] = rows[t] /\ ok'[t] = FALSE
      BY <3>1 DEF CombineKeyVectors, IInv, TypeOK
    <3> QED BY <1>0, <1>1, <2>1, <3>2, <3>3 DEF Progress, Wanted, FilledRows, FillRow
  <2>2. CASE u # t
    BY <2>2, <1>0, OthersUndisturbed DEF CombineKeyVectors, IInv, TypeOK
  <2> QED BY <2>1, <2>2
<1> QED BY <1>0, <1>3, <1>4, <1>5 DEF IInv

\* An insert or truncate that returns, having left in memory tables with
\* unique ids at the two addresses the names refer to.
LEMMA ReturnStep ==
    ASSUME IInv, NEW t \in Threads, NEW value \in BOOLEAN,
           pc[t] = "body", call[t].cmd \in {"insert", "truncate"},
           Return(t, value), crashed' = crashed,
           heap' \in [Cells -> SUBSET Record], UniqueIds',
           \A c \in Cells : heap'[c] # {} => c \in {<<1, 1>>, <<2, 2>>}
    PROVE  IInv'
<1>0. Built
  BY InsideIsBuilt
<1>1. TypeOK'
  <2>1. /\ ok' \in [Threads -> BOOLEAN]
        /\ crashed' \in BOOLEAN /\ reused' \in BOOLEAN
    BY Zenon DEF Return, IInv, TypeOK
  <2>2. /\ pc' \in [Threads -> {"idle", "wait", "body", "fill", "unlock"}]
        /\ \A u \in Threads : pc'[u] = "idle" <=> call'[u] = NoCall
    BY DEF Return, IInv, TypeOK
  <2> QED BY <2>1, <2>2 DEF Return, IInv, TypeOK
<1>2. MutexOwner'
  BY DEF Return, IInv, TypeOK, MutexOwner, Inside
<1>3. Layout'
  BY <1>0 DEF Return, Layout, Unbuilt, HalfBuilt, Built
<1>4. ASSUME NEW u \in Threads PROVE Progress(u)'
  <2>1. CASE u = t
    <3>1. todo[t] = {} /\ rows[t] = {}
      BY DEF IInv, Progress
    <3>2. /\ pc'[t] = "unlock" /\ call'[t].cmd \notin SetCommands
          /\ todo'[t] = {} /\ rows'[t] = {}
      BY <3>1 DEF Return, IInv, TypeOK, SetCommands
    <3> QED BY <2>1, <3>2 DEF Progress
  <2>2. CASE u # t
    <3>1. /\ pc'[u] = pc[u] /\ call'[u] = call[u] /\ keys'[u] = keys[u]
          /\ todo'[u] = todo[u] /\ rows'[u] = rows[u]
      BY <2>2 DEF Return, IInv, TypeOK
    <3>2. ok'[u] = ok[u]
      BY <2>2, Zenon DEF Return, IInv, TypeOK
    <3> QED BY <2>2, <3>1, <3>2, OthersUndisturbed DEF Inside
  <2> QED BY <2>1, <2>2
<1> QED BY <1>1, <1>2, <1>3, <1>4 DEF IInv

\* The reference a name is bound to is one of the two addresses.
LEMMA NamesReferToTables ==
    ASSUME Built, NEW n \in TableNames, names[n] # NoCell
    PROVE  names[n] \in {<<1, 1>>, <<2, 2>>} /\ names[n] \in Cells
BY DEF Built, Cells, Blocks

LEMMA NotFoundStep ==
    ASSUME IInv, NEW t \in Threads, NotFound(t)
    PROVE  IInv'
<1>1. UniqueIds' /\ \A c \in Cells : heap'[c] # {} => c \in {<<1, 1>>, <<2, 2>>}
  BY DEF NotFound, IInv, UniqueIds, Layout
<1>2. heap' \in [Cells -> SUBSET Record]
  BY DEF NotFound, IInv, TypeOK
<1> QED BY <1>1, <1>2, ReturnStep DEF NotFound

\* An insert names a table and carries a record, a truncate names a table.
LEMMA CallShapes ==
    ASSUME IInv, NEW t \in Threads
    PROVE  /\ call[t].cmd = "insert" =>
                call[t].table \in TableNames /\ call[t].rec \in Record
           /\ call[t].cmd = "truncate" => call[t].table \in TableNames
<1>1. call[t] \in Calls \/ call[t] = NoCall
  BY DEF IInv, TypeOK
<1> QED BY <1>1 DEF Calls, NoCall, SetCommands

LEMMA InsertStep ==
    ASSUME IInv, NEW t \in Threads, Insert(t)
    PROVE  IInv'
<1> DEFINE cell == names[call[t].table]
           rec == call[t].rec
           value == ~HasKey(heap[cell], rec.id)
<1>1. /\ rec \in Record /\ cell \in {<<1, 1>>, <<2, 2>>} /\ cell \in Cells
  BY CallShapes, InsideIsBuilt, NamesReferToTables DEF Insert, Usable
<1>2. heap' = [heap EXCEPT ![cell] = Emplace(@, rec)]
  BY DEF Insert
<1>3. Emplace(heap[cell], rec) \in SUBSET Record /\ UniqueKeys(Emplace(heap[cell], rec))
  <2>1. heap[cell] \in SUBSET Record /\ UniqueKeys(heap[cell])
    BY <1>1 DEF IInv, TypeOK, UniqueIds
  <2> QED BY <1>1, <2>1, EmplaceKeepsKeys DEF Emplace
<1>4. heap' \in [Cells -> SUBSET Record]
  BY <1>2, <1>3 DEF IInv, TypeOK
<1>5. UniqueIds'
  BY <1>1, <1>2, <1>3 DEF IInv, TypeOK, UniqueIds
<1>6. \A c \in Cells : heap'[c] # {} => c \in {<<1, 1>>, <<2, 2>>}
  BY <1>1, <1>2 DEF IInv, TypeOK, Layout
<1>7. value \in BOOLEAN
  OBVIOUS
<1>8. /\ pc[t] = "body" /\ call[t].cmd \in {"insert", "truncate"}
      /\ Return(t, value) /\ crashed' = crashed
  BY Zenon DEF Insert
<1> HIDE DEF value
<1> QED BY <1>4, <1>5, <1>6, <1>7, <1>8, ReturnStep

LEMMA TruncateStep ==
    ASSUME IInv, NEW t \in Threads, Truncate(t)
    PROVE  IInv'
<1> DEFINE cell == names[call[t].table]
<1>1. cell \in {<<1, 1>>, <<2, 2>>} /\ cell \in Cells
  BY CallShapes, InsideIsBuilt, NamesReferToTables DEF Truncate, Usable
<1>2. heap' = [heap EXCEPT ![cell] = {}]
  BY DEF Truncate
<1>3. heap' \in [Cells -> SUBSET Record]
  BY <1>1, <1>2 DEF IInv, TypeOK
<1>4. UniqueIds'
  BY <1>1, <1>2 DEF IInv, TypeOK, UniqueIds, UniqueKeys
<1>5. \A c \in Cells : heap'[c] # {} => c \in {<<1, 1>>, <<2, 2>>}
  BY <1>1, <1>2 DEF IInv, TypeOK, Layout
<1> QED BY <1>3, <1>4, <1>5, ReturnStep DEF Truncate

LEMMA WildStep ==
    ASSUME IInv, NEW t \in Threads, Wild(t)
    PROVE  IInv'
<1>1. CASE /\ \E value \in BOOLEAN : Return(t, value)
           /\ UNCHANGED <<heap, crashed>>
  <2>1. PICK value \in BOOLEAN : Return(t, value)
    BY <1>1
  <2>2. UniqueIds' /\ \A c \in Cells : heap'[c] # {} => c \in {<<1, 1>>, <<2, 2>>}
    BY <1>1 DEF IInv, UniqueIds, Layout
  <2>3. heap' \in [Cells -> SUBSET Record]
    BY <1>1 DEF IInv, TypeOK
  <2> QED BY <1>1, <2>1, <2>2, <2>3, ReturnStep DEF Wild
<1>2. CASE /\ crashed' = TRUE
           /\ UNCHANGED <<tables, heap, names, reused, m, pc, call, locals>>
  <2>0. Built /\ Layout' /\ UniqueIds' /\ Data' = Data
    BY <1>2, MemoryKept, InsideIsBuilt DEF Wild
  <2>1. TypeOK'
    BY <1>2 DEF locals, IInv, TypeOK
  <2>2. MutexOwner'
    BY <1>2 DEF IInv, MutexOwner
  <2>3. ASSUME NEW u \in Threads PROVE Progress(u)'
    <3>1. Progress(u)
      BY DEF IInv
    <3> QED BY <1>2, <2>0, <3>1 DEF locals, Progress, Wanted, FilledRows, FillRow
  <2> QED BY <2>0, <2>1, <2>2, <2>3 DEF IInv
<1> QED BY <1>1, <1>2 DEF Wild

LEMMA FillResultStep ==
    ASSUME IInv, NEW t \in Threads, FillResult(t)
    PROVE  IInv'
<1>0. Built /\ Layout' /\ UniqueIds' /\ Data' = Data
  BY MemoryKept, InsideIsBuilt DEF FillResult
<1> DEFINE all == Wanted(call[t].cmd, Data)
<1>1. PICK key \in todo[t] :
        /\ rows' = [rows EXCEPT ![t] = Emplace(@, FillRow(key, Data))]
        /\ todo' = [todo EXCEPT ![t] = @ \ {key}]
  BY DEF FillResult
<1>2. /\ todo[t] \subseteq all /\ key \in all /\ key \in Ids
      /\ rows[t] = FilledRows(all \ todo[t], Data)
  BY DEF FillResult, IInv, TypeOK, Progress
<1>3. \A k \in all : FillRow(k, Data).id = k
  BY RowOfWantedKey
<1>4. rows'[t] = FilledRows(all \ todo'[t], Data)
  <2>1. ~HasKey(rows[t], FillRow(key, Data).id)
    BY <1>2, <1>3 DEF HasKey, FilledRows
  <2>2. rows'[t] = rows[t] \cup {FillRow(key, Data)}
    BY <1>1, <2>1 DEF IInv, TypeOK, Emplace
  <2>3. all \ todo'[t] = (all \ todo[t]) \cup {key}
    BY <1>1, <1>2 DEF IInv, TypeOK
  <2> QED BY <1>2, <2>2, <2>3 DEF FilledRows
<1>5. FillRow(key, Data) \in Row
  <2>1. \A i \in Slots : FindName(Data[i], key) \in Names \cup {Blank}
    <3>1. ASSUME NEW i \in Slots PROVE FindName(Data[i], key) \in Names \cup {Blank}
      <4>1. Data[i] \in SUBSET Record
        BY <1>0, DataHasUniqueIds
      <4>2. ASSUME HasKey(Data[i], key)
            PROVE  (CHOOSE r \in Data[i] : r.id = key).name \in Names
        BY <4>1, <4>2 DEF HasKey, Record
      <4> QED BY <4>2 DEF FindName
    <3> QED BY <3>1
  <2> QED BY <1>2, <2>1 DEF FillRow, Row
<1>6. TypeOK'
  <2>1. rows' \in [Threads -> SUBSET Row]
    BY <1>1, <1>5 DEF IInv, TypeOK, Emplace
  <2>2. todo' \in [Threads -> SUBSET Ids]
    BY <1>1 DEF IInv, TypeOK
  <2> QED BY <2>1, <2>2 DEF FillResult, IInv, TypeOK
<1>7. MutexOwner'
  BY DEF FillResult, IInv, MutexOwner
<1>8. ASSUME NEW u \in Threads PROVE Progress(u)'
  <2>1. CASE u = t
    <3>1. /\ pc'[t] = "fill" /\ call'[t].cmd \in SetCommands
          /\ call'[t] = call[t] /\ ok'[t] = FALSE
      BY DEF FillResult, IInv, Progress
    <3>2. todo'[t] \subseteq all
      BY <1>1, <1>2 DEF IInv, TypeOK
    <3> QED BY <1>0, <1>4, <2>1, <3>1, <3>2 DEF Progress, Wanted, FilledRows, FillRow
  <2>2. CASE u # t
    BY <1>1, <2>2, <1>0, OthersUndisturbed DEF FillResult, IInv, TypeOK
  <2> QED BY <2>1, <2>2
<1> QED BY <1>0, <1>6, <1>7, <1>8 DEF IInv

LEMMA FilledStep ==
    ASSUME IInv, NEW t \in Threads, Filled(t)
    PROVE  IInv'
<1>0. Built /\ Layout' /\ UniqueIds' /\ Data' = Data
  BY MemoryKept, InsideIsBuilt DEF Filled, Return
<1> DEFINE all == Wanted(call[t].cmd, Data)
<1>1. ok' = ok
  <2>1. ok' = [ok EXCEPT ![t] = ok[t]]
    BY DEF Filled, Return
  <2> QED BY <2>1, Zenon DEF IInv, TypeOK
<1>2. TypeOK'
  <2>1. /\ pc' \in [Threads -> {"idle", "wait", "body", "fill", "unlock"}]
        /\ \A u \in Threads : pc'[u] = "idle" <=> call'[u] = NoCall
    BY DEF Filled, Return, IInv, TypeOK
  <2> QED BY <1>1, <2>1 DEF Filled, Return, IInv, TypeOK
<1>3. MutexOwner'
  BY DEF Filled, Return, IInv, TypeOK, MutexOwner, Inside
<1>4. ASSUME NEW u \in Threads PROVE Progress(u)'
  <2>1. CASE u = t
    <3>1. /\ todo[t] = {} /\ call[t].cmd \in SetCommands /\ ok[t] = FALSE
          /\ rows[t] = FilledRows(all \ todo[t], Data)
      BY DEF Filled, IInv, Progress
    <3>2. rows[t] = FilledRows(all, Data)
      BY <3>1 DEF FilledRows
    <3>3. /\ pc'[t] = "unlock" /\ call'[t] = call[t]
          /\ todo'[t] = {} /\ rows'[t] = rows[t] /\ ok'[t] = FALSE
      BY <1>1, <3>1 DEF Filled, Return, IInv, TypeOK
    <3> QED BY <1>0, <2>1, <3>1, <3>2, <3>3 DEF Progress, Wanted, FilledRows, FillRow
  <2>2. CASE u # t
    BY <1>1, <2>2, <1>0, OthersUndisturbed DEF Filled, Return, IInv, TypeOK
  <2> QED BY <2>1, <2>2
<1> QED BY <1>0, <1>2, <1>3, <1>4 DEF IInv

LEMMA UnlockStep ==
    ASSUME IInv, NEW t \in Threads, Unlock(t)
    PROVE  IInv'
<1>0. Built /\ Layout' /\ UniqueIds' /\ Data' = Data
  BY MemoryKept, InsideIsBuilt DEF Unlock
<1>1. TypeOK'
  <2>1. keys' \in [Threads -> Seq(SUBSET Ids)] /\ rows' \in [Threads -> SUBSET Row]
    BY DEF Unlock, IInv, TypeOK
  <2>2. ok' \in [Threads -> BOOLEAN]
    BY Zenon DEF Unlock, IInv, TypeOK
  <2>3. /\ pc' \in [Threads -> {"idle", "wait", "body", "fill", "unlock"}]
        /\ call' \in [Threads -> Calls \cup {NoCall}]
        /\ \A u \in Threads : pc'[u] = "idle" <=> call'[u] = NoCall
    BY DEF Unlock, IInv, TypeOK
  <2> QED BY <2>1, <2>2, <2>3 DEF Unlock, IInv, TypeOK
<1>2. MutexOwner'
  BY StorageAssumption DEF Unlock, IInv, TypeOK, MutexOwner, Inside
<1>3. ASSUME NEW u \in Threads PROVE Progress(u)'
  <2>1. CASE u = t
    <3>1. todo[t] = {}
      BY DEF Unlock, IInv, Progress
    <3>2. /\ pc'[t] = "idle" /\ keys'[t] = <<>> /\ todo'[t] = {}
          /\ rows'[t] = {} /\ ok'[t] = FALSE
      BY <3>1 DEF Unlock, IInv, TypeOK
    <3> QED BY <2>1, <3>2 DEF Progress
  <2>2. CASE u # t
    <3>1. /\ pc'[u] = pc[u] /\ call'[u] = call[u] /\ keys'[u] = keys[u]
          /\ todo'[u] = todo[u] /\ rows'[u] = rows[u]
      BY <2>2 DEF Unlock, IInv, TypeOK
    <3>2. ok'[u] = ok[u]
      BY <2>2, Zenon DEF Unlock, IInv, TypeOK
    <3> QED BY <1>0, <2>2, <3>1, <3>2, OthersUndisturbed
  <2> QED BY <2>1, <2>2
<1> QED BY <1>0, <1>1, <1>2, <1>3 DEF IInv

-----------------------------------------------------------------------------
(* The theorems.                                                           *)

LEMMA NextPreserves == ASSUME IInv, [Next]_vars PROVE IInv'
<1>1. CASE AddTable
  BY <1>1, AddTableStep
<1>2. CASE ReuseFreedBlock
  BY <1>2, ReuseStep
<1>3. ASSUME NEW t \in Threads, NEW c \in Calls, Invoke(t, c) PROVE IInv'
  BY <1>3, InvokeStep
<1>4. ASSUME NEW t \in Threads, Lock(t) PROVE IInv'
  BY <1>4, LockStep
<1>5. ASSUME NEW t \in Threads, Run(t) PROVE IInv'
  BY <1>5, NotFoundStep, InsertStep, TruncateStep, WildStep, ExtractKeysStep,
     CombineStep, FillResultStep, FilledStep, UnlockStep DEF Run
<1>6. CASE UNCHANGED vars
  <2>0. UNCHANGED <<tables, heap, names, reused, m, pc, call, keys, todo, rows,
                    ok, crashed>>
    BY <1>6 DEF vars, locals
  <2>1. TypeOK'
    BY <2>0 DEF IInv, TypeOK
  <2>2. MutexOwner' /\ UniqueIds'
    BY <2>0 DEF IInv, MutexOwner, UniqueIds
  <2>3. Layout'
    BY <2>0 DEF IInv, Layout, Unbuilt, HalfBuilt, Built
  <2>4. Data' = Data
    BY <2>0 DEF Data, Slot
  <2>5. ASSUME NEW t \in Threads PROVE Progress(t)'
    <3>1. Progress(t)
      BY DEF IInv
    <3> QED BY <2>0, <2>4, <3>1 DEF Progress, Wanted, FilledRows, FillRow
  <2> QED BY <2>1, <2>2, <2>3, <2>5 DEF IInv
<1> QED BY <1>1, <1>2, <1>3, <1>4, <1>5, <1>6 DEF Next

\* The strengthening the other theorems rest on: in every reachable state the
\* thread inside an operation is alone and its partial result is up to date.
THEOREM Inductive == Spec => []IInv
<1>1. Init => IInv
  BY InitEstablishes
<1>2. IInv /\ [Next]_vars => IInv'
  BY NextPreserves
<1> QED BY <1>1, <1>2, PTL DEF Spec

\* Every variable of the storage has its type.
THEOREM TypeCorrect == Spec => []TypeOK
<1>1. IInv => TypeOK
  BY DEF IInv
<1> QED BY <1>1, Inductive, PTL

\* A set operation returns the rows that follow from the two tables of the
\* vector at the moment it returns, however many threads call the storage.
THEOREM SnapshotAnswers == Spec => []AnswerIsSnapshot
<1>1. IInv => AnswerIsSnapshot
  <2>1. ASSUME IInv, NEW t \in Threads, pc[t] = "unlock", call[t].cmd \in SetCommands
        PROVE  rows[t] = Answer(call[t].cmd, Data)
    <3>1. rows[t] = FilledRows(Wanted(call[t].cmd, Data), Data)
      BY <2>1 DEF IInv, Progress
    <3>2. UniqueKeys(Data[1]) /\ UniqueKeys(Data[2])
      BY <2>1, InsideIsBuilt, DataHasUniqueIds
    <3> QED BY <2>1, <3>1, <3>2, FilledRowsAreTheAnswer DEF SetCommands
  <2> QED BY <2>1 DEF AnswerIsSnapshot
<1> QED BY <1>1, Inductive, PTL

\* No two rows of a table, nor of a result, ever share an id.
THEOREM PrimaryKeys == Spec => []PrimaryKey
<1>1. IInv => PrimaryKey
  <2>1. ASSUME IInv PROVE \A c \in Cells : UniqueKeys(heap[c])
    BY <2>1 DEF IInv, UniqueIds
  <2>2. ASSUME IInv, NEW t \in Threads PROVE UniqueKeys(rows[t])
    <3> DEFINE all == Wanted(call[t].cmd, Data)
    <3>1. rows[t] = {} \/ \E ks \in SUBSET all : rows[t] = FilledRows(ks, Data)
      <4>1. CASE pc[t] \in {"idle", "wait", "body"}
        BY <2>2, <4>1 DEF IInv, Progress
      <4>2. CASE pc[t] = "fill"
        BY <2>2, <4>2 DEF IInv, Progress
      <4>3. CASE pc[t] = "unlock"
        BY <2>2, <4>3 DEF IInv, Progress
      <4> QED BY <2>2, <4>1, <4>2, <4>3 DEF IInv, TypeOK
    <3>2. \A k \in all : FillRow(k, Data).id = k
      BY RowOfWantedKey
    <3> QED BY <3>1, <3>2 DEF UniqueKeys, FilledRows
  <2> QED BY <2>1, <2>2 DEF PrimaryKey
<1> QED BY <1>1, Inductive, PTL

\* No INSERT ever reaches the first table: an intersection is always empty
\* and a symmetric difference is always the whole of table B.
THEOREM FirstTableLost == Spec => []TableAUnreachable
<1>1. IInv => TableAUnreachable
  <2> SUFFICES ASSUME IInv PROVE TableAUnreachable
    OBVIOUS
  <2>1. heap[Slot(1)] = {}
    <3>1. Slot(1) \in Cells /\ (Built => Slot(1) = <<2, 1>>)
      BY DEF IInv, TypeOK, Slot, Cells, Built
    <3>2. CASE Built
      <4>1. Slot(1) \notin {<<1, 1>>, <<2, 2>>}
        BY <3>1, <3>2
      <4> QED BY <3>1, <4>1 DEF IInv, Layout
    <3>3. CASE ~Built
      BY <3>1, <3>3 DEF IInv, Layout
    <3> QED BY <3>2, <3>3
  <2>2. ASSUME NEW t \in Threads, pc[t] = "unlock"
        PROVE  /\ call[t].cmd = "intersection" => rows[t] = {}
               /\ call[t].cmd = "symmetric_difference" =>
                    KeysOf(rows[t]) = KeysOf(heap[Slot(2)])
    <3> DEFINE all == Wanted(call[t].cmd, Data)
    <3>1. Data[1] = {} /\ Data[2] = heap[Slot(2)]
      BY <2>1 DEF Data, Slots
    <3>2. KeysOf(Data[1]) = {}
      BY <3>1 DEF KeysOf
    <3>3. \A k \in all : FillRow(k, Data).id = k
      BY RowOfWantedKey
    <3>4. call[t].cmd \in SetCommands => rows[t] = FilledRows(all, Data)
      BY <2>2 DEF IInv, Progress
    <3>5. CASE call[t].cmd = "intersection"
      <4>1. all = {}
        BY <3>2, <3>5 DEF Wanted, CombineKeys
      <4> QED BY <3>4, <3>5, <4>1 DEF SetCommands, FilledRows
    <3>6. CASE call[t].cmd = "symmetric_difference"
      <4>1. all = KeysOf(heap[Slot(2)])
        BY <3>1, <3>2, <3>6 DEF Wanted, CombineKeys
      <4> QED BY <3>3, <3>4, <3>6, <4>1 DEF SetCommands, FilledRows, KeysOf
    <3> QED BY <3>5, <3>6
  <2> QED BY <2>1, <2>2 DEF TableAUnreachable
<1> QED BY <1>1, Inductive, PTL

\* A step that is not a truncate inside the mutex keeps every row of memory.
LEMMA StepKeepsRows ==
    ASSUME IInv, [Next]_vars, NEW c \in Cells
    PROVE  \/ heap[c] \subseteq heap'[c]
           \/ \E t \in Threads :
                m = t /\ call[t].cmd = "truncate" /\ names[call[t].table] = c
<1>1. ASSUME NEW t \in Threads, Insert(t) PROVE heap[c] \subseteq heap'[c]
  BY <1>1 DEF Insert, Emplace, IInv, TypeOK
<1>2. ASSUME NEW t \in Threads, Truncate(t), names[call[t].table] # c
      PROVE  heap'[c] = heap[c]
  BY <1>2 DEF Truncate, IInv, TypeOK
<1>3. ASSUME NEW t \in Threads, Truncate(t)
      PROVE  m = t /\ call[t].cmd = "truncate"
  BY <1>3 DEF Truncate, IInv, MutexOwner, Inside
<1>4. ASSUME NEW t \in Threads,
             \/ NotFound(t) \/ Wild(t) \/ ExtractKeys(t) \/ CombineKeyVectors(t)
             \/ FillResult(t) \/ Filled(t) \/ Unlock(t) \/ Lock(t)
             \/ \E call2 \in Calls : Invoke(t, call2)
      PROVE  heap' = heap
  BY <1>4 DEF NotFound, Wild, ExtractKeys, CombineKeyVectors, FillResult, Filled,
              Unlock, Lock, Invoke
<1>5. CASE AddTable \/ ReuseFreedBlock \/ UNCHANGED vars
  BY <1>5 DEF AddTable, ReuseFreedBlock, vars
<1> QED BY <1>1, <1>2, <1>3, <1>4, <1>5 DEF Next, Run

\* A row leaves memory only by a TRUNCATE of its own table, under the mutex:
\* no INSERT, refused or not, replaces a row that is there.
THEOREM OnlyTruncateRemoves == Spec => RowsOnlyTruncated
<1>1. IInv /\ [Next]_vars => KeepsOrTruncates
  BY StepKeepsRows DEF KeepsOrTruncates
<1> QED BY <1>1, Inductive, PTL DEF Spec, RowsOnlyTruncated

-----------------------------------------------------------------------------
(* Storage implements AtomicStore: every step of a thread is a step of the *)
(* abstract store or leaves it alone.                                      *)

\* The reply the mapping shows for thread t.
Shown(t) == [done |-> pc[t] = "unlock",
             ok   |-> ok[t],
             rows |-> IF pc[t] = "unlock" THEN rows[t] ELSE {}]

Replies == [t \in Threads |-> Shown(t)]

\* The helpers of the instance are those of the storage.
LEMMA SameHelpers ==
    ASSUME NEW data, NEW rec, NEW cmd, NEW slots
    PROVE  /\ Store!Emplace(data, rec) = Emplace(data, rec)
           /\ Store!HasKey(data, rec.id) = HasKey(data, rec.id)
           /\ Store!Answer(cmd, slots) = Answer(cmd, slots)
           /\ Store!Slots = Slots
           /\ Store!Requests = Calls
           /\ Store!Idle = NoCall
           /\ Store!SetOperations = SetCommands
BY DEF Store!Emplace, Emplace, Store!HasKey, HasKey, Store!Answer, Answer,
       Store!Joined, Joined, Store!Disjoined, Disjoined, Store!Unmatched, Unmatched,
       Store!Fields, Fields, Store!Slots, Slots, Store!Requests, Calls,
       Store!Record, Record, Store!SetOperations, SetCommands, Store!Idle, NoCall

-----------------------------------------------------------------------------
LEMMA InitRefines == ASSUME Init PROVE Store!Init
<1>1. Data = [i \in Slots |-> {}]
  <2>1. \A i \in Slots : Slot(i) \in Cells
    BY DEF Init, Slot, Slots, Cells, Blocks
  <2> QED BY <2>1 DEF Init, Data
<1>2. Replies = [t \in Threads |-> Store!Pending]
  BY DEF Init, Replies, Shown, Store!Pending
<1> QED BY <1>1, <1>2 DEF Init, Store!Init, Replies, Shown, Store!Slots, Slots,
                           Store!Idle, NoCall

\* One thread reaching its return changes its shown reply alone.
LEMMA ReturnShows ==
    ASSUME IInv, NEW t \in Threads, NEW value \in BOOLEAN, Return(t, value),
           pc[t] \in {"body", "fill"}
    PROVE  Replies' = [Replies EXCEPT ![t] = Store!Done(value, rows[t])]
<1>1. /\ pc' = [pc EXCEPT ![t] = "unlock"] /\ rows' = rows
      /\ ok' = [ok EXCEPT ![t] = value]
  BY DEF Return
<1>2. Shown(t)' = Store!Done(value, rows[t])
  BY <1>1 DEF Shown, Store!Done, IInv, TypeOK
<1>3. \A u \in Threads : u # t => Shown(u)' = Shown(u)
  BY <1>1 DEF Shown, IInv, TypeOK
<1> QED BY <1>2, <1>3 DEF Replies

\* A step that changes no shown reply, no table and no request is a stutter.
LEMMA StutterRefines ==
    ASSUME Data' = Data, call' = call, Replies' = Replies, crashed' = crashed
    PROVE  UNCHANGED Store!store
BY DEF Store!store, Replies, Shown

\* Where the two names lead, and which element of memory is a table.
LEMMA NamesLead ==
    ASSUME Built, NEW n \in TableNames
    PROVE  /\ n = "A" => names[n] = <<1, 1>>
           /\ n = "B" => names[n] = <<2, 2>>
           /\ n \notin {"A", "B"} => names[n] = NoCell
           /\ tables.block = 2
BY DEF Built

\* A write to the address of B changes the second table alone.
LEMMA WriteToB ==
    ASSUME IInv, Built, Built', NEW new, heap' = [heap EXCEPT ![<<2, 2>>] = new]
    PROVE  Data' = [Data EXCEPT ![2] = new]
<1>1. \A i \in Slots : <<2, i>> \in Cells
  BY DEF Slots, Cells, Blocks
<1>2. /\ Data = [i \in Slots |-> heap[<<2, i>>]]
      /\ Data' = [i \in Slots |-> heap'[<<2, i>>]]
  BY TablesInBlockTwo DEF Built, Data, Slot
<1>3. heap'[<<2, 1>>] = heap[<<2, 1>>] /\ heap'[<<2, 2>>] = new
  BY <1>1 DEF IInv, TypeOK, Slots
<1>4. Slots = {1, 2}
  BY DEF Slots
<1> QED BY <1>2, <1>3, <1>4

LEMMA AddTableRefines == ASSUME IInv, AddTable PROVE UNCHANGED Store!store
<1>1. ~Built
  BY DEF AddTable, Constructed, Schema, Built
<1>2. \A c \in Cells : heap[c] = {} /\ heap'[c] = {}
  BY <1>1 DEF IInv, Layout, AddTable
<1>3. IInv'
  BY AddTableStep
<1>4. \A i \in Slots : Slot(i) \in Cells /\ Slot(i)' \in Cells
  BY <1>3 DEF IInv, TypeOK, Slot, Slots, Cells
<1>5. Data' = Data
  BY <1>2, <1>4 DEF Data
<1>6. call' = call /\ crashed' = crashed /\ Replies' = Replies
  BY DEF AddTable, locals, Replies, Shown
<1> QED BY <1>5, <1>6, StutterRefines

LEMMA InvokeRefines ==
    ASSUME IInv, NEW t \in Threads, NEW c \in Calls, Invoke(t, c)
    PROVE  Store!Ask(t, c)
<1>1. Data' = Data /\ crashed' = crashed
  BY DEF Invoke, Data, Slot
<1>2. call[t] = NoCall /\ call' = [call EXCEPT ![t] = c]
  BY DEF Invoke, IInv, TypeOK
<1>3. Replies' = Replies
  BY DEF Invoke, locals, IInv, TypeOK, Replies, Shown
<1> QED BY <1>1, <1>2, <1>3 DEF Store!Ask, Store!Idle, NoCall, Replies, Shown

LEMMA HiddenStepRefines ==
    ASSUME IInv, NEW t \in Threads,
           \/ Lock(t) \/ ExtractKeys(t) \/ CombineKeyVectors(t) \/ FillResult(t)
    PROVE  UNCHANGED Store!store
<1>1. Data' = Data /\ crashed' = crashed /\ call' = call
  BY DEF Lock, ExtractKeys, CombineKeyVectors, FillResult, Data, Slot
<1>2. Replies' = Replies
  <2>1. /\ ok' = ok /\ pc[t] # "unlock" /\ pc'[t] # "unlock"
        /\ \A u \in Threads : u # t => pc'[u] = pc[u] /\ rows'[u] = rows[u]
    BY DEF Lock, ExtractKeys, CombineKeyVectors, FillResult, locals, IInv, TypeOK
  <2>2. \A u \in Threads : Shown(u)' = Shown(u)
    BY <2>1 DEF Shown
  <2> QED BY <2>2 DEF Replies
<1> QED BY <1>1, <1>2, StutterRefines

LEMMA NotFoundRefines ==
    ASSUME IInv, NEW t \in Threads, NotFound(t)
    PROVE  Store!Refuse(t)
<1>1. /\ call[t].table \in TableNames /\ Built
  BY CallShapes, InsideIsBuilt DEF NotFound
<1>2. call[t].table \notin {"A", "B"}
  BY <1>1, NamesLead DEF NotFound, NoCell
<1>3. rows[t] = {}
  BY DEF NotFound, IInv, Progress
<1>4. Replies' = [Replies EXCEPT ![t] = Store!Done(FALSE, {})]
  BY <1>3, ReturnShows DEF NotFound
<1>5. Data' = Data /\ crashed' = crashed /\ call' = call
  BY DEF NotFound, Return, Data, Slot
<1> QED BY <1>2, <1>4, <1>5
        DEF NotFound, Store!Refuse, Store!Open, Store!Reply, Replies, Shown

LEMMA InsertRefines ==
    ASSUME IInv, NEW t \in Threads, Insert(t)
    PROVE  Store!Add(t) \/ Store!Lose(t)
<1> DEFINE n == call[t].table
           rec == call[t].rec
           cell == names[n]
           value == ~HasKey(heap[cell], rec.id)
<1>0. /\ n \in TableNames /\ Built /\ Built' /\ IInv'
      /\ heap' = [heap EXCEPT ![cell] = Emplace(@, rec)]
  BY CallShapes, InsideIsBuilt, InsertStep
     DEF Insert, Return, Built
<1>1. n \in {"A", "B"}
  BY <1>0, NamesLead DEF Insert, Usable, NoCell
<1>2. rows[t] = {}
  BY DEF Insert, IInv, Progress
<1>3. value \in BOOLEAN /\ Return(t, value)
  BY Zenon DEF Insert
<1>4. Replies' = [Replies EXCEPT ![t] = Store!Done(value, {})]
  <2> HIDE DEF value
  <2> QED BY <1>2, <1>3, ReturnShows DEF Insert
<1>5. crashed' = crashed /\ call' = call
  BY DEF Insert, Return
<1>6. \A i \in Slots : <<2, i>> \in Cells
  BY DEF Slots, Cells, Blocks
<1>7. /\ Data = [i \in Slots |-> heap[<<2, i>>]]
      /\ Data' = [i \in Slots |-> heap'[<<2, i>>]]
  BY <1>0, TablesInBlockTwo DEF Built, Data, Slot
<1>8. Replies[t].done = FALSE /\ call[t].cmd = "insert"
  BY DEF Insert, Replies, Shown
<1>9. CASE n = "A"
  <2>1. cell = <<1, 1>>
    BY <1>0, <1>9, NamesLead
  <2>2. Data' = Data
    BY <1>0, <1>6, <1>7, <2>1 DEF IInv, TypeOK
  <2>3. Store!Reply(t, value, {})
    BY <1>4, <1>5 DEF Store!Reply, Replies, Shown
  <2>4. Store!Lose(t)
    <3> HIDE DEF value
    <3> QED BY <1>3, <1>8, <1>9, <2>2, <2>3
            DEF Store!Lose, Store!Open, Replies, Shown
  <2> QED BY <2>4
<1>10. CASE n = "B"
  <2>1. cell = <<2, 2>> /\ Data[2] = heap[cell]
    BY <1>0, <1>7, <1>10, NamesLead DEF Slots
  <2>2. Data' = [Data EXCEPT ![2] = Store!Emplace(@, rec)]
    <3>1. heap' = [heap EXCEPT ![<<2, 2>>] = Emplace(Data[2], rec)]
      BY <1>0, <2>1
    <3>2. Data' = [Data EXCEPT ![2] = Emplace(Data[2], rec)]
      BY <1>0, <3>1, WriteToB
    <3>3. Store!Emplace(Data[2], rec) = Emplace(Data[2], rec)
      BY SameHelpers
    <3> QED BY <3>2, <3>3
  <2>3. value = ~Store!HasKey(Data[2], rec.id)
    BY <2>1, SameHelpers
  <2>4. Store!Reply(t, ~Store!HasKey(Data[2], rec.id), {})
    BY <1>4, <1>5, <2>3 DEF Store!Reply, Replies, Shown
  <2> QED BY <1>8, <1>10, <2>2, <2>4
          DEF Store!Add, Store!Open, Store!Bound, Replies, Shown
<1> QED BY <1>1, <1>9, <1>10

LEMMA TruncateRefines ==
    ASSUME IInv, NEW t \in Threads, Truncate(t)
    PROVE  Store!Clear(t) \/ Store!Lose(t)
<1> DEFINE n == call[t].table
           cell == names[n]
<1>0. /\ n \in TableNames /\ Built /\ Built'
      /\ heap' = [heap EXCEPT ![cell] = {}]
  BY CallShapes, InsideIsBuilt DEF Truncate, Return, Built
<1>1. n \in {"A", "B"}
  BY <1>0, NamesLead DEF Truncate, Usable, NoCell
<1>2. rows[t] = {}
  BY DEF Truncate, IInv, Progress
<1>3. Replies' = [Replies EXCEPT ![t] = Store!Done(TRUE, {})]
  BY <1>2, ReturnShows DEF Truncate
<1>4. Store!Reply(t, TRUE, {})
  BY <1>3 DEF Truncate, Return, Store!Reply, Replies, Shown
<1>5. \A i \in Slots : <<2, i>> \in Cells
  BY DEF Slots, Cells, Blocks
<1>6. /\ Data = [i \in Slots |-> heap[<<2, i>>]]
      /\ Data' = [i \in Slots |-> heap'[<<2, i>>]]
  BY <1>0, TablesInBlockTwo DEF Built, Data, Slot
<1>7. CASE n = "A"
  <2>1. cell = <<1, 1>>
    BY <1>0, <1>7, NamesLead
  <2>2. Data' = Data
    BY <1>0, <1>5, <1>6, <2>1 DEF IInv, TypeOK
  <2> QED BY <1>4, <1>7, <2>2
          DEF Truncate, Store!Lose, Store!Open, Replies, Shown
<1>8. CASE n = "B"
  <2>1. cell = <<2, 2>>
    BY <1>0, <1>8, NamesLead
  <2>2. Data' = [Data EXCEPT ![2] = {}]
    BY <1>0, <2>1, WriteToB
  <2> QED BY <1>4, <1>8, <2>2
          DEF Truncate, Store!Clear, Store!Open, Store!Bound, Replies, Shown
<1> QED BY <1>1, <1>7, <1>8

LEMMA WildRefines ==
    ASSUME IInv, NEW t \in Threads, Wild(t)
    PROVE  Store!Lose(t)
<1>1. call[t].table \in TableNames /\ Built
  BY CallShapes, InsideIsBuilt DEF Wild
<1>2. call[t].table = "A"
  BY <1>1, NamesLead DEF Wild, Dangling
<1>3. Store!Open(t, {"insert", "truncate"})
  BY DEF Wild, Store!Open, Replies, Shown
<1>4. Data' = Data
  BY DEF Wild, Return, Data, Slot
<1>5. CASE crashed' = TRUE
           /\ UNCHANGED <<tables, heap, names, reused, m, pc, call, locals>>
  <2>1. Replies' = Replies /\ call' = call
    BY <1>5 DEF locals, Replies, Shown
  <2> QED BY <1>2, <1>3, <1>4, <1>5, <2>1 DEF Store!Lose, Replies, Shown
<1>6. CASE (\E value \in BOOLEAN : Return(t, value)) /\ UNCHANGED <<heap, crashed>>
  <2>1. PICK value \in BOOLEAN : Return(t, value)
    BY <1>6
  <2>2. rows[t] = {}
    BY DEF Wild, IInv, Progress
  <2>3. Replies' = [Replies EXCEPT ![t] = Store!Done(value, {})]
    BY <2>1, <2>2, ReturnShows DEF Wild
  <2>4. Store!Reply(t, value, {})
    BY <1>6, <2>1, <2>3 DEF Return, Store!Reply, Replies, Shown
  <2> QED BY <1>2, <1>3, <1>4, <2>4 DEF Store!Lose
<1> QED BY <1>5, <1>6 DEF Wild

LEMMA FilledRefines ==
    ASSUME IInv, NEW t \in Threads, Filled(t)
    PROVE  Store!Query(t)
<1>1. Built
  BY InsideIsBuilt DEF Filled
<1>2. ok[t] = FALSE /\ call[t].cmd \in SetCommands
  BY DEF Filled, IInv, Progress
<1>3. rows[t] = Answer(call[t].cmd, Data)
  <2>1. rows[t] = FilledRows(Wanted(call[t].cmd, Data), Data)
    BY DEF Filled, IInv, Progress, FilledRows
  <2> QED BY <1>1, <1>2, <2>1, DataHasUniqueIds, FilledRowsAreTheAnswer
          DEF SetCommands
<1>4. Return(t, FALSE)
  BY <1>2 DEF Filled
<1>5. Replies' = [Replies EXCEPT ![t] = Store!Done(FALSE, rows[t])]
  BY <1>4, ReturnShows DEF Filled
<1>6. Store!Reply(t, FALSE, Store!Answer(call[t].cmd, Data))
  <2>1. call' = call /\ crashed' = crashed
    BY DEF Filled, Return
  <2>2. Store!Answer(call[t].cmd, Data) = rows[t]
    BY <1>3, SameHelpers
  <2> QED BY <1>5, <2>1, <2>2 DEF Store!Reply, Replies, Shown
<1>7. Data' = Data
  BY DEF Filled, Return, Data, Slot
<1> QED BY <1>2, <1>6, <1>7
        DEF Filled, Store!Query, Store!Open, Store!SetOperations, SetCommands,
            Replies, Shown

LEMMA UnlockRefines ==
    ASSUME IInv, NEW t \in Threads, Unlock(t)
    PROVE  Store!Leave(t)
<1>1. Shown(t)' = Store!Pending
  <2>1. pc'[t] = "idle" /\ ok'[t] = FALSE
    BY DEF Unlock, IInv, TypeOK
  <2> QED BY <2>1 DEF Shown, Store!Pending
<1>2. \A u \in Threads : u # t => Shown(u)' = Shown(u)
  BY DEF Unlock, Shown, IInv, TypeOK
<1>3. Replies' = [Replies EXCEPT ![t] = Store!Pending]
  BY <1>1, <1>2 DEF Replies
<1>4. Replies[t].done
  BY DEF Unlock, Replies, Shown
<1>5. Data' = Data /\ crashed' = crashed /\ call' = [call EXCEPT ![t] = NoCall]
  BY DEF Unlock, Data, Slot
<1> QED BY <1>3, <1>4, <1>5 DEF Store!Leave, Store!Idle, NoCall, Replies, Shown

LEMMA StepRefines ==
    ASSUME IInv, [Next]_vars
    PROVE  [Store!Next]_Store!store
<1>1. CASE AddTable
  BY <1>1, AddTableRefines
<1>2. CASE ReuseFreedBlock \/ UNCHANGED vars
  <2>1. Data' = Data /\ call' = call /\ crashed' = crashed /\ Replies' = Replies
    BY <1>2 DEF ReuseFreedBlock, vars, locals, Data, Slot, Replies, Shown
  <2> QED BY <2>1, StutterRefines
<1>3. CASE \E t \in Threads, c \in Calls : ~crashed /\ Invoke(t, c)
  <2>1. PICK t \in Threads, c \in Calls : ~crashed /\ Invoke(t, c)
    BY <1>3
  <2>2. c \in Store!Requests /\ Store!Ask(t, c)
    BY <2>1, InvokeRefines, SameHelpers
  <2> QED BY <2>1, <2>2 DEF Store!Next
<1>4. CASE \E t \in Threads : Lock(t) \/ ExtractKeys(t) \/ CombineKeyVectors(t)
                                \/ FillResult(t)
  BY <1>4, HiddenStepRefines
<1>5. CASE \E t \in Threads : ~crashed /\ (NotFound(t) \/ Insert(t) \/ Truncate(t)
                                \/ Wild(t) \/ Filled(t) \/ Unlock(t))
  <2>1. PICK t \in Threads : ~crashed /\ (NotFound(t) \/ Insert(t) \/ Truncate(t)
                                \/ Wild(t) \/ Filled(t) \/ Unlock(t))
    BY <1>5
  <2>2. \/ Store!Add(t) \/ Store!Clear(t) \/ Store!Refuse(t) \/ Store!Lose(t)
        \/ Store!Query(t) \/ Store!Leave(t)
    BY <2>1, NotFoundRefines, InsertRefines, TruncateRefines, WildRefines,
       FilledRefines, UnlockRefines
  <2> QED BY <2>1, <2>2 DEF Store!Next
<1> QED BY <1>1, <1>2, <1>3, <1>4, <1>5 DEF Next, Run

\* Every call on the storage takes effect in one step between its invocation
\* and its return, for any number of threads: INSERT B, TRUNCATE B, an unknown
\* table and the two set operations as documented, A as a broken name.
THEOREM StorageIsLinearizable == Spec => Linearizable
<1>1. Init => Store!Init
  BY InitRefines
<1>2. IInv /\ [Next]_vars => [Store!Next]_Store!store
  BY StepRefines
<1> QED BY <1>1, <1>2, Inductive, PTL DEF Spec, Linearizable, Store!Spec

=============================================================================
