------------------------------- MODULE Storage -------------------------------
(***************************************************************************)
(* class Storage of storage.h and storage.cpp, called by any number of     *)
(* threads.  Every operation runs under one std::lock_guard on m_; the set *)
(* operations are modelled in the steps they take under it.                *)
(*                                                                         *)
(* names_ maps a table name to a reference INTO the vector tables_.  The   *)
(* constructor adds "A", takes its reference, and then adds "B": the       *)
(* vector grows from one element to two, moves to a new block and frees    *)
(* the block the reference to A points into.  A reference is therefore     *)
(* modelled as an address <<block, index>>, and it dangles when its block  *)
(* is not the vector's.  Using it is undefined behaviour, and these are    *)
(* the outcomes the build has: while the freed block is untouched it still *)
(* holds the bytes of an empty std::set, which then works as a table of    *)
(* its own; once the allocator has handed the block out again, a call      *)
(* returns anything or crashes the process.                                *)
(***************************************************************************)
EXTENDS JoinRows, Sequences

CONSTANTS Threads,      \* the threads that call the storage
          TableNames,   \* the table names clients use, known and unknown
          NoThread,     \* owner of the free mutex
          MayReuse      \* whether the allocator may reuse the freed block

\* The tables the constructor adds, in this order.
Schema == <<"A", "B">>

ASSUME StorageAssumption ==
    /\ {"A", "B"} \subseteq TableNames
    /\ NoThread \notin Threads
    /\ MayReuse \in BOOLEAN

\* Blocks of the vector (0: none yet) and the addresses of their elements.
Blocks == 0..2
Cells  == Blocks \X (0..2)
NoCell == <<0, 0>>

SetCommands == {"intersection", "symmetric_difference"}

NoCall == [cmd |-> "none"]
Calls ==
    [cmd : {"insert"}, table : TableNames, rec : Record]
      \cup [cmd : {"truncate"}, table : TableNames]
      \cup [cmd : SetCommands]

VARIABLES
    tables,     \* tables_: block, size and capacity of the vector
    heap,       \* the table at every address, freed ones included
    names,      \* names_: the address each name refers to, or NoCell
    reused,     \* the freed block has been handed out again
    m,          \* owner of the mutex m_
    pc,         \* where each thread is
    call,       \* the call it is making
    keys,       \* table_keys: the key vectors extracted so far
    todo,       \* the keys of keys_ab still to be filled in
    rows,       \* result: the rows filled in so far
    ok,         \* the bool an insert or truncate returns
    crashed     \* the process has died of a dangling reference

locals == <<keys, todo, rows, ok>>
vars == <<tables, heap, names, reused, m, pc, call, locals, crashed>>

Init ==
    /\ tables = [block |-> 0, size |-> 0, cap |-> 0]
    /\ heap = [c \in Cells |-> {}]
    /\ names = [n \in TableNames |-> NoCell]
    /\ reused = FALSE
    /\ m = NoThread
    /\ pc = [t \in Threads |-> "idle"]
    /\ call = [t \in Threads |-> NoCall]
    /\ keys = [t \in Threads |-> <<>>]
    /\ todo = [t \in Threads |-> {}]
    /\ rows = [t \in Threads |-> {}]
    /\ ok = [t \in Threads |-> FALSE]
    /\ crashed = FALSE

Constructed == tables.size = Len(Schema)

\* add_table: emplace_back moves a full vector to a block twice as large (the
\* tables it moves are still empty), and names_ refers to its last element.
AddTable ==
    /\ ~Constructed
    /\ LET n     == tables.size + 1
           full  == tables.size = tables.cap
           block == IF full THEN tables.block + 1 ELSE tables.block
           cap   == IF full THEN (IF tables.cap = 0 THEN 1 ELSE 2 * tables.cap)
                            ELSE tables.cap
       IN  /\ tables' = [block |-> block, size |-> n, cap |-> cap]
           /\ names' = [names EXCEPT ![Schema[n]] = <<block, n>>]
    /\ UNCHANGED <<heap, reused, m, pc, call, locals, crashed>>

\* The element i of tables_, and the content of both.
Slot(i) == <<tables.block, i>>
Data == [i \in Slots |-> heap[Slot(i)]]

Dangling(cell) == cell # NoCell /\ cell[1] # tables.block

\* The allocator hands the freed block to somebody else.
ReuseFreedBlock ==
    /\ MayReuse /\ Constructed /\ ~reused
    /\ reused' = TRUE
    /\ UNCHANGED <<tables, heap, names, m, pc, call, locals, crashed>>

-----------------------------------------------------------------------------
Invoke(t, c) ==
    /\ Constructed /\ pc[t] = "idle"
    /\ pc' = [pc EXCEPT ![t] = "wait"]
    /\ call' = [call EXCEPT ![t] = c]
    /\ UNCHANGED <<tables, heap, names, reused, m, locals, crashed>>

\* Mutant: the operation does not take the mutex.
LockNothing(t) ==
    /\ pc[t] = "wait"
    /\ m' = t
    /\ pc' = [pc EXCEPT ![t] = "body"]
    /\ UNCHANGED <<tables, heap, names, reused, call, locals, crashed>>

\* lock_t lock(m_): the first statement of every operation.
Lock(t) ==
    /\ pc[t] = "wait" /\ m = NoThread
    /\ m' = t
    /\ pc' = [pc EXCEPT ![t] = "body"]
    /\ UNCHANGED <<tables, heap, names, reused, call, locals, crashed>>

Return(t, value) ==
    /\ pc' = [pc EXCEPT ![t] = "unlock"]
    /\ ok' = [ok EXCEPT ![t] = value]
    /\ UNCHANGED <<tables, names, reused, m, call, keys, todo, rows>>

\* names_.find failed.
NotFound(t) ==
    /\ pc[t] = "body" /\ call[t].cmd \in {"insert", "truncate"}
    /\ names[call[t].table] = NoCell
    /\ Return(t, FALSE)
    /\ UNCHANGED <<heap, crashed>>

\* The reference is live, or dangles into a block nobody has touched yet.
Usable(cell) == cell # NoCell /\ (Dangling(cell) => ~reused)

Insert(t) ==
    /\ pc[t] = "body" /\ call[t].cmd = "insert"
    /\ LET cell == names[call[t].table]
           rec  == call[t].rec
       IN  /\ Usable(cell)
           /\ heap' = [heap EXCEPT ![cell] = Emplace(@, rec)]
           /\ Return(t, ~HasKey(heap[cell], rec.id))
    /\ UNCHANGED crashed

Truncate(t) ==
    /\ pc[t] = "body" /\ call[t].cmd = "truncate"
    /\ LET cell == names[call[t].table]
       IN  /\ Usable(cell)
           /\ heap' = [heap EXCEPT ![cell] = {}]
    /\ Return(t, TRUE)
    /\ UNCHANGED crashed

\* insert or truncate through a reference into memory somebody else owns.
Wild(t) ==
    /\ pc[t] = "body" /\ call[t].cmd \in {"insert", "truncate"}
    /\ Dangling(names[call[t].table]) /\ reused
    /\ \/ /\ \E value \in BOOLEAN :
               /\ call[t].cmd = "truncate" => value
               /\ Return(t, value)
          /\ UNCHANGED <<heap, crashed>>
       \/ /\ crashed' = TRUE
          /\ UNCHANGED <<tables, heap, names, reused, m, pc, call, locals>>

\* extract_keys, one table at a time.
ExtractKeys(t) ==
    /\ pc[t] = "body" /\ call[t].cmd \in SetCommands
    /\ Len(keys[t]) < tables.size
    /\ keys' = [keys EXCEPT ![t] = Append(@, KeysOf(heap[Slot(Len(@) + 1)]))]
    /\ UNCHANGED <<tables, heap, names, reused, m, pc, call, todo, rows, ok, crashed>>

\* Mutant: the scope of the lock_guard ends with the extraction of the keys.
CombineKeyVectorsUnlocked(t) ==
    /\ pc[t] = "body" /\ call[t].cmd \in SetCommands
    /\ Len(keys[t]) = tables.size
    /\ todo' = [todo EXCEPT ![t] = CombineKeys(call[t].cmd, keys[t][1], keys[t][2])]
    /\ pc' = [pc EXCEPT ![t] = "fill"]
    /\ m' = NoThread
    /\ UNCHANGED <<tables, heap, names, reused, call, keys, rows, ok, crashed>>

CombineKeyVectors(t) ==
    /\ pc[t] = "body" /\ call[t].cmd \in SetCommands
    /\ Len(keys[t]) = tables.size
    /\ todo' = [todo EXCEPT ![t] = CombineKeys(call[t].cmd, keys[t][1], keys[t][2])]
    /\ pc' = [pc EXCEPT ![t] = "fill"]
    /\ UNCHANGED <<tables, heap, names, reused, m, call, keys, rows, ok, crashed>>

\* Mutant: the loop does not advance.
FillResultAgain(t) ==
    /\ pc[t] = "fill"
    /\ \E key \in todo[t] :
         /\ \A k \in todo[t] : key <= k
         /\ rows' = [rows EXCEPT ![t] = Emplace(@, FillRow(key, Data))]
    /\ UNCHANGED <<tables, heap, names, reused, m, pc, call, keys, todo, ok, crashed>>

\* fill_result, one key at a time and in ascending order.
FillResult(t) ==
    /\ pc[t] = "fill"
    /\ \E key \in todo[t] :
         /\ \A k \in todo[t] : key <= k
         /\ rows' = [rows EXCEPT ![t] = Emplace(@, FillRow(key, Data))]
         /\ todo' = [todo EXCEPT ![t] = @ \ {key}]
    /\ UNCHANGED <<tables, heap, names, reused, m, pc, call, keys, ok, crashed>>

Filled(t) ==
    /\ pc[t] = "fill" /\ todo[t] = {}
    /\ Return(t, ok[t])
    /\ UNCHANGED <<heap, crashed>>

\* Mutant: the call is not cleared away.
UnlockStillCalling(t) ==
    /\ pc[t] = "unlock"
    /\ m' = NoThread
    /\ pc' = [pc EXCEPT ![t] = "idle"]
    /\ keys' = [keys EXCEPT ![t] = <<>>]
    /\ rows' = [rows EXCEPT ![t] = {}]
    /\ ok' = [ok EXCEPT ![t] = FALSE]
    /\ UNCHANGED <<tables, heap, names, reused, call, todo, crashed>>

\* The lock_guard and the locals go out of scope, the caller has its value.
Unlock(t) ==
    /\ pc[t] = "unlock"
    /\ m' = NoThread
    /\ pc' = [pc EXCEPT ![t] = "idle"]
    /\ call' = [call EXCEPT ![t] = NoCall]
    /\ keys' = [keys EXCEPT ![t] = <<>>]
    /\ rows' = [rows EXCEPT ![t] = {}]
    /\ ok' = [ok EXCEPT ![t] = FALSE]
    /\ UNCHANGED <<tables, heap, names, reused, todo, crashed>>

-----------------------------------------------------------------------------
Run(t) ==
    \/ NotFound(t) \/ Insert(t) \/ Truncate(t) \/ Wild(t)
    \/ ExtractKeys(t) \/ CombineKeyVectors(t) \/ FillResult(t) \/ Filled(t)
    \/ Unlock(t)

Next ==
    /\ ~crashed
    /\ \/ AddTable
       \/ ReuseFreedBlock
       \/ \E t \in Threads :
            \/ \E c \in Calls : Invoke(t, c)
            \/ Lock(t)
            \/ Run(t)

\* A thread that holds the mutex runs on; nothing is promised of the order in
\* which std::mutex lets the waiting threads in, and nobody has to call.
Fairness == \A t \in Threads : WF_vars(~crashed /\ Run(t))

Spec == Init /\ [][Next]_vars /\ Fairness

-----------------------------------------------------------------------------
TypeOK ==
    /\ tables \in [block : Blocks, size : 0..2, cap : 0..2]
    /\ heap \in [Cells -> SUBSET Record]
    /\ names \in [TableNames -> Cells]
    /\ reused \in BOOLEAN /\ crashed \in BOOLEAN
    /\ m \in Threads \cup {NoThread}
    /\ pc \in [Threads -> {"idle", "wait", "body", "fill", "unlock"}]
    /\ call \in [Threads -> Calls \cup {NoCall}]
    /\ \A t \in Threads : (pc[t] = "idle") <=> (call[t] = NoCall)
    /\ keys \in [Threads -> Seq(SUBSET Ids)]
    /\ todo \in [Threads -> SUBSET Ids]
    /\ rows \in [Threads -> SUBSET Row]
    /\ ok \in [Threads -> BOOLEAN]

\* README.md, "`id` является первичным ключом и не может дублироваться": two
\* rows of one table never share an id, nor do two rows of a result.
PrimaryKey ==
    /\ \A c \in Cells : UniqueKeys(heap[c])
    /\ \A t \in Threads : UniqueKeys(rows[t])

\* A finished set operation answers for the tables of the vector as they are
\* at that moment, whatever other threads asked for while it was running.
AnswerIsSnapshot ==
    \A t \in Threads :
        pc[t] = "unlock" /\ call[t].cmd \in SetCommands
          => rows[t] = Answer(call[t].cmd, Data)

\* README.md, "INTERSECTION": the answer joins the rows that INSERT A and
\* INSERT B put into the tables of those names (while their memory is intact).
AnswerJoinsNamedTables ==
    \A t \in Threads :
        pc[t] = "unlock" /\ call[t].cmd \in SetCommands /\ ~reused
          => rows[t] = Answer(call[t].cmd,
                              [i \in Slots |-> heap[names[Schema[i]]]])

\* What the dangling reference means to a caller: no INSERT ever reaches the
\* first table of the vector, so an intersection is empty for ever and a
\* symmetric difference is table B.
TableAUnreachable ==
    /\ heap[Slot(1)] = {}
    /\ \A t \in Threads :
         pc[t] = "unlock" =>
           /\ call[t].cmd = "intersection" => rows[t] = {}
           /\ call[t].cmd = "symmetric_difference" =>
                KeysOf(rows[t]) = KeysOf(heap[Slot(2)])

\* A row, once inserted, is neither replaced nor removed by anything but a
\* TRUNCATE that holds the mutex: a duplicate INSERT changes nothing.
KeepsOrTruncates ==
    \A c \in Cells :
        heap[c] \subseteq heap'[c]
          \/ \E t \in Threads :
               m = t /\ call[t].cmd = "truncate" /\ names[call[t].table] = c

RowsOnlyTruncated == [][KeepsOrTruncates]_vars

\* The mutex is never held for ever: the loops under it end.
HolderReleases == \A t \in Threads : (m = t) ~> (m # t \/ crashed)

=============================================================================
