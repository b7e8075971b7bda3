------------------------------ MODULE JoinRows ------------------------------
(***************************************************************************)
(* The data of the storage (storage.h) and the pure helpers its operations *)
(* are built from (storage.cpp).                                           *)
(*                                                                         *)
(* A table_t is a std::set<Record> whose order compares the id alone, so a *)
(* table is a set of records here and the uniqueness of the id is what     *)
(* emplace guarantees, not part of the representation.  A result_table_t   *)
(* is ordered by id as well: being a set, it needs no order of its own.    *)
(***************************************************************************)
EXTENDS Integers

CONSTANTS Ids,      \* the ids clients use, any values of a C++ int
          Names,    \* the names clients use
          Blank     \* the empty std::string a field holds until it is filled

ASSUME IdsAssumption == Ids \subseteq Int

Record == [id : Ids, name : Names]

\* The two tables every result row has a field for: ResultRecord rr(2).
Slots == 1..2

Row == [id : Ids \cup {0}, fields : [Slots -> Names \cup {Blank}]]

HasKey(data, key) == \E r \in data : r.id = key

\* Mutants: records compared by id and name; insert_or_assign.
EmplaceEqualId(data, rec) == data \cup {rec}
EmplaceOrAssign(data, rec) == {r \in data : r.id # rec.id} \cup {rec}

\* std::set::emplace and std::set::insert: an equivalent element is kept.
Emplace(data, rec) == IF HasKey(data, rec.id) THEN data ELSE data \cup {rec}

KeysOf(data) == {r.id : r \in data}

FindName(data, key) ==
    IF HasKey(data, key) THEN (CHOOSE r \in data : r.id = key).name ELSE Blank

\* One pass of fill_result: the row starts as ResultRecord(2), with id 0, and
\* takes the key only when some table has it.
FillRow(key, data) ==
    [id     |-> IF \E i \in Slots : HasKey(data[i], key) THEN key ELSE 0,
     fields |-> [i \in Slots |-> FindName(data[i], key)]]

\* Mutant: the two algorithms swapped.
CombineKeysSwapped(cmd, a, b) ==
    IF cmd = "intersection" THEN (a \ b) \cup (b \ a) ELSE a \cap b

\* std::set_intersection and std::set_symmetric_difference on two key vectors.
CombineKeys(cmd, a, b) ==
    IF cmd = "intersection" THEN a \cap b ELSE (a \ b) \cup (b \ a)

-----------------------------------------------------------------------------
(* What the two operations mean, stated on records and without keys.       *)

Fields(x, y) == [i \in Slots |-> IF i = 1 THEN x ELSE y]

Joined(a, b) ==
    {[id |-> p[1].id, fields |-> Fields(p[1].name, p[2].name)] :
        p \in {q \in a \X b : q[1].id = q[2].id}}

Unmatched(a, b) == {r \in a : \A s \in b : s.id # r.id}

Disjoined(a, b) ==
    {[id |-> r.id, fields |-> Fields(r.name, Blank)] : r \in Unmatched(a, b)}
      \cup
    {[id |-> r.id, fields |-> Fields(Blank, r.name)] : r \in Unmatched(b, a)}

Answer(cmd, data) ==
    IF cmd = "intersection" THEN Joined(data[1], data[2])
                            ELSE Disjoined(data[1], data[2])

UniqueKeys(data) == \A r, s \in data : r.id = s.id => r = s

=============================================================================
