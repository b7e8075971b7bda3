----------------------------- MODULE AtomicStore -----------------------------
(***************************************************************************)
(* What a caller may rely on: the storage as two tables on which every     *)
(* call takes effect in one step, between its invocation and its return.   *)
(*                                                                         *)
(* A name is bound to one of the two tables, is unknown, or is broken: a   *)
(* call on a broken name answers anything, changes no table that a set     *)
(* operation reads, and may crash the process.                             *)
(***************************************************************************)
EXTENDS JoinRows

CONSTANTS Threads, TableNames,
          SlotOf,       \* the table, 1 or 2, of every known name
          Broken        \* the known or unknown names whose calls do not reach a table

VARIABLES slots,    \* the two tables
          request,  \* what each thread has asked for
          reply,    \* what it has been answered, once the call took effect
          down      \* the process has crashed

store == <<slots, request, reply, down>>

Idle    == [cmd |-> "none"]
Pending == [done |-> FALSE, ok |-> FALSE, rows |-> {}]
Done(value, rows) == [done |-> TRUE, ok |-> value, rows |-> rows]

SetOperations == {"intersection", "symmetric_difference"}
Requests ==
    [cmd : {"insert"}, table : TableNames, rec : Record]
      \cup [cmd : {"truncate"}, table : TableNames]
      \cup [cmd : SetOperations]

Init ==
    /\ slots = [i \in Slots |-> {}]
    /\ request = [t \in Threads |-> Idle]
    /\ reply = [t \in Threads |-> Pending]
    /\ down = FALSE

Ask(t, c) ==
    /\ request[t] = Idle
    /\ request' = [request EXCEPT ![t] = c]
    /\ UNCHANGED <<slots, reply, down>>

Reply(t, value, result) ==
    /\ reply' = [reply EXCEPT ![t] = Done(value, result)]
    /\ UNCHANGED <<request, down>>

Open(t, cmds) == request[t].cmd \in cmds /\ ~reply[t].done

Bound(t) == request[t].table \in DOMAIN SlotOf \ Broken

Add(t) ==
    /\ Open(t, {"insert"}) /\ Bound(t)
    /\ LET i == SlotOf[request[t].table]
       IN  /\ slots' = [slots EXCEPT ![i] = Emplace(@, request[t].rec)]
           /\ Reply(t, ~HasKey(slots[i], request[t].rec.id), {})

Clear(t) ==
    /\ Open(t, {"truncate"}) /\ Bound(t)
    /\ slots' = [slots EXCEPT ![SlotOf[request[t].table]] = {}]
    /\ Reply(t, TRUE, {})

Refuse(t) ==
    /\ Open(t, {"insert", "truncate"})
    /\ request[t].table \notin DOMAIN SlotOf \cup Broken
    /\ Reply(t, FALSE, {})
    /\ UNCHANGED slots

Lose(t) ==
    /\ Open(t, {"insert", "truncate"}) /\ request[t].table \in Broken
    /\ \/ /\ \E value \in BOOLEAN : Reply(t, value, {})
          /\ UNCHANGED slots
       \/ down' = TRUE /\ UNCHANGED <<slots, request, reply>>

Query(t) ==
    /\ Open(t, SetOperations)
    /\ Reply(t, FALSE, Answer(request[t].cmd, slots))
    /\ UNCHANGED slots

Leave(t) ==
    /\ reply[t].done
    /\ request' = [request EXCEPT ![t] = Idle]
    /\ reply' = [reply EXCEPT ![t] = Pending]
    /\ UNCHANGED <<slots, down>>

Next ==
    /\ ~down
    /\ \E t \in Threads :
         \/ \E c \in Requests : Ask(t, c)
         \/ Add(t) \/ Clear(t) \/ Refuse(t) \/ Lose(t) \/ Query(t) \/ Leave(t)

Spec == Init /\ [][Next]_store

=============================================================================
