--------------------------- MODULE HttpServerProofs ---------------------------
(***************************************************************************)
(* For any number of clients, descriptors and pieces: a connection has one *)
(* operation at a time, what is open is what the manager knows, and the    *)
(* acceptor is waited on once.                                             *)
(***************************************************************************)
EXTENDS HttpServer, FiniteSetTheorems, SequenceTheorems, TLAPS

\* The descriptors an operation is outstanding on, and the clients whose accepted
\* sockets have not been handed over yet.
Busy(s) ==
    {op.on : op \in s.waiting} \cup {s.queue[i].op.on : i \in DOMAIN s.queue}

Pending(s) == {c \in Clients : \E i \in DOMAIN s.queue : s.queue[i] = Completion(Accept, c)}

\* The handlers to call.
Done(s) == {s.queue[i] : i \in DOMAIN s.queue}

\* No descriptor has two operations.
Single(s) ==
    /\ \A op, other \in s.waiting : op.on = other.on => op = other
    /\ \A i, j \in DOMAIN s.queue : s.queue[i].op.on = s.queue[j].op.on => i = j
    /\ \A op \in s.waiting, i \in DOMAIN s.queue : op.on # s.queue[i].op.on

Good(s) == s \in Ios /\ Single(s) /\ \A op \in s.waiting : op.on \in s.open

\* What is open and not in the manager's hands is on its way there.
Kept(s, known) ==
    /\ known \subseteq Busy(s)
    /\ s.open \ {Acceptor} = known \cup Pending(s)
    /\ known \cap Pending(s) = {}

\* A client that is not yet accepted, or not yet handed over, has no operation.
Listed(s) == {s.backlog[i] : i \in DOMAIN s.backlog}

Fresh(s, p) ==
    /\ \A i, j \in DOMAIN s.backlog : s.backlog[i] = s.backlog[j] => i = j
    /\ Listed(s) \cap (Busy(s) \cup s.open) = {}
    /\ Pending(s) \cap Busy(s) = {}
    /\ \A c \in Clients : p[c] = "new" => c \notin Busy(s) \cup s.open \cup Listed(s)

\* Only what is closed was cancelled, and an error has a cause.
Caused(s, p) ==
    \A e \in Done(s) : e.op.on \in Clients =>
        /\ e.what = "aborted" => e.op.on \notin s.open
        /\ e.what = "error" => e.op.on \notin s.open \/ p[e.op.on] = "closed"

Sound(s, known, p) == Good(s) /\ Kept(s, known) /\ Fresh(s, p) /\ Caused(s, p)

IInv ==
    /\ TypeOK /\ Sound(io, connections, peer)
    /\ Acceptor \in io.open => Acceptor \in Busy(io)
    /\ "signals" \in Busy(io) => signalled

-----------------------------------------------------------------------------
(* Descriptors and completions.                                            *)

LEMMA Sorts ==
    /\ Acceptor \notin Clients /\ "signals" \notin Clients /\ Acceptor # "signals"
    /\ NoClient \notin Clients /\ "aborted" \notin Clients /\ NoClient # "aborted"
    /\ Accept \in Operations /\ Accept.on = Acceptor
    /\ \A c \in Clients : /\ Read(c) \in Operations /\ Read(c).on = c
                          /\ Write(c) \in Operations /\ Write(c).on = c
                          /\ Read(c) # Accept /\ Write(c) # Accept
    /\ \A op \in Operations : /\ op.on \in Clients \cup {Acceptor}
                              /\ op.on = Acceptor <=> op = Accept
<1>1. /\ Acceptor \notin Clients /\ "signals" \notin Clients /\ Acceptor # "signals"
      /\ NoClient \notin Clients /\ "aborted" \notin Clients /\ NoClient # "aborted"
  BY HttpServerAssumption DEF Acceptor
<1>2. Accept \in Operations /\ Accept.on = Acceptor
  BY DEF Operations, Accept
<1>3. ASSUME NEW c \in Clients
      PROVE  /\ Read(c) \in Operations /\ Read(c).on = c
             /\ Write(c) \in Operations /\ Write(c).on = c
             /\ Read(c) # Accept /\ Write(c) # Accept
  BY DEF Operations, Accept, Read, Write
<1>4. ASSUME NEW op \in Operations
      PROVE  op.on \in Clients \cup {Acceptor} /\ (op.on = Acceptor <=> op = Accept)
  <2>1. op = Accept \/ \E c \in Clients : op = Read(c) \/ op = Write(c)
    BY DEF Operations
  <2> QED  BY <1>1, <1>2, <1>3, <2>1
<1> QED  BY <1>1, <1>2, <1>3, <1>4

LEMMA Ended ==
    ASSUME NEW e \in Completions
    PROVE  /\ Signal.op.on = "signals"
           /\ e = Completion(e.op, e.what)
           /\ e # Signal => e.op \in Operations
           /\ e.op.on \in Clients \cup {Acceptor, "signals"}
           /\ e.op.on = Acceptor => e.op = Accept
<1>1. e \in [op : Operations, what : {e.what}] \/ e = Signal
  BY Sorts DEF Completions, Operations
<1>2. Signal.op.on = "signals" /\ Signal = Completion(Signal.op, Signal.what)
  BY DEF Signal, Completion
<1>3. CASE e \in [op : Operations, what : {e.what}]
  BY <1>2, <1>3, Sorts DEF Completion
<1>4. CASE e = Signal
  BY <1>2, <1>4, Sorts
<1>5. e # Signal => e.op \in Operations
  BY <1>1, <1>2, Sorts
<1> QED  BY <1>1, <1>2, <1>3, <1>4, <1>5

\* An operation completes: it was waiting, or has just been tried.
LEMMA Completing ==
    ASSUME NEW s, Good(s), NEW op, NEW what,
           Completion(op, what) \in Completions, op \in s.waiting \/ op.on \notin Busy(s)
    PROVE  LET t == Completed(s, op, what)
           IN  /\ Good(t) /\ Busy(t) = Busy(s) \cup {op.on}
               /\ Pending(t) = Pending(s) \cup {c \in Clients : op = Accept /\ what = c}
               /\ Done(t) = Done(s) \cup {Completion(op, what)}
               /\ t.open = s.open /\ t.backlog = s.backlog
<1> DEFINE e == Completion(op, what)
           t == Completed(s, op, what)
<1>1. /\ s \in Ios /\ s.queue \in Seq(Completions) /\ s.waiting \subseteq Operations
      /\ t = [s EXCEPT !.queue = Append(s.queue, e), !.waiting = s.waiting \ {op}]
  BY DEF Good, Ios, Completed
<1>2. /\ t.queue = Append(s.queue, e) /\ t.waiting = s.waiting \ {op} /\ t.open = s.open
      /\ t.backlog = s.backlog
  BY <1>1 DEF Ios
<1>3. t.queue \in Seq(Completions)  BY <1>1, <1>2
<1>4. t \in Ios  BY <1>1, <1>2, <1>3 DEF Ios
<1>5. /\ DOMAIN s.queue = 1..Len(s.queue) /\ DOMAIN t.queue = 1..(Len(s.queue) + 1)
      /\ Len(s.queue) \in Nat /\ t.queue[Len(s.queue) + 1] = e
      /\ \A i \in 1..Len(s.queue) : t.queue[i] = s.queue[i]
  BY <1>1, <1>2
<1>6. e.op = op  BY DEF Completion
<1>7. \A i \in DOMAIN s.queue : s.queue[i].op.on # op.on
  BY DEF Good, Single, Busy
<1>8. Single(t)
  BY <1>2, <1>5, <1>6 DEF Good, Single, Busy
<1>9. Good(t)  BY <1>2, <1>4, <1>8 DEF Good
<1>10. Busy(t) = Busy(s) \cup {op.on}
  <2>1. ASSUME NEW d \in Busy(t) PROVE d \in Busy(s) \cup {op.on}
    BY <2>1, <1>2, <1>5, <1>6 DEF Busy
  <2>2. ASSUME NEW d \in Busy(s) \cup {op.on} PROVE d \in Busy(t)
    <3>1. CASE d = op.on
      BY <3>1, <1>5, <1>6 DEF Busy
    <3>2. CASE \E other \in s.waiting \ {op} : d = other.on
      BY <3>2, <1>2 DEF Busy
    <3>3. CASE \E i \in DOMAIN s.queue : d = s.queue[i].op.on
      BY <3>3, <1>5 DEF Busy
    <3> QED  BY <2>2, <3>1, <3>2, <3>3 DEF Busy
  <2> QED  BY <2>1, <2>2
<1>11. Pending(t) = Pending(s) \cup {c \in Clients : op = Accept /\ what = c}
  <2>1. \A c \in Clients : e = Completion(Accept, c) <=> op = Accept /\ what = c
    BY DEF Completion
  <2>2. \A c \in Clients : (\E i \in DOMAIN t.queue : t.queue[i] = Completion(Accept, c)) <=>
          ((\E i \in DOMAIN s.queue : s.queue[i] = Completion(Accept, c))
             \/ e = Completion(Accept, c))
    BY <1>5
  <2> QED  BY <2>1, <2>2 DEF Pending
<1>12. Done(t) = Done(s) \cup {e}
  <2>1. e \in Done(t)  BY <1>5 DEF Done
  <2>2. Done(s) \subseteq Done(t)  BY <1>5 DEF Done
  <2>3. Done(t) \subseteq Done(s) \cup {e}  BY <1>5 DEF Done
  <2> QED  BY <2>1, <2>2, <2>3
<1> QED  BY <1>2, <1>9, <1>10, <1>11, <1>12

\* An operation that would block waits, on an open descriptor.
LEMMA Awaiting ==
    ASSUME NEW s, Good(s), NEW op \in Operations, op.on \notin Busy(s), op.on \in s.open
    PROVE  LET t == Await(s, op)
           IN  /\ Good(t) /\ Busy(t) = Busy(s) \cup {op.on} /\ Pending(t) = Pending(s)
               /\ Done(t) = Done(s)
               /\ t.open = s.open /\ t.backlog = s.backlog
<1> DEFINE t == Await(s, op)
<1>1. /\ s \in Ios /\ s.waiting \subseteq Operations
      /\ t = [s EXCEPT !.waiting = s.waiting \cup {op}]
  BY DEF Good, Ios, Await
<1>2. /\ t.queue = s.queue /\ t.waiting = s.waiting \cup {op} /\ t.open = s.open
      /\ t.backlog = s.backlog
  BY <1>1 DEF Ios
<1>3. t \in Ios  BY <1>1 DEF Ios
<1>4. Good(t)  BY <1>2, <1>3 DEF Good, Single, Busy
<1>5. Busy(t) = Busy(s) \cup {op.on}  BY <1>2 DEF Busy
<1>6. Pending(t) = Pending(s) /\ Done(t) = Done(s)  BY <1>2 DEF Pending, Done
<1> QED  BY <1>2, <1>4, <1>5, <1>6

\* The handler taken from the queue was that of the one operation of its descriptor.
LEMMA Taking ==
    ASSUME Good(io), io.queue # <<>>
    PROVE  LET done == Head(io.queue)
           IN  /\ done \in Completions
               /\ Good(Taken) /\ Busy(Taken) = Busy(io) \ {done.op.on}
               /\ done.op.on \in Busy(io)
               /\ Pending(io) = Pending(Taken)
                     \cup {c \in Clients : done.op = Accept /\ done.what = c}
               /\ Done(io) = Done(Taken) \cup {done}
               /\ Taken = [io EXCEPT !.queue = Taken.queue]
               /\ Taken.open = io.open /\ Taken.backlog = io.backlog
<1> DEFINE done == Head(io.queue)
           q    == io.queue
<1>1. io \in Ios /\ q \in Seq(Completions) /\ io.waiting \subseteq Operations
  BY DEF Good, Ios
<1>2. done \in Completions /\ Tail(q) \in Seq(Completions)
  BY <1>1
<1>3. Taken.queue = Tail(q) /\ Taken.waiting = io.waiting /\ Taken.open = io.open
  BY <1>1 DEF Taken, Ios
<1>4. Taken \in Ios  BY <1>1, <1>2 DEF Taken, Ios
<1>5. /\ DOMAIN q = 1..Len(q) /\ DOMAIN Tail(q) = 1..(Len(q) - 1)
      /\ Len(q) \in Nat \ {0} /\ done = q[1]
      /\ \A i \in 1..(Len(q) - 1) : Tail(q)[i] = q[i + 1]
  BY <1>1
<1>6. Single(Taken)
  <2>1. ASSUME NEW i \in 1..(Len(q) - 1), NEW j \in 1..(Len(q) - 1),
               Tail(q)[i].op.on = Tail(q)[j].op.on
        PROVE  i = j
    <3>1. i + 1 \in DOMAIN q /\ j + 1 \in DOMAIN q /\ q[i + 1].op.on = q[j + 1].op.on
      BY <1>5, <2>1
    <3>2. i + 1 = j + 1  BY <3>1 DEF Good, Single
    <3> QED  BY <3>2
  <2>2. \A op \in io.waiting, i \in 1..(Len(q) - 1) : op.on # Tail(q)[i].op.on
    BY <1>5 DEF Good, Single
  <2> QED  BY <1>3, <1>5, <2>1, <2>2 DEF Good, Single
<1>7. Good(Taken)  BY <1>3, <1>4, <1>6 DEF Good
<1>8. Busy(Taken) = Busy(io) \ {done.op.on}
  <2>1. ASSUME NEW d \in Busy(Taken) PROVE d \in Busy(io) /\ d # done.op.on
    <3>1. CASE \E op \in io.waiting : d = op.on
      BY <1>5, <3>1 DEF Busy, Good, Single
    <3>2. CASE \E i \in 1..(Len(q) - 1) : d = Tail(q)[i].op.on
      <4>1. PICK i \in 1..(Len(q) - 1) : d = q[i + 1].op.on  BY <1>5, <3>2
      <4>2. i + 1 \in DOMAIN q /\ i + 1 # 1 /\ 1 \in DOMAIN q  BY <1>5
      <4> QED  BY <1>5, <4>1, <4>2 DEF Busy, Good, Single
    <3> QED  BY <1>3, <1>5, <2>1, <3>1, <3>2 DEF Busy
  <2>2. ASSUME NEW d \in Busy(io), d # done.op.on PROVE d \in Busy(Taken)
    <3>1. CASE \E op \in io.waiting : d = op.on
      BY <1>3, <3>1 DEF Busy
    <3>2. CASE \E i \in DOMAIN q : d = q[i].op.on
      <4>1. PICK i \in DOMAIN q : d = q[i].op.on  BY <3>2
      <4>2. i - 1 \in 1..(Len(q) - 1) /\ Tail(q)[i - 1] = q[i]
        <5>1. i # 1  BY <1>5, <2>2, <4>1
        <5>2. i - 1 \in 1..(Len(q) - 1) /\ i - 1 + 1 = i  BY <1>5, <5>1
        <5> QED  BY <1>5, <5>2
      <4> QED  BY <1>3, <1>5, <4>1, <4>2 DEF Busy
    <3> QED  BY <2>2, <3>1, <3>2 DEF Busy
  <2> QED  BY <2>1, <2>2
<1>9. done.op.on \in Busy(io)  BY <1>5 DEF Busy
<1>10. Pending(io) = Pending(Taken) \cup {c \in Clients : done.op = Accept /\ done.what = c}
  <2>1. \A c \in Clients : done = Completion(Accept, c) <=> done.op = Accept /\ done.what = c
    BY <1>2, Ended DEF Completion
  <2>2. ASSUME NEW c \in Clients
        PROVE  (\E i \in DOMAIN q : q[i] = Completion(Accept, c)) <=>
                 \/ done = Completion(Accept, c)
                 \/ \E i \in DOMAIN Tail(q) : Tail(q)[i] = Completion(Accept, c)
    <3>1. ASSUME NEW i \in DOMAIN q, q[i] = Completion(Accept, c)
          PROVE  \/ done = Completion(Accept, c)
                 \/ \E j \in DOMAIN Tail(q) : Tail(q)[j] = Completion(Accept, c)
      <4>1. CASE i = 1  BY <1>5, <3>1, <4>1
      <4>2. CASE i # 1
        <5>1. i - 1 \in 1..(Len(q) - 1) /\ i - 1 + 1 = i  BY <1>5, <4>2
        <5> QED  BY <1>5, <3>1, <5>1
      <4> QED  BY <4>1, <4>2
    <3>2. ASSUME NEW i \in DOMAIN Tail(q), Tail(q)[i] = Completion(Accept, c)
          PROVE  \E j \in DOMAIN q : q[j] = Completion(Accept, c)
      <4>1. i + 1 \in DOMAIN q  BY <1>5
      <4> QED  BY <1>5, <3>2, <4>1
    <3>3. 1 \in DOMAIN q  BY <1>5
    <3> QED  BY <1>5, <3>1, <3>2, <3>3
  <2> QED  BY <1>3, <2>1, <2>2 DEF Pending
<1>11. Taken = [io EXCEPT !.queue = Taken.queue]
  BY <1>1, <1>3 DEF Taken, Ios
<1>12. Done(io) = Done(Taken) \cup {done}
  <2>1. ASSUME NEW i \in DOMAIN q PROVE q[i] \in Done(Taken) \cup {done}
    <3>1. CASE i = 1  BY <1>5, <3>1
    <3>2. CASE i # 1
      <4>1. i - 1 \in 1..(Len(q) - 1) /\ i - 1 + 1 = i  BY <1>5, <3>2
      <4> QED  BY <1>3, <1>5, <4>1 DEF Done
    <3> QED  BY <3>1, <3>2
  <2>2. ASSUME NEW i \in DOMAIN Tail(q) PROVE Tail(q)[i] \in Done(io)
    <3>1. i + 1 \in DOMAIN q  BY <1>5
    <3> QED  BY <1>5, <3>1 DEF Done
  <2>3. done \in Done(io)  BY <1>5 DEF Done
  <2> QED  BY <1>3, <2>1, <2>2, <2>3 DEF Done
<1>13. Taken.backlog = io.backlog  BY <1>1 DEF Taken, Ios
<1> QED  BY <1>2, <1>3, <1>7, <1>8, <1>9, <1>10, <1>11, <1>12, <1>13

\* Closing descriptors leaves every other as it was, and nothing new outstanding.
LEMMA Closing ==
    ASSUME NEW s, Good(s), NEW ds, NEW t \in Closed(s, ds)
    PROVE  /\ Good(t) /\ Busy(t) \subseteq Busy(s) /\ Busy(s) \ ds \subseteq Busy(t)
           /\ Pending(t) = Pending(s)
           /\ \A e \in Done(t) : e \notin Done(s) => e.op.on \in ds /\ e.what = "aborted"
           /\ t.open = s.open \ ds /\ t.backlog = s.backlog
<1> DEFINE S == {op \in s.waiting : op.on \in ds}
           q == s.queue
<1>1. PICK ops \in SetToSeqs(S) :
        t = [s EXCEPT !.queue = q \o [i \in DOMAIN ops |-> Completion(ops[i], "aborted")],
                      !.waiting = {op \in s.waiting : op.on \notin ds},
                      !.open = s.open \ ds]
  BY DEF Closed
<1> DEFINE ab == [i \in DOMAIN ops |-> Completion(ops[i], "aborted")]
<1>2. /\ s \in Ios /\ q \in Seq(Completions) /\ s.waiting \subseteq Operations
  BY DEF Good, Ios
<1>3. IsFiniteSet(Operations)
  <2>1. IsFiniteSet({Read(c) : c \in Clients})
    <3>1. [c \in Clients |-> Read(c)] \in Surjection(Clients, {Read(c) : c \in Clients})
      BY DEF Surjection
    <3> QED  BY <3>1, FS_Surjection, HttpServerAssumption
  <2>2. IsFiniteSet({Write(c) : c \in Clients})
    <3>1. [c \in Clients |-> Write(c)] \in Surjection(Clients, {Write(c) : c \in Clients})
      BY DEF Surjection
    <3> QED  BY <3>1, FS_Surjection, HttpServerAssumption
  <2>3. IsFiniteSet({Accept})  BY FS_Singleton
  <2>4. IsFiniteSet({Accept} \cup {Read(c) : c \in Clients})  BY <2>1, <2>3, FS_Union
  <2> QED  BY <2>2, <2>4, FS_Union DEF Operations
<1>4. IsFiniteSet(S) /\ Cardinality(S) \in Nat
  BY <1>2, <1>3, FS_Subset, FS_CardinalityType
<1>5. /\ ops \in [1..Cardinality(S) -> S] /\ DOMAIN ops = 1..Cardinality(S)
      /\ \A i, j \in DOMAIN ops : i # j => ops[i] # ops[j]
  BY DEF SetToSeqs
<1>6. \A i \in DOMAIN ops : ops[i] \in s.waiting /\ ops[i].on \in ds /\ ops[i] \in Operations
  BY <1>2, <1>5
<1>7. \A i \in DOMAIN ops : Completion(ops[i], "aborted") \in Completions
  BY <1>6 DEF Completions, Completion, Operations
<1>8. ab \in Seq(Completions) /\ DOMAIN ab = DOMAIN ops /\ Len(ab) = Cardinality(S)
  <2>1. ab \in [1..Cardinality(S) -> Completions]  BY <1>5, <1>7
  <2> HIDE DEF ab, S
  <2>2. ab \in Seq(Completions)  BY <1>4, <2>1
  <2>3. Len(ab) \in Nat /\ DOMAIN ab = 1..Len(ab) /\ DOMAIN ab = 1..Cardinality(S)
    BY <2>1, <2>2
  <2>4. Len(ab) = Cardinality(S)  BY <1>4, <2>3
  <2> QED  BY <1>5, <2>2, <2>3, <2>4
<1>9. /\ t.queue = q \o ab /\ t.waiting = s.waiting \ S /\ t.open = s.open \ ds
  BY <1>1, <1>2 DEF Ios
<1> HIDE DEF ab
<1>10. t \in Ios
  <2>1. q \o ab \in Seq(Completions)  BY <1>2, <1>8
  <2> QED  BY <1>1, <1>2, <1>9, <2>1 DEF Ios
<1>11. /\ Len(q) \in Nat /\ DOMAIN q = 1..Len(q)
       /\ DOMAIN t.queue = 1..(Len(q) + Cardinality(S))
       /\ \A i \in 1..Len(q) : t.queue[i] = q[i]
       /\ \A i \in 1..Cardinality(S) : t.queue[Len(q) + i] = ab[i]
  <2> HIDE DEF q, S
  <2>1. /\ t.queue \in Seq(Completions) /\ Len(t.queue) = Len(q) + Len(ab)
        /\ \A i \in 1..(Len(q) + Len(ab)) :
             t.queue[i] = IF i <= Len(q) THEN q[i] ELSE ab[i - Len(q)]
    <3>1. q \in Seq(Completions) /\ ab \in Seq(Completions) /\ t.queue = q \o ab
      BY <1>2, <1>8, <1>9
    <3>2. /\ q \o ab \in Seq(Completions) /\ Len(q \o ab) = Len(q) + Len(ab)
          /\ \A i \in 1..Len(q) + Len(ab) :
               (q \o ab)[i] = IF i <= Len(q) THEN q[i] ELSE ab[i - Len(q)]
      BY <3>1, ConcatProperties
    <3> QED  BY <3>1, <3>2
  <2>2. Len(q) \in Nat /\ DOMAIN q = 1..Len(q) /\ Len(ab) = Cardinality(S)
    BY <1>2, <1>8
  <2>3. DOMAIN t.queue = 1..(Len(q) + Cardinality(S))
    BY <2>1, <2>2
  <2>4. \A i \in 1..Len(q) : t.queue[i] = q[i]
    BY <1>4, <2>1, <2>2
  <2>5. ASSUME NEW i \in 1..Cardinality(S) PROVE t.queue[Len(q) + i] = ab[i]
    <3>1. /\ Len(q) + i \in 1..(Len(q) + Len(ab)) /\ ~(Len(q) + i <= Len(q))
          /\ Len(q) + i - Len(q) = i
      BY <1>4, <2>2
    <3> QED  BY <2>1, <3>1
  <2> QED  BY <2>2, <2>3, <2>4, <2>5
<1>12. \A i \in DOMAIN ops : ab[i].op = ops[i] /\ ab[i] = Completion(ops[i], "aborted")
  BY DEF ab, Completion
<1>13. \A k \in DOMAIN t.queue :
         \/ k \in DOMAIN q /\ t.queue[k] = q[k]
         \/ /\ k - Len(q) \in DOMAIN ops /\ k \notin DOMAIN q
            /\ t.queue[k].op = ops[k - Len(q)]
            /\ t.queue[k] = Completion(ops[k - Len(q)], "aborted")
  <2>1. ASSUME NEW k \in DOMAIN t.queue, k \notin DOMAIN q
        PROVE  k - Len(q) \in DOMAIN ops /\ t.queue[k] = ab[k - Len(q)]
    <3>1. k - Len(q) \in 1..Cardinality(S) /\ k = Len(q) + (k - Len(q))
      BY <1>4, <1>11, <2>1
    <3> QED  BY <1>5, <1>11, <3>1
  <2> QED  BY <1>11, <1>12, <2>1
<1>14. Single(t)
  <2>1. ASSUME NEW i \in DOMAIN t.queue, NEW j \in DOMAIN t.queue,
               t.queue[i].op.on = t.queue[j].op.on
        PROVE  i = j
    <3>1. CASE i \in DOMAIN q /\ j \in DOMAIN q
      BY <1>13, <2>1, <3>1 DEF Good, Single
    <3>2. CASE i \in DOMAIN q /\ j \notin DOMAIN q
      BY <1>6, <1>13, <2>1, <3>2 DEF Good, Single
    <3>3. CASE i \notin DOMAIN q /\ j \in DOMAIN q
      BY <1>6, <1>13, <2>1, <3>3 DEF Good, Single
    <3>4. CASE i \notin DOMAIN q /\ j \notin DOMAIN q
      <4>1. ops[i - Len(q)] = ops[j - Len(q)]
        BY <1>6, <1>13, <2>1, <3>4 DEF Good, Single
      <4>2. i - Len(q) = j - Len(q)
        BY <1>5, <1>13, <3>4, <4>1
      <4> QED  BY <1>4, <1>11, <4>2
    <3> QED  BY <3>1, <3>2, <3>3, <3>4
  <2>2. \A op \in t.waiting, i \in DOMAIN t.queue : op.on # t.queue[i].op.on
    BY <1>6, <1>9, <1>13 DEF Good, Single
  <2> QED  BY <1>9, <2>1, <2>2 DEF Good, Single
<1>15. Good(t)  BY <1>9, <1>10, <1>14 DEF Good
<1>16. Busy(t) \subseteq Busy(s)
  BY <1>6, <1>9, <1>13 DEF Busy
<1>17. Busy(s) \ ds \subseteq Busy(t)
  <2>1. ASSUME NEW op \in s.waiting, op.on \notin ds PROVE op.on \in Busy(t)
    BY <1>9, <2>1 DEF Busy
  <2>2. ASSUME NEW i \in DOMAIN q PROVE q[i].op.on \in Busy(t)
    <3>1. i \in DOMAIN t.queue /\ t.queue[i] = q[i]  BY <1>4, <1>11
    <3> QED  BY <3>1 DEF Busy
  <2> QED  BY <2>1, <2>2 DEF Busy
<1>18. Pending(t) = Pending(s)
  <2>1. \A i \in DOMAIN ops, c \in Clients :
          Completion(ops[i], "aborted") # Completion(Accept, c)
    BY Sorts DEF Completion
  <2>2. ASSUME NEW i \in DOMAIN q PROVE i \in DOMAIN t.queue /\ t.queue[i] = q[i]
    BY <1>4, <1>11
  <2>3. \A c \in Clients : (\E i \in DOMAIN t.queue : t.queue[i] = Completion(Accept, c))
                            <=> \E i \in DOMAIN q : q[i] = Completion(Accept, c)
    BY <1>13, <2>1, <2>2
  <2> QED  BY <2>3 DEF Pending
<1>19. t.backlog = s.backlog  BY <1>1, <1>2 DEF Ios
<1>20. \A e \in Done(t) : e \notin Done(s) => e.op.on \in ds /\ e.what = "aborted"
  <2>1. ASSUME NEW k \in DOMAIN t.queue, t.queue[k] \notin Done(s)
        PROVE  t.queue[k].op.on \in ds /\ t.queue[k].what = "aborted"
    <3>1. k \notin DOMAIN q  BY <1>13, <2>1 DEF Done
    <3>2. /\ k - Len(q) \in DOMAIN ops /\ t.queue[k].op = ops[k - Len(q)]
          /\ t.queue[k] = Completion(ops[k - Len(q)], "aborted")
      BY <1>13, <3>1
    <3>3. t.queue[k].what = "aborted"  BY <3>2 DEF Completion
    <3> QED  BY <1>6, <3>2, <3>3
  <2> QED  BY <2>1 DEF Done
<1> QED  BY <1>9, <1>20, <1>15, <1>16, <1>17, <1>18, <1>19

-----------------------------------------------------------------------------
(* What the operations of asio do.                                         *)

\* An operation on a client's socket has been begun, or has gone on: it is
\* outstanding, whether it waits or has completed, and if with an error, not
\* without cause.
Begun(s, t, d) ==
    /\ Good(t) /\ Busy(t) = Busy(s) \cup {d} /\ Pending(t) = Pending(s)
    /\ t.open = s.open /\ t.backlog = s.backlog
    /\ \A e \in Done(t) : e \in Done(s) \/
         /\ e.op.on = d /\ e.what # "aborted"
         /\ e.what = "error" => d \notin s.open \/ peer[d] = "closed"

LEMMA ReadCompletes ==
    ASSUME NEW s, Good(s), NEW c \in Clients, Read(c) \in s.waiting \/ c \notin Busy(s),
           NEW what \in Results \cup {"error"},
           what = "error" => c \notin s.open \/ peer[c] = "closed"
    PROVE  Begun(s, Completed(s, Read(c), what), c)
<1>1. Completion(Read(c), what) \in Completions  BY DEF Completions, Completion
<1>2. Read(c) \in Operations /\ Read(c).on = c /\ Read(c) # Accept  BY Sorts
<1> DEFINE op == Read(c)
           t  == Completed(s, op, what)
<1> HIDE DEF op
<1>3. /\ op \in Operations /\ op.on = c /\ op # Accept /\ Completion(op, what) \in Completions
      /\ op \in s.waiting \/ op.on \notin Busy(s)
  BY <1>1, <1>2 DEF op
<1>4. /\ Good(t) /\ Busy(t) = Busy(s) \cup {op.on}
      /\ Pending(t) = Pending(s) \cup {d \in Clients : op = Accept /\ what = d}
      /\ Done(t) = Done(s) \cup {Completion(op, what)}
      /\ t.open = s.open /\ t.backlog = s.backlog
  BY <1>3, Completing
<1>5. what # "aborted"  BY DEF Results
<1>6. Completion(op, what).op = op /\ Completion(op, what).what = what  BY DEF Completion
<1>7. Begun(s, t, c)  BY <1>3, <1>4, <1>5, <1>6 DEF Begun
<1> QED  BY <1>7 DEF op

LEMMA ReadReceives ==
    ASSUME NEW s, Good(s), NEW c \in Clients, Read(c) \in s.waiting \/ c \notin Busy(s),
           Readable(s, c)
    PROVE  Begun(s, Received(s, c), c)
<1> DEFINE what == IF s.wire[c] # "nothing" THEN s.wire[c] ELSE "error"
           t == Completed(s, Read(c), what)
           r == Received(s, c)
<1>1. what \in Results \cup {"error"} /\ (what = "error" => peer[c] = "closed")
  BY DEF Good, Ios, Readable, Results
<1> HIDE DEF what
<1>2. Begun(s, t, c)  BY <1>1, ReadCompletes
<1> HIDE DEF t
<1>3. r = [t EXCEPT !.wire[c] = "nothing"]  BY DEF Received, t, what
<1>4. t \in Ios  BY <1>2 DEF Begun, Good
<1>5. /\ r \in Ios /\ r.queue = t.queue /\ r.waiting = t.waiting
      /\ r.open = t.open /\ r.backlog = t.backlog
  <2>1. [t.wire EXCEPT ![c] = "nothing"] \in [Clients -> Results \cup {"nothing"}]
    BY <1>4 DEF Ios
  <2> DEFINE w == [t.wire EXCEPT ![c] = "nothing"]
  <2>2. r = [t EXCEPT !.wire = w]  BY <1>3
  <2> HIDE DEF w, r
  <2> QED  BY <1>4, <2>1, <2>2 DEF w, Ios
<1> HIDE DEF r
<1>6. Good(r)  BY <1>2, <1>5 DEF Begun, Good, Single
<1>7. Busy(r) = Busy(t) /\ Pending(r) = Pending(t) /\ Done(r) = Done(t)
  BY <1>5 DEF Busy, Pending, Done
<1> QED  BY <1>2, <1>5, <1>6, <1>7 DEF Begun, r

LEMMA ReadBegins ==
    ASSUME NEW s, Good(s), NEW c \in Clients, c \notin Busy(s)
    PROVE  Begun(s, AsyncReadSome(s, c), c)
<1>1. CASE c \notin s.open
  BY <1>1, ReadCompletes DEF AsyncReadSome
<1>2. CASE c \in s.open /\ Readable(s, c)
  BY <1>2, ReadReceives DEF AsyncReadSome
<1>3. CASE c \in s.open /\ ~Readable(s, c)
  <2> DEFINE t == Await(s, Read(c))
  <2>1. Read(c) \in Operations /\ Read(c).on = c  BY Sorts
  <2>2. /\ Good(t) /\ Busy(t) = Busy(s) \cup {c} /\ Pending(t) = Pending(s)
        /\ Done(t) = Done(s) /\ t.open = s.open /\ t.backlog = s.backlog
    BY <1>3, <2>1, Awaiting
  <2>3. Begun(s, t, c)  BY <2>2 DEF Begun
  <2> QED  BY <1>3, <2>3 DEF AsyncReadSome
<1> QED  BY <1>1, <1>2, <1>3

LEMMA WriteCompletes ==
    ASSUME NEW s, Good(s), NEW c \in Clients, Write(c) \in s.waiting \/ c \notin Busy(s),
           NEW what \in {"sent", "error"},
           what = "error" => c \notin s.open \/ peer[c] = "closed"
    PROVE  Begun(s, Completed(s, Write(c), what), c)
<1>1. Completion(Write(c), what) \in Completions  BY DEF Completions, Completion
<1>2. Write(c) \in Operations /\ Write(c).on = c /\ Write(c) # Accept  BY Sorts
<1> DEFINE op == Write(c)
           t  == Completed(s, op, what)
<1> HIDE DEF op
<1>3. /\ op \in Operations /\ op.on = c /\ op # Accept /\ Completion(op, what) \in Completions
      /\ op \in s.waiting \/ op.on \notin Busy(s)
  BY <1>1, <1>2 DEF op
<1>4. /\ Good(t) /\ Busy(t) = Busy(s) \cup {op.on}
      /\ Pending(t) = Pending(s) \cup {d \in Clients : op = Accept /\ what = d}
      /\ Done(t) = Done(s) \cup {Completion(op, what)}
      /\ t.open = s.open /\ t.backlog = s.backlog
  BY <1>3, Completing
<1>5. what # "aborted"  BY DEF Results
<1>6. Completion(op, what).op = op /\ Completion(op, what).what = what  BY DEF Completion
<1>7. Begun(s, t, c)  BY <1>3, <1>4, <1>5, <1>6 DEF Begun
<1> QED  BY <1>7 DEF op

LEMMA WriteSends ==
    ASSUME NEW s, Good(s), NEW c \in Clients, Write(c) \in s.waiting \/ c \notin Busy(s),
           NEW r \in Sent(s, c)
    PROVE  Begun(s, r, c)
<1> DEFINE t == Completed(s, Write(c), "sent")
<1>1. CASE r = Completed(s, Write(c), "error") /\ peer[c] = "closed"
  BY <1>1, WriteCompletes
<1>2. ASSUME NEW n \in 1..s.left[c], r = [t EXCEPT !.left[c] = @ - n]
      PROVE  Begun(s, r, c)
  <2>1. Begun(s, t, c)  BY WriteCompletes
  <2>2. t \in Ios /\ s \in Ios  BY <2>1 DEF Begun, Good
  <2>3. t.left = s.left  BY <2>2 DEF Completed, Ios
  <2> HIDE DEF t
  <2>4. t.left[c] - n \in 0..Pieces
    <3>1. s.left[c] \in 0..Pieces /\ Pieces \in Nat
      BY <2>2, HttpServerAssumption DEF Ios
    <3> QED  BY <2>3, <3>1
  <2>5. /\ r \in Ios /\ r.queue = t.queue /\ r.waiting = t.waiting
        /\ r.open = t.open /\ r.backlog = t.backlog
    BY <1>2, <2>2, <2>4 DEF Ios
  <2>6. Good(r)  BY <2>1, <2>5 DEF Begun, Good, Single
  <2>7. Busy(r) = Busy(t) /\ Pending(r) = Pending(t) /\ Done(r) = Done(t)
    BY <2>5 DEF Busy, Pending, Done
  <2> QED  BY <2>1, <2>5, <2>6, <2>7 DEF Begun
<1> QED  BY <1>1, <1>2 DEF Sent

LEMMA WriteBegins ==
    ASSUME NEW s, Good(s), NEW c \in Clients, c \notin Busy(s), NEW r \in AsyncWriteSome(s, c)
    PROVE  Begun(s, r, c)
<1>1. CASE c \notin s.open
  BY <1>1, WriteCompletes DEF AsyncWriteSome
<1>2. CASE c \in s.open /\ r \in Sent(s, c)
  BY <1>2, WriteSends
<1>3. CASE c \in s.open /\ r = Await(s, Write(c))
  <2>1. Write(c) \in Operations /\ Write(c).on = c  BY Sorts
  <2>2. /\ Good(r) /\ Busy(r) = Busy(s) \cup {c} /\ Pending(r) = Pending(s)
        /\ Done(r) = Done(s) /\ r.open = s.open /\ r.backlog = s.backlog
    BY <1>3, <2>1, Awaiting
  <2> QED  BY <2>2 DEF Begun
<1> QED  BY <1>1, <1>2, <1>3 DEF AsyncWriteSome

\* An accept has been begun, or has gone on: and the connection at the head of the
\* backlog may have been accepted.
AcceptBegun(s, t) ==
    /\ Good(t) /\ Busy(t) = Busy(s) \cup {Acceptor}
    /\ \A e \in Done(t) : e \in Done(s) \/ e.op.on = Acceptor
    /\ \/ Pending(t) = Pending(s) /\ t.open = s.open /\ t.backlog = s.backlog
       \/ /\ s.backlog # <<>>
          /\ Pending(t) = Pending(s) \cup {Head(s.backlog)}
          /\ t.open = s.open \cup {Head(s.backlog)}
          /\ t.backlog = Tail(s.backlog)

LEMMA AcceptCompletes ==
    ASSUME NEW s, Good(s), Accept \in s.waiting \/ Acceptor \notin Busy(s)
    PROVE  AcceptBegun(s, Completed(s, Accept, NoClient))
<1> DEFINE t == Completed(s, Accept, NoClient)
<1>1. Completion(Accept, NoClient) \in Completions  BY DEF Completions, Completion
<1>2. Completion(Accept, NoClient).op.on = Acceptor  BY DEF Completion, Accept
<1>3. /\ Good(t) /\ Busy(t) = Busy(s) \cup {Acceptor}
      /\ Pending(t) = Pending(s) \cup {c \in Clients : Accept = Accept /\ NoClient = c}
      /\ Done(t) = Done(s) \cup {Completion(Accept, NoClient)}
      /\ t.open = s.open /\ t.backlog = s.backlog
  BY <1>1, Completing, Sorts
<1> HIDE DEF t
<1> QED  BY <1>2, <1>3, Sorts DEF AcceptBegun, t

LEMMA Accepts ==
    ASSUME NEW s, Good(s), s.backlog # <<>>, Accept \in s.waiting \/ Acceptor \notin Busy(s)
    PROVE  AcceptBegun(s, Accepting(s))
<1> DEFINE c == Head(s.backlog)
           t == Completed(s, Accept, c)
           r == [t EXCEPT !.backlog = Tail(@), !.open = @ \cup {c}]
<1>1. c \in Clients /\ Tail(s.backlog) \in Seq(Clients)  BY DEF Good, Ios
<1> HIDE DEF c
<1>2. Completion(Accept, c) \in Completions  BY <1>1 DEF Completions, Completion
<1>3. Completion(Accept, c).op.on = Acceptor  BY DEF Completion, Accept
<1>4. /\ Good(t) /\ Busy(t) = Busy(s) \cup {Acceptor}
      /\ Pending(t) = Pending(s) \cup {d \in Clients : Accept = Accept /\ c = d}
      /\ Done(t) = Done(s) \cup {Completion(Accept, c)}
      /\ t.open = s.open /\ t.backlog = s.backlog
  BY <1>2, Completing, Sorts
<1> HIDE DEF t
<1>5. /\ r \in Ios /\ r.queue = t.queue /\ r.waiting = t.waiting
      /\ r.open = s.open \cup {c} /\ r.backlog = Tail(s.backlog)
  <2>1. t \in Ios /\ s.open \cup {c} \subseteq Clients \cup {Acceptor}
    BY <1>1, <1>4 DEF Good, Ios
  <2>2. r = [t EXCEPT !.backlog = Tail(s.backlog), !.open = s.open \cup {c}]
    BY <1>4
  <2> HIDE DEF r
  <2> QED  BY <1>1, <2>1, <2>2 DEF Ios
<1> HIDE DEF r
<1>6. Good(r)  BY <1>4, <1>5 DEF Good, Single
<1>7. Busy(r) = Busy(t) /\ Pending(r) = Pending(t) /\ Done(r) = Done(t)
  BY <1>5 DEF Busy, Pending, Done
<1>8. Pending(r) = Pending(s) \cup {c}  BY <1>1, <1>4, <1>7
<1>9. AcceptBegun(s, r)
  BY <1>3, <1>4, <1>5, <1>6, <1>7, <1>8 DEF AcceptBegun, c
<1>10. Accepting(s) = r \/ Accepting(s) = Completed(s, Accept, NoClient)
  BY DEF Accepting, r, t, c
<1> QED  BY <1>9, <1>10, AcceptCompletes

LEMMA AcceptBegins ==
    ASSUME NEW s, Good(s), Acceptor \notin Busy(s)
    PROVE  AcceptBegun(s, AsyncAccept(s))
<1>1. CASE Acceptor \notin s.open
  BY <1>1, AcceptCompletes DEF AsyncAccept
<1>2. CASE Acceptor \in s.open /\ s.backlog # <<>>
  BY <1>2, Accepts DEF AsyncAccept
<1>3. CASE Acceptor \in s.open /\ s.backlog = <<>>
  <2> DEFINE t == Await(s, Accept)
  <2>1. /\ Good(t) /\ Busy(t) = Busy(s) \cup {Acceptor} /\ Pending(t) = Pending(s)
        /\ Done(t) = Done(s) /\ t.open = s.open /\ t.backlog = s.backlog
    BY <1>3, Awaiting, Sorts
  <2>2. AcceptBegun(s, t)  BY <2>1 DEF AcceptBegun
  <2> QED  BY <1>3, <2>2 DEF AsyncAccept
<1> QED  BY <1>1, <1>2, <1>3

-----------------------------------------------------------------------------
(* What that leaves sound.                                                 *)

LEMMA BegunKeeps ==
    ASSUME NEW s, NEW c \in Clients, Good(s), Fresh(s, peer), Caused(s, peer),
           c \notin Listed(s), c \notin Pending(s), peer[c] # "new", NEW t, Begun(s, t, c)
    PROVE  Good(t) /\ Fresh(t, peer) /\ Caused(t, peer) /\ Listed(t) = Listed(s)
<1>1. /\ Good(t) /\ Busy(t) = Busy(s) \cup {c} /\ Pending(t) = Pending(s)
      /\ t.open = s.open /\ Listed(t) = Listed(s) /\ t.backlog = s.backlog
  BY DEF Begun, Listed
<1>2. Fresh(t, peer)  BY <1>1 DEF Fresh
<1>3. Caused(t, peer)  BY <1>1 DEF Caused, Begun
<1> QED  BY <1>1, <1>2, <1>3

LEMMA ClosingKeeps ==
    ASSUME NEW s, NEW p, Good(s), Fresh(s, p), Caused(s, p), NEW ds, NEW t \in Closed(s, ds)
    PROVE  Good(t) /\ Fresh(t, p) /\ Caused(t, p)
<1>1. /\ Good(t) /\ Busy(t) \subseteq Busy(s) /\ Pending(t) = Pending(s)
      /\ \A e \in Done(t) : e \notin Done(s) => e.op.on \in ds /\ e.what = "aborted"
      /\ t.open = s.open \ ds /\ t.backlog = s.backlog
  BY Closing
<1>2. Listed(t) = Listed(s)  BY <1>1 DEF Listed
<1>3. Fresh(t, p)  BY <1>1, <1>2 DEF Fresh
<1>4. Caused(t, p)  BY <1>1 DEF Caused
<1> QED  BY <1>1, <1>3, <1>4

LEMMA Idle ==
    ASSUME NEW s, Good(s), Acceptor \notin Busy(s) \/ Accept \in s.waiting
    PROVE  Pending(s) = {}
<1> SUFFICES ASSUME NEW i \in DOMAIN s.queue, NEW c \in Clients,
                    s.queue[i] = Completion(Accept, c)
             PROVE  FALSE
  BY DEF Pending
<1>1. s.queue[i].op.on = Acceptor /\ Accept.on = Acceptor  BY DEF Completion, Accept
<1> QED  BY <1>1 DEF Good, Single, Busy

LEMMA AcceptSound ==
    ASSUME NEW s, NEW known, Sound(s, known, peer), Pending(s) = {}, NEW t, AcceptBegun(s, t)
    PROVE  Sound(t, known, peer)
<1>1. /\ Good(s) /\ Kept(s, known) /\ Fresh(s, peer) /\ Caused(s, peer)
      /\ s.backlog \in Seq(Clients) /\ Listed(s) \subseteq Clients
  BY DEF Sound, Good, Ios, Listed
<1>2. /\ Good(t) /\ Busy(t) = Busy(s) \cup {Acceptor}
      /\ \A e \in Done(t) : e \in Done(s) \/ e.op.on = Acceptor
  BY DEF AcceptBegun
<1>3. CASE Pending(t) = Pending(s) /\ t.open = s.open /\ t.backlog = s.backlog
  <2>1. Listed(t) = Listed(s)  BY <1>3 DEF Listed
  <2>2. Kept(t, known)  BY <1>1, <1>2, <1>3 DEF Kept
  <2>3. Fresh(t, peer)  BY <1>1, <1>2, <1>3, <2>1, Sorts DEF Fresh
  <2>4. Caused(t, peer)  BY <1>1, <1>2, <1>3, Sorts DEF Caused
  <2> QED  BY <1>2, <2>2, <2>3, <2>4 DEF Sound
<1>4. ASSUME s.backlog # <<>>, Pending(t) = Pending(s) \cup {Head(s.backlog)},
             t.open = s.open \cup {Head(s.backlog)}, t.backlog = Tail(s.backlog)
      PROVE  Sound(t, known, peer)
  <2> DEFINE b == s.backlog
             c == Head(b)
  <2>1. /\ DOMAIN b = 1..Len(b) /\ DOMAIN Tail(b) = 1..(Len(b) - 1)
        /\ Len(b) \in Nat \ {0} /\ c = b[1]
        /\ \A i \in 1..(Len(b) - 1) : Tail(b)[i] = b[i + 1]
    BY <1>1, <1>4
  <2>2. c \in Listed(s) /\ c \in Clients  BY <1>1, <2>1 DEF Listed
  <2>3. Listed(t) \subseteq Listed(s) \ {c}
    <3>1. ASSUME NEW i \in 1..(Len(b) - 1) PROVE Tail(b)[i] \in Listed(s) \ {c}
      <4>1. i + 1 \in DOMAIN b /\ i + 1 # 1 /\ 1 \in DOMAIN b  BY <2>1
      <4>2. b[i + 1] # b[1]  BY <1>1, <4>1 DEF Fresh
      <4> QED  BY <2>1, <4>1, <4>2 DEF Listed
    <3> QED  BY <1>4, <2>1, <3>1 DEF Listed
  <2>4. \A i, j \in DOMAIN t.backlog : t.backlog[i] = t.backlog[j] => i = j
    <3>1. ASSUME NEW i \in 1..(Len(b) - 1), NEW j \in 1..(Len(b) - 1),
                 Tail(b)[i] = Tail(b)[j]
          PROVE  i = j
      <4>1. i + 1 \in DOMAIN b /\ j + 1 \in DOMAIN b /\ b[i + 1] = b[j + 1]
        BY <2>1, <3>1
      <4>2. i + 1 = j + 1  BY <1>1, <4>1 DEF Fresh
      <4> QED  BY <4>2
    <3> QED  BY <1>4, <2>1, <3>1
  <2> HIDE DEF b, c
  <2>5. Pending(t) = {c} /\ t.open = s.open \cup {c}  BY <1>4 DEF b, c
  <2>6. c \notin Busy(s) /\ c \notin s.open /\ c # Acceptor
    BY <1>1, <2>2, Sorts DEF Fresh
  <2>7. Kept(t, known)
    <3>1. c \notin known  BY <1>1, <2>6 DEF Kept
    <3> QED  BY <1>1, <1>2, <2>5, <2>6, <3>1 DEF Kept
  <2>8. Fresh(t, peer)
    <3>1. Listed(t) \cap (Busy(t) \cup t.open) = {}
      BY <1>1, <1>2, <2>3, <2>5, Sorts DEF Fresh
    <3>2. Pending(t) \cap Busy(t) = {}  BY <1>2, <2>5, <2>6
    <3>3. \A d \in Clients : peer[d] = "new" => d \notin Busy(t) \cup t.open \cup Listed(t)
      BY <1>1, <1>2, <2>2, <2>3, <2>5, Sorts DEF Fresh
    <3> QED  BY <2>4, <3>1, <3>2, <3>3 DEF Fresh
  <2>9. Caused(t, peer)
    <3>1. \A e \in Done(s) : e.op.on # c
      BY <2>6 DEF Busy, Done
    <3> QED  BY <1>1, <1>2, <2>5, <3>1, Sorts DEF Caused
  <2> QED  BY <1>2, <2>7, <2>8, <2>9 DEF Sound
<1> QED  BY <1>3, <1>4 DEF AcceptBegun

\* The state a handler starts from.
LEMMA TakingKeeps ==
    ASSUME IInv, io.queue # <<>>
    PROVE  LET done == Head(io.queue)
           IN  /\ done \in Completions /\ done.op.on \in Busy(io)
               /\ Good(Taken) /\ Fresh(Taken, peer) /\ Caused(Taken, peer)
               /\ Busy(Taken) = Busy(io) \ {done.op.on} /\ Listed(Taken) = Listed(io)
               /\ Taken.open = io.open /\ Taken.backlog = io.backlog
               /\ done.op # Accept => Pending(Taken) = Pending(io)
               /\ done.op = Accept => /\ Pending(Taken) = {}
                                      /\ Pending(io) = {c \in Clients : done.what = c}
               /\ done.op.on \in Clients =>
                    /\ done.what = "aborted" => done.op.on \notin io.open
                    /\ done.what = "error" => done.op.on \notin io.open \/ peer[done.op.on] = "closed"
<1> DEFINE done == Head(io.queue)
<1>1. /\ Good(io) /\ Kept(io, connections) /\ Fresh(io, peer) /\ Caused(io, peer)
  BY DEF IInv, Sound
<1>2. /\ done \in Completions
      /\ Good(Taken) /\ Busy(Taken) = Busy(io) \ {done.op.on}
      /\ done.op.on \in Busy(io)
      /\ Pending(io) = Pending(Taken)
            \cup {c \in Clients : done.op = Accept /\ done.what = c}
      /\ Done(io) = Done(Taken) \cup {done}
      /\ Taken.open = io.open /\ Taken.backlog = io.backlog
  BY <1>1, Taking
<1> HIDE DEF done
<1>3. Listed(Taken) = Listed(io)  BY <1>2 DEF Listed
<1>4. Fresh(Taken, peer)  BY <1>1, <1>2, <1>3 DEF Fresh
<1>5. Caused(Taken, peer)  BY <1>1, <1>2 DEF Caused
<1>6. done.op # Accept => Pending(Taken) = Pending(io)  BY <1>2
<1>7. ASSUME done.op = Accept
      PROVE  Pending(Taken) = {} /\ Pending(io) = {c \in Clients : done.what = c}
  <2>1. Acceptor \notin Busy(Taken)  BY <1>2, <1>7, Sorts
  <2>2. Pending(Taken) = {}  BY <1>2, <2>1, Idle
  <2> QED  BY <1>2, <1>7, <2>2
<1>8. done.op.on \in Clients =>
        /\ done.what = "aborted" => done.op.on \notin io.open
        /\ done.what = "error" => done.op.on \notin io.open \/ peer[done.op.on] = "closed"
  BY <1>1, <1>2 DEF Caused
<1> QED  BY <1>2, <1>3, <1>4, <1>5, <1>6, <1>7, <1>8 DEF done

-----------------------------------------------------------------------------
(* The steps.                                                              *)

\* What a step leaves when it neither ends the run nor moves a client or a signal.
Goes ==
    /\ Sound(io', connections', peer) /\ connections' \subseteq Clients
    /\ Acceptor \in io'.open => Acceptor \in Busy(io')
    /\ "signals" \in Busy(io') => signalled

LEMMA GoesOn ==
    ASSUME IInv, io.queue # <<>>, NEW c \in Clients, Head(io.queue).op.on = c,
           Head(io.queue).op # Accept, NEW s, Good(s), s.queue = Taken.queue,
           s.waiting = Taken.waiting, s.open = Taken.open, s.backlog = Taken.backlog,
           Begun(s, io', c), connections' = connections
    PROVE  Goes
<1>1. /\ Kept(io, connections) /\ Fresh(io, peer) /\ connections \subseteq Clients
  BY DEF IInv, Sound, TypeOK
<1>2. /\ c \in Busy(io) /\ Fresh(Taken, peer) /\ Caused(Taken, peer)
      /\ Busy(Taken) = Busy(io) \ {c} /\ Listed(Taken) = Listed(io)
      /\ Taken.open = io.open /\ Pending(Taken) = Pending(io)
  BY TakingKeeps
<1>3. /\ Busy(s) = Busy(Taken) /\ Pending(s) = Pending(Taken) /\ Done(s) = Done(Taken)
      /\ Listed(s) = Listed(Taken)
  BY DEF Busy, Pending, Done, Listed
<1>4. Fresh(s, peer) /\ Caused(s, peer)  BY <1>2, <1>3 DEF Fresh, Caused
<1>5. c \notin Listed(s) /\ c \notin Pending(s) /\ peer[c] # "new"
  BY <1>1, <1>2, <1>3 DEF Fresh
<1>6. Good(io') /\ Fresh(io', peer) /\ Caused(io', peer)
  BY <1>4, <1>5, BegunKeeps
<1>7. Busy(io') = Busy(io) /\ Pending(io') = Pending(io) /\ io'.open = io.open
  BY <1>2, <1>3 DEF Begun
<1>8. Kept(io', connections)  BY <1>1, <1>7 DEF Kept
<1> QED  BY <1>1, <1>6, <1>7, <1>8 DEF Goes, Sound, IInv

LEMMA Stops ==
    ASSUME IInv, io.queue # <<>>, NEW c \in Clients, Head(io.queue).op.on = c,
           Head(io.queue).op # Accept, Stop(Taken, c)
    PROVE  Goes
<1>1. /\ Kept(io, connections) /\ Fresh(io, peer) /\ connections \subseteq Clients
  BY DEF IInv, Sound, TypeOK
<1>2. /\ c \in Busy(io) /\ Good(Taken) /\ Fresh(Taken, peer) /\ Caused(Taken, peer)
      /\ Busy(Taken) = Busy(io) \ {c}
      /\ Taken.open = io.open /\ Pending(Taken) = Pending(io)
  BY TakingKeeps
<1>3. connections' = connections \ {c} /\ io' \in Closed(Taken, {c})  BY DEF Stop
<1>4. Good(io') /\ Fresh(io', peer) /\ Caused(io', peer)
  BY <1>2, <1>3, ClosingKeeps
<1>5. /\ Busy(io') \subseteq Busy(Taken) /\ Busy(Taken) \ {c} \subseteq Busy(io')
      /\ Pending(io') = Pending(Taken) /\ io'.open = Taken.open \ {c}
  BY <1>2, <1>3, Closing
<1>6. Busy(io') = Busy(io) \ {c}  BY <1>2, <1>5
<1>7. c \notin Pending(io)  BY <1>1, <1>2 DEF Fresh
<1>8. Kept(io', connections')
  BY <1>1, <1>2, <1>3, <1>5, <1>6, <1>7 DEF Kept
<1> QED  BY <1>1, <1>2, <1>3, <1>4, <1>5, <1>6, <1>8, Sorts DEF Goes, Sound, IInv

\* The handler of an operation that was cancelled returns.
LEMMA Returns ==
    ASSUME IInv, io.queue # <<>>, NEW c \in Clients, Head(io.queue).op.on = c,
           Head(io.queue).op # Accept, Head(io.queue).what = "aborted",
           io' = Taken, connections' = connections
    PROVE  Goes
<1>1. /\ Kept(io, connections) /\ connections \subseteq Clients
  BY DEF IInv, Sound, TypeOK
<1>2. /\ Good(Taken) /\ Fresh(Taken, peer) /\ Caused(Taken, peer)
      /\ Busy(Taken) = Busy(io) \ {c} /\ c \notin io.open
      /\ Taken.open = io.open /\ Pending(Taken) = Pending(io)
  BY TakingKeeps
<1>3. Kept(Taken, connections)  BY <1>1, <1>2, Sorts DEF Kept
<1> QED  BY <1>1, <1>2, <1>3, Sorts DEF Goes, Sound, IInv

LEMMA Named ==
    ASSUME NEW e \in Completions
    PROVE  /\ e.op.of = "read" => \E c \in Clients : e.op = Read(c) /\ e.op.on = c
           /\ e.op.of = "write" => \E c \in Clients : e.op = Write(c) /\ e.op.on = c
           /\ e.op.of = "accept" => e.op = Accept /\ e.op.on = Acceptor
<1>1. /\ Signal.op.of = "signal" /\ Accept.of = "accept"
      /\ \A c \in Clients : Read(c).of = "read" /\ Write(c).of = "write"
  BY DEF Signal, Completion, Accept, Read, Write
<1>2. \/ e = Signal \/ e.op = Accept
      \/ \E c \in Clients : e.op = Read(c) \/ e.op = Write(c)
  BY DEF Completions
<1> QED  BY <1>1, <1>2, Sorts

LEMMA ReadHandled ==
    ASSUME IInv, io.queue # <<>>, NEW c \in Clients, Head(io.queue).op = Read(c),
           OnRead(c, Head(io.queue).what)
    PROVE  Goes
<1> DEFINE what == Head(io.queue).what
           s == [Taken EXCEPT !.left[c] = Pieces]
<1>1. Head(io.queue).op.on = c /\ Head(io.queue).op # Accept  BY Sorts
<1>2. Good(Taken) /\ c \notin Busy(Taken)  BY <1>1, TakingKeeps
<1>3. CASE what = "decided" /\ io' \in AsyncWriteSome(s, c) /\ connections' = connections
  <2>1. /\ s \in Ios /\ s.queue = Taken.queue /\ s.waiting = Taken.waiting
        /\ s.open = Taken.open /\ s.backlog = Taken.backlog
    <3>1. Taken \in Ios /\ Pieces \in 0..Pieces
      BY <1>2, HttpServerAssumption DEF Good
    <3>2. [Taken.left EXCEPT ![c] = Pieces] \in [Clients -> 0..Pieces]
      BY <3>1 DEF Ios
    <3> DEFINE l == [Taken.left EXCEPT ![c] = Pieces]
    <3>3. s = [Taken EXCEPT !.left = l]  OBVIOUS
    <3> HIDE DEF l, s
    <3> QED  BY <3>1, <3>2, <3>3 DEF l, Ios
  <2> HIDE DEF s
  <2>2. Good(s) /\ Busy(s) = Busy(Taken)  BY <1>2, <2>1 DEF Good, Single, Busy
  <2>3. Begun(s, io', c)  BY <1>2, <1>3, <2>2, WriteBegins
  <2> QED  BY <1>1, <1>3, <2>1, <2>2, <2>3, GoesOn
<1>4. CASE what = "more" /\ io' = AsyncReadSome(Taken, c) /\ connections' = connections
  <2>1. Begun(Taken, io', c)  BY <1>2, <1>4, ReadBegins
  <2> QED  BY <1>1, <1>2, <1>4, <2>1, GoesOn
<1>5. CASE Stop(Taken, c)  BY <1>1, <1>5, Stops
<1>6. CASE what = "aborted" /\ io' = Taken /\ connections' = connections
  BY <1>1, <1>6, Returns
<1> QED  BY <1>3, <1>4, <1>5, <1>6 DEF OnRead

LEMMA WriteHandled ==
    ASSUME IInv, io.queue # <<>>, NEW c \in Clients, Head(io.queue).op = Write(c),
           OnWrite(c, Head(io.queue).what)
    PROVE  Goes
<1> DEFINE what == Head(io.queue).what
<1>1. Head(io.queue).op.on = c /\ Head(io.queue).op # Accept  BY Sorts
<1>2. Good(Taken) /\ c \notin Busy(Taken)  BY <1>1, TakingKeeps
<1>3. CASE io' \in AsyncWriteSome(Taken, c) /\ connections' = connections
  <2>1. Begun(Taken, io', c)  BY <1>2, <1>3, WriteBegins
  <2> QED  BY <1>1, <1>2, <1>3, <2>1, GoesOn
<1>4. CASE Stop(Taken, c)  BY <1>1, <1>4, Stops
<1>5. CASE what = "aborted" /\ io' = Taken /\ connections' = connections
  BY <1>1, <1>5, Returns
<1> QED  BY <1>3, <1>4, <1>5 DEF OnWrite

LEMMA AcceptHandled ==
    ASSUME IInv, io.queue # <<>>, Head(io.queue).op = Accept,
           OnAccept(Head(io.queue).what)
    PROVE  Goes
<1> DEFINE c == Head(io.queue).what
<1>1. /\ Kept(io, connections) /\ Fresh(io, peer) /\ connections \subseteq Clients
      /\ io.open \subseteq Clients \cup {Acceptor}
      /\ Busy(io) \subseteq Clients \cup {Acceptor, "signals"}
  <2>1. io.waiting \subseteq Operations /\ io.queue \in Seq(Completions)
        /\ io.open \subseteq Clients \cup {Acceptor}
    BY DEF IInv, Sound, Good, Ios
  <2>2. \A op \in io.waiting : op.on \in Clients \cup {Acceptor}  BY <2>1, Sorts
  <2>3. \A i \in DOMAIN io.queue : io.queue[i].op.on \in Clients \cup {Acceptor, "signals"}
    BY <2>1, Ended
  <2>4. Busy(io) \subseteq Clients \cup {Acceptor, "signals"}
    BY <2>2, <2>3 DEF Busy
  <2> QED  BY <2>1, <2>4 DEF IInv, Sound, TypeOK
<1>2. /\ Good(Taken) /\ Fresh(Taken, peer) /\ Caused(Taken, peer)
      /\ Busy(Taken) = Busy(io) \ {Acceptor} /\ Listed(Taken) = Listed(io)
      /\ Taken.open = io.open /\ Taken.backlog = io.backlog
      /\ Pending(Taken) = {} /\ Pending(io) = {d \in Clients : c = d}
      /\ Acceptor \in Busy(io) /\ Head(io.queue) \in Completions
  BY TakingKeeps, Sorts
<1> HIDE DEF c
<1>3. ASSUME Acceptor \in io.open, c \in Clients, connections' = connections \cup {c},
             io' = AsyncAccept(AsyncReadSome(Taken, c))
      PROVE  Goes
  <2> DEFINE s == AsyncReadSome(Taken, c)
  <2>1. c \in Pending(io) /\ c \in io.open /\ c \notin Busy(io) /\ c # Acceptor
    BY <1>1, <1>2, <1>3, Sorts DEF Kept, Fresh
  <2>2. c \notin Listed(Taken) /\ c \notin Pending(Taken) /\ peer[c] # "new"
    BY <1>1, <1>2, <1>3, <2>1 DEF Fresh
  <2>3. Begun(Taken, s, c)  BY <1>2, <1>3, <2>1, ReadBegins
  <2> HIDE DEF s
  <2>4. Good(s) /\ Fresh(s, peer) /\ Caused(s, peer)
    BY <1>2, <1>3, <2>2, <2>3, BegunKeeps
  <2>5. /\ Busy(s) = (Busy(io) \ {Acceptor}) \cup {c} /\ Pending(s) = {}
        /\ s.open = io.open /\ s.backlog = io.backlog
    BY <1>2, <2>3 DEF Begun
  <2>6. Kept(s, connections')
    BY <1>1, <1>2, <1>3, <2>5, Sorts DEF Kept
  <2>7. Acceptor \notin Busy(s)  BY <2>1, <2>5
  <2>8. AcceptBegun(s, io')  BY <1>3, <2>4, <2>7, AcceptBegins DEF s
  <2>9. Sound(io', connections', peer)
    BY <2>4, <2>5, <2>6, <2>8, AcceptSound DEF Sound
  <2>10. Busy(io') = Busy(io) \cup {c}  BY <1>2, <2>5, <2>8 DEF AcceptBegun
  <2> QED  BY <1>1, <1>2, <1>3, <2>9, <2>10, Sorts DEF Goes, IInv
<1>4. ASSUME c \notin Clients, io' = AsyncAccept(Taken), connections' = connections
      PROVE  Goes
  <2>1. Pending(io) = {}  BY <1>2, <1>4
  <2>2. Kept(Taken, connections)  BY <1>1, <1>2, <2>1, Sorts DEF Kept
  <2>3. AcceptBegun(Taken, io')  BY <1>2, <1>4, AcceptBegins
  <2>4. Sound(io', connections, peer)
    BY <1>2, <2>2, <2>3, AcceptSound DEF Sound
  <2>5. Busy(io') = Busy(io)  BY <1>2, <2>3 DEF AcceptBegun
  <2> QED  BY <1>1, <1>2, <1>4, <2>4, <2>5 DEF Goes, IInv
<1>5. ASSUME Acceptor \notin io.open, io' \in Closed(Taken, {c}), connections' = connections
      PROVE  Goes
  <2>1. Good(io') /\ Fresh(io', peer) /\ Caused(io', peer)
    BY <1>2, <1>5, ClosingKeeps
  <2>2. /\ Busy(io') \subseteq Busy(Taken) /\ Busy(Taken) \ {c} \subseteq Busy(io')
        /\ Pending(io') = {} /\ io'.open = io.open \ {c}
    BY <1>2, <1>5, Closing
  <2>3. c \in Clients \/ c \in {NoClient, "aborted"}
    BY <1>2, Sorts DEF Completions, Signal, Completion, Accept, Read, Write, c
  <2>4. c \notin connections
    BY <1>1, <1>2, <2>3, Sorts DEF Kept
  <2>5. Kept(io', connections)
    BY <1>1, <1>2, <2>2, <2>4, Sorts DEF Kept
  <2> QED  BY <1>1, <1>2, <1>5, <2>1, <2>2, <2>5 DEF Goes, Sound, IInv
<1>6. NoClient \notin Clients  BY Sorts
<1> QED  BY <1>3, <1>4, <1>5, <1>6 DEF OnAccept, c

LEMMA SignalHandled ==
    ASSUME IInv, io.queue # <<>>, Head(io.queue) = Signal, OnSignal
    PROVE  Goes
<1>1. /\ Kept(io, connections) /\ Fresh(io, peer) /\ connections \subseteq Clients
  BY DEF IInv, Sound, TypeOK
<1>2. Signal.op.on = "signals" /\ Signal.op # Accept
  BY Sorts DEF Signal, Completion, Accept
<1>3. /\ Good(Taken) /\ Fresh(Taken, peer) /\ Caused(Taken, peer)
      /\ Busy(Taken) = Busy(io) \ {"signals"}
      /\ Taken.open = io.open /\ Pending(Taken) = Pending(io)
  BY <1>2, TakingKeeps
<1>4. PICK s \in Closed(Taken, {Acceptor}) : StopAll(s)
  BY DEF OnSignal
<1>5. /\ Good(s) /\ Fresh(s, peer) /\ Caused(s, peer)
      /\ Busy(s) \subseteq Busy(Taken) /\ Pending(s) = Pending(io)
      /\ s.open = io.open \ {Acceptor}
  BY <1>3, <1>4, Closing, ClosingKeeps
<1>6. io' \in Closed(s, connections) /\ connections' = {}  BY <1>4 DEF StopAll
<1>7. /\ Good(io') /\ Fresh(io', peer) /\ Caused(io', peer)
      /\ Busy(io') \subseteq Busy(s) /\ Pending(io') = Pending(io)
      /\ io'.open = (io.open \ {Acceptor}) \ connections
  BY <1>5, <1>6, Closing, ClosingKeeps
<1>8. Kept(io', {})  BY <1>1, <1>7 DEF Kept
<1> QED  BY <1>3, <1>5, <1>6, <1>7, <1>8 DEF Goes, Sound

LEMMA Handled ==
    ASSUME IInv, Run
    PROVE  Goes /\ UNCHANGED <<phase, peer, signalled>>
<1> DEFINE done == Head(io.queue)
<1>1. io.queue # <<>> /\ done \in Completions
  BY TakingKeeps DEF Run
<1>2. CASE done.op.of = "accept" /\ OnAccept(done.what)
  BY <1>1, <1>2, Named, AcceptHandled DEF OnAccept
<1>3. CASE done.op.of = "read" /\ OnRead(done.op.on, done.what)
  <2>1. PICK c \in Clients : done.op = Read(c) /\ done.op.on = c
    BY <1>1, <1>3, Named
  <2> QED  BY <1>1, <1>3, <2>1, ReadHandled DEF OnRead
<1>4. CASE done.op.of = "write" /\ OnWrite(done.op.on, done.what)
  <2>1. PICK c \in Clients : done.op = Write(c) /\ done.op.on = c
    BY <1>1, <1>4, Named
  <2> QED  BY <1>1, <1>4, <2>1, WriteHandled DEF OnWrite
<1>5. CASE done = Signal /\ OnSignal
  BY <1>1, <1>5, SignalHandled DEF OnSignal
<1> QED  BY <1>2, <1>3, <1>4, <1>5 DEF Run

\* The kernel reports: an operation that waited has gone on.
LEMMA Polled ==
    ASSUME IInv, NEW c \in Clients, PollAccept \/ PollRead(c) \/ PollWrite(c)
    PROVE  Goes /\ UNCHANGED <<phase, connections, peer, signalled>>
<1>1. /\ Good(io) /\ Kept(io, connections) /\ Fresh(io, peer) /\ Caused(io, peer)
      /\ connections \subseteq Clients /\ Sound(io, connections, peer)
  BY DEF IInv, Sound, TypeOK
<1>2. CASE PollAccept
  <2>1. AcceptBegun(io, io')  BY <1>1, <1>2, Accepts DEF PollAccept
  <2>2. Accept.on \in Busy(io) /\ Accept.on = Acceptor
    BY <1>2, Sorts DEF PollAccept, Busy
  <2>3. Pending(io) = {}  BY <1>1, <1>2, Idle DEF PollAccept
  <2>4. Sound(io', connections, peer)  BY <1>1, <2>1, <2>3, AcceptSound
  <2>5. Busy(io') = Busy(io)  BY <2>1, <2>2 DEF AcceptBegun
  <2> QED  BY <1>1, <1>2, <2>2, <2>4, <2>5 DEF Goes, IInv, PollAccept
<1>3. ASSUME c \in Busy(io), Begun(io, io', c), UNCHANGED <<phase, connections, peer, signalled>>
      PROVE  Goes
  <2>1. c \notin Listed(io) /\ c \notin Pending(io) /\ peer[c] # "new"
    BY <1>1, <1>3 DEF Fresh
  <2>2. Good(io') /\ Fresh(io', peer) /\ Caused(io', peer)
    BY <1>1, <1>3, <2>1, BegunKeeps
  <2>3. Busy(io') = Busy(io) /\ Pending(io') = Pending(io) /\ io'.open = io.open
    BY <1>3 DEF Begun
  <2>4. Kept(io', connections)  BY <1>1, <2>3 DEF Kept
  <2> QED  BY <1>1, <1>3, <2>2, <2>3, <2>4 DEF Goes, Sound, IInv
<1>4. CASE PollRead(c)
  <2>1. c \in Busy(io)  BY <1>4, Sorts DEF PollRead, Busy
  <2>2. Begun(io, io', c)  BY <1>1, <1>4, ReadReceives DEF PollRead
  <2> QED  BY <1>3, <1>4, <2>1, <2>2 DEF PollRead
<1>5. CASE PollWrite(c)
  <2>1. c \in Busy(io)  BY <1>5, Sorts DEF PollWrite, Busy
  <2>2. Begun(io, io', c)  BY <1>1, <1>5, WriteSends DEF PollWrite
  <2> QED  BY <1>3, <1>5, <2>1, <2>2 DEF PollWrite
<1> QED  BY <1>2, <1>4, <1>5 DEF PollAccept

LEMMA Interrupted ==
    ASSUME IInv, Interrupt
    PROVE  IInv'
<1>1. /\ Good(io) /\ Kept(io, connections) /\ Fresh(io, peer) /\ Caused(io, peer) /\ TypeOK
  BY DEF IInv, Sound
<1> DEFINE op == Signal.op
<1>2. /\ Signal = Completion(op, "signal") /\ op.on = "signals" /\ op # Accept
      /\ Signal \in Completions /\ Signal.op.on = "signals"
  BY Sorts DEF Signal, Completion, Accept, Completions
<1>3. "signals" \notin Busy(io)  BY DEF Interrupt, IInv
<1>4. io' = Completed(io, op, "signal")
  <2>1. op \notin io.waiting
    BY <1>2, <1>3 DEF Busy
  <2>2. io' = [io EXCEPT !.queue = Append(io.queue, Signal)]  BY DEF Interrupt
  <2>3. io = [io EXCEPT !.waiting = io.waiting]  BY <1>1 DEF Good, Ios
  <2>4. io.waiting \ {op} = io.waiting  BY <2>1
  <2>5. Completed(io, op, "signal")
          = [io EXCEPT !.queue = Append(io.queue, Signal), !.waiting = io.waiting]
    BY <1>2, <2>4 DEF Completed
  <2> QED  BY <1>1, <2>2, <2>5 DEF Good, Ios
<1> HIDE DEF op
<1>5. /\ Good(io') /\ Busy(io') = Busy(io) \cup {op.on}
      /\ Pending(io') = Pending(io) \cup {c \in Clients : op = Accept /\ "signal" = c}
      /\ Done(io') = Done(io) \cup {Completion(op, "signal")}
      /\ io'.open = io.open /\ io'.backlog = io.backlog
  BY <1>1, <1>2, <1>3, <1>4, Completing
<1>6. Pending(io') = Pending(io) /\ Busy(io') = Busy(io) \cup {"signals"}
  BY <1>2, <1>5
<1>7. Listed(io') = Listed(io) /\ Listed(io) \subseteq Clients
  BY <1>1, <1>5 DEF Listed, Good, Ios
<1>8. Kept(io', connections)  BY <1>1, <1>5, <1>6 DEF Kept
<1>9. Fresh(io', peer)
  <2>1. "signals" \notin Clients /\ Pending(io) \subseteq Clients
    BY Sorts DEF Pending
  <2> QED  BY <1>1, <1>5, <1>6, <1>7, <2>1 DEF Fresh
<1>10. Caused(io', peer)  BY <1>1, <1>2, <1>5, Sorts DEF Caused
<1>11. TypeOK'  BY <1>1, <1>5 DEF TypeOK, Interrupt, Good
<1> QED
  BY <1>1, <1>5, <1>6, <1>8, <1>9, <1>10, <1>11 DEF IInv, Sound, Interrupt

LEMMA Connected ==
    ASSUME IInv, NEW c \in Clients, Connect(c)
    PROVE  IInv'
<1>1. /\ Good(io) /\ Kept(io, connections) /\ Fresh(io, peer) /\ Caused(io, peer) /\ TypeOK
      /\ io \in Ios
  BY DEF IInv, Sound, TypeOK
<1> DEFINE b == io.backlog
<1>2. /\ io'.backlog = Append(b, c) /\ io'.queue = io.queue
      /\ io'.waiting = io.waiting /\ io'.open = io.open /\ io' \in Ios
  <2>1. Append(b, c) \in Seq(Clients) /\ io' = [io EXCEPT !.backlog = Append(b, c)]
    BY <1>1 DEF Ios, Connect
  <2> QED  BY <1>1, <2>1 DEF Ios
<1>3. Good(io')  BY <1>1, <1>2 DEF Good, Single
<1>4. Busy(io') = Busy(io) /\ Pending(io') = Pending(io) /\ Done(io') = Done(io)
  BY <1>2 DEF Busy, Pending, Done
<1>5. /\ b \in Seq(Clients) /\ DOMAIN b = 1..Len(b) /\ DOMAIN io'.backlog = 1..(Len(b) + 1)
      /\ Len(b) \in Nat /\ io'.backlog[Len(b) + 1] = c
      /\ \A i \in 1..Len(b) : io'.backlog[i] = b[i]
  BY <1>1, <1>2 DEF Ios
<1>6. c \notin Busy(io) \cup io.open \cup Listed(io)  BY <1>1 DEF Connect, Fresh
<1>7. Listed(io') = Listed(io) \cup {c}
  <2>1. c \in Listed(io')  BY <1>5 DEF Listed
  <2>2. Listed(io) \subseteq Listed(io')  BY <1>5 DEF Listed
  <2>3. Listed(io') \subseteq Listed(io) \cup {c}  BY <1>5 DEF Listed
  <2> QED  BY <2>1, <2>2, <2>3
<1>8. \A i, j \in DOMAIN io'.backlog : io'.backlog[i] = io'.backlog[j] => i = j
  <2>1. \A i \in 1..Len(b) : b[i] # c  BY <1>5, <1>6 DEF Listed
  <2> QED  BY <1>1, <1>5, <2>1 DEF Fresh
<1>9. /\ peer' = [peer EXCEPT ![c] = "open"] /\ connections' = connections
      /\ peer \in [Clients -> {"new", "open", "closed"}]
  BY <1>1 DEF Connect, TypeOK
<1>10. Fresh(io', peer')
  BY <1>1, <1>2, <1>4, <1>6, <1>7, <1>8, <1>9 DEF Fresh
<1>11. Caused(io', peer')
  BY <1>1, <1>2, <1>4, <1>9 DEF Caused, Connect
<1>12. Kept(io', connections')  BY <1>1, <1>2, <1>4, <1>9 DEF Kept
<1>13. TypeOK'  BY <1>1, <1>2, <1>9 DEF TypeOK, Connect
<1> QED
  BY <1>2, <1>3, <1>4, <1>10, <1>11, <1>12, <1>13 DEF IInv, Sound, Connect

LEMMA Delivered ==
    ASSUME IInv, NEW c \in Clients, NEW result \in Results, Send(c, result)
    PROVE  IInv'
<1>1. /\ Good(io) /\ Kept(io, connections) /\ Fresh(io, peer) /\ Caused(io, peer) /\ TypeOK
      /\ io \in Ios
  BY DEF IInv, Sound, TypeOK
<1>2. /\ io'.backlog = io.backlog /\ io'.queue = io.queue
      /\ io'.waiting = io.waiting /\ io'.open = io.open /\ io' \in Ios
  <2> DEFINE w == [io.wire EXCEPT ![c] = result]
  <2>1. w \in [Clients -> Results \cup {"nothing"}] /\ io' = [io EXCEPT !.wire = w]
    BY <1>1 DEF Ios, Send
  <2> HIDE DEF w
  <2> QED  BY <1>1, <2>1 DEF Ios
<1>3. Good(io')  BY <1>1, <1>2 DEF Good, Single
<1>4. /\ Busy(io') = Busy(io) /\ Pending(io') = Pending(io) /\ Done(io') = Done(io)
      /\ Listed(io') = Listed(io)
  BY <1>2 DEF Busy, Pending, Done, Listed
<1>5. Kept(io', connections)  BY <1>1, <1>2, <1>4 DEF Kept
<1>6. Fresh(io', peer)  BY <1>1, <1>2, <1>4 DEF Fresh
<1>7. Caused(io', peer)  BY <1>1, <1>2, <1>4 DEF Caused
<1>8. TypeOK'  BY <1>1, <1>2 DEF TypeOK, Send
<1> QED  BY <1>2, <1>3, <1>4, <1>5, <1>6, <1>7, <1>8 DEF IInv, Sound, Send

LEMMA Disconnected ==
    ASSUME IInv, NEW c \in Clients, Disconnect(c)
    PROVE  IInv'
<1>1. /\ Good(io) /\ Kept(io, connections) /\ Fresh(io, peer) /\ Caused(io, peer) /\ TypeOK
      /\ peer \in [Clients -> {"new", "open", "closed"}]
  BY DEF IInv, Sound, TypeOK
<1>2. /\ peer' = [peer EXCEPT ![c] = "closed"]
      /\ UNCHANGED <<phase, io, connections, signalled>>
  BY DEF Disconnect
<1>3. Fresh(io, peer')  BY <1>1, <1>2 DEF Fresh
<1>4. Caused(io, peer')  BY <1>1, <1>2 DEF Caused
<1>5. TypeOK'  BY <1>1, <1>2 DEF TypeOK
<1> QED  BY <1>1, <1>2, <1>3, <1>4, <1>5 DEF IInv, Sound

-----------------------------------------------------------------------------
(* The inductive invariant, and what it implies.                           *)

LEMMA Begins == Init => IInv
<1> SUFFICES ASSUME Init PROVE IInv
  OBVIOUS
<1>1. PICK n \in 1..Descriptors :
        io = [limit |-> n, queue |-> <<>>, waiting |-> {Accept}, open |-> {Acceptor},
              backlog |-> <<>>, wire |-> [c \in Clients |-> "nothing"],
              left |-> [c \in Clients |-> 0]]
  BY DEF Init
<1>2. io \in Ios
  BY <1>1, Sorts, HttpServerAssumption DEF Ios
<1>3. /\ io.queue = <<>> /\ io.waiting = {Accept} /\ io.open = {Acceptor}
      /\ io.backlog = <<>> /\ DOMAIN io.queue = {} /\ DOMAIN io.backlog = {}
  BY <1>1
<1>4. /\ Busy(io) = {Acceptor} /\ Pending(io) = {} /\ Done(io) = {} /\ Listed(io) = {}
  BY <1>3, Sorts DEF Busy, Pending, Done, Listed
<1>5. Good(io)  BY <1>2, <1>3, Sorts DEF Good, Single
<1>6. Kept(io, connections)  BY <1>3, <1>4 DEF Kept, Init
<1>7. Fresh(io, peer)  BY <1>3, <1>4, Sorts DEF Fresh
<1>8. Caused(io, peer)  BY <1>4 DEF Caused
<1>9. TypeOK  BY <1>2 DEF TypeOK, Init
<1> QED  BY <1>4, <1>5, <1>6, <1>7, <1>8, <1>9, Sorts DEF IInv, Sound

LEMMA Steps == IInv /\ [Next]_vars => IInv'
<1> SUFFICES ASSUME IInv, [Next]_vars PROVE IInv'
  OBVIOUS
<1>1. ASSUME Goes, UNCHANGED <<phase, peer, signalled>> PROVE IInv'
  BY <1>1 DEF Goes, IInv, TypeOK, Sound, Good
<1>2. CASE PollAccept
  <2>1. CASE \E c \in Clients : TRUE
    BY <1>1, <1>2, <2>1, Polled
  <2>2. CASE Clients = {}
    <3>1. io.backlog \in Seq(Clients)  BY DEF IInv, TypeOK, Ios
    <3>2. Head(io.backlog) \in Clients  BY <1>2, <3>1 DEF PollAccept
    <3> QED  BY <2>2, <3>2
  <2> QED  BY <2>1, <2>2
<1>3. CASE Run
  BY <1>1, <1>3, Handled
<1>4. CASE Return
  BY <1>4 DEF Return, IInv, TypeOK, Sound
<1>5. CASE Interrupt
  BY <1>5, Interrupted
<1>6. ASSUME NEW c \in Clients, PollRead(c) \/ PollWrite(c) PROVE IInv'
  BY <1>1, <1>6, Polled
<1>7. ASSUME NEW c \in Clients, Connect(c) PROVE IInv'
  BY <1>7, Connected
<1>8. ASSUME NEW c \in Clients, Disconnect(c) PROVE IInv'
  BY <1>8, Disconnected
<1>9. ASSUME NEW c \in Clients, NEW result \in Results, Send(c, result) PROVE IInv'
  BY <1>9, Delivered
<1>10. CASE UNCHANGED vars
  BY <1>10 DEF vars, IInv, TypeOK, Sound
<1> QED
  BY <1>2, <1>3, <1>4, <1>5, <1>6, <1>7, <1>8, <1>9, <1>10 DEF Next

\* A descriptor that is busy has one operation outstanding, any other has none.
LEMMA Counted ==
    ASSUME IInv, NEW d
    PROVE  Outstanding(d) = IF d \in Busy(io) THEN 1 ELSE 0
<1> DEFINE W == {op \in io.waiting : op.on = d}
           Q == {i \in DOMAIN io.queue : io.queue[i].op.on = d}
<1>1. Single(io)  BY DEF IInv, Sound, Good
<1>2. Outstanding(d) = Cardinality(W) + Cardinality(Q)  BY DEF Outstanding
<1>3. Cardinality({}) = 0  BY FS_EmptySet
<1>4. CASE \E op \in io.waiting : op.on = d
  <2>1. PICK op \in io.waiting : op.on = d  BY <1>4
  <2>2. W = {op} /\ Q = {}  BY <1>1, <2>1 DEF Single
  <2>3. d \in Busy(io)  BY <2>1 DEF Busy
  <2> HIDE DEF W, Q
  <2>4. Cardinality(W) = 1  BY <2>2, FS_Singleton
  <2> QED  BY <1>2, <1>3, <2>2, <2>3, <2>4
<1>5. CASE \E i \in DOMAIN io.queue : io.queue[i].op.on = d
  <2>1. PICK i \in DOMAIN io.queue : io.queue[i].op.on = d  BY <1>5
  <2>2. Q = {i} /\ W = {}  BY <1>1, <2>1 DEF Single
  <2>3. d \in Busy(io)  BY <2>1 DEF Busy
  <2> HIDE DEF W, Q
  <2>4. Cardinality(Q) = 1  BY <2>2, FS_Singleton
  <2> QED  BY <1>2, <1>3, <2>2, <2>3, <2>4
<1>6. CASE d \notin Busy(io)
  <2>1. W = {} /\ Q = {}  BY <1>6 DEF Busy
  <2> HIDE DEF W, Q
  <2> QED  BY <1>2, <1>3, <1>6, <2>1
<1> QED  BY <1>4, <1>5, <1>6 DEF Busy

LEMMA Implies == IInv => TypeOK /\ OneOperation /\ Managed /\ AcceptOutstanding
<1> SUFFICES ASSUME IInv PROVE TypeOK /\ OneOperation /\ Managed /\ AcceptOutstanding
  OBVIOUS
<1>1. /\ Good(io) /\ Kept(io, connections) /\ TypeOK /\ io.queue \in Seq(Completions)
      /\ connections \subseteq Busy(io)
  BY DEF IInv, Sound, Kept, TypeOK, Ios
<1>2. OneOperation
  <2>1. \A c \in Clients : Outstanding(c) = IF c \in Busy(io) THEN 1 ELSE 0
    BY Counted
  <2> QED  BY <1>1, <2>1 DEF OneOperation, Good
<1>3. Managed
  <2> DEFINE I == {i \in DOMAIN io.queue : io.queue[i].op = Accept /\ io.queue[i].what \in Clients}
  <2>1. ASSUME NEW i \in DOMAIN io.queue
        PROVE  io.queue[i] = Completion(io.queue[i].op, io.queue[i].what)
    BY <1>1, Ended
  <2>2. \A c : Completion(Accept, c).op = Accept /\ Completion(Accept, c).what = c
    BY DEF Completion
  <2>3. Pending(io) = {io.queue[i].what : i \in I}
    BY <2>1, <2>2 DEF Pending
  <2> QED  BY <1>1, <2>3 DEF Managed, Kept
<1>4. AcceptOutstanding
  <2>1. Outstanding(Acceptor) = IF Acceptor \in Busy(io) THEN 1 ELSE 0
    BY Counted
  <2> QED  BY <2>1 DEF AcceptOutstanding, IInv
<1> QED  BY <1>1, <1>2, <1>3, <1>4

\* Every behaviour keeps the invariant.
THEOREM Invariance == Spec => []IInv
<1> QED  BY Begins, Steps, PTL DEF Spec

\* The state of the server stays within its types, whatever the clients do.
THEOREM TypeCorrect == Spec => []TypeOK
<1> QED  BY Invariance, Implies, PTL

\* connection.cpp: no two operations ever use a connection's socket, buffer or
\* reply at once, one the manager keeps is always being read or written, and
\* nothing waits on a closed socket.
THEOREM OneOperationEach == Spec => []OneOperation
<1> QED  BY Invariance, Implies, PTL

\* connection_manager.cpp: the manager knows every open connection and no other,
\* but for those whose accept is still to be handled.
THEOREM AllManaged == Spec => []Managed
<1> QED  BY Invariance, Implies, PTL

\* server.cpp: while the acceptor is open one accept is outstanding, never none and
\* never two.
THEOREM AlwaysAccepting == Spec => []AcceptOutstanding
<1> QED  BY Invariance, Implies, PTL

-----------------------------------------------------------------------------
(* What a step may not do.                                                 *)

LEMMA StepAnswers == IInv /\ [Next]_vars => (\A c \in Clients : Answered(c)) \/ UNCHANGED vars
<1> SUFFICES ASSUME IInv, [Next]_vars, NEW c \in Clients,
                    c \in connections, c \notin connections'
             PROVE  \/ io.left[c] = 0 /\ Head(io.queue) = Completion(Write(c), "sent")
                    \/ peer[c] = "closed" \/ signalled
  BY DEF Answered
<1> DEFINE done == Head(io.queue)
<1>1. Run
  BY DEF Next, vars, PollAccept, PollRead, PollWrite, Return, Interrupt, Connect, Send, Disconnect
<1>2. /\ io.queue # <<>> /\ done \in Completions /\ done.op.on \in Busy(io)
      /\ done.op.on \in Clients /\ done.what = "error" =>
           done.op.on \notin io.open \/ peer[done.op.on] = "closed"
  BY <1>1, TakingKeeps DEF Run
<1>3. connections \subseteq io.open /\ c \in io.open
  BY DEF IInv, Sound, Kept
<1>4. CASE done.op.of = "accept" /\ OnAccept(done.what)
  BY <1>4 DEF OnAccept
<1>5. CASE done.op.of = "read" /\ OnRead(done.op.on, done.what)
  <2>1. PICK d \in Clients : done.op = Read(d) /\ done.op.on = d  BY <1>2, <1>5, Named
  <2>2. done.what = "error" /\ Stop(Taken, d)  BY <1>5, <2>1 DEF OnRead
  <2>3. c = d  BY <2>2 DEF Stop
  <2> QED  BY <1>2, <1>3, <2>1, <2>2, <2>3
<1>6. CASE done.op.of = "write" /\ OnWrite(done.op.on, done.what)
  <2>1. PICK d \in Clients : done.op = Write(d) /\ done.op.on = d  BY <1>2, <1>6, Named
  <2>2. /\ Stop(Taken, d)
        /\ done.what = "error" \/ (done.what = "sent" /\ io.left[d] = 0)
    BY <1>6, <2>1 DEF OnWrite
  <2>3. c = d  BY <2>2 DEF Stop
  <2>4. done = Completion(done.op, done.what)  BY <1>2, Ended
  <2> QED  BY <1>2, <1>3, <2>1, <2>2, <2>3, <2>4
<1>7. CASE done = Signal /\ OnSignal
  <2>1. Signal.op.on = "signals"  BY DEF Signal, Completion
  <2> QED  BY <1>2, <1>7, <2>1 DEF IInv
<1> QED  BY <1>1, <1>4, <1>5, <1>6, <1>7 DEF Run

\* connection.cpp: the server hangs up only on a client that has all of its reply
\* or has left, until it is told to stop.
THEOREM NoHangUp == Spec => HangsUpWhenDone
<1> DEFINE A == \A c \in Clients : Answered(c)
<1>1. IInv /\ [Next]_vars => [A]_vars  BY StepAnswers
<1> QED  BY <1>1, Invariance, PTL DEF Spec, HangsUpWhenDone

=============================================================================
