----------------------------- MODULE ServerProofs -----------------------------
(***************************************************************************)
(* For any number of clients and descriptors: the handlers the io_service  *)
(* calls are those of sessions that exist, and one accept is outstanding.  *)
(***************************************************************************)
EXTENDS Server, SequenceTheorems, TLAPS

Acceptor(h) == h.of = "acceptor"

NoAccept(q)  == \A i \in DOMAIN q : ~Acceptor(q[i])
AnAccept(q)  == \E i \in DOMAIN q : \A j \in DOMAIN q : Acceptor(q[j]) <=> j = i

Once(q) == \A i, j \in DOMAIN q : q[i] = q[j] => i = j

\* OneAccept of a queue.
Balanced(q, waits, sock) ==
    /\ waits => NoAccept(q)
    /\ ~waits => AnAccept(q)
    /\ sock # NoClient <=> Holds(q, Accepted(TRUE))

\* OnePlace, with the places told apart by what they are.
Placed ==
    /\ Once(backlog) /\ Once(session)
    /\ \A c \in Clients :
         /\ ~(Holds(backlog, c) /\ Holds(session, c))
         /\ socket = c => ~Holds(backlog, c) /\ ~Holds(session, c)
         /\ conn[c] # "new" <=> (Holds(backlog, c) \/ Holds(session, c) \/ socket = c)

IInv ==
    /\ TypeOK /\ HandlersLive
    /\ phase = "run" => Balanced(queue, accepting, socket) /\ Placed

-----------------------------------------------------------------------------
\* The three sorts of handlers can be told apart.
LEMMA Sorts ==
    ASSUME NEW h \in Handlers
    PROVE  /\ h.of = "acceptor" => \E ok \in BOOLEAN : h = Accepted(ok)
           /\ h.of = "session" => h.peer \in Clients /\ h = Completion(h.peer)
           /\ h.of \in {"acceptor", "session", "signals"}
           /\ \A c \in Clients : Completion(c).of = "session" /\ Completion(c).peer = c
           /\ \A ok \in BOOLEAN : Accepted(ok).of = "acceptor" /\ Accepted(ok).ok = ok
           /\ Signal.of = "signals"
<1>1. CASE h \in [of : {"acceptor"}, ok : BOOLEAN]
  BY <1>1 DEF Accepted, Completion, Signal
<1>2. CASE h \in [of : {"session"}, peer : Clients]
  BY <1>2 DEF Accepted, Completion, Signal
<1>3. CASE h = Signal
  BY <1>3 DEF Accepted, Completion, Signal
<1> QED  BY <1>1, <1>2, <1>3 DEF Handlers

\* Handlers are handlers.
LEMMA SortsExist ==
    /\ \A ok \in BOOLEAN : Accepted(ok) \in Handlers /\ Acceptor(Accepted(ok))
    /\ \A c \in Clients : Completion(c) \in Handlers /\ ~Acceptor(Completion(c))
    /\ Signal \in Handlers /\ ~Acceptor(Signal)
    /\ Accepted(TRUE) # Accepted(FALSE)
  BY DEF Accepted, Completion, Signal, Handlers, Acceptor

\* What the first part of OneAccept says of the queue.
LEMMA AcceptancesOf ==
    /\ Acceptances = {} <=> NoAccept(queue)
    /\ (\E i \in DOMAIN queue : Acceptances = {i}) <=> AnAccept(queue)
  BY DEF Acceptances, NoAccept, AnAccept, Acceptor

\* A handler that is not the acceptor's, queued, changes neither.
LEMMA AppendOther ==
    ASSUME NEW q \in Seq(Handlers), NEW h \in Handlers, ~Acceptor(h)
    PROVE  /\ NoAccept(q) => NoAccept(Append(q, h))
           /\ AnAccept(q) => AnAccept(Append(q, h))
           /\ Holds(Append(q, h), Accepted(TRUE)) <=> Holds(q, Accepted(TRUE))
<1> DEFINE r == Append(q, h)
<1>1. /\ DOMAIN q = 1..Len(q) /\ DOMAIN r = 1..(Len(q) + 1) /\ Len(q) \in Nat
      /\ \A i \in 1..Len(q) : r[i] = q[i]
      /\ r[Len(q) + 1] = h
  OBVIOUS
<1>2. h # Accepted(TRUE)  BY SortsExist
<1> HIDE DEF r
<1>3. NoAccept(q) => NoAccept(r)  BY <1>1 DEF NoAccept, Acceptor
<1>4. ASSUME AnAccept(q) PROVE AnAccept(r)
  <2>1. PICK i \in DOMAIN q : \A j \in DOMAIN q : Acceptor(q[j]) <=> j = i
    BY <1>4 DEF AnAccept
  <2>2. i \in DOMAIN r  BY <1>1
  <2>3. \A j \in DOMAIN r : Acceptor(r[j]) <=> j = i
    BY <1>1, <2>1 DEF Acceptor
  <2> QED  BY <2>2, <2>3 DEF AnAccept
<1>5. ASSUME NEW x, x # h PROVE Holds(r, x) <=> Holds(q, x)
  <2>1. ASSUME NEW i \in DOMAIN r, r[i] = x PROVE i \in DOMAIN q /\ q[i] = x
    BY <1>1, <1>5, <2>1
  <2>2. ASSUME NEW i \in DOMAIN q, q[i] = x PROVE i \in DOMAIN r /\ r[i] = x
    BY <1>1, <2>2
  <2> QED  BY <2>1, <2>2 DEF Holds
<1> QED  BY <1>2, <1>3, <1>4, <1>5 DEF r

\* Queued where there is none, the acceptor's is the one.
LEMMA AppendAccept ==
    ASSUME NEW q \in Seq(Handlers), NEW ok \in BOOLEAN, NoAccept(q)
    PROVE  /\ AnAccept(Append(q, Accepted(ok)))
           /\ Holds(Append(q, Accepted(ok)), Accepted(TRUE)) <=> ok
<1> DEFINE r == Append(q, Accepted(ok))
<1>1. /\ DOMAIN q = 1..Len(q) /\ DOMAIN r = 1..(Len(q) + 1) /\ Len(q) \in Nat
      /\ \A i \in 1..Len(q) : r[i] = q[i]
      /\ r[Len(q) + 1] = Accepted(ok)
  OBVIOUS
<1>2. Acceptor(Accepted(ok)) /\ Acceptor(Accepted(TRUE)) /\ Accepted(TRUE) # Accepted(FALSE)
  BY SortsExist
<1> HIDE DEF r
<1>3. \A j \in 1..(Len(q) + 1) : Acceptor(r[j]) <=> j = Len(q) + 1
  BY <1>1, <1>2 DEF NoAccept, Acceptor
<1>4. AnAccept(r)  BY <1>1, <1>3 DEF AnAccept, Acceptor
<1>5. Holds(r, Accepted(TRUE)) <=> ok
  <2>1. ASSUME ok PROVE Holds(r, Accepted(TRUE))
    <3>1. ok = TRUE  BY <2>1
    <3>2. r[Len(q) + 1] = Accepted(TRUE) /\ Len(q) + 1 \in DOMAIN r  BY <1>1, <3>1
    <3> QED  BY <3>2 DEF Holds
  <2>2. Holds(r, Accepted(TRUE)) => Accepted(TRUE) = Accepted(ok)
    BY <1>1, <1>2, <1>3 DEF Holds
  <2>3. ASSUME Holds(r, Accepted(TRUE)), ~ok PROVE FALSE
    <3>1. ok = FALSE  BY <2>3
    <3> QED  BY <1>2, <2>2, <2>3, <3>1
  <2> QED  BY <2>1, <2>3
<1> QED  BY <1>4, <1>5 DEF r

\* Taking the head: the tail holds what the queue holds, but for the head.
LEMMA TailOf ==
    ASSUME NEW q \in Seq(Handlers), q # <<>>
    PROVE  /\ Tail(q) \in Seq(Handlers)
           /\ Acceptor(Head(q)) /\ AnAccept(q) => NoAccept(Tail(q))
           /\ ~Acceptor(Head(q)) /\ AnAccept(q) => AnAccept(Tail(q))
           /\ NoAccept(q) => ~Acceptor(Head(q)) /\ NoAccept(Tail(q))
           /\ ~Acceptor(Head(q)) =>
                (Holds(Tail(q), Accepted(TRUE)) <=> Holds(q, Accepted(TRUE)))
           /\ \A h : Holds(Tail(q), h) => Holds(q, h)
           /\ Holds(q, Head(q))
<1> DEFINE r == Tail(q)
<1>1. /\ DOMAIN q = 1..Len(q) /\ DOMAIN r = 1..(Len(q) - 1)
      /\ Len(q) \in Nat /\ Len(q) > 0
      /\ \A i \in 1..(Len(q) - 1) : r[i] = q[i + 1]
      /\ r \in Seq(Handlers) /\ Head(q) = q[1]
  OBVIOUS
<1> HIDE DEF r
<1>2. ASSUME Acceptor(Head(q)), AnAccept(q) PROVE NoAccept(r)
  BY <1>1, <1>2 DEF NoAccept, AnAccept, Acceptor
<1>3. ASSUME ~Acceptor(Head(q)), AnAccept(q) PROVE AnAccept(r)
  <2>1. PICK i \in DOMAIN q : \A j \in DOMAIN q : Acceptor(q[j]) <=> j = i
    BY <1>3 DEF AnAccept
  <2>2. i # 1  BY <1>1, <1>3, <2>1 DEF Acceptor
  <2>3. i - 1 \in DOMAIN r  BY <1>1, <2>2
  <2>4. \A j \in DOMAIN r : Acceptor(r[j]) <=> j = i - 1
    <3> SUFFICES ASSUME NEW j \in DOMAIN r PROVE Acceptor(r[j]) <=> j = i - 1
      OBVIOUS
    <3>1. j + 1 \in DOMAIN q /\ r[j] = q[j + 1] /\ j \in Int /\ i \in Int  BY <1>1
    <3> QED  BY <2>1, <3>1 DEF Acceptor
  <2> QED  BY <2>3, <2>4 DEF AnAccept
<1>4. NoAccept(q) => ~Acceptor(Head(q)) /\ NoAccept(r)
  BY <1>1 DEF NoAccept, Acceptor
<1>5. \A h : Holds(r, h) => Holds(q, h)
  <2> SUFFICES ASSUME NEW h, NEW i \in 1..(Len(q) - 1), r[i] = h PROVE Holds(q, h)
    BY <1>1 DEF Holds
  <2> QED  BY <1>1, i + 1 \in 1..Len(q) DEF Holds
<1>6. ASSUME ~Acceptor(Head(q)), Holds(q, Accepted(TRUE)) PROVE Holds(r, Accepted(TRUE))
  <2>1. PICK i \in 1..Len(q) : q[i] = Accepted(TRUE)  BY <1>1, <1>6 DEF Holds
  <2>2. i # 1  BY <1>1, <1>6, <2>1, SortsExist
  <2>3. i - 1 \in 1..(Len(q) - 1) /\ r[i - 1] = q[i]  BY <1>1, <2>2
  <2> QED  BY <1>1, <2>1, <2>3 DEF Holds
<1>7. Holds(q, Head(q))  BY <1>1 DEF Holds
<1> QED  BY <1>1, <1>2, <1>3, <1>4, <1>5, <1>6, <1>7 DEF r

-----------------------------------------------------------------------------
(* Sequences in which nothing is twice.                                    *)

LEMMA AppendOnce ==
    ASSUME NEW S, NEW q \in Seq(S), NEW x \in S
    PROVE  /\ \A y : Holds(Append(q, x), y) <=> (Holds(q, y) \/ y = x)
           /\ Once(q) /\ ~Holds(q, x) => Once(Append(q, x))
<1> DEFINE r == Append(q, x)
<1>1. /\ DOMAIN q = 1..Len(q) /\ DOMAIN r = 1..(Len(q) + 1) /\ Len(q) \in Nat
      /\ \A i \in 1..Len(q) : r[i] = q[i]
      /\ r[Len(q) + 1] = x
  OBVIOUS
<1> HIDE DEF r
<1>2. ASSUME NEW y PROVE Holds(r, y) <=> (Holds(q, y) \/ y = x)
  <2>1. ASSUME NEW i \in DOMAIN r, r[i] = y, y # x PROVE i \in DOMAIN q /\ q[i] = y
    BY <1>1, <2>1
  <2>2. ASSUME NEW i \in DOMAIN q, q[i] = y PROVE i \in DOMAIN r /\ r[i] = y
    BY <1>1, <2>2
  <2>3. Len(q) + 1 \in DOMAIN r /\ r[Len(q) + 1] = x  BY <1>1
  <2> QED  BY <2>1, <2>2, <2>3 DEF Holds
<1>3. ASSUME Once(q), ~Holds(q, x) PROVE Once(r)
  <2> SUFFICES ASSUME NEW i \in DOMAIN r, NEW j \in DOMAIN r, r[i] = r[j], i # j
               PROVE  FALSE
    BY DEF Once
  <2>1. CASE i \in DOMAIN q /\ j \in DOMAIN q  BY <1>1, <1>3, <2>1 DEF Once
  <2>2. CASE i = Len(q) + 1 \/ j = Len(q) + 1
    <3>1. (j \in DOMAIN q /\ q[j] = x) \/ (i \in DOMAIN q /\ q[i] = x)  BY <1>1, <2>2
    <3> QED  BY <1>3, <3>1 DEF Holds
  <2> QED  BY <1>1, <2>1, <2>2
<1> QED  BY <1>2, <1>3 DEF r

LEMMA TailOnce ==
    ASSUME NEW S, NEW q \in Seq(S), q # <<>>, Once(q)
    PROVE  /\ Tail(q) \in Seq(S) /\ Head(q) \in S /\ Once(Tail(q))
           /\ \A y : Holds(q, y) <=> (Holds(Tail(q), y) \/ y = Head(q))
           /\ ~Holds(Tail(q), Head(q))
<1> DEFINE r == Tail(q)
<1>1. /\ DOMAIN q = 1..Len(q) /\ DOMAIN r = 1..(Len(q) - 1)
      /\ Len(q) \in Nat /\ Len(q) > 0
      /\ \A i \in 1..(Len(q) - 1) : r[i] = q[i + 1]
      /\ r \in Seq(S) /\ Head(q) = q[1] /\ Head(q) \in S
  OBVIOUS
<1> HIDE DEF r
<1>2. Once(r)
  <2> SUFFICES ASSUME NEW i \in DOMAIN r, NEW j \in DOMAIN r, r[i] = r[j] PROVE i = j
    BY DEF Once
  <2>1. i + 1 \in DOMAIN q /\ j + 1 \in DOMAIN q /\ q[i + 1] = q[j + 1] /\ i \in Int /\ j \in Int
    BY <1>1
  <2>2. i + 1 = j + 1  BY <2>1 DEF Once
  <2> QED  BY <2>1, <2>2
<1>3. ASSUME NEW y PROVE Holds(q, y) <=> (Holds(r, y) \/ y = Head(q))
  <2>1. ASSUME NEW i \in DOMAIN q, q[i] = y, y # Head(q) PROVE i - 1 \in DOMAIN r /\ r[i - 1] = y
    BY <1>1, <2>1
  <2>2. ASSUME NEW i \in DOMAIN r, r[i] = y PROVE i + 1 \in DOMAIN q /\ q[i + 1] = y
    BY <1>1, <2>2
  <2>3. 1 \in DOMAIN q /\ q[1] = Head(q)  BY <1>1
  <2> QED  BY <2>1, <2>2, <2>3 DEF Holds
<1>4. ASSUME NEW i \in DOMAIN r, r[i] = Head(q) PROVE FALSE
  <2>1. i + 1 \in DOMAIN q /\ 1 \in DOMAIN q /\ q[i + 1] = q[1] /\ i + 1 # 1
    BY <1>1, <1>4
  <2> QED  BY <2>1 DEF Once
<1> QED  BY <1>1, <1>2, <1>3, <1>4 DEF r, Holds

-----------------------------------------------------------------------------
(* asio's accept, begun with no other of the acceptor's handlers queued.   *)

LEMMA AsyncAcceptOK ==
    ASSUME NEW q \in Seq(Handlers), NoAccept(q), NEW open,
           backlog \in Seq(Clients), AsyncAccept(q, open)
    PROVE  /\ accepting' \in BOOLEAN /\ socket' \in Clients \cup {NoClient}
           /\ queue' \in Seq(Handlers) /\ backlog' \in Seq(Clients)
           /\ Balanced(queue', accepting', socket')
           /\ \A i \in DOMAIN queue' :
                queue'[i].of = "session" => \E j \in DOMAIN q : queue'[i] = q[j]
<1>1. ~Holds(q, Accepted(TRUE))
  BY SortsExist DEF Holds, NoAccept, Acceptor
<1>2. ASSUME NEW ok \in BOOLEAN, queue' = Append(q, Accepted(ok))
      PROVE  /\ queue' \in Seq(Handlers)
             /\ \A i \in DOMAIN queue' :
                  queue'[i].of = "session" => \E j \in DOMAIN q : queue'[i] = q[j]
  <2>1. Accepted(ok) \in Handlers /\ Accepted(ok).of # "session"
    BY SortsExist DEF Acceptor
  <2>2. queue' \in Seq(Handlers)  BY <1>2, <2>1
  <2>3. ASSUME NEW i \in DOMAIN queue', queue'[i].of = "session"
        PROVE  i \in DOMAIN q /\ queue'[i] = q[i]
    BY <1>2, <2>1, <2>3
  <2> QED  BY <2>2, <2>3
<1>3. CASE Waits(q)
  <2>1. accepting' = TRUE /\ socket' = NoClient /\ queue' = q /\ backlog' = backlog
    BY <1>3 DEF Waits
  <2> QED  BY <1>1, <2>1 DEF Balanced
<1>4. CASE Accepts(q, open)
  <2>1. /\ accepting' = FALSE /\ socket' = Head(backlog)
        /\ queue' = Append(q, Accepted(TRUE)) /\ backlog' = Tail(backlog) /\ backlog # <<>>
    BY <1>4 DEF Accepts
  <2>2. Head(backlog) \in Clients /\ Tail(backlog) \in Seq(Clients)  BY <2>1
  <2>3. socket' # NoClient  BY <2>1, <2>2, ServerAssumption
  <2> QED  BY <1>2, <2>1, <2>2, <2>3, AppendAccept DEF Balanced
<1>5. CASE Refuses(q, open)
  <2>1. /\ accepting' = FALSE /\ socket' = NoClient
        /\ queue' = Append(q, Accepted(FALSE)) /\ backlog' = backlog
    BY <1>5 DEF Refuses
  <2> QED  BY <1>2, <2>1, AppendAccept DEF Balanced
<1> QED  BY <1>3, <1>4, <1>5 DEF AsyncAccept

\* What it takes out of the backlog it puts into socket_.
LEMMA AsyncAcceptMoves ==
    ASSUME NEW q, NEW open, backlog \in Seq(Clients), Once(backlog), AsyncAccept(q, open)
    PROVE  /\ Once(backlog')
           /\ \A c \in Clients :
                /\ Holds(backlog, c) <=> (Holds(backlog', c) \/ socket' = c)
                /\ socket' = c => ~Holds(backlog', c)
<1>1. CASE Waits(q)  BY <1>1, ServerAssumption DEF Waits
<1>2. CASE Accepts(q, open)
  <2>1. backlog # <<>> /\ socket' = Head(backlog) /\ backlog' = Tail(backlog)
    BY <1>2 DEF Accepts
  <2> QED  BY <2>1, TailOnce
<1>3. CASE Refuses(q, open)  BY <1>3, ServerAssumption DEF Refuses
<1> QED  BY <1>1, <1>2, <1>3 DEF AsyncAccept

-----------------------------------------------------------------------------
(* The invariant is kept.                                                  *)

LEMMA InitOK == Init => IInv
<1> SUFFICES ASSUME Init PROVE IInv
  OBVIOUS
<1>0. queue = <<>> /\ phase = "run"  BY DEF Init
<1>1. TypeOK
  <2>1. <<>> \in Seq(Handlers) /\ <<>> \in Seq(Clients)  OBVIOUS
  <2>2. accepting \in BOOLEAN /\ signalled \in BOOLEAN  BY DEF Init
  <2> QED  BY <2>1, <2>2 DEF Init, TypeOK
<1>2. Balanced(queue, accepting, socket)
  BY DEF Init, Balanced, NoAccept, Holds
<1>3. Placed
  BY ServerAssumption DEF Init, Placed, Once, Holds
<1>4. HandlersLive  BY <1>0 DEF HandlersLive
<1> QED  BY <1>1, <1>2, <1>3, <1>4 DEF IInv

LEMMA PollAcceptOK == ASSUME IInv, PollAccept PROVE IInv'
<1>1. /\ phase = "run" /\ accepting /\ AsyncAccept(queue, Len(session))
      /\ UNCHANGED <<phase, session, conn, signalled>>
  BY DEF PollAccept, AsyncAccept, clients
<1>2. TypeOK /\ HandlersLive /\ Balanced(queue, accepting, socket) /\ Placed
  BY <1>1 DEF IInv
<1>3. NoAccept(queue) /\ socket = NoClient
  BY <1>1, <1>2, SortsExist DEF Balanced, NoAccept, Holds, Acceptor
<1>4. /\ accepting' \in BOOLEAN /\ socket' \in Clients \cup {NoClient}
      /\ queue' \in Seq(Handlers) /\ backlog' \in Seq(Clients)
      /\ Balanced(queue', accepting', socket')
      /\ \A i \in DOMAIN queue' :
           queue'[i].of = "session" => \E j \in DOMAIN queue : queue'[i] = queue[j]
  BY <1>1, <1>2, <1>3, AsyncAcceptOK DEF TypeOK
<1>5. TypeOK'  BY <1>1, <1>2, <1>4 DEF TypeOK
<1>6. HandlersLive'  BY <1>1, <1>2, <1>4 DEF HandlersLive, Holds
<1>7. Placed'
  <2>1. /\ Once(backlog')
        /\ \A c \in Clients :
             /\ Holds(backlog, c) <=> (Holds(backlog', c) \/ socket' = c)
             /\ socket' = c => ~Holds(backlog', c)
    BY <1>1, <1>2, AsyncAcceptMoves DEF TypeOK, Placed
  <2>2. \A c \in Clients : socket # c  BY <1>3, ServerAssumption
  <2>3. session' = session /\ conn' = conn  BY <1>1
  <2> QED  BY <1>2, <2>1, <2>2, <2>3 DEF Placed
<1> QED  BY <1>4, <1>5, <1>6, <1>7 DEF IInv

\* Queueing a handler that is not the acceptor's.
LEMMA QueueOK ==
    ASSUME IInv, phase = "run", NEW h \in Handlers, ~Acceptor(h),
           h.of = "session" => Holds(session, h.peer),
           queue' = Append(queue, h),
           UNCHANGED <<phase, accepting, socket, session, backlog, conn>>,
           signalled' \in BOOLEAN
    PROVE  IInv'
<1>1. TypeOK /\ HandlersLive /\ Balanced(queue, accepting, socket) /\ Placed
  BY DEF IInv
<1>2. queue \in Seq(Handlers)  BY <1>1 DEF TypeOK
<1>3. TypeOK'  BY <1>1, <1>2 DEF TypeOK
<1>4. Balanced(queue', accepting', socket')  BY <1>1, <1>2, AppendOther DEF Balanced
<1>5. HandlersLive'
  <2>1. ASSUME NEW i \in DOMAIN queue' PROVE queue'[i] = h \/ (i \in DOMAIN queue /\ queue'[i] = queue[i])
    BY <1>2
  <2> QED  BY <1>1, <2>1 DEF HandlersLive
<1>6. Placed'  BY <1>1 DEF Placed
<1> QED  BY <1>3, <1>4, <1>5, <1>6 DEF IInv

LEMMA PollSessionOK == ASSUME IInv, NEW c \in Clients, PollSession(c) PROVE IInv'
<1>1. /\ Completion(c) \in Handlers /\ ~Acceptor(Completion(c))
      /\ Completion(c).of = "session" /\ Completion(c).peer = c
  BY SortsExist DEF Completion
<1>2. TypeOK  BY DEF IInv
<1> QED  BY <1>1, <1>2, QueueOK DEF PollSession, clients, TypeOK

LEMMA InterruptOK == ASSUME IInv, Interrupt PROVE IInv'
<1>1. Signal \in Handlers /\ ~Acceptor(Signal) /\ Signal.of # "session"
  BY SortsExist DEF Signal
<1> QED  BY <1>1, QueueOK DEF Interrupt

LEMMA OnAcceptOK ==
    ASSUME IInv, phase = "run", queue # <<>>, NEW ok \in BOOLEAN,
           Head(queue) = Accepted(ok), OnAccept(ok)
    PROVE  IInv'
<1>1. TypeOK /\ HandlersLive /\ Balanced(queue, accepting, socket) /\ Placed
  BY DEF IInv
<1>2. /\ session' = IF ok THEN Append(session, socket) ELSE session
      /\ AsyncAccept(Tail(queue), Len(session'))
      /\ phase' = phase /\ conn' = conn /\ signalled' = signalled
  BY DEF OnAccept, clients
<1>3. queue \in Seq(Handlers) /\ backlog \in Seq(Clients) /\ session \in Seq(Clients)
  BY <1>1 DEF TypeOK
<1>4. Acceptor(Head(queue)) /\ AnAccept(queue) /\ NoAccept(Tail(queue))
  <2>1. Acceptor(Head(queue))  BY SortsExist
  <2>2. ~NoAccept(queue)  BY <1>3, <2>1, TailOf
  <2> QED  BY <1>1, <1>3, <2>1, <2>2, TailOf DEF Balanced
<1>5. /\ ok => socket \in Clients
      /\ ~ok => socket = NoClient
  <2>1. ASSUME ok PROVE socket \in Clients
    <3>1. ok = TRUE  BY <2>1
    <3>2. Holds(queue, Accepted(TRUE))  BY <1>3, <3>1, TailOf
    <3> QED  BY <1>1, <3>2 DEF Balanced, TypeOK
  <2>2. ASSUME ~ok PROVE socket = NoClient
    <3>1. Head(queue) = Accepted(FALSE)  BY <2>2
    <3>2. PICK i \in DOMAIN queue : \A j \in DOMAIN queue : Acceptor(queue[j]) <=> j = i
      BY <1>4 DEF AnAccept
    <3>a. 1 \in DOMAIN queue /\ queue[1] = Head(queue)  BY <1>3
    <3>3. 1 \in DOMAIN queue /\ queue[1] = Accepted(FALSE)  BY <3>a, <3>1
    <3>4. i = 1  BY <1>4, <3>1, <3>2, <3>3
    <3>5. ~Holds(queue, Accepted(TRUE))  BY <3>2, <3>3, <3>4, SortsExist DEF Holds
    <3> QED  BY <1>1, <3>5 DEF Balanced
  <2> QED  BY <2>1, <2>2
<1>6. /\ accepting' \in BOOLEAN /\ socket' \in Clients \cup {NoClient}
      /\ queue' \in Seq(Handlers) /\ backlog' \in Seq(Clients)
      /\ Balanced(queue', accepting', socket')
      /\ \A i \in DOMAIN queue' :
           queue'[i].of = "session" => \E j \in DOMAIN Tail(queue) : queue'[i] = Tail(queue)[j]
  <2>1. Tail(queue) \in Seq(Handlers)  BY <1>3
  <2> QED  BY <1>2, <1>3, <1>4, <2>1, AsyncAcceptOK
<1>7. /\ session' \in Seq(Clients) /\ Once(session')
      /\ \A c : Holds(session', c) <=> (Holds(session, c) \/ (ok /\ socket = c))
  <2>1. CASE ok
    <3>1. session' = Append(session, socket)  BY <1>2, <2>1
    <3>2. ~Holds(session, socket) /\ Once(session)  BY <1>1, <1>5, <2>1 DEF Placed
    <3> QED  BY <1>3, <1>5, <2>1, <3>1, <3>2, AppendOnce
  <2>2. CASE ~ok  BY <1>1, <1>2, <1>3, <2>2 DEF Placed
  <2> QED  BY <2>1, <2>2
<1>8. TypeOK'  BY <1>1, <1>2, <1>6, <1>7 DEF TypeOK
<1>9. HandlersLive'
  <2> SUFFICES ASSUME NEW i \in DOMAIN queue', queue'[i].of = "session"
               PROVE  Holds(session', queue'[i].peer)
    BY DEF HandlersLive
  <2>1. PICK j \in DOMAIN Tail(queue) : queue'[i] = Tail(queue)[j]  BY <1>6
  <2>2. Holds(Tail(queue), queue'[i])  BY <2>1 DEF Holds
  <2>3. Holds(queue, queue'[i])  BY <1>3, <2>2, TailOf
  <2>4. Holds(session, queue'[i].peer)  BY <1>1, <2>3 DEF HandlersLive, Holds
  <2> QED  BY <1>7, <2>4
<1>10. Placed'
  <2>1. /\ Once(backlog')
        /\ \A c \in Clients :
             /\ Holds(backlog, c) <=> (Holds(backlog', c) \/ socket' = c)
             /\ socket' = c => ~Holds(backlog', c)
    BY <1>1, <1>2, <1>3, AsyncAcceptMoves DEF Placed
  <2>2. \A c \in Clients : Holds(session', c) <=> (Holds(session, c) \/ socket = c)
    BY <1>5, <1>7, ServerAssumption
  <2> QED  BY <1>1, <1>2, <1>7, <2>1, <2>2 DEF Placed
<1> QED  BY <1>6, <1>8, <1>9, <1>10 DEF IInv

LEMMA OnSessionOK ==
    ASSUME IInv, phase = "run", queue # <<>>, NEW c \in Clients,
           Head(queue) = Completion(c), OnSession(c)
    PROVE  IInv'
<1>1. TypeOK /\ HandlersLive /\ Balanced(queue, accepting, socket) /\ Placed
  BY DEF IInv
<1>2. /\ conn' = [conn EXCEPT ![c] = IF @ = "closed" THEN "noticed" ELSE @]
      /\ queue' = Tail(queue)
      /\ UNCHANGED <<phase, accepting, socket, session, backlog, signalled>>
  BY DEF OnSession
<1>3. queue \in Seq(Handlers)  BY <1>1 DEF TypeOK
<1>4. ~Acceptor(Head(queue))  BY SortsExist
<1>5. TypeOK'  BY <1>1, <1>2 DEF TypeOK
<1>6. Balanced(queue', accepting', socket')
  BY <1>1, <1>2, <1>3, <1>4, TailOf DEF Balanced
<1>7. HandlersLive'
  <2> SUFFICES ASSUME NEW i \in DOMAIN queue', queue'[i].of = "session"
               PROVE  Holds(session, queue'[i].peer)
    BY <1>2 DEF HandlersLive
  <2>1. Holds(queue, queue'[i])  BY <1>2, <1>3, TailOf DEF Holds
  <2> QED  BY <1>1, <2>1 DEF HandlersLive, Holds
<1>8. Placed'
  <2>1. \A d \in Clients : conn'[d] # "new" <=> conn[d] # "new"  BY <1>1, <1>2 DEF TypeOK
  <2>2. UNCHANGED <<socket, session, backlog>>  BY <1>2
  <2> QED  BY <1>1, <2>1, <2>2 DEF Placed
<1> QED  BY <1>5, <1>6, <1>7, <1>8 DEF IInv

LEMMA RunOK == ASSUME IInv, Run PROVE IInv'
<1>1. phase = "run" /\ queue # <<>>  BY DEF Run
<1>2. ASSUME NEW ok \in BOOLEAN, Head(queue) = Accepted(ok), OnAccept(ok) PROVE IInv'
  BY <1>1, <1>2, OnAcceptOK
<1>3. ASSUME NEW c \in Clients, Head(queue) = Completion(c), OnSession(c) PROVE IInv'
  BY <1>1, <1>3, OnSessionOK
<1>4. CASE OnSignal
  BY <1>1, <1>4 DEF OnSignal, IInv, TypeOK, HandlersLive, clients
<1> QED  BY <1>2, <1>3, <1>4 DEF Run

LEMMA ConnectOK == ASSUME IInv, NEW c \in Clients, Connect(c) PROVE IInv'
<1>1. TypeOK /\ HandlersLive /\ Balanced(queue, accepting, socket) /\ Placed
  BY DEF IInv, Connect
<1>2. /\ phase = "run" /\ conn[c] = "new"
      /\ conn' = [conn EXCEPT ![c] = "open"] /\ backlog' = Append(backlog, c)
      /\ UNCHANGED <<phase, queue, accepting, socket, session, signalled>>
  BY DEF Connect
<1>3. TypeOK'  BY <1>1, <1>2 DEF TypeOK
<1>4. HandlersLive'  BY <1>1, <1>2 DEF HandlersLive
<1>5. Placed'
  <2>1. ~Holds(backlog, c) /\ ~Holds(session, c) /\ socket # c  BY <1>1, <1>2 DEF Placed
  <2>2. /\ Once(backlog')
        /\ \A d : Holds(backlog', d) <=> (Holds(backlog, d) \/ d = c)
    BY <1>1, <1>2, <2>1, AppendOnce DEF TypeOK, Placed
  <2>3. \A d \in Clients : conn'[d] = IF d = c THEN "open" ELSE conn[d]
    BY <1>1, <1>2 DEF TypeOK
  <2>4. UNCHANGED <<socket, session>>  BY <1>2
  <2> QED  BY <1>1, <2>1, <2>2, <2>3, <2>4 DEF Placed
<1>6. Balanced(queue', accepting', socket')  BY <1>1, <1>2
<1> QED  BY <1>3, <1>4, <1>5, <1>6 DEF IInv

LEMMA DisconnectOK == ASSUME IInv, NEW c \in Clients, Disconnect(c) PROVE IInv'
<1>1. TypeOK /\ HandlersLive  BY DEF IInv
<1>2. /\ conn[c] = "open" /\ conn' = [conn EXCEPT ![c] = "closed"]
      /\ UNCHANGED <<phase, queue, accepting, socket, session, backlog, signalled>>
  BY DEF Disconnect
<1>3. TypeOK' /\ HandlersLive'  BY <1>1, <1>2 DEF TypeOK, HandlersLive
<1>4. ASSUME Placed PROVE Placed'
  <2>1. \A d \in Clients : conn'[d] # "new" <=> conn[d] # "new"  BY <1>1, <1>2 DEF TypeOK
  <2>2. UNCHANGED <<socket, session, backlog>>  BY <1>2
  <2> QED  BY <1>4, <2>1, <2>2 DEF Placed
<1> QED  BY <1>2, <1>3, <1>4 DEF IInv

\* Past io_service::run only the types have to be kept.
LEMMA DestroyOK == ASSUME IInv, DestroyServer \/ DestroyIoService PROVE IInv'
<1>1. phase' \in {"freed", "returned"}  BY DEF DestroyServer, DestroyIoService
<1>2. <<>> \in Seq(Handlers) /\ <<>> \in Seq(Clients) /\ FALSE \in BOOLEAN  OBVIOUS
<1>3. TypeOK'
  <2>1. CASE DestroyServer
    BY <1>1, <1>2, <2>1 DEF IInv, TypeOK, DestroyServer, clients
  <2>2. CASE DestroyIoService
    BY <1>1, <1>2, <2>2 DEF IInv, TypeOK, DestroyIoService, clients
  <2> QED  BY <2>1, <2>2
<1> QED  BY <1>1, <1>3 DEF IInv, HandlersLive

LEMMA StepOK == IInv /\ [Next]_vars => IInv'
<1> SUFFICES ASSUME IInv, [Next]_vars PROVE IInv'
  OBVIOUS
<1>1. CASE UNCHANGED vars
  <2>1. /\ UNCHANGED <<phase, queue, accepting, socket, session, backlog>>
        /\ UNCHANGED <<conn, signalled>>
    BY <1>1 DEF vars, clients
  <2>2. TypeOK' /\ HandlersLive'  BY <2>1 DEF IInv, TypeOK, HandlersLive
  <2>3. Placed => Placed'  BY <2>1 DEF Placed
  <2>4. Balanced(queue, accepting, socket) => Balanced(queue', accepting', socket')  BY <2>1
  <2> QED  BY <2>1, <2>2, <2>3, <2>4 DEF IInv
<1>2. CASE Next
  <2>1. CASE PollAccept  BY <2>1, PollAcceptOK
  <2>2. CASE Run  BY <2>2, RunOK
  <2>3. CASE DestroyServer \/ DestroyIoService  BY <2>3, DestroyOK
  <2>4. CASE Interrupt  BY <2>4, InterruptOK
  <2>5. ASSUME NEW c \in Clients, PollSession(c) \/ Connect(c) \/ Disconnect(c) PROVE IInv'
    BY <2>5, PollSessionOK, ConnectOK, DisconnectOK
  <2> QED  BY <1>2, <2>1, <2>2, <2>3, <2>4, <2>5 DEF Next
<1> QED  BY <1>1, <1>2

-----------------------------------------------------------------------------
\* Every behaviour keeps the invariant.
THEOREM Invariance == Spec => []IInv
  BY InitOK, StepOK, PTL DEF Spec

\* Types of the server's variables.
THEOREM TypeCorrect == Spec => []TypeOK
<1>1. IInv => TypeOK  BY DEF IInv
<1> QED  BY <1>1, Invariance, PTL

\* The handlers of sessions hold a plain pointer; every one that is to be called
\* is of a session the server still has.
THEOREM HandlersAreOfSessions == Spec => []HandlersLive
<1>1. IInv => HandlersLive  BY DEF IInv
<1> QED  BY <1>1, Invariance, PTL

\* While the server runs exactly one accept is outstanding, and socket_ is in use
\* only between its completion and its handler.
THEOREM OneAcceptOutstanding == Spec => []OneAccept
<1>1. IInv => OneAccept
  <2> SUFFICES ASSUME IInv, phase = "run" PROVE
        /\ IF accepting THEN Acceptances = {} ELSE \E i \in DOMAIN queue : Acceptances = {i}
        /\ (socket # NoClient) <=> Holds(queue, Accepted(TRUE))
    BY DEF OneAccept
  <2>1. Balanced(queue, accepting, socket)  BY DEF IInv
  <2> QED  BY <2>1, AcceptancesOf DEF Balanced
<1> QED  BY <1>1, Invariance, PTL

\* No connection is lost and none has two sessions, however many clients come.
THEOREM ConnectionsHaveOnePlace == Spec => []OnePlace
<1>1. IInv => OnePlace
  <2> SUFFICES ASSUME IInv, phase = "run", NEW c \in Clients, conn[c] # "new"
               PROVE  \E place \in Places(c) : Places(c) = {place}
    BY DEF OnePlace
  <2>1. Placed  BY DEF IInv
  <2>2. CASE socket = c
    <3>1. ~Holds(backlog, c) /\ ~Holds(session, c)  BY <2>1, <2>2 DEF Placed
    <3>2. Places(c) = {<<"socket", 0>>}  BY <2>2, <3>1 DEF Places, Holds
    <3> QED  BY <3>2
  <2>3. CASE socket # c /\ Holds(backlog, c)
    <3>1. ~Holds(session, c)  BY <2>1, <2>3 DEF Placed
    <3>2. PICK i \in DOMAIN backlog : backlog[i] = c  BY <2>3 DEF Holds
    <3>3. {j \in DOMAIN backlog : backlog[j] = c} = {i}  BY <2>1, <3>2 DEF Placed, Once
    <3>4. {j \in DOMAIN session : session[j] = c} = {}  BY <3>1 DEF Holds
    <3>5. Places(c) = {<<"backlog", i>>}  BY <2>3, <3>3, <3>4 DEF Places
    <3> QED  BY <3>5
  <2>4. CASE socket # c /\ Holds(session, c)
    <3>1. ~Holds(backlog, c)  BY <2>1, <2>4 DEF Placed
    <3>2. PICK i \in DOMAIN session : session[i] = c  BY <2>4 DEF Holds
    <3>3. {j \in DOMAIN session : session[j] = c} = {i}  BY <2>1, <3>2 DEF Placed, Once
    <3>4. {j \in DOMAIN backlog : backlog[j] = c} = {}  BY <3>1 DEF Holds
    <3>5. Places(c) = {<<"session", i>>}  BY <2>4, <3>3, <3>4 DEF Places
    <3> QED  BY <3>5
  <2> QED  BY <2>1, <2>2, <2>3, <2>4 DEF Placed
<1> QED  BY <1>1, Invariance, PTL

=============================================================================
