------------------------------ MODULE HttpServer ------------------------------
(***************************************************************************)
(* example/server: the server, its connection_manager and its connections, *)
(* on the one thread that runs the io_context.  Every object has at most   *)
(* one asynchronous operation at a time, and a signal ends the server by   *)
(* closing what they wait on.                                              *)
(*                                                                         *)
(* A request is what request_parser makes of it (module RequestParser):    *)
(* "decided", for good or bad, and answered either way, or more is needed. *)
(* A reply is the pieces it is sent in.                                    *)
(***************************************************************************)
EXTENDS Integers, FiniteSets, SequencesExt

CONSTANTS Clients,      \* the connections clients make, each once
          Descriptors,  \* at most so many connections the process may have open
          Pieces,       \* of a reply: what one send takes at least
          NoClient      \* an accept that failed has no peer

ASSUME HttpServerAssumption ==
    /\ IsFiniteSet(Clients)
    /\ Clients \cap {NoClient, "acceptor", "signals", "aborted"} = {}
    /\ NoClient # "aborted"
    /\ {Descriptors, Pieces} \subseteq Nat \ {0}

VARIABLES
    phase,        \* of main: "run" in io_context::run, "returned"
    io,           \* what asio and the kernel hold, see Init
    connections,  \* connections_ of the connection_manager
    peer,         \* what each client has done
    signalled     \* one of the signals has been received

vars == <<phase, io, connections, peer, signalled>>

Acceptor == "acceptor"
Accept   == [of |-> "accept", on |-> Acceptor]
Read(c)  == [of |-> "read", on |-> c]
Write(c) == [of |-> "write", on |-> c]

\* The handler of an operation, with what it will be given: a parser's result,
\* an error, or the client of an accepted socket.
Completion(op, what) == [op |-> op, what |-> what]
Signal == Completion([of |-> "signal", on |-> "signals"], "signal")

\* The constructor has begun to wait for a signal and for a connection.
Init ==
    /\ phase = "run"
    /\ \E n \in 1..Descriptors :
         io = [limit   |-> n,               \* of descriptors for connections
               queue   |-> <<>>,            \* handlers to call
               waiting |-> {Accept},        \* operations that wait in the reactor
               open    |-> {Acceptor},      \* descriptors
               backlog |-> <<>>,            \* connections not yet accepted
               wire    |-> [c \in Clients |-> "nothing"],  \* sent by the client
               left    |-> [c \in Clients |-> 0]]          \* pieces of its reply
    /\ connections = {}
    /\ peer = [c \in Clients |-> "new"]
    /\ signalled = FALSE

-----------------------------------------------------------------------------
(* asio and the kernel.  An operation tries at once, and waits only if it  *)
(* would block; on a closed descriptor it fails.                           *)

Completed(s, op, what) ==
    [s EXCEPT !.queue = Append(@, Completion(op, what)), !.waiting = @ \ {op}]

Await(s, op) == [s EXCEPT !.waiting = @ \cup {op}]

Readable(s, c) == s.wire[c] # "nothing" \/ peer[c] = "closed"

Received(s, c) ==
    [Completed(s, Read(c), IF s.wire[c] # "nothing" THEN s.wire[c] ELSE "error")
       EXCEPT !.wire[c] = "nothing"]

AsyncReadSome(s, c) ==
    IF c \notin s.open THEN Completed(s, Read(c), "error")
    ELSE IF Readable(s, c) THEN Received(s, c)
    ELSE Await(s, Read(c))

\* What a send may come to: some pieces taken, or the client gone.
Sent(s, c) ==
    {[Completed(s, Write(c), "sent") EXCEPT !.left[c] = @ - n] : n \in 1..s.left[c]}
      \cup (IF peer[c] = "closed" THEN {Completed(s, Write(c), "error")} ELSE {})

AsyncWriteSome(s, c) ==
    IF c \notin s.open THEN {Completed(s, Write(c), "error")}
    ELSE Sent(s, c) \cup {Await(s, Write(c))}

\* With no descriptor free the connection stays in the backlog.
Accepting(s) ==
    IF Cardinality(s.open \ {Acceptor}) < s.limit
    THEN LET c == Head(s.backlog)
         IN  [Completed(s, Accept, c) EXCEPT !.backlog = Tail(@), !.open = @ \cup {c}]
    ELSE Completed(s, Accept, NoClient)

AsyncAccept(s) ==
    IF Acceptor \notin s.open THEN Completed(s, Accept, NoClient)
    ELSE IF s.backlog # <<>> THEN Accepting(s)
    ELSE Await(s, Accept)

\* Closing cancels what waits, descriptor after descriptor in the order of a set
\* of addresses, which may be any; what has completed stays as it is.
Closed(s, ds) ==
    {[s EXCEPT !.queue = @ \o [i \in DOMAIN ops |-> Completion(ops[i], "aborted")],
               !.waiting = {op \in @ : op.on \notin ds},
               !.open = @ \ ds] : ops \in SetToSeqs({op \in s.waiting : op.on \in ds})}

\* The reactor: an operation that waits can go on.
PollAccept ==
    /\ Accept \in io.waiting /\ io.backlog # <<>>
    /\ io' = Accepting(io)
    /\ UNCHANGED <<phase, connections, peer, signalled>>

PollRead(c) ==
    /\ Read(c) \in io.waiting /\ Readable(io, c)
    /\ io' = Received(io, c)
    /\ UNCHANGED <<phase, connections, peer, signalled>>

PollWrite(c) ==
    /\ Write(c) \in io.waiting
    /\ io' \in Sent(io, c)
    /\ UNCHANGED <<phase, connections, peer, signalled>>

-----------------------------------------------------------------------------
(* connection_manager and connection.                                      *)

Taken == [io EXCEPT !.queue = Tail(@)]

\* Mutant: the connection is not erased.
StopKeeping(s, c) ==
    /\ io' \in Closed(s, {c})
    /\ UNCHANGED connections

\* connection_manager::stop, with connection::stop.
Stop(s, c) ==
    /\ connections' = connections \ {c}
    /\ io' \in Closed(s, {c})

\* The handler of async_read_some.
\* Mutants: the read goes on beside the reply; an error leaves the connection; a
\* request that is not complete is not read on.
OnReadGoesOn(c, what) ==
    /\ io' \in IF what = "decided"
               THEN AsyncWriteSome(AsyncReadSome([Taken EXCEPT !.left[c] = Pieces], c), c)
               ELSE {AsyncReadSome(Taken, c)}
    /\ UNCHANGED <<phase, connections, peer, signalled>>
OnReadLeaving(c, what) ==
    /\ io' \in IF what = "decided" THEN AsyncWriteSome([Taken EXCEPT !.left[c] = Pieces], c)
               ELSE {IF what = "more" THEN AsyncReadSome(Taken, c) ELSE Taken}
    /\ UNCHANGED <<phase, connections, peer, signalled>>
OnReadOnce(c, what) ==
    /\ \/ /\ what = "decided"
          /\ io' \in AsyncWriteSome([Taken EXCEPT !.left[c] = Pieces], c)
          /\ UNCHANGED connections
       \/ what = "error" /\ Stop(Taken, c)
       \/ what \in {"more", "aborted"} /\ io' = Taken /\ UNCHANGED connections
    /\ UNCHANGED <<phase, peer, signalled>>

OnRead(c, what) ==
    /\ \/ /\ what = "decided"
          /\ io' \in AsyncWriteSome([Taken EXCEPT !.left[c] = Pieces], c)
          /\ UNCHANGED connections
       \/ what = "more" /\ io' = AsyncReadSome(Taken, c) /\ UNCHANGED connections
       \/ what = "error" /\ Stop(Taken, c)
       \/ what = "aborted" /\ io' = Taken /\ UNCHANGED connections
    /\ UNCHANGED <<phase, peer, signalled>>

\* Mutant: async_write_some in place of async_write.
OnWriteSome(c, what) ==
    /\ IF what = "aborted" THEN io' = Taken /\ UNCHANGED connections ELSE Stop(Taken, c)
    /\ UNCHANGED <<phase, peer, signalled>>

\* async_write goes on while something is left; its handler ends the
\* connection unless it was cancelled.
OnWrite(c, what) ==
    /\ \/ /\ what = "sent" /\ io.left[c] > 0
          /\ io' \in AsyncWriteSome(Taken, c)
          /\ UNCHANGED connections
       \/ what = "sent" /\ io.left[c] = 0 /\ Stop(Taken, c)
       \/ what = "error" /\ Stop(Taken, c)
       \/ what = "aborted" /\ io' = Taken /\ UNCHANGED connections
    /\ UNCHANGED <<phase, peer, signalled>>

-----------------------------------------------------------------------------
(* server.                                                                 *)

\* Mutants: is_open is not asked; the loop ends with an error; the error is
\* not looked at.
OnAcceptAlways(c) ==
    /\ \/ /\ c \in Clients
          /\ connections' = connections \cup {c}
          /\ io' = AsyncAccept(AsyncReadSome(Taken, c))
       \/ c \notin Clients /\ io' = AsyncAccept(Taken) /\ UNCHANGED connections
    /\ UNCHANGED <<phase, peer, signalled>>
OnAcceptEnding(c) ==
    /\ \/ Acceptor \in io.open /\ c \in Clients
          /\ connections' = connections \cup {c}
          /\ io' = AsyncAccept(AsyncReadSome(Taken, c))
       \/ Acceptor \in io.open /\ c = NoClient /\ io' = Taken /\ UNCHANGED connections
       \/ Acceptor \notin io.open /\ io' \in Closed(Taken, {c}) /\ UNCHANGED connections
    /\ UNCHANGED <<phase, peer, signalled>>
OnAcceptUnchecked(c) ==
    /\ \/ Acceptor \in io.open
          /\ connections' = connections \cup {c}
          /\ io' = AsyncAccept(IF c \in Clients THEN AsyncReadSome(Taken, c)
                                                ELSE Completed(Taken, Read(c), "error"))
       \/ Acceptor \notin io.open /\ io' \in Closed(Taken, {c}) /\ UNCHANGED connections
    /\ UNCHANGED <<phase, peer, signalled>>

\* The handler of async_accept: once the acceptor is closed the socket it was
\* given is dropped; otherwise it is started, and the next accept is begun.
OnAccept(c) ==
    /\ \/ /\ Acceptor \in io.open /\ c \in Clients
          /\ connections' = connections \cup {c}
          /\ io' = AsyncAccept(AsyncReadSome(Taken, c))
       \/ /\ Acceptor \in io.open /\ c = NoClient
          /\ io' = AsyncAccept(Taken)
          /\ UNCHANGED connections
       \/ /\ Acceptor \notin io.open
          /\ io' \in Closed(Taken, {c})
          /\ UNCHANGED connections
    /\ UNCHANGED <<phase, peer, signalled>>

\* connection_manager::stop_all.
StopAll(s) ==
    /\ io' \in Closed(s, connections)
    /\ connections' = {}

\* The handler of the signal: the acceptor is closed first.
OnSignal ==
    /\ \E s \in Closed(Taken, {Acceptor}) : StopAll(s)
    /\ UNCHANGED <<phase, peer, signalled>>

Run ==
    /\ phase = "run" /\ io.queue # <<>>
    /\ LET done == Head(io.queue)
       IN  \/ done.op.of = "accept" /\ OnAccept(done.what)
           \/ done.op.of = "read"   /\ OnRead(done.op.on, done.what)
           \/ done.op.of = "write"  /\ OnWrite(done.op.on, done.what)
           \/ done = Signal         /\ OnSignal

\* io_context::run returns when nothing is outstanding, and main after it.  Until
\* signalled the wait for a signal is.
Return ==
    /\ phase = "run" /\ signalled
    /\ io.queue = <<>> /\ io.waiting = {}
    /\ phase' = "returned"
    /\ UNCHANGED <<io, connections, peer, signalled>>

Interrupt ==
    /\ phase = "run" /\ ~signalled
    /\ signalled' = TRUE
    /\ io' = [io EXCEPT !.queue = Append(@, Signal)]
    /\ UNCHANGED <<phase, connections, peer>>

-----------------------------------------------------------------------------
Connect(c) ==
    /\ Acceptor \in io.open /\ peer[c] = "new"
    /\ peer' = [peer EXCEPT ![c] = "open"]
    /\ io' = [io EXCEPT !.backlog = Append(@, c)]
    /\ UNCHANGED <<phase, connections, signalled>>

\* What it has sent and is not yet read makes a request, makes none, or may.
Send(c, result) ==
    /\ phase = "run" /\ peer[c] = "open" /\ io.wire[c] \in {"nothing", "more"}
    /\ io' = [io EXCEPT !.wire[c] = result]
    /\ UNCHANGED <<phase, connections, peer, signalled>>

Disconnect(c) ==
    /\ phase = "run" /\ peer[c] = "open"
    /\ peer' = [peer EXCEPT ![c] = "closed"]
    /\ UNCHANGED <<phase, io, connections, signalled>>

Results == {"decided", "more"}

Next ==
    \/ PollAccept \/ Run \/ Return \/ Interrupt
    \/ \E c \in Clients :
         PollRead(c) \/ PollWrite(c) \/ Connect(c) \/ Disconnect(c)
           \/ \E result \in Results : Send(c, result)

\* The thread runs on and the kernel reports what a client did; the client need
\* not send, take its reply or close.
Fairness ==
    /\ WF_vars(Run) /\ WF_vars(Return) /\ WF_vars(PollAccept)
    /\ \A c \in Clients :
         WF_vars(PollRead(c)) /\ WF_vars(peer[c] = "closed" /\ PollWrite(c))

Spec == Init /\ [][Next]_vars /\ Fairness

-----------------------------------------------------------------------------
Operations == {Accept} \cup {Read(c) : c \in Clients} \cup {Write(c) : c \in Clients}

Completions ==
    [op : {Accept}, what : Clients \cup {NoClient, "aborted"}]
      \cup [op : {Read(c) : c \in Clients}, what : Results \cup {"error", "aborted"}]
      \cup [op : {Write(c) : c \in Clients}, what : {"sent", "error", "aborted"}]
      \cup {Signal}

Ios ==
    [limit : 1..Descriptors, queue : Seq(Completions), waiting : SUBSET Operations,
     open : SUBSET (Clients \cup {Acceptor}), backlog : Seq(Clients),
     wire : [Clients -> Results \cup {"nothing"}], left : [Clients -> 0..Pieces]]

\* Types.
TypeOK ==
    /\ phase \in {"run", "returned"} /\ io \in Ios /\ connections \subseteq Clients
    /\ peer \in [Clients -> {"new", "open", "closed"}] /\ signalled \in BOOLEAN

\* How many operations of a descriptor are outstanding.
Outstanding(d) ==
    Cardinality({op \in io.waiting : op.on = d})
      + Cardinality({i \in DOMAIN io.queue : io.queue[i].op.on = d})

\* A connection the manager keeps has exactly one operation outstanding, so that
\* its socket, its buffer and its reply are never used by two; one it keeps no
\* longer has at most the last, and nothing waits on a closed socket.
OneOperation ==
    /\ \A c \in Clients :
         Outstanding(c) <= 1 /\ (c \in connections => Outstanding(c) = 1)
    /\ \A op \in io.waiting : op.on \in io.open

\* connection_manager: an open connection is one the manager knows and can stop,
\* unless its accept has still to be handled, and it knows no closed one: neither a
\* socket nor a connection object is left behind.
Managed ==
    io.open \ {Acceptor} =
        connections \cup {io.queue[i].what : i \in {j \in DOMAIN io.queue :
                              io.queue[j].op = Accept /\ io.queue[j].what \in Clients}}

\* server::run, "there is always at least one asynchronous operation
\* outstanding: the asynchronous accept call", and never a second one.
AcceptOutstanding == Acceptor \in io.open => Outstanding(Acceptor) = 1

\* The server hangs up on a client that is there only when it has sent all of
\* its reply, or was told to stop.
Answered(c) ==
    c \in connections /\ c \notin connections' =>
        \/ io.left[c] = 0 /\ Head(io.queue) = Completion(Write(c), "sent")
        \/ peer[c] = "closed" \/ signalled

HangsUpWhenDone == [][\A c \in Clients : Answered(c)]_vars

\* Sockets are given back: whoever came before, a client is served, unless
\* others that stay connected hold every descriptor time and again.
HeldUp(c) == Cardinality({d \in Clients \ {c} : peer[d] = "open"}) >= io.limit

EveryConnectionServed ==
    \A c \in Clients :
        \/ []<>HeldUp(c)
        \/ Contains(io.backlog, c) ~> (c \in io.open \/ signalled)

\* However many reads a request takes, a client that has sent a whole one is
\* answered and hung up on (HangsUpWhenDone: with all of its reply), unless it
\* stops taking what it is sent.
EveryRequestAnswered ==
    \A c \in Clients :
        \/ <>[](Write(c) \in io.waiting)
        \/ (c \in connections /\ io.wire[c] = "decided") ~> c \notin connections

\* do_await_stop, "Once all operations have finished the io_context::run() call
\* will exit": and they do, whatever clients and handlers were about.
SignalEndsRun == signalled ~> phase = "returned"

=============================================================================
