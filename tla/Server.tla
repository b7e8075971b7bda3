-------------------------------- MODULE Server --------------------------------
(***************************************************************************)
(* class Server of server.cpp and the main of main.cpp: the accept loop,   *)
(* the sessions it keeps, and how a signal ends them, on the one thread    *)
(* that runs the io_service.                                               *)
(*                                                                         *)
(* The handlers of a session hold a plain pointer to it (shared_from_this  *)
(* is commented out), and session_ never gives one up: what a session does *)
(* is module Session, and is here only that a handler of it runs.  A       *)
(* session, and so its descriptor, outlives its client.                    *)
(***************************************************************************)
EXTENDS Integers, FiniteSets, Sequences

CONSTANTS Clients,      \* the connections clients make, each once
          MaxOpen,      \* how many of them are open at a time
          Descriptors,  \* how many the process may have open
          NoClient      \* peer of a closed socket

ASSUME ServerAssumption ==
    /\ IsFiniteSet(Clients) /\ NoClient \notin Clients
    /\ MaxOpen \in Nat \ {0} /\ Descriptors \in Nat \ {0}

VARIABLES
    phase,      \* of main: "run" in io_service::run, "stopped", "freed", "returned"
    queue,      \* the handlers the io_service will call
    accepting,  \* an accept waits for the listening socket
    socket,     \* socket_: its peer
    session,    \* session_: the peers of the sessions
    backlog,    \* connections made and not yet accepted
    conn,       \* what each client has done
    signalled   \* SIGINT or SIGTERM has been received

clients == <<conn, signalled>>
vars == <<phase, queue, accepting, socket, session, backlog, clients>>

Accepted(ok)  == [of |-> "acceptor", ok |-> ok]
Completion(c) == [of |-> "session", peer |-> c]
Signal        == [of |-> "signals"]

\* Server::Server has started the first accept, main the wait for a signal.
Init ==
    /\ phase = "run" /\ queue = <<>>
    /\ accepting = TRUE /\ socket = NoClient
    /\ session = <<>> /\ backlog = <<>>
    /\ conn = [c \in Clients |-> "new"]
    /\ signalled = FALSE

Holds(seq, x) == \E i \in DOMAIN seq : seq[i] = x

-----------------------------------------------------------------------------
(* asio: async_accept into socket_, with q queued before its completion.   *)

Waits(q) ==
    /\ backlog = <<>>
    /\ accepting' = TRUE /\ socket' = NoClient /\ queue' = q
    /\ UNCHANGED backlog

Accepts(q, open) ==
    /\ backlog # <<>> /\ open < Descriptors
    /\ accepting' = FALSE /\ socket' = Head(backlog)
    /\ queue' = Append(q, Accepted(TRUE))
    /\ backlog' = Tail(backlog)

\* EMFILE: the connection stays where it is.
Refuses(q, open) ==
    /\ backlog # <<>> /\ open >= Descriptors
    /\ accepting' = FALSE /\ socket' = NoClient
    /\ queue' = Append(q, Accepted(FALSE))
    /\ UNCHANGED backlog

AsyncAccept(q, open) == Waits(q) \/ Accepts(q, open) \/ Refuses(q, open)

\* The reactor finds a connection for the accept that waits.
PollAccept ==
    /\ phase = "run" /\ accepting /\ backlog # <<>>
    /\ Accepts(queue, Len(session)) \/ Refuses(queue, Len(session))
    /\ UNCHANGED <<phase, session, clients>>

\* An operation of a session completes.  One whose client has closed has none
\* left once it has noticed.
PollSession(c) ==
    /\ phase = "run" /\ Holds(session, c)
    /\ conn[c] \in {"open", "closed"} /\ ~Holds(queue, Completion(c))
    /\ queue' = Append(queue, Completion(c))
    /\ UNCHANGED <<phase, accepting, socket, session, backlog, clients>>

-----------------------------------------------------------------------------
\* Mutants: the new session replaces the others; a session for an accept that
\* failed; the loop ends on an error; it ends with the first accept.
OnAcceptReplacing(ok) ==
    /\ session' = IF ok THEN <<socket>> ELSE session
    /\ AsyncAccept(Tail(queue), Len(session'))
    /\ UNCHANGED <<phase, clients>>
OnAcceptUnchecked(ok) ==
    /\ session' = Append(session, socket)
    /\ AsyncAccept(Tail(queue), Len(session'))
    /\ UNCHANGED <<phase, clients>>
OnAcceptEnding(ok) ==
    /\ session' = IF ok THEN Append(session, socket) ELSE session
    /\ \/ ok /\ AsyncAccept(Tail(queue), Len(session'))
       \/ ~ok /\ queue' = Tail(queue) /\ UNCHANGED <<accepting, socket, backlog>>
    /\ UNCHANGED <<phase, clients>>
OnAcceptOnce(ok) ==
    /\ session' = IF ok THEN Append(session, socket) ELSE session
    /\ queue' = Tail(queue) /\ socket' = NoClient
    /\ UNCHANGED <<phase, accepting, backlog, clients>>

\* The handler of do_accept: socket_ moves into a new session, which starts,
\* and the next accept is begun, whatever became of this one.
OnAccept(ok) ==
    /\ session' = IF ok THEN Append(session, socket) ELSE session
    /\ AsyncAccept(Tail(queue), Len(session'))
    /\ UNCHANGED <<phase, clients>>

\* A handler of a session: see module Session.
OnSession(c) ==
    /\ conn' = [conn EXCEPT ![c] = IF @ = "closed" THEN "noticed" ELSE @]
    /\ queue' = Tail(queue)
    /\ UNCHANGED <<phase, accepting, socket, session, backlog, signalled>>

\* Mutant: the handler of the signal stops nothing.
OnSignalIgnored ==
    /\ queue' = Tail(queue)
    /\ UNCHANGED <<phase, accepting, socket, session, backlog, clients>>

\* SignalHandler: io_service_.stop().
OnSignal ==
    /\ phase' = "stopped"
    /\ queue' = Tail(queue)
    /\ UNCHANGED <<accepting, socket, session, backlog, clients>>

Run ==
    /\ phase = "run" /\ queue # <<>>
    /\ \/ \E ok \in BOOLEAN : Head(queue) = Accepted(ok) /\ OnAccept(ok)
       \/ \E c \in Clients : Head(queue) = Completion(c) /\ OnSession(c)
       \/ Head(queue) = Signal /\ OnSignal

\* main leaves its block: the server is destroyed first, with its sessions and
\* sockets, and the io_service, which forgets the handlers it has, last.
DestroyServer ==
    /\ phase = "stopped" /\ phase' = "freed"
    /\ session' = <<>> /\ socket' = NoClient /\ accepting' = FALSE /\ backlog' = <<>>
    /\ UNCHANGED <<queue, clients>>

DestroyIoService ==
    /\ phase = "freed" /\ phase' = "returned"
    /\ queue' = <<>>
    /\ UNCHANGED <<accepting, socket, session, backlog, clients>>

-----------------------------------------------------------------------------
Connect(c) ==
    /\ phase = "run" /\ conn[c] = "new"
    /\ Cardinality({d \in Clients : conn[d] = "open"}) < MaxOpen
    /\ conn' = [conn EXCEPT ![c] = "open"]
    /\ backlog' = Append(backlog, c)
    /\ UNCHANGED <<phase, queue, accepting, socket, session, signalled>>

Disconnect(c) ==
    /\ conn[c] = "open"
    /\ conn' = [conn EXCEPT ![c] = "closed"]
    /\ UNCHANGED <<phase, queue, accepting, socket, session, backlog, signalled>>

Interrupt ==
    /\ phase = "run" /\ ~signalled
    /\ signalled' = TRUE
    /\ queue' = Append(queue, Signal)
    /\ UNCHANGED <<phase, accepting, socket, session, backlog, conn>>

Next ==
    \/ PollAccept \/ Run \/ DestroyServer \/ DestroyIoService \/ Interrupt
    \/ \E c \in Clients : PollSession(c) \/ Connect(c) \/ Disconnect(c)

\* The thread runs on and the kernel reports; nobody has to connect or signal.
Fairness ==
    WF_vars(PollAccept) /\ WF_vars(Run) /\ WF_vars(DestroyServer) /\ WF_vars(DestroyIoService)

Spec == Init /\ [][Next]_vars /\ Fairness

-----------------------------------------------------------------------------
Handlers ==
    [of : {"acceptor"}, ok : BOOLEAN] \cup [of : {"session"}, peer : Clients] \cup {Signal}

\* Types.
TypeOK ==
    /\ phase \in {"run", "stopped", "freed", "returned"}
    /\ queue \in Seq(Handlers)
    /\ accepting \in BOOLEAN /\ signalled \in BOOLEAN
    /\ socket \in Clients \cup {NoClient}
    /\ session \in Seq(Clients) /\ backlog \in Seq(Clients)
    /\ conn \in [Clients -> {"new", "open", "closed", "noticed"}]

\* A handler the io_service may still call belongs to a session that exists:
\* the plain pointer it holds is good, although nothing counts it.
HandlersLive ==
    phase = "run" =>
        \A i \in DOMAIN queue :
            queue[i].of = "session" => Holds(session, queue[i].peer)

Acceptances == {i \in DOMAIN queue : queue[i].of = "acceptor"}

\* While the server runs one accept is outstanding, never none and never two
\* (they would share socket_), and socket_ holds a connection only from the
\* accept that brought it to the handler that takes it.
OneAccept ==
    phase = "run" =>
        /\ IF accepting THEN Acceptances = {} ELSE \E i \in DOMAIN queue : Acceptances = {i}
        /\ (socket # NoClient) <=> Holds(queue, Accepted(TRUE))

\* Every connection is in one place: waiting for the accept, in socket_, or in
\* one session, where it stays when its client has gone.
Places(c) ==
    {<<"backlog", i>> : i \in {j \in DOMAIN backlog : backlog[j] = c}}
      \cup {<<"session", i>> : i \in {j \in DOMAIN session : session[j] = c}}
      \cup (IF socket = c THEN {<<"socket", 0>>} ELSE {})

OnePlace ==
    phase = "run" =>
        \A c \in Clients : conn[c] # "new" => \E place \in Places(c) : Places(c) = {place}

\* While descriptors last every client that connects is given a session, unless
\* the server is stopped.
ServedWhileTheyLast ==
    \A c \in Clients :
        Holds(backlog, c) ~>
          (Holds(session, c) \/ Len(session) >= Descriptors \/ phase # "run")

\* README.md, "Соединения должны обслуживаться": so is every client where fewer
\* clients than there are descriptors are ever connected at a time.
EveryConnectionServed ==
    \A c \in Clients : Holds(backlog, c) ~> (Holds(session, c) \/ phase # "run")

\* main.cpp, "Use Ctrl-C to stop the service": after a signal main returns,
\* whatever clients do.
SignalEndsMain == signalled ~> phase = "returned"

=============================================================================
