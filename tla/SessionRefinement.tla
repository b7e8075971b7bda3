--------------------------- MODULE SessionRefinement ---------------------------
(***************************************************************************)
(* A session, with its several reads on one buffer, its several writes     *)
(* from one string and the queue of their handlers, keeps the promise of   *)
(* CommandPrompt to a client that awaits each prompt.  A word is said when *)
(* the socket has taken its first byte, whether or not the client has read *)
(* it, and it is another word if any byte of it is not its own.            *)
(***************************************************************************)
EXTENDS Session

\* How many words have begun, and which they are.
Begun(wire) == IF wire = <<>> THEN 0 ELSE wire[Len(wire)].at

Tells(words, wire) ==
    [at \in 1..Begun(wire) |->
        LET text == words[at].text
        IN  IF \A i \in DOMAIN wire : wire[i].at = at => wire[i].word = text
            THEN text ELSE Garbled]

Told == Tells(s.words, Wire)

Promise == INSTANCE CommandPrompt WITH
    asked <- sent,
    heard <- s.heard,
    told  <- Told,
    open  <- ~s.eof

\* README.md and server.h: each command is executed once, as it was sent and only
\* when all that precedes it has been answered, and its answer and prompt leave
\* whole and in their place, whatever steps asio takes in between and whenever the
\* client closes.
KeepsPromise == Promise!Spec

=============================================================================
