------------------------------- MODULE Session -------------------------------
(***************************************************************************)
(* class Session of server.cpp and its client: one connection, served by   *)
(* the handlers a single thread runs from the queue of the io_service.     *)
(*                                                                         *)
(* A session starts one read in start() and one more whenever a write      *)
(* completes, although every command starts two writes: it has several     *)
(* reads outstanding on one streambuf and several writes outstanding from  *)
(* one string.  The reactor of asio 1.10.6 is modelled as far as their     *)
(* order depends on it: an operation is tried at once when no other of its *)
(* kind is waiting, waiting ones are tried in order when the descriptor is *)
(* reported ready, and what has completed joins one FIFO queue.            *)
(*                                                                         *)
(* A write goes on until the socket has taken all of it, and goes to the   *)
(* end of the line after each part: two of them may interleave.            *)
(*                                                                         *)
(* Lines and replies are sequences of bytes, for it is where a byte lies   *)
(* in a buffer that decides what becomes of it.                            *)
(***************************************************************************)
EXTENDS Streambuf, Commands, SequencesExt

CONSTANTS
    Lines,        \* the texts a client may send
    MaxLines,     \* how many lines it sends at most
    ReplyLength,  \* bytes of a reply (14 to 16 with its newline)
    SendRoom,     \* bytes the socket holds before the client reads one
    Pipelining,   \* the client may send before it has been prompted
    Splitting,    \* a line may arrive in two segments
    Blanks,       \* the client may send a blank line
    Closing,      \* the client may close the connection
    Asserts       \* a Debug build, the default: ASIO_ASSERT aborts

ASSUME SessionAssumption ==
    /\ MaxLines \in Nat /\ SendRoom \in Nat \ {0}
    /\ ReplyLength \in Nat /\ ReplyLength >= 2
    /\ {Pipelining, Splitting, Blanks, Closing, Asserts} \subseteq BOOLEAN
    /\ Lines \subseteq Seq(STRING) \ {<<>>}
    /\ \A text \in Lines : \A i \in DOMAIN text : text[i] # Newline

Prompt  == "> "
Cleared == ""
Garbled == "garbled"    \* a byte of a string that was overwritten meanwhile

\* A prompt is two bytes, every reply as long as any other.
Length(word) == IF word = Prompt THEN 2 ELSE ReplyLength

VARIABLES
    s,        \* the session with its socket, see New
    sent,     \* the commands the client has sent
    blanks,   \* how many blank lines it has sent
    partial,  \* it has sent a text and not yet its newline
    got       \* what it has read

client == <<sent, blanks, partial, got>>
vars == <<s, client>>

New == [started  |-> FALSE, crashed |-> FALSE,
        buf      |-> NewBuf,    \* streambuf_
        reply    |-> [i \in 1..ReplyLength |-> Cleared],
                                \* reply_: the word each byte of it is of
        words    |-> <<>>,      \* the writes started: their text, and how many
                                \* bytes of it the socket has taken
        reads    |-> <<>>,      \* reads waiting for the descriptor
        writes   |-> <<>>,      \* writes waiting for it, by their place in words
        ready    |-> <<>>,      \* the queue of the io_service
        reported |-> {},        \* what the descriptor in it is reported for
        trying   |-> "none",    \* the kind of operations being tried
        done     |-> <<>>,      \* those of them that have completed
        inbox    |-> <<>>,      \* arrived and not yet read
        news     |-> FALSE,     \* arrived and not yet reported
        outbox   |-> <<>>,      \* written and not yet read by the client
        room     |-> FALSE,     \* the client has made room, not yet reported
        eof      |-> FALSE,     \* the client has closed
        reset    |-> FALSE,     \* and its host refuses what is sent
        heard    |-> <<>>,      \* the commands executed
        ended    |-> 0]         \* operations whose handler started nothing

Init == s = New /\ sent = <<>> /\ blanks = 0 /\ partial = FALSE /\ got = <<>>

-----------------------------------------------------------------------------
(* asio: asynchronous reads and writes.                                    *)

Post(c, event) == [c EXCEPT !.ready = Append(@, event)]

Readable(c) == c.inbox # <<>> \/ c.eof

Count(c, op) == IF op.n < Len(c.inbox) THEN op.n ELSE Len(c.inbox)

\* recv for one read: its bytes go to the region it has prepared, and are
\* lost if the block of the region has been freed.
Receive(c, op) ==
    LET bytes == SubSeq(c.inbox, 1, Count(c, op))
    IN  [c EXCEPT !.inbox = SubSeq(@, Count(c, op) + 1, Len(@)),
                  !.buf = IF op.block = @.block THEN Store(@, op.base, bytes) ELSE @]

Received(c, op) ==
    [kind |-> "read", pos |-> op.pos, n |-> Count(c, op), error |-> c.inbox = <<>>]

\* async_read_some into a region prepared now.
AsyncReadSome(c, pos) ==
    LET b  == Reserve(c.buf, ReadSize(c.buf))
        d  == [c EXCEPT !.buf = b]
        op == [pos |-> pos, base |-> b.put, n |-> ReadSize(c.buf), block |-> b.block]
    IN  IF c.reads = <<>> /\ Readable(c)
        THEN Post(Receive(d, op), Received(d, op))
        ELSE [d EXCEPT !.reads = Append(@, op)]

\* async_read_until: a delimiter that is there already completes it, by way of
\* the queue and with the position found now.
AsyncReadUntil(c) ==
    LET end == DelimiterEnd(c.buf, 0)
    IN  IF end > 0
        THEN Post(c, [kind |-> "read", pos |-> end, n |-> 0, error |-> FALSE])
        ELSE AsyncReadSome(c, Size(c.buf))

\* One send of a write: as many bytes as there is room for, and they are those
\* reply_ holds now.
Transmit(c, at) ==
    LET word    == c.words[at]
        rest    == Length(word.text) - word.taken
        n       == IF c.eof THEN rest ELSE Smaller(rest, SendRoom - Len(c.outbox))
        Byte(i) == [at |-> at, byte |-> i,
                    word |-> IF c.reply[i] = word.text THEN word.text ELSE Garbled]
    IN  [c EXCEPT !.words[at].taken = @ + n,
                  !.outbox = IF c.eof THEN @
                             ELSE @ \o [i \in 1..n |-> Byte(word.taken + i)]]

Writable(c) == c.eof \/ Len(c.outbox) < SendRoom

Written(c, at) == [kind |-> "write", at |-> at, error |-> c.reset]

AsyncWriteSome(c, at) ==
    IF c.writes = <<>> /\ Writable(c)
    THEN Post(Transmit(c, at), Written(c, at))
    ELSE [c EXCEPT !.writes = Append(@, at)]

\* async_write, of the string reply_ was last assigned.
AsyncWrite(c) ==
    AsyncWriteSome([c EXCEPT !.words = Append(@, [text |-> c.reply[1], taken |-> 0])],
                   Len(c.words) + 1)

-----------------------------------------------------------------------------
(* class Session.                                                          *)

DoRead(c) == AsyncReadUntil(c)
DoWrite(c) == AsyncWrite(c)

\* Assignment writes the string's bytes and a terminator over those it held, and
\* clear a terminator over the first.  (The move of the string when
\* TruncatePrinter outgrows it, which spoils a write that waits too, is left out.)
Assign(c, word) ==
    [c EXCEPT !.reply = [i \in DOMAIN @ |-> IF i <= Length(word) + 1 THEN word ELSE @[i]]]
Clear(c) == [c EXCEPT !.reply[1] = Cleared]

\* Mutants: every prompt is sent twice; reply_ is assigned after the write starts.
DoPromptTwice(c) == DoWrite(DoWrite(Assign(c, Prompt)))
DoPromptLate(c) == Assign(DoWrite(c), Prompt)
DoPrompt(c) == DoWrite(Assign(c, Prompt))
DoStart(c) == DoRead(DoPrompt(c))

\* The string the handler of do_read builds.  Its end is an iterator moved n bytes
\* from the start of the data and one back: where the data is shorter it stops
\* at their end first, unless there are none and it goes on into what was eaten.
Extracted(b, n) ==
    IF Size(b) > 0 THEN SubSeq(Content(b), 1, Smaller(n, Size(b)) - 1)
    ELSE [i \in 1..(n - 1) |-> IF b.get + i <= Len(b.mem) THEN b.mem[b.get + i] ELSE Zero]

\* Mutant: the delimiter is left in the buffer.
EatenText(c, n) == [c EXCEPT !.buf = Consume(@, n - 1)]
Eaten(c, n) == [c EXCEPT !.buf = Consume(@, n)]

\* The handler of do_read.  In a Debug build the iterator asserts that it stays
\* inside the buffer.
\* Mutant: the prompt goes ahead of the answer.
OnReadPromptFirst(c, n) ==
    LET line   == Extracted(c.buf, n)
        answer == [Eaten(c, n) EXCEPT !.heard = Append(@, line)]
    IN  IF n <= 1                          THEN [Eaten(c, n) EXCEPT !.ended = @ + 1]
        ELSE IF Asserts /\ n > Size(c.buf) THEN [c EXCEPT !.crashed = TRUE]
        ELSE DoWrite(Assign(DoPrompt(answer), Execute(line)))
OnRead(c, n) ==
    LET line   == Extracted(c.buf, n)
        answer == [Eaten(c, n) EXCEPT !.heard = Append(@, line)]
    IN  IF n <= 1                          THEN [Eaten(c, n) EXCEPT !.ended = @ + 1]
        ELSE IF Asserts /\ n > Size(c.buf) THEN [c EXCEPT !.crashed = TRUE]
        ELSE DoPrompt(DoWrite(Assign(answer, Execute(line))))

\* The handler of do_write.
\* Mutant: it starts no read.
OnWriteOnly(c, error) ==
    IF error THEN [c EXCEPT !.ended = @ + 1] ELSE Clear(c)
OnWrite(c, error) ==
    IF error THEN [c EXCEPT !.ended = @ + 1] ELSE DoRead(Clear(c))

\* asio: a completed read_some continues the async_read_until it belongs to,
\* searching from where the last search ended.  A start beyond the data fails an
\* assertion; without it the search starts at their end, or, if there are none,
\* runs through memory that has none.
ContinueRead(c, event) ==
    LET d      == [c EXCEPT !.buf = Commit(@, event.n)]
        end    == DelimiterEnd(d.buf, event.pos)
        beyond == event.pos > Size(d.buf)
    IN  IF event.error                                   THEN OnRead(d, 0)
        ELSE IF event.n = 0                              THEN OnRead(d, event.pos)
        ELSE IF beyond /\ (Asserts \/ Size(d.buf) = 0) THEN [c EXCEPT !.crashed = TRUE]
        ELSE IF end > 0                                  THEN OnRead(d, end)
        ELSE AsyncReadSome(d, Size(d.buf))

\* async_write goes on with the rest of a string taken in part.
ContinueWrite(c, event) ==
    LET word == c.words[event.at]
    IN  IF ~event.error /\ word.taken < Length(word.text)
        THEN AsyncWriteSome(c, event.at)
        ELSE OnWrite(c, event.error)

Dispatch(c, event) ==
    IF event.kind = "read" THEN ContinueRead(c, event) ELSE ContinueWrite(c, event)

-----------------------------------------------------------------------------
(* The thread in io_service::run.                                          *)

\* The server has accepted the connection.
Start ==
    /\ ~s.started
    /\ s' = DoStart([s EXCEPT !.started = TRUE])
    /\ UNCHANGED client

\* The reactor reports the descriptor, once for all that has happened.
PollIn ==
    /\ s.started /\ s.news /\ Readable(s) /\ "in" \notin s.reported
    /\ s' = Post([s EXCEPT !.news = FALSE, !.reported = @ \cup {"in"}], [kind |-> "in"])
    /\ UNCHANGED client

PollOut ==
    /\ s.room /\ "out" \notin s.reported
    /\ s' = Post([s EXCEPT !.room = FALSE, !.reported = @ \cup {"out"}], [kind |-> "out"])
    /\ UNCHANGED client

MayRun == s.ready # <<>> /\ s.trying = "none"

Run ==
    /\ MayRun
    /\ LET event == Head(s.ready)
           c     == [s EXCEPT !.ready = Tail(@)]
       IN  s' = IF event.kind \in {"in", "out"}
                THEN [c EXCEPT !.trying = event.kind, !.reported = @ \ {event.kind}]
                ELSE Dispatch(c, event)
    /\ UNCHANGED client

\* The waiting operations are tried in order until one would block.
TryRead ==
    /\ s.trying = "in" /\ s.reads # <<>> /\ Readable(s)
    /\ LET op == Head(s.reads)
       IN  s' = [Receive(s, op) EXCEPT !.reads = Tail(@), !.done = Append(@, Received(s, op))]
    /\ UNCHANGED client

TryWrite ==
    /\ s.trying = "out" /\ s.writes # <<>> /\ Writable(s)
    /\ s' = [Transmit(s, Head(s.writes)) EXCEPT !.writes = Tail(@),
                                                !.done = Append(@, Written(s, Head(s.writes)))]
    /\ UNCHANGED client

\* The first one that completed is dispatched at once, ahead of the queue the
\* others join.
Tried ==
    /\ s.trying = "in" => s.reads = <<>> \/ ~Readable(s)
    /\ s.trying = "out" => s.writes = <<>> \/ ~Writable(s)
    /\ s.trying # "none"
    /\ LET c == [s EXCEPT !.trying = "none", !.done = <<>>]
       IN  s' = IF s.done = <<>> THEN c
                ELSE Dispatch([c EXCEPT !.ready = @ \o Tail(s.done)], Head(s.done))
    /\ UNCHANGED client

\* A read that was given a block since freed writes into memory that is not
\* its own, and the allocator notices.
WildRead ==
    /\ s.trying = "in" /\ s.inbox # <<>>
    /\ s.reads # <<>> /\ Head(s.reads).block # s.buf.block
    /\ s' = [s EXCEPT !.crashed = TRUE]
    /\ UNCHANGED client

\* Nor need the iterator of an empty buffer survive where nothing asserts.
WildIterator ==
    /\ MayRun /\ ~Asserts /\ Size(s.buf) = 0
    /\ LET event == Head(s.ready)
       IN  event.kind = "read" /\ event.n = 0 /\ ~event.error /\ event.pos > 1
    /\ s' = [s EXCEPT !.crashed = TRUE]
    /\ UNCHANGED client

-----------------------------------------------------------------------------
(* The client and the network.                                             *)

Arrive(bytes) == s' = [s EXCEPT !.inbox = @ \o bytes, !.news = TRUE]

\* The prompts it has read to their end.
Prompts == Cardinality({i \in DOMAIN got : got[i].word = Prompt /\ got[i].byte = 2})

MaySend ==
    /\ ~s.eof /\ ~partial /\ Len(sent) + blanks < MaxLines
    /\ Pipelining \/ Prompts > Len(sent)

SendLine(text) ==
    /\ MaySend
    /\ Arrive(Append(text, Newline))
    /\ sent' = Append(sent, text)
    /\ UNCHANGED <<blanks, partial, got>>

SendText(text) ==
    /\ Splitting /\ MaySend
    /\ Arrive(text)
    /\ sent' = Append(sent, text)
    /\ partial' = TRUE
    /\ UNCHANGED <<blanks, got>>

SendNewline ==
    /\ partial /\ ~s.eof
    /\ Arrive(<<Newline>>)
    /\ partial' = FALSE
    /\ UNCHANGED <<sent, blanks, got>>

SendBlank ==
    /\ Blanks /\ MaySend
    /\ Arrive(<<Newline>>)
    /\ blanks' = blanks + 1
    /\ UNCHANGED <<sent, partial, got>>

ClientRead ==
    /\ ~s.eof /\ s.outbox # <<>>
    /\ got' = Append(got, Head(s.outbox))
    /\ s' = [s EXCEPT !.outbox = Tail(@), !.room = s.writes # <<>>]
    /\ UNCHANGED <<sent, blanks, partial>>

\* The client closes: end of file for the reads, no limit for the writes.
Close ==
    /\ Closing /\ ~s.eof
    /\ s' = [s EXCEPT !.eof = TRUE, !.news = TRUE, !.room = s.writes # <<>>]
    /\ UNCHANGED client

\* Its host answers what it is still sent with a reset.
Reset ==
    /\ s.eof /\ ~s.reset
    /\ s' = [s EXCEPT !.reset = TRUE, !.inbox = <<>>, !.news = TRUE]
    /\ UNCHANGED client

Next ==
    /\ ~s.crashed
    /\ \/ Start \/ PollIn \/ PollOut
       \/ Run \/ TryRead \/ TryWrite \/ Tried \/ WildRead \/ WildIterator
       \/ \E text \in Lines : SendLine(text) \/ SendText(text)
       \/ SendNewline \/ SendBlank \/ ClientRead \/ Close \/ Reset

\* The thread runs on: weak fairness of its steps, written out with the guards
\* in place of ENABLED, which TLC would compute one nested handler at a time.
Running == Run \/ TryRead \/ TryWrite \/ Tried
ThreadIsFair == []<>~(~s.crashed /\ (MayRun \/ s.trying # "none")) \/ []<><<Running>>_vars

\* The kernel accepts and reports, and a client that is not hostile reads what
\* it is sent and ends the line it began.
Fairness ==
    /\ ThreadIsFair
    /\ WF_vars(Start) /\ WF_vars(PollIn) /\ WF_vars(PollOut)
    /\ WF_vars(ClientRead) /\ WF_vars(SendNewline)

Spec == Init /\ [][Next]_vars /\ Fairness

-----------------------------------------------------------------------------
Replies   == {"InsertPrinter", "TruncatePrinter", "UnknownPrinter"}
Texts     == Replies \cup {Prompt, Cleared}
Words     == {word \in [text : Texts, taken : Nat] : word.taken <= Length(word.text)}
Bytes     == [at : Nat \ {0}, byte : Nat \ {0}, word : Texts \cup {Garbled}]
ReadOps   == [pos : Nat, base : Nat, n : Nat, block : Nat]
ReadEnds  == [kind : {"read"}, pos : Nat, n : Nat, error : BOOLEAN]
WriteEnds == [kind : {"write"}, at : Nat, error : BOOLEAN]
Reports   == [kind : {"in", "out"}]

Characters == {Newline, Zero} \cup UNION {Range(text) : text \in Lines}

Bufs == {b \in [block : Nat, cap : Nat, mem : Seq(Characters), get : Nat, put : Nat] :
            b.get <= b.put /\ b.put <= Len(b.mem) /\ Len(b.mem) <= b.cap}

Sessions ==
    [started : BOOLEAN, crashed : BOOLEAN, buf : Bufs,
     reply : [1..ReplyLength -> Texts], words : Seq(Words),
     reads : Seq(ReadOps), writes : Seq(Nat),
     ready : Seq(ReadEnds \cup WriteEnds \cup Reports),
     reported : SUBSET {"in", "out"}, trying : {"none", "in", "out"},
     done : Seq(ReadEnds \cup WriteEnds),
     inbox : Seq(Characters), news : BOOLEAN,
     outbox : Seq(Bytes), room : BOOLEAN,
     eof : BOOLEAN, reset : BOOLEAN,
     heard : Seq(Seq(Characters)), ended : Nat]

\* Types, and that the streambuf keeps its areas inside its block.
TypeOK ==
    /\ s \in Sessions
    /\ sent \in Seq(Lines) /\ blanks \in Nat /\ partial \in BOOLEAN
    /\ got \in Seq(Bytes)

\* The reads and writes of the session that have been started and whose
\* handler has not run: those waiting, those tried, and those in the queue,
\* which holds the descriptor once for each kind it is reported for.
Outstanding ==
    Len(s.reads) + Len(s.writes) + Len(s.done) + Len(s.ready)
      - (IF "in" \in s.reported THEN 1 ELSE 0) - (IF "out" \in s.reported THEN 1 ELSE 0)

\* Every command leaves the session with one more operation outstanding, and a
\* blank line, an end of file or a failed write with one less for good: nothing
\* else starts or ends a read or a write.
Ledger ==
    s.started /\ ~s.crashed => Outstanding + s.ended = 2 + Len(s.heard)

\* What the client is to read when these commands have been executed.
Dialogue(heard) ==
    [i \in 1..(2 * Len(heard) + 1) |-> IF i % 2 = 1 THEN Prompt ELSE Execute(heard[i \div 2])]

Wire == got \o s.outbox

\* Byte i of the wire is the first there is, or byte j is one that may have to be
\* there before it: the byte before it of its word, or the first of the word before.
Follows(i, j) ==
    IF Wire[i].byte > 1
    THEN Wire[j].at = Wire[i].at /\ Wire[j].byte = Wire[i].byte - 1
    ELSE Wire[j].at = Wire[i].at - 1 /\ Wire[j].byte = 1

\* Whatever the client does, however little of a write the socket takes at a
\* time: the words begin in the order of the commands executed, each byte is of
\* the reply or prompt that belongs there or garbled, and none is lost before a later
\* one of its word, sent ahead of it, or sent twice.  (Words may interleave.)
WordsBeginInOrder ==
    \A i \in DOMAIN Wire :
        /\ Wire[i].at \in DOMAIN Dialogue(s.heard)
        /\ Wire[i].word \in {Dialogue(s.heard)[Wire[i].at], Garbled}
        /\ Wire[i].at + Wire[i].byte > 2 => \E j \in 1..(i - 1) : Follows(i, j)
        /\ \A j \in 1..(i - 1) : Wire[i].at = Wire[j].at => Wire[i].byte # Wire[j].byte

\* A client that awaits each prompt and sends whole lines has its commands
\* executed as it sent them, each once and in order, although the reads that
\* wait for them share one buffer.
HeardAsSent == IsPrefix(s.heard, sent)

\* What comes after byte u when words are sent whole and one after the other.
IsNext(u, v) ==
    IF u.byte < Length(u.word) THEN v.at = u.at /\ v.byte = u.byte + 1
                               ELSE v.at = u.at + 1 /\ v.byte = 1

\* A client reads every reply and prompt intact, whole and in its place: server.h,
\* "The reply to be sent back to the client".
WireIntact ==
    \A i \in DOMAIN Wire :
        /\ IF i = 1 THEN Wire[i].at = 1 /\ Wire[i].byte = 1 ELSE IsNext(Wire[i - 1], Wire[i])
        /\ Wire[i].at \in DOMAIN Dialogue(s.heard)
        /\ Wire[i].word = Dialogue(s.heard)[Wire[i].at]

\* No read waits with a region of the buffer that has been freed.
RegionsLive == \A i \in DOMAIN s.reads : s.reads[i].block = s.buf.block

\* README.md: the server runs until it is stopped.
StaysUp == ~s.crashed

\* README.md: the newline ends a command, and any command is answered.  A session
\* whose client is there always has a read or a write that will go on with it.
StillListening == s.started /\ ~s.crashed /\ ~s.eof => Outstanding > 0

\* README.md, likewise: every command the client sends is answered and followed by a
\* prompt, unless it closes.
EveryCommandAnswered ==
    \A i \in 1..MaxLines : Len(sent) >= i ~> (Prompts > i \/ s.eof \/ s.crashed)

=============================================================================
