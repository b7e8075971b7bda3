------------------------ MODULE SessionRefinementProofs ------------------------
(***************************************************************************)
(* What holds of a session whose client awaits each prompt and sends whole *)
(* lines: its commands are executed as they were sent, its replies arrive  *)
(* intact, and so it keeps the promise of CommandPrompt.                   *)
(***************************************************************************)
EXTENDS SessionProofs, SessionRefinement, FiniteSetTheorems

\* The client the server is meant for, a read that holds a line, and room in the
\* socket for an answer and a prompt.
Polite ==
    /\ ~Pipelining /\ ~Splitting /\ ~Blanks
    /\ \A text \in Lines : Len(text) < MinRead
    /\ SendRoom >= ReplyLength + 2

WriteDone(event) == event.kind = "write" /\ event.error = FALSE
ReadFailed == [kind |-> "read", pos |-> 0, n |-> 0, error |-> TRUE]
ReadLine(text) == [kind |-> "read", pos |-> 0, n |-> Len(text) + 1, error |-> FALSE]

\* The last byte of a word.
Over(byte) == ~(byte.byte < Length(byte.word))

\* Words go out one after the other, none garbled, and n of them have begun.
InTurn(words, wire) ==
    \A i \in 1..Len(wire) :
        /\ IF i = 1 THEN wire[i].at = 1 /\ wire[i].byte = 1 ELSE IsNext(wire[i - 1], wire[i])
        /\ wire[i].at \in 1..Len(words) /\ wire[i].word = words[wire[i].at].text

EndsAt(wire, n) ==
    IF wire = <<>> THEN n = 0 ELSE wire[Len(wire)].at = n /\ Over(wire[Len(wire)])

\* Every write is taken at once, and none of its words is garbled.
Direct(c, read) ==
    /\ c.writes = <<>> /\ c.room = FALSE /\ c.trying # "out" /\ "out" \notin c.reported
    /\ c.crashed = FALSE
    /\ \A at \in 1..Len(c.words) : c.words[at].taken = Length(c.words[at].text)
    /\ InTurn(c.words, Spoken(c, read))
    /\ ~c.eof => EndsAt(Spoken(c, read), Len(c.words))

\* The buffer is empty between two handlers, and every read that waits was given
\* the whole of one block, so that a line lands at its front whichever read it is.
Aligned(c) ==
    /\ c.buf.get = c.buf.put
    /\ c.started => c.buf.cap >= MinRead
    /\ \A i \in DOMAIN c.reads :
         c.reads[i].base = 0 /\ c.reads[i].pos = 0 /\ c.reads[i].n >= MinRead
           /\ c.reads[i].block = c.buf.block

\* The text is on its way: it is the one command sent and not yet executed.
Underway(c, asked, text) ==
    asked = Append(c.heard, text) /\ (~c.eof => c.outbox = <<>>)

\* It lies at the front of the block.
Lies(b, text) ==
    Len(text) + 1 <= Len(b.mem) /\ SubSeq(b.mem, 1, Len(text) + 1) = Append(text, Newline)

\* A line that has arrived: what the reads before it have left to do comes first,
\* and it puts the put area back to the front of the block.
Arrived(c, asked) ==
    c.inbox # <<>> =>
        /\ \E text \in Lines : c.inbox = Append(text, Newline) /\ Underway(c, asked, text)
        /\ c.started /\ c.reads # <<>> /\ c.done = <<>> /\ c.reset = FALSE
        /\ \A i \in DOMAIN c.ready :
             WriteDone(c.ready[i]) \/ (i = Len(c.ready) /\ c.ready[i].kind = "in")
        /\ c.buf.put # 0 => c.ready # <<>> /\ WriteDone(c.ready[1])
        /\ c.trying = "in" =>
             c.buf.put = 0 /\ \A i \in DOMAIN c.ready : c.ready[i].kind = "in"

\* A line that a read has taken is the first to be handled.
Taken(c, asked) ==
    /\ c.trying = "none" => c.done = <<>>
    /\ c.done # <<>> => c.inbox = <<>>
    /\ \A i \in DOMAIN c.done :
         \/ c.eof /\ c.done[i] = ReadFailed
         \/ /\ i = 1 /\ c.buf.put = 0
            /\ \E text \in Lines :
                 c.done[1] = ReadLine(text) /\ Underway(c, asked, text) /\ Lies(c.buf, text)

\* While the client is there no read ends but with a line, and the descriptor is
\* reported only for one.
Present(c) ==
    ~c.eof =>
        /\ c.ended = 0 /\ c.reset = FALSE
        /\ c.started => c.reads # <<>>
        /\ c.news => c.inbox # <<>> /\ "in" \notin c.reported /\ c.trying = "none"
        /\ "in" \in c.reported => c.inbox # <<>> /\ c.trying = "none"
        /\ c.inbox = <<>> => /\ \A i \in DOMAIN c.ready : WriteDone(c.ready[i])
                             /\ c.buf.put # 0 => c.ready # <<>>
                             /\ c.trying = "none" \/ c.done # <<>>

\* A read that has ended in the queue ended because the client has left.
Ended(c) ==
    \A i \in DOMAIN c.ready : c.ready[i].kind = "read" => c.ready[i] = ReadFailed

\* All commands sent but one at most have been executed.
Awaited(c, asked) ==
    asked = c.heard \/ \E text \in Lines : asked = Append(c.heard, text)

Calm(c, read, asked) ==
    /\ Direct(c, read) /\ Aligned(c) /\ Arrived(c, asked) /\ Taken(c, asked)
    /\ Present(c) /\ Ended(c) /\ Awaited(c, asked)

\* What becomes of the session when its client sees no difference.
StaysCalm(c, t, read, asked) ==
    /\ Calm(t, read, asked) /\ t.eof = c.eof /\ t.heard = c.heard
    /\ t.outbox = c.outbox /\ t.words = c.words

\* How many prompts have been read, as the last byte that has been read tells.
Heeded(read) ==
    IF read = <<>> THEN 0
    ELSE LET byte == read[Len(read)]
         IN  (byte.at + (IF Over(byte) THEN 1 ELSE 0)) \div 2

PInv ==
    /\ IInv /\ Calm(s, got, sent)
    /\ partial = FALSE /\ blanks = 0
    /\ Prompts = Heeded(got)

-----------------------------------------------------------------------------
(* Reads and writes of such a session.                                     *)

\* What asio's operations leave alone.
Alike(c, t) ==
    /\ t.started = c.started /\ t.crashed = c.crashed /\ t.writes = c.writes
    /\ t.reported = c.reported /\ t.trying = c.trying /\ t.done = c.done
    /\ t.inbox = c.inbox /\ t.news = c.news /\ t.room = c.room /\ t.eof = c.eof
    /\ t.reset = c.reset /\ t.ended = c.ended

\* A line: its text holds no delimiter, and it ends with one.
LEMMA LineOK ==
    ASSUME NEW text \in Lines
    PROVE  /\ text \in Seq(Characters) /\ Len(text) \in Nat /\ Len(text) >= 1
           /\ \A i \in 1..Len(text) : text[i] # Newline
           /\ Append(text, Newline) \in Seq(Characters) /\ Append(text, Newline) # <<>>
           /\ Len(Append(text, Newline)) = Len(text) + 1
           /\ Append(text, Newline)[Len(text) + 1] = Newline
           /\ \A i \in 1..Len(text) : Append(text, Newline)[i] = text[i]
<1>1. /\ text \in Seq(STRING) /\ DOMAIN text = 1..Len(text) /\ Len(text) \in Nat
      /\ Len(text) >= 1
  <2>1. text \in Seq(STRING) /\ text # <<>>  BY SessionAssumption
  <2>2. Len(text) # 0  BY <2>1, EmptySeq
  <2> QED  BY <2>1, <2>2, LenProperties
<1>2. text \in Seq(Characters)
  <2>1. \A i \in 1..Len(text) : text[i] \in Characters
    <3>1. \A i \in 1..Len(text) : text[i] \in Range(text)  BY <1>1 DEF Range
    <3> QED  BY <3>1 DEF Characters
  <2>2. text = [i \in 1..Len(text) |-> text[i]]
    BY <1>1
  <2> QED  BY <1>1, <2>1, <2>2, IsASeq
<1>3. \A i \in 1..Len(text) : text[i] # Newline
  BY <1>1, SessionAssumption
<1>4. Newline \in Characters  BY DEF Characters
<1> DEFINE line == Append(text, Newline)
<1>5. /\ line \in Seq(Characters) /\ Len(line) = Len(text) + 1
      /\ line[Len(text) + 1] = Newline /\ \A i \in 1..Len(text) : line[i] = text[i]
  BY <1>2, <1>4, AppendProperties
<1>6. line # <<>>
  <2>1. Len(<<>>) = 0  BY EmptySeq
  <2> HIDE DEF line
  <2> QED  BY <1>1, <1>5, <2>1
<1> QED  BY <1>1, <1>2, <1>3, <1>5, <1>6

LEMMA Emptied ==
    ASSUME NEW b \in Bufs, b.get = b.put
    PROVE  Size(b) = 0 /\ DelimiterEnd(b, 0) = 0
<1>1. Size(b) = 0  BY DEF Size, Bufs
<1> QED  BY <1>1 DEF DelimiterEnd

\* prepare on an empty buffer hands out the front of the block, and all of it; the
\* block stays once it is large enough.
LEMMA Refilled ==
    ASSUME NEW b \in Bufs, b.get = b.put
    PROVE  LET n == ReadSize(b)
               r == Reserve(b, n)
           IN  /\ r \in Bufs /\ r.get = 0 /\ r.put = 0 /\ r.cap >= MinRead
               /\ n \in Nat /\ n >= MinRead
               /\ b.cap >= MinRead => r.block = b.block
<1> DEFINE n == ReadSize(b)
           r == Reserve(b, n)
           len == Larger(Len(b.mem), Len(Content(b)) + n)
           grow == len > b.cap
           m == Len(b.mem)
<1>1. /\ b.block \in Nat /\ b.cap \in Nat /\ b.get \in Nat /\ b.put \in Nat /\ m \in Nat
      /\ b.put <= m /\ m <= b.cap /\ MinRead \in Nat
  <2>1. m \in Nat  BY BufsAreBufs, ContentOK
  <2> QED  BY <2>1, StreambufAssumption DEF Bufs
<1>2. Size(b) = 0 /\ Len(Content(b)) = 0
  BY Emptied, BufsAreBufs, ContentOK
<1>3. n \in Nat /\ n >= MinRead /\ n >= b.cap /\ (b.cap >= MinRead => n = b.cap)
  BY <1>1, <1>2 DEF ReadSize, Larger
<1>4. r \in Bufs
  <2> HIDE DEF n
  <2> QED  BY <1>3, BufsAreBufs, ReserveOK
<1>5. CASE n <= m - b.put
  <2>1. r = b  BY <1>5 DEF Reserve
  <2> HIDE DEF n, m
  <2>2. b.put = 0 /\ b.cap >= MinRead  BY <1>1, <1>3, <1>5
  <2> HIDE DEF r
  <2> QED  BY <1>3, <1>4, <2>1, <2>2 DEF n, r
<1>6. CASE ~(n <= m - b.put)
  <2>1. /\ r.block = IF grow THEN b.block + 1 ELSE b.block
        /\ r.cap = IF grow THEN Larger(2 * m, len) ELSE b.cap
        /\ r.get = 0 /\ r.put = Len(Content(b))
    BY <1>6 DEF Reserve
  <2>2. len = n
    <3> HIDE DEF n, m
    <3> QED  BY <1>1, <1>2, <1>3 DEF Larger, m
  <2> HIDE DEF n, m, len, r
  <2>3. r.cap >= MinRead
    BY <1>1, <1>3, <2>1, <2>2 DEF Larger
  <2>4. b.cap >= MinRead => r.block = b.block
    BY <1>1, <1>3, <2>1, <2>2
  <2> QED  BY <1>2, <1>3, <1>4, <2>1, <2>3, <2>4 DEF n, r
<1> QED  BY <1>5, <1>6

\* A list that agrees with a longer one as far as it goes is a beginning of it.
LEMMA Beginning ==
    ASSUME NEW T, NEW short \in Seq(T), NEW long \in Seq(T), Len(short) <= Len(long),
           \A i \in 1..Len(short) : short[i] = long[i]
    PROVE  short = SubSeq(long, 1, Len(short)) /\ IsPrefix(short, long)
<1> DEFINE k == Len(short)
           x == SubSeq(long, 1, k)
<1>1. k \in Nat /\ Len(long) \in Nat /\ k <= Len(long)  BY LenProperties
<1>2. \A i \in 1..k : long[i] \in T
  <2>1. \A i \in 1..Len(long) : long[i] \in T  OBVIOUS
  <2> HIDE DEF k
  <2> QED  BY <1>1, <2>1
<1> HIDE DEF k
<1>3. /\ x \in Seq(T) /\ Len(x) = (IF 1 <= k THEN k - 1 + 1 ELSE 0)
      /\ \A i \in 1..k - 1 + 1 : x[i] = long[1 + i - 1]
  BY <1>1, <1>2, SubSeqProperties
<1>4. Len(x) = k /\ k - 1 + 1 = k /\ \A i \in 1..k : 1 + i - 1 = i
  BY <1>1, <1>3
<1>5. \A i \in 1..k : x[i] = long[i]
  BY <1>3, <1>4
<1> HIDE DEF x
<1>6. short = x
  BY <1>3, <1>4, <1>5, SeqEqual DEF k
<1>7. SubSeq(short, 1, k) = short
  BY SubSeqFull DEF k
<1> QED  BY <1>6, <1>7 DEF IsPrefix, x, k

\* A read of nothing stores nothing.
LEMMA StoreNothing ==
    ASSUME NEW b \in Bufs
    PROVE  Store(b, 0, <<>>) = b
<1>1. b.mem \in Seq(Characters) /\ Len(b.mem) \in Nat
  BY BufsAreBufs, ContentOK
<1>2. SubSeq(b.mem, 1, 0) = <<>>  BY SubSeqEmpty
<1>3. SubSeq(b.mem, 1, Len(b.mem)) = b.mem  BY <1>1, SubSeqFull
<1>4. <<>> \o <<>> \o b.mem = b.mem  BY <1>1
<1>5. Store(b, 0, <<>>) = [b EXCEPT !.mem = b.mem]
  <2>1. 0 + Len(<<>>) + 1 = 1  BY EmptySeq
  <2> QED  BY <1>2, <1>3, <1>4, <2>1 DEF Store
<1> QED  BY <1>5 DEF Bufs

\* Nothing is received from a socket that holds nothing.
LEMMA ReceiveNothing ==
    ASSUME NEW c \in Sessions, c.inbox = <<>>, NEW op \in ReadOps, op.base = 0
    PROVE  /\ Receive(c, op) = c
           /\ Received(c, op) = [kind |-> "read", pos |-> op.pos, n |-> 0, error |-> TRUE]
<1>1. Len(c.inbox) = 0  BY EmptySeq
<1>2. op.n \in Nat  BY DEF ReadOps
<1>3. Count(c, op) = 0  BY <1>1, <1>2 DEF Count
<1>4. SubSeq(c.inbox, 1, 0) = <<>> /\ SubSeq(c.inbox, 0 + 1, Len(c.inbox)) = <<>>
  BY <1>1, SubSeqEmpty
<1>5. Receive(c, op) = [c EXCEPT !.inbox = <<>>, !.buf = c.buf]
  <2>1. c.buf \in Bufs  BY Fields
  <2>2. Store(c.buf, op.base, <<>>) = c.buf  BY <2>1, StoreNothing
  <2> QED  BY <1>3, <1>4, <2>2 DEF Receive
<1>6. [c EXCEPT !.inbox = <<>>, !.buf = c.buf] = c
  BY DEF Sessions
<1> QED  BY <1>3, <1>5, <1>6 DEF Received

\* do_read with an empty buffer: one more read waits for the front of the block, or
\* ends at once because the client has left.
LEMMA CalmRead ==
    ASSUME NEW c \in Sessions, c.buf.get = c.buf.put,
           c.inbox # <<>> => c.reads # <<>>
    PROVE  LET t == AsyncReadUntil(c)
           IN  /\ Alike(c, t) /\ t.heard = c.heard /\ t.outbox = c.outbox /\ t.words = c.words
               /\ t.buf.get = 0 /\ t.buf.put = 0 /\ t.buf.cap >= MinRead
               /\ c.buf.cap >= MinRead => t.buf.block = c.buf.block
               /\ \/ /\ c.reads = <<>> /\ c.eof /\ c.inbox = <<>>
                     /\ t.reads = c.reads /\ t.ready = Append(c.ready, ReadFailed)
                  \/ /\ ~(c.reads = <<>> /\ c.eof) /\ t.ready = c.ready
                     /\ \E op \in ReadOps : /\ t.reads = Append(c.reads, op)
                                            /\ op.base = 0 /\ op.pos = 0 /\ op.n >= MinRead
                                            /\ op.block = t.buf.block
<1> DEFINE n  == ReadSize(c.buf)
           b  == Reserve(c.buf, n)
           d  == [c EXCEPT !.buf = b]
           op == [pos |-> 0, base |-> b.put, n |-> n, block |-> b.block]
           t  == AsyncReadUntil(c)
<1>1. c.buf \in Bufs /\ c.eof \in BOOLEAN  BY Fields
<1>2. Size(c.buf) = 0 /\ DelimiterEnd(c.buf, 0) = 0
  BY <1>1, Emptied
<1>3. /\ b \in Bufs /\ b.get = 0 /\ b.put = 0 /\ b.cap >= MinRead
      /\ n \in Nat /\ n >= MinRead
      /\ c.buf.cap >= MinRead => b.block = c.buf.block
  BY <1>1, Refilled
<1>4. t = IF c.reads = <<>> /\ Readable(c)
          THEN Post(Receive(d, op), Received(d, op))
          ELSE [d EXCEPT !.reads = Append(@, op)]
  BY <1>2 DEF AsyncReadUntil, AsyncReadSome
<1> HIDE DEF n, b
<1>5. op \in ReadOps
  <2>1. b.put \in Nat /\ b.block \in Nat /\ n \in Nat  BY <1>3 DEF Bufs
  <2> QED  BY <2>1 DEF ReadOps
<1>6. d \in Sessions  BY <1>3, Setting
<1>7. /\ Alike(c, d) /\ d.heard = c.heard /\ d.outbox = c.outbox /\ d.words = c.words /\ d.reads = c.reads /\ d.ready = c.ready
      /\ d.buf = b
  BY DEF Sessions, Alike
<1>8. op.base = 0 /\ op.pos = 0 /\ op.n >= MinRead /\ op.block = b.block
  BY <1>3
<1> HIDE DEF d, op, t
<1>9. CASE c.reads = <<>> /\ c.eof
  <2>1. c.inbox = <<>> /\ d.inbox = <<>>
    BY <1>7, <1>9 DEF Alike
  <2>2. Receive(d, op) = d /\ Received(d, op) = ReadFailed
    BY <1>5, <1>6, <1>8, <2>1, ReceiveNothing DEF ReadFailed
  <2>3. t = [d EXCEPT !.ready = Append(@, ReadFailed)]
    BY <1>4, <1>9, <2>2 DEF Readable, Post
  <2>4. /\ Alike(d, t) /\ t.heard = d.heard /\ t.outbox = d.outbox /\ t.words = d.words /\ t.buf = d.buf /\ t.reads = d.reads
        /\ t.ready = Append(d.ready, ReadFailed)
    BY <1>6, <2>3 DEF Sessions, Alike
  <2>5. Alike(c, t)  BY <1>7, <2>4 DEF Alike
  <2>6. /\ Alike(c, t) /\ t.heard = c.heard /\ t.outbox = c.outbox /\ t.words = c.words
        /\ t.buf.get = 0 /\ t.buf.put = 0 /\ t.buf.cap >= MinRead
        /\ c.buf.cap >= MinRead => t.buf.block = c.buf.block
    BY <1>3, <1>7, <2>4, <2>5
  <2>7. t.reads = c.reads /\ t.ready = Append(c.ready, ReadFailed)
    BY <1>7, <2>4
  <2> QED  BY <1>9, <2>1, <2>6, <2>7, Zenon DEF t
<1>10. CASE ~(c.reads = <<>> /\ c.eof)
  <2>1. ~(c.reads = <<>> /\ Readable(c))
    BY <1>10 DEF Readable
  <2>2. t = [d EXCEPT !.reads = Append(@, op)]
    BY <1>4, <2>1
  <2>3. /\ Alike(d, t) /\ t.heard = d.heard /\ t.outbox = d.outbox /\ t.words = d.words /\ t.buf = d.buf /\ t.ready = d.ready
        /\ t.reads = Append(d.reads, op)
    BY <1>6, <2>2 DEF Sessions, Alike
  <2>4. Alike(c, t)  BY <1>7, <2>3 DEF Alike
  <2>6. /\ Alike(c, t) /\ t.heard = c.heard /\ t.outbox = c.outbox /\ t.words = c.words
        /\ t.buf.get = 0 /\ t.buf.put = 0 /\ t.buf.cap >= MinRead
        /\ c.buf.cap >= MinRead => t.buf.block = c.buf.block
    BY <1>3, <1>7, <2>3, <2>4
  <2>7. t.ready = c.ready /\ t.reads = Append(c.reads, op) /\ t.buf = b
    BY <1>7, <2>3
  <2> QED  BY <1>5, <1>8, <1>10, <2>6, <2>7, Zenon DEF t
<1> QED  BY <1>9, <1>10

\* A word that follows in full what is on the wire keeps the words in turn.
LEMMA SpelledOut ==
    ASSUME NEW words \in Seq(Words), NEW wire \in Speech, NEW more \in Speech,
           NEW text \in Texts, InTurn(words, wire), EndsAt(wire, Len(words)),
           Len(more) = Length(text),
           \A i \in 1..Length(text) : more[i] = [at |-> Len(words) + 1, byte |-> i, word |-> text]
    PROVE  LET longer == Append(words, [text |-> text, taken |-> Length(text)])
           IN  InTurn(longer, wire \o more) /\ EndsAt(wire \o more, Len(longer))
<1> DEFINE word == [text |-> text, taken |-> Length(text)]
           longer == Append(words, word)
           all == wire \o more
           n == Len(words)
           a == Len(wire)
           m == Length(text)
<1>1. /\ m \in Nat /\ m >= 2 /\ n \in Nat /\ a \in Nat /\ word \in Words
  BY Lengths, LenProperties DEF Words, Speech
<1>2. /\ Len(longer) = n + 1 /\ longer[n + 1] = word /\ \A i \in 1..n : longer[i] = words[i]
  BY <1>1, AppendProperties
<1>3. /\ Len(all) = a + m
      /\ \A i \in 1..(a + m) : all[i] = IF i <= a THEN wire[i] ELSE more[i - a]
  <2>1. /\ Len(all) = a + Len(more)
        /\ \A i \in 1..(a + Len(more)) : all[i] = IF i <= a THEN wire[i] ELSE more[i - a]
    BY ConcatProperties DEF Speech
  <2>2. Len(more) = m  OBVIOUS
  <2> HIDE DEF all, m
  <2> QED  BY <2>1, <2>2
<1> HIDE DEF word, longer, all
<1>4. longer[n + 1].text = text  BY <1>2 DEF word
<1>5. \A i \in 1..a : all[i] = wire[i]
  <2> HIDE DEF a, m
  <2> QED  BY <1>1, <1>3
<1>6. \A i \in 1..m : all[a + i] = [at |-> n + 1, byte |-> i, word |-> text]
  <2> SUFFICES ASSUME NEW i \in 1..m  PROVE all[a + i] = more[i]
    BY DEF m, n
  <2> HIDE DEF a, m
  <2> QED  BY <1>1, <1>3
<1>7. ASSUME NEW i \in 1..a
      PROVE  /\ IF i = 1 THEN all[i].at = 1 /\ all[i].byte = 1 ELSE IsNext(all[i - 1], all[i])
             /\ all[i].at \in 1..(n + 1) /\ all[i].word = longer[all[i].at].text
  <2> HIDE DEF a
  <2>1. all[i] = wire[i] /\ (i # 1 => all[i - 1] = wire[i - 1])
    BY <1>1, <1>5
  <2>2. /\ IF i = 1 THEN wire[i].at = 1 /\ wire[i].byte = 1 ELSE IsNext(wire[i - 1], wire[i])
        /\ wire[i].at \in 1..n /\ wire[i].word = words[wire[i].at].text
    BY DEF InTurn, a, n
  <2> HIDE DEF n
  <2> QED  BY <1>1, <1>2, <2>1, <2>2
<1>8. ASSUME NEW k \in 1..m
      PROVE  LET i == a + k
             IN /\ IF i = 1 THEN all[i].at = 1 /\ all[i].byte = 1 ELSE IsNext(all[i - 1], all[i])
                /\ all[i].at \in 1..(n + 1) /\ all[i].word = longer[all[i].at].text
  <2> DEFINE i == a + k
  <2>1. all[i].at = n + 1 /\ all[i].byte = k /\ all[i].word = text
    BY <1>6
  <2>2. CASE k = 1 /\ a = 0
    <3>1. wire = <<>>  BY <2>2, EmptySeq DEF Speech
    <3>2. n = 0  BY <3>1 DEF EndsAt
    <3> HIDE DEF a, n
    <3> QED  BY <1>4, <2>1, <2>2, <3>2
  <2>3. CASE k = 1 /\ a # 0
    <3>1. wire # <<>>  BY <2>3, EmptySeq
    <3>2. wire[a].at = n /\ Over(wire[a])  BY <3>1 DEF EndsAt
    <3> HIDE DEF a, n
    <3>3. i # 1 /\ i - 1 = a /\ a \in 1..a  BY <1>1, <2>3
    <3>4. all[i - 1] = wire[a]  BY <1>5, <3>3
    <3>5. IsNext(all[i - 1], all[i])
      BY <2>1, <2>3, <3>2, <3>4 DEF IsNext, Over
    <3> QED  BY <1>1, <1>4, <2>1, <3>3, <3>5
  <2>4. CASE k # 1
    <3> HIDE DEF a, n
    <3>1. k - 1 \in 1..m /\ i - 1 = a + (k - 1) /\ i # 1
      <4> HIDE DEF m
      <4> QED  BY <1>1, <2>4
    <3>2. all[i - 1].at = n + 1 /\ all[i - 1].byte = k - 1 /\ all[i - 1].word = text
      <4> HIDE DEF m
      <4>1. all[a + (k - 1)] = [at |-> n + 1, byte |-> k - 1, word |-> text]
        BY <1>6, <3>1
      <4> QED  BY <3>1, <4>1
    <3>3. k - 1 < m /\ (k - 1) + 1 = k  BY <1>1
    <3>4. IsNext(all[i - 1], all[i])
      BY <2>1, <3>2, <3>3 DEF IsNext, m
    <3> QED  BY <1>1, <1>4, <2>1, <3>1, <3>4
  <2> QED  BY <2>2, <2>3, <2>4
<1>9. InTurn(longer, all)
  <2>1. ASSUME NEW i \in 1..Len(all)
        PROVE  /\ IF i = 1 THEN all[i].at = 1 /\ all[i].byte = 1 ELSE IsNext(all[i - 1], all[i])
               /\ all[i].at \in 1..Len(longer) /\ all[i].word = longer[all[i].at].text
    <3> HIDE DEF a, n, m
    <3>1. CASE i <= a
      <4>1. i \in 1..a  BY <1>1, <3>1
      <4> QED  BY <1>2, <1>7, <4>1
    <3>2. CASE ~(i <= a)
      <4>1. i - a \in 1..m /\ a + (i - a) = i  BY <1>1, <1>3, <3>2
      <4> QED  BY <1>2, <1>8, <4>1
    <3> QED  BY <3>1, <3>2
  <2> QED  BY <2>1 DEF InTurn
<1>10. EndsAt(all, Len(longer))
  <2> HIDE DEF a, n
  <2>1. all # <<>>
    <3> HIDE DEF m
    <3> QED  BY <1>1, <1>3, EmptySeq
  <2>2. m \in 1..m  BY <1>1
  <2>3. all[a + m] = [at |-> n + 1, byte |-> m, word |-> text]  BY <1>6, <2>2
  <2>4. ~(m < Length(text))  BY <1>1
  <2>5. all[Len(all)].at = n + 1 /\ Over(all[Len(all)])
    BY <1>3, <2>3, <2>4 DEF Over
  <2> QED  BY <1>2, <2>1, <2>5 DEF EndsAt
<1> QED  BY <1>9, <1>10 DEF all, longer, word

\* do_write when no write waits and the socket has room for the word.
LEMMA CalmWrite ==
    ASSUME NEW c \in Sessions, NEW read \in Speech, Direct(c, read),
           NEW text \in Texts, \A i \in 1..Length(text) : c.reply[i] = text,
           ~c.eof => Len(c.outbox) + Length(text) <= SendRoom
    PROVE  LET t == AsyncWrite(c)
           IN  /\ t \in Sessions /\ Alike(c, t) /\ t.heard = c.heard /\ t.buf = c.buf
               /\ t.reads = c.reads /\ Direct(t, read)
               /\ IF c.eof THEN t.outbox = c.outbox
                           ELSE Len(t.outbox) = Len(c.outbox) + Length(text)
               /\ \E e \in WriteEnds : e.error = c.reset /\ t.ready = Append(c.ready, e)
<1> DEFINE n == Len(c.words)
           m == Length(text)
           at == n + 1
           words == Append(c.words, [text |-> text, taken |-> 0])
           longer == Append(c.words, [text |-> text, taken |-> m])
           d == [c EXCEPT !.words = words]
           more == [i \in 1..m |-> [at |-> at, byte |-> i, word |-> text]]
           said == IF c.eof THEN c.outbox ELSE c.outbox \o more
           e == Written(d, at)
           f == [c EXCEPT !.words = longer]
           g == [f EXCEPT !.outbox = said]
           t == AsyncWrite(c)
<1>1. /\ m \in Nat /\ m >= 2 /\ n \in Nat /\ c.words \in Seq(Words) /\ c.outbox \in Speech
      /\ c.eof \in BOOLEAN /\ c.reset \in BOOLEAN /\ SendRoom \in Nat /\ Len(c.outbox) \in Nat
      /\ c.ready \in AnyEvents
  <2>1. c.words \in Seq(Words) /\ c.outbox \in Speech  BY Fields
  <2> QED  BY <2>1, Fields, Lengths, LenProperties, SessionAssumption DEF AnyEvents, Speech
<1>2. /\ [text |-> text, taken |-> 0] \in Words /\ [text |-> text, taken |-> m] \in Words
  BY <1>1 DEF Words
<1>3. c.reply[1] = text
  <2>1. 1 \in 1..Length(text)  BY Lengths
  <2> QED  BY <2>1
<1>4. /\ words \in Seq(Words) /\ Len(words) = at /\ words[at] = [text |-> text, taken |-> 0]
      /\ \A i \in 1..n : words[i] = c.words[i] /\ DOMAIN words = 1..at
  BY <1>1, <1>2, AppendProperties
<1>5. /\ longer \in Seq(Words) /\ Len(longer) = at /\ longer[at] = [text |-> text, taken |-> m]
      /\ \A i \in 1..n : longer[i] = c.words[i] /\ DOMAIN longer = 1..at
  BY <1>1, <1>2, AppendProperties
<1>6. more \in Speech /\ Len(more) = m
  <2> SUFFICES ASSUME NEW i \in 1..m  PROVE [at |-> at, byte |-> i, word |-> text] \in Bytes
    BY <1>1 DEF Speech
  <2>1. at \in Nat \ {0} /\ i \in Nat \ {0}  BY <1>1
  <2> QED  BY <2>1 DEF Bytes
<1>7. said \in Speech
  BY <1>1, <1>6, ConcatProperties DEF Speech
<1>8. t = AsyncWriteSome(d, at)
  BY <1>3 DEF AsyncWrite
<1> HIDE DEF words, longer, more
<1>9. /\ d.words = words /\ d.outbox = c.outbox /\ d.reply = c.reply /\ d.eof = c.eof
      /\ d.writes = c.writes /\ d.ready = c.ready /\ d.reset = c.reset
  BY DEF Sessions
<1>10. Transmit(d, at) = g
  <2> DEFINE word == d.words[at]
             rest == Length(word.text) - word.taken
             k == IF d.eof THEN rest ELSE Smaller(rest, SendRoom - Len(d.outbox))
             Byte(i) == [at |-> at, byte |-> i,
                         word |-> IF d.reply[i] = word.text THEN word.text ELSE Garbled]
             out == IF d.eof THEN d.outbox
                    ELSE d.outbox \o [i \in 1..k |-> Byte(word.taken + i)]
             new == [d.words EXCEPT ![at].taken = @ + k]
  <2>1. Transmit(d, at) = [d EXCEPT !.words[at].taken = @ + k, !.outbox = out]
    BY DEF Transmit
  <2>2. word = [text |-> text, taken |-> 0]  BY <1>4, <1>9
  <2>3. rest = m  BY <1>1, <2>2
  <2>4. k = m
    <3> HIDE DEF word, rest
    <3>1. d.eof \/ ~(m > SendRoom - Len(c.outbox))
      <4> HIDE DEF d
      <4> QED  BY <1>1, <1>9
    <3>2. d.eof \/ m <= SendRoom - Len(c.outbox)
      <4> HIDE DEF d
      <4> QED  BY <1>1, <3>1
    <3> HIDE DEF d, m
    <3> QED  BY <1>1, <1>9, <2>3, <3>2 DEF Smaller
  <2>5. \A i \in 1..m : Byte(word.taken + i) = [at |-> at, byte |-> i, word |-> text]
    <3> SUFFICES ASSUME NEW i \in 1..m
                 PROVE  Byte(word.taken + i) = [at |-> at, byte |-> i, word |-> text]
      OBVIOUS
    <3>1. word.taken + i = i /\ word.text = text  BY <1>1, <2>2
    <3>2. d.reply[i] = text  BY <1>9
    <3> HIDE DEF word, d
    <3> QED  BY <3>1, <3>2
  <2>6. [i \in 1..k |-> Byte(word.taken + i)] = more
    <3> HIDE DEF word, k, Byte, m
    <3> QED  BY <2>4, <2>5 DEF more, m
  <2>7. out = said
    <3> HIDE DEF k, word, d, more
    <3> QED  BY <1>9, <2>6
  <2>8. new = longer
    <3>1. new = [words EXCEPT ![at] = [words[at] EXCEPT !.taken = @ + m]]
      <4> HIDE DEF k, d, m
      <4> QED  BY <1>9, <2>4
    <3>2. [words[at] EXCEPT !.taken = @ + m] = [text |-> text, taken |-> m]
      BY <1>1, <1>4
    <3>3. new = [words EXCEPT ![at] = longer[at]]
      <4> HIDE DEF new
      <4> QED  BY <1>5, <3>1, <3>2
    <3>4. DOMAIN words = 1..at /\ \A i \in 1..at : i # at => words[i] = longer[i]
      <4> HIDE DEF n
      <4>1. \A i \in 1..at : i # at => i \in 1..n  BY <1>1
      <4>2. \A i \in 1..n : words[i] = longer[i]  BY <1>4, <1>5
      <4>3. DOMAIN words = 1..at  BY <1>4, LenProperties
      <4> QED  BY <4>1, <4>2, <4>3
    <3>5. new \in Seq(Words) /\ Len(new) = at
      <4>1. longer[at] \in Words  BY <1>2, <1>5
      <4> HIDE DEF new, n
      <4>2. at \in 1..Len(words)  BY <1>1, <1>4
      <4> QED  BY <1>4, <3>3, <4>1, <4>2, ExceptSeq
    <3>6. \A i \in 1..at : new[i] = longer[i]
      <4> HIDE DEF new
      <4> QED  BY <3>3, <3>4
    <3> HIDE DEF new, n
    <3> QED  BY <1>5, <3>5, <3>6, SeqEqual
  <2>9. [d EXCEPT !.words[at].taken = @ + k, !.outbox = out]
          = [d EXCEPT !.words = new, !.outbox = out]
    OBVIOUS
  <2>10. [d EXCEPT !.words = longer, !.outbox = said] = g
    BY DEF Sessions
  <2> HIDE DEF new, out, d, g, k, word, rest
  <2> QED  BY <2>1, <2>7, <2>8, <2>9, <2>10
<1>11. d.writes = <<>> /\ Writable(d)
  <2>1. c.writes = <<>>  BY DEF Direct
  <2>2. ~c.eof => Len(c.outbox) < SendRoom  BY <1>1
  <2> HIDE DEF d
  <2> QED  BY <1>1, <1>9, <2>1, <2>2 DEF Writable
<1>12. t = [g EXCEPT !.ready = Append(@, e)]
  <2> HIDE DEF d, g, e, t
  <2> QED  BY <1>8, <1>10, <1>11 DEF AsyncWriteSome, Post, e
<1>13. e \in WriteEnds /\ e.error = c.reset
  <2>1. at \in Nat  BY <1>1
  <2> HIDE DEF d
  <2> QED  BY <1>1, <1>9, <2>1 DEF Written, WriteEnds
<1>14. g \in Sessions
  <2>1. f \in Sessions  BY <1>5, Setting
  <2> HIDE DEF f, said
  <2> QED  BY <1>7, <2>1, Setting
<1> HIDE DEF e, d
<1>15. /\ Alike(c, t) /\ t.heard = c.heard /\ t.buf = c.buf /\ t.reads = c.reads
       /\ t.words = longer /\ t.outbox = said /\ t.ready = Append(c.ready, e)
  <2> HIDE DEF said, t
  <2> QED  BY <1>12 DEF Sessions, Alike
<1>16. t \in Sessions
  <2> HIDE DEF g, t
  <2>1. g.ready = c.ready
    BY <1>14 DEF g, Sessions
  <2>2. Append(g.ready, e) \in Seq(ReadEnds \cup WriteEnds \cup Reports)
    BY <1>1, <1>13, <2>1, AppendProperties DEF AnyEvents
  <2> QED  BY <1>12, <1>14, <2>2, Setting
<1> HIDE DEF t, g
<1>17. ~c.eof => Len(t.outbox) = Len(c.outbox) + m
  <2>1. ~c.eof => Len(t.outbox) = Len(c.outbox) + Len(more)
    BY <1>1, <1>6, <1>15, ConcatProperties DEF Speech
  <2> QED  BY <1>6, <2>1
<1>18. Direct(t, read)
  <2> DEFINE wire == Spoken(c, read)
  <2>1. /\ InTurn(c.words, wire) /\ (~c.eof => EndsAt(wire, n))
        /\ \A i \in 1..n : c.words[i].taken = Length(c.words[i].text)
        /\ wire \in Speech
    BY <1>1, ConcatProperties DEF Direct, Spoken, Speech
  <2>2. \A i \in 1..Len(longer) : longer[i].taken = Length(longer[i].text)
    <3>1. longer[at].taken = Length(longer[at].text)  BY <1>5
    <3> HIDE DEF n
    <3>2. \A i \in 1..at : i = at \/ i \in 1..n  BY <1>1
    <3> QED  BY <1>5, <2>1, <3>1, <3>2
  <2>3. CASE c.eof
    <3>1. Spoken(t, read) = wire /\ t.eof = c.eof  BY <1>15, <2>3 DEF Spoken, Alike
    <3>2. InTurn(longer, wire)
      <4>1. ASSUME NEW i \in 1..Len(wire), wire[i].at \in 1..n
            PROVE  wire[i].at \in 1..Len(longer) /\ longer[wire[i].at] = c.words[wire[i].at]
        <5> HIDE DEF n, wire
        <5> QED  BY <1>1, <1>5, <4>1
      <4> HIDE DEF wire
      <4>2. \A i \in 1..Len(wire) :
              /\ IF i = 1 THEN wire[i].at = 1 /\ wire[i].byte = 1 ELSE IsNext(wire[i - 1], wire[i])
              /\ wire[i].at \in 1..n /\ wire[i].word = c.words[wire[i].at].text
        BY <2>1 DEF InTurn
      <4> HIDE DEF n
      <4>3. \A i \in 1..Len(wire) :
              wire[i].at \in 1..Len(longer) /\ wire[i].word = longer[wire[i].at].text
        BY <4>1, <4>2
      <4> QED  BY <4>2, <4>3 DEF InTurn
    <3> HIDE DEF wire
    <3> QED  BY <1>15, <2>2, <2>3, <3>1, <3>2 DEF Direct, Alike
  <2>4. CASE ~c.eof
    <3>1. Spoken(t, read) = wire \o more
      <4>1. t.outbox = c.outbox \o more  BY <1>15, <2>4
      <4>2. read \o (c.outbox \o more) = (read \o c.outbox) \o more
        <5>1. \A x, y, z \in Seq(Bytes) : x \o (y \o z) = (x \o y) \o z
          BY Regroup
        <5> QED  BY <1>1, <1>6, <5>1, Zenon DEF Speech
      <4> QED  BY <4>1, <4>2 DEF Spoken
    <3>2. \A i \in 1..m : more[i] = [at |-> n + 1, byte |-> i, word |-> text]
      BY DEF more
    <3>3. EndsAt(wire, n)  BY <2>1, <2>4
    <3> HIDE DEF wire
    <3>4. InTurn(longer, wire \o more) /\ EndsAt(wire \o more, Len(longer))
      BY <1>1, <1>6, <2>1, <3>2, <3>3, SpelledOut DEF longer
    <3> QED  BY <1>15, <2>2, <3>1, <3>4 DEF Direct, Alike
  <2> QED  BY <1>1, <2>3, <2>4
<1> HIDE DEF said
<1>19. c.eof => t.outbox = c.outbox  BY <1>15 DEF said
<1> QED  BY <1>13, <1>15, <1>16, <1>17, <1>18, <1>19 DEF t, m

\* reply_ is assigned what is to be written next.
LEMMA CalmAssign ==
    ASSUME NEW c \in Sessions, NEW read, Direct(c, read), NEW text \in Texts
    PROVE  LET t == Assign(c, text)
           IN  /\ t \in Sessions /\ Alike(c, t) /\ t.heard = c.heard /\ t.buf = c.buf
               /\ t.reads = c.reads /\ t.ready = c.ready /\ t.outbox = c.outbox
               /\ t.words = c.words /\ Direct(t, read)
               /\ \A i \in 1..Length(text) : t.reply[i] = text
<1> DEFINE x == [i \in DOMAIN c.reply |-> IF i <= Length(text) + 1 THEN text ELSE c.reply[i]]
           t == [c EXCEPT !.reply = x]
<1>1. c.reply \in Reply /\ DOMAIN c.reply = 1..ReplyLength
  BY Fields DEF Reply
<1>2. x \in Reply
  BY <1>1 DEF Reply
<1>3. Assign(c, text) = t
  BY DEF Assign
<1>4. \A i \in 1..Length(text) : x[i] = text
  <2>1. Length(text) \in Nat /\ ReplyLength \in Nat /\ Length(text) <= ReplyLength
    BY SessionAssumption DEF Length
  <2> QED  BY <1>1, <2>1
<1> HIDE DEF x
<1>5. t \in Sessions  BY <1>2, Setting
<1>6. /\ Alike(c, t) /\ t.heard = c.heard /\ t.buf = c.buf /\ t.reads = c.reads
      /\ t.ready = c.ready /\ t.outbox = c.outbox /\ t.words = c.words /\ t.reply = x
  BY DEF Sessions, Alike
<1> HIDE DEF t
<1>7. Direct(t, read)
  BY <1>6 DEF Direct, Spoken, Alike
<1> QED  BY <1>3, <1>4, <1>5, <1>6, <1>7

\* A line at the front of the buffer: what the handler finds and what it leaves.
LEMMA LineFound ==
    ASSUME NEW b \in Bufs, NEW text \in Lines, b.get = 0, b.put = Len(text) + 1,
           Lies(b, text)
    PROVE  LET n == Len(text) + 1
           IN  /\ Size(b) = n /\ DelimiterEnd(b, 0) = n /\ Extracted(b, n) = text
               /\ LET e == Consume(b, n)
                  IN  e \in Bufs /\ e.get = n /\ e.put = n /\ e.block = b.block /\ e.cap = b.cap
<1> DEFINE k == Len(text)
           n == k + 1
           x == Append(text, Newline)
<1>1. /\ k \in Nat /\ x \in Seq(Characters) /\ Len(x) = n /\ x[n] = Newline
      /\ \A i \in 1..k : x[i] = text[i] /\ text[i] # Newline
      /\ text \in Seq(Characters)
  BY LineOK
<1>2. Size(b) = n
  <2> HIDE DEF k
  <2> QED  BY <1>1 DEF Size, k
<1>3. Content(b) = x
  <2>1. 0 + 1 = 1  OBVIOUS
  <2> QED  BY <2>1 DEF Content, Lies
<1> HIDE DEF x
<1>4. DelimiterEnd(b, 0) = n
  <2> DEFINE ends == {i \in (0 + 1)..Size(b) : Content(b)[i] = Newline}
  <2>1. ends = {n}
    <3> HIDE DEF k
    <3> QED  BY <1>1, <1>2, <1>3
  <2>2. DelimiterEnd(b, 0) = CHOOSE i \in ends : \A j \in ends : i <= j
    BY <2>1 DEF DelimiterEnd
  <2> HIDE DEF ends
  <2>3. n <= n
    <3> HIDE DEF k
    <3> QED  BY <1>1
  <2> HIDE DEF n
  <2> QED  BY <2>1, <2>2, <2>3
<1>5. Extracted(b, n) = text
  <2>1. Size(b) > 0 /\ Smaller(n, Size(b)) - 1 = k
    <3> HIDE DEF k
    <3> QED  BY <1>1, <1>2 DEF Smaller
  <2>2. Extracted(b, n) = SubSeq(x, 1, k)
    <3> HIDE DEF k, n
    <3> QED  BY <1>3, <2>1 DEF Extracted
  <2>3. SubSeq(x, 1, k) \in Seq(Characters) /\ Len(SubSeq(x, 1, k)) = k
        /\ \A i \in 1..k : SubSeq(x, 1, k)[i] = x[i]
    <3> HIDE DEF k
    <3>1. k <= Len(x)  BY <1>1
    <3>2. \A i \in 1..k : x[i] \in Characters
      <4>1. \A i \in 1..Len(x) : x[i] \in Characters  BY <1>1, ElementOfSeq
      <4> QED  BY <1>1, <4>1
    <3>3. /\ SubSeq(x, 1, k) \in Seq(Characters)
          /\ Len(SubSeq(x, 1, k)) = (IF 1 <= k THEN k - 1 + 1 ELSE 0)
          /\ \A i \in 1..k - 1 + 1 : SubSeq(x, 1, k)[i] = x[1 + i - 1]
      BY <1>1, <3>2, SubSeqProperties
    <3> DEFINE y == SubSeq(x, 1, k)
    <3> HIDE DEF y
    <3>4. Len(y) = k /\ \A i \in 1..k : y[i] = x[i]
      <4>1. k - 1 + 1 = k /\ \A i \in 1..k : 1 + i - 1 = i  BY <1>1
      <4> QED  BY <1>1, <3>3, <4>1 DEF y
    <3> QED  BY <3>3, <3>4 DEF y
  <2> DEFINE y == SubSeq(x, 1, k)
  <2> HIDE DEF y
  <2>4. y = text
    <3>1. y \in Seq(Characters) /\ Len(y) = k /\ \A i \in 1..k : y[i] = text[i]
      BY <1>1, <2>3 DEF y
    <3> QED  BY <1>1, <3>1, SeqEqual
  <2> QED  BY <2>2, <2>4 DEF y
<1>6. LET e == Consume(b, n)
      IN  e \in Bufs /\ e.get = n /\ e.put = n /\ e.block = b.block /\ e.cap = b.cap
  <2> HIDE DEF k
  <2>1. b.put = n /\ b.get = 0 /\ n \in Nat  BY <1>1 DEF k
  <2>2. Consume(b, n) = [b EXCEPT !.get = n]
    <3>1. Smaller(n, n - 0) = n /\ 0 + n = n  BY <2>1 DEF Smaller
    <3> HIDE DEF n
    <3> QED  BY <2>1, <3>1 DEF Consume
  <2> HIDE DEF n
  <2> QED  BY <2>1, <2>2 DEF Bufs
<1> QED  BY <1>2, <1>4, <1>5, <1>6

\* The handler of a line: it is executed as it was sent, and its answer and the next
\* prompt go to the socket whole.
LEMMA LineHandled ==
    ASSUME SendRoom >= ReplyLength + 2,
           NEW c \in Sessions, NEW read \in Speech, Direct(c, read),
           ~c.eof => c.outbox = <<>>, c.buf.get = 0, c.buf.put = 0,
           NEW text \in Lines, Lies(c.buf, text)
    PROVE  LET t == ContinueRead(c, ReadLine(text))
           IN  /\ Alike(c, t) /\ t.heard = Append(c.heard, text) /\ t.reads = c.reads
               /\ t.buf.get = t.buf.put /\ t.buf.block = c.buf.block
               /\ t.buf.cap = c.buf.cap /\ Direct(t, read)
               /\ c.eof => t.outbox = c.outbox
               /\ \E e1, e2 \in WriteEnds :
                    /\ e1.error = c.reset /\ e2.error = c.reset
                    /\ t.ready = Append(Append(c.ready, e1), e2)
<1> DEFINE n == Len(text) + 1
           b1 == Commit(c.buf, n)
           d == [c EXCEPT !.buf = b1]
           b2 == Consume(b1, n)
           f == [c EXCEPT !.buf = b2]
           a0 == [f EXCEPT !.heard = Append(@, text)]
           a1 == Assign(a0, Execute(text))
           w1 == AsyncWrite(a1)
           a2 == Assign(w1, Prompt)
           w2 == AsyncWrite(a2)
<1>1. /\ c.buf \in Bufs /\ c.buf.mem \in Seq(Characters) /\ Len(c.buf.mem) \in Nat
      /\ n \in Nat /\ n > 1 /\ n <= Len(c.buf.mem) /\ text \in Seq(Characters)
      /\ c.heard \in Seq(Seq(Characters))
  <2>1. Len(text) \in Nat /\ Len(text) >= 1 /\ text \in Seq(Characters)  BY LineOK
  <2>2. c.buf \in Bufs /\ c.buf.mem \in Seq(Characters) /\ Len(c.buf.mem) \in Nat
    BY Fields, BufsAreBufs, ContentOK
  <2> QED  BY <2>1, <2>2, Fields DEF Lies
<1> HIDE DEF n
<1>2. /\ b1 \in Bufs /\ b1.get = 0 /\ b1.put = n /\ b1.mem = c.buf.mem
      /\ b1.block = c.buf.block /\ b1.cap = c.buf.cap
  <2>1. Smaller(n, Len(c.buf.mem) - 0) = n /\ 0 + n = n  BY <1>1 DEF Smaller
  <2>2. b1 = [c.buf EXCEPT !.put = n]
    BY <2>1 DEF Commit
  <2> HIDE DEF b1
  <2>3. b1.get = 0 /\ b1.put = n /\ b1.mem = c.buf.mem /\ b1.block = c.buf.block
        /\ b1.cap = c.buf.cap
    BY <1>1, <2>2 DEF Bufs
  <2>4. b1 \in Bufs
    <3>1. c.buf.get <= n  BY <1>1
    <3>2. Len(c.buf.mem) <= c.buf.cap  BY <1>1 DEF Bufs
    <3>3. b1 \in [block : Nat, cap : Nat, mem : Seq(Characters), get : Nat, put : Nat]
      BY <1>1, <2>2 DEF Bufs
    <3> QED  BY <1>1, <2>3, <3>1, <3>2, <3>3 DEF Bufs
  <2> QED  BY <2>3, <2>4
<1> HIDE DEF b1
<1>3. /\ Size(b1) = n /\ DelimiterEnd(b1, 0) = n /\ Extracted(b1, n) = text
      /\ b2 \in Bufs /\ b2.get = n /\ b2.put = n
      /\ b2.block = c.buf.block /\ b2.cap = c.buf.cap
  <2>1. Lies(b1, text)  BY <1>2 DEF Lies
  <2> QED  BY <1>2, <2>1, LineFound DEF n
<1> HIDE DEF b2
<1>4. d \in Sessions /\ d.buf = b1
  <2>1. d \in Sessions  BY <1>2, Setting
  <2>2. d.buf = b1  BY DEF Sessions
  <2> QED  BY <2>1, <2>2
<1>5. ContinueRead(c, ReadLine(text)) = OnRead(d, n)
  <2>1. /\ ReadLine(text).n = n /\ ReadLine(text).pos = 0 /\ ReadLine(text).error = FALSE
    BY DEF ReadLine, n
  <2>2. [c EXCEPT !.buf = Commit(@, ReadLine(text).n)] = d
    BY <2>1 DEF b1
  <2> HIDE DEF d
  <2>3. Size(d.buf) = n /\ DelimiterEnd(d.buf, 0) = n
    BY <1>3, <1>4
  <2>4. n > 0 /\ ~(0 > Size(d.buf)) /\ n # 0
    BY <1>1, <2>3
  <2> QED  BY <2>1, <2>2, <2>3, <2>4, Zenon DEF ContinueRead
<1>6. OnRead(d, n) = DoPrompt(DoWrite(Assign([Eaten(d, n) EXCEPT !.heard = Append(@, text)],
                                             Execute(text))))
  <2>1. ~(n <= 1) /\ ~(n > Size(d.buf)) /\ Extracted(d.buf, n) = text
    BY <1>1, <1>3, <1>4
  <2> HIDE DEF d
  <2> QED  BY <2>1, Zenon DEF OnRead
<1>7. Eaten(d, n) = f
  BY <1>4 DEF Eaten, Sessions, b2
<1>8. ContinueRead(c, ReadLine(text)) = w2
  BY <1>5, <1>6, <1>7 DEF DoPrompt, DoWrite
<1>9. a0 \in Sessions
  <2>1. f \in Sessions  BY <1>3, Setting
  <2>2. f.heard = c.heard  BY DEF Sessions
  <2> HIDE DEF f
  <2>3. Append(f.heard, text) \in Seq(Seq(Characters))
    BY <1>1, <2>2, AppendProperties
  <2> QED  BY <2>1, <2>3, Setting
<1>10. /\ Alike(c, a0) /\ a0.heard = Append(c.heard, text) /\ a0.reads = c.reads
       /\ a0.buf = b2 /\ a0.outbox = c.outbox /\ a0.words = c.words /\ a0.ready = c.ready
  BY DEF Sessions, Alike
<1> HIDE DEF d, f, a0
<1>11. Direct(a0, read)
  BY <1>10 DEF Direct, Spoken, Alike
<1>12. /\ Execute(text) \in Texts /\ Length(Execute(text)) = ReplyLength
       /\ Prompt \in Texts /\ Length(Prompt) = 2
       /\ ReplyLength \in Nat /\ SendRoom \in Nat
  BY Answering, Lengths, SessionAssumption DEF Length
<1>13. ~c.eof => Len(c.outbox) = 0
  BY EmptySeq
<1>14. /\ a1 \in Sessions /\ Alike(a0, a1) /\ a1.heard = a0.heard /\ a1.buf = a0.buf
       /\ a1.reads = a0.reads /\ a1.ready = a0.ready /\ a1.outbox = a0.outbox
       /\ Direct(a1, read) /\ \A i \in 1..Length(Execute(text)) : a1.reply[i] = Execute(text)
  BY <1>9, <1>11, <1>12, CalmAssign
<1> HIDE DEF a1
<1>15. a1.eof = c.eof /\ a1.reset = c.reset /\ a1.outbox = c.outbox
  BY <1>10, <1>14 DEF Alike
<1>16. ~a1.eof => Len(a1.outbox) + Length(Execute(text)) <= SendRoom
  <2>1. ~a1.eof => Len(a1.outbox) = 0  BY <1>13, <1>15
  <2> QED  BY <1>12, <2>1
<1>17. /\ w1 \in Sessions /\ Alike(a1, w1) /\ w1.heard = a1.heard /\ w1.buf = a1.buf
       /\ w1.reads = a1.reads /\ Direct(w1, read)
       /\ IF a1.eof THEN w1.outbox = a1.outbox
                    ELSE Len(w1.outbox) = Len(a1.outbox) + Length(Execute(text))
       /\ \E e \in WriteEnds : e.error = a1.reset /\ w1.ready = Append(a1.ready, e)
  BY <1>12, <1>14, <1>16, CalmWrite
<1> HIDE DEF w1
<1>18. PICK e1 \in WriteEnds : e1.error = c.reset /\ w1.ready = Append(a1.ready, e1)
  BY <1>15, <1>17
<1>19. /\ a2 \in Sessions /\ Alike(w1, a2) /\ a2.heard = w1.heard /\ a2.buf = w1.buf
       /\ a2.reads = w1.reads /\ a2.ready = w1.ready /\ a2.outbox = w1.outbox
       /\ Direct(a2, read) /\ \A i \in 1..Length(Prompt) : a2.reply[i] = Prompt
  BY <1>12, <1>17, CalmAssign
<1> HIDE DEF a2
<1>20. a2.eof = c.eof /\ a2.reset = c.reset
  BY <1>15, <1>17, <1>19 DEF Alike
<1>21. ~a2.eof => Len(a2.outbox) + Length(Prompt) <= SendRoom
  <2>1. ~a1.eof => Len(a1.outbox) = 0  BY <1>13, <1>15
  <2>2. ~a1.eof => Len(a2.outbox) = ReplyLength  BY <1>12, <1>17, <1>19, <2>1
  <2> QED  BY <1>12, <1>15, <1>20, <2>2
<1>22. /\ w2 \in Sessions /\ Alike(a2, w2) /\ w2.heard = a2.heard /\ w2.buf = a2.buf
       /\ w2.reads = a2.reads /\ Direct(w2, read)
       /\ IF a2.eof THEN w2.outbox = a2.outbox
                    ELSE Len(w2.outbox) = Len(a2.outbox) + Length(Prompt)
       /\ \E e \in WriteEnds : e.error = a2.reset /\ w2.ready = Append(a2.ready, e)
  BY <1>12, <1>19, <1>21, CalmWrite
<1> HIDE DEF w2
<1>23. PICK e2 \in WriteEnds : e2.error = c.reset /\ w2.ready = Append(a2.ready, e2)
  BY <1>20, <1>22
<1>24. w2.ready = Append(Append(c.ready, e1), e2)
  BY <1>10, <1>14, <1>18, <1>19, <1>23
<1>25. /\ Alike(c, w2) /\ w2.heard = Append(c.heard, text) /\ w2.reads = c.reads
       /\ w2.buf = b2
  BY <1>10, <1>14, <1>17, <1>19, <1>22 DEF Alike
<1>26. c.eof => w2.outbox = c.outbox
  BY <1>15, <1>17, <1>19, <1>20, <1>22
<1> QED  BY <1>3, <1>8, <1>18, <1>22, <1>23, <1>24, <1>25, <1>26

\* A handler that is told of an error starts nothing.
LEMMA FailureHandled ==
    ASSUME NEW c \in Sessions, NEW event \in ReadEnds \cup WriteEnds,
           event = ReadFailed \/ (event.kind = "write" /\ event.error)
    PROVE  Dispatch(c, event) = [c EXCEPT !.ended = @ + 1]
<1>1. c.buf \in Bufs /\ Len(c.buf.mem) \in Nat  BY Fields, BufsAreBufs, ContentOK
<1>2. CASE event = ReadFailed
  <2>1. /\ ReadFailed.kind = "read" /\ ReadFailed.n = 0 /\ ReadFailed.error = TRUE
    BY DEF ReadFailed
  <2>2. Commit(c.buf, 0) = c.buf /\ Consume(c.buf, 0) = c.buf
    BY <1>1 DEF Commit, Consume, Smaller, Bufs
  <2>3. [c EXCEPT !.buf = c.buf] = c
    BY DEF Sessions
  <2>4. Eaten(c, 0) = c
    BY <2>2, <2>3 DEF Eaten
  <2>5. OnRead(c, 0) = [c EXCEPT !.ended = @ + 1]
    <3>1. 0 <= 1  OBVIOUS
    <3> QED  BY <2>4, <3>1, Zenon DEF OnRead
  <2>6. ContinueRead(c, ReadFailed) = OnRead(c, 0)
    BY <2>1, <2>2, <2>3, Zenon DEF ContinueRead
  <2> QED  BY <1>2, <2>1, <2>5, <2>6 DEF Dispatch
<1>3. CASE event.kind = "write" /\ event.error
  <2>1. event.kind # "read" /\ event.error = TRUE
    BY <1>3 DEF ReadEnds, WriteEnds, ReadFailed
  <2> QED  BY <2>1, Zenon DEF Dispatch, ContinueWrite, OnWrite
<1> QED  BY <1>2, <1>3

\* The client has left and nothing of what it sent remains.
LEMMA CalmAlone ==
    ASSUME NEW c, NEW t, NEW read, NEW asked, Calm(c, read, asked),
           c.eof, c.inbox = <<>>, t.started = c.started, t.crashed = c.crashed,
           t.buf = c.buf, t.reads = c.reads, t.writes = c.writes, t.reported = c.reported,
           t.inbox = c.inbox, t.room = c.room, t.outbox = c.outbox /\ t.words = c.words, t.eof = c.eof,
           t.heard = c.heard, t.trying = "none", t.done = <<>>, Ended(t)
    PROVE  Calm(t, read, asked)
<1>1. Direct(c, read) /\ Aligned(c) /\ Awaited(c, asked)
  BY DEF Calm
<1>2. Direct(t, read)  BY <1>1 DEF Direct, Spoken
<1>3. Aligned(t)  BY <1>1 DEF Aligned
<1>4. Arrived(t, asked)  BY DEF Arrived
<1>5. Taken(t, asked)
  <2>1. DOMAIN <<>> = {}  OBVIOUS
  <2> QED  BY <2>1 DEF Taken
<1>6. Present(t)  BY DEF Present
<1>7. Awaited(t, asked)  BY <1>1 DEF Awaited
<1> QED  BY <1>2, <1>3, <1>4, <1>5, <1>6, <1>7 DEF Calm

\* A handler of the queue that is told of an error runs.
LEMMA CalmFailure ==
    ASSUME NEW c \in Sessions, Once(c), NEW read, NEW asked, Calm(c, read, asked),
           c.ready # <<>>, c.trying = "none",
           ~WriteDone(Head(c.ready)), Head(c.ready).kind # "in"
    PROVE  LET d == [c EXCEPT !.ready = Tail(@)]
           IN  StaysCalm(c, Dispatch(d, Head(c.ready)), read, asked)
<1> DEFINE d == [c EXCEPT !.ready = Tail(@)]
           e == Head(c.ready)
           t == [d EXCEPT !.ended = @ + 1]
<1>1. /\ e \in Ends \cup Reports /\ Tail(c.ready) \in AnyEvents
      /\ 1 \in DOMAIN c.ready /\ c.ready[1] = e
      /\ \A i \in DOMAIN Tail(c.ready) :
           i + 1 \in DOMAIN c.ready /\ Tail(c.ready)[i] = c.ready[i + 1]
  BY Queue
<1>2. /\ Direct(c, read) /\ Arrived(c, asked) /\ Taken(c, asked) /\ Present(c)
      /\ Ended(c)
  BY DEF Calm
<1> HIDE DEF e
<1>3. ~WriteDone(e) /\ e.kind # "in"  BY DEF e
<1>4. e.kind # "out"
  BY <1>1, <1>2 DEF Once, Direct
<1>5. c.inbox = <<>>
  BY <1>1, <1>2, <1>3 DEF Arrived
<1>6. c.eof
  BY <1>1, <1>2, <1>3, <1>5 DEF Present
<1>7. e \in ReadEnds \cup WriteEnds
  BY <1>1, <1>3, <1>4 DEF Ends, Reports
<1>8. e = ReadFailed \/ (e.kind = "write" /\ e.error)
  <2>1. CASE e \in ReadEnds
    <3>1. e.kind = "read"  BY <2>1 DEF ReadEnds
    <3> QED  BY <1>1, <1>2, <3>1 DEF Ended
  <2>2. CASE e \in WriteEnds
    BY <1>3, <2>2 DEF WriteEnds, WriteDone
  <2> QED  BY <1>7, <2>1, <2>2
<1>9. d \in Sessions  BY <1>1, Setting DEF AnyEvents
<1>10. Dispatch(d, e) = t
  <2> HIDE DEF d
  <2> QED  BY <1>7, <1>8, <1>9, FailureHandled
<1>11. /\ t.started = c.started /\ t.crashed = c.crashed
       /\ t.buf = c.buf /\ t.reads = c.reads /\ t.writes = c.writes
       /\ t.reported = c.reported /\ t.inbox = c.inbox /\ t.room = c.room
       /\ t.outbox = c.outbox /\ t.words = c.words /\ t.eof = c.eof /\ t.heard = c.heard
       /\ t.trying = c.trying /\ t.done = c.done /\ t.ready = Tail(c.ready)
  BY DEF Sessions
<1> HIDE DEF d, t
<1>12. t.done = <<>>  BY <1>2, <1>11 DEF Taken
<1>13. Ended(t)  BY <1>1, <1>2, <1>11 DEF Ended
<1>14. Calm(t, read, asked)
  BY <1>5, <1>6, <1>11, <1>12, <1>13, CalmAlone
<1>15. StaysCalm(c, t, read, asked)
  BY <1>11, <1>14 DEF StaysCalm
<1> QED  BY <1>10, <1>15 DEF d, e

\* A write has completed: one more read is started.
LEMMA CalmWritten ==
    ASSUME NEW c \in Sessions, Orderly(c), NEW read, NEW asked, Calm(c, read, asked),
           c.started, c.ready # <<>>, c.trying = "none", WriteDone(Head(c.ready))
    PROVE  LET d == [c EXCEPT !.ready = Tail(@)]
           IN  StaysCalm(c, Dispatch(d, Head(c.ready)), read, asked)
<1> DEFINE q == Tail(c.ready)
           e == Head(c.ready)
           d == [c EXCEPT !.ready = q]
           x == [d.reply EXCEPT ![1] = Cleared]
           f == [d EXCEPT !.reply = x]
           t == AsyncReadUntil(f)
<1>1. /\ q \in AnyEvents /\ 1 \in DOMAIN c.ready /\ c.ready[1] = e /\ WriteDone(e)
      /\ \A i \in DOMAIN q : i + 1 \in DOMAIN c.ready /\ q[i] = c.ready[i + 1]
      /\ Len(q) \in Nat /\ Len(c.ready) = Len(q) + 1 /\ DOMAIN q = 1..Len(q)
  BY Queue, LenProperties DEF Items, AnyEvents
<1>2. /\ Direct(c, read) /\ Aligned(c) /\ Arrived(c, asked) /\ Taken(c, asked)
      /\ Present(c) /\ Ended(c) /\ Awaited(c, asked) /\ c.done = <<>>
  BY DEF Calm, Taken
<1>3. /\ e.kind = "write" /\ e.error = FALSE
      /\ ~(d.words[e.at].taken < Length(d.words[e.at].text))
  <2>1. e.kind = "write" /\ e.error = FALSE  BY <1>1 DEF WriteDone
  <2>2. e.at \in DOMAIN c.words
    BY <1>1, <2>1 DEF Orderly, Owned, Started
  <2> HIDE DEF e
  <2>3. c.words \in Seq(Words)  BY Fields
  <2>4. e.at \in 1..Len(c.words)  BY <2>2, <2>3, LenProperties
  <2>5. c.words[e.at].taken = Length(c.words[e.at].text)  BY <1>2, <2>4 DEF Direct
  <2>6. Length(c.words[e.at].text) \in Nat  BY Lengths
  <2>7. d.words = c.words  BY DEF Sessions
  <2> HIDE DEF d
  <2> QED  BY <2>1, <2>5, <2>6, <2>7
<1>4. Dispatch(d, e) = t
  <2>1. "write" # "read"  OBVIOUS
  <2>2. Clear(d) = f  BY DEF Clear
  <2> HIDE DEF d, e, f
  <2>3. ContinueWrite(d, e) = OnWrite(d, FALSE)
    BY <1>3 DEF ContinueWrite
  <2>4. OnWrite(d, FALSE) = DoRead(Clear(d))  BY DEF OnWrite
  <2> QED  BY <1>3, <2>1, <2>2, <2>3, <2>4 DEF Dispatch, DoRead
<1> HIDE DEF q
<1>5. f \in Sessions
  <2>1. d \in Sessions  BY <1>1, Setting DEF AnyEvents
  <2> HIDE DEF d
  <2>2. x \in Reply
    <3>1. d.reply \in Reply  BY <2>1, Fields
    <3> QED  BY <3>1, Lengths DEF Reply
  <2> HIDE DEF x
  <2> QED  BY <2>1, <2>2, Setting
<1> HIDE DEF x
<1>6. /\ f.started = c.started /\ f.crashed = c.crashed
      /\ f.buf = c.buf /\ f.reads = c.reads /\ f.writes = c.writes
      /\ f.reported = c.reported /\ f.inbox = c.inbox /\ f.room = c.room
      /\ f.outbox = c.outbox /\ f.words = c.words /\ f.eof = c.eof /\ f.heard = c.heard
      /\ f.trying = c.trying /\ f.done = c.done /\ f.ready = q
      /\ f.news = c.news /\ f.reset = c.reset /\ f.ended = c.ended
  BY DEF Sessions
<1> HIDE DEF d, f, t
<1>7. f.buf.get = f.buf.put /\ f.buf.cap >= MinRead
  BY <1>2, <1>6 DEF Aligned
<1>8. f.inbox # <<>> => f.reads # <<>>
  BY <1>2, <1>6 DEF Arrived
<1>9. /\ Alike(f, t) /\ t.heard = f.heard /\ t.outbox = f.outbox /\ t.words = f.words
      /\ t.buf.get = 0 /\ t.buf.put = 0 /\ t.buf.cap >= MinRead
      /\ f.buf.cap >= MinRead => t.buf.block = f.buf.block
      /\ \/ /\ f.reads = <<>> /\ f.eof /\ f.inbox = <<>>
            /\ t.reads = f.reads /\ t.ready = Append(f.ready, ReadFailed)
         \/ /\ ~(f.reads = <<>> /\ f.eof) /\ t.ready = f.ready
            /\ \E op \in ReadOps : /\ t.reads = Append(f.reads, op)
                                   /\ op.base = 0 /\ op.pos = 0 /\ op.n >= MinRead
                                   /\ op.block = t.buf.block
  BY <1>5, <1>7, <1>8, CalmRead DEF t
<1>10. /\ t.started = c.started /\ t.crashed = c.crashed /\ t.writes = c.writes
       /\ t.reported = c.reported /\ t.inbox = c.inbox /\ t.room = c.room
       /\ t.outbox = c.outbox /\ t.words = c.words /\ t.eof = c.eof /\ t.heard = c.heard
       /\ t.trying = c.trying /\ t.done = c.done
       /\ t.news = c.news /\ t.reset = c.reset /\ t.ended = c.ended
       /\ t.buf.get = 0 /\ t.buf.put = 0 /\ t.buf.cap >= MinRead
       /\ t.buf.block = c.buf.block
  BY <1>6, <1>7, <1>9 DEF Alike
<1>11. \/ /\ c.eof /\ c.inbox = <<>>
          /\ t.reads = c.reads /\ t.ready = Append(q, ReadFailed)
       \/ /\ t.ready = q /\ t.reads # <<>>
          /\ \A i \in DOMAIN t.reads :
               \/ i \in DOMAIN c.reads /\ t.reads[i] = c.reads[i]
               \/ /\ t.reads[i].base = 0 /\ t.reads[i].pos = 0 /\ t.reads[i].n >= MinRead
                  /\ t.reads[i].block = c.buf.block
  <2>1. ASSUME NEW op \in ReadOps, t.reads = Append(f.reads, op),
               op.base = 0, op.pos = 0, op.n >= MinRead, op.block = t.buf.block
        PROVE  /\ t.reads # <<>>
               /\ \A i \in DOMAIN t.reads :
                    \/ i \in DOMAIN c.reads /\ t.reads[i] = c.reads[i]
                    \/ /\ t.reads[i].base = 0 /\ t.reads[i].pos = 0 /\ t.reads[i].n >= MinRead
                       /\ t.reads[i].block = c.buf.block
    <3> DEFINE r == c.reads
    <3>1. r \in Seq(ReadOps) /\ Len(r) \in Nat /\ DOMAIN r = 1..Len(r)
      BY Fields, LenProperties
    <3>2. t.reads = Append(r, op)  BY <1>6, <2>1
    <3> HIDE DEF r
    <3>3. /\ Len(t.reads) = Len(r) + 1 /\ DOMAIN t.reads = 1..(Len(r) + 1)
          /\ t.reads[Len(r) + 1] = op /\ \A i \in 1..Len(r) : t.reads[i] = r[i]
      BY <3>1, <3>2, AppendProperties
    <3>5. t.reads # <<>>
      <4>1. Len(<<>>) = 0  BY EmptySeq
      <4> QED  BY <3>1, <3>3, <4>1
    <3>6. ASSUME NEW i \in DOMAIN t.reads
          PROVE  (i \in DOMAIN r /\ t.reads[i] = r[i]) \/ t.reads[i] = op
      BY <3>1, <3>3, <3>6
    <3> QED  BY <1>10, <2>1, <3>5, <3>6 DEF r
  <2> QED  BY <1>6, <1>9, <2>1
<1>12. Direct(t, read)  BY <1>2, <1>10 DEF Direct, Spoken
<1>13. Aligned(t)
  <2>1. ASSUME NEW i \in DOMAIN t.reads
        PROVE  /\ t.reads[i].base = 0 /\ t.reads[i].pos = 0 /\ t.reads[i].n >= MinRead
               /\ t.reads[i].block = t.buf.block
    BY <1>2, <1>10, <1>11 DEF Aligned
  <2> QED  BY <1>10, <2>1 DEF Aligned
<1>14. Arrived(t, asked)
  <2> SUFFICES ASSUME c.inbox # <<>>  PROVE Arrived(t, asked)
    BY <1>10 DEF Arrived
  <2>1. t.ready = q /\ t.reads # <<>>
    BY <1>11
  <2>2. \A i \in DOMAIN q :
          WriteDone(q[i]) \/ (i = Len(q) /\ q[i].kind = "in")
    BY <1>1, <1>2 DEF Arrived
  <2>3. \E text \in Lines : t.inbox = Append(text, Newline) /\ Underway(t, asked, text)
    BY <1>2, <1>10 DEF Arrived, Underway
  <2>4. t.started /\ t.done = <<>> /\ t.reset = FALSE /\ t.trying # "in" /\ t.buf.put = 0
    BY <1>2, <1>10 DEF Arrived
  <2> QED  BY <2>1, <2>2, <2>3, <2>4 DEF Arrived
<1>15. Taken(t, asked)
  <2>1. DOMAIN <<>> = {}  OBVIOUS
  <2> QED  BY <1>2, <1>10, <2>1 DEF Taken
<1>16. Present(t)
  <2> SUFFICES ASSUME ~c.eof  PROVE Present(t)
    BY <1>10 DEF Present
  <2>1. t.ready = q /\ t.reads # <<>>
    BY <1>11
  <2>2. c.inbox = <<>> => \A i \in DOMAIN q : WriteDone(q[i])
    BY <1>1, <1>2 DEF Present
  <2> QED  BY <1>2, <1>10, <2>1, <2>2 DEF Present
<1>17. Ended(t)
  <2>1. \A i \in DOMAIN q : q[i].kind = "read" => q[i] = ReadFailed
    BY <1>1, <1>2 DEF Ended
  <2>2. CASE t.ready = q
    BY <2>1, <2>2 DEF Ended
  <2>3. CASE t.ready = Append(q, ReadFailed)
    <3>1. ReadFailed \in ReadEnds  BY DEF ReadFailed, ReadEnds
    <3>2. /\ DOMAIN t.ready = 1..(Len(q) + 1) /\ t.ready[Len(q) + 1] = ReadFailed
          /\ \A i \in 1..Len(q) : t.ready[i] = q[i]
      BY <1>1, <2>3, <3>1, AppendProperties DEF AnyEvents, Ends
    <3> QED  BY <1>1, <2>1, <3>2 DEF Ended
  <2> QED  BY <1>11, <2>2, <2>3
<1>18. Awaited(t, asked)  BY <1>2, <1>10 DEF Awaited
<1>19. Calm(t, read, asked)
  BY <1>12, <1>13, <1>14, <1>15, <1>16, <1>17, <1>18 DEF Calm
<1>20. StaysCalm(c, t, read, asked)
  BY <1>10, <1>19 DEF StaysCalm
<1> QED  BY <1>4, <1>20 DEF d, e, q

\* The reactor queues the descriptor: a line has arrived, and it is the last there.
LEMMA CalmReport ==
    ASSUME NEW c \in Sessions, Once(c), NEW read, NEW asked, Calm(c, read, asked),
           c.started, c.news, Readable(c), "in" \notin c.reported
    PROVE  StaysCalm(c,
                Post([c EXCEPT !.news = FALSE, !.reported = @ \cup {"in"}], [kind |-> "in"]),
                read, asked)
<1> DEFINE q == c.ready
           in == [kind |-> "in"]
           t == Post([c EXCEPT !.news = FALSE, !.reported = @ \cup {"in"}], in)
<1>1. /\ Direct(c, read) /\ Aligned(c) /\ Arrived(c, asked) /\ Taken(c, asked)
      /\ Present(c) /\ Ended(c) /\ Awaited(c, asked)
  BY DEF Calm
<1>2. /\ t.started = c.started /\ t.crashed = c.crashed /\ t.writes = c.writes
      /\ t.reported = c.reported \cup {"in"} /\ t.inbox = c.inbox /\ t.room = c.room
      /\ t.outbox = c.outbox /\ t.words = c.words /\ t.eof = c.eof /\ t.heard = c.heard
      /\ t.trying = c.trying /\ t.done = c.done
      /\ t.news = FALSE /\ t.reset = c.reset /\ t.ended = c.ended
      /\ t.buf = c.buf /\ t.reads = c.reads /\ t.ready = Append(q, in)
  BY DEF Sessions, Post
<1>3. /\ Len(q) \in Nat /\ DOMAIN q = 1..Len(q) /\ in \in Reports
      /\ Len(Append(q, in)) = Len(q) + 1
      /\ DOMAIN Append(q, in) = 1..(Len(q) + 1) /\ Append(q, in)[Len(q) + 1] = in
      /\ \A i \in 1..Len(q) : Append(q, in)[i] = q[i]
  <2>1. q \in AnyEvents /\ in \in Reports  BY Fields DEF AnyEvents, Reports
  <2> HIDE DEF q, in
  <2> QED  BY <2>1, AppendProperties, LenProperties DEF AnyEvents
<1>4. in.kind = "in"  OBVIOUS
<1>5. \A i \in DOMAIN q : q[i].kind # "in"
  BY DEF Once
<1>6. q # <<>> => 1 \in DOMAIN q
  BY Queue
<1> HIDE DEF t, in, q
<1>7. \A i \in DOMAIN t.ready : (i \in DOMAIN q /\ t.ready[i] = q[i])
                                \/ (i = Len(t.ready) /\ t.ready[i] = in)
  BY <1>2, <1>3
<1>8. Direct(t, read)  BY <1>1, <1>2 DEF Direct, Spoken
<1>9. Aligned(t)  BY <1>1, <1>2 DEF Aligned
<1>10. Arrived(t, asked)
  <2> SUFFICES ASSUME c.inbox # <<>>  PROVE Arrived(t, asked)
    BY <1>2 DEF Arrived
  <2>1. \E text \in Lines : t.inbox = Append(text, Newline) /\ Underway(t, asked, text)
    BY <1>1, <1>2 DEF Arrived, Underway
  <2>2. t.started /\ t.reads # <<>> /\ t.done = <<>> /\ t.reset = FALSE
    BY <1>1, <1>2 DEF Arrived
  <2>3. \A i \in DOMAIN q : WriteDone(q[i])
    BY <1>1, <1>5 DEF Arrived, q
  <2>4. \A i \in DOMAIN t.ready :
           WriteDone(t.ready[i]) \/ (i = Len(t.ready) /\ t.ready[i].kind = "in")
    BY <1>4, <1>7, <2>3
  <2>5. t.buf.put # 0 => t.ready # <<>> /\ WriteDone(t.ready[1])
    <3> SUFFICES ASSUME c.buf.put # 0  PROVE t.ready # <<>> /\ WriteDone(t.ready[1])
      BY <1>2
    <3>1. 1 \in DOMAIN q /\ WriteDone(q[1])  BY <1>1, <1>6, <2>3 DEF Arrived, q
    <3>2. t.ready[1] = q[1] /\ 1 \in DOMAIN t.ready  BY <1>2, <1>3, <3>1
    <3> QED  BY <3>1, <3>2
  <2>6. t.trying = "in" =>
           t.buf.put = 0 /\ \A i \in DOMAIN t.ready : t.ready[i].kind = "in"
    <3> SUFFICES ASSUME c.trying = "in"
                 PROVE  t.buf.put = 0 /\ \A i \in DOMAIN t.ready : t.ready[i].kind = "in"
      BY <1>2
    <3>1. c.buf.put = 0 /\ \A i \in DOMAIN q : q[i].kind = "in"
      BY <1>1 DEF Arrived, q
    <3> QED  BY <1>2, <1>4, <1>7, <3>1
  <2> QED  BY <2>1, <2>2, <2>4, <2>5, <2>6 DEF Arrived
<1>11. Taken(t, asked)  BY <1>1, <1>2 DEF Taken, Underway
<1>12. Present(t)
  BY <1>1, <1>2 DEF Present
<1>13. Ended(t)
  <2>1. in.kind # "read"  BY <1>4
  <2> QED  BY <1>1, <1>7, <2>1 DEF Ended, q
<1>14. Awaited(t, asked)  BY <1>1, <1>2 DEF Awaited
<1>15. Calm(t, read, asked)
  BY <1>8, <1>9, <1>10, <1>11, <1>12, <1>13, <1>14 DEF Calm
<1>16. StaysCalm(c, t, read, asked)
  BY <1>2, <1>15 DEF StaysCalm
<1> QED  BY <1>16 DEF t, in

\* The thread takes the descriptor: the reads are tried, with the put area at the
\* front of the block.
LEMMA CalmAnnounced ==
    ASSUME NEW c \in Sessions, Once(c), NEW read, NEW asked, Calm(c, read, asked),
           c.ready # <<>>, c.trying = "none", Head(c.ready).kind = "in"
    PROVE  StaysCalm(c,
                [[c EXCEPT !.ready = Tail(@)] EXCEPT !.trying = "in", !.reported = @ \ {"in"}],
                read, asked)
<1> DEFINE q == Tail(c.ready)
           t == [[c EXCEPT !.ready = q] EXCEPT !.trying = "in", !.reported = @ \ {"in"}]
<1>1. /\ 1 \in DOMAIN c.ready /\ c.ready[1] = Head(c.ready)
      /\ \A i \in DOMAIN q : i + 1 \in DOMAIN c.ready /\ q[i] = c.ready[i + 1]
      /\ Len(q) \in Nat /\ Len(c.ready) = Len(q) + 1 /\ DOMAIN q = 1..Len(q)
  BY Queue, LenProperties DEF Items, AnyEvents
<1>2. /\ Direct(c, read) /\ Aligned(c) /\ Arrived(c, asked) /\ Taken(c, asked)
      /\ Present(c) /\ Ended(c) /\ Awaited(c, asked) /\ c.done = <<>>
  BY DEF Calm, Taken
<1>3. "in" \in c.reported  BY <1>1 DEF Once
<1> HIDE DEF q
<1>4. /\ t.started = c.started /\ t.crashed = c.crashed /\ t.writes = c.writes
      /\ t.reported = c.reported \ {"in"} /\ t.inbox = c.inbox /\ t.room = c.room
      /\ t.outbox = c.outbox /\ t.words = c.words /\ t.eof = c.eof /\ t.heard = c.heard
      /\ t.trying = "in" /\ t.done = c.done
      /\ t.news = c.news /\ t.reset = c.reset /\ t.ended = c.ended
      /\ t.buf = c.buf /\ t.reads = c.reads /\ t.ready = q
  BY DEF Sessions
<1> HIDE DEF t
<1>5. ~WriteDone(c.ready[1])
  BY <1>1 DEF WriteDone
<1>6. c.inbox # <<>> => c.buf.put = 0 /\ DOMAIN q = {}
  <2> SUFFICES ASSUME c.inbox # <<>>  PROVE c.buf.put = 0 /\ DOMAIN q = {}
    OBVIOUS
  <2>1. 1 = Len(c.ready)  BY <1>1, <1>2, <1>5 DEF Arrived
  <2>2. Len(q) = 0  BY <1>1, <2>1
  <2> QED  BY <1>1, <1>2, <1>5, <2>2 DEF Arrived
<1>7. Direct(t, read)  BY <1>2, <1>4 DEF Direct, Spoken
<1>8. Aligned(t)  BY <1>2, <1>4 DEF Aligned
<1>9. Arrived(t, asked)
  <2> SUFFICES ASSUME c.inbox # <<>>  PROVE Arrived(t, asked)
    BY <1>4 DEF Arrived
  <2>1. \E text \in Lines : t.inbox = Append(text, Newline) /\ Underway(t, asked, text)
    BY <1>2, <1>4 DEF Arrived, Underway
  <2>2. t.started /\ t.reads # <<>> /\ t.done = <<>> /\ t.reset = FALSE
    BY <1>2, <1>4 DEF Arrived
  <2> QED  BY <1>4, <1>6, <2>1, <2>2 DEF Arrived
<1>10. Taken(t, asked)
  <2>1. DOMAIN <<>> = {}  OBVIOUS
  <2> QED  BY <1>2, <1>4, <2>1 DEF Taken
<1>11. Present(t)
  BY <1>2, <1>3, <1>4 DEF Present
<1>12. Ended(t)  BY <1>1, <1>2, <1>4 DEF Ended
<1>13. Awaited(t, asked)  BY <1>2, <1>4 DEF Awaited
<1>14. Calm(t, read, asked)
  BY <1>7, <1>8, <1>9, <1>10, <1>11, <1>12, <1>13 DEF Calm
<1>15. StaysCalm(c, t, read, asked)
  BY <1>4, <1>14 DEF StaysCalm
<1> QED  BY <1>15 DEF t, q

\* Where the bytes of a line go, when its read was given the front of the block.
LEMMA StoreLine ==
    ASSUME NEW b \in Bufs, NEW line \in Seq(Characters), Len(line) <= Len(b.mem)
    PROVE  LET r == Store(b, 0, line)
           IN  /\ r \in Bufs /\ r.get = b.get /\ r.put = b.put /\ r.cap = b.cap
               /\ r.block = b.block /\ Len(r.mem) = Len(b.mem)
               /\ SubSeq(r.mem, 1, Len(line)) = line
<1> DEFINE m == b.mem
           k == Len(line)
           rest == SubSeq(m, 0 + k + 1, Len(m))
           r == Store(b, 0, line)
<1>1. m \in Seq(Characters) /\ Len(m) \in Nat /\ k \in Nat /\ k <= Len(m)
  BY BufsAreBufs, ContentOK, LenProperties
<1>2. /\ r \in Bufs /\ r.block = b.block /\ Len(r.mem) = Len(b.mem)
  <2>1. 0 + Len(line) <= Len(b.mem) /\ 0 \in Nat  BY <1>1
  <2> QED  BY <2>1, BufsAreBufs, StoreOK
<1> HIDE DEF m
<1>3. rest \in Seq(Characters)
  <2> HIDE DEF k
  <2>1. 0 + k + 1 \in Nat \ {0} /\ 0 + k + 1 <= Len(m) + 1  BY <1>1
  <2> QED  BY <1>1, <2>1, Piece
<1>4. Store(b, 0, line) = [b EXCEPT !.mem = line \o rest]
  <2>1. SubSeq(m, 1, 0) = <<>>  BY SubSeqEmpty
  <2>2. <<>> \o line = line  OBVIOUS
  <2>3. Store(b, 0, line) = [b EXCEPT !.mem = SubSeq(m, 1, 0) \o line \o rest]
    BY DEF Store, m
  <2> HIDE DEF rest
  <2> QED  BY <2>1, <2>2, <2>3
<1> HIDE DEF rest
<1>5. SubSeq(line \o rest, 1, k) = line
  <2> DEFINE mem == line \o rest
             n == Len(rest)
  <2>1. /\ mem \in Seq(Characters) /\ Len(mem) = k + n /\ n \in Nat
        /\ \A i \in 1..(k + n) : mem[i] = IF i <= k THEN line[i] ELSE rest[i - k]
    BY <1>3, ConcatProperties, LenProperties
  <2> HIDE DEF mem, n
  <2>2. k <= Len(mem)  BY <1>1, <2>1
  <2>3. \A i \in 1..k : line[i] = mem[i]
    <3> HIDE DEF k
    <3> QED  BY <1>1, <2>1
  <2> QED  BY <2>1, <2>2, <2>3, Beginning DEF mem
<1>6. /\ r.get = b.get /\ r.put = b.put /\ r.cap = b.cap /\ r.mem = line \o rest
  BY <1>4 DEF Bufs
<1> QED  BY <1>2, <1>5, <1>6

LEMMA ReadsFront ==
    ASSUME NEW c \in Sessions, c.reads # <<>>
    PROVE  /\ Head(c.reads) \in ReadOps /\ Tail(c.reads) \in Seq(ReadOps)
           /\ 1 \in DOMAIN c.reads /\ c.reads[1] = Head(c.reads)
           /\ Items(c.reads) = Items(Tail(c.reads)) + 1
           /\ \A i \in DOMAIN Tail(c.reads) :
                i + 1 \in DOMAIN c.reads /\ Tail(c.reads)[i] = c.reads[i + 1]
<1> DEFINE q == c.reads
<1>1. q \in Seq(ReadOps) /\ q # <<>>  BY Fields
<1> HIDE DEF q
<1>2. /\ Head(q) \in ReadOps /\ Tail(q) \in Seq(ReadOps) /\ 1 \in DOMAIN q /\ q[1] = Head(q)
      /\ Items(q) = Items(Tail(q)) + 1
      /\ \A i \in DOMAIN Tail(q) : i + 1 \in DOMAIN q /\ Tail(q)[i] = q[i + 1]
  BY <1>1, FrontOfList
<1> QED  BY <1>2 DEF q

\* The first read takes the line, whole.
LEMMA CalmLine ==
    ASSUME \A text \in Lines : Len(text) < MinRead,
           NEW c, NEW read, NEW asked, Sound(c, read, 2, Dialogue(c.heard)),
           Calm(c, read, asked),
           c.trying = "in", c.reads # <<>>, c.inbox # <<>>
    PROVE  LET op == Head(c.reads)
           IN  StaysCalm(c,
                    [Receive(c, op) EXCEPT !.reads = Tail(@), !.done = Append(@, Received(c, op))],
                    read, asked)
<1> DEFINE op == Head(c.reads)
           rest == Tail(c.reads)
           line == c.inbox
           b == Store(c.buf, 0, line)
           t == [Receive(c, op) EXCEPT !.reads = Tail(@), !.done = Append(@, Received(c, op))]
<1>1. /\ Direct(c, read) /\ Aligned(c) /\ Arrived(c, asked) /\ Taken(c, asked)
      /\ Present(c) /\ Ended(c) /\ Awaited(c, asked) /\ c.done = <<>> /\ c.buf.put = 0
      /\ \A i \in DOMAIN c.ready : c.ready[i].kind = "in"
  BY DEF Calm, Arrived
<1>2. c \in Sessions /\ Once(c) /\ \A i \in DOMAIN c.reads : Fits(c, c.reads[i])
  BY DEF Sound, Wf, Orderly
<1>3. PICK text \in Lines : line = Append(text, Newline) /\ Underway(c, asked, text)
  BY <1>1 DEF Arrived
<1> DEFINE k == Len(text) + 1
<1>4. line \in Seq(Characters) /\ Len(line) = k /\ k \in Nat /\ k <= MinRead
  <2>1. Len(text) \in Nat /\ Len(text) < MinRead /\ MinRead \in Nat
    BY LineOK, StreambufAssumption
  <2> QED  BY <1>3, <2>1, LineOK
<1> HIDE DEF k
<1>5. /\ op \in ReadOps /\ op.base = 0 /\ op.pos = 0 /\ op.n >= MinRead
      /\ op.block = c.buf.block /\ op.n \in Nat /\ Fits(c, op)
  <2>1. 1 \in DOMAIN c.reads /\ c.reads[1] = op /\ op \in ReadOps  BY <1>2, ReadsFront
  <2> HIDE DEF op
  <2> QED  BY <1>1, <1>2, <2>1 DEF Aligned, ReadOps
<1>6. c.buf \in Bufs /\ Len(c.buf.mem) \in Nat /\ k <= Len(c.buf.mem) /\ k <= op.n
  <2>1. c.buf \in Bufs /\ Len(c.buf.mem) \in Nat  BY <1>2, Fields, BufsAreBufs, ContentOK
  <2> HIDE DEF op, line
  <2>2. op.base + op.n <= Len(c.buf.mem)  BY <1>5 DEF Fits
  <2> QED  BY <1>4, <1>5, <2>1, <2>2, StreambufAssumption
<1>7. /\ b \in Bufs /\ b.get = c.buf.get /\ b.put = c.buf.put /\ b.cap = c.buf.cap
      /\ b.block = c.buf.block /\ Lies(b, text)
  <2>1. /\ b \in Bufs /\ b.get = c.buf.get /\ b.put = c.buf.put /\ b.cap = c.buf.cap
        /\ b.block = c.buf.block /\ Len(b.mem) = Len(c.buf.mem)
        /\ SubSeq(b.mem, 1, Len(line)) = line
    BY <1>4, <1>6, StoreLine
  <2> HIDE DEF b, line
  <2> QED  BY <1>3, <1>4, <1>6, <2>1 DEF Lies, k
<1> HIDE DEF op, b
<1>8. Count(c, op) = k
  <2> HIDE DEF line
  <2>1. Len(line) = k /\ ~(op.n < k)  BY <1>4, <1>5, <1>6
  <2> QED  BY <1>4, <1>5, <1>6, <2>1 DEF Count, line
<1>9. Received(c, op) = ReadLine(text)
  BY <1>2, <1>5, <1>8 DEF Received, ReadLine, k
<1>10. Receive(c, op) = [c EXCEPT !.inbox = <<>>, !.buf = b]
  <2> HIDE DEF line
  <2>1. SubSeq(line, 1, k) = line
    BY <1>4, SubSeqFull
  <2>2. SubSeq(line, k + 1, Len(line)) = <<>>
    BY <1>4, SubSeqEmpty
  <2>3. Receive(c, op) = [c EXCEPT !.inbox = SubSeq(line, k + 1, Len(line)),
                                   !.buf = Store(c.buf, 0, SubSeq(line, 1, k))]
    BY <1>5, <1>8, Zenon DEF Receive, line
  <2> QED  BY <2>1, <2>2, <2>3 DEF b
<1>11. t = [[c EXCEPT !.inbox = <<>>, !.buf = b]
               EXCEPT !.reads = rest, !.done = Append(<<>>, ReadLine(text))]
  <2>1. [c EXCEPT !.inbox = <<>>, !.buf = b].reads = c.reads
        /\ [c EXCEPT !.inbox = <<>>, !.buf = b].done = c.done
    BY <1>2 DEF Sessions
  <2> QED  BY <1>1, <1>9, <1>10, <2>1
<1> HIDE DEF t, rest
<1>12. /\ t.started = c.started /\ t.crashed = c.crashed /\ t.writes = c.writes
       /\ t.reported = c.reported /\ t.inbox = <<>> /\ t.room = c.room
       /\ t.outbox = c.outbox /\ t.words = c.words /\ t.eof = c.eof /\ t.heard = c.heard
       /\ t.trying = c.trying /\ t.done = Append(<<>>, ReadLine(text))
       /\ t.news = c.news /\ t.reset = c.reset /\ t.ended = c.ended
       /\ t.buf = b /\ t.reads = rest /\ t.ready = c.ready
  BY <1>2, <1>11 DEF Sessions
<1>13. DOMAIN t.done = {1} /\ t.done[1] = ReadLine(text) /\ t.done # <<>>
  <2>1. ReadLine(text) \in ReadEnds /\ <<>> \in Seq(ReadEnds) /\ Len(<<>>) = 0
    BY <1>4, EmptySeq DEF ReadLine, ReadEnds, k
  <2>2. /\ Len(t.done) = 1 /\ t.done[1] = ReadLine(text) /\ t.done \in Seq(ReadEnds)
    BY <1>12, <2>1, AppendProperties
  <2>3. DOMAIN t.done = 1..1  BY <2>2, LenProperties
  <2> QED  BY <2>1, <2>2, <2>3
<1>14. Direct(t, read)  BY <1>1, <1>12 DEF Direct, Spoken
<1>15. Aligned(t)
  <2>1. \A i \in DOMAIN rest : i + 1 \in DOMAIN c.reads /\ rest[i] = c.reads[i + 1]
    BY <1>2, ReadsFront DEF rest
  <2> QED  BY <1>1, <1>7, <1>12, <2>1 DEF Aligned
<1>16. Arrived(t, asked)  BY <1>12 DEF Arrived
<1>17. Taken(t, asked)
  <2>1. Underway(t, asked, text)  BY <1>3, <1>12 DEF Underway
  <2> QED  BY <1>1, <1>7, <1>12, <1>13, <2>1 DEF Taken
<1>18. ~c.eof => c.ready = <<>> /\ rest # <<>>
  <2> SUFFICES ASSUME ~c.eof  PROVE c.ready = <<>> /\ rest # <<>>
    OBVIOUS
  <2>1. "in" \notin c.reported  BY <1>1 DEF Present
  <2>2. \A i \in DOMAIN c.ready : FALSE  BY <1>1, <1>2, <2>1 DEF Once
  <2>3. c.ready = <<>>
    <3>1. c.ready # <<>> => 1 \in DOMAIN c.ready  BY <1>2, Queue
    <3> QED  BY <2>2, <3>1
  <2>4. Items(<<>>) = 0  BY EmptySeq DEF Items
  <2>5. Reported(c, "in") = 0 /\ Reported(c, "out") = 0
    BY <1>1, <2>1 DEF Reported, Direct
  <2>6. Work(c) = 2 /\ c.ended = 0 /\ c.writes = <<>>
    BY <1>1 DEF Sound, Direct, Present
  <2>7. Listed(c) = Items(c.reads)
    <3>1. Items(c.reads) \in Nat  BY <1>2, Counts
    <3>2. Listed(c) = Items(c.reads) + 0 + 0 + 0
      BY <1>1, <2>3, <2>4, <2>6 DEF Listed
    <3> QED  BY <3>1, <3>2
  <2>8. Items(c.reads) - 0 - 0 + 0 - Items(c.heard) = 2
    BY <2>5, <2>6, <2>7 DEF Work
  <2>9. Items(c.reads) = Items(rest) + 1 /\ Items(c.heard) \in Nat /\ Items(c.reads) \in Nat
    BY <1>2, Counts, ReadsFront DEF rest
  <2>10. rest = <<>> => Items(rest) = 0  BY <2>4
  <2> QED  BY <2>3, <2>8, <2>9, <2>10
<1>19. Present(t)
  <2> SUFFICES ASSUME ~c.eof  PROVE Present(t)
    BY <1>12 DEF Present
  <2>1. DOMAIN <<>> = {}  OBVIOUS
  <2>2. \A i \in DOMAIN t.ready : WriteDone(t.ready[i])
    BY <1>12, <1>18, <2>1
  <2>3. t.buf.put = 0  BY <1>1, <1>7, <1>12
  <2> QED  BY <1>1, <1>12, <1>13, <1>18, <2>2, <2>3 DEF Present
<1>20. Ended(t)  BY <1>1, <1>12 DEF Ended
<1>21. Awaited(t, asked)  BY <1>1, <1>12 DEF Awaited
<1>22. Calm(t, read, asked)
  BY <1>14, <1>15, <1>16, <1>17, <1>19, <1>20, <1>21 DEF Calm
<1>23. StaysCalm(c, t, read, asked)
  BY <1>12, <1>22 DEF StaysCalm
<1> QED  BY <1>23 DEF t, op

\* The client has left: a read that waits ends with nothing.
LEMMA CalmNothing ==
    ASSUME NEW c \in Sessions, NEW read, NEW asked, Calm(c, read, asked),
           c.trying = "in", c.reads # <<>>, c.inbox = <<>>, c.eof
    PROVE  LET op == Head(c.reads)
           IN  StaysCalm(c,
                    [Receive(c, op) EXCEPT !.reads = Tail(@), !.done = Append(@, Received(c, op))],
                    read, asked)
<1> DEFINE op == Head(c.reads)
           rest == Tail(c.reads)
           q == c.done
           t == [Receive(c, op) EXCEPT !.reads = Tail(@), !.done = Append(@, Received(c, op))]
<1>1. /\ Direct(c, read) /\ Aligned(c) /\ Taken(c, asked) /\ Ended(c) /\ Awaited(c, asked)
  BY DEF Calm
<1>2. op \in ReadOps /\ op.base = 0 /\ op.pos = 0
  <2>1. 1 \in DOMAIN c.reads /\ c.reads[1] = op /\ op \in ReadOps  BY ReadsFront
  <2> HIDE DEF op
  <2> QED  BY <1>1, <2>1 DEF Aligned
<1>3. Receive(c, op) = c /\ Received(c, op) = ReadFailed
  <2> HIDE DEF op
  <2> QED  BY <1>2, ReceiveNothing DEF ReadFailed
<1>4. t = [c EXCEPT !.reads = rest, !.done = Append(q, ReadFailed)]
  BY <1>3
<1>5. \A i \in DOMAIN rest : i + 1 \in DOMAIN c.reads /\ rest[i] = c.reads[i + 1]
  BY ReadsFront
<1>6. /\ DOMAIN Append(q, ReadFailed) = 1..(Len(q) + 1) /\ DOMAIN q = 1..Len(q)
      /\ Len(q) \in Nat /\ Append(q, ReadFailed)[Len(q) + 1] = ReadFailed
      /\ \A i \in 1..Len(q) : Append(q, ReadFailed)[i] = q[i]
  <2>1. q \in Seq(Ends) /\ ReadFailed \in Ends
    BY Fields DEF Ends, ReadFailed, ReadEnds
  <2> HIDE DEF q
  <2> QED  BY <2>1, AppendProperties, LenProperties
<1> HIDE DEF op, rest, q, t
<1>7. /\ t.started = c.started /\ t.crashed = c.crashed /\ t.writes = c.writes
      /\ t.reported = c.reported /\ t.inbox = c.inbox /\ t.room = c.room
      /\ t.outbox = c.outbox /\ t.words = c.words /\ t.eof = c.eof /\ t.heard = c.heard
      /\ t.trying = c.trying /\ t.done = Append(q, ReadFailed)
      /\ t.buf = c.buf /\ t.reads = rest /\ t.ready = c.ready
  BY <1>4 DEF Sessions
<1>8. \A i \in DOMAIN t.done : (i \in DOMAIN q /\ t.done[i] = q[i]) \/ t.done[i] = ReadFailed
  BY <1>6, <1>7
<1>9. Direct(t, read)  BY <1>1, <1>7 DEF Direct, Spoken
<1>10. Aligned(t)  BY <1>1, <1>5, <1>7 DEF Aligned
<1>11. Arrived(t, asked)  BY <1>7 DEF Arrived
<1>12. Taken(t, asked)
  <2>1. ASSUME NEW i \in DOMAIN t.done
        PROVE  \/ t.eof /\ t.done[i] = ReadFailed
               \/ /\ i = 1 /\ t.buf.put = 0
                  /\ \E text \in Lines :
                       /\ t.done[1] = ReadLine(text) /\ Underway(t, asked, text)
                       /\ Lies(t.buf, text)
    <3>1. CASE t.done[i] = ReadFailed
      BY <1>7, <3>1
    <3>2. CASE i \in DOMAIN q /\ t.done[i] = q[i]
      <4>1. \/ c.eof /\ q[i] = ReadFailed
            \/ /\ i = 1 /\ c.buf.put = 0
               /\ \E text \in Lines :
                    /\ q[1] = ReadLine(text) /\ Underway(c, asked, text)
                    /\ Lies(c.buf, text)
        BY <1>1, <3>2 DEF Taken, q
      <4> QED  BY <1>7, <3>2, <4>1 DEF Underway
    <3> QED  BY <1>8, <3>1, <3>2
  <2>2. t.trying # "none" /\ t.inbox = <<>>  BY <1>7
  <2> QED  BY <2>1, <2>2 DEF Taken
<1>13. Present(t)  BY <1>7 DEF Present
<1>14. Ended(t)  BY <1>1, <1>7 DEF Ended
<1>15. Awaited(t, asked)  BY <1>1, <1>7 DEF Awaited
<1>16. Calm(t, read, asked)
  BY <1>9, <1>10, <1>11, <1>12, <1>13, <1>14, <1>15 DEF Calm
<1>17. StaysCalm(c, t, read, asked)
  BY <1>7, <1>16 DEF StaysCalm
<1> QED  BY <1>17 DEF t, op

\* Nothing was tried, which happens only when the client has left.
LEMMA CalmUntried ==
    ASSUME NEW c \in Sessions, NEW read, NEW asked, Calm(c, read, asked),
           c.trying = "in", c.reads = <<>> \/ ~Readable(c), c.done = <<>>
    PROVE  StaysCalm(c, [c EXCEPT !.trying = "none", !.done = <<>>], read, asked)
<1> DEFINE t == [c EXCEPT !.trying = "none", !.done = <<>>]
<1>1. Arrived(c, asked) /\ Present(c) /\ Ended(c)  BY DEF Calm
<1>2. c.inbox = <<>>  BY <1>1 DEF Arrived, Readable
<1>3. c.eof  BY <1>1, <1>2 DEF Present
<1>4. /\ t.started = c.started /\ t.crashed = c.crashed
      /\ t.buf = c.buf /\ t.reads = c.reads /\ t.writes = c.writes
      /\ t.reported = c.reported /\ t.inbox = c.inbox /\ t.room = c.room
      /\ t.outbox = c.outbox /\ t.words = c.words /\ t.eof = c.eof /\ t.heard = c.heard
      /\ t.trying = "none" /\ t.done = <<>> /\ t.ready = c.ready
  BY DEF Sessions
<1> HIDE DEF t
<1>5. Ended(t)  BY <1>1, <1>4 DEF Ended
<1>6. Calm(t, read, asked)
  BY <1>2, <1>3, <1>4, <1>5, CalmAlone
<1>7. StaysCalm(c, t, read, asked)
  BY <1>4, <1>6 DEF StaysCalm
<1> QED  BY <1>7 DEF t

\* The queue once what has been tried has joined it, all but the first.
LEMMA Joined ==
    ASSUME NEW c \in Sessions, c.done # <<>>
    PROVE  LET more == c.ready \o Tail(c.done)
           IN  /\ more \in AnyEvents /\ Head(c.done) \in Ends /\ 1 \in DOMAIN c.done
               /\ c.done[1] = Head(c.done)
               /\ \A i \in DOMAIN more :
                    \/ i \in DOMAIN c.ready /\ more[i] = c.ready[i]
                    \/ \E j \in DOMAIN c.done : j # 1 /\ more[i] = c.done[j]
<1> DEFINE q == c.ready
           d == c.done
           r == Tail(d)
           more == q \o r
<1>1. q \in AnyEvents /\ d \in Seq(Ends) /\ d # <<>>
  BY Fields DEF AnyEvents, Ends
<1> HIDE DEF q, d
<1>2. /\ Head(d) \in Ends /\ r \in Seq(Ends) /\ 1 \in DOMAIN d /\ d[1] = Head(d)
      /\ \A i \in DOMAIN r : i \in Nat /\ i > 0 /\ i + 1 \in DOMAIN d /\ r[i] = d[i + 1]
  BY <1>1, FrontOfList
<1>3. r \in AnyEvents  BY <1>2, SeqMonotonic DEF Ends, AnyEvents
<1> DEFINE m == Len(q)
           k == Len(r)
<1> HIDE DEF r
<1>4. /\ m \in Nat /\ k \in Nat /\ DOMAIN q = 1..m /\ DOMAIN r = 1..k
      /\ more \in AnyEvents /\ DOMAIN more = 1..(m + k)
      /\ \A i \in 1..(m + k) : more[i] = IF i <= m THEN q[i] ELSE r[i - m]
  BY <1>1, <1>3, ConcatProperties, LenProperties DEF AnyEvents
<1> HIDE DEF m, k, more
<1>5. ASSUME NEW i \in DOMAIN more
      PROVE  \/ i \in DOMAIN q /\ more[i] = q[i]
             \/ \E j \in DOMAIN d : j # 1 /\ more[i] = d[j]
  <2>1. CASE i <= m
    BY <1>4, <1>5, <2>1
  <2>2. CASE ~(i <= m)
    <3>1. i - m \in DOMAIN r /\ more[i] = r[i - m]
      BY <1>4, <1>5, <2>2
    <3>2. (i - m) + 1 \in DOMAIN d /\ (i - m) + 1 # 1 /\ more[i] = d[(i - m) + 1]
      BY <1>2, <3>1
    <3> QED  BY <3>2
  <2> QED  BY <2>1, <2>2
<1> QED  BY <1>2, <1>4, <1>5 DEF more, r, q, d

\* The session once its reads have been tried, and before the first is handled.
Pending(c) == [[c EXCEPT !.trying = "none", !.done = <<>>] EXCEPT !.ready = @ \o Tail(c.done)]

LEMMA PendingFields ==
    ASSUME NEW c \in Sessions, c.done # <<>>
    PROVE  LET f == Pending(c)
           IN  /\ f \in Sessions
               /\ f.started = c.started /\ f.crashed = c.crashed /\ f.writes = c.writes
               /\ f.reported = c.reported /\ f.inbox = c.inbox /\ f.room = c.room
               /\ f.outbox = c.outbox /\ f.words = c.words /\ f.eof = c.eof /\ f.heard = c.heard
               /\ f.trying = "none" /\ f.done = <<>>
               /\ f.news = c.news /\ f.reset = c.reset /\ f.ended = c.ended
               /\ f.buf = c.buf /\ f.reads = c.reads
               /\ f.ready = c.ready \o Tail(c.done)
<1> DEFINE more == c.ready \o Tail(c.done)
           x == [c EXCEPT !.trying = "none"]
           d == [x EXCEPT !.done = <<>>]
           f == [d EXCEPT !.ready = more]
<1>1. more \in AnyEvents  BY Joined
<1>2. Pending(c) = f
  <2>1. [c EXCEPT !.trying = "none", !.done = <<>>] = d /\ d.ready = c.ready
    BY DEF Sessions
  <2> HIDE DEF d
  <2> QED  BY <2>1 DEF Pending
<1> HIDE DEF more
<1>3. f \in Sessions
  <2>1. x \in Sessions  BY Setting
  <2> HIDE DEF x
  <2>2. d \in Sessions
    <3>1. <<>> \in Seq(ReadEnds \cup WriteEnds)  BY EmptySeq
    <3> QED  BY <2>1, <3>1, Setting
  <2> HIDE DEF d
  <2> QED  BY <1>1, <2>2, Setting DEF AnyEvents
<1>4. /\ f.started = c.started /\ f.crashed = c.crashed /\ f.writes = c.writes
      /\ f.reported = c.reported /\ f.inbox = c.inbox /\ f.room = c.room
      /\ f.outbox = c.outbox /\ f.words = c.words /\ f.eof = c.eof /\ f.heard = c.heard
      /\ f.trying = "none" /\ f.done = <<>>
      /\ f.news = c.news /\ f.reset = c.reset /\ f.ended = c.ended
      /\ f.buf = c.buf /\ f.reads = c.reads /\ f.ready = more
  BY DEF Sessions
<1> HIDE DEF f
<1> QED  BY <1>2, <1>3, <1>4 DEF more

\* A read that was tried in vain is handled, and nothing follows from it.
LEMMA CalmInVain ==
    ASSUME NEW c \in Sessions, NEW read, NEW asked, Calm(c, read, asked),
           c.done # <<>>, Head(c.done) = ReadFailed
    PROVE  StaysCalm(c, Dispatch(Pending(c), Head(c.done)), read, asked)
<1> DEFINE f == Pending(c)
           e == Head(c.done)
           more == c.ready \o Tail(c.done)
           t == [f EXCEPT !.ended = @ + 1]
<1>1. Taken(c, asked) /\ Ended(c)  BY DEF Calm
<1>2. /\ e \in Ends /\ 1 \in DOMAIN c.done /\ c.done[1] = e
      /\ \A i \in DOMAIN more :
           \/ i \in DOMAIN c.ready /\ more[i] = c.ready[i]
           \/ \E j \in DOMAIN c.done : j # 1 /\ more[i] = c.done[j]
  BY Joined
<1>3. /\ f \in Sessions /\ f.started = c.started /\ f.crashed = c.crashed
      /\ f.writes = c.writes /\ f.reported = c.reported /\ f.inbox = c.inbox
      /\ f.room = c.room /\ f.outbox = c.outbox /\ f.words = c.words /\ f.eof = c.eof /\ f.heard = c.heard
      /\ f.trying = "none" /\ f.done = <<>> /\ f.buf = c.buf /\ f.reads = c.reads
      /\ f.ready = more
  BY PendingFields
<1> HIDE DEF f, e, more
<1>4. e = ReadFailed  BY DEF e
<1>5. e = ReadFailed /\ c.eof /\ c.inbox = <<>>
  <2>1. 1 \in DOMAIN c.done /\ c.done # <<>>
    BY <1>2
  <2>2. \A text : ReadLine(text) # ReadFailed
    <3>1. \A text : ReadLine(text).error = FALSE /\ ReadFailed.error = TRUE
      BY DEF ReadLine, ReadFailed
    <3> QED  BY <3>1
  <2> QED  BY <1>1, <1>2, <1>4, <2>1, <2>2 DEF Taken
<1>6. Dispatch(f, e) = t
  BY <1>2, <1>3, <1>5, FailureHandled DEF Ends
<1>7. /\ t.started = c.started /\ t.crashed = c.crashed
      /\ t.buf = c.buf /\ t.reads = c.reads /\ t.writes = c.writes
      /\ t.reported = c.reported /\ t.inbox = c.inbox /\ t.room = c.room
      /\ t.outbox = c.outbox /\ t.words = c.words /\ t.eof = c.eof /\ t.heard = c.heard
      /\ t.trying = "none" /\ t.done = <<>> /\ t.ready = more
  BY <1>3 DEF Sessions
<1> HIDE DEF t
<1>8. Ended(t)
  <2>1. ASSUME NEW j \in DOMAIN c.done, j # 1  PROVE c.done[j] = ReadFailed
    BY <1>1, <2>1 DEF Taken
  <2>2. \A i \in DOMAIN more : more[i].kind = "read" => more[i] = ReadFailed
    BY <1>1, <1>2, <2>1 DEF Ended
  <2> QED  BY <1>7, <2>2 DEF Ended
<1>9. Calm(t, read, asked)
  BY <1>5, <1>7, <1>8, CalmAlone
<1>10. StaysCalm(c, t, read, asked)
  BY <1>7, <1>9 DEF StaysCalm
<1> QED  BY <1>6, <1>10 DEF f, e

\* A line that was read is executed.
LEMMA CalmExecuted ==
    ASSUME SendRoom >= ReplyLength + 2,
           NEW c \in Sessions, NEW read \in Speech, NEW asked, Calm(c, read, asked),
           c.started, c.trying = "in", c.done # <<>>, Head(c.done) # ReadFailed
    PROVE  LET t == Dispatch(Pending(c), Head(c.done))
           IN  /\ Calm(t, read, asked) /\ t.eof = c.eof
               /\ \E text \in Lines :
                    t.heard = Append(c.heard, text) /\ Underway(c, asked, text)
               /\ c.eof => t.outbox = c.outbox
<1> DEFINE f == Pending(c)
           e == Head(c.done)
           more == c.ready \o Tail(c.done)
           t == Dispatch(f, e)
<1>1. /\ Direct(c, read) /\ Aligned(c) /\ Arrived(c, asked) /\ Taken(c, asked)
      /\ Present(c) /\ Ended(c) /\ Awaited(c, asked) /\ c.inbox = <<>>
  BY DEF Calm, Taken
<1>2. /\ 1 \in DOMAIN c.done /\ c.done[1] = e /\ more \in AnyEvents
      /\ \A i \in DOMAIN more :
           \/ i \in DOMAIN c.ready /\ more[i] = c.ready[i]
           \/ \E j \in DOMAIN c.done : j # 1 /\ more[i] = c.done[j]
  BY Joined
<1>3. /\ f \in Sessions /\ f.started = c.started /\ f.crashed = c.crashed
      /\ f.writes = c.writes
      /\ f.reported = c.reported /\ f.inbox = c.inbox /\ f.room = c.room
      /\ f.outbox = c.outbox /\ f.words = c.words /\ f.eof = c.eof /\ f.heard = c.heard
      /\ f.trying = "none" /\ f.done = <<>>
      /\ f.news = c.news /\ f.reset = c.reset /\ f.ended = c.ended
      /\ f.buf = c.buf /\ f.reads = c.reads /\ f.ready = more
  BY PendingFields
<1> HIDE DEF f, more, e
<1>4. PICK text \in Lines :
        e = ReadLine(text) /\ Underway(c, asked, text) /\ Lies(c.buf, text) /\ c.buf.put = 0
  <2>1. e # ReadFailed  BY DEF e
  <2> QED  BY <1>1, <1>2, <2>1 DEF Taken
<1>5. /\ f.buf.get = 0 /\ f.buf.put = 0 /\ Lies(f.buf, text)
      /\ (~f.eof => f.outbox = <<>>) /\ Direct(f, read)
  <2>1. Direct(f, read)  BY <1>1, <1>3 DEF Direct, Spoken
  <2>2. c.buf.get = 0 /\ c.buf.put = 0  BY <1>1, <1>4 DEF Aligned
  <2>3. ~c.eof => c.outbox = <<>>  BY <1>4 DEF Underway
  <2>4. f.buf = c.buf /\ f.eof = c.eof /\ f.outbox = c.outbox  BY <1>3
  <2>5. Lies(f.buf, text)  BY <1>4, <2>4
  <2> QED  BY <2>1, <2>2, <2>3, <2>4, <2>5, Zenon
<1>6. t = ContinueRead(f, ReadLine(text))
  <2>1. e.kind = "read"  BY <1>4 DEF ReadLine
  <2> QED  BY <1>4, <2>1 DEF Dispatch
<1> HIDE DEF t
<1>7. /\ Alike(f, t) /\ t.heard = Append(f.heard, text) /\ t.reads = f.reads
      /\ t.buf.get = t.buf.put /\ t.buf.block = f.buf.block
      /\ t.buf.cap = f.buf.cap /\ Direct(t, read)
      /\ f.eof => t.outbox = f.outbox
      /\ \E e1, e2 \in WriteEnds :
           /\ e1.error = f.reset /\ e2.error = f.reset
           /\ t.ready = Append(Append(f.ready, e1), e2)
  <2> DEFINE x == ContinueRead(f, ReadLine(text))
  <2>1. f \in Sessions /\ f.buf.get = 0 /\ f.buf.put = 0 /\ (~f.eof => f.outbox = <<>>)
        /\ Direct(f, read) /\ Lies(f.buf, text)
    BY <1>3, <1>5
  <2>2. /\ Alike(f, x) /\ x.heard = Append(f.heard, text) /\ x.reads = f.reads
        /\ x.buf.get = x.buf.put /\ x.buf.block = f.buf.block
        /\ x.buf.cap = f.buf.cap /\ Direct(x, read)
        /\ f.eof => x.outbox = f.outbox
        /\ \E e1, e2 \in WriteEnds :
             /\ e1.error = f.reset /\ e2.error = f.reset
             /\ x.ready = Append(Append(f.ready, e1), e2)
    BY <2>1, LineHandled
  <2> HIDE DEF x
  <2>3. t = x  BY <1>6 DEF x
  <2> QED  BY <2>2, <2>3, Zenon
<1> HIDE DEF f
<1>8. PICK w1, w2 \in WriteEnds :
        /\ w1.error = c.reset /\ w2.error = c.reset
        /\ t.ready = Append(Append(more, w1), w2)
  BY <1>3, <1>7
<1>9. /\ t.started = c.started /\ t.crashed = c.crashed /\ t.writes = c.writes
      /\ t.reported = c.reported /\ t.inbox = <<>> /\ t.room = c.room
      /\ t.eof = c.eof /\ t.trying = "none" /\ t.done = <<>>
      /\ t.news = c.news /\ t.reset = c.reset /\ t.ended = c.ended
      /\ t.reads = c.reads /\ t.buf.get = t.buf.put /\ t.buf.block = c.buf.block
      /\ t.buf.cap = c.buf.cap /\ t.heard = Append(c.heard, text)
      /\ c.eof => t.outbox = c.outbox
  BY <1>1, <1>3, <1>7 DEF Alike
<1>10. /\ \A i \in DOMAIN t.ready :
            \/ i \in DOMAIN more /\ t.ready[i] = more[i]
            \/ t.ready[i].kind = "write" /\ t.ready[i].error = c.reset
       /\ t.ready # <<>>
  <2> DEFINE q == Append(more, w1)
  <2>1. /\ w1 \in ReadEnds \cup WriteEnds \cup Reports /\ w1.kind = "write"
        /\ w2 \in ReadEnds \cup WriteEnds \cup Reports /\ w2.kind = "write"
    BY DEF WriteEnds
  <2>2. /\ Len(more) \in Nat /\ DOMAIN more = 1..Len(more)
        /\ q \in AnyEvents /\ DOMAIN q = 1..(Len(more) + 1) /\ q[Len(more) + 1] = w1
        /\ Len(q) = Len(more) + 1
        /\ \A i \in 1..Len(more) : q[i] = more[i]
    BY <1>2, <2>1, AppendProperties, LenProperties DEF AnyEvents
  <2>3. t.ready = Append(q, w2)  BY <1>8
  <2> HIDE DEF q
  <2>4. /\ DOMAIN t.ready = 1..(Len(q) + 1)
        /\ Len(t.ready) = Len(q) + 1 /\ t.ready[Len(q) + 1] = w2
        /\ \A i \in 1..Len(q) : t.ready[i] = q[i]
    BY <2>1, <2>2, <2>3, AppendProperties, LenProperties DEF AnyEvents
  <2>5. t.ready # <<>>
    <3>1. Len(<<>>) = 0  BY EmptySeq
    <3> QED  BY <2>2, <2>4, <3>1
  <2>6. ASSUME NEW i \in DOMAIN t.ready
        PROVE  (i \in DOMAIN more /\ t.ready[i] = more[i]) \/ t.ready[i] \in {w1, w2}
    <3>1. t.ready[i] = w2 \/ (i \in DOMAIN q /\ t.ready[i] = q[i])
      BY <2>2, <2>4, <2>6
    <3>2. i \in DOMAIN q => q[i] = w1 \/ (i \in DOMAIN more /\ q[i] = more[i])
      BY <2>2
    <3> QED  BY <3>1, <3>2
  <2> QED  BY <1>8, <2>1, <2>5, <2>6
<1>11. \A j \in DOMAIN c.done : j # 1 => c.eof /\ c.done[j] = ReadFailed
  BY <1>1 DEF Taken
<1>12. Direct(t, read)  BY <1>7
<1>13. Aligned(t)  BY <1>1, <1>9 DEF Aligned
<1>14. Arrived(t, asked)  BY <1>9 DEF Arrived
<1>15. Taken(t, asked)
  <2>1. DOMAIN <<>> = {}  OBVIOUS
  <2> QED  BY <1>9, <2>1 DEF Taken
<1>16. Present(t)
  <2> SUFFICES ASSUME ~c.eof  PROVE Present(t)
    BY <1>9 DEF Present
  <2>1. c.reset = FALSE  BY <1>1 DEF Present
  <2>2. \A i \in DOMAIN c.ready : WriteDone(c.ready[i])
    BY <1>1 DEF Present
  <2>3. \A i \in DOMAIN t.ready : WriteDone(t.ready[i])
    BY <1>2, <1>10, <1>11, <2>1, <2>2 DEF WriteDone
  <2> QED  BY <1>1, <1>9, <1>10, <2>3 DEF Present
<1>17. Ended(t)
  <2>1. "write" # "read"  OBVIOUS
  <2> QED  BY <1>1, <1>2, <1>10, <1>11, <2>1 DEF Ended
<1>18. Awaited(t, asked)
  BY <1>4, <1>9 DEF Awaited, Underway
<1>19. Calm(t, read, asked)
  BY <1>12, <1>13, <1>14, <1>15, <1>16, <1>17, <1>18 DEF Calm
<1> QED  BY <1>4, <1>9, <1>19 DEF t, f, e

\* The session starts: the first prompt is written and the first read is started.
LEMMA CalmStart ==
    ASSUME SendRoom >= ReplyLength + 2,
           NEW c, NEW read \in Speech, NEW asked, Calm(c, read, asked),
           Unstarted(c), c.started = FALSE, Sound(c, read, 0, <<>>)
    PROVE  LET t == DoStart([c EXCEPT !.started = TRUE])
           IN  /\ Calm(t, read, asked) /\ t.eof = c.eof /\ t.heard = c.heard
               /\ c.eof => t.outbox = c.outbox
<1> DEFINE d == [c EXCEPT !.started = TRUE]
           f == Assign(d, Prompt)
           w == AsyncWrite(f)
           t == AsyncReadUntil(w)
<1>1. /\ Direct(c, read) /\ Aligned(c) /\ Arrived(c, asked) /\ Present(c) /\ Awaited(c, asked)
      /\ c.inbox = <<>> /\ c \in Sessions
  BY DEF Calm, Arrived, Sound, Wf
<1>2. /\ c.ready = <<>> /\ c.reads = <<>> /\ c.writes = <<>> /\ c.done = <<>>
      /\ c.trying = "none"
  BY DEF Unstarted
<1>3. DoStart(d) = t
  BY DEF DoStart, DoRead, DoPrompt, DoWrite
<1>4. d \in Sessions  BY <1>1, Setting
<1>5. /\ d.started = TRUE /\ d.crashed = c.crashed
      /\ d.buf = c.buf /\ d.reads = <<>> /\ d.writes = <<>>
      /\ d.reported = c.reported /\ d.inbox = <<>> /\ d.room = c.room
      /\ d.outbox = c.outbox /\ d.words = c.words /\ d.eof = c.eof /\ d.heard = c.heard
      /\ d.trying = "none" /\ d.done = <<>> /\ d.ready = <<>>
      /\ d.news = c.news /\ d.reset = c.reset /\ d.ended = c.ended
  BY <1>1, <1>2 DEF Sessions
<1> HIDE DEF d
<1>6. Direct(d, read)
  BY <1>1, <1>2, <1>5 DEF Direct, Spoken
<1>7. Prompt \in Texts /\ Length(Prompt) = 2
  BY Lengths DEF Length
<1>8. /\ f \in Sessions /\ Alike(d, f) /\ f.heard = d.heard /\ f.buf = d.buf
      /\ f.reads = d.reads /\ f.ready = d.ready /\ f.outbox = d.outbox
      /\ f.words = d.words /\ Direct(f, read)
      /\ \A i \in 1..Length(Prompt) : f.reply[i] = Prompt
  BY <1>4, <1>6, <1>7, CalmAssign
<1> HIDE DEF f
<1>9. ~f.eof => Len(f.outbox) + Length(Prompt) <= SendRoom
  <2>1. Len(read \o c.outbox) = 0
    <3> DEFINE k == Len(read \o c.outbox)
    <3>1. k \in Nat
      <4>1. c.outbox \in Speech  BY <1>1, Fields
      <4> QED  BY <4>1, ConcatProperties, LenProperties DEF Speech
    <3>2. Len(c.words) = 0
      <4>1. Len(<<>>) = 0  BY EmptySeq
      <4> QED  BY <4>1 DEF Sound, Spells, Scripted
    <3>3. \A i \in 1..k : (read \o c.outbox)[i].at \in 1..0
      BY <3>2 DEF Sound, Spells, Said, Belongs, Spoken
    <3> HIDE DEF k
    <3>4. 1 \notin 1..k  BY <3>3
    <3> QED  BY <3>1, <3>4 DEF k
  <2> DEFINE m == Len(read)
             k == Len(c.outbox)
  <2>2. Len(read \o c.outbox) = m + k /\ m \in Nat /\ k \in Nat
    BY <1>1, Fields, ConcatProperties, LenProperties DEF Speech
  <2> HIDE DEF m, k
  <2>3. k = 0  BY <2>1, <2>2
  <2>4. SendRoom \in Nat /\ ReplyLength \in Nat  BY SessionAssumption
  <2>5. Len(f.outbox) = 0  BY <1>5, <1>8, <2>3 DEF k
  <2> QED  BY <1>7, <2>4, <2>5
<1>10. /\ w \in Sessions /\ Alike(f, w) /\ w.heard = f.heard /\ w.buf = f.buf
       /\ w.reads = f.reads /\ Direct(w, read)
       /\ IF f.eof THEN w.outbox = f.outbox
                   ELSE Len(w.outbox) = Len(f.outbox) + Length(Prompt)
       /\ \E e \in WriteEnds : e.error = f.reset /\ w.ready = Append(f.ready, e)
  BY <1>7, <1>8, <1>9, CalmWrite
<1> HIDE DEF w, t
<1>11. PICK e \in WriteEnds : e.error = c.reset /\ w.ready = Append(<<>>, e)
  BY <1>5, <1>8, <1>10 DEF Alike
<1>a. /\ w.started = TRUE /\ w.crashed = c.crashed /\ w.writes = <<>>
      /\ w.reported = c.reported /\ w.inbox = <<>> /\ w.room = c.room
      /\ w.eof = c.eof /\ w.heard = c.heard
      /\ w.trying = "none" /\ w.done = <<>>
      /\ w.news = c.news /\ w.reset = c.reset /\ w.ended = c.ended
      /\ w.buf = c.buf /\ w.reads = <<>>
  BY <1>5, <1>8, <1>10 DEF Alike
<1>b. c.eof => w.outbox = c.outbox
  <2>1. f.eof = c.eof /\ f.outbox = c.outbox  BY <1>5, <1>8 DEF Alike
  <2> QED  BY <1>10, <2>1
<1>c. e.kind = "write" /\ (~c.reset => WriteDone(e))
  <2>1. c.reset \in BOOLEAN /\ e.kind = "write"  BY <1>1, Fields DEF WriteEnds
  <2> QED  BY <1>11, <2>1 DEF WriteDone
<1>12. w.buf.get = w.buf.put  BY <1>1, <1>a DEF Aligned
<1>13. /\ Alike(w, t) /\ t.heard = w.heard /\ t.outbox = w.outbox /\ t.words = w.words
       /\ t.buf.get = 0 /\ t.buf.put = 0 /\ t.buf.cap >= MinRead
       /\ \/ /\ w.reads = <<>> /\ w.eof /\ w.inbox = <<>>
             /\ t.reads = w.reads /\ t.ready = Append(w.ready, ReadFailed)
          \/ /\ ~(w.reads = <<>> /\ w.eof) /\ t.ready = w.ready
             /\ \E op \in ReadOps : /\ t.reads = Append(w.reads, op)
                                    /\ op.base = 0 /\ op.pos = 0 /\ op.n >= MinRead
                                    /\ op.block = t.buf.block
  BY <1>10, <1>12, <1>a, CalmRead DEF t
<1>14. /\ t.started = TRUE /\ t.crashed = c.crashed /\ t.writes = <<>>
       /\ t.reported = c.reported /\ t.inbox = <<>> /\ t.room = c.room
       /\ t.eof = c.eof /\ t.heard = c.heard
       /\ t.trying = "none" /\ t.done = <<>>
       /\ t.news = c.news /\ t.reset = c.reset /\ t.ended = c.ended
       /\ t.buf.get = 0 /\ t.buf.put = 0 /\ t.buf.cap >= MinRead
       /\ t.outbox = w.outbox /\ t.words = w.words
  BY <1>13, <1>a DEF Alike
<1>15. /\ \A i \in DOMAIN t.reads :
            /\ t.reads[i].base = 0 /\ t.reads[i].pos = 0 /\ t.reads[i].n >= MinRead
            /\ t.reads[i].block = t.buf.block
       /\ c.eof \/ t.reads # <<>>
  <2>1. CASE t.reads = <<>> /\ c.eof
    <3>1. DOMAIN <<>> = {}  OBVIOUS
    <3> QED  BY <2>1, <3>1
  <2>2. ASSUME NEW op \in ReadOps, t.reads = Append(<<>>, op),
               op.base = 0, op.pos = 0, op.n >= MinRead, op.block = t.buf.block
        PROVE  /\ \A i \in DOMAIN t.reads :
                    /\ t.reads[i].base = 0 /\ t.reads[i].pos = 0 /\ t.reads[i].n >= MinRead
                    /\ t.reads[i].block = t.buf.block
               /\ t.reads # <<>>
    <3>1. Len(<<>>) = 0 /\ <<>> \in Seq(ReadOps)  BY EmptySeq
    <3>2. Len(t.reads) = 1 /\ DOMAIN t.reads = 1..1 /\ t.reads[1] = op
      <4>1. t.reads \in Seq(ReadOps) /\ Len(t.reads) = Len(<<>>) + 1 /\ t.reads[Len(<<>>) + 1] = op
        BY <2>2, <3>1, AppendProperties
      <4> QED  BY <3>1, <4>1, LenProperties
    <3>4. t.reads # <<>>  BY <3>1, <3>2
    <3>5. \A i \in DOMAIN t.reads : t.reads[i] = op  BY <3>2
    <3> QED  BY <2>2, <3>4, <3>5
  <2> QED  BY <1>13, <1>a, <2>1, <2>2
<1>16. \A i \in DOMAIN t.ready : t.ready[i] = e \/ (c.eof /\ t.ready[i] = ReadFailed)
  <2> DEFINE q == Append(<<>>, e)
  <2>1. <<>> \in AnyEvents /\ Len(<<>>) = 0 /\ e \in ReadEnds \cup WriteEnds \cup Reports
    BY EmptySeq DEF AnyEvents
  <2>2. q \in AnyEvents /\ Len(q) = 1 /\ DOMAIN q = 1..1 /\ q[1] = e
    <3>1. q \in AnyEvents /\ Len(q) = Len(<<>>) + 1 /\ q[Len(<<>>) + 1] = e
      BY <2>1, AppendProperties DEF AnyEvents
    <3> QED  BY <2>1, <3>1, LenProperties DEF AnyEvents
  <2> HIDE DEF q
  <2>3. CASE t.ready = q
    BY <2>2, <2>3
  <2>4. CASE c.eof /\ t.ready = Append(q, ReadFailed)
    <3>1. ReadFailed \in ReadEnds \cup WriteEnds \cup Reports  BY DEF ReadFailed, ReadEnds
    <3>2. /\ DOMAIN t.ready = 1..(Len(q) + 1) /\ t.ready[Len(q) + 1] = ReadFailed
          /\ \A i \in 1..Len(q) : t.ready[i] = q[i]
      <4>1. /\ Append(q, ReadFailed) \in AnyEvents
            /\ Len(Append(q, ReadFailed)) = Len(q) + 1
            /\ Append(q, ReadFailed)[Len(q) + 1] = ReadFailed
            /\ \A i \in 1..Len(q) : Append(q, ReadFailed)[i] = q[i]
        <5>1. q \in AnyEvents  BY <2>2
        <5> QED  BY <3>1, <5>1, AppendProperties DEF AnyEvents
      <4>2. DOMAIN t.ready = 1..Len(t.ready)
        BY <2>4, <4>1, LenProperties DEF AnyEvents
      <4> QED  BY <2>4, <4>1, <4>2
    <3> QED  BY <2>2, <2>4, <3>2
  <2>5. w.ready = q /\ w.eof = c.eof  BY <1>11, <1>a DEF q
  <2> QED  BY <1>13, <2>3, <2>4, <2>5
<1>17. Direct(t, read)  BY <1>10, <1>14, <1>a DEF Direct, Spoken
<1>18. Aligned(t)  BY <1>14, <1>15 DEF Aligned
<1>19. Arrived(t, asked)  BY <1>14 DEF Arrived
<1>20. Taken(t, asked)
  <2>1. DOMAIN <<>> = {}  OBVIOUS
  <2> QED  BY <1>14, <2>1 DEF Taken
<1>21. Present(t)
  <2> SUFFICES ASSUME ~c.eof  PROVE Present(t)
    BY <1>14 DEF Present
  <2>1. \A i \in DOMAIN t.ready : WriteDone(t.ready[i])
    BY <1>1, <1>16, <1>c DEF Present
  <2> QED  BY <1>1, <1>14, <1>15, <2>1 DEF Present
<1>22. Ended(t)
  BY <1>16, <1>c DEF Ended
<1>23. Awaited(t, asked)  BY <1>1, <1>14 DEF Awaited
<1>24. Calm(t, read, asked)
  BY <1>17, <1>18, <1>19, <1>20, <1>21, <1>22, <1>23 DEF Calm
<1> QED  BY <1>3, <1>14, <1>24, <1>b DEF d, t

\* The client leaves, and its host may refuse what it is still sent.
LEMMA CalmLeaving ==
    ASSUME NEW c \in Sessions, NEW read, NEW asked, Calm(c, read, asked)
    PROVE  Calm([c EXCEPT !.eof = TRUE, !.news = TRUE, !.room = c.writes # <<>>], read, asked)
<1> DEFINE t == [c EXCEPT !.eof = TRUE, !.news = TRUE, !.room = c.writes # <<>>]
<1>1. /\ Direct(c, read) /\ Aligned(c) /\ Arrived(c, asked) /\ Taken(c, asked) /\ Ended(c)
      /\ Awaited(c, asked) /\ c.writes = <<>>
  BY DEF Calm, Direct
<1>2. /\ t.started = c.started /\ t.crashed = c.crashed /\ t.writes = <<>>
      /\ t.reported = c.reported /\ t.inbox = c.inbox /\ t.room = FALSE
      /\ t.outbox = c.outbox /\ t.words = c.words /\ t.eof = TRUE /\ t.heard = c.heard
      /\ t.trying = c.trying /\ t.done = c.done /\ t.reset = c.reset
      /\ t.buf = c.buf /\ t.reads = c.reads /\ t.ready = c.ready
  BY <1>1 DEF Sessions
<1> HIDE DEF t
<1>3. Direct(t, read)  BY <1>1, <1>2 DEF Direct, Spoken
<1>4. Aligned(t)  BY <1>1, <1>2 DEF Aligned
<1>5. \A text : Underway(c, asked, text) => Underway(t, asked, text)
  BY <1>2 DEF Underway
<1>6. Arrived(t, asked)  BY <1>1, <1>2, <1>5 DEF Arrived
<1>7. Taken(t, asked)  BY <1>1, <1>2, <1>5 DEF Taken
<1>8. Present(t)  BY <1>2 DEF Present
<1>9. Ended(t)  BY <1>1, <1>2 DEF Ended
<1>10. Awaited(t, asked)  BY <1>1, <1>2 DEF Awaited
<1>11. Calm(t, read, asked)
  BY <1>3, <1>4, <1>6, <1>7, <1>8, <1>9, <1>10 DEF Calm
<1> QED  BY <1>11 DEF t

LEMMA CalmResetting ==
    ASSUME NEW c \in Sessions, NEW read, NEW asked, Calm(c, read, asked), c.eof
    PROVE  StaysCalm(c, [c EXCEPT !.reset = TRUE, !.inbox = <<>>, !.news = TRUE], read, asked)
<1> DEFINE t == [c EXCEPT !.reset = TRUE, !.inbox = <<>>, !.news = TRUE]
<1>1. /\ Direct(c, read) /\ Aligned(c) /\ Taken(c, asked) /\ Ended(c) /\ Awaited(c, asked)
  BY DEF Calm
<1>2. /\ t.started = c.started /\ t.crashed = c.crashed /\ t.writes = c.writes
      /\ t.reported = c.reported /\ t.inbox = <<>> /\ t.room = c.room
      /\ t.outbox = c.outbox /\ t.words = c.words /\ t.eof = c.eof /\ t.heard = c.heard
      /\ t.trying = c.trying /\ t.done = c.done
      /\ t.buf = c.buf /\ t.reads = c.reads /\ t.ready = c.ready
  BY DEF Sessions
<1> HIDE DEF t
<1>3. Direct(t, read)  BY <1>1, <1>2 DEF Direct, Spoken
<1>4. Aligned(t)  BY <1>1, <1>2 DEF Aligned
<1>5. Arrived(t, asked)  BY <1>2 DEF Arrived
<1>6. Taken(t, asked)  BY <1>1, <1>2 DEF Taken, Underway
<1>7. Present(t)  BY <1>2 DEF Present
<1>8. Ended(t)  BY <1>1, <1>2 DEF Ended
<1>9. Awaited(t, asked)  BY <1>1, <1>2 DEF Awaited
<1>10. Calm(t, read, asked)
  BY <1>3, <1>4, <1>5, <1>6, <1>7, <1>8, <1>9 DEF Calm
<1>11. StaysCalm(c, t, read, asked)
  BY <1>2, <1>10 DEF StaysCalm
<1> QED  BY <1>11 DEF t

\* The words written are those of the dialogue of what was executed.
LEMMA Wording ==
    ASSUME NEW c, NEW read, Kept(c, read), NEW at \in 1..Len(c.words)
    PROVE  /\ c.started /\ c.heard \in Seq(Seq(Characters)) /\ Len(c.heard) \in Nat
           /\ Len(c.words) = 2 * Len(c.heard) + 1
           /\ c.words[at].text = Dialogue(c.heard)[at]
           /\ c.words[at].text = Prompt <=> at % 2 = 1
<1>1. c \in Sessions  BY DEF Kept, Sound, Wf
<1>2. c.heard \in Seq(Seq(Characters)) /\ Len(c.heard) \in Nat /\ c.started \in BOOLEAN
  BY <1>1, Fields, LenProperties
<1>3. c.started
  <2> SUFFICES ASSUME ~c.started  PROVE FALSE
    BY <1>2
  <2>1. Len(c.words) = Len(<<>>)  BY DEF Kept, Sound, Spells, Scripted
  <2>2. Len(<<>>) = 0  BY EmptySeq
  <2> QED  BY <2>1, <2>2
<1>4. Scripted(c, Dialogue(c.heard))  BY <1>3 DEF Kept, Sound, Spells
<1>5. /\ Len(Dialogue(c.heard)) = 2 * Len(c.heard) + 1
      /\ \A i \in 1..(2 * Len(c.heard) + 1) :
            Dialogue(c.heard)[i] = IF i % 2 = 1 THEN Prompt ELSE Execute(c.heard[i \div 2])
  BY <1>2, Dialogues
<1>6. /\ Len(c.words) = 2 * Len(c.heard) + 1 /\ at \in 1..(2 * Len(c.heard) + 1)
      /\ c.words[at].text = Dialogue(c.heard)[at]
  BY <1>4, <1>5 DEF Scripted
<1>7. Execute(c.heard[at \div 2]) # Prompt  BY Answering
<1> QED  BY <1>2, <1>3, <1>5, <1>6, <1>7

\* What is on the wire: what has been read, and then what the socket holds.
LEMMA OnWire ==
    ASSUME NEW c \in Sessions, NEW read \in Speech
    PROVE  LET wire == Spoken(c, read)
               a    == Len(read)
               o    == Len(c.outbox)
           IN  /\ wire \in Speech /\ Len(wire) = a + o /\ a \in Nat /\ o \in Nat
               /\ \A i \in 1..a : wire[i] = read[i]
               /\ \A i \in 1..o : wire[a + i] = c.outbox[i]
<1> DEFINE a == Len(read)
           o == Len(c.outbox)
           wire == Spoken(c, read)
<1>1. c.outbox \in Speech  BY Fields
<1>2. /\ wire \in Speech /\ Len(wire) = a + o /\ a \in Nat /\ o \in Nat
      /\ \A i \in 1..(a + o) : wire[i] = IF i <= a THEN read[i] ELSE c.outbox[i - a]
  BY <1>1, ConcatProperties, LenProperties DEF Speech, Spoken
<1> HIDE DEF a, o, wire
<1>3. \A i \in 1..a : wire[i] = read[i]  BY <1>2
<1>4. \A i \in 1..o : wire[a + i] = c.outbox[i]
  <2> SUFFICES ASSUME NEW i \in 1..o  PROVE wire[a + i] = c.outbox[i]
    OBVIOUS
  <2>1. a + i \in 1..(a + o) /\ ~(a + i <= a) /\ (a + i) - a = i  BY <1>2
  <2> QED  BY <1>2, <2>1
<1> QED  BY <1>2, <1>3, <1>4 DEF a, o, wire

\* A prompt for one command more than it has sent means that all of them are
\* executed and that everything said has been read.
LEMMA Prompted ==
    ASSUME NEW c, NEW read \in Speech, NEW asked, Kept(c, read), Direct(c, read),
           Awaited(c, asked), ~c.eof, Heeded(read) > Len(asked)
    PROVE  c.started /\ asked = c.heard /\ c.outbox = <<>>
<1> DEFINE a == Len(read)
           o == Len(c.outbox)
           h == Len(c.heard)
           l == Len(asked)
           u == read[a]
           more == IF Over(u) THEN 1 ELSE 0
           wire == Spoken(c, read)
<1>1. c \in Sessions  BY DEF Kept, Sound, Wf
<1>2. /\ c.outbox \in Speech /\ c.heard \in Seq(Seq(Characters)) /\ h \in Nat
  BY <1>1, Fields, LenProperties
<1>3. /\ Len(wire) = a + o /\ a \in Nat /\ o \in Nat
      /\ \A i \in 1..a : wire[i] = read[i]
  BY <1>1, OnWire
<1>4. asked = c.heard \/ l = h + 1
  <2>1. CASE asked = c.heard
    BY <2>1
  <2>2. ASSUME NEW text \in Lines, asked = Append(c.heard, text)  PROVE l = h + 1
    <3>1. text \in Seq(Characters)  BY LineOK
    <3> QED  BY <1>2, <2>2, <3>1, AppendProperties
  <2> QED  BY <2>1, <2>2 DEF Awaited
<1>5. (l = h \/ l = h + 1) /\ l \in Nat
  <2> HIDE DEF l
  <2>1. l = h \/ l = h + 1  BY <1>4 DEF l
  <2> QED  BY <1>2, <2>1
<1>6. read # <<>>
  <2>1. read = <<>> => Heeded(read) = 0  BY DEF Heeded
  <2> HIDE DEF l
  <2>2. Heeded(read) > l  BY DEF l
  <2> QED  BY <1>5, <2>1, <2>2
<1>7. a >= 1
  <2>1. a # 0  BY <1>6, EmptySeq DEF Speech
  <2> HIDE DEF a
  <2> QED  BY <1>3, <2>1
<1>8. \A i \in 1..(a + o) :
        /\ i # 1 => IsNext(wire[i - 1], wire[i])
        /\ wire[i].at \in 1..Len(c.words)
  <2> HIDE DEF wire, a, o
  <2>1. Len(wire) = a + o  BY <1>3
  <2> QED  BY <2>1 DEF Direct, InTurn, wire
<1>9. Heeded(read) = (u.at + more) \div 2 /\ more \in {0, 1}
  BY <1>6 DEF Heeded
<1> HIDE DEF a, o, wire, u, more, l, h
<1>10. u.at \in 1..Len(c.words) /\ wire[a] = u
  <2>1. a \in 1..(a + o) /\ a \in 1..a  BY <1>3, <1>7
  <2> QED  BY <1>3, <1>8, <2>1 DEF u
<1>11. c.started /\ Len(c.words) = 2 * h + 1
  BY <1>10, Wording DEF h
<1>12. (u.at + more) \div 2 > l
  BY <1>9 DEF l
<1>13. u.at = 2 * h + 1 /\ more = 1 /\ l = h
  <2>1. u.at \in 1..(2 * h + 1)  BY <1>10, <1>11
  <2>2. (u.at + more) \div 2 >= h + 1  BY <1>2, <1>5, <1>9, <1>12, <2>1
  <2>3. u.at + more >= 2 * h + 2  BY <1>2, <1>9, <2>1, <2>2
  <2>4. more = 0 \/ more = 1  BY <1>9
  <2>5. u.at = 2 * h + 1 /\ more = 1
    <3>1. u.at \in Int /\ u.at <= 2 * h + 1  BY <1>2, <2>1
    <3>2. more # 0
      <4> SUFFICES ASSUME more = 0  PROVE FALSE
        OBVIOUS
      <4>1. u.at + 0 >= 2 * h + 2  BY <2>3
      <4>2. u.at >= 2 * h + 2  BY <1>2, <3>1, <4>1
      <4> QED  BY <1>2, <3>1, <4>2
    <3>3. more = 1  BY <2>4, <3>2
    <3>4. u.at + 1 >= 2 * h + 2  BY <2>3, <3>3
    <3>5. \A x, n \in Int : x <= 2 * n + 1 /\ x + 1 >= 2 * n + 2 => x = 2 * n + 1
      OBVIOUS
    <3>6. h \in Int  BY <1>2
    <3>7. u.at = 2 * h + 1
      <4> HIDE DEF h, u
      <4> QED  BY <3>1, <3>4, <3>5, <3>6
    <3> QED  BY <3>3, <3>7
  <2>6. (2 * h + 1 + 1) \div 2 = h + 1  BY <1>2
  <2> QED  BY <1>2, <1>5, <1>12, <2>5, <2>6
<1>14. Over(u)  BY <1>13 DEF more
<1>15. o = 0
  <2> SUFFICES ASSUME o # 0  PROVE FALSE
    OBVIOUS
  <2>1. a + 1 \in 1..(a + o) /\ a + 1 # 1 /\ (a + 1) - 1 = a  BY <1>3, <1>7
  <2>2. IsNext(u, wire[a + 1]) /\ wire[a + 1].at \in 1..Len(c.words)
    BY <1>8, <1>10, <2>1
  <2>3. wire[a + 1].at = u.at + 1
    BY <1>14, <2>2 DEF IsNext, Over
  <2> QED  BY <1>2, <1>11, <1>13, <2>2, <2>3
<1>16. asked = c.heard
  BY <1>2, <1>4, <1>13
<1>17. c.outbox = <<>>
  BY <1>2, <1>15, EmptySeq DEF o, Speech
<1> QED  BY <1>11, <1>16, <1>17

\* The client sends a command: nothing else is on its way to the session.
LEMMA CalmSent ==
    ASSUME NEW c, NEW read \in Speech, NEW asked, Kept(c, read), Calm(c, read, asked),
           ~c.eof, Heeded(read) > Len(asked), NEW text \in Lines
    PROVE  Calm([c EXCEPT !.inbox = @ \o Append(text, Newline), !.news = TRUE],
                read, Append(asked, text))
<1> DEFINE line == Append(text, Newline)
           t == [c EXCEPT !.inbox = @ \o line, !.news = TRUE]
           more == Append(asked, text)
<1>1. /\ Direct(c, read) /\ Aligned(c) /\ Arrived(c, asked) /\ Taken(c, asked)
      /\ Present(c) /\ Ended(c) /\ Awaited(c, asked)
  BY DEF Calm
<1>2. c.started /\ asked = c.heard /\ c.outbox = <<>>
  BY <1>1, Prompted
<1>3. c \in Sessions /\ c.heard \in Seq(Seq(Characters)) /\ c.inbox \in Seq(Characters)
  <2>1. c \in Sessions  BY DEF Kept, Sound, Wf
  <2> QED  BY <2>1, Fields
<1>4. \A x : ~Underway(c, asked, x) \/ x \notin Lines
  <2>1. ASSUME NEW x \in Lines  PROVE Append(c.heard, x) # c.heard
    <3> DEFINE n == Len(c.heard)
    <3>1. x \in Seq(Characters)  BY LineOK
    <3>2. Len(Append(c.heard, x)) = n + 1 /\ n \in Nat
      BY <1>3, <3>1, AppendProperties, LenProperties
    <3> QED  BY <3>2
  <2> QED  BY <1>2, <2>1 DEF Underway
<1>5. c.inbox = <<>>  BY <1>1, <1>4 DEF Arrived
<1>6. c.done = <<>>
  <2>1. \A i \in DOMAIN c.done : FALSE  BY <1>1, <1>4 DEF Taken
  <2>2. c.done # <<>> => 1 \in DOMAIN c.done  BY <1>3, Joined
  <2> QED  BY <2>1, <2>2
<1>7. c.trying = "none"  BY <1>1, <1>5, <1>6 DEF Present
<1>8. /\ t.started = c.started /\ t.crashed = c.crashed /\ t.writes = c.writes
      /\ t.reported = c.reported /\ t.inbox = line /\ t.room = c.room
      /\ t.outbox = c.outbox /\ t.words = c.words /\ t.eof = c.eof /\ t.heard = c.heard
      /\ t.trying = c.trying /\ t.done = c.done /\ t.news = TRUE
      /\ t.reset = c.reset /\ t.ended = c.ended
      /\ t.buf = c.buf /\ t.reads = c.reads /\ t.ready = c.ready
  <2>1. <<>> \o line = line  OBVIOUS
  <2> HIDE DEF line
  <2>2. t = [c EXCEPT !.inbox = line, !.news = TRUE]
    BY <1>5, <2>1
  <2> QED  BY <1>3, <2>2 DEF Sessions
<1>9. line # <<>> /\ line \in Seq(Characters)  BY LineOK
<1>10. Underway(t, more, text)  BY <1>2, <1>8 DEF Underway
<1>11. \A i \in DOMAIN c.ready : WriteDone(c.ready[i])
  BY <1>1, <1>5 DEF Present
<1>12. c.buf.put # 0 => c.ready # <<>> /\ WriteDone(c.ready[1])
  <2>1. c.ready # <<>> => 1 \in DOMAIN c.ready  BY <1>3, Queue
  <2> QED  BY <1>1, <1>5, <1>11, <2>1 DEF Present
<1>13. /\ c.reads # <<>> /\ c.reset = FALSE /\ c.ended = 0 /\ "in" \notin c.reported
  BY <1>1, <1>2, <1>5 DEF Present
<1> HIDE DEF t, more
<1>14. Direct(t, read)  BY <1>1, <1>8 DEF Direct, Spoken
<1>15. Aligned(t)  BY <1>1, <1>8 DEF Aligned
<1>16. Arrived(t, more)
  <2>1. \E x \in Lines : t.inbox = Append(x, Newline) /\ Underway(t, more, x)
    BY <1>8, <1>10
  <2> HIDE DEF line
  <2>2. t.started /\ t.reads # <<>> /\ t.done = <<>> /\ t.reset = FALSE /\ t.trying # "in"
    BY <1>2, <1>6, <1>7, <1>8, <1>13
  <2>3. t.buf.put # 0 => t.ready # <<>> /\ WriteDone(t.ready[1])
    BY <1>8, <1>12
  <2>4. \A i \in DOMAIN t.ready : WriteDone(t.ready[i])
    BY <1>8, <1>11
  <2> QED  BY <2>1, <2>2, <2>3, <2>4 DEF Arrived
<1>17. Taken(t, more)
  <2>1. DOMAIN <<>> = {}  OBVIOUS
  <2> QED  BY <1>6, <1>8, <2>1 DEF Taken
<1>18. Present(t)
  <2> HIDE DEF line
  <2> QED  BY <1>2, <1>7, <1>8, <1>9, <1>13 DEF Present
<1>19. Ended(t)  BY <1>1, <1>8 DEF Ended
<1>20. Awaited(t, more)  BY <1>2, <1>8 DEF Awaited, more
<1>21. Calm(t, read, more)
  BY <1>14, <1>15, <1>16, <1>17, <1>18, <1>19, <1>20 DEF Calm
<1> QED  BY <1>21 DEF t, more

\* How many prompts have been read to their end.
PromptsIn(read) == Cardinality({i \in DOMAIN read : read[i].word = Prompt /\ read[i].byte = 2})

LEMMA OneMore ==
    ASSUME NEW read \in Speech, NEW w \in Bytes
    PROVE  /\ PromptsIn(Append(read, w))
                = PromptsIn(read) + (IF w.word = Prompt /\ w.byte = 2 THEN 1 ELSE 0)
           /\ PromptsIn(read) \in Nat
<1> DEFINE n == Len(read)
           longer == Append(read, w)
           Closes(b) == b.word = Prompt /\ b.byte = 2
           old == {i \in 1..n : Closes(read[i])}
           new == {i \in 1..(n + 1) : Closes(longer[i])}
<1>1. /\ n \in Nat /\ DOMAIN read = 1..n /\ DOMAIN longer = 1..(n + 1)
      /\ longer[n + 1] = w /\ \A i \in 1..n : longer[i] = read[i]
  BY AppendProperties, LenProperties DEF Speech
<1> HIDE DEF longer, n
<1>2. PromptsIn(read) = Cardinality(old) /\ PromptsIn(longer) = Cardinality(new)
  BY <1>1 DEF PromptsIn
<1> HIDE DEF Closes
<1>3. IsFiniteSet(old) /\ Cardinality(old) \in Nat
  <2>1. IsFiniteSet(1..n)  BY <1>1, FS_Interval
  <2>2. IsFiniteSet(old)  BY <2>1, FS_Subset
  <2> QED  BY <2>2, FS_CardinalityType
<1>4. n + 1 \notin old  BY <1>1
<1>5. CASE Closes(w)
  <2>1. new = old \cup {n + 1}  BY <1>1, <1>5
  <2>2. Cardinality(new) = Cardinality(old) + 1  BY <1>3, <1>4, <2>1, FS_AddElement
  <2> QED  BY <1>2, <1>3, <1>5, <2>2 DEF longer, Closes
<1>6. CASE ~Closes(w)
  <2>1. new = old  BY <1>1, <1>6
  <2> HIDE DEF new, old
  <2> QED  BY <1>2, <1>3, <1>6, <2>1 DEF longer, Closes
<1> QED  BY <1>5, <1>6

\* The last byte that has been read still tells how many prompts have been.
LEMMA StillHeeded ==
    ASSUME NEW c, NEW read \in Speech, Kept(c, read), Direct(c, read), c.outbox # <<>>,
           PromptsIn(read) = Heeded(read)
    PROVE  LET more == Append(read, Head(c.outbox))
           IN  PromptsIn(more) = Heeded(more)
<1> DEFINE q == c.outbox
           w == Head(q)
           a == Len(read)
           o == Len(q)
           u == read[a]
           more == Append(read, w)
           wire == Spoken(c, read)
           ends == IF w.word = Prompt /\ w.byte = 2 THEN 1 ELSE 0
<1> SUFFICES PromptsIn(more) = Heeded(more)
  OBVIOUS
<1>1. c \in Sessions /\ q \in Speech
  <2>1. c \in Sessions  BY DEF Kept, Sound, Wf
  <2> QED  BY <2>1, Fields
<1>2. /\ w \in Bytes /\ q[1] = w /\ 1 \in 1..o
  <2>1. q \in Seq(Bytes) /\ q # <<>>  BY <1>1 DEF Speech
  <2> HIDE DEF q
  <2> QED  BY <2>1, FrontOfList, LenProperties
<1>3. /\ Len(wire) = a + o /\ a \in Nat /\ o \in Nat
      /\ \A i \in 1..a : wire[i] = read[i]
      /\ \A i \in 1..o : wire[a + i] = q[i]
  BY <1>1, OnWire
<1>4. \A i \in 1..(a + o) :
        /\ IF i = 1 THEN wire[i].at = 1 /\ wire[i].byte = 1 ELSE IsNext(wire[i - 1], wire[i])
        /\ wire[i].at \in 1..Len(c.words) /\ wire[i].word = c.words[wire[i].at].text
  <2> HIDE DEF wire, a, o
  <2>1. Len(wire) = a + o  BY <1>3
  <2> QED  BY <2>1 DEF Direct, InTurn, wire
<1>5. /\ PromptsIn(more) = PromptsIn(read) + ends /\ PromptsIn(read) \in Nat
  BY <1>2, OneMore
<1>6. Heeded(more) = (w.at + (IF Over(w) THEN 1 ELSE 0)) \div 2
  <2>1. Len(more) = a + 1 /\ more[a + 1] = w
    BY <1>2, AppendProperties DEF Speech
  <2> HIDE DEF more, w
  <2>2. more # <<>>
    <3> HIDE DEF a
    <3> QED  BY <1>3, <2>1, EmptySeq
  <2> QED  BY <2>1, <2>2 DEF Heeded
<1> HIDE DEF more, wire, q, o, w
<1>7. wire[a + 1] = w /\ a + 1 \in 1..(a + o)
  <2> HIDE DEF a
  <2> QED  BY <1>2, <1>3
<1>8. w.at \in 1..Len(c.words) /\ w.word = c.words[w.at].text
  <2> HIDE DEF a
  <2> QED  BY <1>4, <1>7
<1>9. w.at \in Nat /\ (w.word = Prompt <=> w.at % 2 = 1)
  <2>1. Len(c.words) = 2 * Len(c.heard) + 1 /\ Len(c.heard) \in Nat
        /\ (c.words[w.at].text = Prompt <=> w.at % 2 = 1)
    BY <1>8, Wording
  <2> QED  BY <1>8, <2>1
<1>10. /\ Length(w.word) \in Nat /\ Length(w.word) >= 2 /\ (w.word = Prompt => Length(w.word) = 2)
       /\ w.byte \in Nat
  <2>1. w.byte \in Nat  BY <1>2 DEF Bytes
  <2> QED  BY <2>1, Lengths DEF Length
<1>11. CASE read = <<>>
  <2>1. a = 0  BY <1>11, EmptySeq
  <2>2. w.at = 1 /\ w.byte = 1
    <3> HIDE DEF a
    <3> QED  BY <1>4, <1>7, <2>1
  <2>3. ~Over(w)  BY <1>10, <2>2 DEF Over
  <2>4. Heeded(more) = 0  BY <1>6, <2>2, <2>3
  <2>5. PromptsIn(read) = 0  BY <1>11 DEF Heeded
  <2>6. ends = 0  BY <2>2
  <2> HIDE DEF ends
  <2> QED  BY <1>5, <2>4, <2>5, <2>6
<1>12. CASE read # <<>>
  <2>1. a # 0  BY <1>12, EmptySeq DEF Speech
  <2>2. Heeded(read) = (u.at + (IF Over(u) THEN 1 ELSE 0)) \div 2
    BY <1>12 DEF Heeded
  <2>3. u \in Bytes
    <3>1. a \in 1..a
      <4> HIDE DEF a
      <4> QED  BY <1>3, <2>1
    <3> QED  BY <3>1, ElementOfSeq DEF Speech
  <2>4. u.byte \in Nat /\ u.byte >= 1 /\ u.at \in Nat  BY <2>3 DEF Bytes
  <2> HIDE DEF a
  <2>5. a \in 1..a /\ a \in 1..(a + o) /\ a + 1 # 1 /\ (a + 1) - 1 = a
    BY <1>3, <2>1
  <2> HIDE DEF u
  <2>6. wire[a] = u  BY <1>3, <2>5 DEF u
  <2>7. IsNext(u, w)  BY <1>4, <1>7, <2>5, <2>6
  <2>8. u.word = c.words[u.at].text  BY <1>4, <2>5, <2>6
  <2>9. PromptsIn(read) = Heeded(read)  OBVIOUS
  <2>10. CASE Over(u)
    <3>1. w.at = u.at + 1 /\ w.byte = 1  BY <2>7, <2>10 DEF IsNext, Over
    <3>2. ~Over(w)  BY <1>10, <3>1 DEF Over
    <3>3. Heeded(more) = Heeded(read)  BY <1>6, <2>2, <2>4, <2>10, <3>1, <3>2
    <3>4. ends = 0  BY <3>1
    <3> HIDE DEF ends
    <3> QED  BY <1>5, <2>9, <3>3, <3>4
  <2>11. CASE ~Over(u)
    <3>1. w.at = u.at /\ w.byte = u.byte + 1 /\ u.byte < Length(u.word)
      BY <2>7, <2>11 DEF IsNext, Over
    <3>2. w.word = u.word  BY <1>8, <2>8, <3>1
    <3>3. Heeded(read) = w.at \div 2  BY <2>2, <2>4, <2>11, <3>1
    <3>4. CASE w.at % 2 = 1
      <4>1. w.word = Prompt /\ Length(w.word) = 2  BY <1>9, <1>10, <3>4
      <4>2. u.byte < 2  BY <3>1, <3>2, <4>1
      <4>3. w.byte = 2  BY <2>4, <3>1, <4>2
      <4>4. Over(w) /\ ends = 1  BY <4>1, <4>3 DEF Over
      <4>5. (w.at + 1) \div 2 = w.at \div 2 + 1  BY <1>9, <3>4
      <4> HIDE DEF ends
      <4> QED  BY <1>5, <1>6, <2>9, <3>3, <4>4, <4>5
    <3>5. CASE w.at % 2 # 1
      <4>1. ends = 0  BY <1>9, <3>5
      <4>2. (w.at + 1) \div 2 = w.at \div 2 /\ w.at + 0 = w.at  BY <1>9, <3>5
      <4>3. Heeded(more) = w.at \div 2  BY <1>6, <4>2
      <4> HIDE DEF ends
      <4> QED  BY <1>5, <2>9, <3>3, <4>1, <4>3
    <3> QED  BY <3>4, <3>5
  <2> QED  BY <2>10, <2>11
<1> QED  BY <1>11, <1>12

\* The client reads a byte.
LEMMA CalmHearing ==
    ASSUME NEW c, NEW read \in Speech, NEW asked, Kept(c, read), Calm(c, read, asked),
           ~c.eof, c.outbox # <<>>, PromptsIn(read) = Heeded(read)
    PROVE  LET t == [c EXCEPT !.outbox = Tail(@), !.room = c.writes # <<>>]
               more == Append(read, Head(c.outbox))
           IN  Calm(t, more, asked) /\ PromptsIn(more) = Heeded(more)
<1> DEFINE q == c.outbox
           w == Head(q)
           more == Append(read, w)
           t == [c EXCEPT !.outbox = Tail(@), !.room = c.writes # <<>>]
<1>1. /\ Direct(c, read) /\ Aligned(c) /\ Arrived(c, asked) /\ Taken(c, asked)
      /\ Present(c) /\ Ended(c) /\ Awaited(c, asked) /\ c.writes = <<>>
  BY DEF Calm, Direct
<1>2. c \in Sessions /\ q \in Speech
  <2>1. c \in Sessions  BY DEF Kept, Sound, Wf
  <2> QED  BY <2>1, Fields
<1>3. /\ t.started = c.started /\ t.crashed = c.crashed /\ t.writes = c.writes
      /\ t.reported = c.reported /\ t.inbox = c.inbox /\ t.room = FALSE
      /\ t.outbox = Tail(q) /\ t.eof = c.eof /\ t.heard = c.heard
      /\ t.trying = c.trying /\ t.done = c.done /\ t.news = c.news
      /\ t.reset = c.reset /\ t.ended = c.ended /\ t.words = c.words
      /\ t.buf = c.buf /\ t.reads = c.reads /\ t.ready = c.ready
  BY <1>1, <1>2 DEF Sessions
<1> HIDE DEF q, t
<1>4. q # <<>>  BY DEF q
<1>5. Spoken(t, more) = Spoken(c, read)
  <2>1. Append(read, Head(q)) \o Tail(q) = read \o q
    BY <1>2, <1>4, ReadAcross DEF Speech
  <2> QED  BY <1>3, <2>1 DEF Spoken, q
<1>6. \A text : ~Underway(c, asked, text)
  BY <1>4 DEF Underway, q
<1>7. c.inbox = <<>>  BY <1>1, <1>6 DEF Arrived
<1>8. c.done = <<>>
  <2>1. \A i \in DOMAIN c.done : FALSE  BY <1>1, <1>6 DEF Taken
  <2>2. c.done # <<>> => 1 \in DOMAIN c.done  BY <1>2, Joined
  <2> QED  BY <2>1, <2>2
<1> HIDE DEF more
<1>9. Direct(t, more)  BY <1>1, <1>3, <1>5 DEF Direct
<1>10. Aligned(t)  BY <1>1, <1>3 DEF Aligned
<1>11. Arrived(t, asked)  BY <1>3, <1>7 DEF Arrived
<1>12. Taken(t, asked)
  <2>1. DOMAIN <<>> = {}  OBVIOUS
  <2> QED  BY <1>3, <1>8, <2>1 DEF Taken
<1>13. Present(t)  BY <1>1, <1>3 DEF Present
<1>14. Ended(t)  BY <1>1, <1>3 DEF Ended
<1>15. Awaited(t, asked)  BY <1>1, <1>3 DEF Awaited
<1>16. Calm(t, more, asked)
  BY <1>9, <1>10, <1>11, <1>12, <1>13, <1>14, <1>15 DEF Calm
<1>17. PromptsIn(more) = Heeded(more)
  BY <1>1, <1>4, StillHeeded DEF more, q
<1> QED  BY <1>16, <1>17 DEF t, more, q

-----------------------------------------------------------------------------
(* The invariant.                                                          *)

LEMMA PolitelyInitially == Init => PInv
<1> SUFFICES ASSUME Init  PROVE PInv
  OBVIOUS
<1>1. s = New /\ sent = <<>> /\ got = <<>> /\ blanks = 0 /\ partial = FALSE
  BY DEF Init
<1>2. /\ New.started = FALSE /\ New.crashed = FALSE /\ New.reads = <<>> /\ New.writes = <<>>
      /\ New.done = <<>> /\ New.ready = <<>> /\ New.reported = {} /\ New.trying = "none"
      /\ New.inbox = <<>> /\ New.news = FALSE /\ New.outbox = <<>> /\ New.room = FALSE
      /\ New.eof = FALSE /\ New.reset = FALSE /\ New.heard = <<>> /\ New.ended = 0
      /\ New.buf.get = 0 /\ New.buf.put = 0 /\ New.words = <<>>
  BY DEF New, NewBuf
<1> DEFINE c == New
<1> HIDE DEF c
<1>3. /\ c.started = FALSE /\ c.crashed = FALSE /\ c.reads = <<>> /\ c.writes = <<>>
      /\ c.done = <<>> /\ c.ready = <<>> /\ c.reported = {} /\ c.trying = "none"
      /\ c.inbox = <<>> /\ c.news = FALSE /\ c.outbox = <<>> /\ c.room = FALSE
      /\ c.eof = FALSE /\ c.reset = FALSE /\ c.heard = <<>> /\ c.ended = 0
      /\ c.buf.get = 0 /\ c.buf.put = 0 /\ c.words = <<>>
  BY <1>2 DEF c
<1>4. DOMAIN <<>> = {} /\ Len(<<>>) = 0 /\ \A S : <<>> \in Seq(S)
  BY EmptySeq
<1>5. Direct(c, <<>>)
  <2>1. Spoken(c, <<>>) = <<>>  BY <1>3 DEF Spoken
  <2>2. InTurn(c.words, <<>>)  BY <1>4 DEF InTurn
  <2>3. EndsAt(<<>>, Len(c.words))  BY <1>3, <1>4 DEF EndsAt
  <2>4. \A at \in 1..Len(c.words) : c.words[at].taken = Length(c.words[at].text)
    BY <1>3, <1>4
  <2> QED  BY <1>3, <2>1, <2>2, <2>3, <2>4 DEF Direct
<1>6. Aligned(c)  BY <1>3, <1>4 DEF Aligned
<1>7. Arrived(c, <<>>)  BY <1>3 DEF Arrived
<1>8. Taken(c, <<>>)  BY <1>3, <1>4 DEF Taken
<1>9. Present(c)  BY <1>3, <1>4 DEF Present
<1>10. Ended(c)  BY <1>3, <1>4 DEF Ended
<1>11. Awaited(c, <<>>)  BY <1>3 DEF Awaited
<1>12. Calm(s, got, sent)
  BY <1>1, <1>5, <1>6, <1>7, <1>8, <1>9, <1>10, <1>11 DEF Calm, c
<1>13. Prompts = Heeded(got)
  <2>1. {i \in DOMAIN got : got[i].word = Prompt /\ got[i].byte = 2} = {}  BY <1>1, <1>4
  <2>2. Prompts = 0  BY <2>1, FS_EmptySet DEF Prompts
  <2> QED  BY <1>1, <2>2 DEF Heeded
<1> QED  BY <1>1, <1>12, <1>13, Initially DEF PInv

LEMMA Politely ==
    ASSUME PInv
    PROVE  /\ IInv /\ s \in Sessions /\ got \in Speech /\ Kept(s, got) /\ Calm(s, got, sent)
           /\ partial = FALSE /\ blanks = 0 /\ PromptsIn(got) = Heeded(got)
           /\ Prompts = Heeded(got)
           /\ s.started \in BOOLEAN /\ s.eof \in BOOLEAN /\ s.trying \in {"none", "in", "out"}
           /\ s.ready # <<>> \/ s.reads # <<>> \/ s.trying # "none" => s.started
           /\ s.started => Sound(s, got, 2, Dialogue(s.heard))
           /\ Once(s) /\ Orderly(s) /\ s.writes = <<>> /\ s.room = FALSE /\ s.trying # "out"
<1>1. /\ IInv /\ s \in Sessions /\ got \in Speech /\ Kept(s, got) /\ Calm(s, got, sent)
      /\ partial = FALSE /\ blanks = 0 /\ PromptsIn(got) = Heeded(got)
      /\ Prompts = Heeded(got)
  BY DEF PInv, IInv, TypeOK, Speech, Prompts, PromptsIn
<1>2. s.started \in BOOLEAN /\ s.eof \in BOOLEAN /\ s.trying \in {"none", "in", "out"}
  BY <1>1, Fields
<1>3. /\ s.ready # <<>> \/ s.reads # <<>> \/ s.trying # "none" => s.started
      /\ s.started => Sound(s, got, 2, Dialogue(s.heard))
      /\ Once(s) /\ Orderly(s) /\ s.writes = <<>> /\ s.room = FALSE /\ s.trying # "out"
  BY <1>1 DEF Kept, Unstarted, Sound, Wf, Orderly, Calm, Direct
<1> QED  BY <1>1, <1>2, <1>3

\* The thread runs what is first in the queue.
LEMMA Runs ==
    ASSUME Polite, PInv, Run
    PROVE  StaysCalm(s, s', got, sent)
<1> DEFINE e == Head(s.ready)
           d == [s EXCEPT !.ready = Tail(@)]
<1>1. /\ s.ready # <<>> /\ s.trying = "none" /\ s.started
      /\ s' = IF e.kind \in {"in", "out"}
              THEN [d EXCEPT !.trying = e.kind, !.reported = @ \ {e.kind}]
              ELSE Dispatch(d, e)
  BY Politely DEF Run, MayRun
<1>2. 1 \in DOMAIN s.ready /\ s.ready[1] = e
  BY <1>1, Politely, Queue
<1>3. CASE e.kind = "in"
  <2>1. s' = [d EXCEPT !.trying = "in", !.reported = @ \ {"in"}]
    BY <1>1, <1>3
  <2>2. StaysCalm(s, [d EXCEPT !.trying = "in", !.reported = @ \ {"in"}], got, sent)
    BY <1>1, <1>3, Politely, CalmAnnounced, Zenon
  <2> HIDE DEF d
  <2> QED  BY <2>1, <2>2
<1>4. e.kind # "out"
  BY <1>2, Politely DEF Once, Calm, Direct
<1>5. CASE e.kind # "in"
  <2>1. s' = Dispatch(d, e)
    <3> HIDE DEF d, e
    <3> QED  BY <1>1, <1>4, <1>5
  <2>2. CASE WriteDone(e)
    BY <1>1, <2>1, <2>2, Politely, CalmWritten
  <2>3. CASE ~WriteDone(e)
    BY <1>1, <1>5, <2>1, <2>3, Politely, CalmFailure
  <2> QED  BY <2>2, <2>3
<1> QED  BY <1>3, <1>5

\* It tries a read.
LEMMA TriesRead ==
    ASSUME Polite, PInv, TryRead
    PROVE  StaysCalm(s, s', got, sent)
<1>1. /\ s.trying = "in" /\ s.reads # <<>> /\ Readable(s) /\ s.started
      /\ s' = [Receive(s, Head(s.reads)) EXCEPT
                  !.reads = Tail(@), !.done = Append(@, Received(s, Head(s.reads)))]
  BY Politely DEF TryRead
<1>2. CASE s.inbox # <<>>
  <2>1. \A text \in Lines : Len(text) < MinRead  BY DEF Polite
  <2> QED  BY <1>1, <1>2, <2>1, Politely, CalmLine
<1>3. CASE s.inbox = <<>>
  <2>1. s.eof  BY <1>1, <1>3 DEF Readable
  <2> QED  BY <1>1, <1>3, <2>1, Politely, CalmNothing
<1> QED  BY <1>2, <1>3

\* It handles the first read that was tried: a line is executed, once all that
\* precedes it has been said.
Executes ==
    /\ s.started /\ Calm(s', got, sent) /\ s'.eof = s.eof
    /\ s.eof => s'.outbox = s.outbox
    /\ \E text \in Lines : s'.heard = Append(s.heard, text) /\ Underway(s, sent, text)

LEMMA Tries ==
    ASSUME Polite, PInv, Tried
    PROVE  StaysCalm(s, s', got, sent) \/ Executes
<1>1. /\ s.trying = "in" /\ (s.reads = <<>> \/ ~Readable(s)) /\ s.started
  BY Politely DEF Tried
<1>2. CASE s.done = <<>>
  <2>1. s' = [s EXCEPT !.trying = "none", !.done = <<>>]
    BY <1>2 DEF Tried
  <2> QED  BY <1>1, <1>2, <2>1, Politely, CalmUntried
<1>3. CASE s.done # <<>>
  <2>1. s' = Dispatch(Pending(s), Head(s.done))
    BY <1>3 DEF Tried, Pending
  <2>2. CASE Head(s.done) # ReadFailed
    <3>1. SendRoom >= ReplyLength + 2  BY DEF Polite
    <3> DEFINE t == Dispatch(Pending(s), Head(s.done))
    <3>2. /\ Calm(t, got, sent) /\ t.eof = s.eof
          /\ \E text \in Lines :
               t.heard = Append(s.heard, text) /\ Underway(s, sent, text)
          /\ s.eof => t.outbox = s.outbox
      BY <1>1, <1>3, <2>2, <3>1, Politely, CalmExecuted
    <3> HIDE DEF t
    <3>3. s' = t  BY <2>1 DEF t
    <3> QED  BY <1>1, <3>2, <3>3 DEF Executes
  <2>3. CASE Head(s.done) = ReadFailed
    BY <1>1, <1>3, <2>1, <2>3, Politely, CalmInVain
  <2> QED  BY <2>2, <2>3
<1> QED  BY <1>2, <1>3

\* The others that leave what is said and executed as it is.
LEMMA Rests ==
    ASSUME PInv, PollIn \/ Reset
    PROVE  StaysCalm(s, s', got, sent)
<1>1. CASE PollIn
  <2>1. /\ s.started /\ s.news /\ Readable(s) /\ "in" \notin s.reported
        /\ s' = Post([s EXCEPT !.news = FALSE, !.reported = @ \cup {"in"}], [kind |-> "in"])
    BY <1>1 DEF PollIn
  <2> QED  BY <2>1, Politely, CalmReport
<1>2. CASE Reset
  <2>1. s.eof /\ s' = [s EXCEPT !.reset = TRUE, !.inbox = <<>>, !.news = TRUE]
    BY <1>2 DEF Reset
  <2> QED  BY <2>1, Politely, CalmResetting
<1> QED  BY <1>1, <1>2

\* What such a client never brings about.
LEMMA Never ==
    ASSUME Polite, PInv
    PROVE  /\ ~PollOut /\ ~TryWrite /\ ~WildRead /\ ~WildIterator /\ ~SendNewline /\ ~SendBlank
           /\ \A text \in Lines : ~SendText(text)
<1>1. ~WildRead
  <2> SUFFICES ASSUME WildRead  PROVE FALSE
    OBVIOUS
  <2>1. s.reads # <<>> /\ Head(s.reads).block # s.buf.block
    BY DEF WildRead
  <2>2. 1 \in DOMAIN s.reads /\ s.reads[1] = Head(s.reads)
    BY <2>1, Politely, ReadsFront
  <2>3. s.reads[1].block = s.buf.block
    BY <2>2, Politely DEF Calm, Aligned
  <2> QED  BY <2>1, <2>2, <2>3
<1>2. ~PollOut /\ ~TryWrite /\ ~SendNewline
  BY Politely DEF PollOut, TryWrite, SendNewline
<1>3. ~SendBlank /\ \A text \in Lines : ~SendText(text)
  BY DEF Polite, SendBlank, SendText
<1>4. ~WildIterator
  <2> SUFFICES ASSUME WildIterator  PROVE FALSE
    OBVIOUS
  <2>1. /\ s.ready # <<>> /\ Head(s.ready).kind = "read" /\ ~Head(s.ready).error
    BY DEF WildIterator, MayRun
  <2>2. 1 \in DOMAIN s.ready /\ s.ready[1] = Head(s.ready)
    BY <2>1, Politely, Queue
  <2>3. s.ready[1] = ReadFailed
    BY <2>1, <2>2, Politely DEF Calm, Ended
  <2> QED  BY <2>1, <2>2, <2>3 DEF ReadFailed
<1> QED  BY <1>1, <1>2, <1>3, <1>4

\* Each step of the session, as its record and its client change.
LEMMA PolitelyInductive == Polite /\ PInv /\ [Next]_vars => PInv'
<1> SUFFICES ASSUME Polite, PInv, [Next]_vars  PROVE PInv'
  OBVIOUS
<1>1. /\ IInv /\ s \in Sessions /\ got \in Speech /\ Kept(s, got) /\ Calm(s, got, sent)
      /\ partial = FALSE /\ blanks = 0 /\ PromptsIn(got) = Heeded(got)
      /\ Prompts = Heeded(got) /\ s.started \in BOOLEAN
  BY Politely
<1>2. IInv'  BY <1>1, Inductive
<1>3. ASSUME UNCHANGED client, Calm(s', got, sent)  PROVE PInv'
  <2>1. /\ sent' = sent /\ got' = got /\ blanks' = blanks /\ partial' = partial
    BY <1>3 DEF client
  <2>2. Prompts' = Prompts  BY <2>1 DEF Prompts
  <2> QED  BY <1>1, <1>2, <1>3, <2>1, <2>2 DEF PInv
<1>4. CASE Start
  <2>1. /\ Unstarted(s) /\ s.started = FALSE /\ Sound(s, got, 0, <<>>)
        /\ SendRoom >= ReplyLength + 2
    BY <1>1, <1>4 DEF Start, Kept, Polite
  <2>2. s' = DoStart([s EXCEPT !.started = TRUE]) /\ UNCHANGED client
    BY <1>4 DEF Start
  <2> QED  BY <1>1, <1>3, <2>1, <2>2, CalmStart
<1>5. CASE Run \/ TryRead \/ Tried \/ PollIn \/ Reset
  <2>1. UNCHANGED client
    BY <1>5 DEF Run, TryRead, Tried, PollIn, Reset
  <2>2. StaysCalm(s, s', got, sent) \/ Executes
    BY <1>5, Runs, TriesRead, Tries, Rests
  <2> QED  BY <1>3, <2>1, <2>2 DEF StaysCalm, Executes
<1>6. ASSUME NEW text \in Lines, SendLine(text)  PROVE PInv'
  <2>1. ~s.eof /\ Prompts > Len(sent)
    BY <1>6 DEF SendLine, MaySend, Polite
  <2>2. /\ s' = [s EXCEPT !.inbox = @ \o Append(text, Newline), !.news = TRUE]
        /\ sent' = Append(sent, text) /\ got' = got
        /\ blanks' = blanks /\ partial' = partial
    BY <1>6 DEF SendLine, Arrive
  <2>3. Heeded(got) > Len(sent)  BY <1>1, <2>1
  <2>4. Calm(s', got', sent')
    BY <1>1, <2>1, <2>2, <2>3, CalmSent
  <2>5. Prompts' = Prompts  BY <2>2 DEF Prompts
  <2> QED  BY <1>1, <1>2, <2>2, <2>4, <2>5 DEF PInv
<1>7. CASE ClientRead
  <2>1. /\ ~s.eof /\ s.outbox # <<>> /\ got' = Append(got, Head(s.outbox))
        /\ s' = [s EXCEPT !.outbox = Tail(@), !.room = s.writes # <<>>]
        /\ sent' = sent /\ blanks' = blanks /\ partial' = partial
    BY <1>7 DEF ClientRead
  <2>2. Calm(s', got', sent') /\ PromptsIn(got') = Heeded(got')
    BY <1>1, <2>1, CalmHearing
  <2>3. Prompts' = PromptsIn(got')  BY DEF Prompts, PromptsIn
  <2> QED  BY <1>1, <1>2, <2>1, <2>2, <2>3 DEF PInv
<1>8. CASE Close
  <2>1. /\ UNCHANGED client
        /\ s' = [s EXCEPT !.eof = TRUE, !.news = TRUE, !.room = s.writes # <<>>]
    BY <1>8 DEF Close
  <2> QED  BY <1>1, <1>3, <2>1, CalmLeaving
<1>9. CASE UNCHANGED vars
  <2>1. s' = s /\ UNCHANGED client  BY <1>9 DEF vars
  <2>2. Calm(s', got, sent)  BY <1>1, <2>1
  <2> QED  BY <1>3, <2>1, <2>2
<1> QED  BY <1>4, <1>5, <1>6, <1>7, <1>8, <1>9, Never DEF Next

LEMMA PolitelyInvariant == ASSUME Polite PROVE Spec => []PInv
<1>1. Init => PInv  BY PolitelyInitially
<1>2. PInv /\ [Next]_vars => PInv'  BY PolitelyInductive
<1> QED  BY <1>1, <1>2, PTL DEF Spec

-----------------------------------------------------------------------------
(* What has been said.                                                     *)

\* With no word garbled and no write waiting, what has been said is a beginning of
\* the dialogue of what was executed, and all of it while the client is there.
LEMMA Telling ==
    ASSUME NEW c, NEW read \in Speech, Kept(c, read), Direct(c, read)
    PROVE  LET wire   == Spoken(c, read)
               told   == Tells(c.words, wire)
               script == Dialogue(c.heard)
           IN  /\ told \in Seq(Texts) /\ script \in Seq(Texts)
               /\ Len(script) = 2 * Len(c.heard) + 1
               /\ Len(told) = Begun(wire) /\ Begun(wire) \in 0..(2 * Len(c.heard) + 1)
               /\ told = SubSeq(script, 1, Len(told))
               /\ c.started /\ ~c.eof => told = script
               /\ ~c.started => told = <<>> /\ c.heard = <<>>
<1> DEFINE wire == Spoken(c, read)
           told == Tells(c.words, wire)
           script == Dialogue(c.heard)
           m == 2 * Len(c.heard) + 1
           n == Len(c.words)
           k == Begun(wire)
<1>1. c \in Sessions  BY DEF Kept, Sound, Wf
<1>2. c.heard \in Seq(Seq(Characters)) /\ c.words \in Seq(Words)
      /\ Len(c.heard) \in Nat /\ m \in Nat /\ n \in Nat
  BY <1>1, Fields, LenProperties
<1>3. wire \in Speech /\ Len(wire) \in Nat
  BY <1>1, OnWire, LenProperties DEF Speech
<1>4. \A i \in 1..Len(wire) :
        wire[i].at \in 1..n /\ wire[i].word = c.words[wire[i].at].text
  <2> HIDE DEF n, wire
  <2> QED  BY DEF Direct, InTurn, wire, n
<1>5. script \in Seq(Texts) /\ Len(script) = m
  BY <1>2, Dialogues
<1>6. \A at \in 1..n : n = m /\ c.words[at].text = script[at]
  BY Wording
<1>7. c.started => n = m
  <2> SUFFICES ASSUME c.started  PROVE n = m
    OBVIOUS
  <2>1. n = Len(script)  BY DEF Kept, Sound, Spells, Scripted
  <2> QED  BY <1>5, <2>1
<1> HIDE DEF wire, script, m, n
<1>8. wire = <<>> => k = 0  BY DEF Begun
<1>9. wire # <<>> => k \in 1..n /\ k = wire[Len(wire)].at
  <2> SUFFICES ASSUME wire # <<>>  PROVE k \in 1..n /\ k = wire[Len(wire)].at
    OBVIOUS
  <2>1. Len(wire) \in 1..Len(wire)
    <3>1. Len(wire) # 0  BY <1>3, EmptySeq DEF Speech
    <3> QED  BY <1>3, <3>1
  <2> QED  BY <1>4, <2>1 DEF Begun
<1>10. k \in 0..m /\ k \in Nat /\ \A at \in 1..k : at \in 1..n /\ at \in 1..m
  <2> HIDE DEF k
  <2>1. CASE wire = <<>>
    BY <1>2, <1>8, <2>1
  <2>2. CASE wire # <<>>
    <3>1. k \in 1..n /\ n = m  BY <1>6, <1>9, <2>2
    <3> QED  BY <1>2, <3>1
  <2> QED  BY <2>1, <2>2
<1>11. \A at \in 1..k : script[at] \in Texts
  <2> HIDE DEF k
  <2>1. \A at \in 1..Len(script) : script[at] \in Texts  BY <1>5
  <2> QED  BY <1>5, <1>10, <2>1
<1>12. \A at \in 1..k : \A i \in DOMAIN wire :
          wire[i].at = at => wire[i].word = c.words[at].text
  <2>1. DOMAIN wire = 1..Len(wire)  BY <1>3, LenProperties DEF Speech
  <2> QED  BY <1>4, <2>1
<1>13. told = [at \in 1..k |-> script[at]]
  <2>1. \A at \in 1..k : c.words[at].text = script[at]
    <3> HIDE DEF k
    <3> QED  BY <1>6, <1>10
  <2> QED  BY <1>12, <2>1 DEF Tells
<1> HIDE DEF k, told
<1>14. told \in Seq(Texts) /\ Len(told) = k /\ \A i \in 1..k : told[i] = script[i]
  BY <1>10, <1>11, <1>13, IsASeq, LenProperties
<1>15. told = SubSeq(script, 1, Len(told))
  <2>1. Len(told) <= Len(script)  BY <1>2, <1>5, <1>10, <1>14
  <2> QED  BY <1>5, <1>14, <2>1, Beginning
<1>16. c.started /\ ~c.eof => told = script
  <2> SUFFICES ASSUME c.started, ~c.eof  PROVE told = script
    OBVIOUS
  <2>1. EndsAt(wire, n) /\ n = m  BY <1>7 DEF Direct, wire, n
  <2>2. m # 0  BY <1>2 DEF m
  <2>3. k = n  BY <1>9, <2>1, <2>2 DEF EndsAt
  <2> QED  BY <1>5, <1>14, <2>1, <2>3, SeqEqual
<1>17. ~c.started => told = <<>> /\ c.heard = <<>>
  <2> SUFFICES ASSUME ~c.started  PROVE told = <<>> /\ c.heard = <<>>
    OBVIOUS
  <2>1. n = 0
    <3>1. n = Len(<<>>)  BY DEF Kept, Sound, Spells, Scripted, n
    <3> QED  BY <3>1, EmptySeq
  <2>2. k = 0  BY <1>8, <1>9, <2>1
  <2> QED  BY <1>14, <2>2, EmptySeq DEF Kept, Unstarted
<1> QED  BY <1>5, <1>10, <1>14, <1>15, <1>16, <1>17 DEF wire, told, script, k, m

-----------------------------------------------------------------------------
(* Its properties.                                                         *)

LEMMA PoliteFacts ==
    ASSUME PInv
    PROVE  HeardAsSent /\ WireIntact /\ RegionsLive /\ StaysUp
<1>1. Awaited(s, sent) /\ Direct(s, got) /\ Aligned(s) /\ Kept(s, got)
  BY Politely DEF Calm
<1>2. WireIntact
  <2> DEFINE h == s.heard
  <2>1. h \in Seq(Seq(Characters))
    BY Politely, Fields
  <2>2. /\ Wire = Spoken(s, got)
        /\ DOMAIN Wire = 1..Len(Wire) /\ DOMAIN Dialogue(h) = 1..(2 * Len(h) + 1)
    <3>1. Wire = Spoken(s, got)  BY DEF Wire, Spoken
    <3>2. Wire \in Speech  BY <3>1, Politely, OnWire
    <3>3. Dialogue(h) \in Seq(Texts) /\ Len(Dialogue(h)) = 2 * Len(h) + 1
      BY <2>1, Dialogues
    <3> QED  BY <3>1, <3>2, <3>3, LenProperties DEF Speech
  <2>3. ASSUME NEW i \in 1..Len(Wire)
        PROVE  /\ IF i = 1 THEN Wire[i].at = 1 /\ Wire[i].byte = 1 ELSE IsNext(Wire[i - 1], Wire[i])
               /\ Wire[i].at \in 1..(2 * Len(h) + 1)
               /\ Wire[i].word = Dialogue(h)[Wire[i].at]
    <3>1. /\ IF i = 1 THEN Wire[i].at = 1 /\ Wire[i].byte = 1 ELSE IsNext(Wire[i - 1], Wire[i])
          /\ Wire[i].at \in 1..Len(s.words) /\ Wire[i].word = s.words[Wire[i].at].text
      BY <1>1, <2>2 DEF Direct, InTurn
    <3>2. /\ Len(s.words) = 2 * Len(h) + 1
          /\ s.words[Wire[i].at].text = Dialogue(h)[Wire[i].at]
      BY <1>1, <3>1, Wording
    <3> QED  BY <3>1, <3>2
  <2> QED  BY <2>2, <2>3 DEF WireIntact
<1>3. RegionsLive
  BY <1>1 DEF RegionsLive, Aligned
<1>4. StaysUp
  BY <1>1 DEF StaysUp, Direct
<1>5. HeardAsSent
  <2> DEFINE h == s.heard
             n == Len(h)
  <2>1. h \in Seq(Seq(Characters)) /\ n \in Nat
    BY Politely, Fields, LenProperties
  <2>2. CASE sent = h
    BY <2>1, <2>2, Beginning DEF HeardAsSent
  <2>3. CASE \E text \in Lines : sent = Append(h, text)
    <3>1. PICK text \in Lines : sent = Append(h, text)
      BY <2>3
    <3>2. text \in Seq(Characters)  BY LineOK
    <3>3. sent \in Seq(Seq(Characters)) /\ Len(sent) = n + 1 /\ \A i \in 1..n : sent[i] = h[i]
      BY <2>1, <3>1, <3>2, AppendProperties
    <3>4. n <= Len(sent)  BY <2>1, <3>3
    <3> QED  BY <2>1, <3>3, <3>4, Beginning DEF HeardAsSent
  <2> QED  BY <1>1, <2>2, <2>3 DEF Awaited
<1> QED  BY <1>2, <1>3, <1>4, <1>5

\* A client that awaits each prompt and sends whole lines has each command executed
\* as it sent it, once and in order: of the reads that wait on the one buffer, the
\* first takes the line, and the others find the buffer empty (server.cpp, do_read).
THEOREM CommandsHeardAsSent == ASSUME Polite PROVE Spec => []HeardAsSent
<1>1. PInv => HeardAsSent  BY PoliteFacts
<1> QED  BY <1>1, PolitelyInvariant, PTL

\* To such a client every reply and prompt leaves whole, although both are sent from
\* one string that is assigned between them (server.cpp, do_write and do_prompt).
THEOREM RepliesLeaveWhole == ASSUME Polite PROVE Spec => []WireIntact
<1>1. PInv => WireIntact  BY PoliteFacts
<1> QED  BY <1>1, PolitelyInvariant, PTL

\* The reads that such a client leaves waiting, one more for every command, never
\* hold a region of a block that the streambuf has given back.
THEOREM ReadsStayValid == ASSUME Polite PROVE Spec => []RegionsLive
<1>1. PInv => RegionsLive  BY PoliteFacts
<1> QED  BY <1>1, PolitelyInvariant, PTL

\* Such a client never brings the server down, whenever it leaves: no assertion of a
\* Debug build fails, and nothing is written outside a block.
THEOREM ServerStaysUp == ASSUME Polite PROVE Spec => []StaysUp
<1>1. PInv => StaysUp  BY PoliteFacts
<1> QED  BY <1>1, PolitelyInvariant, PTL

-----------------------------------------------------------------------------
(* The promise of CommandPrompt.                                           *)

\* It names the words of the dialogue as the session does.
LEMMA SameWords ==
    ASSUME NEW heard, NEW n
    PROVE  /\ Promise!Dialogue(heard) = Dialogue(heard)
           /\ Promise!Said(heard, n) = SubSeq(Dialogue(heard), 1, n)
<1>1. \A line : Promise!Execute(line) = Execute(line)
  <2>1. Promise!InsertLine = InsertLine /\ Promise!TruncateLine = TruncateLine
    BY DEF Promise!InsertLine, InsertLine, Promise!TruncateLine, TruncateLine
  <2>2. \A line : Promise!Create(line) = Create(line)
    BY <2>1 DEF Promise!Create, Create
  <2> QED  BY <2>2 DEF Promise!Execute, Execute, Promise!Printer, Printer
<1>2. Promise!Dialogue(heard) = Dialogue(heard)
  BY <1>1 DEF Promise!Dialogue, Dialogue, Promise!Prompt, Prompt
<1> QED  BY <1>2 DEF Promise!Said

\* What Telling says of a session and its client, before and after a step.
LEMMA ToldNow ==
    ASSUME PInv
    PROVE  /\ Told \in Seq(Texts) /\ Told = SubSeq(Dialogue(s.heard), 1, Len(Told))
           /\ Len(Told) = Begun(Wire) /\ Len(Told) \in 0..(2 * Len(s.heard) + 1)
           /\ Dialogue(s.heard) \in Seq(Texts)
           /\ Len(Dialogue(s.heard)) = 2 * Len(s.heard) + 1
           /\ s.started /\ ~s.eof => Told = Dialogue(s.heard)
           /\ ~s.started => Told = <<>> /\ s.heard = <<>>
<1>1. Kept(s, got) /\ Direct(s, got) /\ got \in Speech  BY Politely DEF Calm
<1>2. Told = Tells(s.words, Spoken(s, got)) /\ Wire = Spoken(s, got)
  BY DEF Told, Wire, Spoken
<1> QED  BY <1>1, <1>2, Telling

LEMMA ToldNext ==
    ASSUME PInv'
    PROVE  /\ Told' \in Seq(Texts) /\ Told' = SubSeq(Dialogue(s'.heard), 1, Len(Told'))
           /\ Len(Told') = Begun(Wire') /\ Len(Told') \in 0..(2 * Len(s'.heard) + 1)
           /\ Dialogue(s'.heard) \in Seq(Texts)
           /\ Len(Dialogue(s'.heard)) = 2 * Len(s'.heard) + 1
           /\ s'.started /\ ~s'.eof => Told' = Dialogue(s'.heard)
           /\ ~s'.started => s'.heard = <<>>
<1>1. Kept(s', got') /\ Direct(s', got') /\ got' \in Speech
  BY DEF PInv, IInv, TypeOK, Calm, Speech
<1>2. Told' = Tells(s'.words, Spoken(s', got')) /\ Wire' = Spoken(s', got')
  BY DEF Told, Wire, Spoken
<1> QED  BY <1>1, <1>2, Telling

LEMMA Stutters ==
    ASSUME sent' = sent, s'.heard = s.heard, s'.eof = s.eof, Told' = Told
    PROVE  UNCHANGED Promise!vars
BY DEF Promise!vars

\* What begins a list begins a longer one.
LEMMA SameStart ==
    ASSUME NEW T, NEW old \in Seq(T), NEW u \in T, NEW v \in T, NEW k \in 0..Len(old)
    PROVE  SubSeq(Append(Append(old, u), v), 1, k) = SubSeq(old, 1, k)
<1> DEFINE mid == Append(old, u)
           new == Append(mid, v)
           n == Len(old)
<1>1. /\ n \in Nat /\ mid \in Seq(T) /\ Len(mid) = n + 1 /\ \A i \in 1..n : mid[i] = old[i]
  BY AppendProperties, LenProperties
<1>2. /\ new \in Seq(T) /\ Len(new) = n + 1 + 1 /\ \A i \in 1..Len(mid) : new[i] = mid[i]
  <2> HIDE DEF mid, n
  <2> QED  BY <1>1, AppendProperties
<1> HIDE DEF mid, new, n
<1>3. \A i \in 1..n : new[i] = old[i]
  BY <1>1, <1>2
<1>4. SubSeq(new, 1, k) = [i \in 1..k |-> new[i]] /\ SubSeq(old, 1, k) = [i \in 1..k |-> old[i]]
  BY <1>1, <1>2 DEF n
<1>5. \A i \in 1..k : new[i] = old[i]
  BY <1>1, <1>3 DEF n
<1> QED  BY <1>4, <1>5 DEF new, mid

\* Some more of the dialogue has been said.
LEMMA SaysOn ==
    ASSUME PInv', Len(Told) \in Nat, Len(Told) <= Len(Told')
    PROVE  Promise!Saying(s'.heard)
<1> DEFINE h == s'.heard
           k == Len(Told)
           n == Len(Told')
           m == 2 * Len(h) + 1
<1>1. n \in 0..m /\ Told' = Promise!Said(h, n)
  BY ToldNext, SameWords
<1>2. Len(h) \in Nat
  <2>1. s' \in Sessions  BY DEF PInv, IInv, TypeOK
  <2> QED  BY <2>1, Fields, LenProperties
<1>3. k \in Nat /\ k <= n /\ m \in Nat
  BY <1>2
<1>4. n \in k..m
  <2> HIDE DEF k, n, m
  <2> QED  BY <1>1, <1>3
<1>5. Told' \in {Promise!Said(h, i) : i \in k..m}
  <2> HIDE DEF k, n, m
  <2> QED  BY <1>1, <1>4
<1> QED  BY <1>5 DEF Promise!Saying

\* The prompt with which a session starts.
LEMMA StartSays ==
    ASSUME Polite, PInv, PInv', Start
    PROVE  [Promise!Next]_Promise!vars
<1>1. s.started = FALSE /\ UNCHANGED client /\ s' = DoStart([s EXCEPT !.started = TRUE])
  BY Politely DEF Start
<1>2. sent' = sent /\ got' = got  BY <1>1 DEF client
<1>3. Unstarted(s) /\ Sound(s, got, 0, <<>>) /\ SendRoom >= ReplyLength + 2
  BY <1>1, Politely DEF Kept, Polite
<1>4. s'.eof = s.eof /\ s'.heard = s.heard /\ (s.eof => s'.outbox = s.outbox)
  <2> DEFINE t == DoStart([s EXCEPT !.started = TRUE])
  <2>1. t.eof = s.eof /\ t.heard = s.heard /\ (s.eof => t.outbox = s.outbox)
    BY <1>1, <1>3, Politely, CalmStart
  <2> HIDE DEF t
  <2> QED  BY <1>1, <2>1 DEF t
<1>5. Told = <<>> /\ Len(Told) = 0  BY <1>1, ToldNow, EmptySeq
<1>6. CASE s.eof
  <2>1. Wire' = Wire  BY <1>2, <1>4, <1>6 DEF Wire
  <2>2. Len(Told') = 0 /\ Told' \in Seq(Texts)
    BY <1>5, <2>1, ToldNow, ToldNext
  <2>3. Told' = Told  BY <1>5, <2>2, EmptySeq
  <2> QED  BY <1>2, <1>4, <2>3, Stutters
<1>7. CASE ~s.eof
  <2>1. Len(Told') \in Nat  BY ToldNext
  <2>2. Len(Told) <= Len(Told') /\ Len(Told) \in Nat  BY <1>5, <2>1
  <2>3. Promise!Saying(s'.heard)  BY <2>2, SaysOn
  <2>4. Promise!Say  BY <1>2, <1>4, <1>7, <2>3 DEF Promise!Say
  <2> QED  BY <2>4 DEF Promise!Next
<1> QED  BY <1>6, <1>7

\* A command is executed: all before it has been said, and its answer and prompt
\* leave at once.
LEMMA ExecutesAsPromised ==
    ASSUME PInv, PInv', UNCHANGED client, Executes
    PROVE  Promise!Execution
<1> DEFINE h == s.heard
<1>1. PICK text \in Lines : s'.heard = Append(h, text) /\ Underway(s, sent, text)
  BY DEF Executes
<1>2. sent = Append(h, text) /\ (~s.eof => s.outbox = <<>>)
  BY <1>1 DEF Underway
<1>3. /\ sent' = sent /\ got' = got /\ s.started /\ s'.eof = s.eof
      /\ s.eof => s'.outbox = s.outbox
  BY DEF client, Executes
<1>4. h \in Seq(Seq(Characters)) /\ text \in Seq(Characters) /\ Len(h) \in Nat
  BY Politely, Fields, LenProperties, LineOK
<1>5. Len(sent) = Len(h) + 1 /\ sent[Len(h) + 1] = text
  BY <1>2, <1>4, AppendProperties
<1>6. Len(h) < Len(sent)  BY <1>4, <1>5
<1>7. s'.heard = Append(h, sent[Len(h) + 1])  BY <1>1, <1>5
<1>8. CASE s.eof
  <2>1. Wire' = Wire  BY <1>3, <1>8 DEF Wire
  <2>2. Told' = Told
    <3> DEFINE k == Len(Told)
               old == Dialogue(h)
               new == Dialogue(s'.heard)
    <3>1. /\ Told = SubSeq(old, 1, k) /\ k \in 0..(2 * Len(h) + 1)
          /\ Told' = SubSeq(new, 1, k)
      BY <2>1, ToldNow, ToldNext
    <3>2. SubSeq(new, 1, k) = SubSeq(old, 1, k)
      <4>1. new = Append(Append(old, Execute(text)), Prompt)
        BY <1>1, <1>4, LongerDialogue
      <4>2. old \in Seq(Texts) /\ Len(old) = 2 * Len(h) + 1 /\ Execute(text) \in Texts
            /\ Prompt \in Texts
        BY ToldNow, Answering, Lengths
      <4> HIDE DEF k, old, new
      <4> QED  BY <1>4, <3>1, <4>1, <4>2, SameStart
    <3> QED  BY <3>1, <3>2
  <2> QED  BY <1>3, <1>6, <1>7, <1>8, <2>2 DEF Promise!Execution
<1>9. CASE ~s.eof
  <2>1. Told = Promise!Dialogue(h) /\ Len(Told) = 2 * Len(h) + 1
    BY <1>3, <1>9, ToldNow, SameWords
  <2>2. s'.heard # <<>>
    <3>1. Len(s'.heard) = Len(h) + 1  BY <1>1, <1>4, AppendProperties
    <3> QED  BY <1>4, <3>1, EmptySeq
  <2>3. Len(Told') = 2 * Len(s'.heard) + 1
    <3>1. s'.started \in BOOLEAN
      <4>1. s' \in Sessions  BY DEF PInv, IInv, TypeOK
      <4> QED  BY <4>1, Fields
    <3>2. s'.started /\ ~s'.eof  BY <1>3, <1>9, <2>2, <3>1, ToldNext
    <3> QED  BY <3>2, ToldNext
  <2>4. Len(Told) \in Nat /\ Len(Told) <= Len(Told')
    <3>1. Len(s'.heard) = Len(h) + 1  BY <1>1, <1>4, AppendProperties
    <3> QED  BY <1>4, <2>1, <2>3, <3>1
  <2>5. Promise!Saying(s'.heard)  BY <2>4, SaysOn
  <2> QED  BY <1>3, <1>6, <1>7, <1>9, <2>1, <2>5 DEF Promise!Execution
<1> QED  BY <1>8, <1>9

\* The client sends its next command when it has read everything.
LEMMA SendingAsks ==
    ASSUME Polite, PInv, NEW text \in Lines, SendLine(text)
    PROVE  Promise!Ask(text)
<1>1. /\ ~s.eof /\ Prompts > Len(sent) /\ sent' = Append(sent, text) /\ got' = got
      /\ s' = [s EXCEPT !.inbox = @ \o Append(text, Newline), !.news = TRUE]
  BY DEF SendLine, MaySend, Polite, Arrive
<1>2. /\ s'.heard = s.heard /\ s'.outbox = s.outbox /\ s'.eof = s.eof
      /\ s'.words = s.words
  BY <1>1, Politely DEF Sessions
<1>3. Heeded(got) > Len(sent)
  BY <1>1, Politely
<1>4. s.started /\ sent = s.heard
  BY <1>1, <1>3, Politely, Prompted DEF Calm
<1>5. Len(Told) = 2 * Len(s.heard) + 1
  BY <1>1, <1>4, ToldNow
<1>6. Len(s.heard) \in Nat
  BY Politely, Fields, LenProperties
<1>7. Len(Told) > 2 * Len(sent)
  <2> DEFINE n == Len(s.heard)
  <2>1. n \in Nat /\ Len(sent) = n /\ Len(Told) = 2 * n + 1  BY <1>4, <1>5, <1>6
  <2> HIDE DEF n
  <2> QED  BY <2>1
<1>8. Told' = Told  BY <1>1, <1>2 DEF Told, Wire
<1> QED  BY <1>1, <1>2, <1>7, <1>8 DEF Promise!Ask

\* What the client reads had been said already.
LEMMA HearingStutters ==
    ASSUME PInv, ClientRead
    PROVE  UNCHANGED Promise!vars
<1>1. /\ s.outbox # <<>> /\ sent' = sent /\ got' = Append(got, Head(s.outbox))
      /\ s' = [s EXCEPT !.outbox = Tail(@), !.room = s.writes # <<>>]
  BY DEF ClientRead
<1>2. /\ s'.heard = s.heard /\ s'.eof = s.eof /\ s'.words = s.words
      /\ s'.outbox = Tail(s.outbox)
  BY <1>1, Politely DEF Sessions
<1>3. Wire' = Wire
  <2>1. got \in Speech /\ s.outbox \in Speech  BY Politely, Fields
  <2> QED  BY <1>1, <1>2, <2>1, ReadAcross DEF Wire, Speech
<1> QED  BY <1>1, <1>2, <1>3, Stutters DEF Told

LEMMA StepKeepsPromise ==
    ASSUME Polite, PInv, [Next]_vars
    PROVE  [Promise!Next]_Promise!vars
<1>1. PInv'  BY PolitelyInductive
<1>2. CASE Start
  BY <1>1, <1>2, StartSays
<1>3. CASE Run \/ TryRead \/ Tried \/ PollIn \/ Reset
  <2>1. UNCHANGED client
    BY <1>3 DEF Run, TryRead, Tried, PollIn, Reset
  <2>2. CASE StaysCalm(s, s', got, sent)
    <3>1. /\ sent' = sent /\ s'.heard = s.heard /\ s'.eof = s.eof /\ Told' = Told
      BY <2>1, <2>2 DEF StaysCalm, client, Told, Wire
    <3> QED  BY <3>1, Stutters
  <2>3. CASE Executes
    BY <1>1, <2>1, <2>3, ExecutesAsPromised DEF Promise!Next
  <2> QED  BY <1>3, <2>2, <2>3, Runs, TriesRead, Tries, Rests
<1>4. ASSUME NEW text \in Lines, SendLine(text)  PROVE [Promise!Next]_Promise!vars
  BY <1>4, SendingAsks DEF Promise!Next
<1>5. CASE ClientRead
  BY <1>5, HearingStutters
<1>6. CASE Close
  <2>1. /\ s.eof = FALSE /\ UNCHANGED client
        /\ s' = [s EXCEPT !.eof = TRUE, !.news = TRUE, !.room = s.writes # <<>>]
    BY <1>6, Politely DEF Close
  <2>2. /\ s'.eof = TRUE /\ s'.heard = s.heard /\ s'.outbox = s.outbox
        /\ s'.words = s.words
    BY <2>1, Politely DEF Sessions
  <2>3. sent' = sent /\ Told' = Told
    BY <2>1, <2>2 DEF client, Told, Wire
  <2>4. Promise!Leave
    BY <2>1, <2>2, <2>3 DEF Promise!Leave
  <2> QED  BY <2>4 DEF Promise!Next
<1>7. CASE UNCHANGED vars
  <2>1. s' = s /\ UNCHANGED client  BY <1>7 DEF vars
  <2>2. sent' = sent /\ Told' = Told  BY <2>1 DEF client, Told, Wire
  <2> QED  BY <2>1, <2>2, Stutters
<1> QED  BY <1>2, <1>3, <1>4, <1>5, <1>6, <1>7, Never DEF Next

LEMMA InitKeepsPromise == Init => Promise!Init
<1> SUFFICES ASSUME Init  PROVE Promise!Init
  OBVIOUS
<1>1. sent = <<>> /\ got = <<>> /\ s.heard = <<>> /\ s.outbox = <<>> /\ s.eof = FALSE
  BY DEF Init, New
<1>2. Told = <<>>
  <2>1. Wire = <<>>  BY <1>1 DEF Wire
  <2>2. Begun(Wire) = 0  BY <2>1 DEF Begun
  <2> QED  BY <2>2 DEF Told, Tells
<1> QED  BY <1>1, <1>2 DEF Promise!Init

\* A session serves a client that awaits each prompt as CommandPrompt describes it,
\* for any commands, any number of them, any sizes of the buffer and of the socket,
\* whatever steps asio takes in between, and whenever the client closes.
THEOREM SessionKeepsPromise == ASSUME Polite PROVE Spec => KeepsPromise
<1>1. Init => Promise!Init  BY InitKeepsPromise
<1>2. PInv /\ [Next]_vars => [Promise!Next]_Promise!vars  BY StepKeepsPromise
<1> QED  BY <1>1, <1>2, PolitelyInvariant, PTL DEF Spec, KeepsPromise, Promise!Spec

=============================================================================
