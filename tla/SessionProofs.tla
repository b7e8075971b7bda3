---------------------------- MODULE SessionProofs ----------------------------
(***************************************************************************)
(* What holds of a session whatever its client does: its buffer keeps its  *)
(* areas, its operations balance, and its replies leave in order.          *)
(***************************************************************************)
EXTENDS Session, SequenceTheorems, WellFoundedInduction, TLAPS

(* The streambuf: its areas stay inside the block, and the region that prepare   *)
(* hands out lies inside the put area.                                           *)

\* Buffers over a set of bytes.
BufsOf(Octets) ==
    {b \in [block : Nat, cap : Nat, mem : Seq(Octets), get : Nat, put : Nat] :
        b.get <= b.put /\ b.put <= Len(b.mem) /\ Len(b.mem) <= b.cap}

\* A piece of a sequence is a sequence of the length asked for.
LEMMA Piece ==
    ASSUME NEW S, NEW seq \in Seq(S), NEW i \in Nat \ {0}, NEW n \in Nat,
           n <= Len(seq), i <= n + 1
    PROVE  SubSeq(seq, i, n) \in Seq(S) /\ Len(SubSeq(seq, i, n)) = n - i + 1
<1>1. Len(seq) \in Nat /\ \A j \in i..n : seq[j] \in S
  BY ElementOfSeq, LenProperties
<1> QED BY <1>1, SubSeqProperties

\* A constructed buffer has its areas inside its block.
LEMMA NewBufOK ==
    ASSUME NEW Octets, Zero \in Octets
    PROVE  NewBuf \in BufsOf(Octets)
<1>1. Delta \in Nat /\ [i \in 1..Delta |-> Zero] \in Seq(Octets)
  BY StreambufAssumption
<1>2. Len([i \in 1..Delta |-> Zero]) = Delta
  BY <1>1
<1> QED BY <1>1, <1>2 DEF NewBuf, BufsOf

\* The get area holds as many bytes as its ends are apart.
LEMMA ContentOK ==
    ASSUME NEW Octets, NEW b \in BufsOf(Octets)
    PROVE  /\ Content(b) \in Seq(Octets)
           /\ Len(Content(b)) = Size(b)
           /\ Size(b) \in Nat /\ Size(b) <= b.put
           /\ b.mem \in Seq(Octets) /\ Len(b.mem) \in Nat
BY DEF BufsOf, Content, Size

\* prepare asks for at least one byte.
LEMMA ReadSizeOK ==
    ASSUME NEW Octets, NEW b \in BufsOf(Octets)
    PROVE  ReadSize(b) \in Nat \ {0}
BY StreambufAssumption DEF BufsOf, ReadSize, Size, Larger

\* reserve makes room for the region, in the same block or in a later one, and
\* a block in use never shrinks.
LEMMA ReserveOK ==
    ASSUME NEW Octets, Zero \in Octets, NEW b \in BufsOf(Octets), NEW n \in Nat
    PROVE  /\ Reserve(b, n) \in BufsOf(Octets)
           /\ Reserve(b, n).put + n <= Len(Reserve(b, n).mem)
           /\ Reserve(b, n).block >= b.block
           /\ Reserve(b, n).block = b.block => Len(Reserve(b, n).mem) >= Len(b.mem)
<1> DEFINE kept == Content(b)
           len  == Larger(Len(b.mem), Len(kept) + n)
           old  == SubSeq(b.mem, Len(kept) + 1, Len(b.mem))
           new  == [i \in 1..(len - Len(b.mem)) |-> Zero]
           mem  == kept \o old \o new
           grow == len > b.cap
           moved == [block |-> IF grow THEN b.block + 1 ELSE b.block,
                     cap   |-> IF grow THEN Larger(2 * Len(b.mem), len) ELSE b.cap,
                     mem   |-> mem, get |-> 0, put |-> Len(kept)]
<1>1. CASE n <= Len(b.mem) - b.put
  <2>1. Reserve(b, n) = b
    BY <1>1 DEF Reserve
  <2> QED BY <1>1, <2>1 DEF BufsOf
<1>2. CASE ~(n <= Len(b.mem) - b.put)
  <2>1. Reserve(b, n) = moved
    BY <1>2 DEF Reserve
  <2>2. /\ kept \in Seq(Octets) /\ Len(kept) \in Nat
        /\ Len(kept) <= b.put /\ b.put <= Len(b.mem) /\ Len(b.mem) <= b.cap
        /\ b.mem \in Seq(Octets) /\ Len(b.mem) \in Nat /\ b.cap \in Nat
        /\ b.block \in Nat /\ b.put \in Nat
    BY ContentOK DEF BufsOf
  <2>3. len \in Nat /\ len >= Len(b.mem) /\ len >= Len(kept) + n
    BY <2>2 DEF Larger
  <2>4. old \in Seq(Octets) /\ Len(old) = Len(b.mem) - Len(kept)
    <3>1. /\ Len(kept) + 1 \in Nat \ {0} /\ Len(kept) + 1 <= Len(b.mem) + 1
          /\ Len(b.mem) <= Len(b.mem)
      BY <2>2
    <3>2. old \in Seq(Octets) /\ Len(old) = Len(b.mem) - (Len(kept) + 1) + 1
      <4> HIDE DEF kept
      <4> QED BY <2>2, <3>1, Piece
    <3> QED BY <2>2, <3>2
  <2>5. new \in Seq(Octets) /\ Len(new) = len - Len(b.mem)
    <3>1. len - Len(b.mem) \in Nat
      BY <2>2, <2>3
    <3> HIDE DEF len
    <3> QED BY <3>1
  <2>6. mem \in Seq(Octets) /\ Len(mem) = len
    <3>1. \A x, y \in Seq(Octets) : x \o y \in Seq(Octets) /\ Len(x \o y) = Len(x) + Len(y)
      BY ConcatProperties
    <3> DEFINE front == kept \o old
    <3>2. mem = front \o new
      OBVIOUS
    <3> HIDE DEF len, old, new, kept, mem
    <3>3. front \in Seq(Octets) /\ Len(front) = Len(kept) + (Len(b.mem) - Len(kept))
      BY <2>2, <2>4, <3>1
    <3> HIDE DEF front
    <3>4. mem \in Seq(Octets) /\ Len(mem) = Len(front) + Len(new)
      BY <2>5, <3>1, <3>2, <3>3
    <3>5. Len(mem) = (Len(kept) + (Len(b.mem) - Len(kept))) + (len - Len(b.mem))
      BY <2>5, <3>3, <3>4, Zenon
    <3>6. (Len(kept) + (Len(b.mem) - Len(kept))) + (len - Len(b.mem)) = len
      BY <2>2, <2>3
    <3> QED BY <3>4, <3>5, <3>6, Zenon
  <2>7. moved.cap \in Nat /\ moved.block \in Nat /\ len <= moved.cap
    BY <2>2, <2>3 DEF Larger
  <2>8. moved \in BufsOf(Octets)
    <3> HIDE DEF len, mem, kept, grow
    <3> QED BY <2>2, <2>3, <2>6, <2>7 DEF BufsOf
  <2>9. moved.put + n <= Len(moved.mem) /\ Len(moved.mem) >= Len(b.mem)
    <3> HIDE DEF len, mem, kept, grow
    <3> QED BY <2>2, <2>3, <2>6
  <2>10. moved.block >= b.block
    <3> HIDE DEF len, mem, kept, grow
    <3> QED BY <2>2
  <2> HIDE DEF moved
  <2> QED BY <2>1, <2>8, <2>9, <2>10
<1> QED BY <1>1, <1>2

\* Octets stored in a region inside the block leave the buffer as it was around
\* them.
LEMMA StoreOK ==
    ASSUME NEW Octets, NEW b \in BufsOf(Octets), NEW base \in Nat,
           NEW bytes \in Seq(Octets), base + Len(bytes) <= Len(b.mem)
    PROVE  /\ Store(b, base, bytes) \in BufsOf(Octets)
           /\ Store(b, base, bytes).block = b.block
           /\ Len(Store(b, base, bytes).mem) = Len(b.mem)
<1> DEFINE left == SubSeq(b.mem, 1, base)
           right == SubSeq(b.mem, base + Len(bytes) + 1, Len(b.mem))
           mem == left \o bytes \o right
<1>1. b.mem \in Seq(Octets) /\ Len(b.mem) \in Nat /\ Len(bytes) \in Nat
  BY ContentOK
<1>2. left \in Seq(Octets) /\ Len(left) = base
  BY <1>1, Piece
<1>3. right \in Seq(Octets) /\ Len(right) = Len(b.mem) - base - Len(bytes)
  BY <1>1, Piece
<1>4. mem \in Seq(Octets) /\ Len(mem) = Len(b.mem)
  <2>1. \A x, y \in Seq(Octets) : x \o y \in Seq(Octets) /\ Len(x \o y) = Len(x) + Len(y)
    BY ConcatProperties
  <2> DEFINE front == left \o bytes
  <2>2. mem = front \o right
    OBVIOUS
  <2> HIDE DEF left, right, mem
  <2>3. front \in Seq(Octets) /\ Len(front) = base + Len(bytes)
    BY <1>1, <1>2, <2>1
  <2> HIDE DEF front
  <2>4. mem \in Seq(Octets) /\ Len(mem) = Len(front) + Len(right)
    BY <1>3, <2>1, <2>2, <2>3
  <2>5. Len(mem) = (base + Len(bytes)) + (Len(b.mem) - base - Len(bytes))
    BY <1>3, <2>3, <2>4, Zenon
  <2>6. (base + Len(bytes)) + (Len(b.mem) - base - Len(bytes)) = Len(b.mem)
    <3>1. \A x, y, z \in Nat : (x + y) + (z - x - y) = z
      OBVIOUS
    <3> QED BY <1>1, <3>1, Zenon
  <2> QED BY <2>4, <2>5, <2>6, Zenon
<1>5. Store(b, base, bytes) = [b EXCEPT !.mem = mem]
  BY DEF Store
<1> HIDE DEF mem
<1> QED BY <1>4, <1>5 DEF BufsOf

\* commit and consume never move an area past its end.
LEMMA CommitOK ==
    ASSUME NEW Octets, NEW b \in BufsOf(Octets), NEW n \in Nat
    PROVE  /\ Commit(b, n) \in BufsOf(Octets)
           /\ Commit(b, n).block = b.block /\ Commit(b, n).mem = b.mem
<1>1. b.mem \in Seq(Octets) /\ Len(b.mem) \in Nat
  BY ContentOK
<1> QED BY <1>1 DEF BufsOf, Commit, Smaller

LEMMA ConsumeOK ==
    ASSUME NEW Octets, NEW b \in BufsOf(Octets), NEW n \in Nat
    PROVE  /\ Consume(b, n) \in BufsOf(Octets)
           /\ Consume(b, n).block = b.block /\ Consume(b, n).mem = b.mem
BY DEF BufsOf, Consume, Smaller

\* A delimiter is found inside the get area, after the position given.
LEMMA DelimiterEndOK ==
    ASSUME NEW Octets, NEW b \in BufsOf(Octets), NEW pos \in Nat
    PROVE  /\ DelimiterEnd(b, pos) \in Nat
           /\ DelimiterEnd(b, pos) # 0 =>
                /\ DelimiterEnd(b, pos) \in (pos + 1)..Size(b)
                /\ Content(b)[DelimiterEnd(b, pos)] = Newline
<1> DEFINE ends == {i \in (pos + 1)..Size(b) : Content(b)[i] = Newline}
<1>1. Size(b) \in Nat
  BY ContentOK
<1>2. CASE ends = {}
  BY <1>2 DEF DelimiterEnd
<1>3. CASE ends # {}
  <2>1. \E i \in ends : \A j \in ends : i <= j
    <3>1. ends \subseteq Nat /\ ends # {}
      BY <1>1, <1>3
    <3> HIDE DEF ends
    <3>2. PICK i \in ends : \A j \in ends : <<j, i>> \notin OpToRel(<, Nat)
      BY <3>1, WFMin, NatLessThanWellFounded
    <3>3. \A j \in ends : ~(j < i)
      BY <3>1, <3>2 DEF OpToRel
    <3> QED BY <3>1, <3>3
  <2>2. DelimiterEnd(b, pos) \in ends
    BY <1>3, <2>1 DEF DelimiterEnd
  <2> QED BY <1>1, <2>2
<1> QED BY <1>2, <1>3

-----------------------------------------------------------------------------
(* The session.                                                            *)

\* A region of the block in use lies inside it, and none is of a block to come.
Fits(c, op) ==
    /\ op.block <= c.buf.block
    /\ op.block = c.buf.block => op.base + op.n <= Len(c.buf.mem)

\* The queue holds the descriptor at most once for each kind it is reported for.
Once(c) ==
    /\ \A i \in DOMAIN c.ready : c.ready[i].kind \in {"in", "out"} => c.ready[i].kind \in c.reported
    /\ \A i, j \in DOMAIN c.ready :
         c.ready[i].kind \in {"in", "out"} /\ c.ready[i].kind = c.ready[j].kind => i = j

\* A write is of a word there is, and when it completes its word has begun.
Started(c, at) == at \in DOMAIN c.words /\ c.words[at].taken > 0

Owned(c) ==
    /\ \A i \in DOMAIN c.writes : c.writes[i] \in DOMAIN c.words
    /\ \A i \in DOMAIN c.ready : c.ready[i].kind = "write" => Started(c, c.ready[i].at)
    /\ \A i \in DOMAIN c.done : c.done[i].kind = "write" => Started(c, c.done[i].at)

Orderly(c) == Once(c) /\ Owned(c)

Wf(c) == c \in Sessions /\ (\A i \in DOMAIN c.reads : Fits(c, c.reads[i])) /\ Orderly(c)

\* The operations started, less those the commands account for.
Reported(c, kind) == IF kind \in c.reported THEN 1 ELSE 0

Items(list) == Len(list)

Listed(c) == Items(c.reads) + Items(c.writes) + Items(c.done) + Items(c.ready)

Work(c) == Listed(c) - Reported(c, "in") - Reported(c, "out") + c.ended - Items(c.heard)

\* What the client has read and the socket holds.
Spoken(c, read) == read \o c.outbox

\* The words written are those of the script.
Scripted(c, script) ==
    /\ Len(c.words) = Len(script)
    /\ \A at \in 1..Len(script) : c.words[at].text = script[at]

\* A byte that may be on the wire is one the socket has taken.
Belongs(c, b) ==
    /\ b.at \in 1..Len(c.words) /\ b.byte <= c.words[b.at].taken
    /\ b.word \in {c.words[b.at].text, Garbled}

\* Byte b may have to be on the wire before byte a.
Precedes(b, a) ==
    IF a.byte > 1 THEN b.at = a.at /\ b.byte = a.byte - 1
                  ELSE b.at = a.at - 1 /\ b.byte = 1

Ordered(wire) ==
    /\ \A i \in 1..Len(wire) :
         wire[i].at + wire[i].byte > 2 => \E j \in 1..(i - 1) : Precedes(wire[j], wire[i])
    /\ \A i \in 1..Len(wire) : \A j \in 1..(i - 1) :
         wire[i].at = wire[j].at => wire[i].byte # wire[j].byte

\* Every byte the socket has taken is on the wire.
Complete(c, wire) ==
    \A at \in 1..Len(c.words) : \A n \in 1..c.words[at].taken :
        \E i \in 1..Len(wire) : wire[i].at = at /\ wire[i].byte = n

Said(c, wire) ==
    /\ \A i \in 1..Len(wire) : Belongs(c, wire[i])
    /\ Ordered(wire)
    /\ ~c.eof => Complete(c, wire)

\* A word of which nothing has been taken is still to be written, in its turn.
Fresh(c, at) == c.words[at].taken = 0

Turns(c) ==
    \A i, j \in 1..Len(c.writes) :
        i < j /\ Fresh(c, c.writes[j]) => c.writes[i] < c.writes[j]

\* All but one, perhaps, wait for it.
Owed(c, except) ==
    \A at \in 1..Len(c.words) :
        Fresh(c, at) => at = except \/ \E i \in 1..Len(c.writes) : c.writes[i] = at

Spells(c, read, script) ==
    /\ Scripted(c, script) /\ Said(c, Spoken(c, read))
    /\ ~c.eof => Turns(c) /\ Owed(c, 0)

Sound(c, read, work, script) ==
    Wf(c) /\ (~c.crashed => Work(c) = work) /\ Spells(c, read, script)

Unstarted(c) ==
    /\ c.ready = <<>> /\ c.reads = <<>> /\ c.writes = <<>> /\ c.done = <<>>
    /\ c.heard = <<>> /\ c.trying = "none" /\ c.room = FALSE

Kept(c, read) ==
    /\ c.started => Sound(c, read, 2, Dialogue(c.heard))
    /\ ~c.started => Unstarted(c) /\ Sound(c, read, 0, <<>>)

IInv == TypeOK /\ Kept(s, got)

-----------------------------------------------------------------------------
(* Records of a session.                                                   *)

Speech == Seq(Bytes)
Reply  == [1..ReplyLength -> Texts]

LEMMA BufsAreBufs == Bufs = BufsOf(Characters) /\ Zero \in Characters
<1>1. Bufs = BufsOf(Characters)  BY DEF Bufs, BufsOf
<1>2. Zero \in Characters  BY DEF Characters
<1> QED  BY <1>1, <1>2

LEMMA Lengths ==
    /\ \A word : Length(word) \in Nat /\ Length(word) >= 2
    /\ ReplyLength \in Nat /\ 1 \in 1..ReplyLength /\ Prompt \in Texts /\ Cleared \in Texts
BY SessionAssumption DEF Length, Texts

LEMMA Fields ==
    ASSUME NEW c \in Sessions
    PROVE  /\ c.buf \in Bufs /\ c.reads \in Seq(ReadOps) /\ c.writes \in Seq(Nat)
           /\ c.words \in Seq(Words)
           /\ c.ready \in Seq(ReadEnds \cup WriteEnds \cup Reports)
           /\ c.done \in Seq(ReadEnds \cup WriteEnds)
           /\ c.inbox \in Seq(Characters) /\ c.outbox \in Speech
           /\ c.reply \in Reply /\ c.reported \subseteq {"in", "out"}
           /\ c.heard \in Seq(Seq(Characters)) /\ c.ended \in Nat
           /\ {c.started, c.crashed, c.eof, c.reset, c.news, c.room} \subseteq BOOLEAN
           /\ c.trying \in {"none", "in", "out"}
BY DEF Sessions, Speech, Reply

LEMMA Counts ==
    ASSUME NEW c \in Sessions
    PROVE  /\ Items(c.reads) \in Nat /\ Items(c.writes) \in Nat /\ Items(c.done) \in Nat
           /\ Items(c.ready) \in Nat /\ Items(c.heard) \in Nat /\ c.ended \in Nat
           /\ Reported(c, "in") \in Nat /\ Reported(c, "out") \in Nat
<1>1. /\ Items(c.reads) \in Nat /\ Items(c.writes) \in Nat /\ Items(c.done) \in Nat
      /\ Items(c.ready) \in Nat /\ Items(c.heard) \in Nat /\ c.ended \in Nat
  BY Fields, LenProperties DEF Items
<1> QED  BY <1>1 DEF Reported

\* A field set to a value of its type.
LEMMA Setting ==
    ASSUME NEW c \in Sessions
    PROVE  /\ \A x \in Bufs : [c EXCEPT !.buf = x] \in Sessions
           /\ \A x \in Reply : [c EXCEPT !.reply = x] \in Sessions
           /\ \A x \in Seq(ReadOps) : [c EXCEPT !.reads = x] \in Sessions
           /\ \A x \in Seq(Nat) : [c EXCEPT !.writes = x] \in Sessions
           /\ \A x \in Seq(Words) : [c EXCEPT !.words = x] \in Sessions
           /\ \A x \in Seq(ReadEnds \cup WriteEnds \cup Reports) :
                [c EXCEPT !.ready = x] \in Sessions
           /\ \A x \in Seq(ReadEnds \cup WriteEnds) : [c EXCEPT !.done = x] \in Sessions
           /\ \A x \in SUBSET {"in", "out"} : [c EXCEPT !.reported = x] \in Sessions
           /\ \A x \in {"none", "in", "out"} : [c EXCEPT !.trying = x] \in Sessions
           /\ \A x \in Seq(Characters) : [c EXCEPT !.inbox = x] \in Sessions
           /\ \A x \in Speech : [c EXCEPT !.outbox = x] \in Sessions
           /\ \A x \in Seq(Seq(Characters)) : [c EXCEPT !.heard = x] \in Sessions
           /\ \A x \in Nat : [c EXCEPT !.ended = x] \in Sessions
           /\ \A x \in BOOLEAN : /\ [c EXCEPT !.started = x] \in Sessions
                                 /\ [c EXCEPT !.crashed = x] \in Sessions
                                 /\ [c EXCEPT !.news = x] \in Sessions
                                 /\ [c EXCEPT !.room = x] \in Sessions
                                 /\ [c EXCEPT !.eof = x] \in Sessions
                                 /\ [c EXCEPT !.reset = x] \in Sessions
<1>1. \A x \in Bufs : [c EXCEPT !.buf = x] \in Sessions
  BY DEF Sessions
<1>2. \A x \in Reply : [c EXCEPT !.reply = x] \in Sessions
  BY DEF Sessions, Reply
<1>3. \A x \in Seq(ReadOps) : [c EXCEPT !.reads = x] \in Sessions
  BY DEF Sessions
<1>4. /\ \A x \in Seq(Nat) : [c EXCEPT !.writes = x] \in Sessions
      /\ \A x \in Seq(Words) : [c EXCEPT !.words = x] \in Sessions
  BY DEF Sessions
<1>5. \A x \in Seq(ReadEnds \cup WriteEnds \cup Reports) : [c EXCEPT !.ready = x] \in Sessions
  BY DEF Sessions
<1>6. \A x \in Seq(ReadEnds \cup WriteEnds) : [c EXCEPT !.done = x] \in Sessions
  BY DEF Sessions
<1>7. \A x \in SUBSET {"in", "out"} : [c EXCEPT !.reported = x] \in Sessions
  BY DEF Sessions
<1>8. \A x \in {"none", "in", "out"} : [c EXCEPT !.trying = x] \in Sessions
  BY DEF Sessions
<1>9. \A x \in Seq(Characters) : [c EXCEPT !.inbox = x] \in Sessions
  BY DEF Sessions
<1>10. \A x \in Speech : [c EXCEPT !.outbox = x] \in Sessions
  BY DEF Sessions, Speech
<1>11. \A x \in Seq(Seq(Characters)) : [c EXCEPT !.heard = x] \in Sessions
  BY DEF Sessions
<1>12. \A x \in Nat : [c EXCEPT !.ended = x] \in Sessions
  BY DEF Sessions
<1>13. ASSUME NEW x \in BOOLEAN
       PROVE  /\ [c EXCEPT !.started = x] \in Sessions /\ [c EXCEPT !.crashed = x] \in Sessions
              /\ [c EXCEPT !.news = x] \in Sessions
  BY DEF Sessions
<1>14. ASSUME NEW x \in BOOLEAN
       PROVE  /\ [c EXCEPT !.room = x] \in Sessions /\ [c EXCEPT !.eof = x] \in Sessions
              /\ [c EXCEPT !.reset = x] \in Sessions
  BY DEF Sessions
<1> QED
  BY <1>1, <1>2, <1>3, <1>4, <1>5, <1>6, <1>7, <1>8, <1>9, <1>10, <1>11, <1>12, <1>13, <1>14

\* A buffer that has what regions of another lie in.
Holds(b, old) ==
    b.block >= old.block /\ (b.block = old.block => Len(b.mem) >= Len(old.mem))

LEMMA StillHolds ==
    ASSUME NEW b \in Bufs, NEW old \in Bufs,
           b.block = old.block, Len(b.mem) = Len(old.mem)
    PROVE  Holds(b, old)
<1>1. Len(b.mem) \in Nat /\ b.block \in Nat
  BY BufsAreBufs, ContentOK DEF Bufs
<1> QED  BY <1>1 DEF Holds

\* The same words, and none of them owed to a client that has left.
LEMMA SaysTheSame ==
    ASSUME NEW c, NEW t, NEW read, NEW script, Spells(c, read, script),
           t.outbox = c.outbox, t.writes = c.writes, t.words = c.words, ~t.eof => ~c.eof
    PROVE  Spells(t, read, script)
<1> DEFINE wire == Spoken(c, read)
<1>1. Spoken(t, read) = wire  BY DEF Spoken
<1> HIDE DEF wire
<1>2. Scripted(t, script) /\ Said(t, wire)
  BY DEF Spells, Scripted, Said, Belongs, Complete, wire
<1>3. ~t.eof => Turns(t) /\ Owed(t, 0)
  BY DEF Spells, Turns, Owed, Fresh
<1> QED  BY <1>1, <1>2, <1>3 DEF Spells

\* The soundness of a session with the same operations and the same words.
LEMMA Framed ==
    ASSUME NEW c, NEW t \in Sessions, NEW read, NEW work, NEW script,
           Sound(c, read, work, script),
           t.reads = c.reads, t.writes = c.writes, t.words = c.words, t.done = c.done, t.ready = c.ready,
           t.reported = c.reported, t.ended = c.ended, t.outbox = c.outbox, t.eof = c.eof,
           t.heard = c.heard, c.crashed => t.crashed,
           Holds(t.buf, c.buf)
    PROVE  Sound(t, read, work, script)
<1>1. c \in Sessions /\ Orderly(c) /\ \A i \in DOMAIN c.reads : Fits(c, c.reads[i])
  BY DEF Sound, Wf
<1>2. \A i \in DOMAIN t.reads : Fits(t, t.reads[i])
  <2>1. ASSUME NEW i \in DOMAIN t.reads  PROVE Fits(t, t.reads[i])
    <3>1. t.reads[i] \in ReadOps
      BY Fields, ElementOfSeq, LenProperties
    <3>2. Fits(c, t.reads[i])  BY <1>1
    <3>3. /\ t.buf.block \in Nat /\ c.buf.block \in Nat
          /\ Len(t.buf.mem) \in Nat /\ Len(c.buf.mem) \in Nat
      BY <1>1, Fields, BufsAreBufs, ContentOK DEF Bufs
    <3> DEFINE op == t.reads[i]
               m == Len(t.buf.mem)
               n == Len(c.buf.mem)
    <3>4. op.base \in Nat /\ op.n \in Nat /\ op.block \in Nat  BY <3>1 DEF ReadOps
    <3>5. op.block <= c.buf.block /\ (op.block = c.buf.block => op.base + op.n <= n)
      BY <3>2 DEF Fits
    <3>6. t.buf.block >= c.buf.block /\ (t.buf.block = c.buf.block => m >= n)
      BY DEF Holds
    <3>7. m \in Nat /\ n \in Nat /\ t.buf.block \in Nat /\ c.buf.block \in Nat
      BY <3>3
    <3> HIDE DEF op, m, n
    <3>8. op.block <= t.buf.block /\ (op.block = t.buf.block => op.base + op.n <= m)
      BY <3>4, <3>5, <3>6, <3>7
    <3> QED  BY <3>8 DEF Fits, op, m
  <2> QED  BY <2>1
<1>3. Orderly(t)  BY <1>1 DEF Orderly, Once, Owned, Started
<1>4. ~t.crashed => Work(t) = work
  BY Zenon DEF Sound, Work, Listed, Reported
<1>5. Spells(t, read, script)
  BY SaysTheSame DEF Sound
<1> QED  BY <1>2, <1>3, <1>4, <1>5 DEF Sound, Wf

LEMMA Rebuffered ==
    ASSUME NEW c, NEW read, NEW work, NEW script, Sound(c, read, work, script),
           NEW b \in Bufs, Holds(b, c.buf)
    PROVE  Sound([c EXCEPT !.buf = b], read, work, script)
<1> DEFINE t == [c EXCEPT !.buf = b]
<1>1. c \in Sessions  BY DEF Sound, Wf
<1>2. t \in Sessions  BY <1>1, Setting
<1>3. /\ t.reads = c.reads /\ t.writes = c.writes /\ t.words = c.words /\ t.done = c.done /\ t.ready = c.ready
      /\ t.reported = c.reported /\ t.ended = c.ended /\ t.outbox = c.outbox
      /\ t.eof = c.eof /\ t.heard = c.heard /\ t.crashed = c.crashed /\ t.buf = b
  BY <1>1 DEF Sessions
<1> HIDE DEF t
<1>4. Sound(t, read, work, script)
  BY <1>2, <1>3, Framed
<1> QED  BY <1>4 DEF t

LEMMA ListedInt ==
    ASSUME NEW c \in Sessions
    PROVE  Listed(c) \in Int /\ Work(c) \in Int
<1>1. Listed(c) \in Int  BY Counts DEF Listed
<1> QED  BY <1>1, Counts DEF Work

LEMMA MoreWork ==
    ASSUME NEW c \in Sessions, NEW t, NEW n \in Int,
           Reported(t, "in") = Reported(c, "in"), Reported(t, "out") = Reported(c, "out"),
           t.ended = c.ended, t.heard = c.heard, Listed(t) = Listed(c) + n
    PROVE  Work(t) = Work(c) + n
BY ListedInt, Counts DEF Work

\* One more operation has completed.
LEMMA Posting ==
    ASSUME NEW c, NEW read, NEW work \in Int, NEW script, Sound(c, read, work, script),
           NEW e \in ReadEnds \cup WriteEnds, e.kind = "write" => Started(c, e.at)
    PROVE  Sound(Post(c, e), read, work + 1, script)
<1> DEFINE t == Post(c, e)
<1>1. c \in Sessions /\ Orderly(c) /\ \A i \in DOMAIN c.reads : Fits(c, c.reads[i])
  BY DEF Sound, Wf
<1>2. /\ Append(c.ready, e) \in Seq(ReadEnds \cup WriteEnds \cup Reports)
      /\ Len(Append(c.ready, e)) = Len(c.ready) + 1
      /\ DOMAIN Append(c.ready, e) = 1..(Len(c.ready) + 1)
      /\ DOMAIN c.ready = 1..Len(c.ready)
      /\ Append(c.ready, e)[Len(c.ready) + 1] = e
      /\ \A i \in 1..Len(c.ready) : Append(c.ready, e)[i] = c.ready[i]
  BY <1>1, Fields, AppendProperties, LenProperties
<1>3. t \in Sessions  BY <1>1, <1>2, Setting DEF Post
<1>4. /\ t.reads = c.reads /\ t.writes = c.writes /\ t.words = c.words /\ t.done = c.done
      /\ t.ready = Append(c.ready, e)
      /\ t.reported = c.reported /\ t.ended = c.ended /\ t.outbox = c.outbox
      /\ t.eof = c.eof /\ t.heard = c.heard /\ t.crashed = c.crashed /\ t.buf = c.buf
  BY <1>1 DEF Sessions, Post
<1> HIDE DEF t
<1>5. \A i \in DOMAIN t.reads : Fits(t, t.reads[i])
  BY <1>1, <1>4 DEF Fits
<1>6. Orderly(t)
  <2>1. e.kind \notin {"in", "out"}  BY DEF ReadEnds, WriteEnds
  <2>2. Len(c.ready) \in Nat  BY <1>1, Fields
  <2>3. \A i \in DOMAIN t.ready : t.ready[i].kind \in {"in", "out"} =>
            i \in DOMAIN c.ready /\ t.ready[i] = c.ready[i]
    BY <1>2, <1>4, <2>1, <2>2
  <2>4. Once(t)  BY <1>1, <1>4, <2>3 DEF Orderly, Once
  <2>5. \A at : Started(c, at) => Started(t, at)  BY <1>4 DEF Started
  <2>6. \A i \in DOMAIN t.ready : \/ i \in DOMAIN c.ready /\ t.ready[i] = c.ready[i]
                                  \/ t.ready[i] = e
    BY <1>2, <1>4, <2>2
  <2>7. Owned(t)  BY <1>1, <1>4, <2>5, <2>6 DEF Orderly, Owned
  <2> QED  BY <2>4, <2>7 DEF Orderly
<1>7. ~t.crashed => Work(t) = work + 1
  <2>1. Reported(t, "in") = Reported(c, "in") /\ Reported(t, "out") = Reported(c, "out")
    BY <1>4 DEF Reported
  <2>2. ~c.crashed => Work(c) = work  BY DEF Sound
  <2>3. /\ Items(t.ready) = Items(c.ready) + 1 /\ Items(t.reads) = Items(c.reads)
        /\ Items(t.writes) = Items(c.writes) /\ Items(t.done) = Items(c.done)
    BY <1>2, <1>4 DEF Items
  <2>4. Listed(t) = Listed(c) + 1
    BY <1>1, <2>3, Counts DEF Listed
  <2>5. Work(t) = Work(c) + 1
    BY <1>1, <1>4, <2>1, <2>4, MoreWork
  <2> QED  BY <1>4, <2>2, <2>5
<1>8. Spells(t, read, script)
  BY <1>4, SaysTheSame DEF Sound
<1> QED  BY <1>3, <1>5, <1>6, <1>7, <1>8 DEF Sound, Wf, t

\* One more read waits.
LEMMA Waiting ==
    ASSUME NEW c, NEW read, NEW work \in Int, NEW script, Sound(c, read, work, script),
           NEW op \in ReadOps, Fits(c, op)
    PROVE  Sound([c EXCEPT !.reads = Append(@, op)], read, work + 1, script)
<1> DEFINE t == [c EXCEPT !.reads = Append(@, op)]
<1>1. c \in Sessions /\ Orderly(c) /\ \A i \in DOMAIN c.reads : Fits(c, c.reads[i])
  BY DEF Sound, Wf
<1>2. /\ Append(c.reads, op) \in Seq(ReadOps)
      /\ Len(Append(c.reads, op)) = Len(c.reads) + 1
      /\ DOMAIN Append(c.reads, op) = 1..(Len(c.reads) + 1)
      /\ DOMAIN c.reads = 1..Len(c.reads)
      /\ Append(c.reads, op)[Len(c.reads) + 1] = op
      /\ \A i \in 1..Len(c.reads) : Append(c.reads, op)[i] = c.reads[i]
  BY <1>1, Fields, AppendProperties, LenProperties
<1>3. t \in Sessions  BY <1>1, <1>2, Setting
<1>4. /\ t.reads = Append(c.reads, op) /\ t.writes = c.writes /\ t.words = c.words /\ t.done = c.done
      /\ t.ready = c.ready
      /\ t.reported = c.reported /\ t.ended = c.ended /\ t.outbox = c.outbox
      /\ t.eof = c.eof /\ t.heard = c.heard /\ t.crashed = c.crashed /\ t.buf = c.buf
  BY <1>1 DEF Sessions
<1> HIDE DEF t
<1>5. \A i \in DOMAIN t.reads : Fits(t, t.reads[i])
  <2>1. Len(c.reads) \in Nat  BY <1>1, Fields
  <2>2. \A i \in DOMAIN t.reads : t.reads[i] = op \/ (i \in DOMAIN c.reads /\ t.reads[i] = c.reads[i])
    BY <1>2, <1>4, <2>1
  <2>3. \A o : Fits(c, o) <=> Fits(t, o)  BY <1>4 DEF Fits
  <2> QED  BY <1>1, <2>2, <2>3
<1>6. Orderly(t)  BY <1>1, <1>4 DEF Orderly, Once, Owned, Started
<1>7. ~t.crashed => Work(t) = work + 1
  <2>1. Reported(t, "in") = Reported(c, "in") /\ Reported(t, "out") = Reported(c, "out")
    BY <1>4 DEF Reported
  <2>2. ~c.crashed => Work(c) = work  BY DEF Sound
  <2>3. /\ Items(t.reads) = Items(c.reads) + 1 /\ Items(t.ready) = Items(c.ready)
        /\ Items(t.writes) = Items(c.writes) /\ Items(t.done) = Items(c.done)
    BY <1>2, <1>4 DEF Items
  <2>4. Listed(t) = Listed(c) + 1
    BY <1>1, <2>3, Counts DEF Listed
  <2>5. Work(t) = Work(c) + 1
    BY <1>1, <1>4, <2>1, <2>4, MoreWork
  <2> QED  BY <1>4, <2>2, <2>5
<1>8. Spells(t, read, script)
  BY <1>4, SaysTheSame DEF Sound
<1> QED  BY <1>3, <1>5, <1>6, <1>7, <1>8 DEF Sound, Wf, t

\* The bytes of a read go where its region is, if that is still there.
LEMMA Receiving ==
    ASSUME NEW c, NEW read, NEW work, NEW script, Sound(c, read, work, script),
           NEW op \in ReadOps, Fits(c, op)
    PROVE  /\ Sound(Receive(c, op), read, work, script)
           /\ Received(c, op) \in ReadEnds
<1> DEFINE bytes == SubSeq(c.inbox, 1, Count(c, op))
           b == IF op.block = c.buf.block THEN Store(c.buf, op.base, bytes) ELSE c.buf
           rest == SubSeq(c.inbox, Count(c, op) + 1, Len(c.inbox))
           d == [c EXCEPT !.buf = b]
           t == [d EXCEPT !.inbox = rest]
<1>1. c \in Sessions /\ c.inbox \in Seq(Characters) /\ Len(c.inbox) \in Nat /\ c.buf \in Bufs
  BY Fields, LenProperties DEF Sound, Wf
<1>2. Count(c, op) \in Nat /\ Count(c, op) <= op.n /\ Count(c, op) <= Len(c.inbox)
      /\ op.n \in Nat /\ op.base \in Nat
  BY <1>1 DEF Count, ReadOps
<1>3. bytes \in Seq(Characters) /\ Len(bytes) = Count(c, op) /\ rest \in Seq(Characters)
  BY <1>1, <1>2, Piece
<1>4. b \in Bufs /\ Holds(b, c.buf)
  <2>1. CASE op.block = c.buf.block
    <3>1. op.base + Len(bytes) <= Len(c.buf.mem)
      <4>1. op.base + op.n <= Len(c.buf.mem)  BY <2>1 DEF Fits
      <4>2. Len(c.buf.mem) \in Nat  BY <1>1, BufsAreBufs, ContentOK
      <4> HIDE DEF bytes
      <4> QED  BY <1>2, <1>3, <4>1, <4>2
    <3> DEFINE x == Store(c.buf, op.base, bytes)
    <3>2. x \in Bufs /\ x.block = c.buf.block /\ Len(x.mem) = Len(c.buf.mem)
      <4> DEFINE y == c.buf
                 z == bytes
      <4>1. /\ y \in BufsOf(Characters) /\ op.base \in Nat /\ z \in Seq(Characters)
            /\ op.base + Len(z) <= Len(y.mem)
        BY <1>1, <1>2, <1>3, <3>1, BufsAreBufs
      <4> HIDE DEF y, z
      <4>2. /\ Store(y, op.base, z) \in BufsOf(Characters)
            /\ Store(y, op.base, z).block = y.block
            /\ Len(Store(y, op.base, z).mem) = Len(y.mem)
        BY <4>1, StoreOK
      <4> QED  BY <4>2, BufsAreBufs DEF y, z
    <3> HIDE DEF x
    <3>3. Holds(x, c.buf)  BY <1>1, <3>2, StillHolds
    <3> QED  BY <2>1, <3>2, <3>3 DEF x
  <2>2. CASE op.block # c.buf.block
    BY <1>1, <2>2, StillHolds
  <2> QED  BY <2>1, <2>2
<1>5. Sound(d, read, work, script)
  <2> HIDE DEF b
  <2> QED  BY <1>4, Rebuffered
<1>6. d \in Sessions /\ t \in Sessions
  <2> HIDE DEF b, rest
  <2> QED  BY <1>1, <1>3, <1>4, Setting
<1>7. t = Receive(c, op)
  <2>1. [c EXCEPT !.inbox = rest, !.buf = b] = t
    <3> HIDE DEF b, rest
    <3> QED  BY <1>1 DEF Sessions
  <2> QED  BY <2>1 DEF Receive
<1>8. /\ t.reads = d.reads /\ t.writes = d.writes /\ t.words = d.words /\ t.done = d.done /\ t.ready = d.ready
      /\ t.reported = d.reported /\ t.ended = d.ended /\ t.outbox = d.outbox
      /\ t.eof = d.eof /\ t.heard = d.heard /\ t.crashed = d.crashed /\ t.buf = d.buf
  <2> HIDE DEF b, rest
  <2> QED  BY <1>6 DEF Sessions
<1>9. Sound(t, read, work, script)
  <2>1. d.buf \in Bufs  BY <1>6, Fields
  <2>2. Holds(t.buf, d.buf)  BY <1>8, <2>1, StillHolds
  <2> HIDE DEF d, t
  <2> QED  BY <1>5, <1>6, <1>8, <2>2, Framed
<1>10. Received(c, op) \in ReadEnds
  BY <1>2 DEF Received, ReadEnds, ReadOps
<1> QED  BY <1>7, <1>9, <1>10

-----------------------------------------------------------------------------
(* asio's reads and writes, and the handlers.                              *)

LEMMA ReadingSome ==
    ASSUME NEW c, NEW read, NEW work \in Int, NEW script, Sound(c, read, work, script),
           NEW pos \in Nat
    PROVE  Sound(AsyncReadSome(c, pos), read, work + 1, script)
<1> DEFINE n  == ReadSize(c.buf)
           b  == Reserve(c.buf, n)
           d  == [c EXCEPT !.buf = b]
           op == [pos |-> pos, base |-> b.put, n |-> n, block |-> b.block]
<1>1. c \in Sessions /\ c.buf \in Bufs /\ c.buf \in BufsOf(Characters) /\ n \in Nat
  BY Fields, BufsAreBufs, ReadSizeOK DEF Sound, Wf
<1>2. /\ b \in Bufs /\ b.put + n <= Len(b.mem) /\ Holds(b, c.buf)
      /\ b.put \in Nat /\ b.block \in Nat
  <2> HIDE DEF n
  <2>1. /\ b \in BufsOf(Characters) /\ b.put + n <= Len(b.mem) /\ b.block >= c.buf.block
        /\ b.block = c.buf.block => Len(b.mem) >= Len(c.buf.mem)
    BY <1>1, BufsAreBufs, ReserveOK
  <2>2. b.put \in Nat /\ b.block \in Nat
    <3> HIDE DEF b
    <3> QED  BY <2>1 DEF BufsOf
  <2> HIDE DEF b
  <2> QED  BY <2>1, <2>2, BufsAreBufs DEF Holds
<1>3. Sound(d, read, work, script) /\ d.buf = b /\ d \in Sessions /\ d.reads = c.reads
  <2> HIDE DEF b
  <2>1. Sound([c EXCEPT !.buf = b], read, work, script)  BY <1>2, Rebuffered
  <2>2. [c EXCEPT !.buf = b].buf = b /\ [c EXCEPT !.buf = b].reads = c.reads
    BY <1>1 DEF Sessions
  <2> QED  BY <2>1, <2>2 DEF Sound, Wf
<1>4. op \in ReadOps /\ Fits(d, op)
  <2> HIDE DEF n, b
  <2>1. op \in ReadOps  BY <1>1, <1>2 DEF ReadOps
  <2> HIDE DEF d
  <2>2. op.block = d.buf.block /\ op.base + op.n <= Len(d.buf.mem) /\ op.block \in Nat
    BY <1>2, <1>3
  <2> QED  BY <2>1, <2>2 DEF Fits
<1>5. AsyncReadSome(c, pos) = IF c.reads = <<>> /\ Readable(c)
                              THEN Post(Receive(d, op), Received(d, op))
                              ELSE [d EXCEPT !.reads = Append(@, op)]
  BY DEF AsyncReadSome
<1> HIDE DEF op, d
<1>6. Sound(Post(Receive(d, op), Received(d, op)), read, work + 1, script)
  <2>1. Sound(Receive(d, op), read, work, script) /\ Received(d, op) \in ReadEnds
    BY <1>3, <1>4, Receiving
  <2>2. Received(d, op).kind # "write"  BY <2>1 DEF ReadEnds
  <2> QED  BY <2>1, <2>2, Posting
<1>7. Sound([d EXCEPT !.reads = Append(@, op)], read, work + 1, script)
  BY <1>3, <1>4, Waiting
<1> QED  BY <1>5, <1>6, <1>7

LEMMA ReadingUntil ==
    ASSUME NEW c, NEW read, NEW work \in Int, NEW script, Sound(c, read, work, script)
    PROVE  Sound(AsyncReadUntil(c), read, work + 1, script)
<1> DEFINE end == DelimiterEnd(c.buf, 0)
<1>1. c.buf \in BufsOf(Characters)
  BY Fields, BufsAreBufs DEF Sound, Wf
<1>2. end \in Nat /\ Size(c.buf) \in Nat
  BY <1>1, ContentOK, DelimiterEndOK
<1> DEFINE e == [kind |-> "read", pos |-> end, n |-> 0, error |-> FALSE]
<1> HIDE DEF end
<1>3. e \in ReadEnds /\ e.kind # "write"
  BY <1>2 DEF ReadEnds
<1>4. AsyncReadUntil(c) = IF end > 0 THEN Post(c, e) ELSE AsyncReadSome(c, Size(c.buf))
  BY DEF AsyncReadUntil, end
<1> HIDE DEF e
<1>5. Sound(Post(c, e), read, work + 1, script)
  BY <1>3, Posting
<1>6. Sound(AsyncReadSome(c, Size(c.buf)), read, work + 1, script)
  BY <1>2, ReadingSome
<1> QED  BY <1>4, <1>5, <1>6

\* Of two texts one after the other, the first keeps its places and the second
\* follows it.
LEMMA OneAfterOther ==
    ASSUME NEW S, NEW a \in Seq(S), NEW b \in Seq(S)
    PROVE  /\ Len(a \o b) = Len(a) + Len(b)
           /\ \A i \in 1..Len(a) : (a \o b)[i] = a[i]
           /\ \A i \in 1..Len(b) : (a \o b)[Len(a) + i] = b[i]
<1> DEFINE w == a \o b
           k == Len(a)
           m == Len(b)
<1>1. /\ k \in Nat /\ m \in Nat /\ Len(w) = k + m
      /\ \A i \in 1..(k + m) : w[i] = IF i <= k THEN a[i] ELSE b[i - k]
  BY ConcatProperties, LenProperties
<1> HIDE DEF w, k, m
<1>2. \A i \in 1..k : w[i] = a[i]
  BY <1>1
<1>3. ASSUME NEW i \in 1..m  PROVE w[k + i] = b[i]
  <2>1. k + i \in 1..(k + m) /\ ~(k + i <= k) /\ (k + i) - k = i
    BY <1>1
  <2> QED  BY <1>1, <2>1
<1> QED  BY <1>1, <1>2, <1>3 DEF w, k, m

\* Putting texts one after the other does not depend on the grouping.
LEMMA Regroup ==
    ASSUME NEW S, NEW x \in Seq(S), NEW y \in Seq(S), NEW z \in Seq(S)
    PROVE  x \o (y \o z) = (x \o y) \o z
OBVIOUS

\* A send takes some bytes of a word: they follow what is on the wire.
LEMMA Transmitting ==
    ASSUME NEW c \in Sessions, NEW read \in Speech, NEW script, NEW at \in DOMAIN c.words,
           Writable(c), \A i \in DOMAIN c.writes : c.writes[i] \in DOMAIN c.words,
           Scripted(c, script), Said(c, Spoken(c, read)),
           ~c.eof => Turns(c) /\ Owed(c, at),
           ~c.eof /\ Fresh(c, at) /\ at > 1 => ~Fresh(c, at - 1)
    PROVE  LET t == Transmit(c, at)
           IN  /\ t \in Sessions /\ Spells(t, read, script)
               /\ DOMAIN t.words = DOMAIN c.words /\ Started(t, at)
               /\ \A b : Started(c, b) => Started(t, b)
               /\ t.reads = c.reads /\ t.writes = c.writes /\ t.done = c.done
               /\ t.ready = c.ready /\ t.started = c.started
               /\ t.reported = c.reported /\ t.ended = c.ended
               /\ t.eof = c.eof /\ t.heard = c.heard /\ t.crashed = c.crashed
               /\ t.buf = c.buf /\ t.reset = c.reset
<1> DEFINE word == c.words[at]
           taken == word.taken
           rest == Length(word.text) - taken
           n == IF c.eof THEN rest ELSE Smaller(rest, SendRoom - Len(c.outbox))
           Byte(i) == [at |-> at, byte |-> i,
                       word |-> IF c.reply[i] = word.text THEN word.text ELSE Garbled]
           new == [i \in 1..n |-> Byte(taken + i)]
           ws == [c.words EXCEPT ![at].taken = taken + n]
           ob == IF c.eof THEN c.outbox ELSE c.outbox \o new
           x == [c EXCEPT !.words = ws]
           t == [x EXCEPT !.outbox = ob]
           wire == Spoken(c, read)
           l == Len(wire)
           m == Len(c.words)
<1>1. /\ c.words \in Seq(Words) /\ m \in Nat /\ DOMAIN c.words = 1..m /\ at \in 1..m
      /\ c.outbox \in Speech /\ Len(c.outbox) \in Nat /\ c.eof \in BOOLEAN
  BY Fields, LenProperties DEF Speech
<1>2. /\ word \in Words /\ word.text \in Texts /\ taken \in Nat
      /\ Length(word.text) \in Nat /\ Length(word.text) >= 2 /\ taken <= Length(word.text)
  <2>1. word \in Words  BY <1>1, ElementOfSeq
  <2> QED  BY <2>1, Lengths DEF Words
<1>3. n \in Nat /\ taken + n \in Nat /\ taken + n > 0 /\ taken + n <= Length(word.text)
  <2> HIDE DEF word
  <2>1. SendRoom \in Nat  BY SessionAssumption
  <2>2. CASE c.eof
    <3>1. n = Length(word.text) - taken  BY <2>2
    <3> HIDE DEF n
    <3> QED  BY <1>2, <3>1
  <2>3. CASE ~c.eof
    <3> DEFINE free == SendRoom - Len(c.outbox)
    <3>1. free \in Nat /\ free > 0  BY <1>1, <2>1, <2>3 DEF Writable
    <3>2. n = IF rest < free THEN rest ELSE free  BY <2>3 DEF Smaller
    <3> HIDE DEF n, free
    <3> QED  BY <1>2, <3>1, <3>2
  <2> QED  BY <2>2, <2>3
<1>4. /\ new \in Speech /\ Len(new) = n
      /\ \A i \in 1..n : /\ new[i].at = at /\ new[i].byte = taken + i
                         /\ new[i].word \in {word.text, Garbled}
  <2> HIDE DEF word, n, taken
  <2>1. \A i \in 1..n : Byte(taken + i) \in Bytes
    BY <1>1, <1>2, <1>3 DEF Bytes
  <2>2. new \in Seq(Bytes)
    <3> HIDE DEF Byte
    <3> QED  BY <1>3, <2>1, IsASeq
  <2> QED  BY <1>3, <2>2 DEF Speech
<1> HIDE DEF new
<1>5. /\ ws \in Seq(Words) /\ Len(ws) = m /\ DOMAIN ws = 1..m
      /\ ws[at].text = word.text /\ ws[at].taken = taken + n
      /\ \A b \in 1..m : b # at => ws[b] = c.words[b]
  <2> DEFINE longer == [word EXCEPT !.taken = taken + n]
  <2>1. longer \in Words /\ longer.text = word.text /\ longer.taken = taken + n
    BY <1>2, <1>3 DEF Words
  <2>2. ws = [c.words EXCEPT ![at] = longer]
    OBVIOUS
  <2> HIDE DEF longer, n
  <2>3. [c.words EXCEPT ![at] = longer] \in Seq(Words)
        /\ Len([c.words EXCEPT ![at] = longer]) = m
    BY <1>1, <2>1, ExceptSeq
  <2> QED  BY <1>1, <2>1, <2>2, <2>3, LenProperties
<1>6. ob \in Speech
  BY <1>1, <1>4, ConcatProperties DEF Speech
<1>7. Transmit(c, at) = t
  <2>1. Transmit(c, at) = [c EXCEPT !.words[at].taken = @ + n,
                                    !.outbox = IF c.eof THEN @ ELSE @ \o new]
    BY DEF Transmit, new
  <2> HIDE DEF new, n
  <2>2. [c EXCEPT !.words[at].taken = @ + n, !.outbox = IF c.eof THEN @ ELSE @ \o new]
          = [c EXCEPT !.words = ws, !.outbox = ob]
    OBVIOUS
  <2> QED  BY <2>1, <2>2
<1> HIDE DEF ws, ob
<1>8. x \in Sessions  BY <1>5, Setting
<1>9. t \in Sessions
  <2> HIDE DEF x
  <2> QED  BY <1>6, <1>8, Setting
<1>10. /\ t.reads = c.reads /\ t.writes = c.writes /\ t.done = c.done
       /\ t.ready = c.ready /\ t.started = c.started
       /\ t.reported = c.reported /\ t.ended = c.ended /\ t.outbox = ob /\ t.words = ws
       /\ t.eof = c.eof /\ t.heard = c.heard /\ t.crashed = c.crashed /\ t.buf = c.buf
       /\ t.reset = c.reset
  BY DEF Sessions
<1> HIDE DEF t, x
<1>11. DOMAIN t.words = 1..m /\ Started(t, at) /\ \A b : Started(c, b) => Started(t, b)
  BY <1>1, <1>3, <1>5, <1>10 DEF Started
<1>12. Scripted(t, script)
  BY <1>1, <1>5, <1>10 DEF Scripted
<1>13. wire \in Speech /\ l \in Nat
  BY <1>1, ConcatProperties, LenProperties DEF Spoken, Speech
<1>14. \A i \in 1..l : Belongs(t, wire[i])
  <2> SUFFICES ASSUME NEW i \in 1..l  PROVE Belongs(t, wire[i])
    OBVIOUS
  <2>1. Belongs(c, wire[i])  BY DEF Said
  <2>2. wire[i] \in Bytes  BY <1>13, ElementOfSeq DEF Speech
  <2> DEFINE b == wire[i]
  <2>3. b.at \in 1..m /\ b.byte <= c.words[b.at].taken
        /\ b.word \in {c.words[b.at].text, Garbled} /\ b.byte \in Nat
    BY <2>1, <2>2 DEF Belongs, Bytes
  <2> HIDE DEF b, wire, n
  <2>4. b.byte <= ws[b.at].taken /\ ws[b.at].text = c.words[b.at].text
    <3>1. CASE b.at = at
      BY <1>2, <1>3, <1>5, <2>3, <3>1
    <3>2. CASE b.at # at
      BY <1>5, <2>3, <3>2
    <3> QED  BY <3>1, <3>2
  <2>5. Belongs(t, b)
    BY <1>5, <1>10, <2>3, <2>4 DEF Belongs
  <2> QED  BY <2>5 DEF b
<1>15. Said(t, Spoken(t, read))
  <2>1. CASE c.eof
    <3>1. Spoken(t, read) = wire  BY <1>10, <2>1 DEF Spoken, ob
    <3> QED  BY <1>10, <1>14, <2>1, <3>1 DEF Said
  <2>2. CASE ~c.eof
    <3> DEFINE long == wire \o new
    <3>1. Spoken(t, read) = long
      <4>1. Spoken(t, read) = read \o (c.outbox \o new)
        BY <1>10, <2>2 DEF Spoken, ob
      <4>2. read \in Seq(Bytes) /\ c.outbox \in Seq(Bytes) /\ new \in Seq(Bytes)
        BY <1>1, <1>4 DEF Speech
      <4> HIDE DEF new
      <4>3. read \o (c.outbox \o new) = (read \o c.outbox) \o new
        <5> DEFINE a == c.outbox
                   b == read
                   d == new
                   S == Bytes
        <5>1. a \in Seq(S) /\ b \in Seq(S) /\ d \in Seq(S)  BY <4>2
        <5> HIDE DEF a, b, d, S
        <5>2. b \o (a \o d) = (b \o a) \o d  BY <5>1, Regroup
        <5> QED  BY <5>2 DEF a, b, d
      <4> QED  BY <4>1, <4>3 DEF Spoken
    <3>2. /\ Len(long) = l + n /\ \A i \in 1..l : long[i] = wire[i]
          /\ \A i \in 1..n : long[l + i] = new[i]
      <4> HIDE DEF wire, new, n
      <4>1. wire \in Seq(Bytes) /\ new \in Seq(Bytes)  BY <1>4, <1>13 DEF Speech
      <4>2. /\ Len(wire \o new) = Len(wire) + Len(new)
            /\ \A i \in 1..Len(wire) : (wire \o new)[i] = wire[i]
            /\ \A i \in 1..Len(new) : (wire \o new)[Len(wire) + i] = new[i]
        BY <4>1, OneAfterOther
      <4>3. Len(new) = n  BY <1>4
      <4> QED  BY <4>2, <4>3
    <3>3. Complete(c, wire) /\ Ordered(wire)  BY <2>2 DEF Said
    <3> HIDE DEF long
    <3>4. \A i \in 1..(l + n) : \/ i \in 1..l /\ long[i] = wire[i]
                                \/ i - l \in 1..n /\ long[i] = new[i - l]
      <4> HIDE DEF l, n, wire
      <4> TAKE i \in 1..(l + n)
      <4>1. i \in 1..l \/ (i - l \in 1..n /\ l + (i - l) = i)
        BY <1>3, <1>13
      <4> QED  BY <3>2, <4>1
    <3>5. \A i \in 1..n : Belongs(t, new[i])
      <4> HIDE DEF n, taken, word
      <4> QED  BY <1>1, <1>2, <1>3, <1>4, <1>5, <1>10 DEF Belongs
    <3>6. \A i \in 1..l : wire[i] \in Bytes /\ Belongs(c, wire[i])
      BY <1>13, ElementOfSeq DEF Said, Speech
    <3> HIDE DEF wire, l, n
    <3>7. \A i \in 1..Len(long) : Belongs(t, long[i])
      BY <1>14, <3>2, <3>4, <3>5
    <3>8. ASSUME NEW i \in 1..(l + n), long[i].at + long[i].byte > 2
          PROVE  \E j \in 1..(i - 1) : Precedes(long[j], long[i])
      <4>1. CASE i \in 1..l /\ long[i] = wire[i]
        <5>1. PICK j \in 1..(i - 1) : Precedes(wire[j], wire[i])
          BY <3>3, <3>8, <4>1 DEF Ordered, l
        <5>2. long[j] = wire[j]  BY <1>13, <3>2, <4>1
        <5> QED  BY <4>1, <5>1, <5>2
      <4>2. CASE i - l \in 1..n /\ long[i] = new[i - l]
        <5> DEFINE k == i - l
        <5>1. k \in 1..n /\ i = l + k /\ long[i].at = at /\ long[i].byte = taken + k
          BY <1>3, <1>4, <1>13, <4>2
        <5> HIDE DEF k
        <5>2. CASE k > 1
          <6>1. k - 1 \in 1..n /\ l + (k - 1) = i - 1 /\ i - 1 \in 1..(i - 1)
            BY <1>3, <1>13, <5>1, <5>2
          <6>2. long[i - 1] = new[k - 1]  BY <3>2, <6>1
          <6>3. long[i - 1].at = at /\ long[i - 1].byte = taken + (k - 1)
            BY <1>4, <6>1, <6>2
          <6>4. taken + k > 1 /\ taken + (k - 1) = (taken + k) - 1
            <7> HIDE DEF taken
            <7> QED  BY <1>2, <1>3, <5>1, <5>2
          <6>5. Precedes(long[i - 1], long[i])
            BY <5>1, <6>3, <6>4 DEF Precedes
          <6> QED  BY <6>1, <6>5
        <5>3. CASE k = 1 /\ taken > 0
          <6>1. taken \in 1..taken  BY <1>2, <5>3
          <6>2. PICK j \in 1..l : wire[j].at = at /\ wire[j].byte = taken
            <7>1. \A p \in 1..c.words[at].taken :
                     \E j \in 1..l : wire[j].at = at /\ wire[j].byte = p
              BY <1>1, <3>3 DEF Complete, l
            <7> HIDE DEF l
            <7> QED  BY <6>1, <7>1
          <6>3. long[j] = wire[j] /\ j \in 1..(i - 1)
            BY <1>13, <3>2, <5>1, <5>3
          <6>4. taken + k > 1 /\ taken = (taken + k) - 1
            <7> HIDE DEF taken
            <7> QED  BY <1>2, <1>3, <5>1, <5>3
          <6>5. Precedes(long[j], long[i])
            BY <5>1, <6>2, <6>3, <6>4 DEF Precedes
          <6> QED  BY <6>3, <6>5
        <5>4. CASE k = 1 /\ taken = 0
          <6>1. long[i].byte = 1 /\ at > 1
            BY <1>1, <3>8, <5>1, <5>4
          <6>2. at - 1 \in 1..m /\ c.words[at - 1].taken # 0
            BY <1>1, <2>2, <5>4, <6>1 DEF Fresh
          <6>3. c.words[at - 1].taken \in Nat
            <7>1. c.words[at - 1] \in Words  BY <1>1, <6>2, ElementOfSeq
            <7> QED  BY <7>1 DEF Words
          <6>4. 1 \in 1..c.words[at - 1].taken
            BY <6>2, <6>3
          <6>5. PICK j \in 1..l : wire[j].at = at - 1 /\ wire[j].byte = 1
            BY <3>3, <6>2, <6>4 DEF Complete, l
          <6>6. long[j] = wire[j] /\ j \in 1..(i - 1)
            BY <1>13, <3>2, <5>1, <5>4
          <6>7. Precedes(long[j], long[i])
            BY <5>1, <6>1, <6>5, <6>6 DEF Precedes
          <6> QED  BY <6>6, <6>7
        <5> QED
          <6> HIDE DEF taken
          <6> QED  BY <1>2, <1>3, <5>1, <5>2, <5>3, <5>4
      <4> QED  BY <3>4, <4>1, <4>2
    <3>9. ASSUME NEW i \in 1..(l + n), NEW j \in 1..(i - 1), long[i].at = long[j].at
          PROVE  long[i].byte # long[j].byte
      <4>0. j \in 1..(l + n)  BY <1>3, <1>13
      <4>1. CASE i \in 1..l
        <5>1. long[i] = wire[i] /\ long[j] = wire[j]
          BY <1>13, <3>2, <4>1
        <5> QED  BY <3>3, <3>9, <4>1, <5>1 DEF Ordered, l
      <4>2. CASE i \notin 1..l /\ j \in 1..l
        <5>1. i - l \in 1..n /\ long[i] = new[i - l] /\ long[j] = wire[j]
          BY <3>2, <3>4, <4>2
        <5>2. wire[j].byte <= c.words[wire[j].at].taken /\ wire[j].byte \in Nat
          BY <3>6, <4>2 DEF Belongs, Bytes
        <5>3. long[i].byte = taken + (i - l) /\ wire[j].byte <= taken
          BY <1>4, <3>9, <5>1, <5>2
        <5> DEFINE k == i - l
                   b == wire[j].byte
        <5> HIDE DEF taken, k, b
        <5>4. k \in Nat /\ k > 0  BY <1>3, <5>1 DEF k
        <5>5. taken + k # b  BY <1>2, <5>2, <5>3, <5>4 DEF b
        <5> QED  BY <5>1, <5>3, <5>5 DEF k, b
      <4>3. CASE i \notin 1..l /\ j \notin 1..l
        <5>1. /\ i - l \in 1..n /\ long[i] = new[i - l]
              /\ j - l \in 1..n /\ long[j] = new[j - l]
          BY <3>4, <4>0, <4>3
        <5>2. long[i].byte = taken + (i - l) /\ long[j].byte = taken + (j - l)
          BY <1>4, <5>1
        <5> HIDE DEF taken
        <5> QED  BY <1>2, <1>3, <1>13, <5>2
      <4> QED  BY <4>1, <4>2, <4>3
    <3>10. Ordered(long)
      BY <3>2, <3>8, <3>9 DEF Ordered
    <3>11. ASSUME NEW b \in 1..m, NEW k \in 1..ws[b].taken
           PROVE  \E i \in 1..(l + n) : long[i].at = b /\ long[i].byte = k
      <4>1. CASE k \in 1..c.words[b].taken
        <5>1. PICK i \in 1..l : wire[i].at = b /\ wire[i].byte = k
          BY <3>3, <4>1 DEF Complete, l
        <5>2. i \in 1..(l + n) /\ long[i] = wire[i]
          BY <1>3, <1>13, <3>2
        <5> QED  BY <5>1, <5>2
      <4>2. CASE k \notin 1..c.words[b].taken
        <5>1. b = at  BY <1>5, <3>11, <4>2
        <5>2. k \in 1..(taken + n) /\ k \notin 1..taken
          BY <1>5, <3>11, <4>2, <5>1
        <5> HIDE DEF taken
        <5> DEFINE i == k - taken
        <5>3. i \in 1..n /\ taken + i = k /\ l + i \in 1..(l + n)
          BY <1>2, <1>3, <1>13, <5>2
        <5> HIDE DEF i
        <5>4. long[l + i].at = at /\ long[l + i].byte = k
          BY <1>4, <3>2, <5>3
        <5> QED  BY <5>1, <5>3, <5>4
      <4> QED  BY <4>1, <4>2
    <3>12. Complete(t, long)
      BY <1>5, <1>10, <3>2, <3>11 DEF Complete
    <3> QED  BY <3>1, <3>7, <3>10, <3>12 DEF Said
  <2> QED  BY <2>1, <2>2
<1>16. ~t.eof => Turns(t) /\ Owed(t, 0)
  <2> SUFFICES ASSUME ~c.eof  PROVE Turns(t) /\ Owed(t, 0)
    BY <1>10
  <2>1. \A b \in 1..m : Fresh(t, b) => b # at /\ Fresh(c, b)
    <3> HIDE DEF n, taken, word
    <3> QED  BY <1>1, <1>3, <1>5, <1>10 DEF Fresh
  <2>2. \A i \in 1..Len(c.writes) : Fresh(t, c.writes[i]) => Fresh(c, c.writes[i])
    <3>1. DOMAIN c.writes = 1..Len(c.writes)  BY Fields, LenProperties
    <3> QED  BY <1>1, <2>1, <3>1
  <2>3. Turns(t)  BY <1>10, <2>2 DEF Turns
  <2>4. Owed(t, 0)  BY <1>5, <1>10, <2>1 DEF Owed
  <2> QED  BY <2>3, <2>4
<1> QED  BY <1>1, <1>7, <1>9, <1>10, <1>11, <1>12, <1>15, <1>16 DEF Spells

\* One more write has been started: it is tried if no other waits.
LEMMA WritingSome ==
    ASSUME NEW c, NEW read \in Speech, NEW work \in Int, NEW script, NEW at \in DOMAIN c.words,
           Wf(c), ~c.crashed => Work(c) = work,
           Scripted(c, script), Said(c, Spoken(c, read)), ~c.eof => Turns(c) /\ Owed(c, at),
           Fresh(c, at) => \A i \in DOMAIN c.writes : c.writes[i] < at
    PROVE  LET t == AsyncWriteSome(c, at)
           IN  Sound(t, read, work + 1, script) /\ t.heard = c.heard /\ t.started = c.started
<1>1. /\ c \in Sessions /\ Orderly(c) /\ \A i \in DOMAIN c.reads : Fits(c, c.reads[i])
      /\ \A i \in DOMAIN c.writes : c.writes[i] \in DOMAIN c.words
  BY DEF Wf, Orderly, Owned
<1>2. /\ c.words \in Seq(Words) /\ DOMAIN c.words = 1..Len(c.words) /\ Len(c.words) \in Nat
      /\ c.writes \in Seq(Nat) /\ DOMAIN c.writes = 1..Len(c.writes) /\ Len(c.writes) \in Nat
      /\ at \in Nat
  <2>1. c.words \in Seq(Words) /\ c.writes \in Seq(Nat)  BY <1>1, Fields
  <2> QED  BY <2>1, LenProperties
<1>3. CASE c.writes = <<>> /\ Writable(c)
  <2> DEFINE r == Transmit(c, at)
             e == Written(c, at)
  <2>1. AsyncWriteSome(c, at) = Post(r, e)
    BY <1>3 DEF AsyncWriteSome
  <2>2. ~c.eof /\ Fresh(c, at) /\ at > 1 => ~Fresh(c, at - 1)
    <3> SUFFICES ASSUME ~c.eof, at > 1  PROVE ~Fresh(c, at - 1)
      OBVIOUS
    <3>1. at - 1 \in 1..Len(c.words) /\ at - 1 # at  BY <1>2
    <3>2. Len(c.writes) = 0  BY <1>3, EmptySeq
    <3> QED  BY <3>1, <3>2 DEF Owed
  <2>3. /\ r \in Sessions /\ Spells(r, read, script)
        /\ DOMAIN r.words = DOMAIN c.words /\ Started(r, at)
        /\ \A b : Started(c, b) => Started(r, b)
        /\ r.reads = c.reads /\ r.writes = c.writes /\ r.done = c.done
        /\ r.ready = c.ready /\ r.started = c.started
        /\ r.reported = c.reported /\ r.ended = c.ended
        /\ r.eof = c.eof /\ r.heard = c.heard /\ r.crashed = c.crashed
        /\ r.buf = c.buf /\ r.reset = c.reset
    BY <1>1, <1>3, <2>2, Transmitting
  <2> HIDE DEF r
  <2>4. Sound(r, read, work, script)
    <3>1. \A i \in DOMAIN r.reads : Fits(r, r.reads[i])
      BY <1>1, <2>3 DEF Fits
    <3>2. Orderly(r)
      BY <1>1, <2>3 DEF Orderly, Once, Owned
    <3>3. ~r.crashed => Work(r) = work
      BY <2>3, Zenon DEF Work, Listed, Reported
    <3> QED  BY <2>3, <3>1, <3>2, <3>3 DEF Sound, Wf
  <2>5. e \in WriteEnds /\ e.at = at
    <3>1. c.reset \in BOOLEAN  BY <1>1, Fields
    <3> QED  BY <1>2, <3>1 DEF Written, WriteEnds
  <2>6. Post(r, e).heard = r.heard /\ Post(r, e).started = r.started
    BY <2>3 DEF Post, Sessions
  <2>7. Sound(Post(r, e), read, work + 1, script)
    <3> HIDE DEF e
    <3> QED  BY <2>3, <2>4, <2>5, Posting
  <2> QED  BY <2>1, <2>3, <2>6, <2>7
<1>4. CASE ~(c.writes = <<>> /\ Writable(c))
  <2> DEFINE w == Append(c.writes, at)
             d == [c EXCEPT !.writes = w]
             k == Len(c.writes)
  <2>1. AsyncWriteSome(c, at) = d
    BY <1>4 DEF AsyncWriteSome
  <2>2. /\ w \in Seq(Nat) /\ Len(w) = k + 1 /\ DOMAIN w = 1..(k + 1)
        /\ \A i \in 1..k : w[i] = c.writes[i]
        /\ w[k + 1] = at
    BY <1>2, AppendProperties, LenProperties
  <2> HIDE DEF w
  <2>3. d \in Sessions
    BY <1>1, <2>2, Setting
  <2>4. /\ d.reads = c.reads /\ d.writes = w /\ d.words = c.words /\ d.done = c.done
        /\ d.ready = c.ready /\ d.started = c.started
        /\ d.reported = c.reported /\ d.ended = c.ended /\ d.outbox = c.outbox
        /\ d.eof = c.eof /\ d.heard = c.heard /\ d.crashed = c.crashed /\ d.buf = c.buf
    BY <1>1 DEF Sessions
  <2> HIDE DEF d
  <2>5. \A i \in 1..(k + 1) : (i \in 1..k /\ w[i] = c.writes[i]) \/ (i = k + 1 /\ w[i] = at)
    BY <1>2, <2>2
  <2>6. Spells(d, read, script)
    <3>1. Spoken(d, read) = Spoken(c, read)  BY <2>4 DEF Spoken
    <3>2. Scripted(d, script) /\ Said(d, Spoken(c, read))
      BY <2>4 DEF Scripted, Said, Belongs, Complete
    <3>3. ASSUME ~c.eof  PROVE Turns(d) /\ Owed(d, 0)
      <4>1. Turns(d)
        <5> SUFFICES ASSUME NEW i \in 1..(k + 1), NEW j \in 1..(k + 1),
                            i < j, Fresh(c, w[j])
                     PROVE  w[i] < w[j]
          BY <2>2, <2>4 DEF Turns, Fresh
        <5>1. i \in 1..k /\ w[i] = c.writes[i]
          <6>1. k \in Nat  BY <1>2
          <6> HIDE DEF k
          <6>2. i \in 1..k  BY <6>1
          <6> QED  BY <2>2, <6>2
        <5>2. CASE j \in 1..k
          BY <2>2, <3>3, <5>1, <5>2 DEF Turns
        <5>3. CASE j = k + 1
          BY <1>2, <2>2, <5>1, <5>3
        <5> QED  BY <2>5, <5>2, <5>3
      <4>2. Owed(d, 0)
        <5> SUFFICES ASSUME NEW b \in 1..Len(c.words), Fresh(c, b)
                     PROVE  \E i \in 1..(k + 1) : w[i] = b
          BY <2>2, <2>4 DEF Owed, Fresh
        <5>1. CASE b = at
          <6>1. k + 1 \in 1..(k + 1)  BY <1>2
          <6> QED  BY <2>2, <5>1, <6>1
        <5>2. CASE b # at
          <6>1. PICK i \in 1..k : c.writes[i] = b  BY <3>3, <5>2 DEF Owed
          <6>2. i \in 1..(k + 1) /\ w[i] = b  BY <1>2, <2>2, <6>1
          <6> QED  BY <6>2
        <5> QED  BY <5>1, <5>2
      <4> QED  BY <4>1, <4>2
    <3> QED  BY <2>4, <3>1, <3>2, <3>3 DEF Spells
  <2>7. \A i \in DOMAIN d.reads : Fits(d, d.reads[i])
    BY <1>1, <2>4 DEF Fits
  <2>8. Orderly(d)
    <3>1. \A i \in DOMAIN d.writes : d.writes[i] \in DOMAIN d.words
      BY <1>1, <1>2, <2>2, <2>4, <2>5
    <3>2. \A b : Started(c, b) => Started(d, b)  BY <2>4 DEF Started
    <3> QED  BY <1>1, <2>4, <3>1, <3>2 DEF Orderly, Once, Owned
  <2>9. ~d.crashed => Work(d) = work + 1
    <3>1. Listed(d) = Listed(c) + 1
      <4>1. Items(d.writes) = Items(c.writes) + 1 /\ Items(d.reads) = Items(c.reads)
            /\ Items(d.done) = Items(c.done) /\ Items(d.ready) = Items(c.ready)
        BY <2>2, <2>4 DEF Items
      <4> QED  BY <1>1, <4>1, Counts DEF Listed
    <3>2. Reported(d, "in") = Reported(c, "in") /\ Reported(d, "out") = Reported(c, "out")
      BY <2>4 DEF Reported
    <3>3. Work(d) = Work(c) + 1
      BY <1>1, <2>4, <3>1, <3>2, MoreWork
    <3> QED  BY <2>4, <3>3
  <2> QED  BY <2>1, <2>3, <2>4, <2>6, <2>7, <2>8, <2>9 DEF Sound, Wf
<1> QED  BY <1>3, <1>4

\* A word is added to what is written and to the script.
LEMMA Sending ==
    ASSUME NEW c, NEW read \in Speech, NEW work \in Int, NEW script \in Seq(Texts),
           Sound(c, read, work, script)
    PROVE  LET t == AsyncWrite(c)
           IN  /\ Sound(t, read, work + 1, Append(script, c.reply[1]))
               /\ t.heard = c.heard /\ t.started = c.started
<1> DEFINE a == c.reply[1]
           word == [text |-> a, taken |-> 0]
           m == Len(c.words)
           ws == Append(c.words, word)
           d == [c EXCEPT !.words = ws]
           further == Append(script, a)
           wire == Spoken(c, read)
<1>1. /\ c \in Sessions /\ Orderly(c) /\ \A i \in DOMAIN c.reads : Fits(c, c.reads[i])
      /\ Spells(c, read, script) /\ (~c.crashed => Work(c) = work)
  BY DEF Sound, Wf
<1>2. /\ c.words \in Seq(Words) /\ DOMAIN c.words = 1..m /\ m \in Nat
      /\ c.writes \in Seq(Nat) /\ DOMAIN c.writes = 1..Len(c.writes)
      /\ \A i \in DOMAIN c.writes : c.writes[i] \in 1..m
  <2>1. c.words \in Seq(Words) /\ c.writes \in Seq(Nat)  BY <1>1, Fields
  <2>2. DOMAIN c.words = 1..m /\ m \in Nat /\ DOMAIN c.writes = 1..Len(c.writes)
    BY <2>1, LenProperties
  <2> QED  BY <1>1, <2>1, <2>2 DEF Orderly, Owned
<1>3. a \in Texts /\ word \in Words
  <2>1. c.reply \in Reply  BY <1>1, Fields
  <2>2. a \in Texts  BY <2>1, Lengths DEF Reply
  <2> HIDE DEF a
  <2>3. Length(a) \in Nat /\ 0 <= Length(a)  BY Lengths
  <2> QED  BY <2>2, <2>3 DEF Words
<1>4. /\ ws \in Seq(Words) /\ Len(ws) = m + 1 /\ DOMAIN ws = 1..(m + 1)
      /\ \A i \in 1..m : ws[i] = c.words[i]
      /\ ws[m + 1].text = a /\ ws[m + 1].taken = 0
  <2> HIDE DEF word, a
  <2>1. /\ ws \in Seq(Words) /\ Len(ws) = m + 1 /\ DOMAIN ws = 1..(m + 1)
        /\ \A i \in 1..m : ws[i] = c.words[i]
        /\ ws[m + 1] = word
    BY <1>2, <1>3, AppendProperties, LenProperties
  <2> QED  BY <2>1 DEF word
<1>5. AsyncWrite(c) = AsyncWriteSome(d, m + 1)
  BY DEF AsyncWrite
<1> HIDE DEF ws, a, word
<1>6. d \in Sessions  BY <1>1, <1>4, Setting
<1>7. /\ d.reads = c.reads /\ d.writes = c.writes /\ d.words = ws /\ d.done = c.done
      /\ d.ready = c.ready /\ d.started = c.started
      /\ d.reported = c.reported /\ d.ended = c.ended /\ d.outbox = c.outbox
      /\ d.eof = c.eof /\ d.heard = c.heard /\ d.crashed = c.crashed /\ d.buf = c.buf
  BY <1>1 DEF Sessions
<1> HIDE DEF d
<1>8. \A b : Started(c, b) => Started(d, b)
  <2>1. \A b \in 1..m : ws[b] = c.words[b] /\ b \in 1..(m + 1)
    BY <1>2, <1>4
  <2> QED  BY <1>2, <1>4, <1>7, <2>1 DEF Started
<1>9. Wf(d)
  <2>1. \A i \in DOMAIN d.reads : Fits(d, d.reads[i])
    BY <1>1, <1>7 DEF Fits
  <2>2. 1..m \subseteq 1..(m + 1)  BY <1>2
  <2>3. Orderly(d)
    BY <1>1, <1>2, <1>4, <1>7, <1>8, <2>2 DEF Orderly, Once, Owned
  <2> QED  BY <1>6, <2>1, <2>3 DEF Wf
<1>10. ~d.crashed => Work(d) = work
  BY <1>1, <1>7, Zenon DEF Work, Listed, Reported
<1>11. Scripted(d, further)
  <2>1. /\ Len(further) = Len(script) + 1 /\ further[Len(script) + 1] = a
        /\ \A i \in 1..Len(script) : further[i] = script[i]
    BY <1>3, AppendProperties
  <2>2. m = Len(script) /\ \A i \in 1..m : c.words[i].text = script[i]
    BY <1>1 DEF Spells, Scripted
  <2> HIDE DEF m, further
  <2>3. ASSUME NEW i \in 1..(m + 1)  PROVE ws[i].text = further[i]
    <3>1. i \in 1..m \/ i = m + 1  BY <1>2
    <3> QED  BY <1>4, <2>1, <2>2, <3>1
  <2> QED  BY <1>4, <1>7, <2>1, <2>2, <2>3 DEF Scripted
<1>12. Said(d, Spoken(d, read))
  <2>1. Spoken(d, read) = wire  BY <1>7 DEF Spoken
  <2>2. Said(c, wire)  BY <1>1 DEF Spells
  <2> HIDE DEF wire
  <2>3. \A b : Belongs(c, b) => Belongs(d, b)
    <3> SUFFICES ASSUME NEW b, Belongs(c, b)  PROVE Belongs(d, b)
      OBVIOUS
    <3>1. b.at \in 1..m /\ b.at \in 1..(m + 1)  BY <1>2 DEF Belongs
    <3>2. ws[b.at] = c.words[b.at]  BY <1>4, <3>1
    <3> QED  BY <1>4, <1>7, <3>1, <3>2 DEF Belongs
  <2>4. Complete(c, wire) => Complete(d, wire)
    <3> SUFFICES ASSUME Complete(c, wire), NEW b \in 1..(m + 1), NEW n \in 1..ws[b].taken
                 PROVE  \E i \in 1..Len(wire) : wire[i].at = b /\ wire[i].byte = n
      BY <1>4, <1>7 DEF Complete
    <3>1. b # m + 1  BY <1>4
    <3>2. b \in 1..m  BY <1>2, <3>1
    <3> QED  BY <1>4, <3>2 DEF Complete
  <2> QED  BY <1>7, <2>1, <2>2, <2>3, <2>4 DEF Said
<1>13. ~d.eof => Turns(d) /\ Owed(d, m + 1)
  <2> SUFFICES ASSUME ~c.eof  PROVE Turns(d) /\ Owed(d, m + 1)
    BY <1>7
  <2>1. Turns(c) /\ Owed(c, 0)  BY <1>1 DEF Spells
  <2>2. Turns(d)
    <3> SUFFICES ASSUME NEW i \in 1..Len(c.writes), NEW j \in 1..Len(c.writes),
                        i < j, Fresh(d, c.writes[j])
                 PROVE  c.writes[i] < c.writes[j]
      BY <1>7 DEF Turns
    <3>1. c.writes[j] \in 1..m  BY <1>2
    <3>2. Fresh(c, c.writes[j])  BY <1>4, <1>7, <3>1 DEF Fresh
    <3> QED  BY <2>1, <3>2 DEF Turns
  <2>3. Owed(d, m + 1)
    <3> SUFFICES ASSUME NEW b \in 1..(m + 1), Fresh(d, b), b # m + 1
                 PROVE  \E i \in 1..Len(c.writes) : c.writes[i] = b
      BY <1>4, <1>7 DEF Owed
    <3>1. b \in 1..m /\ b # 0
      <4>1. m \in Nat  BY <1>2
      <4> HIDE DEF m
      <4> QED  BY <4>1
    <3>2. Fresh(c, b)  BY <1>4, <1>7, <3>1 DEF Fresh
    <3> QED  BY <2>1, <3>1, <3>2 DEF Owed
  <2> QED  BY <2>2, <2>3
<1>14. m + 1 \in DOMAIN d.words /\ \A i \in DOMAIN d.writes : d.writes[i] < m + 1
  <2>1. m + 1 \in 1..(m + 1) /\ \A i \in 1..m : i < m + 1  BY <1>2
  <2> QED  BY <1>2, <1>4, <1>7, <2>1
<1> DEFINE at == m + 1
<1> HIDE DEF m, at, further
<1>15. at \in DOMAIN d.words /\ (~d.eof => Turns(d) /\ Owed(d, at))
       /\ \A i \in DOMAIN d.writes : d.writes[i] < at
  BY <1>13, <1>14 DEF at
<1>16. LET t == AsyncWriteSome(d, at)
       IN  Sound(t, read, work + 1, further) /\ t.heard = d.heard /\ t.started = d.started
  BY <1>9, <1>10, <1>11, <1>12, <1>15, WritingSome
<1> QED  BY <1>5, <1>7, <1>16 DEF at, further, a

LEMMA Replying ==
    ASSUME NEW c, NEW read, NEW work, NEW script, Sound(c, read, work, script),
           NEW x \in Reply
    PROVE  LET t == [c EXCEPT !.reply = x]
           IN  /\ Sound(t, read, work, script) /\ t.reply = x
               /\ t.heard = c.heard /\ t.started = c.started
<1> DEFINE t == [c EXCEPT !.reply = x]
<1>1. c \in Sessions  BY DEF Sound, Wf
<1>2. t \in Sessions  BY <1>1, Setting
<1>3. /\ t.reads = c.reads /\ t.writes = c.writes /\ t.words = c.words
      /\ t.done = c.done /\ t.ready = c.ready
      /\ t.reported = c.reported /\ t.ended = c.ended /\ t.outbox = c.outbox
      /\ t.eof = c.eof /\ t.heard = c.heard /\ t.crashed = c.crashed /\ t.buf = c.buf
      /\ t.reply = x /\ t.started = c.started
  BY <1>1 DEF Sessions
<1>4. Holds(t.buf, c.buf)
  BY <1>1, <1>3, Fields, StillHolds
<1> HIDE DEF t
<1>5. Sound(t, read, work, script)
  BY <1>2, <1>3, <1>4, Framed
<1> QED  BY <1>3, <1>5 DEF t

\* Assigned, reply_ begins with the word.
LEMMA Assigning ==
    ASSUME NEW c, NEW read, NEW work, NEW script, Sound(c, read, work, script),
           NEW word \in Texts
    PROVE  LET t == Assign(c, word)
           IN  /\ Sound(t, read, work, script) /\ t.reply[1] = word
               /\ t.heard = c.heard /\ t.started = c.started
<1> DEFINE x == [i \in DOMAIN c.reply |-> IF i <= Length(word) + 1 THEN word ELSE c.reply[i]]
<1>1. c.reply \in Reply  BY Fields DEF Sound, Wf
<1>2. x \in Reply /\ x[1] = word
  <2>1. Length(word) \in Nat /\ 1 \in 1..ReplyLength  BY Lengths
  <2>2. DOMAIN c.reply = 1..ReplyLength /\ \A i \in 1..ReplyLength : c.reply[i] \in Texts
    BY <1>1 DEF Reply
  <2>3. 1 <= Length(word) + 1  BY <2>1
  <2>4. x[1] = word  BY <2>1, <2>2, <2>3
  <2> QED  BY <2>2, <2>4 DEF Reply
<1>3. Assign(c, word) = [c EXCEPT !.reply = x]
  BY DEF Assign
<1> HIDE DEF x
<1> QED  BY <1>2, <1>3, Replying

LEMMA Prompting ==
    ASSUME NEW c, NEW read \in Speech, NEW work \in Int, NEW script \in Seq(Texts),
           Sound(c, read, work, script)
    PROVE  LET t == DoPrompt(c)
           IN  /\ Sound(t, read, work + 1, Append(script, Prompt))
               /\ t.heard = c.heard /\ t.started = c.started
<1> DEFINE d == Assign(c, Prompt)
<1>1. /\ Sound(d, read, work, script) /\ d.reply[1] = Prompt
      /\ d.heard = c.heard /\ d.started = c.started
  BY Lengths, Assigning
<1>2. DoPrompt(c) = AsyncWrite(d)
  BY DEF DoPrompt, DoWrite
<1> HIDE DEF d
<1> QED  BY <1>1, <1>2, Sending

\* Every line has an answer, which is not a prompt.
LEMMA Answering == \A line : Execute(line) \in Texts \ {Prompt}
<1>1. \A line : Create(line) \in {"Insert", "Truncate", "Unknown"}
  BY DEF Create
<1>2. Printer["Insert"] = "InsertPrinter" /\ Printer["Truncate"] = "TruncatePrinter"
      /\ Printer["Unknown"] = "UnknownPrinter"
  BY DEF Printer
<1>3. ASSUME NEW x \in {"Insert", "Truncate", "Unknown"}
      PROVE  Printer[x] \in Texts \ {Prompt}
  BY <1>2, <1>3 DEF Texts, Replies, Prompt
<1> QED  BY <1>1, <1>3 DEF Execute

LEMMA Dialogues ==
    ASSUME NEW T, NEW heard \in Seq(T)
    PROVE  /\ Dialogue(heard) \in Seq(Texts)
           /\ Len(Dialogue(heard)) = 2 * Len(heard) + 1
           /\ \A i \in 1..(2 * Len(heard) + 1) :
                Dialogue(heard)[i] = IF i % 2 = 1 THEN Prompt ELSE Execute(heard[i \div 2])
<1> DEFINE n == 2 * Len(heard) + 1
           word(i) == IF i % 2 = 1 THEN Prompt ELSE Execute(heard[i \div 2])
<1>1. n \in Nat
  BY LenProperties
<1>2. \A i \in 1..n : word(i) \in Texts
  <2>1. Prompt \in Texts  BY Lengths
  <2> QED  BY <2>1, Answering
<1>3. Dialogue(heard) = [i \in 1..n |-> word(i)]
  BY DEF Dialogue
<1> HIDE DEF n, word
<1>4. [i \in 1..n |-> word(i)] \in Seq(Texts)
  BY <1>1, <1>2, IsASeq
<1>5. Len([i \in 1..n |-> word(i)]) = n /\ \A i \in 1..n : [j \in 1..n |-> word(j)][i] = word(i)
  BY <1>1
<1> QED  BY <1>3, <1>4, <1>5 DEF n, word

\* One command more adds its answer and a prompt.
LEMMA LongerDialogue ==
    ASSUME NEW T, NEW heard \in Seq(T), NEW line \in T
    PROVE  Append(Append(Dialogue(heard), Execute(line)), Prompt)
              = Dialogue(Append(heard, line))
<1> DEFINE n == Len(heard)
           more == Append(heard, line)
           old == Dialogue(heard)
           new == Dialogue(more)
           mid == Append(old, Execute(line))
           long == Append(mid, Prompt)
<1>1. /\ n \in Nat /\ more \in Seq(T) /\ Len(more) = n + 1 /\ more[n + 1] = line
      /\ \A i \in 1..n : more[i] = heard[i]
  BY LenProperties, AppendProperties
<1>2. /\ old \in Seq(Texts) /\ Len(old) = 2 * n + 1
      /\ \A i \in 1..(2 * n + 1) :
           old[i] = IF i % 2 = 1 THEN Prompt ELSE Execute(heard[i \div 2])
  BY Dialogues
<1>3. /\ new \in Seq(Texts) /\ Len(new) = 2 * (n + 1) + 1
      /\ \A i \in 1..(2 * (n + 1) + 1) :
           new[i] = IF i % 2 = 1 THEN Prompt ELSE Execute(more[i \div 2])
  <2> HIDE DEF more
  <2>1. /\ new \in Seq(Texts) /\ Len(new) = 2 * Len(more) + 1
        /\ \A i \in 1..(2 * Len(more) + 1) :
             new[i] = IF i % 2 = 1 THEN Prompt ELSE Execute(more[i \div 2])
    BY <1>1, Dialogues
  <2> QED  BY <1>1, <2>1
<1>4. Prompt \in Texts /\ Execute(line) \in Texts
  BY Answering DEF Texts
<1> HIDE DEF n, more, old, new
<1>5. /\ mid \in Seq(Texts) /\ Len(mid) = 2 * n + 2
      /\ mid[2 * n + 2] = Execute(line) /\ \A i \in 1..(2 * n + 1) : mid[i] = old[i]
  <2>1. Len(mid) = Len(old) + 1 /\ mid[Len(old) + 1] = Execute(line)
        /\ mid \in Seq(Texts) /\ \A i \in 1..Len(old) : mid[i] = old[i]
    BY <1>2, <1>4, AppendProperties
  <2>2. (2 * n + 1) + 1 = 2 * n + 2
    BY <1>1
  <2> HIDE DEF mid
  <2> QED  BY <1>2, <2>1, <2>2
<1> HIDE DEF mid
<1>6. /\ long \in Seq(Texts) /\ Len(long) = 2 * n + 3
      /\ long[2 * n + 3] = Prompt /\ \A i \in 1..(2 * n + 2) : long[i] = mid[i]
  <2>1. Len(long) = Len(mid) + 1 /\ long[Len(mid) + 1] = Prompt
        /\ long \in Seq(Texts) /\ \A i \in 1..Len(mid) : long[i] = mid[i]
    BY <1>4, <1>5, AppendProperties
  <2>2. (2 * n + 2) + 1 = 2 * n + 3
    BY <1>1
  <2> HIDE DEF long
  <2> QED  BY <1>5, <2>1, <2>2
<1> HIDE DEF long
<1>7. 2 * (n + 1) + 1 = 2 * n + 3
  BY <1>1
<1>8. ASSUME NEW i \in 1..(2 * n + 3)  PROVE long[i] = new[i]
  <2>1. new[i] = IF i % 2 = 1 THEN Prompt ELSE Execute(more[i \div 2])
    BY <1>3, <1>7
  <2>2. CASE i = 2 * n + 3
    <3>1. i % 2 = 1  BY <1>1, <2>2
    <3> QED  BY <1>6, <2>1, <2>2, <3>1
  <2>3. CASE i = 2 * n + 2
    <3>1. i % 2 # 1 /\ i \div 2 = n + 1  BY <1>1, <2>3
    <3>2. long[i] = Execute(line)  BY <1>1, <1>5, <1>6, <2>3
    <3> QED  BY <1>1, <2>1, <3>1, <3>2
  <2>4. CASE i \in 1..(2 * n + 1)
    <3>1. i \in 1..(2 * n + 2) /\ long[i] = old[i]  BY <1>1, <1>5, <1>6, <2>4
    <3>2. CASE i % 2 = 1
      BY <1>2, <2>1, <2>4, <3>1, <3>2
    <3>3. CASE i % 2 # 1
      <4>1. i \div 2 \in 1..n  BY <1>1, <2>4, <3>3
      <4>2. more[i \div 2] = heard[i \div 2]  BY <1>1, <4>1
      <4> QED  BY <1>2, <2>1, <2>4, <3>1, <3>3, <4>2
    <3> QED  BY <3>2, <3>3
  <2> QED  BY <1>1, <2>2, <2>3, <2>4
<1>9. long = new
  BY <1>3, <1>6, <1>7, <1>8, SeqEqual
<1> QED  BY <1>9 DEF long, mid, old, new, more

\* Only the handler of do_read executes a command, and only the acceptor starts a
\* session: the reads do neither.
LEMMA Unheard ==
    ASSUME NEW c \in Sessions
    PROVE  /\ \A pos : /\ AsyncReadSome(c, pos).heard = c.heard
                       /\ AsyncReadSome(c, pos).started = c.started
           /\ AsyncReadUntil(c).heard = c.heard
           /\ AsyncReadUntil(c).started = c.started
<1>1. ASSUME NEW pos
      PROVE  /\ AsyncReadSome(c, pos).heard = c.heard
             /\ AsyncReadSome(c, pos).started = c.started
  <2> DEFINE b  == Reserve(c.buf, ReadSize(c.buf))
             d  == [c EXCEPT !.buf = b]
             op == [pos |-> pos, base |-> b.put, n |-> ReadSize(c.buf), block |-> b.block]
             bytes == SubSeq(d.inbox, 1, Count(d, op))
             rest == SubSeq(d.inbox, Count(d, op) + 1, Len(d.inbox))
             y == IF op.block = d.buf.block THEN Store(d.buf, op.base, bytes) ELSE d.buf
             e == Received(d, op)
  <2>1. Receive(d, op) = [d EXCEPT !.inbox = rest, !.buf = y]
    BY DEF Receive
  <2>2. AsyncReadSome(c, pos) = IF c.reads = <<>> /\ Readable(c)
                                THEN Post(Receive(d, op), Received(d, op))
                                ELSE [d EXCEPT !.reads = Append(d.reads, op)]
    BY DEF AsyncReadSome
  <2> HIDE DEF op, y, rest, b, e
  <2>3. /\ Post([d EXCEPT !.inbox = rest, !.buf = y], e).heard = c.heard
        /\ Post([d EXCEPT !.inbox = rest, !.buf = y], e).started = c.started
    BY DEF Sessions, Post
  <2>4. /\ [d EXCEPT !.reads = Append(d.reads, op)].heard = c.heard
        /\ [d EXCEPT !.reads = Append(d.reads, op)].started = c.started
    BY DEF Sessions
  <2> HIDE DEF d
  <2> QED  BY <2>1, <2>2, <2>3, <2>4 DEF e
<1>2. AsyncReadUntil(c).heard = c.heard /\ AsyncReadUntil(c).started = c.started
  <2>1. \A e : Post(c, e).heard = c.heard /\ Post(c, e).started = c.started
    BY DEF Sessions, Post
  <2> QED  BY <1>1, <2>1 DEF AsyncReadUntil
<1> QED  BY <1>1, <1>2

\* A session that has crashed keeps the rest.
LEMMA Crashing ==
    ASSUME NEW c, NEW read, NEW work, NEW script, Sound(c, read, work, script), NEW other
    PROVE  LET t == [c EXCEPT !.crashed = TRUE]
           IN  /\ Sound(t, read, other, script)
               /\ t.heard = c.heard /\ t.started = c.started
<1> DEFINE t == [c EXCEPT !.crashed = TRUE]
<1>1. c \in Sessions  BY DEF Sound, Wf
<1>2. t \in Sessions  BY <1>1, Setting
<1>3. /\ t.reads = c.reads /\ t.writes = c.writes /\ t.words = c.words
      /\ t.done = c.done /\ t.ready = c.ready
      /\ t.reported = c.reported /\ t.ended = c.ended /\ t.outbox = c.outbox
      /\ t.eof = c.eof /\ t.heard = c.heard /\ t.crashed = TRUE /\ t.buf = c.buf
      /\ t.started = c.started
  BY <1>1 DEF Sessions
<1>4. Holds(t.buf, c.buf)
  BY <1>1, <1>3, Fields, StillHolds
<1> HIDE DEF t
<1>5. Sound(t, read, work, script)
  BY <1>2, <1>3, <1>4, Framed
<1>6. Sound(t, read, other, script)
  BY <1>3, <1>5 DEF Sound
<1> QED  BY <1>3, <1>6 DEF t

\* A handler that starts nothing accounts for its operation.
LEMMA Ending ==
    ASSUME NEW c, NEW read, NEW work \in Int, NEW script, Sound(c, read, work, script)
    PROVE  LET t == [c EXCEPT !.ended = @ + 1]
           IN  /\ Sound(t, read, work + 1, script)
               /\ t.heard = c.heard /\ t.started = c.started
<1> DEFINE t == [c EXCEPT !.ended = c.ended + 1]
<1>1. c \in Sessions /\ c.ended + 1 \in Nat
  <2>1. c \in Sessions  BY DEF Sound, Wf
  <2>2. c.ended \in Nat  BY <2>1, Fields
  <2> QED  BY <2>1, <2>2
<1>2. t \in Sessions  BY <1>1, Setting
<1>3. /\ t.reads = c.reads /\ t.writes = c.writes /\ t.words = c.words
      /\ t.done = c.done /\ t.ready = c.ready
      /\ t.reported = c.reported /\ t.ended = c.ended + 1 /\ t.outbox = c.outbox
      /\ t.eof = c.eof /\ t.heard = c.heard /\ t.crashed = c.crashed /\ t.buf = c.buf
      /\ t.started = c.started
  BY <1>1 DEF Sessions
<1> HIDE DEF t
<1>4. \A i \in DOMAIN t.reads : Fits(t, t.reads[i])
  BY <1>3, SMTT(30) DEF Sound, Wf, Fits
<1>5. Orderly(t)  BY <1>3 DEF Sound, Wf, Orderly, Once, Owned, Started
<1>6. Spells(t, read, script)
  BY <1>3, SaysTheSame DEF Sound
<1>7. ~t.crashed => Work(t) = work + 1
  <2>1. Listed(t) = Listed(c) /\ Reported(t, "in") = Reported(c, "in")
        /\ Reported(t, "out") = Reported(c, "out") /\ Items(t.heard) = Items(c.heard)
    BY <1>3 DEF Listed, Reported
  <2>2. Work(t) = Work(c) + 1
    BY <1>1, <1>3, <2>1, ListedInt, Counts DEF Work
  <2>3. ~c.crashed => Work(c) = work  BY DEF Sound
  <2> QED  BY <1>3, <2>2, <2>3
<1> QED  BY <1>2, <1>3, <1>4, <1>5, <1>6, <1>7 DEF Sound, Wf, t

\* A line is made of bytes, wherever the iterator of its end comes to lie.
LEMMA Extracting ==
    ASSUME NEW b \in Bufs, NEW n \in Nat, n > 1
    PROVE  Extracted(b, n) \in Seq(Characters)
<1>1. /\ Content(b) \in Seq(Characters) /\ Len(Content(b)) = Size(b) /\ Size(b) \in Nat
      /\ b.mem \in Seq(Characters) /\ Len(b.mem) \in Nat /\ b.get \in Nat
      /\ Zero \in Characters
  <2>1. b \in BufsOf(Characters) /\ Zero \in Characters  BY BufsAreBufs
  <2>2. b.get \in Nat  BY DEF Bufs
  <2> QED  BY <2>1, <2>2, ContentOK
<1>2. CASE Size(b) > 0
  <2> DEFINE k == Smaller(n, Size(b)) - 1
  <2>1. k \in Nat /\ k <= Size(b)
    BY <1>1, <1>2 DEF Smaller
  <2>2. Extracted(b, n) = SubSeq(Content(b), 1, k)
    BY <1>2 DEF Extracted
  <2> HIDE DEF k
  <2> QED  BY <1>1, <2>1, <2>2, Piece
<1>3. CASE ~(Size(b) > 0)
  <2> DEFINE byte(i) == IF b.get + i <= Len(b.mem) THEN b.mem[b.get + i] ELSE Zero
  <2>1. \A i \in 1..(n - 1) : byte(i) \in Characters
    <3> SUFFICES ASSUME NEW i \in 1..(n - 1), b.get + i <= Len(b.mem)
                 PROVE  b.mem[b.get + i] \in Characters
      BY <1>1
    <3>1. b.get + i \in 1..Len(b.mem)  BY <1>1
    <3> QED  BY <1>1, <3>1, ElementOfSeq
  <2>2. Extracted(b, n) = [i \in 1..(n - 1) |-> byte(i)]
    BY <1>3 DEF Extracted
  <2>3. n - 1 \in Nat  OBVIOUS
  <2> HIDE DEF byte
  <2> QED  BY <2>1, <2>2, <2>3, IsASeq
<1> QED  BY <1>2, <1>3

\* The handler of do_read ends one read, and starts two writes or nothing.
LEMMA Reading ==
    ASSUME NEW c, NEW read \in Speech, Sound(c, read, 1, Dialogue(c.heard)), NEW n \in Nat
    PROVE  LET t == OnRead(c, n)
           IN  Sound(t, read, 2, Dialogue(t.heard)) /\ t.started = c.started
<1> DEFINE b == Consume(c.buf, n)
           d == [c EXCEPT !.buf = b]
           line == Extracted(c.buf, n)
<1>1. /\ c \in Sessions /\ c.buf \in Bufs /\ c.buf \in BufsOf(Characters)
      /\ c.heard \in Seq(Seq(Characters)) /\ c.ended \in Nat
  BY Fields, BufsAreBufs DEF Sound, Wf
<1>2. b \in Bufs /\ Holds(b, c.buf)
  <2>1. b \in Bufs /\ b.block = c.buf.block /\ b.mem = c.buf.mem
    BY <1>1, BufsAreBufs, ConsumeOK
  <2> HIDE DEF b
  <2> QED  BY <1>1, <2>1, StillHolds
<1>3. Eaten(c, n) = d
  BY DEF Eaten
<1> HIDE DEF b
<1>4. d \in Sessions /\ d.heard = c.heard /\ d.ended = c.ended /\ d.started = c.started
  <2>1. d \in Sessions  BY <1>1, <1>2, Setting
  <2> QED  BY <1>1, <2>1 DEF Sessions
<1>5. Sound(d, read, 1, Dialogue(d.heard))
  <2>1. Sound(d, read, 1, Dialogue(c.heard))
    BY <1>2, Rebuffered
  <2> QED  BY <1>4, <2>1
<1> HIDE DEF d
<1>6. CASE n <= 1
  <2> DEFINE t == [d EXCEPT !.ended = @ + 1]
  <2>1. OnRead(c, n) = t
    BY <1>3, <1>6 DEF OnRead
  <2>2. Sound(t, read, 1 + 1, Dialogue(d.heard)) /\ t.heard = d.heard /\ t.started = d.started
    BY <1>5, Ending
  <2> HIDE DEF t
  <2> QED  BY <1>4, <2>1, <2>2
<1>7. CASE n > 1 /\ Asserts /\ n > Size(c.buf)
  <2> DEFINE t == [c EXCEPT !.crashed = TRUE]
  <2>1. OnRead(c, n) = t
    BY <1>7 DEF OnRead
  <2>2. Sound(t, read, 2, Dialogue(c.heard)) /\ t.heard = c.heard /\ t.started = c.started
    BY Crashing
  <2> HIDE DEF t
  <2> QED  BY <2>1, <2>2
<1>8. CASE n > 1 /\ ~(Asserts /\ n > Size(c.buf))
  <2> DEFINE longer == Append(c.heard, line)
             answer == [d EXCEPT !.heard = longer]
             said == Assign(answer, Execute(line))
             half == AsyncWrite(said)
             script == Append(Dialogue(c.heard), Execute(line))
  <2>1. line \in Seq(Characters)
    BY <1>1, <1>8, Extracting
  <2>2. Execute(line) \in Texts /\ longer \in Seq(Seq(Characters))
    BY <1>1, <2>1, Answering, AppendProperties
  <2>3. OnRead(c, n) = DoPrompt(half)
    <3>1. ~(n <= 1)  BY <1>8
    <3>2. [d EXCEPT !.heard = Append(@, line)] = answer
      <4> HIDE DEF line
      <4> QED  BY <1>4
    <3> HIDE DEF answer, line
    <3> QED  BY <1>3, <1>8, <3>1, <3>2 DEF OnRead, DoWrite, line
  <2> HIDE DEF line, longer
  <2>4. answer \in Sessions
    BY <1>4, <2>2, Setting
  <2>5. /\ answer.reads = d.reads /\ answer.writes = d.writes /\ answer.words = d.words
        /\ answer.done = d.done /\ answer.ready = d.ready
        /\ answer.reported = d.reported /\ answer.ended = d.ended
        /\ answer.outbox = d.outbox
        /\ answer.eof = d.eof /\ answer.heard = longer /\ answer.crashed = d.crashed
        /\ answer.buf = d.buf /\ answer.started = d.started
    BY <1>4 DEF Sessions
  <2> HIDE DEF answer
  <2>6. Sound(answer, read, 0, Dialogue(c.heard))
    <3>1. \A i \in DOMAIN answer.reads : Fits(answer, answer.reads[i])
      BY <1>5, <2>5 DEF Sound, Wf, Fits
    <3>2. Orderly(answer)
      BY <1>5, <2>5 DEF Sound, Wf, Orderly, Once, Owned, Started
    <3>3. Spells(answer, read, Dialogue(c.heard))
      BY <1>4, <1>5, <2>5, SaysTheSame DEF Sound
    <3>4. ~answer.crashed => Work(answer) = 0
      <4>1. Listed(answer) = Listed(d) /\ Reported(answer, "in") = Reported(d, "in")
            /\ Reported(answer, "out") = Reported(d, "out")
        BY <2>5 DEF Listed, Reported
      <4>2. Items(answer.heard) = Items(d.heard) + 1
        BY <1>1, <1>4, <2>1, <2>5, AppendProperties DEF Items, longer
      <4>3. Work(d) = Work(answer) + 1
        BY <1>4, <2>4, <2>5, <4>1, <4>2, ListedInt, Counts DEF Work
      <4>4. ~d.crashed => Work(d) = 1  BY <1>5 DEF Sound
      <4>5. Work(answer) \in Int  BY <2>4, ListedInt
      <4> QED  BY <2>5, <4>3, <4>4, <4>5
    <3> QED  BY <2>4, <3>1, <3>2, <3>3, <3>4 DEF Sound, Wf
  <2>7. /\ Sound(said, read, 0, Dialogue(c.heard)) /\ said.reply[1] = Execute(line)
        /\ said.heard = answer.heard /\ said.started = answer.started
    BY <2>2, <2>6, Assigning
  <2> HIDE DEF said
  <2>8. Dialogue(c.heard) \in Seq(Texts)
    BY <1>1, Dialogues
  <2>9. /\ Sound(half, read, 0 + 1, Append(Dialogue(c.heard), said.reply[1]))
        /\ half.heard = said.heard /\ half.started = said.started
    <3> DEFINE first == Dialogue(c.heard)
    <3>1. Sound(said, read, 0, first) /\ first \in Seq(Texts)
      BY <2>7, <2>8
    <3> HIDE DEF first
    <3>2. 0 \in Int  OBVIOUS
    <3>3. LET t == AsyncWrite(said)
          IN  /\ Sound(t, read, 0 + 1, Append(first, said.reply[1]))
              /\ t.heard = said.heard /\ t.started = said.started
      BY <3>1, <3>2, Sending
    <3> QED  BY <3>3 DEF first
  <2>10. Sound(half, read, 1, script)
    BY <2>7, <2>9
  <2>11. script \in Seq(Texts)
    BY <2>2, <2>8, AppendProperties
  <2> HIDE DEF half, script
  <2>12. /\ Sound(DoPrompt(half), read, 1 + 1, Append(script, Prompt))
         /\ DoPrompt(half).heard = half.heard /\ DoPrompt(half).started = half.started
    BY <2>10, <2>11, Prompting
  <2>13. Append(script, Prompt) = Dialogue(longer)
    BY <1>1, <2>1, LongerDialogue DEF script, longer
  <2>14. DoPrompt(half).heard = longer /\ DoPrompt(half).started = c.started
    BY <1>4, <2>5, <2>7, <2>9, <2>12
  <2> QED  BY <2>3, <2>12, <2>13, <2>14
<1> QED
  <2>1. Size(c.buf) \in Nat  BY <1>1, ContentOK
  <2> QED  BY <1>6, <1>7, <1>8, <2>1

\* The handler of do_write ends one write, and starts a read or nothing.
LEMMA Answered ==
    ASSUME NEW c, NEW read \in Speech, Sound(c, read, 1, Dialogue(c.heard)),
           NEW error \in BOOLEAN
    PROVE  LET t == OnWrite(c, error)
           IN  Sound(t, read, 2, Dialogue(t.heard)) /\ t.started = c.started
<1>1. CASE error
  <2> DEFINE t == [c EXCEPT !.ended = @ + 1]
  <2>1. OnWrite(c, error) = t
    BY <1>1 DEF OnWrite
  <2>2. Sound(t, read, 1 + 1, Dialogue(c.heard)) /\ t.heard = c.heard /\ t.started = c.started
    BY Ending
  <2> HIDE DEF t
  <2> QED  BY <2>1, <2>2
<1>2. CASE ~error
  <2> DEFINE x == [c.reply EXCEPT ![1] = Cleared]
             d == [c EXCEPT !.reply = x]
  <2>1. OnWrite(c, error) = AsyncReadUntil(d)
    <3>1. Clear(c) = d  BY DEF Clear
    <3> QED  BY <1>2, <3>1 DEF OnWrite, DoRead
  <2>2. x \in Reply
    <3>1. c.reply \in Reply  BY Fields DEF Sound, Wf
    <3> QED  BY <3>1, Lengths DEF Reply
  <2>3. Sound(d, read, 1, Dialogue(c.heard)) /\ d.heard = c.heard /\ d.started = c.started
    <3> HIDE DEF x
    <3> QED  BY <2>2, Replying
  <2> HIDE DEF d
  <2>4. Sound(AsyncReadUntil(d), read, 1 + 1, Dialogue(c.heard))
    BY <2>3, ReadingUntil
  <2>5. d \in Sessions  BY <2>3 DEF Sound, Wf
  <2>6. AsyncReadUntil(d).heard = c.heard /\ AsyncReadUntil(d).started = c.started
    BY <2>3, <2>5, Unheard
  <2> QED  BY <2>1, <2>4, <2>6
<1> QED  BY <1>1, <1>2

\* A write that was taken in part goes on, as a new operation.
LEMMA Writing ==
    ASSUME NEW c, NEW read \in Speech, Sound(c, read, 1, Dialogue(c.heard)),
           NEW event \in WriteEnds, Started(c, event.at)
    PROVE  LET t == ContinueWrite(c, event)
           IN  Sound(t, read, 2, Dialogue(t.heard)) /\ t.started = c.started
<1> DEFINE at == event.at
<1>1. event.error \in BOOLEAN  BY DEF WriteEnds
<1>2. CASE ~event.error /\ c.words[at].taken < Length(c.words[at].text)
  <2>1. ContinueWrite(c, event) = AsyncWriteSome(c, at)
    BY <1>2 DEF ContinueWrite
  <2>2. at \in DOMAIN c.words /\ ~Fresh(c, at)
    BY DEF Started, Fresh
  <2>3. /\ Wf(c) /\ (~c.crashed => Work(c) = 1)
        /\ Scripted(c, Dialogue(c.heard)) /\ Said(c, Spoken(c, read))
        /\ (~c.eof => Turns(c) /\ Owed(c, 0))
    BY DEF Sound, Spells
  <2>4. Owed(c, 0) => Owed(c, at)
    <3> SUFFICES ASSUME Owed(c, 0), NEW b \in 1..Len(c.words), Fresh(c, b)
                 PROVE  \E i \in 1..Len(c.writes) : c.writes[i] = b
      BY DEF Owed
    <3>1. b # 0  OBVIOUS
    <3> QED  BY <3>1 DEF Owed
  <2> HIDE DEF at
  <2>5. LET t == AsyncWriteSome(c, at)
        IN  /\ Sound(t, read, 1 + 1, Dialogue(c.heard))
            /\ t.heard = c.heard /\ t.started = c.started
    BY <2>2, <2>3, <2>4, WritingSome
  <2> QED  BY <2>1, <2>5
<1>3. CASE ~(~event.error /\ c.words[at].taken < Length(c.words[at].text))
  <2>1. ContinueWrite(c, event) = OnWrite(c, event.error)
    BY <1>3 DEF ContinueWrite
  <2> QED  BY <1>1, <2>1, Answered
<1> QED  BY <1>2, <1>3

\* A completed read goes on, or its handler is run.
LEMMA Continuing ==
    ASSUME NEW c, NEW read \in Speech, Sound(c, read, 1, Dialogue(c.heard)),
           NEW event \in ReadEnds
    PROVE  LET t == ContinueRead(c, event)
           IN  Sound(t, read, 2, Dialogue(t.heard)) /\ t.started = c.started
<1> DEFINE b    == Commit(c.buf, event.n)
           d    == [c EXCEPT !.buf = b]
           end  == DelimiterEnd(d.buf, event.pos)
           lost == [c EXCEPT !.crashed = TRUE]
<1>1. /\ c \in Sessions /\ c.buf \in Bufs /\ c.buf \in BufsOf(Characters)
      /\ event.n \in Nat /\ event.pos \in Nat
  BY Fields, BufsAreBufs DEF Sound, Wf, ReadEnds
<1>2. b \in Bufs /\ Holds(b, c.buf)
  <2>1. b \in Bufs /\ b.block = c.buf.block /\ b.mem = c.buf.mem
    BY <1>1, BufsAreBufs, CommitOK
  <2> HIDE DEF b
  <2> QED  BY <1>1, <2>1, StillHolds
<1>3. ContinueRead(c, event) =
        IF event.error                             THEN OnRead(d, 0)
        ELSE IF event.n = 0                        THEN OnRead(d, event.pos)
        ELSE IF event.pos > Size(d.buf) /\ (Asserts \/ Size(d.buf) = 0) THEN lost
        ELSE IF end > 0                            THEN OnRead(d, end)
        ELSE AsyncReadSome(d, Size(d.buf))
  BY DEF ContinueRead
<1> HIDE DEF b
<1>4. /\ d \in Sessions /\ d.heard = c.heard /\ d.started = c.started
      /\ Sound(d, read, 1, Dialogue(d.heard))
  <2>1. Sound(d, read, 1, Dialogue(c.heard))  BY <1>2, Rebuffered
  <2>2. d.heard = c.heard /\ d.started = c.started  BY <1>1 DEF Sessions
  <2> QED  BY <2>1, <2>2 DEF Sound, Wf
<1> HIDE DEF d
<1>5. Size(d.buf) \in Nat /\ end \in Nat
  <2>1. d.buf \in BufsOf(Characters)  BY <1>4, Fields, BufsAreBufs
  <2> QED  BY <1>1, <2>1, ContentOK, DelimiterEndOK
<1> HIDE DEF end
<1>6. Sound(lost, read, 2, Dialogue(lost.heard)) /\ lost.started = c.started
  <2>1. Sound(lost, read, 2, Dialogue(c.heard)) /\ lost.heard = c.heard
        /\ lost.started = c.started
    BY Crashing
  <2> HIDE DEF lost
  <2> QED  BY <2>1
<1> HIDE DEF lost
<1>7. \A n \in Nat : /\ Sound(OnRead(d, n), read, 2, Dialogue(OnRead(d, n).heard))
                     /\ OnRead(d, n).started = c.started
  BY <1>4, Reading
<1>8. LET t == AsyncReadSome(d, Size(d.buf))
      IN  Sound(t, read, 2, Dialogue(t.heard)) /\ t.started = c.started
  <2>1. Sound(AsyncReadSome(d, Size(d.buf)), read, 1 + 1, Dialogue(d.heard))
    BY <1>4, <1>5, ReadingSome
  <2> QED  BY <1>4, <2>1, Unheard
<1>9. 0 \in Nat  OBVIOUS
<1> QED  BY <1>1, <1>3, <1>5, <1>6, <1>7, <1>8, <1>9

\* A completed operation is dispatched.
LEMMA Dispatching ==
    ASSUME NEW c, NEW read \in Speech, Sound(c, read, 1, Dialogue(c.heard)),
           NEW event \in ReadEnds \cup WriteEnds,
           event.kind = "write" => Started(c, event.at)
    PROVE  LET t == Dispatch(c, event)
           IN  Sound(t, read, 2, Dialogue(t.heard)) /\ t.started = c.started
<1>1. CASE event \in ReadEnds
  <2>1. Dispatch(c, event) = ContinueRead(c, event)
    BY <1>1 DEF Dispatch, ReadEnds
  <2> QED  BY <1>1, <2>1, Continuing
<1>2. CASE event \in WriteEnds
  <2>1. Dispatch(c, event) = ContinueWrite(c, event) /\ event.kind = "write"
    BY <1>2 DEF Dispatch, WriteEnds
  <2> QED  BY <1>2, <2>1, Writing
<1> QED  BY <1>1, <1>2

-----------------------------------------------------------------------------
(* The queue of the io_service.                                            *)

AnyEvents == Seq(ReadEnds \cup WriteEnds \cup Reports)
Ends == ReadEnds \cup WriteEnds

\* The same writes wait, or some of them, and what has completed had begun.
LEMMA Owning ==
    ASSUME NEW c, NEW t, Owned(c), t.words = c.words,
           \A i \in DOMAIN t.writes : t.writes[i] \in DOMAIN c.words,
           \A i \in DOMAIN t.ready : t.ready[i].kind = "write" => Started(c, t.ready[i].at),
           \A i \in DOMAIN t.done : t.done[i].kind = "write" => Started(c, t.done[i].at)
    PROVE  Owned(t)
BY DEF Owned, Started

LEMMA Appended ==
    ASSUME NEW S, NEW q \in Seq(S), NEW e \in S
    PROVE  \A i \in DOMAIN Append(q, e) :
              Append(q, e)[i] = e \/ (i \in DOMAIN q /\ Append(q, e)[i] = q[i])
BY AppendProperties, LenProperties

\* The reactor queues the descriptor.
LEMMA Reporting ==
    ASSUME NEW c, NEW read, NEW work \in Int, NEW script, Sound(c, read, work, script),
           NEW kind \in {"in", "out"}, kind \notin c.reported
    PROVE  LET t == Post([c EXCEPT !.reported = @ \cup {kind}], [kind |-> kind])
           IN  Sound(t, read, work, script) /\ t.started = c.started /\ t.heard = c.heard
<1> DEFINE e == [kind |-> kind]
           d == [c EXCEPT !.reported = c.reported \cup {kind}]
           t == Post(d, e)
<1>1. c \in Sessions /\ Orderly(c) /\ (\A i \in DOMAIN c.reads : Fits(c, c.reads[i]))
      /\ c.ready \in AnyEvents /\ c.reported \subseteq {"in", "out"}
  BY Fields DEF Sound, Wf, AnyEvents
<1>2. d \in Sessions
  BY <1>1, Setting
<1>3. e \in Reports
  BY DEF Reports
<1>4. /\ Append(c.ready, e) \in AnyEvents
      /\ Len(Append(c.ready, e)) = Len(c.ready) + 1
      /\ DOMAIN Append(c.ready, e) = 1..(Len(c.ready) + 1)
      /\ DOMAIN c.ready = 1..Len(c.ready) /\ Len(c.ready) \in Nat
      /\ Append(c.ready, e)[Len(c.ready) + 1] = e
      /\ \A i \in 1..Len(c.ready) : Append(c.ready, e)[i] = c.ready[i]
  BY <1>1, <1>3, AppendProperties, LenProperties DEF AnyEvents
<1>5. d.ready = c.ready
  BY <1>1 DEF Sessions
<1>6. t \in Sessions
  BY <1>2, <1>4, <1>5, Setting DEF Post, AnyEvents
<1>7. /\ t.reads = c.reads /\ t.writes = c.writes /\ t.words = c.words /\ t.done = c.done
      /\ t.ready = Append(c.ready, e) /\ t.started = c.started
      /\ t.reported = c.reported \cup {kind} /\ t.ended = c.ended /\ t.outbox = c.outbox
      /\ t.eof = c.eof /\ t.heard = c.heard /\ t.crashed = c.crashed /\ t.buf = c.buf
  BY <1>1 DEF Sessions, Post
<1> HIDE DEF t, d
<1>8. \A i \in DOMAIN t.reads : Fits(t, t.reads[i])
  BY <1>1, <1>7 DEF Fits
<1>9. Orderly(t)
  <2>1. \A i \in DOMAIN c.ready : c.ready[i].kind # kind
    BY <1>1 DEF Orderly, Once
  <2>2. e.kind = kind /\ e.kind # "write"
    OBVIOUS
  <2>3. \A i \in DOMAIN t.ready : \/ i = Len(c.ready) + 1 /\ t.ready[i] = e
                                  \/ i \in DOMAIN c.ready /\ t.ready[i] = c.ready[i]
    BY <1>4, <1>7
  <2> HIDE DEF e
  <2>4. Once(t)  BY <1>1, <1>7, <2>1, <2>2, <2>3 DEF Orderly, Once
  <2>5. \A i \in DOMAIN t.ready : t.ready[i].kind = "write" => Started(c, t.ready[i].at)
    BY <1>1, <2>2, <2>3 DEF Orderly, Owned
  <2>6. Owned(t)
    BY <1>1, <1>7, <2>5, Owning DEF Orderly, Owned
  <2> QED  BY <2>4, <2>6 DEF Orderly
<1>10. ~t.crashed => Work(t) = work
  <2>1. Items(t.ready) = Items(c.ready) + 1
    BY <1>4, <1>7 DEF Items
  <2>2. Listed(t) = Listed(c) + 1
    BY <1>1, <1>7, <2>1, Counts DEF Listed
  <2>3. \/ /\ Reported(t, "in") = Reported(c, "in") + 1
           /\ Reported(t, "out") = Reported(c, "out")
        \/ /\ Reported(t, "in") = Reported(c, "in")
           /\ Reported(t, "out") = Reported(c, "out") + 1
    BY <1>1, <1>7 DEF Reported
  <2>4. Work(t) = Work(c)
    <3>1. /\ Listed(c) \in Int /\ c.ended \in Nat /\ Items(c.heard) \in Nat
          /\ Reported(c, "in") \in Nat /\ Reported(c, "out") \in Nat
          /\ Reported(t, "in") \in Nat /\ Reported(t, "out") \in Nat
      BY <1>1, ListedInt, Counts DEF Reported
    <3>2. t.ended = c.ended /\ t.heard = c.heard  BY <1>7
    <3> QED  BY <2>2, <2>3, <3>1, <3>2 DEF Work
  <2>5. ~c.crashed => Work(c) = work  BY DEF Sound
  <2> QED  BY <1>7, <2>4, <2>5
<1>11. Spells(t, read, script)
  BY <1>7, SaysTheSame DEF Sound
<1>12. Sound(t, read, work, script) /\ t.started = c.started /\ t.heard = c.heard
  BY <1>6, <1>7, <1>8, <1>9, <1>10, <1>11 DEF Sound, Wf
<1> QED  BY <1>12 DEF t, d, e

\* What is left of a list without its head.
LEMMA FrontOfList ==
    ASSUME NEW S, NEW q \in Seq(S), q # <<>>
    PROVE  /\ Head(q) \in S /\ Tail(q) \in Seq(S) /\ 1 \in DOMAIN q /\ q[1] = Head(q)
           /\ Items(q) = Items(Tail(q)) + 1 /\ Items(Tail(q)) \in Nat
           /\ \A i \in DOMAIN Tail(q) :
                i \in Nat /\ i > 0 /\ i + 1 \in DOMAIN q /\ Tail(q)[i] = q[i + 1]
<1> DEFINE m == Len(q)
           k == Len(Tail(q))
<1>1. /\ Head(q) \in S /\ Tail(q) \in Seq(S) /\ Head(q) = q[1]
      /\ m \in Nat /\ k \in Nat /\ k = m - 1 /\ DOMAIN q = 1..m /\ DOMAIN Tail(q) = 1..k
      /\ Items(q) = m /\ Items(Tail(q)) = k
      /\ \A i \in 1..k : Tail(q)[i] = q[i + 1]
  BY HeadTailProperties, LenProperties DEF Items
<1> HIDE DEF m, k
<1>2. /\ Items(q) = Items(Tail(q)) + 1 /\ Items(Tail(q)) \in Nat /\ 1 \in DOMAIN q
      /\ \A i \in DOMAIN Tail(q) :
           i \in Nat /\ i > 0 /\ i + 1 \in DOMAIN q /\ Tail(q)[i] = q[i + 1]
  BY <1>1
<1> QED  BY <1>1, <1>2

LEMMA Queue ==
    ASSUME NEW c \in Sessions, c.ready # <<>>
    PROVE  /\ Head(c.ready) \in Ends \cup Reports /\ Tail(c.ready) \in AnyEvents
           /\ Items(c.ready) = Items(Tail(c.ready)) + 1 /\ Items(Tail(c.ready)) \in Nat
           /\ 1 \in DOMAIN c.ready /\ c.ready[1] = Head(c.ready)
           /\ \A i \in DOMAIN Tail(c.ready) :
                i \in Nat /\ i > 0 /\ i + 1 \in DOMAIN c.ready /\ Tail(c.ready)[i] = c.ready[i + 1]
<1> DEFINE q == c.ready
<1>1. q \in Seq(Ends \cup Reports) /\ q # <<>>  BY Fields DEF Ends
<1> HIDE DEF q
<1>2. /\ Head(q) \in Ends \cup Reports /\ Tail(q) \in Seq(Ends \cup Reports)
      /\ 1 \in DOMAIN q /\ q[1] = Head(q)
      /\ Items(q) = Items(Tail(q)) + 1 /\ Items(Tail(q)) \in Nat
      /\ \A i \in DOMAIN Tail(q) :
           i \in Nat /\ i > 0 /\ i + 1 \in DOMAIN q /\ Tail(q)[i] = q[i + 1]
  BY <1>1, FrontOfList
<1> QED  BY <1>2 DEF q, AnyEvents, Ends

\* The handler of the descriptor is run: its operations are about to be tried.
LEMMA Announced ==
    ASSUME NEW c, NEW read, NEW work \in Int, NEW script, Sound(c, read, work, script),
           c.ready # <<>>, Head(c.ready).kind \in {"in", "out"}
    PROVE  LET kind == Head(c.ready).kind
               t == [[c EXCEPT !.ready = Tail(@)]
                         EXCEPT !.trying = kind, !.reported = @ \ {kind}]
           IN  Sound(t, read, work, script) /\ t.started = c.started /\ t.heard = c.heard
<1> DEFINE kind == Head(c.ready).kind
           rest == Tail(c.ready)
           left == c.reported \ {kind}
           d == [c EXCEPT !.ready = rest]
           x == [d EXCEPT !.trying = kind]
           t == [x EXCEPT !.reported = left]
<1>1. c \in Sessions /\ Orderly(c) /\ (\A i \in DOMAIN c.reads : Fits(c, c.reads[i]))
      /\ c.reported \subseteq {"in", "out"}
  BY Fields DEF Sound, Wf
<1>2. /\ rest \in AnyEvents
      /\ Items(c.ready) = Items(rest) + 1 /\ Items(rest) \in Nat
      /\ 1 \in DOMAIN c.ready /\ c.ready[1].kind = kind
      /\ \A i \in DOMAIN rest :
           i \in Nat /\ i > 0 /\ i + 1 \in DOMAIN c.ready /\ rest[i] = c.ready[i + 1]
  BY <1>1, Queue
<1>3. kind \in {"in", "out"} /\ left \in SUBSET {"in", "out"}
  BY <1>1
<1>4. kind \in c.reported
  BY <1>1, <1>2, <1>3 DEF Orderly, Once
<1> HIDE DEF kind, rest
<1>5. d \in Sessions  BY <1>1, <1>2, Setting DEF AnyEvents
<1>6. x \in Sessions  BY <1>3, <1>5, Setting
<1>7. t \in Sessions  BY <1>3, <1>6, Setting
<1>8. /\ t.reads = c.reads /\ t.writes = c.writes /\ t.words = c.words /\ t.done = c.done
      /\ t.ready = rest /\ t.started = c.started
      /\ t.reported = left /\ t.ended = c.ended /\ t.outbox = c.outbox
      /\ t.eof = c.eof /\ t.heard = c.heard /\ t.crashed = c.crashed /\ t.buf = c.buf
  <2> HIDE DEF left
  <2> QED  BY <1>1 DEF Sessions
<1>9. t = [[c EXCEPT !.ready = Tail(@)] EXCEPT !.trying = kind, !.reported = @ \ {kind}]
  <2>1. x.reported = c.reported  BY <1>1 DEF Sessions
  <2>2. d = [c EXCEPT !.ready = Tail(@)]  BY DEF rest
  <2>3. [d EXCEPT !.trying = kind, !.reported = @ \ {kind}]
          = [x EXCEPT !.reported = x.reported \ {kind}]
    OBVIOUS
  <2> HIDE DEF d, x
  <2> QED  BY <2>1, <2>2, <2>3
<1> HIDE DEF t
<1>10. \A i \in DOMAIN t.reads : Fits(t, t.reads[i])
  BY <1>1, <1>8 DEF Fits
<1>11. Orderly(t)
  <2>1. \A i \in DOMAIN c.ready : c.ready[i].kind = kind => i = 1
    BY <1>1, <1>2, <1>3 DEF Orderly, Once
  <2>2. \A i \in DOMAIN rest : rest[i].kind # kind
    BY <1>2, <2>1
  <2>3. \A i \in DOMAIN rest : rest[i].kind \in {"in", "out"} => rest[i].kind \in left
    BY <1>1, <1>2, <2>2 DEF Orderly, Once
  <2>4. \A i, j \in DOMAIN rest :
           rest[i].kind \in {"in", "out"} /\ rest[i].kind = rest[j].kind => i = j
    <3> SUFFICES ASSUME NEW i \in DOMAIN rest, NEW j \in DOMAIN rest,
                        rest[i].kind \in {"in", "out"}, rest[i].kind = rest[j].kind
                 PROVE  i = j
      OBVIOUS
    <3>1. i + 1 = j + 1
      BY <1>1, <1>2 DEF Orderly, Once
    <3> QED  BY <1>2, <3>1
  <2>5. Once(t)  BY <1>8, <2>3, <2>4 DEF Once
  <2>6. \A i \in DOMAIN t.ready : t.ready[i].kind = "write" => Started(c, t.ready[i].at)
    BY <1>1, <1>2, <1>8 DEF Orderly, Owned
  <2>7. Owned(t)
    BY <1>1, <1>8, <2>6, Owning DEF Orderly, Owned
  <2> QED  BY <2>5, <2>7 DEF Orderly
<1>12. ~t.crashed => Work(t) = work
  <2>1. Listed(c) = Listed(t) + 1 /\ Listed(t) \in Int
    <3>1. /\ t.reads = c.reads /\ t.writes = c.writes /\ t.words = c.words /\ t.done = c.done /\ t.ready = rest
      BY <1>8
    <3>2. /\ Items(c.reads) \in Nat /\ Items(c.writes) \in Nat /\ Items(c.done) \in Nat
      BY <1>1, Counts
    <3>3. Items(c.ready) = Items(rest) + 1 /\ Items(rest) \in Nat  BY <1>2
    <3> QED  BY <3>1, <3>2, <3>3 DEF Listed
  <2>2. \/ /\ Reported(c, "in") = Reported(t, "in") + 1
           /\ Reported(t, "out") = Reported(c, "out")
        \/ /\ Reported(t, "in") = Reported(c, "in")
           /\ Reported(c, "out") = Reported(t, "out") + 1
    BY <1>1, <1>3, <1>4, <1>8 DEF Reported
  <2>3. Work(t) = Work(c)
    <3>1. /\ Listed(c) \in Int /\ c.ended \in Nat /\ Items(c.heard) \in Nat
          /\ Reported(c, "in") \in Nat /\ Reported(c, "out") \in Nat
          /\ Reported(t, "in") \in Nat /\ Reported(t, "out") \in Nat
      BY <1>1, ListedInt, Counts DEF Reported
    <3>2. t.ended = c.ended /\ t.heard = c.heard  BY <1>8
    <3>3. CASE Reported(c, "in") = Reported(t, "in") + 1 /\ Reported(t, "out") = Reported(c, "out")
      BY <2>1, <3>1, <3>2, <3>3 DEF Work
    <3>4. CASE Reported(t, "in") = Reported(c, "in") /\ Reported(c, "out") = Reported(t, "out") + 1
      BY <2>1, <3>1, <3>2, <3>4 DEF Work
    <3> QED  BY <2>2, <3>3, <3>4
  <2>4. ~c.crashed => Work(c) = work  BY DEF Sound
  <2> QED  BY <1>8, <2>3, <2>4
<1>13. Spells(t, read, script)
  BY <1>8, SaysTheSame DEF Sound
<1>14. Sound(t, read, work, script)
  BY <1>7, <1>10, <1>11, <1>12, <1>13 DEF Sound, Wf
<1> QED  BY <1>8, <1>9, <1>14 DEF kind

\* The handler of an operation is taken from the queue.
LEMMA Taking ==
    ASSUME NEW c, NEW read, NEW work \in Int, NEW script, Sound(c, read, work, script),
           c.ready # <<>>, Head(c.ready).kind \notin {"in", "out"}
    PROVE  LET t == [c EXCEPT !.ready = Tail(@)]
           IN  /\ Sound(t, read, work - 1, script) /\ t.started = c.started
               /\ t.heard = c.heard /\ Head(c.ready) \in Ends
               /\ Head(c.ready).kind = "write" => Started(t, Head(c.ready).at)
<1> DEFINE rest == Tail(c.ready)
           t == [c EXCEPT !.ready = rest]
<1>1. c \in Sessions /\ Orderly(c) /\ (\A i \in DOMAIN c.reads : Fits(c, c.reads[i]))
  BY DEF Sound, Wf
<1>2. /\ rest \in AnyEvents
      /\ Items(c.ready) = Items(rest) + 1 /\ Items(rest) \in Nat
      /\ Head(c.ready) \in Ends \cup Reports
      /\ 1 \in DOMAIN c.ready /\ c.ready[1] = Head(c.ready)
      /\ \A i \in DOMAIN rest :
           i \in Nat /\ i > 0 /\ i + 1 \in DOMAIN c.ready /\ rest[i] = c.ready[i + 1]
  BY <1>1, Queue
<1>3. Head(c.ready) \in Ends
  BY <1>2 DEF Reports
<1> HIDE DEF rest
<1>4. t \in Sessions  BY <1>1, <1>2, Setting DEF AnyEvents
<1>5. /\ t.reads = c.reads /\ t.writes = c.writes /\ t.words = c.words /\ t.done = c.done
      /\ t.ready = rest /\ t.started = c.started
      /\ t.reported = c.reported /\ t.ended = c.ended /\ t.outbox = c.outbox
      /\ t.eof = c.eof /\ t.heard = c.heard /\ t.crashed = c.crashed /\ t.buf = c.buf
  BY <1>1 DEF Sessions
<1> HIDE DEF t
<1>6. \A i \in DOMAIN t.reads : Fits(t, t.reads[i])
  BY <1>1, <1>5 DEF Fits
<1>7. Orderly(t)
  <2>1. \A i \in DOMAIN rest : rest[i].kind \in {"in", "out"} => rest[i].kind \in c.reported
    BY <1>1, <1>2 DEF Orderly, Once
  <2>2. \A i, j \in DOMAIN rest :
           rest[i].kind \in {"in", "out"} /\ rest[i].kind = rest[j].kind => i = j
    <3> SUFFICES ASSUME NEW i \in DOMAIN rest, NEW j \in DOMAIN rest,
                        rest[i].kind \in {"in", "out"}, rest[i].kind = rest[j].kind
                 PROVE  i = j
      OBVIOUS
    <3>1. i + 1 = j + 1
      BY <1>1, <1>2 DEF Orderly, Once
    <3> QED  BY <1>2, <3>1
  <2>3. Once(t)  BY <1>5, <2>1, <2>2 DEF Once
  <2>4. \A i \in DOMAIN t.ready : t.ready[i].kind = "write" => Started(c, t.ready[i].at)
    BY <1>1, <1>2, <1>5 DEF Orderly, Owned
  <2>5. Owned(t)
    BY <1>1, <1>5, <2>4, Owning DEF Orderly, Owned
  <2> QED  BY <2>3, <2>5 DEF Orderly
<1>8. ~t.crashed => Work(t) = work - 1
  <2>1. Listed(c) = Listed(t) + 1 /\ Listed(t) \in Int
    <3>1. /\ t.reads = c.reads /\ t.writes = c.writes /\ t.words = c.words /\ t.done = c.done /\ t.ready = rest
      BY <1>5
    <3>2. /\ Items(c.reads) \in Nat /\ Items(c.writes) \in Nat /\ Items(c.done) \in Nat
      BY <1>1, Counts
    <3>3. Items(c.ready) = Items(rest) + 1 /\ Items(rest) \in Nat  BY <1>2
    <3> QED  BY <3>1, <3>2, <3>3 DEF Listed
  <2>2. Reported(t, "in") = Reported(c, "in") /\ Reported(t, "out") = Reported(c, "out")
    BY <1>5 DEF Reported
  <2>3. Work(t) = Work(c) - 1
    <3>1. /\ Listed(c) \in Int /\ c.ended \in Nat /\ Items(c.heard) \in Nat
          /\ Reported(c, "in") \in Nat /\ Reported(c, "out") \in Nat
          /\ Reported(t, "in") \in Nat /\ Reported(t, "out") \in Nat
      BY <1>1, ListedInt, Counts DEF Reported
    <3>2. t.ended = c.ended /\ t.heard = c.heard  BY <1>5
    <3> QED  BY <2>1, <2>2, <3>1, <3>2, SMTT(30) DEF Work
  <2>4. ~c.crashed => Work(c) = work  BY DEF Sound
  <2> QED  BY <1>5, <2>3, <2>4
<1>9. Spells(t, read, script)
  BY <1>5, SaysTheSame DEF Sound
<1>10. Sound(t, read, work - 1, script)
  BY <1>4, <1>6, <1>7, <1>8, <1>9 DEF Sound, Wf
<1>11. Head(c.ready).kind = "write" => Started(t, Head(c.ready).at)
  BY <1>1, <1>2, <1>5 DEF Orderly, Owned, Started
<1> QED  BY <1>3, <1>5, <1>10, <1>11 DEF t, rest

\* The first of the reads that wait is tried.
LEMMA TryingRead ==
    ASSUME NEW c, NEW read, NEW work \in Int, NEW script, Sound(c, read, work, script),
           c.reads # <<>>
    PROVE  LET op == Head(c.reads)
               t == [Receive(c, op) EXCEPT !.reads = Tail(@),
                                           !.done = Append(@, Received(c, op))]
           IN  Sound(t, read, work, script) /\ t.started = c.started /\ t.heard = c.heard
<1> DEFINE op == Head(c.reads)
           e == Received(c, op)
           r == Receive(c, op)
           rest == Tail(c.reads)
           ends == Append(c.done, e)
           x == [r EXCEPT !.reads = rest]
           t == [x EXCEPT !.done = ends]
<1>1. /\ c \in Sessions /\ Orderly(c) /\ (\A i \in DOMAIN c.reads : Fits(c, c.reads[i]))
      /\ c.reads \in Seq(ReadOps) /\ c.done \in Seq(Ends)
  BY Fields DEF Sound, Wf, Ends
<1>2. /\ op \in ReadOps /\ rest \in Seq(ReadOps) /\ op = c.reads[1] /\ 1 \in DOMAIN c.reads
      /\ Items(c.reads) = Items(rest) + 1
      /\ \A i \in DOMAIN rest : i + 1 \in DOMAIN c.reads /\ rest[i] = c.reads[i + 1]
  <2> DEFINE q == c.reads
  <2>1. q \in Seq(ReadOps) /\ q # <<>>
    BY <1>1
  <2> HIDE DEF q
  <2>2. /\ Head(q) \in ReadOps /\ Tail(q) \in Seq(ReadOps) /\ 1 \in DOMAIN q /\ q[1] = Head(q)
        /\ Items(q) = Items(Tail(q)) + 1
        /\ \A i \in DOMAIN Tail(q) : i + 1 \in DOMAIN q /\ Tail(q)[i] = q[i + 1]
    BY <2>1, FrontOfList
  <2> QED  BY <2>2 DEF q
<1>3. Fits(c, op)  BY <1>1, <1>2
<1>4. Sound(r, read, work, script) /\ e \in ReadEnds
  <2> HIDE DEF op
  <2> QED  BY <1>2, <1>3, Receiving
<1>5. r \in Sessions  BY <1>4 DEF Sound, Wf
<1>6. /\ r.reads = c.reads /\ r.done = c.done /\ r.started = c.started /\ r.heard = c.heard
  <2> DEFINE bytes == SubSeq(c.inbox, Count(c, op) + 1, Len(c.inbox))
             y == IF op.block = c.buf.block
                  THEN Store(c.buf, op.base, SubSeq(c.inbox, 1, Count(c, op))) ELSE c.buf
  <2>1. r = [c EXCEPT !.inbox = bytes, !.buf = y]
    BY DEF Receive
  <2> HIDE DEF bytes, y, r
  <2> QED  BY <1>1, <2>1 DEF Sessions
<1>7. ends \in Seq(Ends) /\ Items(ends) = Items(c.done) + 1
  <2> HIDE DEF e
  <2> QED  BY <1>1, <1>4, AppendProperties DEF Items, Ends
<1>8. t = [r EXCEPT !.reads = Tail(@), !.done = Append(@, e)]
  <2>1. x.done = c.done  BY <1>5, <1>6 DEF Sessions
  <2>2. [r EXCEPT !.reads = Tail(@), !.done = Append(@, e)]
          = [[r EXCEPT !.reads = Tail(r.reads)] EXCEPT !.done = Append(@, e)]
    OBVIOUS
  <2> HIDE DEF r, e
  <2> QED  BY <1>6, <2>1, <2>2
<1> HIDE DEF r, rest, ends, e, op
<1>9. x \in Sessions  BY <1>2, <1>5, Setting
<1>10. t \in Sessions  BY <1>7, <1>9, Setting DEF Ends
<1>11. /\ t.reads = rest /\ t.writes = r.writes /\ t.words = r.words /\ t.done = ends
       /\ t.ready = r.ready /\ t.started = c.started
       /\ t.reported = r.reported /\ t.ended = r.ended /\ t.outbox = r.outbox
       /\ t.eof = r.eof /\ t.heard = r.heard /\ t.crashed = r.crashed /\ t.buf = r.buf
  BY <1>5, <1>6 DEF Sessions
<1> HIDE DEF t
<1>12. \A i \in DOMAIN t.reads : Fits(t, t.reads[i])
  <2>1. \A i \in DOMAIN r.reads : Fits(r, r.reads[i])  BY <1>4 DEF Sound, Wf
  <2>2. \A o : Fits(r, o) <=> Fits(t, o)  BY <1>11 DEF Fits
  <2> QED  BY <1>2, <1>6, <1>11, <2>1, <2>2
<1>13. Orderly(t)
  <2>1. Once(r) /\ Owned(r)  BY <1>4 DEF Sound, Wf, Orderly
  <2>2. Once(t)  BY <1>11, <2>1 DEF Once
  <2>3. e.kind # "write"  BY <1>4 DEF ReadEnds
  <2>4. \A i \in DOMAIN ends : ends[i] = e \/ (i \in DOMAIN r.done /\ ends[i] = r.done[i])
    BY <1>1, <1>6, <1>4, Appended DEF ends, Ends
  <2>5. \A i \in DOMAIN t.done : t.done[i].kind = "write" => Started(r, t.done[i].at)
    BY <1>11, <2>1, <2>3, <2>4 DEF Owned
  <2>6. Owned(t)  BY <1>11, <2>1, <2>5, Owning DEF Owned
  <2> QED  BY <2>2, <2>6 DEF Orderly
<1>14. ~t.crashed => Work(t) = work
  <2>1. /\ Items(r.reads) = Items(rest) + 1 /\ Items(ends) = Items(r.done) + 1
        /\ Items(rest) \in Nat
    BY <1>2, <1>6, <1>7, LenProperties DEF Items
  <2>2. /\ Items(r.writes) \in Nat /\ Items(r.done) \in Nat /\ Items(r.ready) \in Nat
    BY <1>5, Counts
  <2>3. t.reads = rest /\ t.writes = r.writes /\ t.words = r.words /\ t.done = ends /\ t.ready = r.ready
    BY <1>11
  <2>4. Listed(t) = Listed(r)
    BY <2>1, <2>2, <2>3 DEF Listed
  <2>5. Work(t) = Work(r)
    BY <1>11, <2>4 DEF Work, Reported
  <2>6. ~r.crashed => Work(r) = work  BY <1>4 DEF Sound
  <2> QED  BY <1>11, <2>5, <2>6
<1>15. Spells(t, read, script)
  BY <1>4, <1>11, SaysTheSame DEF Sound
<1>16. Sound(t, read, work, script)
  BY <1>10, <1>12, <1>13, <1>14, <1>15 DEF Sound, Wf
<1> QED  BY <1>6, <1>8, <1>11, <1>16 DEF op, e, r

\* The first of the writes that wait is tried.
LEMMA TryingWrite ==
    ASSUME NEW c, NEW read \in Speech, NEW work \in Int, NEW script,
           Sound(c, read, work, script), c.writes # <<>>, Writable(c)
    PROVE  LET at == Head(c.writes)
               t == [Transmit(c, at) EXCEPT !.writes = Tail(@),
                                            !.done = Append(@, Written(c, at))]
           IN  Sound(t, read, work, script) /\ t.started = c.started /\ t.heard = c.heard
<1> DEFINE q == c.writes
           at == Head(q)
           e == Written(c, at)
           rest == Tail(q)
           ends == Append(c.done, e)
           r == Transmit(c, at)
           x == [r EXCEPT !.writes = rest]
           t == [x EXCEPT !.done = ends]
           k == Len(rest)
<1>1. /\ c \in Sessions /\ Orderly(c) /\ (\A i \in DOMAIN c.reads : Fits(c, c.reads[i]))
      /\ q \in Seq(Nat) /\ q # <<>> /\ c.done \in Seq(Ends) /\ c.reset \in BOOLEAN
      /\ (\A i \in DOMAIN c.writes : c.writes[i] \in DOMAIN c.words)
      /\ Spells(c, read, script) /\ (~c.crashed => Work(c) = work)
  BY Fields DEF Sound, Wf, Ends, Orderly, Owned
<1> HIDE DEF q
<1>2. /\ at \in Nat /\ rest \in Seq(Nat) /\ at = q[1] /\ Len(q) = k + 1 /\ k \in Nat
      /\ DOMAIN q = 1..(k + 1) /\ DOMAIN rest = 1..k
      /\ \A i \in 1..k : rest[i] = q[i + 1]
  BY <1>1, HeadTailProperties, LenProperties
<1>3. at \in DOMAIN c.words
  <2>1. 1 \in 1..(k + 1)  BY <1>2
  <2> QED  BY <1>1, <1>2, <2>1 DEF q
<1> HIDE DEF rest, k, at
<1>4. e \in WriteEnds /\ e.at = at
  BY <1>1, <1>2 DEF Written, WriteEnds
<1>5. ends \in Seq(Ends) /\ Items(ends) = Items(c.done) + 1
  <2> HIDE DEF e
  <2> QED  BY <1>1, <1>4, AppendProperties DEF Items, Ends
<1>6. ~c.eof => Turns(c) /\ Owed(c, 0)
  BY <1>1 DEF Spells
<1>7. ~c.eof /\ Fresh(c, at) /\ at > 1 => ~Fresh(c, at - 1)
  <2> SUFFICES ASSUME ~c.eof, at > 1, Fresh(c, at - 1)  PROVE FALSE
    OBVIOUS
  <2>1. at - 1 \in 1..Len(c.words) /\ at - 1 # 0
    <3>1. DOMAIN c.words = 1..Len(c.words) /\ Len(c.words) \in Nat
      BY <1>1, Fields, LenProperties
    <3> QED  BY <1>2, <1>3, <3>1
  <2>2. PICK i \in 1..(k + 1) : q[i] = at - 1
    BY <1>2, <1>6, <2>1 DEF Owed, q
  <2>3. i # 1 /\ 1 < i /\ 1 \in 1..(k + 1)
    <3>1. at # at - 1  BY <1>2
    <3>2. i # 1  BY <1>2, <2>2, <3>1
    <3> QED  BY <1>2, <3>2
  <2>4. q[1] < q[i]
    BY <1>2, <1>6, <2>2, <2>3 DEF Turns, q
  <2> QED  BY <1>2, <2>2, <2>4
<1>8. ~c.eof => Owed(c, at)
  BY <1>6 DEF Owed
<1>9. /\ r \in Sessions /\ Spells(r, read, script)
      /\ DOMAIN r.words = DOMAIN c.words /\ Started(r, at)
      /\ (\A b : Started(c, b) => Started(r, b))
      /\ r.reads = c.reads /\ r.writes = c.writes /\ r.done = c.done
      /\ r.ready = c.ready /\ r.started = c.started
      /\ r.reported = c.reported /\ r.ended = c.ended
      /\ r.eof = c.eof /\ r.heard = c.heard /\ r.crashed = c.crashed
      /\ r.buf = c.buf /\ r.reset = c.reset
  <2>1. Scripted(c, script) /\ Said(c, Spoken(c, read))
    BY <1>1 DEF Spells
  <2> QED  BY <1>1, <1>3, <1>6, <1>7, <1>8, <2>1, Transmitting
<1> HIDE DEF r
<1>10. t = [r EXCEPT !.writes = Tail(@), !.done = Append(@, e)]
  <2>1. x.done = c.done  BY <1>9 DEF Sessions
  <2>2. [r EXCEPT !.writes = Tail(@), !.done = Append(@, e)]
          = [[r EXCEPT !.writes = Tail(r.writes)] EXCEPT !.done = Append(@, e)]
    OBVIOUS
  <2> HIDE DEF e
  <2> QED  BY <1>9, <2>1, <2>2 DEF rest, q
<1> HIDE DEF ends, e
<1>11. x \in Sessions  BY <1>2, <1>9, Setting
<1>12. t \in Sessions  BY <1>5, <1>11, Setting DEF Ends
<1>13. /\ t.reads = c.reads /\ t.writes = rest /\ t.words = r.words /\ t.done = ends
       /\ t.ready = c.ready /\ t.started = c.started
       /\ t.reported = c.reported /\ t.ended = c.ended /\ t.outbox = r.outbox
       /\ t.eof = c.eof /\ t.heard = c.heard /\ t.crashed = c.crashed /\ t.buf = c.buf
  BY <1>9 DEF Sessions
<1> HIDE DEF t, x
<1>14. \A i \in DOMAIN t.reads : Fits(t, t.reads[i])
  BY <1>1, <1>13 DEF Fits
<1>15. Orderly(t)
  <2>1. Once(t)  BY <1>1, <1>13 DEF Orderly, Once
  <2>2. \A i \in DOMAIN rest : rest[i] \in DOMAIN r.words
    <3> SUFFICES ASSUME NEW i \in 1..k  PROVE rest[i] \in DOMAIN r.words
      BY <1>2
    <3>1. i + 1 \in 1..(k + 1)  BY <1>2
    <3> QED  BY <1>1, <1>2, <1>9, <3>1 DEF q
  <2>3. \A i \in DOMAIN c.ready : c.ready[i].kind = "write" => Started(r, c.ready[i].at)
    BY <1>1, <1>9 DEF Orderly, Owned
  <2>4. \A i \in DOMAIN ends : ends[i] = e \/ (i \in DOMAIN c.done /\ ends[i] = c.done[i])
    <3>1. e \in Ends  BY <1>4 DEF Ends
    <3> QED  BY <1>1, <3>1, Appended DEF ends
  <2>5. \A i \in DOMAIN ends : ends[i].kind = "write" => Started(r, ends[i].at)
    BY <1>1, <1>4, <1>9, <2>4 DEF Orderly, Owned
  <2>6. Owned(t)
    BY <1>13, <2>2, <2>3, <2>5 DEF Owned, Started
  <2> QED  BY <2>1, <2>6 DEF Orderly
<1>16. ~t.crashed => Work(t) = work
  <2>1. Items(c.writes) = Items(rest) + 1 /\ Items(rest) \in Nat
    BY <1>2 DEF Items, q, k
  <2>2. /\ Items(c.reads) \in Nat /\ Items(c.done) \in Nat /\ Items(c.ready) \in Nat
    BY <1>1, Counts
  <2>3. t.reads = c.reads /\ t.writes = rest /\ t.done = ends /\ t.ready = c.ready
    BY <1>13
  <2>4. Listed(t) = Listed(c)
    BY <1>5, <2>1, <2>2, <2>3 DEF Listed
  <2>5. Work(t) = Work(c)
    BY <1>13, <2>4 DEF Work, Reported
  <2> QED  BY <1>1, <1>13, <2>5
<1>17. Spells(t, read, script)
  <2>1. Spoken(t, read) = Spoken(r, read)  BY <1>13 DEF Spoken
  <2>2. Scripted(t, script) /\ Said(t, Spoken(t, read))
    BY <1>9, <1>13, <2>1 DEF Spells, Scripted, Said, Belongs, Complete
  <2>3. ASSUME ~c.eof  PROVE Turns(t) /\ Owed(t, 0)
    <3>1. Turns(r) /\ Owed(r, 0)  BY <1>9, <2>3 DEF Spells
    <3>2. \A b : Fresh(t, b) <=> Fresh(r, b)  BY <1>13 DEF Fresh
    <3>3. Turns(t)
      <4> SUFFICES ASSUME NEW i \in 1..k, NEW j \in 1..k, i < j, Fresh(r, rest[j])
                   PROVE  rest[i] < rest[j]
        BY <1>13, <3>2 DEF Turns, k
      <4>1. i + 1 \in 1..(k + 1) /\ j + 1 \in 1..(k + 1) /\ i + 1 < j + 1
        BY <1>2
      <4> QED  BY <1>2, <1>9, <3>1, <4>1 DEF Turns, q
    <3>4. Owed(t, 0)
      <4> SUFFICES ASSUME NEW b \in 1..Len(r.words), Fresh(r, b)
                   PROVE  \E i \in 1..k : rest[i] = b
        BY <1>13, <3>2 DEF Owed, k
      <4>1. PICK i \in 1..(k + 1) : q[i] = b
        BY <1>2, <1>9, <3>1 DEF Owed, q
      <4>2. b # at
        <5>1. r.words[at].taken > 0 /\ r.words[b].taken = 0
          BY <1>9 DEF Started, Fresh
        <5> QED  BY <5>1
      <4>3. i # 1  BY <1>2, <4>1, <4>2
      <4>4. i - 1 \in 1..k /\ (i - 1) + 1 = i  BY <1>2, <4>3
      <4>5. rest[i - 1] = b  BY <1>2, <4>1, <4>4
      <4> QED  BY <4>4, <4>5
    <3> QED  BY <3>3, <3>4
  <2> QED  BY <1>13, <2>2, <2>3 DEF Spells
<1>18. Sound(t, read, work, script)
  BY <1>12, <1>14, <1>15, <1>16, <1>17 DEF Sound, Wf
<1> QED  BY <1>9, <1>10, <1>13, <1>18 DEF e, r, at, q

\* What has been tried is queued, all but the first, which is dispatched.
LEMMA Trying ==
    ASSUME NEW c, NEW read \in Speech, Sound(c, read, 2, Dialogue(c.heard)), c.done # <<>>
    PROVE  LET d == [c EXCEPT !.trying = "none", !.done = <<>>]
               t == Dispatch([d EXCEPT !.ready = @ \o Tail(c.done)], Head(c.done))
           IN  Sound(t, read, 2, Dialogue(t.heard)) /\ t.started = c.started
<1> DEFINE q == c.done
           more == c.ready \o Tail(q)
           x == [c EXCEPT !.trying = "none"]
           d == [x EXCEPT !.done = <<>>]
           r == [d EXCEPT !.ready = more]
<1>1. /\ c \in Sessions /\ Orderly(c) /\ (\A i \in DOMAIN c.reads : Fits(c, c.reads[i]))
      /\ q \in Seq(Ends) /\ q # <<>> /\ c.ready \in AnyEvents
  BY Fields DEF Sound, Wf, Ends, AnyEvents
<1> HIDE DEF q
<1>2. /\ Head(q) \in Ends /\ Tail(q) \in Seq(Ends)
      /\ Items(q) = Items(Tail(q)) + 1 /\ Items(Tail(q)) \in Nat
  BY <1>1, HeadTailProperties, LenProperties DEF Items
<1>3. Tail(q) \in AnyEvents
  BY <1>2, SeqMonotonic DEF Ends, AnyEvents
<1> DEFINE k == Len(Tail(q))
           m == Len(c.ready)
<1>4. /\ more \in AnyEvents /\ Len(more) = m + k /\ m \in Nat /\ k \in Nat
      /\ DOMAIN more = 1..(m + k) /\ DOMAIN c.ready = 1..m
      /\ \A i \in 1..(m + k) : more[i] = IF i <= m THEN c.ready[i] ELSE Tail(q)[i - m]
      /\ \A i \in 1..k : Tail(q)[i] \in Ends
  <2>1. m \in Nat /\ k \in Nat /\ DOMAIN c.ready = 1..m /\ \A i \in 1..k : Tail(q)[i] \in Ends
    BY <1>1, <1>2, LenProperties, ElementOfSeq DEF AnyEvents
  <2>2. /\ more \in AnyEvents /\ Len(more) = m + k
        /\ \A i \in 1..(m + k) : more[i] = IF i <= m THEN c.ready[i] ELSE Tail(q)[i - m]
    BY <1>1, <1>3, ConcatProperties DEF AnyEvents
  <2>3. DOMAIN more = 1..Len(more)
    BY <2>2, LenProperties DEF AnyEvents
  <2> QED  BY <2>1, <2>2, <2>3
<1> HIDE DEF more
<1>5. Items(more) = Items(c.ready) + Items(Tail(q))
  BY <1>4 DEF Items
<1> HIDE DEF k, m
<1>6. x \in Sessions  BY <1>1, Setting
<1>7. d \in Sessions
  <2>1. <<>> \in Seq(ReadEnds \cup WriteEnds)  BY EmptySeq
  <2> QED  BY <1>6, <2>1, Setting
<1>8. r \in Sessions  BY <1>4, <1>7, Setting DEF AnyEvents
<1>9. /\ r.reads = c.reads /\ r.writes = c.writes /\ r.words = c.words /\ r.done = <<>>
      /\ r.ready = more /\ r.started = c.started
      /\ r.reported = c.reported /\ r.ended = c.ended /\ r.outbox = c.outbox
      /\ r.eof = c.eof /\ r.heard = c.heard /\ r.crashed = c.crashed /\ r.buf = c.buf
  BY <1>1 DEF Sessions
<1>10. r = [[c EXCEPT !.trying = "none", !.done = <<>>] EXCEPT !.ready = @ \o Tail(c.done)]
  <2>1. d = [c EXCEPT !.trying = "none", !.done = <<>>]
    OBVIOUS
  <2>2. d.ready = c.ready  BY <1>1 DEF Sessions
  <2> HIDE DEF d
  <2>3. r = [d EXCEPT !.ready = @ \o Tail(c.done)]
    BY <2>2 DEF more, q
  <2> QED  BY <2>1, <2>3
<1> HIDE DEF r, d, x
<1>11. \A i \in DOMAIN r.reads : Fits(r, r.reads[i])
  BY <1>1, <1>9 DEF Fits
<1>12. Orderly(r)
  <2>1. \A e \in Ends : e.kind \notin {"in", "out"}
    BY DEF Ends, ReadEnds, WriteEnds
  <2>2. ASSUME NEW i \in DOMAIN more, more[i].kind \in {"in", "out"}
        PROVE  i \in DOMAIN c.ready /\ more[i] = c.ready[i]
    <3>1. CASE i <= m
      BY <1>4, <3>1
    <3>2. CASE ~(i <= m)
      <4>1. i \in 1..(m + k) /\ m \in Nat /\ k \in Nat
        BY <1>4
      <4>2. i - m \in 1..k
        BY <3>2, <4>1
      <4>3. more[i] = Tail(q)[i - m]
        BY <1>4, <3>2, <4>1
      <4> QED  BY <1>4, <2>1, <2>2, <4>2, <4>3
    <3> QED  BY <3>1, <3>2
  <2>3. Once(r)  BY <1>1, <1>9, <2>2 DEF Orderly, Once
  <2>4. ASSUME NEW i \in DOMAIN more, more[i].kind = "write"  PROVE Started(c, more[i].at)
    <3>1. CASE i <= m
      <4>1. i \in DOMAIN c.ready /\ more[i] = c.ready[i]  BY <1>4, <3>1
      <4> QED  BY <1>1, <2>4, <4>1 DEF Orderly, Owned
    <3>2. CASE ~(i <= m)
      <4>1. i \in 1..(m + k) /\ m \in Nat /\ k \in Nat
        BY <1>4
      <4>2. i - m \in 1..k
        BY <3>2, <4>1
      <4>3. more[i] = Tail(q)[i - m]
        BY <1>4, <3>2, <4>1
      <4>4. i - m \in DOMAIN Tail(q)
        BY <1>2, <4>2, LenProperties DEF k
      <4>5. (i - m) + 1 \in DOMAIN c.done /\ Tail(q)[i - m] = c.done[(i - m) + 1]
        BY <1>1, <4>4, FrontOfList DEF q
      <4> QED  BY <1>1, <2>4, <4>3, <4>5 DEF Orderly, Owned
    <3> QED  BY <3>1, <3>2
  <2>5. \A i \in DOMAIN r.ready : r.ready[i].kind = "write" => Started(c, r.ready[i].at)
    BY <1>9, <2>4
  <2>6. DOMAIN r.done = {}  BY <1>9
  <2>7. Owned(r)  BY <1>1, <1>9, <2>5, <2>6, Owning DEF Orderly, Owned
  <2> QED  BY <2>3, <2>7 DEF Orderly
<1>13. ~r.crashed => Work(r) = 1
  <2>1. Items(c.done) = Items(Tail(q)) + 1
    BY <1>2 DEF q
  <2>2. Items(<<>>) = 0
    BY EmptySeq DEF Items
  <2>3. /\ Items(c.reads) \in Nat /\ Items(c.writes) \in Nat /\ Items(c.ready) \in Nat
        /\ Items(Tail(q)) \in Nat
    BY <1>1, <1>2, Counts
  <2>4. r.reads = c.reads /\ r.writes = c.writes /\ r.words = c.words /\ r.done = <<>> /\ r.ready = more
    BY <1>9
  <2>5. Listed(c) = Listed(r) + 1 /\ Listed(r) \in Int
    BY <1>5, <2>1, <2>2, <2>3, <2>4 DEF Listed
  <2>6. Work(c) = Work(r) + 1
    <3>1. /\ c.ended \in Nat /\ Items(c.heard) \in Nat
          /\ Reported(c, "in") \in Nat /\ Reported(c, "out") \in Nat
      BY <1>1, Counts
    <3>2. /\ r.ended = c.ended /\ r.heard = c.heard
          /\ Reported(r, "in") = Reported(c, "in") /\ Reported(r, "out") = Reported(c, "out")
      BY <1>9 DEF Reported
    <3> QED  BY <2>5, <3>1, <3>2 DEF Work
  <2>7. ~c.crashed => Work(c) = 2  BY DEF Sound
  <2>8. Work(r) \in Int  BY <1>8, ListedInt
  <2> QED  BY <1>9, <2>6, <2>7, <2>8
<1>14. Spells(r, read, Dialogue(r.heard))
  BY <1>9, SaysTheSame DEF Sound
<1>15. Sound(r, read, 1, Dialogue(r.heard))
  BY <1>8, <1>11, <1>12, <1>13, <1>14 DEF Sound, Wf
<1>16. LET t == Dispatch(r, Head(q))
       IN  Sound(t, read, 2, Dialogue(t.heard)) /\ t.started = r.started
  <2>1. 1 \in DOMAIN c.done /\ c.done[1] = Head(q)
    BY <1>1, FrontOfList DEF q
  <2>2. Head(q).kind = "write" => Started(r, Head(q).at)
    BY <1>1, <1>9, <2>1 DEF Orderly, Owned, Started
  <2> QED  BY <1>2, <1>15, <2>2, Dispatching DEF Ends
<1> QED  BY <1>9, <1>10, <1>16 DEF q

-----------------------------------------------------------------------------
(* The invariant.                                                          *)

\* start() prompts, and begins the first read.
LEMMA Starting ==
    ASSUME NEW c, NEW read \in Speech, Sound(c, read, 0, <<>>), c.heard = <<>>
    PROVE  LET t == DoStart([c EXCEPT !.started = TRUE])
           IN  Sound(t, read, 2, Dialogue(t.heard)) /\ t.started = TRUE
<1> DEFINE d == [c EXCEPT !.started = TRUE]
           half == DoPrompt(d)
           t == AsyncReadUntil(half)
<1>1. c \in Sessions  BY DEF Sound, Wf
<1>2. d \in Sessions  BY <1>1, Setting
<1>3. /\ d.reads = c.reads /\ d.writes = c.writes /\ d.words = c.words /\ d.done = c.done /\ d.ready = c.ready
      /\ d.reported = c.reported /\ d.ended = c.ended /\ d.outbox = c.outbox
      /\ d.eof = c.eof /\ d.heard = c.heard /\ d.crashed = c.crashed /\ d.buf = c.buf
      /\ d.started = TRUE
  BY <1>1 DEF Sessions
<1>4. DoStart(d) = t  BY DEF DoStart, DoRead
<1>5. Holds(d.buf, c.buf)
  BY <1>1, <1>3, Fields, StillHolds
<1> HIDE DEF d
<1>6. Sound(d, read, 0, <<>>)
  BY <1>2, <1>3, <1>5, Framed
<1>7. <<>> \in Seq(Texts)  BY EmptySeq
<1>8. /\ Sound(half, read, 0 + 1, Append(<<>>, Prompt))
      /\ half.heard = d.heard /\ half.started = d.started
  <2> DEFINE none == <<>>
  <2>1. none \in Seq(Texts) /\ Sound(d, read, 0, none)
    BY <1>6, <1>7
  <2> HIDE DEF none
  <2>2. /\ Sound(DoPrompt(d), read, 0 + 1, Append(none, Prompt))
        /\ DoPrompt(d).heard = d.heard /\ DoPrompt(d).started = d.started
    <3>1. 0 \in Int  OBVIOUS
    <3> QED  BY <2>1, <3>1, Prompting
  <2> QED  BY <2>2 DEF none
<1>9. half \in Sessions /\ half.heard = c.heard /\ half.started = TRUE
  BY <1>3, <1>8 DEF Sound, Wf
<1> HIDE DEF half
<1>10. Sound(t, read, 1 + 1, Append(<<>>, Prompt))
  BY <1>8, ReadingUntil
<1>11. t.heard = c.heard /\ t.started = TRUE
  BY <1>9, Unheard
<1> HIDE DEF t
<1>12. Append(<<>>, Prompt) = Dialogue(<<>>)
  <2> DEFINE one == Append(<<>>, Prompt)
             two == Dialogue(<<>>)
  <2>1. Prompt \in Texts  BY Lengths
  <2>2. one \in Seq(Texts) /\ Len(one) = 1 /\ one[1] = Prompt
    BY <1>7, <2>1, AppendProperties, EmptySeq
  <2>3. two \in Seq(Texts) /\ Len(two) = 1 /\ two[1] = Prompt
    <3>1. <<>> \in Seq(Characters) /\ Len(<<>>) = 0  BY EmptySeq
    <3>2. /\ two \in Seq(Texts) /\ Len(two) = 2 * 0 + 1
          /\ \A i \in 1..(2 * 0 + 1) :
               two[i] = IF i % 2 = 1 THEN Prompt ELSE Execute((<<>>)[i \div 2])
      BY <3>1, Dialogues
    <3> HIDE DEF two
    <3> QED  BY <3>2
  <2> HIDE DEF one, two
  <2>4. one = two  BY <2>2, <2>3, SeqEqual
  <2> QED  BY <2>4 DEF one, two
<1> QED  BY <1>4, <1>10, <1>11, <1>12 DEF d

\* What the client and the network do leaves the operations as they are.
LEMMA Elsewhere ==
    ASSUME NEW c, NEW read, Kept(c, read), NEW t \in Sessions,
           t.reads = c.reads, t.writes = c.writes, t.words = c.words, t.done = c.done, t.ready = c.ready,
           t.reported = c.reported, t.ended = c.ended, t.outbox = c.outbox, t.eof = c.eof,
           t.heard = c.heard, t.crashed = c.crashed, t.buf = c.buf,
           t.started = c.started, t.trying = c.trying, t.room = c.room
    PROVE  Kept(t, read)
<1>1. c \in Sessions /\ c.started \in BOOLEAN
  <2>1. c \in Sessions  BY DEF Kept, Sound, Wf
  <2> QED  BY <2>1, Fields
<1>2. Holds(t.buf, c.buf)
  BY <1>1, Fields, StillHolds
<1>3. \A work, script : Sound(c, read, work, script) => Sound(t, read, work, script)
  BY <1>2, Framed
<1>4. Unstarted(c) => Unstarted(t)  BY DEF Unstarted
<1> QED  BY <1>1, <1>3, <1>4 DEF Kept

LEMMA Arriving ==
    ASSUME NEW c, NEW read, Kept(c, read), NEW bytes \in Seq(Characters)
    PROVE  Kept([c EXCEPT !.inbox = @ \o bytes, !.news = TRUE], read)
<1> DEFINE more == c.inbox \o bytes
           x == [c EXCEPT !.inbox = more]
           t == [x EXCEPT !.news = TRUE]
<1>1. c \in Sessions  BY Fields DEF Kept, Sound, Wf
<1>2. more \in Seq(Characters)  BY <1>1, Fields, ConcatProperties
<1> HIDE DEF more
<1>3. x \in Sessions  BY <1>1, <1>2, Setting
<1>4. t \in Sessions  BY <1>3, Setting
<1>5. /\ t.reads = c.reads /\ t.writes = c.writes /\ t.words = c.words /\ t.done = c.done /\ t.ready = c.ready
      /\ t.reported = c.reported /\ t.ended = c.ended /\ t.outbox = c.outbox /\ t.eof = c.eof
      /\ t.heard = c.heard /\ t.crashed = c.crashed /\ t.buf = c.buf
      /\ t.started = c.started /\ t.trying = c.trying /\ t.room = c.room
  BY <1>1 DEF Sessions
<1>6. t = [c EXCEPT !.inbox = @ \o bytes, !.news = TRUE]
  BY DEF more
<1> HIDE DEF t
<1>7. Kept(t, read)  BY <1>4, <1>5, Elsewhere
<1> QED  BY <1>6, <1>7

LEMMA Resetting ==
    ASSUME NEW c, NEW read, Kept(c, read)
    PROVE  Kept([c EXCEPT !.reset = TRUE, !.inbox = <<>>, !.news = TRUE], read)
<1> DEFINE x == [c EXCEPT !.reset = TRUE]
           y == [x EXCEPT !.inbox = <<>>]
           t == [y EXCEPT !.news = TRUE]
<1>1. c \in Sessions  BY Fields DEF Kept, Sound, Wf
<1>2. x \in Sessions  BY <1>1, Setting
<1>3. y \in Sessions
  <2>1. <<>> \in Seq(Characters)  BY EmptySeq
  <2> HIDE DEF x
  <2> QED  BY <1>2, <2>1, Setting
<1>4. t \in Sessions
  <2> HIDE DEF y
  <2> QED  BY <1>3, Setting
<1>5. /\ t.reads = c.reads /\ t.writes = c.writes /\ t.words = c.words /\ t.done = c.done /\ t.ready = c.ready
      /\ t.reported = c.reported /\ t.ended = c.ended /\ t.outbox = c.outbox /\ t.eof = c.eof
      /\ t.heard = c.heard /\ t.crashed = c.crashed /\ t.buf = c.buf
      /\ t.started = c.started /\ t.trying = c.trying /\ t.room = c.room
  BY <1>1 DEF Sessions
<1>6. t = [c EXCEPT !.reset = TRUE, !.inbox = <<>>, !.news = TRUE]
  OBVIOUS
<1> HIDE DEF t
<1>7. Kept(t, read)  BY <1>4, <1>5, Elsewhere
<1> QED  BY <1>6, <1>7

\* The client leaves: what is written from now on is not said.
LEMMA Leaving ==
    ASSUME NEW c, NEW read, Kept(c, read)
    PROVE  Kept([c EXCEPT !.eof = TRUE, !.news = TRUE, !.room = c.writes # <<>>], read)
<1> DEFINE x == [c EXCEPT !.eof = TRUE]
           y == [x EXCEPT !.news = TRUE]
           t == [y EXCEPT !.room = c.writes # <<>>]
<1>1. c \in Sessions /\ c.started \in BOOLEAN
  <2>1. c \in Sessions  BY DEF Kept, Sound, Wf
  <2> QED  BY <2>1, Fields
<1>2. x \in Sessions  BY <1>1, Setting
<1>3. y \in Sessions
  <2> HIDE DEF x
  <2> QED  BY <1>2, Setting
<1>4. t \in Sessions
  <2>1. (c.writes # <<>>) \in BOOLEAN  OBVIOUS
  <2> HIDE DEF y
  <2> QED  BY <1>3, <2>1, Setting
<1>5. /\ t.reads = c.reads /\ t.writes = c.writes /\ t.words = c.words /\ t.done = c.done /\ t.ready = c.ready
      /\ t.reported = c.reported /\ t.ended = c.ended /\ t.outbox = c.outbox /\ t.eof = TRUE
      /\ t.heard = c.heard /\ t.crashed = c.crashed /\ t.buf = c.buf
      /\ t.started = c.started /\ t.trying = c.trying /\ t.room = (c.writes # <<>>)
  BY <1>1 DEF Sessions
<1>6. t = [c EXCEPT !.eof = TRUE, !.news = TRUE, !.room = c.writes # <<>>]
  OBVIOUS
<1> HIDE DEF t
<1>7. ASSUME NEW work, NEW script, Sound(c, read, work, script)
      PROVE  Sound(t, read, work, script)
  <2>1. \A i \in DOMAIN t.reads : Fits(t, t.reads[i])
    BY <1>5, <1>7 DEF Sound, Wf, Fits
  <2>2. Orderly(t)  BY <1>5, <1>7 DEF Sound, Wf, Orderly, Once, Owned, Started
  <2>3. ~t.crashed => Work(t) = work
    <3>1. Work(t) = Work(c)  BY <1>5, Zenon DEF Work, Listed, Reported
    <3> QED  BY <1>5, <1>7, <3>1, Zenon DEF Sound
  <2>4. Spells(t, read, script)
    BY <1>5, <1>7, SaysTheSame DEF Sound
  <2> QED  BY <1>4, <2>1, <2>2, <2>3, <2>4 DEF Sound, Wf
<1>8. Unstarted(c) => Unstarted(t)  BY <1>5 DEF Unstarted
<1>9. Kept(t, read)  BY <1>1, <1>5, <1>7, <1>8 DEF Kept
<1> QED  BY <1>6, <1>9

\* What the client reads is on the wire as it was in the socket.
LEMMA ReadAcross ==
    ASSUME NEW S, NEW z \in Seq(S), NEW q \in Seq(S), q # <<>>
    PROVE  Append(z, Head(q)) \o Tail(q) = z \o q
<1> DEFINE a == Head(q)
           y == Tail(q)
<1>1. z \in Seq(S) /\ q \in Seq(S) /\ q # <<>> /\ a \in S /\ y \in Seq(S)
  BY HeadTailProperties
<1>2. q = <<a>> \o y
  BY <1>1
<1> HIDE DEF a, y
<1>3. Append(z, a) = z \o <<a>>  BY <1>1, AppendIsConcat
<1>4. <<a>> \in Seq(S)  BY <1>1
<1>5. z \o (<<a>> \o y) = (z \o <<a>>) \o y
  <2> DEFINE w == <<a>>
  <2>1. w \in Seq(S)  BY <1>4
  <2> HIDE DEF w
  <2>2. z \o (w \o y) = (z \o w) \o y
    BY <1>1, <2>1, Regroup
  <2> QED  BY <2>2 DEF w
<1>6. Append(z, a) \o y = z \o q
  BY <1>2, <1>3, <1>5, Zenon
<1> QED  BY <1>6, Zenon DEF a, y

\* The client reads what the socket holds first.
LEMMA Hearing ==
    ASSUME NEW c, NEW read \in Speech, Kept(c, read), c.outbox # <<>>
    PROVE  LET t == [c EXCEPT !.outbox = Tail(@), !.room = c.writes # <<>>]
           IN  /\ Kept(t, Append(read, Head(c.outbox)))
               /\ Append(read, Head(c.outbox)) \in Speech
<1> DEFINE q == c.outbox
           more == Append(read, Head(q))
           x == [c EXCEPT !.outbox = Tail(q)]
           t == [x EXCEPT !.room = c.writes # <<>>]
<1>1. c \in Sessions /\ c.started \in BOOLEAN /\ q \in Speech /\ q # <<>>
  <2>1. c \in Sessions  BY DEF Kept, Sound, Wf
  <2> QED  BY <2>1, Fields
<1> HIDE DEF q
<1>2. Head(q) \in Bytes /\ Tail(q) \in Speech /\ more \in Speech
  BY <1>1, HeadTailProperties, AppendProperties DEF Speech
<1>3. more \o Tail(q) = read \o q
  BY <1>1, ReadAcross DEF Speech
<1> HIDE DEF more
<1>4. x \in Sessions  BY <1>1, <1>2, Setting
<1>5. t \in Sessions
  <2>1. (c.writes # <<>>) \in BOOLEAN  OBVIOUS
  <2> HIDE DEF x
  <2> QED  BY <1>4, <2>1, Setting
<1>6. /\ t.reads = c.reads /\ t.writes = c.writes /\ t.words = c.words /\ t.done = c.done /\ t.ready = c.ready
      /\ t.reported = c.reported /\ t.ended = c.ended /\ t.outbox = Tail(q) /\ t.eof = c.eof
      /\ t.heard = c.heard /\ t.crashed = c.crashed /\ t.buf = c.buf
      /\ t.started = c.started /\ t.trying = c.trying /\ t.room = (c.writes # <<>>)
  BY <1>1 DEF Sessions
<1>7. t = [c EXCEPT !.outbox = Tail(@), !.room = c.writes # <<>>]
  BY DEF q
<1> HIDE DEF t
<1>8. Spoken(t, more) = Spoken(c, read)
  BY <1>3, <1>6 DEF Spoken, q
<1>9. ASSUME NEW work, NEW script, Sound(c, read, work, script)
      PROVE  Sound(t, more, work, script)
  <2>1. \A i \in DOMAIN t.reads : Fits(t, t.reads[i])
    BY <1>6, <1>9 DEF Sound, Wf, Fits
  <2>2. Orderly(t)  BY <1>6, <1>9 DEF Sound, Wf, Orderly, Once, Owned, Started
  <2>3. ~t.crashed => Work(t) = work
    BY <1>6, <1>9, Zenon DEF Sound, Work, Listed, Reported
  <2>4. Spells(t, more, script)
    <3> DEFINE wire == Spoken(c, read)
    <3>1. Spoken(t, more) = wire  BY <1>8
    <3>2. Spells(c, read, script)  BY <1>9 DEF Sound
    <3> HIDE DEF wire
    <3>3. Scripted(t, script) /\ Said(t, wire)
      BY <1>6, <3>2 DEF Spells, Scripted, Said, Belongs, Complete, wire
    <3>4. ~t.eof => Turns(t) /\ Owed(t, 0)
      BY <1>6, <3>2 DEF Spells, Turns, Owed, Fresh
    <3> QED  BY <3>1, <3>3, <3>4 DEF Spells
  <2> QED  BY <1>5, <2>1, <2>2, <2>3, <2>4 DEF Sound, Wf
<1>10. Unstarted(c) => Unstarted(t)  BY <1>6 DEF Unstarted
<1>11. Kept(t, more)  BY <1>1, <1>6, <1>9, <1>10 DEF Kept
<1> QED  BY <1>2, <1>7, <1>11 DEF more, q

LEMMA Initially == Init => IInv
<1> SUFFICES ASSUME Init  PROVE IInv
  OBVIOUS
<1>1. NewBuf \in Bufs  BY NewBufOK, BufsAreBufs
<1>2. New \in Sessions
  <2>1. /\ <<>> \in Seq(ReadOps) /\ <<>> \in Seq(Nat) /\ <<>> \in Seq(Words)
        /\ <<>> \in Seq(ReadEnds \cup WriteEnds \cup Reports)
        /\ <<>> \in Seq(ReadEnds \cup WriteEnds) /\ <<>> \in Seq(Characters)
        /\ <<>> \in Seq(Bytes) /\ <<>> \in Seq(Seq(Characters))
    BY EmptySeq
  <2>2. [i \in 1..ReplyLength |-> Cleared] \in [1..ReplyLength -> Texts]
    BY Lengths
  <2> QED  BY <1>1, <2>1, <2>2 DEF New, Sessions
<1>3. /\ New.reads = <<>> /\ New.writes = <<>> /\ New.done = <<>> /\ New.ready = <<>>
      /\ New.reported = {} /\ New.ended = 0 /\ New.outbox = <<>> /\ New.eof = FALSE
      /\ New.heard = <<>> /\ New.trying = "none" /\ New.room = FALSE /\ New.started = FALSE
      /\ New.words = <<>>
  BY DEF New
<1>4. Items(<<>>) = 0  BY EmptySeq DEF Items
<1>5. Work(New) = 0
  BY <1>3, <1>4 DEF Work, Listed, Reported
<1>6. Wf(New)
  <2>1. DOMAIN <<>> = {}  OBVIOUS
  <2> QED  BY <1>2, <1>3, <2>1 DEF Wf, Orderly, Once, Owned, Started
<1>7. Spells(New, <<>>, <<>>)
  <2>1. Spoken(New, <<>>) = <<>>  BY <1>3 DEF Spoken
  <2> DEFINE none == <<>>
  <2>2. Len(none) = 0 /\ 1..0 = {}  BY EmptySeq
  <2>3. New.words = none /\ New.writes = none /\ Spoken(New, <<>>) = none
    BY <1>3, <2>1
  <2> HIDE DEF none
  <2>4. Scripted(New, none)  BY <2>2, <2>3 DEF Scripted
  <2>5. Said(New, none)  BY <2>2, <2>3 DEF Said, Ordered, Complete
  <2>6. Turns(New) /\ Owed(New, 0)  BY <2>2, <2>3 DEF Turns, Owed
  <2> QED  BY <2>3, <2>4, <2>5, <2>6 DEF Spells, none
<1>8. s = New /\ got = <<>> /\ sent = <<>> /\ blanks = 0 /\ partial = FALSE
  BY DEF Init
<1>9. TypeOK
  <2>1. <<>> \in Seq(Lines) /\ <<>> \in Seq(Bytes)  BY EmptySeq
  <2> QED  BY <1>2, <1>8, <2>1 DEF TypeOK
<1>10. Sound(New, <<>>, 0, <<>>) /\ Unstarted(New)
  BY <1>3, <1>5, <1>6, <1>7 DEF Sound, Unstarted
<1>11. Kept(s, got)
  BY <1>3, <1>8, <1>10 DEF Kept
<1> QED  BY <1>9, <1>11 DEF IInv

\* What the thread and the reactor do, as steps of a record.
LEMMA Served ==
    ASSUME IInv, UNCHANGED client, Kept(s', got)
    PROVE  IInv'
<1>1. s' \in Sessions  BY DEF Kept, Sound, Wf
<1> QED  BY <1>1 DEF IInv, TypeOK, client

LEMMA Asked ==
    ASSUME IInv, NEW text \in Lines
    PROVE  /\ Append(sent, text) \in Seq(Lines)
           /\ Append(text, Newline) \in Seq(Characters) /\ text \in Seq(Characters)
<1>1. sent \in Seq(Lines) /\ Newline \in Characters  BY DEF IInv, TypeOK, Characters
<1>2. text \in Seq(Characters)
  <2>1. text \in Seq(STRING)  BY SessionAssumption
  <2>2. \A i \in 1..Len(text) : text[i] \in Characters
    <3>1. DOMAIN text = 1..Len(text)  BY <2>1, LenProperties
    <3>2. \A i \in 1..Len(text) : text[i] \in Range(text)  BY <3>1 DEF Range
    <3> QED  BY <3>2 DEF Characters
  <2>3. Len(text) \in Nat /\ text = [i \in 1..Len(text) |-> text[i]]
    BY <2>1, LenProperties
  <2> QED  BY <2>2, <2>3, IsASeq
<1> QED  BY <1>1, <1>2, AppendProperties

LEMMA Inductive == IInv /\ [Next]_vars => IInv'
<1> SUFFICES ASSUME IInv, [Next]_vars  PROVE IInv'
  OBVIOUS
<1>1. /\ s \in Sessions /\ s.started \in BOOLEAN /\ s.crashed \in BOOLEAN
      /\ got \in Speech /\ Kept(s, got)
      /\ s.started => Sound(s, got, 2, Dialogue(s.heard))
      /\ Dialogue(s.heard) \in Seq(Texts)
  <2>1. s \in Sessions /\ got \in Speech /\ Kept(s, got)  BY DEF IInv, TypeOK, Speech
  <2> QED  BY <2>1, Fields, Dialogues DEF Kept
<1>2. s.ready # <<>> \/ s.reads # <<>> \/ s.writes # <<>> \/ s.done # <<>> \/ s.room
        \/ s.trying # "none" => s.started
  BY <1>1 DEF Kept, Unstarted
<1>3. \A c : c.started = s.started /\ s.started /\ Sound(c, got, 2, Dialogue(c.heard))
              => Kept(c, got)
  BY DEF Kept
<1>two. 2 \in Int  OBVIOUS
<1>4. CASE Start
  <2>1. Sound(s, got, 0, <<>>) /\ s.heard = <<>>
    BY <1>1, <1>4 DEF Start, Kept, Unstarted
  <2>2. Sound(s', got, 2, Dialogue(s'.heard)) /\ s'.started = TRUE
    BY <1>1, <1>4, <2>1, Starting DEF Start
  <2>3. Kept(s', got)  BY <2>2 DEF Kept
  <2> QED  BY <1>4, <2>3, Served DEF Start
<1>5. CASE PollIn
  <2> DEFINE c == [s EXCEPT !.news = FALSE]
  <2>1. s.started /\ "in" \notin s.reported
    BY <1>5 DEF PollIn
  <2>2. s' = Post([c EXCEPT !.reported = @ \cup {"in"}], [kind |-> "in"])
    BY <1>5 DEF PollIn
  <2>3. c \in Sessions  BY <1>1, Setting
  <2>4. /\ c.reads = s.reads /\ c.writes = s.writes /\ c.words = s.words /\ c.done = s.done /\ c.ready = s.ready
        /\ c.reported = s.reported /\ c.ended = s.ended /\ c.outbox = s.outbox
        /\ c.eof = s.eof /\ c.heard = s.heard /\ c.crashed = s.crashed /\ c.buf = s.buf
        /\ c.started = s.started /\ c.trying = s.trying /\ c.room = s.room
    BY <1>1 DEF Sessions
  <2> HIDE DEF c
  <2>5. Kept(c, got)  BY <1>1, <2>3, <2>4, Elsewhere
  <2>6. Sound(c, got, 2, Dialogue(c.heard))  BY <2>1, <2>4, <2>5 DEF Kept
  <2>7. Sound(s', got, 2, Dialogue(c.heard)) /\ s'.started = c.started /\ s'.heard = c.heard
    BY <1>two, <2>1, <2>2, <2>4, <2>6, Reporting, Zenon
  <2>8. Kept(s', got)  BY <1>3, <2>1, <2>4, <2>7
  <2> QED  BY <1>5, <2>8, Served DEF PollIn
<1>6. CASE PollOut
  <2> DEFINE c == [s EXCEPT !.room = FALSE]
  <2>1. s.room /\ s.started /\ "out" \notin s.reported
    BY <1>2, <1>6 DEF PollOut
  <2>2. s' = Post([c EXCEPT !.reported = @ \cup {"out"}], [kind |-> "out"])
    BY <1>6 DEF PollOut
  <2>3. c \in Sessions  BY <1>1, Setting
  <2>4. /\ c.reads = s.reads /\ c.writes = s.writes /\ c.words = s.words /\ c.done = s.done /\ c.ready = s.ready
        /\ c.reported = s.reported /\ c.ended = s.ended /\ c.outbox = s.outbox
        /\ c.eof = s.eof /\ c.heard = s.heard /\ c.crashed = s.crashed /\ c.buf = s.buf
        /\ c.started = s.started
    BY <1>1 DEF Sessions
  <2>5. Holds(c.buf, s.buf)  BY <1>1, <2>4, Fields, StillHolds
  <2> HIDE DEF c
  <2>6. Sound(c, got, 2, Dialogue(c.heard))
    BY <1>1, <2>1, <2>3, <2>4, <2>5, Framed
  <2>7. Sound(s', got, 2, Dialogue(c.heard)) /\ s'.started = c.started /\ s'.heard = c.heard
    BY <1>two, <2>1, <2>2, <2>4, <2>6, Reporting, Zenon
  <2>8. Kept(s', got)  BY <1>3, <2>1, <2>4, <2>7
  <2> QED  BY <1>6, <2>8, Served DEF PollOut
<1>7. CASE Run
  <2>1. s.ready # <<>> /\ s.started
    BY <1>2, <1>7 DEF Run, MayRun
  <2>2. CASE Head(s.ready).kind \in {"in", "out"}
    <3>1. s' = [[s EXCEPT !.ready = Tail(@)]
                   EXCEPT !.trying = Head(s.ready).kind, !.reported = @ \ {Head(s.ready).kind}]
      BY <1>7, <2>2 DEF Run
    <3>2. Sound(s', got, 2, Dialogue(s.heard)) /\ s'.started = s.started /\ s'.heard = s.heard
      BY <1>1, <1>two, <2>1, <2>2, <3>1, Announced, Zenon
    <3> QED  BY <1>3, <2>1, <3>2, <1>7, Served DEF Run
  <2>3. CASE Head(s.ready).kind \notin {"in", "out"}
    <3> DEFINE c == [s EXCEPT !.ready = Tail(@)]
    <3>1. s' = Dispatch(c, Head(s.ready))
      BY <1>7, <2>3 DEF Run
    <3>2. /\ Sound(c, got, 2 - 1, Dialogue(s.heard)) /\ c.started = s.started
          /\ c.heard = s.heard /\ Head(s.ready) \in Ends
          /\ Head(s.ready).kind = "write" => Started(c, Head(s.ready).at)
      BY <1>1, <1>two, <2>1, <2>3, Taking, Zenon
    <3> HIDE DEF c
    <3>3. Sound(c, got, 1, Dialogue(c.heard))  BY <3>2
    <3>4. Sound(s', got, 2, Dialogue(s'.heard)) /\ s'.started = c.started
      BY <1>1, <3>1, <3>2, <3>3, Dispatching DEF Ends
    <3> QED  BY <1>3, <2>1, <3>2, <3>4, <1>7, Served DEF Run
  <2> QED  BY <2>2, <2>3
<1>8. CASE TryRead
  <2>1. s.reads # <<>> /\ s.started
    BY <1>2, <1>8 DEF TryRead
  <2>2. s' = [Receive(s, Head(s.reads)) EXCEPT !.reads = Tail(@),
                                               !.done = Append(@, Received(s, Head(s.reads)))]
    BY <1>8 DEF TryRead
  <2>3. Sound(s', got, 2, Dialogue(s.heard)) /\ s'.started = s.started /\ s'.heard = s.heard
    BY <1>1, <1>two, <2>1, <2>2, TryingRead, Zenon
  <2> QED  BY <1>3, <2>1, <2>3, <1>8, Served DEF TryRead
<1>9. CASE TryWrite
  <2>1. s.writes # <<>> /\ s.started /\ Writable(s)
    BY <1>2, <1>9 DEF TryWrite
  <2>2. s' = [Transmit(s, Head(s.writes))
                 EXCEPT !.writes = Tail(@), !.done = Append(@, Written(s, Head(s.writes)))]
    BY <1>9 DEF TryWrite
  <2>3. Sound(s', got, 2, Dialogue(s.heard)) /\ s'.started = s.started /\ s'.heard = s.heard
    BY <1>1, <1>two, <2>1, <2>2, TryingWrite, Zenon
  <2> QED  BY <1>3, <2>1, <2>3, <1>9, Served DEF TryWrite
<1>10. CASE Tried
  <2>1. s.trying # "none" /\ s.started
    BY <1>2, <1>10 DEF Tried
  <2>2. CASE s.done = <<>>
    <3> DEFINE x == [s EXCEPT !.trying = "none"]
               c == [x EXCEPT !.done = <<>>]
    <3>1. s' = c
      BY <1>10, <2>2 DEF Tried
    <3>2. x \in Sessions  BY <1>1, Setting
    <3>3. c \in Sessions
      <4>1. <<>> \in Seq(ReadEnds \cup WriteEnds)  BY EmptySeq
      <4> HIDE DEF x
      <4> QED  BY <3>2, <4>1, Setting
    <3>4. /\ c.reads = s.reads /\ c.writes = s.writes /\ c.words = s.words /\ c.done = s.done /\ c.ready = s.ready
          /\ c.reported = s.reported /\ c.ended = s.ended /\ c.outbox = s.outbox
          /\ c.eof = s.eof /\ c.heard = s.heard /\ c.crashed = s.crashed /\ c.buf = s.buf
          /\ c.started = s.started
      BY <1>1, <2>2 DEF Sessions
    <3>5. Holds(c.buf, s.buf)  BY <1>1, <3>4, Fields, StillHolds
    <3> HIDE DEF c
    <3>6. Sound(c, got, 2, Dialogue(c.heard))
      BY <1>1, <2>1, <3>3, <3>4, <3>5, Framed
    <3> QED  BY <1>3, <2>1, <3>1, <3>4, <3>6, <1>10, Served DEF Tried
  <2>3. CASE s.done # <<>>
    <3>1. s' = Dispatch([[s EXCEPT !.trying = "none", !.done = <<>>]
                            EXCEPT !.ready = @ \o Tail(s.done)], Head(s.done))
      BY <1>10, <2>3 DEF Tried
    <3>2. Sound(s', got, 2, Dialogue(s'.heard)) /\ s'.started = s.started
      BY <1>1, <2>1, <2>3, <3>1, Trying
    <3> QED  BY <1>3, <2>1, <3>2, <1>10, Served DEF Tried
  <2> QED  BY <2>2, <2>3
<1>11. CASE WildRead \/ WildIterator
  <2>1. s.started /\ s' = [s EXCEPT !.crashed = TRUE] /\ UNCHANGED client
    BY <1>2, <1>11 DEF WildRead, WildIterator, MayRun
  <2>2. LET t == [s EXCEPT !.crashed = TRUE]
        IN  Sound(t, got, 2, Dialogue(s.heard)) /\ t.heard = s.heard /\ t.started = s.started
    BY <1>1, <2>1, Crashing
  <2> QED  BY <1>3, <2>1, <2>2, Served
<1>12. ASSUME NEW bytes \in Seq(Characters), Arrive(bytes)
       PROVE  Kept(s', got) /\ s' \in Sessions
  <2>1. Kept(s', got)  BY <1>1, <1>12, Arriving DEF Arrive
  <2> QED  BY <2>1 DEF Kept, Sound, Wf
<1>13. ASSUME NEW text \in Lines, SendLine(text)  PROVE IInv'
  BY <1>12, <1>13, Asked DEF SendLine, IInv, TypeOK
<1>14. ASSUME NEW text \in Lines, SendText(text)  PROVE IInv'
  BY <1>12, <1>14, Asked DEF SendText, IInv, TypeOK
<1>15. <<Newline>> \in Seq(Characters)
  BY DEF Characters
<1>16. CASE SendNewline
  BY <1>12, <1>15, <1>16 DEF SendNewline, IInv, TypeOK
<1>17. CASE SendBlank
  <2>1. /\ Kept(s', got') /\ s' \in Sessions
        /\ blanks' = blanks + 1 /\ sent' = sent /\ partial' = partial /\ got' = got
    BY <1>12, <1>15, <1>17 DEF SendBlank
  <2>2. blanks' \in Nat  BY <2>1 DEF IInv, TypeOK
  <2> QED  BY <2>1, <2>2 DEF IInv, TypeOK
<1>18. CASE ClientRead
  <2>1. /\ s' = [s EXCEPT !.outbox = Tail(@), !.room = s.writes # <<>>]
        /\ s.outbox # <<>> /\ got' = Append(got, Head(s.outbox))
        /\ UNCHANGED <<sent, blanks, partial>>
    BY <1>18 DEF ClientRead
  <2>2. Kept(s', got') /\ got' \in Speech
    BY <1>1, <2>1, Hearing
  <2>3. s' \in Sessions  BY <2>2 DEF Kept, Sound, Wf
  <2> QED  BY <2>1, <2>2, <2>3 DEF IInv, TypeOK, Speech
<1>19. CASE Close
  <2>1. Kept(s', got)  BY <1>1, <1>19, Leaving DEF Close
  <2> QED  BY <1>19, <2>1, Served DEF Close
<1>20. CASE Reset
  <2>1. Kept(s', got)  BY <1>1, <1>20, Resetting DEF Reset
  <2> QED  BY <1>20, <2>1, Served DEF Reset
<1>21. CASE UNCHANGED vars
  <2>1. s' = s /\ UNCHANGED client  BY <1>21 DEF vars
  <2> QED  BY <1>1, <2>1, Served
<1>22. CASE Next
  <2>1. CASE \E text \in Lines : SendLine(text) \/ SendText(text)
    BY <1>13, <1>14, <2>1
  <2>2. CASE Start \/ PollIn \/ PollOut \/ Run \/ TryRead \/ TryWrite \/ Tried
                \/ WildRead \/ WildIterator
    BY <1>4, <1>5, <1>6, <1>7, <1>8, <1>9, <1>10, <1>11, <2>2
  <2>3. CASE SendNewline \/ SendBlank \/ ClientRead \/ Close \/ Reset
    BY <1>16, <1>17, <1>18, <1>19, <1>20, <2>3
  <2> QED  BY <1>22, <2>1, <2>2, <2>3 DEF Next
<1> QED  BY <1>21, <1>22

LEMMA Invariance == Spec => []IInv
<1>1. Init => IInv  BY Initially
<1>2. IInv /\ [Next]_vars => IInv'  BY Inductive
<1> QED  BY <1>1, <1>2, PTL DEF Spec

\* Types, and that the streambuf keeps its areas inside its block, whatever the
\* client sends and in whatever order the handlers run.
THEOREM TypeCorrect == Spec => []TypeOK
<1>1. IInv => TypeOK  BY DEF IInv
<1> QED  BY <1>1, Invariance, PTL

\* The reads and writes outstanding are two more than the commands executed, less
\* those that ended for good: what do_write starts and what do_read starts.
THEOREM OperationsBalance == Spec => []Ledger
<1>1. IInv => Ledger
  <2> SUFFICES ASSUME IInv, s.started, ~s.crashed
               PROVE  Outstanding + s.ended = 2 + Len(s.heard)
    BY DEF Ledger
  <2> DEFINE l == Listed(s)
             i == Reported(s, "in")
             o == Reported(s, "out")
             n == Items(s.heard)
             e == s.ended
  <2>1. Work(s) = 2 /\ s \in Sessions
    BY DEF IInv, TypeOK, Kept, Sound
  <2>2. l - i - o + e - n = 2
    BY <2>1 DEF Work
  <2>3. l \in Int /\ i \in Nat /\ o \in Nat /\ e \in Nat /\ n \in Nat
    BY <2>1, ListedInt, Counts
  <2>4. Outstanding = l - i - o
    BY DEF Outstanding, Listed, Items, Reported
  <2>5. n = Len(s.heard)
    BY DEF Items
  <2> HIDE DEF l, i, o, n, e
  <2>6. (l - i - o) + e = 2 + n
    BY <2>2, <2>3
  <2> QED  BY <2>4, <2>5, <2>6 DEF e
<1> QED  BY <1>1, Invariance, PTL

\* Words begin on the wire in the order of the commands executed, and each byte is of
\* the reply or prompt that belongs there or garbled, whatever the client does and
\* however little of a write the socket takes at a time: the rest of a word goes to
\* the end of the line, but what has not begun stays in its turn.
THEOREM WordsKeepOrder == Spec => []WordsBeginInOrder
<1>1. IInv => WordsBeginInOrder
  <2> SUFFICES ASSUME IInv  PROVE WordsBeginInOrder
    OBVIOUS
  <2> DEFINE script == IF s.started THEN Dialogue(s.heard) ELSE <<>>
  <2>1. s \in Sessions /\ got \in Speech /\ s.outbox \in Speech /\ s.started \in BOOLEAN
        /\ s.heard \in Seq(Seq(Characters))
    BY Fields DEF IInv, TypeOK, Speech
  <2>2. Wire = Spoken(s, got)
    BY DEF Wire, Spoken
  <2>3. Wire \in Speech /\ Len(Wire) \in Nat /\ DOMAIN Wire = 1..Len(Wire)
    BY <2>1, ConcatProperties, LenProperties DEF Wire, Speech
  <2>4. Spells(s, got, script)
    BY <2>1 DEF IInv, Kept, Sound
  <2>5. \A at \in 1..Len(script) :
            at \in DOMAIN Dialogue(s.heard) /\ script[at] = Dialogue(s.heard)[at]
    <3>1. CASE s.started
      <4>1. Dialogue(s.heard) \in Seq(Texts)  BY <2>1, Dialogues
      <4> QED  BY <3>1, <4>1, LenProperties
    <3>2. CASE ~s.started
      <4>1. Len(script) = 0  BY <3>2, EmptySeq
      <4> HIDE DEF script
      <4> QED  BY <4>1
    <3> QED  BY <3>1, <3>2
  <2> HIDE DEF script
  <2>6. /\ \A i \in 1..Len(Wire) : Belongs(s, Wire[i])
        /\ Ordered(Wire)
        /\ Len(s.words) = Len(script)
        /\ \A at \in 1..Len(script) : s.words[at].text = script[at]
    BY <2>2, <2>4 DEF Spells, Said, Scripted
  <2>7. \A i, j : Follows(i, j) <=> Precedes(Wire[j], Wire[i])
    BY DEF Follows, Precedes
  <2>8. ASSUME NEW i \in 1..Len(Wire)
        PROVE  /\ Wire[i].at \in DOMAIN Dialogue(s.heard)
               /\ Wire[i].word \in {Dialogue(s.heard)[Wire[i].at], Garbled}
    BY <2>5, <2>6 DEF Belongs
  <2>9. ASSUME NEW i \in 1..Len(Wire)
        PROVE  /\ Wire[i].at + Wire[i].byte > 2 => \E j \in 1..(i - 1) : Follows(i, j)
               /\ \A j \in 1..(i - 1) : Wire[i].at = Wire[j].at => Wire[i].byte # Wire[j].byte
    BY <2>6, <2>7 DEF Ordered
  <2> QED  BY <2>3, <2>8, <2>9 DEF WordsBeginInOrder
<1> QED  BY <1>1, Invariance, PTL

=============================================================================
