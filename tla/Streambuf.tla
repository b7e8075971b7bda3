------------------------------ MODULE Streambuf ------------------------------
(***************************************************************************)
(* asio::streambuf (asio 1.10.6) as async_read_until uses it: one block of *)
(* memory with a get area and a put area.  prepare hands out the start of  *)
(* the put area, commit and consume move the ends of the get area, and     *)
(* prepare moves the get area to the front of the block, or the block to a *)
(* larger one, when the put area is too small.                             *)
(*                                                                         *)
(* What makes it unfit for two readers at once is that a prepared region   *)
(* is an address: the bytes a reader puts there are committed at the put   *)
(* pointer as it is when the read ENDS.                                    *)
(***************************************************************************)
EXTENDS Integers, Sequences

CONSTANTS Delta,      \* size of a new buffer (128 bytes in asio)
          MinRead     \* the least async_read_until asks for (512 bytes)

ASSUME StreambufAssumption == Delta \in Nat \ {0} /\ MinRead \in Nat \ {0}

Newline == "nl"
Zero    == "zero"     \* what vector::resize fills with

Larger(a, b)  == IF a > b THEN a ELSE b
Smaller(a, b) == IF a < b THEN a ELSE b

\* block: which allocation; cap: its capacity; mem: buffer_; get and put:
\* offsets of gptr and pptr.  epptr is always the end of mem.
NewBuf == [block |-> 0, cap |-> Delta, mem |-> [i \in 1..Delta |-> Zero],
           get |-> 0, put |-> 0]

Size(b)    == b.put - b.get
Content(b) == SubSeq(b.mem, b.get + 1, b.put)

Reserve(b, n) ==
    LET kept == Content(b)
        len  == Larger(Len(b.mem), Len(kept) + n)
        grow == len > b.cap
    IN  IF n <= Len(b.mem) - b.put THEN b
        ELSE [block |-> IF grow THEN b.block + 1 ELSE b.block,
              cap   |-> IF grow THEN Larger(2 * Len(b.mem), len) ELSE b.cap,
              mem   |-> kept \o SubSeq(b.mem, Len(kept) + 1, Len(b.mem))
                             \o [i \in 1..(len - Len(b.mem)) |-> Zero],
              get   |-> 0,
              put   |-> Len(kept)]

\* detail::read_size_helper, below its limit of 65536.
ReadSize(b) == Larger(MinRead, b.cap - Size(b))

\* A read puts its bytes where its region was prepared.
Store(b, base, bytes) ==
    [b EXCEPT !.mem = SubSeq(@, 1, base) \o bytes
                        \o SubSeq(@, base + Len(bytes) + 1, Len(@))]

\* Mutant: consume trusts its argument.
ConsumeAll(b, n) == [b EXCEPT !.get = @ + n]

Commit(b, n)  == [b EXCEPT !.put = @ + Smaller(n, Len(b.mem) - @)]
Consume(b, n) == [b EXCEPT !.get = @ + Smaller(n, b.put - @)]

\* Where the first delimiter after position pos ends, or 0.
DelimiterEnd(b, pos) ==
    LET ends == {i \in (pos + 1)..Size(b) : Content(b)[i] = Newline}
    IN  IF ends = {} THEN 0 ELSE CHOOSE i \in ends : \A j \in ends : i <= j

=============================================================================
