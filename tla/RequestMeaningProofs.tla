------------------------ MODULE RequestMeaningProofs ------------------------
(***************************************************************************)
(* A request is kept as its text says.                                     *)
(*                                                                         *)
(* What consume has added to request_ so far is, in each state, the parts  *)
(* of the text the grammar would take: those of the first line, or those   *)
(* of the lines before the open one and of what is read of it.             *)
(***************************************************************************)
EXTENDS RequestParserProofs

-----------------------------------------------------------------------------
(* Positions counted, and what a text has at them.                         *)

\* Texts can be joined in any order.
LEMMA TextsJoin ==
    \A q, r, t \in Seq(Alphabet) : (q \o r) \o t = q \o (r \o t)
<1>1. \A S : \A q, r, t \in Seq(S) : (q \o r) \o t = q \o (r \o t)  BY ConcatAssociative, SMTT(30)
<1> QED  BY <1>1

\* How many of a set of positions there are up to one.
Rank(S, x) == Cardinality({j \in S : j <= x})

\* Ranks grow by one at each of the positions.
LEMMA RanksGrow ==
    ASSUME NEW n \in Nat, NEW S \in SUBSET (1..n)
    PROVE  /\ IsFiniteSet(S) /\ Cardinality(S) \in Nat
           /\ \A x \in Int : Rank(S, x) \in 0..Cardinality(S)
           /\ \A x, y \in Int : x <= y => Rank(S, x) <= Rank(S, y)
           /\ \A x \in S : Rank(S, x) = Rank(S, x - 1) + 1
           /\ \A x \in Int : x \notin S => Rank(S, x) = Rank(S, x - 1)
           /\ Rank(S, 0) = 0 /\ Rank(S, n) = Cardinality(S)
<1> DEFINE Upto(x) == {j \in S : j <= x}
<1>1. IsFiniteSet(S) /\ Cardinality(S) \in Nat
  <2>1. IsFiniteSet(1..n)  BY FS_Interval
  <2>2. IsFiniteSet(S)  BY <2>1, FS_Subset
  <2> QED  BY <2>2, FS_CardinalityType
<1>2. \A x \in Int : /\ Upto(x) \in SUBSET S /\ IsFiniteSet(Upto(x))
                     /\ Cardinality(Upto(x)) \in 0..Cardinality(S)
  <2> TAKE x \in Int
  <2>1. Upto(x) \in SUBSET S  OBVIOUS
  <2> HIDE DEF Upto
  <2>2. /\ IsFiniteSet(Upto(x)) /\ Cardinality(Upto(x)) <= Cardinality(S)
    BY <1>1, <2>1, FS_Subset
  <2>3. Cardinality(Upto(x)) \in Nat  BY <2>2, FS_CardinalityType
  <2> QED  BY <1>1, <2>1, <2>2, <2>3
<1>3. ASSUME NEW x \in Int, NEW y \in Int, x <= y  PROVE Rank(S, x) <= Rank(S, y)
  <2>1. Upto(x) \in SUBSET Upto(y)
    <3>1. \A j \in S : j <= x => j <= y  BY <1>3
    <3> QED  BY <3>1
  <2>2. IsFiniteSet(Upto(y))  BY <1>2
  <2> HIDE DEF Upto
  <2>3. Cardinality(Upto(x)) <= Cardinality(Upto(y))  BY <2>1, <2>2, FS_Subset
  <2> QED  BY <2>3 DEF Upto, Rank
<1>4. ASSUME NEW x \in S  PROVE Rank(S, x) = Rank(S, x - 1) + 1
  <2>1. /\ x \in Int /\ x - 1 \in Int /\ ~(x <= x - 1)
        /\ \A j \in S : j <= x <=> j <= x - 1 \/ j = x
    OBVIOUS
  <2>2. Upto(x) = Upto(x - 1) \cup {x} /\ x \notin Upto(x - 1)  BY <2>1
  <2>3. IsFiniteSet(Upto(x - 1))  BY <1>2, <2>1
  <2> HIDE DEF Upto
  <2>4. Cardinality(Upto(x)) = Cardinality(Upto(x - 1)) + 1  BY <2>2, <2>3, FS_AddElement
  <2> QED  BY <2>4 DEF Upto, Rank
<1>5. ASSUME NEW x \in Int, x \notin S  PROVE Rank(S, x) = Rank(S, x - 1)
  <2>1. \A j \in S : j <= x <=> j <= x - 1  BY <1>5
  <2>2. Upto(x) = Upto(x - 1)  BY <2>1
  <2> QED  BY <2>2 DEF Rank
<1>6. Rank(S, 0) = 0
  <2>1. \A j \in S : ~(j <= 0)  OBVIOUS
  <2>2. Upto(0) = {}  BY <2>1
  <2> QED  BY <2>2, FS_EmptySet DEF Rank
<1>7. Rank(S, n) = Cardinality(S)
  <2>1. \A j \in S : j <= n  OBVIOUS
  <2>2. Upto(n) = S  BY <2>1
  <2> QED  BY <2>2 DEF Rank
<1>8. \A x \in Int : Rank(S, x) \in 0..Cardinality(S)
  BY <1>2 DEF Rank
<1> QED  BY <1>1, <1>3, <1>4, <1>5, <1>6, <1>7, <1>8

\* Each number up to that of the positions is the rank of one of them, and of one alone.
LEMMA KthIs ==
    ASSUME NEW n \in Nat, NEW S \in SUBSET (1..n)
    PROVE  /\ \A k \in 1..Cardinality(S) : Kth(S, k) \in S /\ Rank(S, Kth(S, k)) = k
           /\ \A i \in S : Rank(S, i) \in 1..Cardinality(S) /\ Kth(S, Rank(S, i)) = i
           /\ \A i, j \in S : i < j => Rank(S, i) < Rank(S, j)
<1> DEFINE m == Cardinality(S)
<1>1. /\ m \in Nat
      /\ \A x \in Int : Rank(S, x) \in 0..m
      /\ \A x, y \in Int : x <= y => Rank(S, x) <= Rank(S, y)
      /\ \A x \in S : Rank(S, x) = Rank(S, x - 1) + 1
      /\ \A x \in Int : x \notin S => Rank(S, x) = Rank(S, x - 1)
      /\ Rank(S, 0) = 0 /\ Rank(S, n) = m
  BY RanksGrow
<1> HIDE DEF m
<1>2. \A i \in S : i \in Int /\ i - 1 \in Int  OBVIOUS
<1>3. ASSUME NEW i \in S, NEW j \in S, i < j  PROVE Rank(S, i) < Rank(S, j)
  <2>1. i <= j - 1  BY <1>2, <1>3
  <2>2. Rank(S, i) <= Rank(S, j - 1)  BY <1>1, <1>2, <2>1
  <2>3. Rank(S, j) = Rank(S, j - 1) + 1 /\ Rank(S, i) \in 0..m /\ Rank(S, j - 1) \in 0..m  BY <1>1, <1>2
  <2> QED  BY <1>1, <2>2, <2>3
<1>4. \A i, j \in S : Rank(S, i) = Rank(S, j) => i = j
  <2> SUFFICES ASSUME NEW i \in S, NEW j \in S, Rank(S, i) = Rank(S, j)  PROVE i = j
    OBVIOUS
  <2>1. Rank(S, i) \in 0..m  BY <1>1, <1>2
  <2>2. ~(i < j) /\ ~(j < i)  BY <1>1, <1>3, <2>1
  <2> QED  BY <1>2, <2>2
<1>5. \A i \in S : Rank(S, i) \in 1..m
  <2> TAKE i \in S
  <2>1. Rank(S, i) = Rank(S, i - 1) + 1 /\ Rank(S, i) \in 0..m /\ Rank(S, i - 1) \in 0..m  BY <1>1, <1>2
  <2> QED  BY <1>1, <2>1
<1>6. ASSUME NEW k \in 1..m  PROVE \E i \in S : Rank(S, i) = k
  <2> DEFINE T == {x \in 0..n : k <= Rank(S, x)}
  <2>1. T \in SUBSET Nat /\ n \in T  BY <1>1
  <2>2. PICK y \in T : \A z \in T : y <= z
    <3> HIDE DEF T
    <3> QED  BY <2>1, Least
  <2>3. y \in 0..n /\ k <= Rank(S, y)  OBVIOUS
  <2>4. y # 0  BY <1>1, <2>3
  <2>5. y \in Int /\ y - 1 \in 0..n /\ y - 1 \in Int /\ ~(y <= y - 1)  BY <2>3, <2>4
  <2>6. ~(k <= Rank(S, y - 1))  BY <2>2, <2>5
  <2>7. Rank(S, y) \in 0..m /\ Rank(S, y - 1) \in 0..m  BY <1>1, <2>5
  <2>8. Rank(S, y - 1) < k  BY <1>1, <2>6, <2>7
  <2>9. y \in S
    <3>1. Rank(S, y) # Rank(S, y - 1)  BY <2>3, <2>7, <2>8
    <3> QED  BY <1>1, <2>5, <3>1
  <2>10. Rank(S, y) = Rank(S, y - 1) + 1  BY <1>1, <2>9
  <2>11. Rank(S, y) = k  BY <1>1, <2>3, <2>7, <2>8, <2>10
  <2> QED  BY <2>9, <2>11
<1>7. \A k : Kth(S, k) = CHOOSE i \in S : Rank(S, i) = k
  BY DEF Kth, Rank
<1>8. \A k \in 1..m : Kth(S, k) \in S /\ Rank(S, Kth(S, k)) = k
  BY <1>6, <1>7
<1>9. \A i \in S : Kth(S, Rank(S, i)) = i
  BY <1>4, <1>7
<1> QED  BY <1>3, <1>5, <1>8, <1>9 DEF m

\* A position after all the others is counted last.
LEMMA KthLast ==
    ASSUME NEW n \in Nat, NEW S \in SUBSET (1..n), NEW x \in 1..n, \A i \in S : i < x
    PROVE  /\ Cardinality(S \cup {x}) = Cardinality(S) + 1
           /\ \A k \in 1..Cardinality(S) : Kth(S \cup {x}, k) = Kth(S, k)
           /\ Kth(S \cup {x}, Cardinality(S) + 1) = x
<1> DEFINE T == S \cup {x}
           m == Cardinality(S)
<1>1. T \in SUBSET (1..n) /\ x \notin S  OBVIOUS
<1>2. IsFiniteSet(S) /\ m \in Nat  BY RanksGrow
<1>3. Cardinality(T) = m + 1  BY <1>1, <1>2, FS_AddElement
<1>4. Rank(T, x) = m + 1
  <2>1. x \in Int /\ \A j \in T : j <= x  OBVIOUS
  <2>2. {j \in T : j <= x} = T  BY <2>1
  <2> QED  BY <1>3, <2>2 DEF Rank
<1>5. \A i \in S : i \in T /\ Rank(T, i) = Rank(S, i)
  <2> TAKE i \in S
  <2>1. ~(x <= i)  OBVIOUS
  <2>2. {j \in T : j <= i} = {j \in S : j <= i}  BY <2>1
  <2> QED  BY <2>2 DEF Rank
<1>6. \A i \in T : Kth(T, Rank(T, i)) = i
  <2> HIDE DEF T
  <2> QED  BY <1>1, KthIs
<1>7. \A k \in 1..m : Kth(S, k) \in S /\ Rank(S, Kth(S, k)) = k  BY KthIs
<1>8. x \in T  OBVIOUS
<1> HIDE DEF T, m
<1>9. \A k \in 1..m : Kth(T, k) = Kth(S, k)
  <2> TAKE k \in 1..m
  <2>1. Kth(S, k) \in T /\ Rank(T, Kth(S, k)) = k  BY <1>5, <1>7
  <2> QED  BY <1>6, <2>1
<1>10. Kth(T, m + 1) = x  BY <1>4, <1>6, <1>8
<1> QED  BY <1>3, <1>9, <1>10 DEF T, m

\* A part of a text is the same part of what goes on after it, and one longer by the
\* character at its end than the part without.
LEMMA PartsOf ==
    ASSUME NEW text \in Seq(Alphabet), NEW a \in Nat \ {0}, NEW b \in Int, b <= Len(text)
    PROVE  /\ SubSeq(text, a, b) \in Seq(Alphabet)
           /\ \A more : Continues(more, text) => SubSeq(more, a, b) = SubSeq(text, a, b)
           /\ a <= b => SubSeq(text, a, b) = Append(SubSeq(text, a, b - 1), text[b])
<1> DEFINE n == Len(text)
<1>1. n \in Nat /\ \A i \in 1..n : text[i] \in Alphabet  BY NewlinesAre
<1>2. ASSUME NEW to \in Int, to <= n
      PROVE  /\ SubSeq(text, a, to) \in Seq(Alphabet)
             /\ Len(SubSeq(text, a, to)) = IF a <= to THEN to - a + 1 ELSE 0
             /\ \A i \in 1..(to - a + 1) : SubSeq(text, a, to)[i] = text[a + i - 1]
  <2>1. \A i \in a..to : text[i] \in Alphabet  BY <1>1, <1>2
  <2> QED  BY <2>1, SubSeqProperties
<1> HIDE DEF n
<1>3. ASSUME NEW more, Continues(more, text)  PROVE SubSeq(more, a, b) = SubSeq(text, a, b)
  <2>1. \A i \in a..b : more[i] = text[i] /\ text[i] \in Alphabet
    BY <1>1, <1>3 DEF Continues, n
  <2>2. /\ SubSeq(more, a, b) \in Seq(Alphabet)
        /\ Len(SubSeq(more, a, b)) = IF a <= b THEN b - a + 1 ELSE 0
        /\ \A i \in 1..(b - a + 1) : SubSeq(more, a, b)[i] = more[a + i - 1]
    <3>1. \A i \in a..b : more[i] \in Alphabet  BY <2>1
    <3> QED  BY <3>1, SubSeqProperties
  <2>3. /\ SubSeq(text, a, b) \in Seq(Alphabet)
        /\ Len(SubSeq(text, a, b)) = IF a <= b THEN b - a + 1 ELSE 0
        /\ \A i \in 1..(b - a + 1) : SubSeq(text, a, b)[i] = text[a + i - 1]
    BY <1>2 DEF n
  <2>4. \A i \in 1..(b - a + 1) : a + i - 1 \in a..b  OBVIOUS
  <2> DEFINE s == SubSeq(text, a, b)
             t == SubSeq(more, a, b)
  <2>5. Len(t) = Len(s) /\ \A i \in 1..Len(t) : t[i] = s[i]
    BY <2>1, <2>2, <2>3, <2>4
  <2> HIDE DEF s, t
  <2> QED  BY <2>2, <2>3, <2>5, SeqEqual DEF s, t
<1>4. ASSUME a <= b  PROVE SubSeq(text, a, b) = Append(SubSeq(text, a, b - 1), text[b])
  <2>1. a \in 1..n /\ b \in a..n /\ b \in 1..n /\ b - 1 \in Int /\ b - 1 <= n  BY <1>1, <1>4 DEF n
  <2>2. SubSeq(text, a, b) = SubSeq(text, a, b - 1) \o <<text[b]>>
    BY <2>1, SubSeqRecursiveSecond DEF n
  <2>3. SubSeq(text, a, b - 1) \in Seq(Alphabet) /\ text[b] \in Alphabet  BY <1>1, <1>2, <2>1
  <2> QED  BY <2>2, <2>3, AppendIsConcat
<1> QED  BY <1>2, <1>3, <1>4 DEF n

\* What is picked after all the rest is a part of its own.
LEMMA PickedOn ==
    ASSUME NEW text \in Seq(Alphabet), NEW S \in SUBSET (1..Len(text)),
           NEW a \in Nat \ {0}, NEW b \in Int, b <= Len(text), \A i \in S : i < a
    PROVE  /\ Picked(text, S) \in Seq(Alphabet)
           /\ Picked(text, S \cup (a..b)) = Picked(text, S) \o SubSeq(text, a, b)
           /\ \A more : Continues(more, text) => Picked(more, S) = Picked(text, S)
           /\ Picked(text, a..b) = SubSeq(text, a, b)
<1> DEFINE n == Len(text)
<1>1. n \in Nat /\ \A i \in 1..n : text[i] \in Alphabet  BY NewlinesAre
<1>2. ASSUME NEW T \in SUBSET (1..n)
      PROVE  /\ Cardinality(T) \in Nat
             /\ \A k \in 1..Cardinality(T) : Kth(T, k) \in T
             /\ Picked(text, T) \in Seq(Alphabet) /\ Len(Picked(text, T)) = Cardinality(T)
             /\ \A k \in 1..Cardinality(T) : Picked(text, T)[k] = text[Kth(T, k)]
  <2> DEFINE m == Cardinality(T)
  <2>1. m \in Nat  BY <1>1, RanksGrow
  <2>2. \A k \in 1..m : Kth(T, k) \in T  BY <1>1, KthIs
  <2>3. Picked(text, T) = [k \in 1..m |-> text[Kth(T, k)]]  BY DEF Picked
  <2> HIDE DEF m
  <2>4. \A k \in 1..m : text[Kth(T, k)] \in Alphabet  BY <1>1, <2>2
  <2>5. Picked(text, T) \in Seq(Alphabet) /\ Len(Picked(text, T)) = m
    BY <2>1, <2>3, <2>4
  <2> QED  BY <2>1, <2>2, <2>3, <2>5 DEF m
<1>3. ASSUME NEW T \in SUBSET (1..n), NEW x \in 1..n, \A i \in T : i < x
      PROVE  Picked(text, T \cup {x}) = Append(Picked(text, T), text[x])
  <2> DEFINE U == T \cup {x}
             m == Cardinality(T)
             s == Picked(text, T)
             t == Picked(text, U)
             c == text[x]
  <2>1. U \in SUBSET (1..n)  OBVIOUS
  <2>2. /\ Cardinality(U) = m + 1
        /\ \A k \in 1..m : Kth(U, k) = Kth(T, k)
        /\ Kth(U, m + 1) = x
    BY <1>1, <1>3, KthLast
  <2> HIDE DEF U
  <2>3. /\ m \in Nat /\ s \in Seq(Alphabet) /\ Len(s) = m
        /\ \A k \in 1..m : s[k] = text[Kth(T, k)]
    BY <1>2
  <2>4. /\ t \in Seq(Alphabet) /\ Len(t) = m + 1
        /\ \A k \in 1..(m + 1) : t[k] = text[Kth(U, k)]
    BY <1>2, <2>1, <2>2
  <2>5. c \in Alphabet  BY <1>1
  <2> HIDE DEF m, s, t
  <2>6. \A k \in 1..m : k \in 1..(m + 1) /\ t[k] = s[k]  BY <2>2, <2>3, <2>4
  <2>7. t[m + 1] = c /\ \A k \in 1..(m + 1) : k \in 1..m \/ k = m + 1  BY <2>2, <2>3, <2>4
  <2> HIDE DEF c
  <2>8. /\ Append(s, c) \in Seq(Alphabet) /\ Len(Append(s, c)) = m + 1
        /\ \A k \in 1..m : Append(s, c)[k] = s[k]
        /\ Append(s, c)[m + 1] = c
    BY <2>3, <2>5, AppendProperties
  <2>9. \A k \in 1..(m + 1) : t[k] = Append(s, c)[k]  BY <2>6, <2>7, <2>8
  <2>10. t = Append(s, c)  BY <2>4, <2>8, <2>9, SeqEqual
  <2> QED  BY <2>10 DEF s, t, c, U
<1> HIDE DEF n
<1>4. ASSUME NEW T \in SUBSET (1..n), \A i \in T : i < a
      PROVE  Picked(text, T \cup (a..b)) = Picked(text, T) \o SubSeq(text, a, b)
  <2> DEFINE len == IF a <= b THEN b - a + 1 ELSE 0
             s == Picked(text, T)
             Span(k) == SubSeq(text, a, a + k - 1)
             Good == {k \in 0..len : Picked(text, T \cup (a..(a + k - 1))) = s \o Span(k)}
  <2>1. len \in Nat /\ \A k \in 1..len : a + k - 1 \in a..b
    OBVIOUS
  <2>2. s \in Seq(Alphabet)  BY <1>2
  <2> HIDE DEF s
  <2>3. 0 \in Good
    <3>1. a..(a + 0 - 1) = {} /\ a + 0 - 1 < a /\ a + 0 - 1 \in Int  OBVIOUS
    <3>2. Span(0) = <<>>  BY <3>1, SubSeqEmpty
    <3>3. s \o <<>> = s  BY <2>2, ConcatEmptySeq
    <3>4. T \cup (a..(a + 0 - 1)) = T  BY <3>1
    <3>5. Picked(text, T \cup (a..(a + 0 - 1))) = s  BY <3>4 DEF s
    <3>6. 0 \in 0..len  BY <2>1
    <3> QED  BY <3>2, <3>3, <3>5, <3>6
  <2>4. ASSUME NEW k \in Nat, k < len, k \in Good  PROVE k + 1 \in Good
    <3> DEFINE x == a + k
               U == T \cup (a..(x - 1))
               c == text[x]
    <3>1. k + 1 \in 1..len /\ k + 1 \in 0..len /\ a + (k + 1) - 1 = x /\ a + k - 1 = x - 1
      BY <2>1, <2>4
    <3>2. x \in 1..n /\ x <= n /\ a <= x /\ x \in Int /\ x - 1 \in Int
      <4>1. x \in a..b  BY <2>1, <3>1
      <4>2. b <= n  BY DEF n
      <4> HIDE DEF x
      <4> QED  BY <1>1, <4>1, <4>2
    <3>3. U \in SUBSET (1..n) /\ \A i \in U : i < x
      <4>1. \A i \in T : i \in 1..n /\ i < x  BY <1>1, <1>4, <3>2
      <4>2. \A i \in a..(x - 1) : i \in 1..n /\ i < x  BY <1>1, <3>2
      <4> QED  BY <4>1, <4>2
    <3>4. T \cup (a..x) = U \cup {x}
      <4>1. \A i : i \in a..x <=> i \in a..(x - 1) \/ i = x  BY <3>2
      <4> QED  BY <4>1
    <3>5. SubSeq(text, a, x) = Append(SubSeq(text, a, x - 1), c)
      BY <3>2, PartsOf DEF n
    <3>6. SubSeq(text, a, x - 1) \in Seq(Alphabet) /\ c \in Alphabet
      <4>1. x - 1 <= Len(text)  BY <1>1, <3>2 DEF n
      <4> QED  BY <1>1, <3>2, <4>1, PartsOf
    <3>7. Picked(text, U) = s \o SubSeq(text, a, x - 1)  BY <2>4, <3>1
    <3>8. Picked(text, U \cup {x}) = Append(Picked(text, U), c)  BY <1>3, <3>2, <3>3
    <3> HIDE DEF U, x, c
    <3> DEFINE part == SubSeq(text, a, x - 1)
    <3>9. Append(s \o part, c) = s \o Append(part, c)
      <4> HIDE DEF part
      <4>1. s \o part \in Seq(Alphabet) /\ <<c>> \in Seq(Alphabet)  BY <2>2, <3>6, ConcatProperties DEF part
      <4>2. Append(s \o part, c) = (s \o part) \o <<c>>  BY <3>6, <4>1, AppendIsConcat
      <4>3. Append(part, c) = part \o <<c>>  BY <3>6, AppendIsConcat DEF part
      <4>4. (s \o part) \o <<c>> = s \o (part \o <<c>>)
        <5>1. part \in Seq(Alphabet)  BY <3>6 DEF part
        <5> DEFINE w == <<c>>
        <5>2. w \in Seq(Alphabet)  BY <4>1
        <5> HIDE DEF w
        <5>3. (s \o part) \o w = s \o (part \o w)  BY <2>2, <5>1, <5>2, TextsJoin
        <5> QED  BY <5>3 DEF w
      <4> QED  BY <4>2, <4>3, <4>4
    <3>10. Picked(text, T \cup (a..x)) = s \o SubSeq(text, a, x)
      BY <3>4, <3>5, <3>7, <3>8, <3>9
    <3> QED  BY <3>1, <3>10
  <2> HIDE DEF Good
  <2>5. \A k \in 0..len : k \in Good  BY <2>1, <2>3, <2>4, UpTo
  <2>6. len \in Good  BY <2>1, <2>5
  <2>7. Picked(text, T \cup (a..(a + len - 1))) = s \o Span(len)  BY <2>6 DEF Good
  <2>8. CASE a <= b
    <3>1. a + len - 1 = b  BY <2>8
    <3> QED  BY <2>7, <3>1 DEF s
  <2>9. CASE ~(a <= b)
    <3>1. a..b = {} /\ b < a /\ a..(a + len - 1) = {} /\ a + len - 1 < a /\ a + len - 1 \in Int
      BY <2>9
    <3>2. SubSeq(text, a, b) = <<>> /\ Span(len) = <<>>  BY <3>1, SubSeqEmpty
    <3> QED  BY <2>7, <3>1, <3>2 DEF s
  <2> QED  BY <2>8, <2>9
<1>5. ASSUME NEW more, Continues(more, text)  PROVE Picked(more, S) = Picked(text, S)
  <2>1. \A k \in 1..Cardinality(S) : Kth(S, k) \in 1..n  BY <1>2 DEF n
  <2>2. \A k \in 1..Cardinality(S) : more[Kth(S, k)] = text[Kth(S, k)]
    BY <1>5, <2>1 DEF Continues, n
  <2> QED  BY <2>2 DEF Picked
<1>6. Picked(text, a..b) = SubSeq(text, a, b)
  <2>1. {} \in SUBSET (1..n) /\ \A i \in {} : i < a  OBVIOUS
  <2>2. Picked(text, {} \cup (a..b)) = Picked(text, {}) \o SubSeq(text, a, b)  BY <1>4, <2>1
  <2>3. {} \cup (a..b) = a..b  OBVIOUS
  <2>4. Picked(text, {}) = <<>>
    <3> DEFINE e == Picked(text, {})
    <3>1. e \in Seq(Alphabet) /\ Len(e) = 0  BY <1>2, <2>1, FS_EmptySet
    <3> HIDE DEF e
    <3>2. e = <<>>  BY <3>1, EmptySeq
    <3> QED  BY <3>2 DEF e
  <2>5. SubSeq(text, a, b) \in Seq(Alphabet)  BY PartsOf
  <2>6. <<>> \o SubSeq(text, a, b) = SubSeq(text, a, b)  BY <2>5, ConcatEmptySeq
  <2> QED  BY <2>2, <2>3, <2>4, <2>6
<1>7. Picked(text, S) \in Seq(Alphabet)  BY <1>2 DEF n
<1>8. Picked(text, S \cup (a..b)) = Picked(text, S) \o SubSeq(text, a, b)  BY <1>4 DEF n
<1> QED  BY <1>5, <1>6, <1>7, <1>8

-----------------------------------------------------------------------------
(* A number, digit by digit.                                               *)

\* The number after each of its digits.
LEMMA NumberRuns ==
    ASSUME NEW text \in Seq(Alphabet)
    PROVE  \E run : /\ run[0] = 0 /\ run[Len(text)] = Number(text)
                    /\ \A k \in 0..(Len(text) - 1) : run[k + 1] = run[k] * 10 + Value(text[k + 1])
<1> DEFINE n == Len(text)
           iter == CHOOSE f : FoldsTo("number", f, 0, text, n)
           run == [k \in 0..n |-> iter[1..k]]
<1>1. n \in Nat /\ DOMAIN text = 1..n
  BY LenProperties
<1>2. Number(text) = iter[1..n]
  BY <1>1 DEF Number, FoldLeft, MapThenFoldSet, FoldsTo, Fed
<1> HIDE DEF n
<1>3. FoldsTo("number", iter, 0, text, n)
  BY <1>1, FoldExists
<1> HIDE DEF iter
<1>4. \A t \in SUBSET (1..n) :
         iter[t] = IF t = {} THEN 0 ELSE iter[t \ {Max(t)}] * 10 + Value(text[Max(t)])
  BY <1>3 DEF FoldsTo, Fed
<1>5. 0 \in 0..n /\ n \in 0..n  BY <1>1
<1>6. run[0] = 0
  <2>1. 1..0 = {} /\ 1..0 \in SUBSET (1..n)  OBVIOUS
  <2>2. iter[1..0] = 0  BY <1>4, <2>1
  <2> QED  BY <1>5, <2>2
<1>7. ASSUME NEW k \in 0..(n - 1)  PROVE run[k + 1] = run[k] * 10 + Value(text[k + 1])
  <2> DEFINE t == 1..(k + 1)
  <2>1. k \in Nat /\ k \in 0..n /\ k + 1 \in 0..n  BY <1>1
  <2>2. t \in SUBSET (1..n) /\ t # {} /\ t \ {k + 1} = 1..k /\ k + 1 \in t
    <3>1. t \ {k + 1} = 1..k  BY <2>1
    <3>2. k + 1 \in t  BY <2>1
    <3>3. t \subseteq 1..n  BY <1>1, <2>1
    <3> QED  BY <3>1, <3>2, <3>3
  <2>3. t \in SUBSET (1..(k + 1))  OBVIOUS
  <2> HIDE DEF t
  <2>4. Max(t) = k + 1
    BY <2>1, <2>2, <2>3, MaxOfInterval
  <2>5. iter[t] = iter[1..k] * 10 + Value(text[k + 1])
    BY <1>4, <2>2, <2>4
  <2> QED  BY <2>1, <2>5 DEF t
<1>8. run[n] = Number(text)  BY <1>2, <1>5
<1> HIDE DEF run
<1> QED  BY <1>6, <1>7, <1>8 DEF n

\* A digit more counts the number up as the parser does.
LEMMA NumberGrows ==
    /\ Number(<<>>) = 0
    /\ \A text \in Seq(Alphabet), c \in Alphabet :
          Number(Append(text, c)) = Number(text) * 10 + Value(c)
<1>1. Number(<<>>) = 0
  <2>1. <<>> \in Seq(Alphabet) /\ Len(<<>>) = 0  OBVIOUS
  <2> QED  BY <2>1, NumberRuns
<1>2. ASSUME NEW text \in Seq(Alphabet), NEW c \in Alphabet
      PROVE  Number(Append(text, c)) = Number(text) * 10 + Value(c)
  <2> DEFINE n == Len(text)
             more == Append(text, c)
  <2>1. /\ n \in Nat /\ more \in Seq(Alphabet) /\ Len(more) = n + 1 /\ more[n + 1] = c
        /\ \A i \in 1..n : more[i] = text[i]
    BY AppendProperties, LenProperties
  <2>2. PICK run : /\ run[0] = 0 /\ run[n] = Number(text)
                   /\ \A k \in 0..(n - 1) : run[k + 1] = run[k] * 10 + Value(text[k + 1])
    BY NumberRuns
  <2> HIDE DEF n, more
  <2>3. PICK up : /\ up[0] = 0 /\ up[Len(more)] = Number(more)
                  /\ \A k \in 0..(Len(more) - 1) : up[k + 1] = up[k] * 10 + Value(more[k + 1])
    <3>1. more \in Seq(Alphabet)  BY <2>1
    <3> QED  BY <3>1, NumberRuns
  <2> DEFINE Good == {k \in 0..n : up[k] = run[k]}
  <2>4. 0 \in Good  BY <2>1, <2>2, <2>3
  <2>5. ASSUME NEW k \in Nat, k < n, k \in Good  PROVE k + 1 \in Good
    <3>1. k \in 0..(n - 1) /\ k \in 0..(Len(more) - 1) /\ k + 1 \in 1..n /\ k + 1 \in 0..n
      BY <2>1, <2>5
    <3>2. more[k + 1] = text[k + 1]  BY <2>1, <3>1
    <3>3. up[k] = run[k]  BY <2>5
    <3>4. up[k + 1] = up[k] * 10 + Value(more[k + 1])  BY <2>3, <3>1
    <3>5. run[k + 1] = run[k] * 10 + Value(text[k + 1])  BY <2>2, <3>1
    <3>6. up[k + 1] = run[k + 1]  BY <3>2, <3>3, <3>4, <3>5
    <3> QED  BY <3>1, <3>6
  <2> HIDE DEF Good
  <2>6. \A k \in 0..n : k \in Good  BY <2>1, <2>4, <2>5, UpTo
  <2>7. up[n] = run[n]  BY <2>1, <2>6 DEF Good
  <2>8. n \in 0..(Len(more) - 1)  BY <2>1
  <2>9. up[n + 1] = up[n] * 10 + Value(more[n + 1])  BY <2>3, <2>8
  <2>10. Number(more) = Number(text) * 10 + Value(c)  BY <2>1, <2>2, <2>3, <2>7, <2>9
  <2> QED  BY <2>10 DEF more
<1> QED  BY <1>1, <1>2

-----------------------------------------------------------------------------
(* The first line, as it is kept.                                          *)

\* The characters from a position to before another.
Span(text, a, b) == SubSeq(text, a, b - 1)

\* A span ends before what is added to its text, or grows by it.
LEMMA SpanGrows ==
    ASSUME NEW text, NEW more, Continues(more, text), Len(more) = Len(text) + 1,
           NEW c, c = more[Len(text) + 1], NEW a \in Nat \ {0}, NEW b \in Int, b <= Len(text) + 1
    PROVE  /\ Span(text, a, b) \in Seq(Alphabet)
           /\ Span(more, a, b) = Span(text, a, b)
           /\ a <= b /\ b = Len(text) + 1 => Span(more, a, Len(text) + 2) = Append(Span(text, a, b), c)
           /\ b <= a => Span(text, a, b) = <<>> /\ Span(more, a, b) = <<>>
<1> DEFINE n == Len(text)
<1>1. text \in Seq(Alphabet) /\ more \in Seq(Alphabet) /\ n \in Nat /\ Len(more) = n + 1
  BY NewlinesAre DEF Continues
<1>2. b - 1 \in Int /\ b - 1 <= Len(text)  BY <1>1
<1>3. Span(text, a, b) \in Seq(Alphabet)  BY <1>1, <1>2, PartsOf DEF Span
<1>4. Span(more, a, b) = Span(text, a, b)  BY <1>1, <1>2, PartsOf DEF Span
<1>5. ASSUME a <= b, b = n + 1  PROVE Span(more, a, n + 2) = Append(Span(text, a, b), c)
  <2>1. (n + 2) - 1 = b /\ b \in Int /\ b <= Len(more)  BY <1>1, <1>5
  <2>2. SubSeq(more, a, b) = Append(SubSeq(more, a, b - 1), more[b])
    BY <1>1, <1>5, <2>1, PartsOf
  <2>3. SubSeq(more, a, b) = Append(Span(text, a, b), c)  BY <1>4, <1>5, <2>2 DEF Span
  <2> QED  BY <2>1, <2>3 DEF Span
<1>6. ASSUME b <= a  PROVE Span(text, a, b) = <<>> /\ Span(more, a, b) = <<>>
  <2>1. b - 1 < a  BY <1>6
  <2> QED  BY <1>2, <2>1, SubSeqEmpty DEF Span
<1> QED  BY <1>3, <1>4, <1>5, <1>6

\* The request, while its first line is read.
Begin(method, uri, major, minor) ==
    [method |-> method, uri |-> uri, major |-> Number(major), minor |-> Number(minor),
     headers |-> <<>>]

\* What has been kept of the first line, in the states in it.
KeptFirst(st, text, r) ==
    LET n == Len(text)
    IN  /\ st \in {"method_start", "method"} => r = Begin(Span(text, 1, n + 1), <<>>, <<>>, <<>>)
        /\ st = "uri" =>
             \E p \in 1..n :
                /\ Uri(text, p, n + 1)
                /\ r = Begin(Span(text, 1, p), Span(text, p + 1, n + 1), <<>>, <<>>)
        /\ st \in DOMAIN Letters5 =>
             \E p, q \in 1..n :
                /\ q + Letters5[st] = n /\ Named(text, p, q, Letters5[st])
                /\ r = Begin(Span(text, 1, p), Span(text, p + 1, q), <<>>, <<>>)
        /\ st = "http_version_major" =>
             \E p, q \in 1..n :
                /\ Major(text, p, q, n + 1)
                /\ r = Begin(Span(text, 1, p), Span(text, p + 1, q), Span(text, q + 6, n + 1), <<>>)
        /\ st = "http_version_minor_start" =>
             \E p, q \in 1..n :
                /\ Major(text, p, q, n) /\ text[n] = "."
                /\ r = Begin(Span(text, 1, p), Span(text, p + 1, q), Span(text, q + 6, n), <<>>)
        /\ st = "http_version_minor" =>
             \E p, q, d \in 1..n :
                /\ Minor(text, p, q, d, n)
                /\ r = Begin(Span(text, 1, p), Span(text, p + 1, q), Span(text, q + 6, d),
                             Span(text, d + 1, n + 1))
        /\ st = "expecting_newline_1" =>
             \E p, q, d \in 1..(n - 1) :
                /\ Minor(text, p, q, d, n - 1)
                /\ r = Begin(Span(text, 1, p), Span(text, p + 1, q), Span(text, q + 6, d),
                             Span(text, d + 1, n))

\* What a character of the first line adds to the request.
LEMMA KeptParts ==
    ASSUME NEW m, NEW u, NEW a \in Seq(Alphabet), NEW b \in Seq(Alphabet),
           NEW st \in FirstStates, NEW c \in Alphabet,
           NEW to \in FirstStates \cup {"header_line_start"},
           NEW kept, kept = Kept(Begin(m, u, a, b), st, to, c)
    PROVE  /\ to = "method" => kept = Begin(Append(m, c), u, a, b)
           /\ st = "uri" /\ to = "uri" => kept = Begin(m, Append(u, c), a, b)
           /\ to = "http_version_major_start" /\ a = <<>> /\ b = <<>> => kept = Begin(m, u, a, b)
           /\ to = "http_version_major" => kept = Begin(m, u, Append(a, c), b)
           /\ to = "http_version_minor" => kept = Begin(m, u, a, Append(b, c))
           /\ st # "uri" /\ to = "uri" => kept = Begin(m, u, a, b)
           /\ to \in {"http_version_h", "http_version_t_1", "http_version_t_2",
                     "http_version_p", "http_version_slash", "http_version_minor_start",
                     "expecting_newline_1", "header_line_start"} => kept = Begin(m, u, a, b)
<1> DEFINE r == Begin(m, u, a, b)
<1>1. Number(<<>>) = 0 /\ Number(Append(a, c)) = Number(a) * 10 + Value(c)
      /\ Number(Append(b, c)) = Number(b) * 10 + Value(c)
  BY NumberGrows
<1>2. to = "method" => kept = Begin(Append(m, c), u, a, b)
  BY DEF Begin, Kept
<1>3. st = "uri" /\ to = "uri" => kept = Begin(m, Append(u, c), a, b)
  BY DEF Begin, Kept
<1>4. to = "http_version_major_start" /\ a = <<>> /\ b = <<>> => kept = Begin(m, u, a, b)
  BY <1>1 DEF Begin, Kept
<1>5. to = "http_version_major" => kept = Begin(m, u, Append(a, c), b)
  BY <1>1 DEF Begin, Kept
<1>6. to = "http_version_minor" => kept = Begin(m, u, a, Append(b, c))
  BY <1>1 DEF Begin, Kept
<1>7. ASSUME \/ st # "uri" /\ to = "uri"
             \/ to \in {"http_version_h", "http_version_t_1", "http_version_t_2",
                        "http_version_p", "http_version_slash", "http_version_minor_start",
                        "expecting_newline_1", "header_line_start"}
      PROVE  kept = r
  BY <1>7 DEF Kept
<1> QED  BY <1>2, <1>3, <1>4, <1>5, <1>6, <1>7

\* A character of the first line is kept in the part of the request line it belongs to.
LEMMA FirstLineKept ==
    ASSUME NEW text, NEW more, Continues(more, text), Len(more) = Len(text) + 1,
           NEW st \in FirstStates, InFirst(st, text), NEW r, KeptFirst(st, text, r),
           LET to == After(st, more[Len(text) + 1], r.headers)
           IN  to \notin {"bad", "header_line_start"}
    PROVE  LET to == After(st, more[Len(text) + 1], r.headers)
           IN  KeptFirst(to, more, Kept(r, st, to, more[Len(text) + 1]))
<1> DEFINE n == Len(text)
           c == more[n + 1]
           to == After(st, c, r.headers)
           kept == Kept(r, st, to, c)
<1>1. /\ n \in Nat /\ Len(more) = n + 1 /\ n + 1 + 1 = n + 2 /\ n + 1 \in 1..(n + 1)
      /\ \A p \in 1..n : p \in 1..(n + 1) /\ p \in Nat
      /\ c \in Alphabet
  <2>1. n \in Nat /\ Len(more) = n + 1 /\ more \in Seq(Alphabet)
    BY NewlinesAre DEF Continues
  <2>2. n + 1 \in 1..Len(more)  BY <2>1
  <2> QED  BY <2>1, <2>2, NewlinesAre
<1>2. to \notin {"bad", "header_line_start"}  OBVIOUS
<1>3. /\ c # SP /\ ~IsCtl(c) <=> IsUriChar(c)
      /\ c \in Digits <=> IsDigit(c)
  BY Classes
<1>4. \A p, q, d \in Nat, k \in 0..4 : Takes(text, more, c, p, q, d, k)
  BY PartsGrow
<1>5. \A a \in Nat \ {0}, b \in Int : b <= n + 1 =>
         /\ Span(text, a, b) \in Seq(Alphabet)
         /\ Span(more, a, b) = Span(text, a, b)
         /\ a <= b /\ b = n + 1 => Span(more, a, n + 2) = Append(Span(text, a, b), c)
         /\ b <= a => Span(text, a, b) = <<>> /\ Span(more, a, b) = <<>>
  BY SpanGrows
<1>6. ASSUME NEW p \in 1..n, NEW q \in 1..(n + 1)
      PROVE  /\ p \in Nat \ {0} /\ p + 1 \in Nat \ {0} /\ q + 1 \in Nat \ {0} /\ q + 6 \in Nat \ {0}
             /\ Span(more, 1, p) = Span(text, 1, p)
             /\ Span(more, p + 1, q) = Span(text, p + 1, q)
             /\ p + 1 <= n + 1
  <2>1. p \in Nat \ {0} /\ p + 1 \in Nat \ {0} /\ q + 1 \in Nat \ {0} /\ q + 6 \in Nat \ {0}
        /\ p \in Int /\ p <= n + 1 /\ q \in Int /\ q <= n + 1 /\ p + 1 <= n + 1
    BY <1>1
  <2> QED  BY <1>5, <2>1
<1>7. <<>> \in Seq(Alphabet)  OBVIOUS
<1> HIDE DEF n, c
<1>8. ASSUME NEW m, NEW u, NEW a \in Seq(Alphabet), NEW b \in Seq(Alphabet), r = Begin(m, u, a, b),
             to \in FirstStates
      PROVE  /\ to = "method" => kept = Begin(Append(m, c), u, a, b)
             /\ st = "uri" /\ to = "uri" => kept = Begin(m, Append(u, c), a, b)
             /\ to = "http_version_major_start" /\ a = <<>> /\ b = <<>> => kept = Begin(m, u, a, b)
             /\ to = "http_version_major" => kept = Begin(m, u, Append(a, c), b)
             /\ to = "http_version_minor" => kept = Begin(m, u, a, Append(b, c))
             /\ st # "uri" /\ to = "uri" => kept = Begin(m, u, a, b)
             /\ to \in {"http_version_h", "http_version_t_1", "http_version_t_2",
                        "http_version_p", "http_version_slash", "http_version_minor_start",
                        "expecting_newline_1", "header_line_start"} => kept = Begin(m, u, a, b)
  <2>1. kept = Kept(Begin(m, u, a, b), st, to, c)  BY <1>8
  <2>2. to \in FirstStates \cup {"header_line_start"}  BY <1>8
  <2>3. c \in Alphabet  BY <1>1
  <2> HIDE DEF to, kept
  <2> QED  BY <2>1, <2>2, <2>3, KeptParts
<1> SUFFICES KeptFirst(to, more, kept)
  BY DEF c, n
<1> HIDE DEF kept
<1>9. CASE st \in {"method_start", "method"}
  <2>1. to = InMethodOrUri(st, c)  BY <1>9 DEF After, MethodOrUri
  <2>2. \/ to = "method"
        \/ st = "method" /\ to = "uri" /\ c = SP
    BY <1>2, <1>9, <2>1 DEF InMethodOrUri
  <2>3. r = Begin(Span(text, 1, n + 1), <<>>, <<>>, <<>>)  BY <1>9 DEF KeptFirst, n
  <2>4. to \in FirstStates  BY <2>2 DEF FirstStates, MethodOrUri
  <2> HIDE DEF to
  <2>5. CASE to = "method"
    <3>1. kept = Begin(Append(Span(text, 1, n + 1), c), <<>>, <<>>, <<>>)
      BY <1>7, <1>8, <2>3, <2>4, <2>5
    <3>2. Span(more, 1, n + 2) = Append(Span(text, 1, n + 1), c)
      <4>1. 1 \in Nat \ {0} /\ n + 1 \in Int /\ 1 <= n + 1 /\ n + 1 <= n + 1  BY <1>1
      <4> QED  BY <1>5, <4>1
    <3> QED  BY <1>1, <2>5, <3>1, <3>2 DEF KeptFirst, Letters5
  <2>6. CASE st = "method" /\ to = "uri" /\ c = SP
    <3>1. kept = r  BY <1>7, <1>8, <2>3, <2>4, <2>6
    <3>2. Uri(more, n + 1, n + 2)
      <4>1. Method(text, n + 1)  BY <2>6 DEF InFirst, n
      <4>2. Takes(text, more, c, 0, 0, 0, 0)  BY <1>4
      <4> QED  BY <2>6, <4>1, <4>2 DEF Takes, n
    <3>3. Span(more, 1, n + 1) = Span(text, 1, n + 1) /\ Span(more, n + 1 + 1, n + 2) = <<>>
      <4>1. 1 \in Nat \ {0} /\ n + 1 \in Int /\ n + 1 <= n + 1 /\ (n + 2) - 1 < n + 2
            /\ n + 2 \in Int /\ (n + 2) - 1 \in Int
        BY <1>1
      <4>2. SubSeq(more, n + 2, (n + 2) - 1) = <<>>  BY <4>1, SubSeqEmpty
      <4> QED  BY <1>1, <1>5, <4>1, <4>2 DEF Span
    <3> QED  BY <1>1, <2>3, <2>6, <3>1, <3>2, <3>3 DEF KeptFirst, Letters5
  <2> QED  BY <2>2, <2>5, <2>6
<1>10. CASE st = "uri"
  <2>1. to = InMethodOrUri(st, c)  BY <1>10 DEF After, MethodOrUri
  <2>2. \/ to = "uri" /\ IsUriChar(c)
        \/ to = "http_version_h" /\ c = SP
    BY <1>2, <1>3, <1>10, <2>1 DEF InMethodOrUri
  <2>3. PICK p \in 1..n :
          Uri(text, p, n + 1) /\ r = Begin(Span(text, 1, p), Span(text, p + 1, n + 1), <<>>, <<>>)
    BY <1>10 DEF KeptFirst, n
  <2>4. /\ IsUriChar(c) => Uri(more, p, n + 2)
        /\ c = SP => Named(more, p, n + 1, 0)
    <3>1. Takes(text, more, c, p, 0, 0, 0)  BY <1>1, <1>4
    <3> QED  BY <2>3, <3>1 DEF Takes, n
  <2>5. Span(more, 1, p) = Span(text, 1, p) /\ Span(more, p + 1, n + 1) = Span(text, p + 1, n + 1)
        /\ p + 1 \in Nat \ {0} /\ p + 1 <= n + 1 /\ n + 1 \in Int /\ n + 1 <= n + 1
    <3>1. n + 1 \in Int /\ n + 1 <= n + 1  BY <1>1
    <3> QED  BY <1>1, <1>6, <3>1
  <2>6. to \in FirstStates  BY <2>2 DEF FirstStates, MethodOrUri, Version
  <2> HIDE DEF to
  <2>7. CASE to = "uri" /\ IsUriChar(c)
    <3>1. kept = Begin(Span(text, 1, p), Append(Span(text, p + 1, n + 1), c), <<>>, <<>>)
      BY <1>7, <1>8, <1>10, <2>3, <2>6, <2>7
    <3>2. Span(more, p + 1, n + 2) = Append(Span(text, p + 1, n + 1), c)
      BY <1>5, <2>5
    <3> QED  BY <1>1, <2>4, <2>5, <2>7, <3>1, <3>2 DEF KeptFirst, Letters5
  <2>8. CASE to = "http_version_h" /\ c = SP
    <3>1. kept = r  BY <1>7, <1>8, <2>3, <2>6, <2>8
    <3>2. n + 1 + 0 = n + 1  BY <1>1
    <3>3. "http_version_h" \in DOMAIN Letters5 /\ Letters5["http_version_h"] = 0  BY DEF Letters5
    <3> QED  BY <1>1, <2>3, <2>4, <2>5, <2>8, <3>1, <3>2, <3>3 DEF KeptFirst
  <2> QED  BY <2>2, <2>7, <2>8
<1>11. CASE st \in DOMAIN Letters5 \ {"http_version_major_start"}
  <2> DEFINE k == Letters5[st]
  <2>1. st \in Version /\ st \notin MethodOrUri /\ k \in 0..4
    BY <1>11 DEF Letters5, Version, MethodOrUri
  <2>2. to = InVersion(st, c)  BY <2>1 DEF After
  <2>3. /\ to \in DOMAIN Letters5 /\ Letters5[to] = k + 1 /\ c = Protocol[k + 1]
        /\ to \in Version
        /\ to \in {"http_version_t_1", "http_version_t_2", "http_version_p",
                   "http_version_slash", "http_version_major_start"}
    BY <1>2, <1>11, <2>2 DEF InVersion, Letters5, Protocol, Version, MethodOrUri
  <2>4. PICK p \in 1..n, q \in 1..n :
          /\ q + k = n /\ Named(text, p, q, k)
          /\ r = Begin(Span(text, 1, p), Span(text, p + 1, q), <<>>, <<>>)
    BY <1>11 DEF KeptFirst, n
  <2> HIDE DEF k
  <2>5. Named(more, p, q, k + 1)
    <3>1. Takes(text, more, c, p, q, 0, k)  BY <1>1, <1>4, <2>1
    <3> QED  BY <2>3, <2>4, <3>1 DEF Takes, n
  <2>6. p \in 1..(n + 1) /\ q \in 1..(n + 1) /\ q + (k + 1) = n + 1  BY <1>1, <2>1, <2>4
  <2>7. kept = r
    <3>1. to \in FirstStates  BY <2>3 DEF FirstStates
    <3> HIDE DEF to
    <3> QED  BY <1>7, <1>8, <2>3, <2>4, <3>1
  <2>8. r = Begin(Span(more, 1, p), Span(more, p + 1, q), <<>>, <<>>)
    BY <1>6, <2>4, <2>6
  <2>9. \E p2, q2 \in 1..(n + 1) :
          /\ q2 + Letters5[to] = n + 1 /\ Named(more, p2, q2, Letters5[to])
          /\ kept = Begin(Span(more, 1, p2), Span(more, p2 + 1, q2), <<>>, <<>>)
    BY <2>3, <2>5, <2>6, <2>7, <2>8
  <2> HIDE DEF to
  <2> QED  BY <1>1, <2>3, <2>9 DEF KeptFirst
<1>12. CASE st = "http_version_major_start"
  <2>1. to = InVersion(st, c)  BY <1>12 DEF After, MethodOrUri, Version
  <2>2. to = "http_version_major" /\ IsDigit(c)  BY <1>2, <1>3, <1>12, <2>1 DEF InVersion
  <2>3. st \in DOMAIN Letters5 /\ Letters5[st] = 5  BY <1>12 DEF Letters5
  <2>4. PICK p \in 1..n, q \in 1..n :
          /\ q + 5 = n /\ Named(text, p, q, 5)
          /\ r = Begin(Span(text, 1, p), Span(text, p + 1, q), <<>>, <<>>)
    BY <2>3 DEF KeptFirst, n
  <2>5. Major(more, p, q, n + 2)
    <3>1. Takes(text, more, c, p, q, 0, 0)  BY <1>1, <1>4
    <3> QED  BY <2>2, <2>4, <3>1 DEF Takes, n
  <2>6. to \in FirstStates  BY <2>2 DEF FirstStates, Version
  <2> HIDE DEF to
  <2>7. kept = Begin(Span(text, 1, p), Span(text, p + 1, q), Append(<<>>, c), <<>>)
    BY <1>7, <1>8, <2>2, <2>4, <2>6
  <2>8. Span(more, q + 6, n + 2) = Append(<<>>, c)
    <3>1. q + 6 = n + 1 /\ n + 1 \in Nat \ {0} /\ n + 1 \in Int /\ n + 1 <= n + 1  BY <1>1, <2>4
    <3>2. Span(text, n + 1, n + 1) = <<>>  BY <1>5, <3>1
    <3> QED  BY <1>5, <3>1, <3>2
  <2>9. Span(more, 1, p) = Span(text, 1, p) /\ Span(more, p + 1, q) = Span(text, p + 1, q)
    BY <1>1, <1>6
  <2> QED  BY <1>1, <2>2, <2>5, <2>7, <2>8, <2>9 DEF KeptFirst, Letters5
<1>13. CASE st = "http_version_major"
  <2>1. to = InVersion(st, c)  BY <1>13 DEF After, MethodOrUri, Version
  <2>2. \/ to = "http_version_major" /\ IsDigit(c)
        \/ to = "http_version_minor_start" /\ c = "."
    BY <1>2, <1>3, <1>13, <2>1 DEF InVersion
  <2>3. PICK p \in 1..n, q \in 1..n :
          /\ Major(text, p, q, n + 1)
          /\ r = Begin(Span(text, 1, p), Span(text, p + 1, q), Span(text, q + 6, n + 1), <<>>)
    BY <1>13 DEF KeptFirst, n
  <2>4. Major(more, p, q, n + 1) /\ (IsDigit(c) => Major(more, p, q, n + 2))
    <3>1. Takes(text, more, c, p, q, 0, 0)  BY <1>1, <1>4
    <3> QED  BY <2>3, <3>1 DEF Takes, n
  <2>5. Span(more, 1, p) = Span(text, 1, p) /\ Span(more, p + 1, q) = Span(text, p + 1, q)
    BY <1>1, <1>6
  <2>6. /\ q + 6 \in Nat \ {0} /\ n + 1 \in Int /\ n + 1 <= n + 1 /\ q + 6 <= n + 1
    <3>1. q + 6 < n + 1  BY <2>3 DEF Major
    <3> QED  BY <1>1, <3>1
  <2>7. /\ Span(text, q + 6, n + 1) \in Seq(Alphabet)
        /\ Span(more, q + 6, n + 1) = Span(text, q + 6, n + 1)
        /\ Span(more, q + 6, n + 2) = Append(Span(text, q + 6, n + 1), c)
    BY <1>5, <2>6
  <2>8. to \in FirstStates  BY <2>2 DEF FirstStates, Version
  <2> HIDE DEF to
  <2>9. CASE to = "http_version_major" /\ IsDigit(c)
    <3>1. kept = Begin(Span(text, 1, p), Span(text, p + 1, q), Append(Span(text, q + 6, n + 1), c), <<>>)
      BY <1>7, <1>8, <2>3, <2>7, <2>8, <2>9
    <3> QED  BY <1>1, <2>4, <2>5, <2>7, <2>9, <3>1 DEF KeptFirst, Letters5
  <2>10. CASE to = "http_version_minor_start" /\ c = "."
    <3>1. kept = r
      <4> DEFINE u == Span(text, 1, p)
                 v == Span(text, p + 1, q)
                 w == Span(text, q + 6, n + 1)
      <4>1. r = Begin(u, v, w, <<>>)  BY <2>3
      <4>2. w \in Seq(Alphabet)  BY <2>7
      <4> HIDE DEF u, v, w
      <4> QED  BY <1>7, <1>8, <2>8, <2>10, <4>1, <4>2
    <3>2. more[n + 1] = "."  BY <2>10 DEF c
    <3> QED  BY <1>1, <2>3, <2>4, <2>5, <2>7, <2>10, <3>1, <3>2 DEF KeptFirst, Letters5
  <2> QED  BY <2>2, <2>9, <2>10
<1>14. CASE st = "http_version_minor_start"
  <2>1. to = InVersion(st, c)  BY <1>14 DEF After, MethodOrUri, Version
  <2>2. to = "http_version_minor" /\ IsDigit(c)  BY <1>2, <1>3, <1>14, <2>1 DEF InVersion
  <2>3. PICK p \in 1..n, q \in 1..n :
          /\ Major(text, p, q, n) /\ text[n] = "."
          /\ r = Begin(Span(text, 1, p), Span(text, p + 1, q), Span(text, q + 6, n), <<>>)
    BY <1>14 DEF KeptFirst, n
  <2>4. Minor(more, p, q, n, n + 1) /\ n \in 1..(n + 1)
    <3>1. Takes(text, more, c, p, q, 0, 0) /\ n \in 1..(n + 1)  BY <1>1, <1>4
    <3> QED  BY <2>2, <2>3, <3>1 DEF Takes, n
  <2>5. Span(more, 1, p) = Span(text, 1, p) /\ Span(more, p + 1, q) = Span(text, p + 1, q)
    BY <1>1, <1>6
  <2>6. Span(text, q + 6, n) \in Seq(Alphabet) /\ Span(more, q + 6, n) = Span(text, q + 6, n)
    <3>1. q + 6 \in Nat \ {0} /\ n \in Int /\ n <= n + 1  BY <1>1
    <3> QED  BY <1>5, <3>1
  <2>7. Span(more, n + 1, n + 1 + 1) = Append(<<>>, c)
    <3>1. n + 1 \in Nat \ {0} /\ n + 1 \in Int /\ n + 1 <= n + 1  BY <1>1
    <3>2. Span(text, n + 1, n + 1) = <<>>  BY <1>5, <3>1
    <3> QED  BY <1>1, <1>5, <3>1, <3>2
  <2>8. to \in FirstStates  BY <2>2 DEF FirstStates, Version
  <2> HIDE DEF to
  <2>9. kept = Begin(Span(text, 1, p), Span(text, p + 1, q), Span(text, q + 6, n), Append(<<>>, c))
    BY <1>7, <1>8, <2>2, <2>3, <2>6, <2>8
  <2> QED  BY <1>1, <2>2, <2>4, <2>5, <2>6, <2>7, <2>9 DEF KeptFirst, Letters5
<1>15. CASE st = "http_version_minor"
  <2>1. to = InVersion(st, c)  BY <1>15 DEF After, MethodOrUri, Version
  <2>2. \/ to = "http_version_minor" /\ IsDigit(c)
        \/ to = "expecting_newline_1" /\ c = CR
    BY <1>2, <1>3, <1>15, <2>1 DEF InVersion
  <2>3. PICK p \in 1..n, q \in 1..n, d \in 1..n :
          /\ Minor(text, p, q, d, n)
          /\ r = Begin(Span(text, 1, p), Span(text, p + 1, q), Span(text, q + 6, d),
                       Span(text, d + 1, n + 1))
    BY <1>15 DEF KeptFirst, n
  <2>4. Minor(more, p, q, d, n) /\ (IsDigit(c) => Minor(more, p, q, d, n + 1))
    <3>1. Takes(text, more, c, p, q, d, 0)  BY <1>1, <1>4
    <3> QED  BY <2>3, <3>1 DEF Takes, n
  <2>5. Span(more, 1, p) = Span(text, 1, p) /\ Span(more, p + 1, q) = Span(text, p + 1, q)
    BY <1>1, <1>6
  <2>6. /\ q + 6 \in Nat \ {0} /\ d \in Int /\ d <= n + 1 /\ d + 1 \in Nat \ {0}
        /\ n + 1 \in Int /\ n + 1 <= n + 1 /\ d + 1 <= n + 1
    BY <1>1
  <2>7. /\ Span(text, q + 6, d) \in Seq(Alphabet)
        /\ Span(more, q + 6, d) = Span(text, q + 6, d)
    BY <1>5, <2>6
  <2>8. /\ Span(text, d + 1, n + 1) \in Seq(Alphabet)
        /\ Span(more, d + 1, n + 1) = Span(text, d + 1, n + 1)
        /\ Span(more, d + 1, n + 2) = Append(Span(text, d + 1, n + 1), c)
    BY <1>5, <2>6
  <2>9. to \in FirstStates  BY <2>2 DEF FirstStates, Version
  <2> HIDE DEF to
  <2>10. CASE to = "http_version_minor" /\ IsDigit(c)
    <3>1. kept = Begin(Span(text, 1, p), Span(text, p + 1, q), Span(text, q + 6, d),
                       Append(Span(text, d + 1, n + 1), c))
      BY <1>8, <2>3, <2>7, <2>8, <2>9, <2>10
    <3> QED  BY <1>1, <2>4, <2>5, <2>7, <2>8, <2>10, <3>1 DEF KeptFirst, Letters5
  <2>11. CASE to = "expecting_newline_1" /\ c = CR
    <3>1. kept = r  BY <1>8, <2>3, <2>7, <2>8, <2>9, <2>11
    <3>2. (n + 1) - 1 = n  BY <1>1
    <3> QED  BY <1>1, <2>3, <2>4, <2>5, <2>7, <2>8, <2>11, <3>1, <3>2 DEF KeptFirst, Letters5
  <2> QED  BY <2>2, <2>10, <2>11
<1>16. CASE st = "expecting_newline_1"
  <2>1. to = InVersion(st, c)  BY <1>16 DEF After, MethodOrUri, Version
  <2>2. to \in {"bad", "header_line_start"}  BY <1>2, <1>16, <2>1 DEF InVersion
  <2> QED  BY <1>2, <2>2
<1> QED
  BY <1>9, <1>10, <1>11, <1>12, <1>13, <1>14, <1>15, <1>16
  DEF FirstStates, MethodOrUri, Version, Letters5

\* There is one way to take a request line apart.
LEMMA OneWay ==
    ASSUME NEW text, NEW p \in Nat \ {0}, NEW p2 \in Nat \ {0}, NEW q \in Nat, NEW q2 \in Nat
    PROVE  /\ Uri(text, p, q) /\ Uri(text, p2, q2) => p2 = p
           /\ \A k, k2 : Named(text, p, q, k) /\ Named(text, p2, q2, k2) => p2 = p /\ q2 = q
           /\ \A d, d2 \in Nat : Major(text, p, q, d) /\ Major(text, p2, q2, d2) =>
                p2 = p /\ q2 = q /\ (text[d] = "." /\ text[d2] = "." => d2 = d)
<1>1. ASSUME Uri(text, p, q), Uri(text, p2, q2)  PROVE p2 = p
  <2>1. Method(text, p) /\ text[p] = SP /\ Method(text, p2) /\ text[p2] = SP  BY <1>1 DEF Uri
  <2>2. p <= p2 /\ p2 <= p  BY <2>1, PartsAreClear
  <2> QED  BY <2>2
<1>2. ASSUME NEW k, NEW k2, Named(text, p, q, k), Named(text, p2, q2, k2)
      PROVE  p2 = p /\ q2 = q
  <2>1. Uri(text, p, q) /\ text[q] = SP /\ Uri(text, p2, q2) /\ text[q2] = SP  BY <1>2 DEF Named
  <2>2. p2 = p  BY <1>1, <2>1
  <2>3. p < q /\ p < q2  BY <2>1, <2>2 DEF Uri
  <2>4. q <= q2 /\ q2 <= q  BY <2>1, <2>2, <2>3, PartsAreClear
  <2> QED  BY <2>2, <2>4
<1>3. ASSUME NEW d \in Nat, NEW d2 \in Nat, Major(text, p, q, d), Major(text, p2, q2, d2)
      PROVE  p2 = p /\ q2 = q /\ (text[d] = "." /\ text[d2] = "." => d2 = d)
  <2>1. p2 = p /\ q2 = q  BY <1>2, <1>3 DEF Major
  <2>2. q + 5 < d /\ q + 5 < d2  BY <1>3, <2>1 DEF Major
  <2>3. ~IsDigit(".")  BY Classes
  <2>4. Major(text, p, q, d) /\ Major(text, p, q, d2)  BY <1>3, <2>1
  <2>5. text[d2] = "." => ~(d2 < d)
    <3>1. d2 < d => d2 \in (q + 6)..(d - 1)  BY <2>2
    <3> QED  BY <2>3, <2>4, <3>1 DEF Major
  <2>6. text[d] = "." => ~(d < d2)
    <3>1. d < d2 => d \in (q + 6)..(d2 - 1)  BY <2>2
    <3> QED  BY <2>3, <2>4, <3>1 DEF Major
  <2> QED  BY <2>1, <2>5, <2>6
<1>4. \A k, k2 : Named(text, p, q, k) /\ Named(text, p2, q2, k2) => p2 = p /\ q2 = q
  BY <1>2
<1>5. \A d, d2 \in Nat : Major(text, p, q, d) /\ Major(text, p2, q2, d2) =>
         p2 = p /\ q2 = q /\ (text[d] = "." /\ text[d2] = "." => d2 = d)
  BY <1>3
<1> QED  BY <1>1, <1>4, <1>5

\* A request is as the first line says whose parts end at p, q, d and to.
AsFirstLine(r, text, p, q, d, to) ==
    /\ r.method = Span(text, 1, p) /\ r.uri = Span(text, p + 1, q)
    /\ r.major = Number(Span(text, q + 6, d)) /\ r.minor = Number(Span(text, d + 1, to + 1))

\* The first line of a text has ended, and a request is as it says.
FirstMeant(text, r) ==
    \E to \in 1..Len(text) : \E p, q, d \in 1..to :
       /\ <<1, to + 2>> \in Lines(text) /\ Minor(text, p, q, d, to)
       /\ AsFirstLine(r, text, p, q, d, to)

\* At the end of the first line all of it has been kept.
LEMMA FirstLineDone ==
    ASSUME NEW text, NEW more, Continues(more, text), Len(more) = Len(text) + 1,
           more[Len(text) + 1] = LF, Open(text, 1),
           NEW r, KeptFirst("expecting_newline_1", text, r)
    PROVE  FirstMeant(more, r) /\ r.headers = <<>>
<1> DEFINE n == Len(text)
<1>1. n \in Nat /\ Len(more) = n + 1  BY NewlinesAre DEF Continues
<1>2. PICK p \in 1..(n - 1), q \in 1..(n - 1), d \in 1..(n - 1) :
        /\ Minor(text, p, q, d, n - 1)
        /\ r = Begin(Span(text, 1, p), Span(text, p + 1, q), Span(text, q + 6, d),
                     Span(text, d + 1, n))
  BY DEF KeptFirst, Letters5
<1>3. /\ n - 1 \in 1..(n + 1) /\ (n - 1) + 2 = n + 1 /\ (n - 1) + 1 = n /\ n - 1 \in Nat /\ n - 1 <= n
      /\ p \in Nat \ {0} /\ q \in Nat /\ d \in Nat /\ 0 \in 0..5
      /\ p + 1 \in Nat \ {0} /\ q + 6 \in Nat \ {0} /\ d + 1 \in Nat \ {0}
      /\ p <= n + 1 /\ q <= n + 1 /\ d <= n + 1 /\ n <= n + 1 /\ n \in Int
      /\ p \in Int /\ q \in Int /\ d \in Int /\ 1 \in Nat \ {0}
  BY <1>1
<1>4. <<1, n + 1>> \in Lines(more)  BY <1>1, LineEnds
<1>5. Minor(more, p, q, d, n - 1)
  <2>1. SameTo(text, more, p, q, d, n - 1, 0)  BY <1>3, SameFirst
  <2> QED  BY <1>2, <1>3, <2>1 DEF SameTo
<1> HIDE DEF n
<1>6. \A a \in Nat \ {0}, b \in Int : b <= n + 1 => Span(more, a, b) = Span(text, a, b)
  BY SpanGrows DEF n
<1>7. /\ Span(more, 1, p) = Span(text, 1, p) /\ Span(more, p + 1, q) = Span(text, p + 1, q)
      /\ Span(more, q + 6, d) = Span(text, q + 6, d) /\ Span(more, d + 1, n) = Span(text, d + 1, n)
  BY <1>3, <1>6
<1>8. AsFirstLine(r, more, p, q, d, n - 1)
  BY <1>2, <1>3, <1>7 DEF AsFirstLine, Begin
<1>9. \E p2, q2, d2 \in 1..(n - 1) :
        /\ <<1, (n - 1) + 2>> \in Lines(more) /\ Minor(more, p2, q2, d2, n - 1)
        /\ AsFirstLine(r, more, p2, q2, d2, n - 1)
  BY <1>3, <1>4, <1>5, <1>8
<1>10. FirstMeant(more, r)  BY <1>1, <1>3, <1>9 DEF FirstMeant
<1> QED  BY <1>2, <1>10 DEF Begin

\* What the first line says stays said.
LEMMA FirstMeantStays ==
    ASSUME NEW text, NEW more, Continues(more, text), NEW r, FirstMeant(text, r),
           NEW r2, r2.method = r.method, r2.uri = r.uri, r2.major = r.major, r2.minor = r.minor
    PROVE  FirstMeant(more, r2)
<1> DEFINE n == Len(text)
<1>1. n \in Nat /\ Len(more) \in Nat /\ n <= Len(more) /\ text \in Seq(Alphabet)
  BY NewlinesAre DEF Continues
<1>2. PICK to \in 1..n, p \in 1..n, q \in 1..n, d \in 1..n :
        /\ p \in 1..to /\ q \in 1..to /\ d \in 1..to
        /\ <<1, to + 2>> \in Lines(text) /\ Minor(text, p, q, d, to)
        /\ AsFirstLine(r, text, p, q, d, to)
  <2>1. PICK to \in 1..n : \E p, q, d \in 1..to :
          /\ <<1, to + 2>> \in Lines(text) /\ Minor(text, p, q, d, to)
          /\ AsFirstLine(r, text, p, q, d, to)
    BY DEF FirstMeant
  <2>2. \A i \in 1..to : i \in 1..n  BY <1>1
  <2> QED  BY <2>1, <2>2
<1>3. /\ to \in 1..Len(more) /\ to \in Nat /\ to <= n
      /\ p \in Nat \ {0} /\ q \in Nat /\ d \in Nat /\ 0 \in 0..5
      /\ p + 1 \in Nat \ {0} /\ q + 6 \in Nat \ {0} /\ d + 1 \in Nat \ {0}
      /\ p - 1 <= n /\ q - 1 <= n /\ d - 1 <= n /\ (to + 1) - 1 <= n
      /\ p - 1 \in Int /\ q - 1 \in Int /\ d - 1 \in Int /\ (to + 1) - 1 \in Int /\ 1 \in Nat \ {0}
  BY <1>1
<1>4. <<1, to + 2>> \in Lines(more)  BY <1>2, EarlierLines
<1>5. Minor(more, p, q, d, to)
  <2>1. SameTo(text, more, p, q, d, to, 0)  BY <1>3, SameFirst
  <2> QED  BY <1>2, <1>3, <2>1 DEF SameTo
<1> HIDE DEF n
<1>6. \A a \in Nat \ {0}, b \in Int : b <= n => SubSeq(more, a, b) = SubSeq(text, a, b)
  BY <1>1, PartsOf DEF n
<1>7. /\ Span(more, 1, p) = Span(text, 1, p) /\ Span(more, p + 1, q) = Span(text, p + 1, q)
      /\ Span(more, q + 6, d) = Span(text, q + 6, d)
      /\ Span(more, d + 1, to + 1) = Span(text, d + 1, to + 1)
  BY <1>3, <1>6 DEF Span
<1>8. AsFirstLine(r2, more, p, q, d, to)
  BY <1>2, <1>7 DEF AsFirstLine
<1> QED  BY <1>2, <1>3, <1>4, <1>5, <1>8 DEF FirstMeant

-----------------------------------------------------------------------------
(* The headers of a text, while it grows.                                  *)

\* The headers a text has.
Hs(text) == [k \in 1..Cardinality(Heads(text)) |-> Header(text, Kth(Heads(text), k))]

\* A request that is as the first line and the headers say is what the text means.
LEMMA MeaningIs ==
    ASSUME NEW text \in Seq(Alphabet), NEW r \in Requests, FirstMeant(text, r), r.headers = Hs(text)
    PROVE  r = Meaning(text)
<1> DEFINE n == Len(text)
<1>1. n \in Nat  BY NewlinesAre
<1>2. PICK to \in 1..n, p \in 1..n, q \in 1..n, d \in 1..n :
        /\ p \in 1..to /\ q \in 1..to /\ d \in 1..to
        /\ <<1, to + 2>> \in Lines(text) /\ Minor(text, p, q, d, to)
        /\ AsFirstLine(r, text, p, q, d, to)
  <2>1. PICK to \in 1..n : \E p, q, d \in 1..to :
          /\ <<1, to + 2>> \in Lines(text) /\ Minor(text, p, q, d, to)
          /\ AsFirstLine(r, text, p, q, d, to)
    BY DEF FirstMeant
  <2>2. \A i \in 1..to : i \in 1..n  BY <1>1
  <2> QED  BY <2>1, <2>2
<1> DEFINE to0 == CHOOSE i \in 1..Len(text) : <<1, i + 2>> \in Lines(text)
           ends == CHOOSE l \in RequestLine(text, to) : TRUE
           dot == CHOOSE i \in (q + 7)..to : text[i] = "."
<1>3. to0 = to
  <2>1. \A i \in 1..n : <<1, i + 2>> \in Lines(text) => i = to
    <3> TAKE i \in 1..n
    <3> SUFFICES ASSUME <<1, i + 2>> \in Lines(text)  PROVE i = to
      OBVIOUS
    <3>1. /\ i + 2 \in Newlines(text) /\ 1 <= i + 2 /\ 1 <= to + 2 /\ to + 2 \in Newlines(text)
          /\ \A j \in Newlines(text) : 1 <= j => i + 2 <= j
          /\ \A j \in Newlines(text) : 1 <= j => to + 2 <= j
      BY <1>2, NewlinesAre
    <3>2. i + 2 <= to + 2 /\ to + 2 <= i + 2  BY <3>1
    <3> QED  BY <3>2
  <2> QED  BY <1>2, <2>1
<1>4. ends[1] = p /\ ends[2] = q
  <2>1. <<p, q>> \in RequestLine(text, to)  BY <1>2, RequestLineIs
  <2>2. ends \in RequestLine(text, to)  BY <2>1
  <2> HIDE DEF ends
  <2>3. ends[1] \in 1..to /\ ends[2] \in 1..to /\ \E d2 \in 1..to : Minor(text, ends[1], ends[2], d2, to)
    <3>1. to \in Int  OBVIOUS
    <3> QED  BY <2>2, <3>1, RequestLineIs
  <2>4. PICK e1 \in 1..to, e2 \in 1..to, d2 \in 1..to :
          ends[1] = e1 /\ ends[2] = e2 /\ Minor(text, e1, e2, d2, to)
    BY <2>3
  <2>5. Named(text, e1, e2, 5) /\ Named(text, p, q, 5)  BY <1>2, <2>4 DEF Minor, Major
  <2>6. e1 \in Nat \ {0} /\ e2 \in Nat /\ p \in Nat \ {0} /\ q \in Nat  OBVIOUS
  <2>7. e1 = p /\ e2 = q  BY <2>5, <2>6, OneWay
  <2> QED  BY <2>4, <2>7
<1>5. dot = d
  <2>1. /\ q + 6 < d /\ d < to /\ text[d] = "."
        /\ \A i \in (q + 6)..(d - 1) : IsDigit(text[i])
        /\ \A i \in (d + 1)..to : IsDigit(text[i])
    BY <1>2 DEF Minor, Major
  <2>2. ~IsDigit(".")  BY Classes
  <2>3. d \in (q + 7)..to  BY <2>1
  <2>4. \A i \in (q + 7)..to : text[i] = "." => i = d
    <3>1. \A i \in (q + 7)..to : i \in (q + 6)..(d - 1) \/ i = d \/ i \in (d + 1)..to  BY <2>1
    <3> QED  BY <2>1, <2>2, <3>1
  <2> QED  BY <2>1, <2>3, <2>4
<1>6. (to + 1) - 1 = to  OBVIOUS
<1>7. Meaning(text) = [method |-> Span(text, 1, p), uri |-> Span(text, p + 1, q),
                       major |-> Number(Span(text, q + 6, d)),
                       minor |-> Number(Span(text, d + 1, to + 1)), headers |-> Hs(text)]
  <2> DEFINE e == CHOOSE l \in RequestLine(text, to0) : TRUE
             f == CHOOSE i \in (e[2] + 7)..to0 : text[i] = "."
  <2>1. e = ends /\ f = dot
    <3>1. e = ends  BY <1>3
    <3> HIDE DEF e, to0
    <3> QED  BY <1>3, <1>4, <3>1
  <2>2. Meaning(text) =
         [method  |-> SubSeq(text, 1, e[1] - 1), uri |-> SubSeq(text, e[1] + 1, e[2] - 1),
          major   |-> Number(SubSeq(text, e[2] + 6, f - 1)),
          minor   |-> Number(SubSeq(text, f + 1, to0)),
          headers |-> Hs(text)]
    BY DEF Meaning, Hs
  <2> HIDE DEF e, f, to0, ends, dot
  <2> QED  BY <1>3, <1>4, <1>5, <1>6, <2>1, <2>2 DEF Span
<1>8. r = [method |-> r.method, uri |-> r.uri, major |-> r.major, minor |-> r.minor,
           headers |-> r.headers]
  BY DEF Requests
<1> QED  BY <1>2, <1>7, <1>8 DEF AsFirstLine

\* Where a name or the blanks of a folded line end is never in doubt, nor whether a
\* line is a header or folded.
LEMMA LinesAreClear ==
    ASSUME NEW text, NEW from \in Int, NEW to \in Int
    PROVE  /\ \A i, j \in HeaderLine(text, from, to) : i = j
           /\ \A i, j \in FoldedLine(text, from, to) : i = j
           /\ HeaderLine(text, from, to) = {} \/ FoldedLine(text, from, to) = {}
<1>1. ASSUME NEW i \in HeaderLine(text, from, to), NEW j \in HeaderLine(text, from, to)
      PROVE  ~(i < j)
  <2> SUFFICES ASSUME i < j  PROVE FALSE
    OBVIOUS
  <2>1. i \in (from + 1)..(to - 1) /\ text[i] = ":"  BY DEF HeaderLine
  <2>2. j \in (from + 1)..(to - 1) /\ \A k \in from..(j - 1) : IsToken(text[k])  BY DEF HeaderLine
  <2>3. i \in from..(j - 1)  BY <2>1, <2>2
  <2> QED  BY <2>1, <2>2, <2>3, Classes
<1>2. ASSUME NEW i \in FoldedLine(text, from, to), NEW j \in FoldedLine(text, from, to)
      PROVE  ~(i < j)
  <2> SUFFICES ASSUME i < j  PROVE FALSE
    OBVIOUS
  <2>1. /\ i \in from..to
        /\ \/ i = to
           \/ text[i + 1] # SP
        /\ \A k \in (i + 1)..to : IsText(text[k])
    BY DEF FoldedLine
  <2>2. j \in from..to /\ \A k \in from..j : IsBlank(text[k])  BY DEF FoldedLine
  <2>3. i # to /\ i + 1 \in (i + 1)..to /\ i + 1 \in from..j  BY <2>1, <2>2
  <2>4. text[i + 1] # SP /\ IsText(text[i + 1]) /\ IsBlank(text[i + 1])  BY <2>1, <2>2, <2>3
  <2> QED  BY <2>4, Classes
<1>3. ASSUME NEW i \in HeaderLine(text, from, to), NEW j \in FoldedLine(text, from, to)
      PROVE  FALSE
  <2>1. i \in (from + 1)..(to - 1) /\ \A k \in from..(i - 1) : IsToken(text[k])  BY DEF HeaderLine
  <2>2. j \in from..to /\ \A k \in from..j : IsBlank(text[k])  BY DEF FoldedLine
  <2>3. from \in from..(i - 1) /\ from \in from..j  BY <2>1, <2>2
  <2>4. IsToken(text[from]) /\ IsBlank(text[from])  BY <2>1, <2>2, <2>3
  <2> QED  BY <2>4, Classes
<1>4. HeaderLine(text, from, to) \subseteq Int /\ FoldedLine(text, from, to) \subseteq Int
  BY DEF HeaderLine, FoldedLine
<1>5. \A i, j \in HeaderLine(text, from, to) : i = j
  <2> SUFFICES ASSUME NEW i \in HeaderLine(text, from, to), NEW j \in HeaderLine(text, from, to)
               PROVE  i = j
    OBVIOUS
  <2>1. ~(i < j) /\ ~(j < i) /\ i \in Int /\ j \in Int  BY <1>1, <1>4
  <2> QED  BY <2>1
<1>6. \A i, j \in FoldedLine(text, from, to) : i = j
  <2> SUFFICES ASSUME NEW i \in FoldedLine(text, from, to), NEW j \in FoldedLine(text, from, to)
               PROVE  i = j
    OBVIOUS
  <2>1. ~(i < j) /\ ~(j < i) /\ i \in Int /\ j \in Int  BY <1>2, <1>4
  <2> QED  BY <2>1
<1> QED  BY <1>3, <1>5, <1>6

\* The lines of a text, as they are and while it grows by a character.
LEMMA LinesThen ==
    ASSUME NEW text, NEW more, Continues(more, text), Len(more) = Len(text) + 1,
           NEW from, Open(text, from)
    PROVE  /\ more[Len(text) + 1] # LF => Lines(more) = Lines(text)
           /\ more[Len(text) + 1] = LF =>
                Lines(more) = Lines(text) \cup {<<from, Len(text) + 1>>}
           /\ \A l \in Lines(text) :
                /\ l = <<l[1], l[2]>> /\ l[1] \in Nat \ {0} /\ l[2] \in 1..Len(text)
                /\ l[1] <= l[2] /\ l[2] < from
                /\ HeaderLine(more, l[1], l[2] - 2) = HeaderLine(text, l[1], l[2] - 2)
                /\ FoldedLine(more, l[1], l[2] - 2) = FoldedLine(text, l[1], l[2] - 2)
<1> DEFINE n == Len(text)
<1>1. text \in Seq(Alphabet) /\ more \in Seq(Alphabet) /\ n \in Nat /\ Len(more) = n + 1
  BY NewlinesAre DEF Continues
<1>2. \A l : l \in Lines(text) <=> l \in Lines(more) /\ l[2] <= n  BY EarlierLines
<1>3. ASSUME more[n + 1] # LF  PROVE Lines(more) = Lines(text)
  <2>1. Newlines(more) = Newlines(text)  BY <1>3, LineGoesOn
  <2>2. \A l \in Lines(more) : l[2] <= n
    <3> TAKE l \in Lines(more)
    <3>1. l = <<l[1], l[2]>>  BY <1>1, NewlinesAre
    <3>2. <<l[1], l[2]>> \in Lines(more)  BY <3>1, Zenon
    <3>3. l[2] \in Newlines(text)  BY <1>1, <2>1, <3>2, NewlinesAre
    <3>4. l[2] \in 1..n  BY <1>1, <3>3, NewlinesAre
    <3> QED  BY <1>1, <3>4
  <2> QED  BY <1>2, <2>2
<1>4. ASSUME more[n + 1] = LF  PROVE Lines(more) = Lines(text) \cup {<<from, n + 1>>}
  <2>1. /\ <<from, n + 1>> \in Lines(more)
        /\ \A l \in Lines(more) : l[2] <= n \/ l = <<from, n + 1>>
    BY <1>1, <1>4, LineEnds
  <2> QED  BY <1>2, <2>1
<1>5. ASSUME NEW l \in Lines(text)
      PROVE  /\ l = <<l[1], l[2]>> /\ l[1] \in Nat \ {0} /\ l[2] \in 1..n
             /\ l[1] <= l[2] /\ l[2] < from
             /\ HeaderLine(more, l[1], l[2] - 2) = HeaderLine(text, l[1], l[2] - 2)
             /\ FoldedLine(more, l[1], l[2] - 2) = FoldedLine(text, l[1], l[2] - 2)
  <2>1. l = <<l[1], l[2]>>  BY <1>1, NewlinesAre
  <2>2. <<l[1], l[2]>> \in Lines(text)  BY <2>1, Zenon
  <2>3. /\ l[1] = 1 \/ l[1] - 1 \in Newlines(text)
        /\ l[1] \in Int /\ l[2] \in Newlines(text) /\ l[1] <= l[2]
    BY <1>1, <2>2, NewlinesAre
  <2>4. l[1] \in Nat \ {0} /\ l[2] \in 1..n
    <3>1. l[1] - 1 \in Newlines(text) => l[1] - 1 \in 1..n  BY <1>1, NewlinesAre
    <3>2. l[2] \in 1..n  BY <1>1, <2>3, NewlinesAre
    <3> QED  BY <2>3, <3>1, <3>2
  <2>5. l[2] < from  BY <2>3 DEF Open
  <2>6. l[2] - 2 \in Int /\ l[2] - 2 <= n  BY <1>1, <2>4
  <2> QED  BY <2>1, <2>3, <2>4, <2>5, <2>6, SameLine
<1> QED  BY <1>3, <1>4, <1>5

\* Where the headers of a text begin.
LEMMA HeadsAre ==
    ASSUME NEW text \in Seq(Alphabet)
    PROVE  /\ \A head : head \in Heads(text) <=>
                \E end : /\ <<head, end>> \in Lines(text)
                         /\ 1 < head /\ HeaderLine(text, head, end - 2) # {}
           /\ Heads(text) \in SUBSET (1..Len(text))
           /\ \A head, e1, e2 : <<head, e1>> \in Lines(text) /\ <<head, e2>> \in Lines(text) => e1 = e2
<1>1. \A l \in Lines(text) : l = <<l[1], l[2]>>  BY NewlinesAre
<1>2. ASSUME NEW head
      PROVE  head \in Heads(text) <=>
                \E end : /\ <<head, end>> \in Lines(text)
                         /\ 1 < head /\ HeaderLine(text, head, end - 2) # {}
  <2>1. ASSUME head \in Heads(text)
        PROVE  \E end : /\ <<head, end>> \in Lines(text)
                        /\ 1 < head /\ HeaderLine(text, head, end - 2) # {}
    <3>1. PICK l \in Lines(text) : head = l[1] /\ 1 < l[1] /\ HeaderLine(text, l[1], l[2] - 2) # {}
      BY <2>1 DEF Heads
    <3>2. <<l[1], l[2]>> \in Lines(text)
      <4>1. l = <<l[1], l[2]>>  BY <1>1
      <4> QED  BY <4>1, Zenon
    <3> QED  BY <3>1, <3>2
  <2>2. ASSUME NEW end, <<head, end>> \in Lines(text), 1 < head, HeaderLine(text, head, end - 2) # {}
        PROVE  head \in Heads(text)
    <3> DEFINE l == <<head, end>>
               H == {m \in Lines(text) : 1 < m[1] /\ HeaderLine(text, m[1], m[2] - 2) # {}}
    <3>1. l[1] = head /\ l[2] = end /\ l \in Lines(text)  BY <2>2
    <3>2. l \in H  BY <2>2, <3>1
    <3>3. Heads(text) = {m[1] : m \in H}  BY DEF Heads
    <3> HIDE DEF l, H
    <3> QED  BY <3>1, <3>2, <3>3
  <2> QED  BY <2>1, <2>2
<1>3. ASSUME NEW head, NEW e1, NEW e2, <<head, e1>> \in Lines(text), <<head, e2>> \in Lines(text)
      PROVE  e1 = e2
  <2>1. /\ e1 \in Newlines(text) /\ head <= e1 /\ \A i \in Newlines(text) : head <= i => e1 <= i
        /\ e2 \in Newlines(text) /\ head <= e2 /\ \A i \in Newlines(text) : head <= i => e2 <= i
    BY <1>3, NewlinesAre
  <2>2. e1 \in Int /\ e2 \in Int
    <3>1. e1 \in 1..Len(text) /\ e2 \in 1..Len(text)  BY <2>1, NewlinesAre
    <3> QED  BY <3>1
  <2> QED  BY <2>1, <2>2
<1>4. Heads(text) \in SUBSET (1..Len(text))
  <2> SUFFICES ASSUME NEW head \in Heads(text)  PROVE head \in 1..Len(text)
    OBVIOUS
  <2>1. PICK end : <<head, end>> \in Lines(text) /\ 1 < head  BY <1>2
  <2>2. head \in Int /\ end \in Newlines(text) /\ head <= end  BY <2>1, NewlinesAre
  <2>3. end \in 1..Len(text)  BY <2>2, NewlinesAre
  <2>4. Len(text) \in Nat  BY NewlinesAre
  <2> QED  BY <2>1, <2>2, <2>3, <2>4
<1> QED  BY <1>2, <1>3, <1>4

\* Where what is folded into a header is.
FoldedAt(text, head) ==
    {x \in 1..Len(text) : \E l \in Folded(text, head) :
                          \E b \in FoldedLine(text, l[1], l[2] - 2) : b < x /\ x <= l[2] - 2}

\* A header whose name ends at i in the line that ends at end.
LEMMA HeaderIs ==
    ASSUME NEW text \in Seq(Alphabet), NEW head \in Nat \ {0}, NEW end,
           <<head, end>> \in Lines(text), NEW i \in HeaderLine(text, head, end - 2)
    PROVE  /\ Header(text, head) =
                [name  |-> SubSeq(text, head, i - 1),
                 value |-> Picked(text, ((i + 2)..(end - 2)) \cup FoldedAt(text, head))]
           /\ Header(text, head) \in HeaderRecs
           /\ end \in 1..Len(text) /\ i \in (head + 1)..(end - 3)
           /\ ((i + 2)..(end - 2)) \cup FoldedAt(text, head) \in SUBSET (1..Len(text))
<1> DEFINE n == Len(text)
           to == CHOOSE j \in 1..Len(text) : <<head, j + 2>> \in Lines(text)
           colon == CHOOSE j \in HeaderLine(text, head, to) : TRUE
           blanks(l) == CHOOSE j \in FoldedLine(text, l[1], l[2] - 2) : TRUE
           rests == UNION {(blanks(l) + 1)..(l[2] - 2) : l \in Folded(text, head)}
<1>1. n \in Nat  BY NewlinesAre
<1>2. end \in 1..n
  <2>1. end \in Newlines(text)  BY NewlinesAre
  <2> QED  BY <2>1, NewlinesAre
<1>3. i \in (head + 1)..(end - 3)
  <2>1. (end - 2) - 1 = end - 3  BY <1>2
  <2> QED  BY <2>1 DEF HeaderLine
<1>4. end - 2 \in 1..n /\ (end - 2) + 2 = end  BY <1>1, <1>2, <1>3
<1>5. to = end - 2
  <2>1. \A j \in 1..n : <<head, j + 2>> \in Lines(text) => j = end - 2
    <3> TAKE j \in 1..n
    <3>1. <<head, j + 2>> \in Lines(text) => j + 2 = end  BY HeadsAre
    <3> QED  BY <1>4, <3>1
  <2>2. <<head, (end - 2) + 2>> \in Lines(text)  BY <1>4
  <2> QED  BY <1>4, <2>1, <2>2
<1>6. colon = i
  <2>1. colon = CHOOSE j \in HeaderLine(text, head, end - 2) : TRUE  BY <1>5
  <2>2. \A j \in HeaderLine(text, head, end - 2) : j = i
    <3>1. head \in Int /\ end - 2 \in Int  BY <1>4
    <3> QED  BY <3>1, LinesAreClear
  <2> HIDE DEF colon
  <2> QED  BY <2>1, <2>2
<1>7. rests = FoldedAt(text, head)
  <2>1. ASSUME NEW l \in Folded(text, head)
        PROVE  /\ blanks(l) \in FoldedLine(text, l[1], l[2] - 2)
               /\ \A b \in FoldedLine(text, l[1], l[2] - 2) : b = blanks(l)
               /\ (blanks(l) + 1)..(l[2] - 2) \subseteq 1..n
               /\ blanks(l) \in Int /\ l[2] \in Int
    <3>1. l \in Lines(text) /\ FoldedLine(text, l[1], l[2] - 2) # {}  BY DEF Folded
    <3>2. l = <<l[1], l[2]>>  BY <3>1, NewlinesAre
    <3>3. <<l[1], l[2]>> \in Lines(text)  BY <3>1, <3>2, Zenon
    <3>4. l[1] \in Int /\ l[2] \in Newlines(text) /\ (l[1] = 1 \/ l[1] - 1 \in Newlines(text))
      BY <3>3, NewlinesAre
    <3>5. l[1] \in Nat \ {0} /\ l[2] \in 1..n
      <4>1. l[1] - 1 \in Newlines(text) => l[1] - 1 \in 1..n  BY NewlinesAre
      <4>2. l[2] \in 1..n  BY <3>4, NewlinesAre
      <4> QED  BY <3>4, <4>1, <4>2
    <3>6. blanks(l) \in FoldedLine(text, l[1], l[2] - 2)  BY <3>1
    <3>7. \A b \in FoldedLine(text, l[1], l[2] - 2) : b = blanks(l)
      <4>1. l[1] \in Int /\ l[2] - 2 \in Int  BY <3>5
      <4> HIDE DEF blanks
      <4> QED  BY <3>6, <4>1, LinesAreClear
    <3> HIDE DEF blanks
    <3>8. blanks(l) \in l[1]..(l[2] - 2)  BY <3>6 DEF FoldedLine
    <3> QED  BY <1>1, <3>5, <3>6, <3>7, <3>8
  <2> HIDE DEF blanks
  <2>2. \A x : x \in rests <=> \E l \in Folded(text, head) : x \in (blanks(l) + 1)..(l[2] - 2)
    OBVIOUS
  <2>3. \A l \in Folded(text, head) : \A x \in Int :
           x \in (blanks(l) + 1)..(l[2] - 2) <=> blanks(l) < x /\ x <= l[2] - 2
    BY <2>1
  <2>4. \A x : x \in FoldedAt(text, head) <=>
          /\ x \in 1..n
          /\ \E l \in Folded(text, head) : blanks(l) < x /\ x <= l[2] - 2
    BY <2>1 DEF FoldedAt
  <2>5. \A x \in 1..n : x \in Int  OBVIOUS
  <2> HIDE DEF rests, n
  <2>6. \A x : x \in rests <=> x \in FoldedAt(text, head)
    <3> TAKE x
    <3>1. ASSUME x \in rests  PROVE x \in FoldedAt(text, head)
      <4>1. PICK l \in Folded(text, head) : x \in (blanks(l) + 1)..(l[2] - 2)  BY <2>2, <3>1
      <4>2. x \in 1..n  BY <2>1, <4>1
      <4> QED  BY <2>3, <2>4, <2>5, <4>1, <4>2
    <3>2. ASSUME x \in FoldedAt(text, head)  PROVE x \in rests
      <4>1. x \in 1..n  BY <2>4, <3>2
      <4>2. PICK l \in Folded(text, head) : blanks(l) < x /\ x <= l[2] - 2  BY <2>4, <3>2
      <4> QED  BY <2>2, <2>3, <2>5, <4>1, <4>2
    <3> QED  BY <3>1, <3>2
  <2> QED  BY <2>6
<1>8. Header(text, head) = [name |-> SubSeq(text, head, colon - 1),
                            value |-> Picked(text, ((colon + 2)..to) \cup rests)]
  BY DEF Header
<1> DEFINE places == ((i + 2)..(end - 2)) \cup FoldedAt(text, head)
<1>9. places \in SUBSET (1..n)
  <2>1. FoldedAt(text, head) \in SUBSET (1..n)  BY DEF FoldedAt
  <2>2. (i + 2)..(end - 2) \in SUBSET (1..n)
    <3>1. \A x \in (i + 2)..(end - 2) : x \in 1..n  BY <1>1, <1>2, <1>3
    <3> QED  BY <3>1
  <2> QED  BY <2>1, <2>2
<1> HIDE DEF to, colon, rests
<1>10. Header(text, head) = [name  |-> SubSeq(text, head, i - 1), value |-> Picked(text, places)]
  BY <1>5, <1>6, <1>7, <1>8
<1>11. SubSeq(text, head, i - 1) \in Seq(Alphabet)
  <2>1. i - 1 \in Int /\ i - 1 <= n  BY <1>1, <1>2, <1>3
  <2> QED  BY <2>1, PartsOf
<1>12. Picked(text, places) \in Seq(Alphabet)
  <2>1. n + 1 \in Nat \ {0} /\ n \in Int /\ n <= n /\ \A j \in 1..n : j < n + 1  BY <1>1
  <2> HIDE DEF places
  <2>2. \A j \in places : j < n + 1  BY <1>9, <2>1
  <2> QED  BY <1>9, <2>1, <2>2, PickedOn
<1> QED  BY <1>2, <1>3, <1>9, <1>10, <1>11, <1>12 DEF HeaderRecs

\* A header with what is folded into it.
Longer(header, text) == [name |-> header.name, value |-> header.value \o text]

\* While a text grows by a character its headers are as they were, but the one the line
\* that ends is folded into, which goes on with what is after the blanks.
LEMMA HeaderGoesOn ==
    ASSUME NEW text, NEW more, Continues(more, text), Len(more) = Len(text) + 1,
           NEW from, Open(text, from), NEW head \in Heads(text)
    PROVE  /\ Folded(more, head) = Folded(text, head) => Header(more, head) = Header(text, head)
           /\ \A b \in FoldedLine(more, from, Len(text) - 1) :
                Folded(more, head) = Folded(text, head) \cup {<<from, Len(text) + 1>>} =>
                   Header(more, head) = Longer(Header(text, head), SubSeq(more, b + 1, Len(text) - 1))
<1> DEFINE n == Len(text)
<1>1. /\ text \in Seq(Alphabet) /\ more \in Seq(Alphabet) /\ n \in Nat /\ Len(more) = n + 1
      /\ from \in 1..(n + 1)
  BY NewlinesAre DEF Continues, Open
<1>2. PICK end : <<head, end>> \in Lines(text) /\ 1 < head /\ HeaderLine(text, head, end - 2) # {}
  BY <1>1, HeadsAre
<1>3. PICK i \in HeaderLine(text, head, end - 2) : TRUE  BY <1>2
<1>4. /\ head \in Nat \ {0} /\ end \in 1..n /\ end < from
      /\ HeaderLine(more, head, end - 2) = HeaderLine(text, head, end - 2)
  <2> DEFINE l == <<head, end>>
  <2>1. l[1] = head /\ l[2] = end /\ l \in Lines(text)  BY <1>2
  <2> HIDE DEF l
  <2> QED  BY <2>1, LinesThen
<1>5. <<head, end>> \in Lines(more)  BY <1>2, EarlierLines
<1> DEFINE start == (i + 2)..(end - 2)
           places == start \cup FoldedAt(text, head)
<1>6. /\ Header(text, head) = [name  |-> SubSeq(text, head, i - 1), value |-> Picked(text, places)]
      /\ i \in (head + 1)..(end - 3) /\ places \in SUBSET (1..n)
  BY <1>1, <1>2, <1>3, <1>4, HeaderIs
<1>7. Header(more, head) =
        [name  |-> SubSeq(more, head, i - 1), value |-> Picked(more, start \cup FoldedAt(more, head))]
  BY <1>1, <1>3, <1>4, <1>5, HeaderIs
<1>8. SubSeq(more, head, i - 1) = SubSeq(text, head, i - 1)
  <2>1. i - 1 \in Int /\ i - 1 <= n  BY <1>1, <1>4, <1>6
  <2> QED  BY <1>1, <1>4, <2>1, PartsOf
<1>9. \A l \in Folded(text, head) :
        /\ l[2] \in 1..n /\ l[2] < from
        /\ FoldedLine(more, l[1], l[2] - 2) = FoldedLine(text, l[1], l[2] - 2)
  <2>1. \A l \in Folded(text, head) : l \in Lines(text)  BY DEF Folded
  <2> QED  BY <2>1, LinesThen
<1> DEFINE In(x, l) == \E b \in FoldedLine(more, l[1], l[2] - 2) : b < x /\ x <= l[2] - 2
<1>10. \A x : x \in FoldedAt(text, head) <=> x \in 1..n /\ \E l \in Folded(text, head) : In(x, l)
  BY <1>9 DEF FoldedAt
<1>11. \A x : x \in FoldedAt(more, head) <=> x \in 1..(n + 1) /\ \E l \in Folded(more, head) : In(x, l)
  BY <1>1 DEF FoldedAt
<1>12. \A x \in 1..(n + 1), l \in Folded(text, head) : In(x, l) => x \in 1..n /\ x < from
  <2> TAKE x \in 1..(n + 1), l \in Folded(text, head)
  <2> SUFFICES ASSUME In(x, l)  PROVE x \in 1..n /\ x < from
    OBVIOUS
  <2>1. x <= l[2] - 2 /\ l[2] \in 1..n /\ l[2] < from  BY <1>9
  <2> QED  BY <1>1, <2>1
<1>13. \A x \in 1..n : x \in 1..(n + 1)  BY <1>1
<1>14. \A x \in places : x < from
  <2>1. \A x \in start : x < from  BY <1>1, <1>4, <1>6
  <2>2. \A x \in FoldedAt(text, head) : x < from
    <3> HIDE DEF In
    <3> QED  BY <1>10, <1>12, <1>13
  <2> QED  BY <2>1, <2>2
<1>15. Picked(more, places) = Picked(text, places)
  <2>1. n + 1 \in Nat \ {0} /\ n \in Int /\ n <= n /\ \A x \in 1..n : x < n + 1  BY <1>1
  <2> HIDE DEF places
  <2>2. \A x \in places : x < n + 1  BY <1>6, <2>1
  <2> QED  BY <1>1, <1>6, <2>1, <2>2, PickedOn
<1>16. ASSUME Folded(more, head) = Folded(text, head)
       PROVE  Header(more, head) = Header(text, head)
  <2>1. FoldedAt(more, head) = FoldedAt(text, head)
    <3> HIDE DEF In
    <3>1. \A x : x \in FoldedAt(more, head) <=> x \in FoldedAt(text, head)
      BY <1>10, <1>11, <1>12, <1>13, <1>16
    <3>2. FoldedAt(more, head) \subseteq FoldedAt(text, head) /\ FoldedAt(text, head) \subseteq FoldedAt(more, head)
      BY <3>1
    <3> QED  BY <3>2
  <2> QED  BY <1>6, <1>7, <1>8, <1>15, <2>1
<1>17. ASSUME NEW b \in FoldedLine(more, from, n - 1),
              Folded(more, head) = Folded(text, head) \cup {<<from, n + 1>>}
       PROVE  Header(more, head) = Longer(Header(text, head), SubSeq(more, b + 1, n - 1))
  <2> DEFINE new == <<from, n + 1>>
             rest == (b + 1)..(n - 1)
  <2>1. new[1] = from /\ new[2] - 2 = n - 1  BY <1>1
  <2>2. b \in from..(n - 1)  BY DEF FoldedLine
  <2>3. \A c \in FoldedLine(more, from, n - 1) : c = b
    <3>1. from \in Int /\ n - 1 \in Int  BY <1>1
    <3> QED  BY <3>1, LinesAreClear
  <2> HIDE DEF new
  <2>4. \A x \in 1..(n + 1) : In(x, new) <=> x \in rest
    <3>1. \A x \in 1..(n + 1) : In(x, new) <=> b < x /\ x <= n - 1  BY <2>1, <2>3
    <3>2. \A x \in 1..(n + 1) : b < x /\ x <= n - 1 <=> x \in rest  BY <1>1, <2>2
    <3> QED  BY <3>1, <3>2
  <2>5. \A x \in rest : x \in 1..n /\ x \in 1..(n + 1)  BY <1>1, <2>2
  <2>6. FoldedAt(more, head) = FoldedAt(text, head) \cup rest
    <3>1. \A l : l \in Folded(more, head) <=> l \in Folded(text, head) \/ l = new
      BY <1>17 DEF new
    <3> HIDE DEF In, rest
    <3>2. \A x : x \in FoldedAt(more, head) <=> x \in FoldedAt(text, head) \/ x \in rest
      BY <1>10, <1>11, <1>12, <1>13, <2>4, <2>5, <3>1
    <3>3. FoldedAt(more, head) \subseteq FoldedAt(text, head) \cup rest
          /\ FoldedAt(text, head) \cup rest \subseteq FoldedAt(more, head)
      BY <3>2
    <3> QED  BY <3>3
  <2>7. start \cup FoldedAt(more, head) = places \cup rest  BY <2>6
  <2>8. places \in SUBSET (1..n) /\ \A x \in places : x < from  BY <1>6, <1>14
  <2> DEFINE first == b + 1
             last == n - 1
  <2>9. /\ first \in Nat \ {0} /\ last \in Int /\ last <= Len(more) /\ from < first
        /\ \A x \in 1..n : x \in 1..Len(more)
    BY <1>1, <2>2
  <2> HIDE DEF places, start, first, last
  <2>10. \A x \in places : x < first
    <3> TAKE x \in places
    <3>1. x \in 1..n /\ x < from  BY <2>8
    <3> QED  BY <1>1, <2>9, <3>1
  <2>11. places \in SUBSET (1..Len(more))  BY <2>8, <2>9
  <2>12. Picked(more, places \cup (first..last)) = Picked(more, places) \o SubSeq(more, first, last)
    <3>1. more \in Seq(Alphabet) /\ last \in Int /\ last <= Len(more) /\ first \in Nat \ {0}
      BY <1>1, <2>9
    <3> QED  BY <2>10, <2>11, <3>1, PickedOn, ZenonT(40)
  <2>13. Picked(more, places \cup rest) = Picked(more, places) \o SubSeq(more, b + 1, n - 1)
    BY <2>12 DEF first, last
  <2> DEFINE s == SubSeq(text, head, i - 1)
             v == Picked(text, places)
             w == SubSeq(more, b + 1, n - 1)
             all == start \cup FoldedAt(more, head)
  <2>14. Header(more, head) = [name |-> s, value |-> v \o w]
    <3>1. Header(more, head) = [name |-> s, value |-> Picked(more, all)]  BY <1>7, <1>8
    <3>2. all = places \cup rest  BY <2>7
    <3> HIDE DEF rest, all
    <3>3. Picked(more, all) = v \o w  BY <1>15, <2>13, <3>2
    <3> QED  BY <3>1, <3>3
  <2>15. Header(text, head) = [name |-> s, value |-> v]  BY <1>6
  <2> HIDE DEF s, v, w
  <2>16. Header(more, head) = Longer(Header(text, head), w)  BY <2>14, <2>15 DEF Longer
  <2> QED  BY <2>16 DEF w
<1> QED  BY <1>16, <1>17

\* The headers of a text make a list of headers.
LEMMA HsIs ==
    ASSUME NEW text \in Seq(Alphabet)
    PROVE  /\ Hs(text) \in Seq(HeaderRecs) /\ Len(Hs(text)) = Cardinality(Heads(text))
           /\ Cardinality(Heads(text)) \in Nat
           /\ \A k \in 1..Cardinality(Heads(text)) :
                Hs(text)[k] = Header(text, Kth(Heads(text), k)) /\ Kth(Heads(text), k) \in Heads(text)
           /\ Hs(text) = <<>> <=> Heads(text) = {}
<1> DEFINE m == Cardinality(Heads(text))
<1>1. Heads(text) \in SUBSET (1..Len(text)) /\ Len(text) \in Nat  BY HeadsAre, NewlinesAre
<1>2. m \in Nat /\ IsFiniteSet(Heads(text))  BY <1>1, RanksGrow
<1>3. \A k \in 1..m : Kth(Heads(text), k) \in Heads(text)  BY <1>1, KthIs
<1>4. \A head \in Heads(text) : Header(text, head) \in HeaderRecs
  <2> TAKE head \in Heads(text)
  <2>1. PICK end : <<head, end>> \in Lines(text) /\ HeaderLine(text, head, end - 2) # {}
    BY HeadsAre
  <2>2. head \in Nat \ {0}  BY <1>1
  <2> QED  BY <2>1, <2>2, HeaderIs
<1>5. Heads(text) = {} <=> m = 0  BY <1>2, FS_EmptySet
<1>6. Hs(text) = [k \in 1..m |-> Header(text, Kth(Heads(text), k))]  BY DEF Hs
<1> HIDE DEF m
<1>7. Hs(text) \in Seq(HeaderRecs) /\ Len(Hs(text)) = m
  <2>1. \A k \in 1..m : Header(text, Kth(Heads(text), k)) \in HeaderRecs  BY <1>3, <1>4
  <2> QED  BY <1>2, <1>6, <2>1
<1>8. \A k \in 1..m : Hs(text)[k] = Header(text, Kth(Heads(text), k))  BY <1>6
<1>9. Hs(text) = <<>> <=> m = 0  BY <1>2, <1>7, EmptySeq
<1> QED  BY <1>2, <1>3, <1>5, <1>7, <1>8, <1>9 DEF m

\* Which headers there are, and which lines are folded into them, while a text grows.
LEMMA HeadsThen ==
    ASSUME NEW text, NEW more, Continues(more, text), Len(more) = Len(text) + 1,
           NEW from, Open(text, from)
    PROVE  LET n   == Len(text)
               new == <<from, n + 1>>
           IN  /\ more[n + 1] # LF =>
                     /\ Heads(more) = Heads(text)
                     /\ \A head : Folded(more, head) = Folded(text, head)
               /\ more[n + 1] = LF /\ (from = 1 \/ HeaderLine(more, from, n - 1) = {}) =>
                     Heads(more) = Heads(text)
               /\ more[n + 1] = LF /\ 1 < from /\ HeaderLine(more, from, n - 1) # {} =>
                     Heads(more) = Heads(text) \cup {from} /\ Folded(more, from) = {}
               /\ more[n + 1] = LF =>
                     \A head \in Heads(text) :
                        Folded(more, head) =
                           IF /\ FoldedLine(more, from, n - 1) # {}
                              /\ \A other \in Heads(text) : ~(head < other)
                           THEN Folded(text, head) \cup {new} ELSE Folded(text, head)
               /\ \A head \in Heads(text) : head < from
               /\ from = 1 => Heads(text) = {}
<1> DEFINE n == Len(text)
           new == <<from, n + 1>>
           H == HeaderLine(more, from, n - 1)
           F == FoldedLine(more, from, n - 1)
<1>1. /\ text \in Seq(Alphabet) /\ more \in Seq(Alphabet) /\ n \in Nat /\ Len(more) = n + 1
      /\ from \in 1..(n + 1) /\ (n + 1) - 2 = n - 1
  BY NewlinesAre DEF Continues, Open
<1>2. \A l \in Lines(text) :
        /\ l = <<l[1], l[2]>> /\ l[1] \in Nat \ {0} /\ l[2] \in 1..n
        /\ l[1] <= l[2] /\ l[2] < from
        /\ HeaderLine(more, l[1], l[2] - 2) = HeaderLine(text, l[1], l[2] - 2)
        /\ FoldedLine(more, l[1], l[2] - 2) = FoldedLine(text, l[1], l[2] - 2)
  BY LinesThen
<1>3. \A head \in Heads(text) : head \in Int /\ head < from
  <2> TAKE head \in Heads(text)
  <2>1. PICK l \in Lines(text) : head = l[1]  BY DEF Heads
  <2> QED  BY <1>1, <1>2, <2>1
<1>4. from = 1 => Heads(text) = {}
  <2>1. \A head \in Heads(text) : head \in 1..n /\ head < from  BY <1>1, <1>3, HeadsAre
  <2> QED  BY <2>1
<1>5. ASSUME more[n + 1] # LF
      PROVE  /\ Heads(more) = Heads(text)
             /\ \A head : Folded(more, head) = Folded(text, head)
  <2>1. Lines(more) = Lines(text)  BY <1>5, LinesThen
  <2>2. Heads(more) = Heads(text)  BY <1>2, <2>1 DEF Heads
  <2> QED  BY <1>2, <2>1, <2>2 DEF Folded
<1>6. /\ new[1] = from /\ new[2] = n + 1 /\ new[2] - 2 = n - 1
      /\ HeaderLine(more, new[1], new[2] - 2) = H /\ FoldedLine(more, new[1], new[2] - 2) = F
  BY <1>1
<1>7. more[n + 1] = LF => Lines(more) = Lines(text) \cup {new}  BY LinesThen
<1> HIDE DEF new, H, F, n
<1>8. \A h : h \in Heads(text) <=>
        \E l \in Lines(text) : h = l[1] /\ 1 < l[1] /\ HeaderLine(text, l[1], l[2] - 2) # {}
  BY DEF Heads
<1>9. \A h : h \in Heads(more) <=>
        \E l \in Lines(more) : h = l[1] /\ 1 < l[1] /\ HeaderLine(more, l[1], l[2] - 2) # {}
  BY DEF Heads
<1>10. ASSUME more[n + 1] = LF
       PROVE  \A h : h \in Heads(more) <=> h \in Heads(text) \/ (h = from /\ 1 < from /\ H # {})
  <2> TAKE h
  <2>1. Lines(more) = Lines(text) \cup {new}  BY <1>7, <1>10
  <2>2. ASSUME h \in Heads(more)  PROVE h \in Heads(text) \/ (h = from /\ 1 < from /\ H # {})
    <3>1. PICK l \in Lines(more) : h = l[1] /\ 1 < l[1] /\ HeaderLine(more, l[1], l[2] - 2) # {}
      BY <1>9, <2>2
    <3>2. CASE l \in Lines(text)
      <4>1. HeaderLine(more, l[1], l[2] - 2) = HeaderLine(text, l[1], l[2] - 2)  BY <1>2, <3>2
      <4> QED  BY <1>8, <3>1, <3>2, <4>1
    <3>3. CASE l = new
      BY <1>6, <3>1, <3>3
    <3> QED  BY <2>1, <3>2, <3>3
  <2>3. ASSUME h \in Heads(text)  PROVE h \in Heads(more)
    <3>1. PICK l \in Lines(text) : h = l[1] /\ 1 < l[1] /\ HeaderLine(text, l[1], l[2] - 2) # {}
      BY <1>8, <2>3
    <3>2. HeaderLine(more, l[1], l[2] - 2) = HeaderLine(text, l[1], l[2] - 2) /\ l \in Lines(more)
      BY <1>2, <2>1
    <3> QED  BY <1>9, <3>1, <3>2
  <2>4. ASSUME h = from, 1 < from, H # {}  PROVE h \in Heads(more)
    BY <1>6, <1>9, <2>1, <2>4
  <2> QED  BY <2>2, <2>3, <2>4
<1>11. ASSUME more[n + 1] = LF, from = 1 \/ H = {}  PROVE Heads(more) = Heads(text)
  <2>1. \A h : h \in Heads(more) <=> h \in Heads(text)  BY <1>10, <1>11
  <2> QED  BY <2>1, Zenon
<1>12. \A l, head : l \in Folded(text, head) <=>
          /\ l \in Lines(text) /\ head < l[1] /\ FoldedLine(text, l[1], l[2] - 2) # {}
          /\ \A other \in Heads(text) : ~(head < other /\ other < l[1])
  BY DEF Folded
<1>13. \A l, head : l \in Folded(more, head) <=>
          /\ l \in Lines(more) /\ head < l[1] /\ FoldedLine(more, l[1], l[2] - 2) # {}
          /\ \A other \in Heads(more) : ~(head < other /\ other < l[1])
  BY DEF Folded
<1>14. ASSUME more[n + 1] = LF, 1 < from, H # {}
       PROVE  Heads(more) = Heads(text) \cup {from} /\ Folded(more, from) = {}
  <2>1. \A h : h \in Heads(more) <=> h \in Heads(text) \cup {from}  BY <1>10, <1>14
  <2>2. Heads(more) = Heads(text) \cup {from}  BY <2>1, Zenon
  <2>3. \A l \in Lines(more) : ~(from < l[1])
    <3>1. \A l \in Lines(text) : ~(from < l[1])
      <4> TAKE l \in Lines(text)
      <4>1. l[1] \in Nat /\ l[2] \in Int /\ l[1] <= l[2] /\ l[2] < from  BY <1>2
      <4> QED  BY <1>1, <4>1
    <3>2. ~(from < new[1])  BY <1>1, <1>6
    <3> QED  BY <1>7, <1>14, <3>1, <3>2
  <2>4. \A l : l \notin Folded(more, from)  BY <1>13, <2>3
  <2> QED  BY <2>2, <2>4
<1>15. ASSUME more[n + 1] = LF, NEW head \in Heads(text)
       PROVE  Folded(more, head) =
                IF F # {} /\ \A other \in Heads(text) : ~(head < other)
                THEN Folded(text, head) \cup {new} ELSE Folded(text, head)
  <2>1. H = {} \/ F = {}
    <3>1. from \in Int /\ n - 1 \in Int  BY <1>1
    <3> QED  BY <3>1, LinesAreClear DEF H, F
  <2>2. ASSUME NEW l \in Lines(text)  PROVE l \in Folded(more, head) <=> l \in Folded(text, head)
    <3>1. ~(from < l[1])
      <4>1. l[1] \in Nat /\ l[2] \in Int /\ l[1] <= l[2] /\ l[2] < from  BY <1>2
      <4> QED  BY <1>1, <4>1
    <3>2. l \in Lines(more)  BY <1>7, <1>15
    <3>3. FoldedLine(more, l[1], l[2] - 2) = FoldedLine(text, l[1], l[2] - 2)  BY <1>2
    <3>4. (\A other \in Heads(more) : ~(head < other /\ other < l[1]))
            <=> (\A other \in Heads(text) : ~(head < other /\ other < l[1]))
      BY <1>10, <1>15, <3>1
    <3> QED  BY <1>12, <1>13, <3>2, <3>3, <3>4
  <2>3. new \in Folded(more, head) <=> F # {} /\ \A other \in Heads(text) : ~(head < other)
    <3>1. new \in Lines(more) /\ head < new[1] /\ \A other \in Heads(text) : other < new[1]
      BY <1>3, <1>6, <1>7, <1>15
    <3>2. F # {} => \A h : h \in Heads(more) <=> h \in Heads(text)  BY <1>10, <1>15, <2>1
    <3> QED  BY <1>6, <1>13, <3>1, <3>2
  <2>4. \A l \in Folded(more, head) : l \in Lines(text) \/ l = new  BY <1>7, <1>13, <1>15
  <2>5. \A l \in Folded(text, head) : l \in Lines(text)  BY <1>12
  <2>6. ASSUME F # {} /\ \A other \in Heads(text) : ~(head < other)
        PROVE  Folded(more, head) = Folded(text, head) \cup {new}
    <3>1. \A l : l \in Folded(more, head) <=> l \in Folded(text, head) \cup {new}
      BY <2>2, <2>3, <2>4, <2>5, <2>6
    <3> QED  BY <3>1, Zenon
  <2>7. ASSUME ~(F # {} /\ \A other \in Heads(text) : ~(head < other))
        PROVE  Folded(more, head) = Folded(text, head)
    <3>1. \A l : l \in Folded(more, head) <=> l \in Folded(text, head)
      BY <2>2, <2>3, <2>4, <2>5, <2>7
    <3> QED  BY <3>1, Zenon
  <2> QED  BY <2>6, <2>7
<1>16. \A head \in Heads(text) : head < from  BY <1>3
<1> QED  BY <1>4, <1>5, <1>11, <1>14, <1>15, <1>16 DEF n, new, H, F

\* The last of a set of positions is the one that none is after.
LEMMA KthIsLast ==
    ASSUME NEW n \in Nat, NEW S \in SUBSET (1..n), NEW k \in 1..Cardinality(S)
    PROVE  (\A other \in S : ~(Kth(S, k) < other)) <=> k = Cardinality(S)
<1> DEFINE m == Cardinality(S)
<1>1. m \in Nat  BY RanksGrow
<1>2. /\ \A j \in 1..m : Kth(S, j) \in S /\ Rank(S, Kth(S, j)) = j
      /\ \A i \in S : Rank(S, i) \in 1..m
      /\ \A i, j \in S : i < j => Rank(S, i) < Rank(S, j)
  BY KthIs
<1> HIDE DEF m
<1>3. ASSUME k = m, NEW other \in S  PROVE ~(Kth(S, k) < other)
  <2>1. k \in 1..m  BY <1>1 DEF m
  <2>2. Kth(S, k) < other => k < Rank(S, other)  BY <1>2, <2>1
  <2>3. Rank(S, other) \in 1..m  BY <1>2
  <2> QED  BY <1>1, <1>3, <2>2, <2>3
<1>4. ASSUME k # m  PROVE \E other \in S : Kth(S, k) < other
  <2> DEFINE a == Kth(S, k)
             b == Kth(S, m)
  <2>1. k \in 1..m /\ m \in 1..m /\ k < m  BY <1>1, <1>4 DEF m
  <2>2. a \in S /\ b \in S /\ Rank(S, a) = k /\ Rank(S, b) = m  BY <1>2, <2>1
  <2> HIDE DEF a, b
  <2>3. ~(b < a) /\ a # b  BY <1>2, <2>1, <2>2
  <2>4. a \in Int /\ b \in Int  BY <2>2
  <2>5. a < b  BY <2>3, <2>4
  <2> QED  BY <2>2, <2>5 DEF a
<1> QED  BY <1>3, <1>4 DEF m

\* Headers, the last of which goes on.
LastLonger(headers, text) ==
    [headers EXCEPT ![Len(headers)] = Longer(headers[Len(headers)], text)]

\* What a character does to the headers: the end of a line adds a header or what is
\* folded into the last.
LEMMA HsThen ==
    ASSUME NEW text, NEW more, Continues(more, text), Len(more) = Len(text) + 1,
           NEW from, Open(text, from)
    PROVE  LET n == Len(text)
           IN  /\ more[n + 1] # LF => Hs(more) = Hs(text)
               /\ more[n + 1] = LF /\ from = 1 => Hs(more) = <<>>
               /\ more[n + 1] = LF /\ 1 < from =>
                    /\ HeaderLine(more, from, n - 1) = {} /\ FoldedLine(more, from, n - 1) = {} =>
                         Hs(more) = Hs(text)
                    /\ \A i \in HeaderLine(more, from, n - 1) :
                         Hs(more) = Append(Hs(text), [name  |-> SubSeq(more, from, i - 1),
                                                      value |-> SubSeq(more, i + 2, n - 1)])
                    /\ \A b \in FoldedLine(more, from, n - 1) : Hs(text) # <<>> =>
                         Hs(more) = LastLonger(Hs(text), SubSeq(more, b + 1, n - 1))
<1> DEFINE n == Len(text)
           new == <<from, n + 1>>
           H == HeaderLine(more, from, n - 1)
           F == FoldedLine(more, from, n - 1)
           m == Cardinality(Heads(text))
<1>1. /\ text \in Seq(Alphabet) /\ more \in Seq(Alphabet) /\ n \in Nat /\ Len(more) = n + 1
      /\ from \in 1..(n + 1) /\ (n + 1) - 2 = n - 1
  BY NewlinesAre DEF Continues, Open
<1>2. /\ more[n + 1] # LF =>
            Heads(more) = Heads(text) /\ \A head : Folded(more, head) = Folded(text, head)
      /\ more[n + 1] = LF /\ (from = 1 \/ H = {}) => Heads(more) = Heads(text)
      /\ more[n + 1] = LF /\ 1 < from /\ H # {} =>
            Heads(more) = Heads(text) \cup {from} /\ Folded(more, from) = {}
      /\ more[n + 1] = LF =>
            \A head \in Heads(text) :
               Folded(more, head) = IF F # {} /\ \A other \in Heads(text) : ~(head < other)
                                    THEN Folded(text, head) \cup {new} ELSE Folded(text, head)
      /\ \A head \in Heads(text) : head < from
      /\ from = 1 => Heads(text) = {}
  BY HeadsThen
<1>3. /\ Hs(text) \in Seq(HeaderRecs) /\ Len(Hs(text)) = m /\ m \in Nat
      /\ \A k \in 1..m : Hs(text)[k] = Header(text, Kth(Heads(text), k)) /\ Kth(Heads(text), k) \in Heads(text)
      /\ Hs(text) = <<>> <=> Heads(text) = {}
  BY <1>1, HsIs
<1>4. /\ Hs(more) \in Seq(HeaderRecs) /\ Len(Hs(more)) = Cardinality(Heads(more))
      /\ \A k \in 1..Cardinality(Heads(more)) : Hs(more)[k] = Header(more, Kth(Heads(more), k))
      /\ Hs(more) = <<>> <=> Heads(more) = {}
  BY <1>1, HsIs
<1>5. \A head \in Heads(text) :
        /\ Folded(more, head) = Folded(text, head) => Header(more, head) = Header(text, head)
        /\ \A b \in F : Folded(more, head) = Folded(text, head) \cup {new} =>
             Header(more, head) = Longer(Header(text, head), SubSeq(more, b + 1, n - 1))
  BY HeaderGoesOn
<1>6. Heads(text) \in SUBSET (1..n)  BY <1>1, HeadsAre
<1> HIDE DEF new, H, F, n, m
<1>7. ASSUME Heads(more) = Heads(text), \A head \in Heads(text) : Folded(more, head) = Folded(text, head)
      PROVE  Hs(more) = Hs(text)
  <2>1. \A k \in 1..m : Hs(more)[k] = Hs(text)[k]
    <3> TAKE k \in 1..m
    <3> DEFINE head == Kth(Heads(text), k)
    <3>1. head \in Heads(text) /\ Hs(text)[k] = Header(text, head)  BY <1>3
    <3>2. Hs(more)[k] = Header(more, head)  BY <1>4, <1>7 DEF m
    <3> HIDE DEF head
    <3> QED  BY <1>5, <1>7, <3>1, <3>2
  <2>2. Len(Hs(more)) = m  BY <1>4, <1>7 DEF m
  <2> QED  BY <1>3, <1>4, <2>1, <2>2, SeqEqual
<1>8. more[n + 1] # LF => Hs(more) = Hs(text)
  BY <1>2, <1>7
<1>9. more[n + 1] = LF /\ from = 1 => Hs(more) = <<>>
  BY <1>2, <1>4
<1>10. ASSUME more[n + 1] = LF, 1 < from, H = {}, F = {}  PROVE Hs(more) = Hs(text)
  BY <1>2, <1>7, <1>10
<1>11. ASSUME more[n + 1] = LF, 1 < from, NEW i \in H
       PROVE  Hs(more) = Append(Hs(text), [name  |-> SubSeq(more, from, i - 1),
                                           value |-> SubSeq(more, i + 2, n - 1)])
  <2> DEFINE rec == [name  |-> SubSeq(more, from, i - 1), value |-> SubSeq(more, i + 2, n - 1)]
  <2>1. Heads(more) = Heads(text) \cup {from} /\ Folded(more, from) = {} /\ F = {}
    <3>1. H # {}  BY <1>11
    <3>2. from \in Int /\ n - 1 \in Int  BY <1>1
    <3>3. F = {}  BY <3>1, <3>2, LinesAreClear DEF H, F
    <3> QED  BY <1>2, <1>11, <3>1, <3>3
  <2>2. \A head \in Heads(text) : Folded(more, head) = Folded(text, head)  BY <1>2, <1>11, <2>1
  <2>3. Header(more, from) = rec /\ rec \in HeaderRecs
    <3>1. new \in Lines(more)
      <4>1. Lines(more) = Lines(text) \cup {new}  BY <1>11, LinesThen DEF n, new
      <4> QED  BY <4>1
    <3>2. from \in Nat \ {0} /\ i \in HeaderLine(more, from, (n + 1) - 2)  BY <1>1 DEF H
    <3>3. /\ Header(more, from) = [name  |-> SubSeq(more, from, i - 1),
                                   value |-> Picked(more, ((i + 2)..((n + 1) - 2)) \cup FoldedAt(more, from))]
          /\ Header(more, from) \in HeaderRecs
          /\ i \in (from + 1)..((n + 1) - 3)
      BY <1>1, <3>1, <3>2, HeaderIs DEF new
    <3>4. FoldedAt(more, from) = {}  BY <2>1 DEF FoldedAt
    <3>5. ((i + 2)..((n + 1) - 2)) \cup FoldedAt(more, from) = (i + 2)..(n - 1)  BY <1>1, <3>4
    <3>6. Picked(more, (i + 2)..(n - 1)) = SubSeq(more, i + 2, n - 1)
      <4>1. {} \in SUBSET (1..Len(more)) /\ i + 2 \in Nat \ {0} /\ n - 1 \in Int /\ n - 1 <= Len(more)
            /\ \A x \in {} : x < i + 2
        BY <1>1, <3>3
      <4>2. more \in Seq(Alphabet)  BY <1>1
      <4> DEFINE u == i + 2
                 v == n - 1
      <4>3. u \in Nat \ {0} /\ v \in Int /\ v <= Len(more) /\ \A x \in {} : x < u  BY <4>1
      <4> HIDE DEF u, v
      <4>4. Picked(more, u..v) = SubSeq(more, u, v)  BY <4>1, <4>2, <4>3, PickedOn, ZenonT(40)
      <4> QED  BY <4>4 DEF u, v
    <3>7. Header(more, from) = rec  BY <3>3, <3>5, <3>6
    <3> QED  BY <3>3, <3>7
  <2>4. /\ Cardinality(Heads(more)) = m + 1
        /\ \A k \in 1..m : Kth(Heads(more), k) = Kth(Heads(text), k)
        /\ Kth(Heads(more), m + 1) = from
    <3>1. n + 1 \in Nat /\ Heads(text) \in SUBSET (1..(n + 1)) /\ from \in 1..(n + 1)
      <4>1. \A x \in 1..n : x \in 1..(n + 1)  BY <1>1
      <4> QED  BY <1>1, <1>6, <4>1
    <3>2. \A x \in Heads(text) : x < from  BY <1>2
    <3> DEFINE S == Heads(text)
    <3>3. S \in SUBSET (1..(n + 1)) /\ \A x \in S : x < from  BY <3>1, <3>2
    <3> HIDE DEF S
    <3>4. /\ Cardinality(S \cup {from}) = Cardinality(S) + 1
          /\ \A k \in 1..Cardinality(S) : Kth(S \cup {from}, k) = Kth(S, k)
          /\ Kth(S \cup {from}, Cardinality(S) + 1) = from
      BY <3>1, <3>3, KthLast
    <3> QED  BY <2>1, <3>4 DEF m, S
  <2> HIDE DEF rec
  <2> DEFINE s == Append(Hs(text), rec)
  <2>5. /\ s \in Seq(HeaderRecs) /\ Len(s) = m + 1 /\ s[m + 1] = rec
        /\ \A k \in 1..m : s[k] = Hs(text)[k]
    BY <1>3, <2>3, AppendProperties
  <2> HIDE DEF s
  <2>6. \A k \in 1..(m + 1) : Hs(more)[k] = s[k]
    <3> TAKE k \in 1..(m + 1)
    <3>1. CASE k = m + 1
      BY <1>4, <2>3, <2>4, <2>5, <3>1
    <3>2. CASE k \in 1..m
      <4> DEFINE head == Kth(Heads(text), k)
      <4>1. head \in Heads(text) /\ Hs(text)[k] = Header(text, head)  BY <1>3, <3>2
      <4>2. Hs(more)[k] = Header(more, head)  BY <1>4, <2>4, <3>2
      <4> HIDE DEF head
      <4> QED  BY <1>5, <2>2, <2>5, <3>2, <4>1, <4>2
    <3>3. k = m + 1 \/ k \in 1..m  BY <1>3
    <3> QED  BY <3>1, <3>2, <3>3
  <2>7. Len(Hs(more)) = m + 1  BY <1>4, <2>4
  <2>8. Hs(more) = s  BY <1>4, <2>5, <2>6, <2>7, SeqEqual
  <2> QED  BY <2>8 DEF s, rec
<1>12. ASSUME more[n + 1] = LF, 1 < from, NEW b \in F, Hs(text) # <<>>
       PROVE  Hs(more) = LastLonger(Hs(text), SubSeq(more, b + 1, n - 1))
  <2> DEFINE w == SubSeq(more, b + 1, n - 1)
             hs == Hs(text)
             s == LastLonger(hs, w)
  <2>1. F # {} /\ H = {} /\ b \in Int
    <3>1. from \in Int /\ n - 1 \in Int  BY <1>1
    <3>2. F # {}  BY <1>12
    <3>3. H = {}  BY <3>1, <3>2, LinesAreClear DEF H, F
    <3>4. b \in from..(n - 1)  BY <1>12 DEF F, FoldedLine
    <3> QED  BY <3>2, <3>3, <3>4
  <2>2. Heads(more) = Heads(text)  BY <1>2, <1>12, <2>1
  <2>3. m \in 1..m
    <3>1. m # 0
      <4>1. Heads(text) # {} /\ IsFiniteSet(Heads(text))  BY <1>1, <1>3, <1>6, <1>12, RanksGrow
      <4> QED  BY <4>1, FS_EmptySet DEF m
    <3> QED  BY <1>3, <3>1
  <2>4. w \in Seq(Alphabet)
    <3>1. b \in from..(n - 1)  BY <1>12 DEF F, FoldedLine
    <3>2. b + 1 \in Nat \ {0} /\ n - 1 \in Int /\ n - 1 <= Len(more)  BY <1>1, <3>1
    <3> QED  BY <1>1, <3>2, PartsOf
  <2>5. /\ s \in Seq(HeaderRecs) /\ Len(s) = m
        /\ s[m] = Longer(hs[m], w)
        /\ \A k \in 1..m : k # m => s[k] = hs[k]
    <3> HIDE DEF w, hs, m
    <3>1. hs \in Seq(HeaderRecs) /\ Len(hs) = m /\ hs[m] \in HeaderRecs
      BY <1>3, <2>3, ElementOfSeq DEF hs
    <3>2. hs[m].value \o w \in Seq(Alphabet) /\ hs[m].name \in Seq(Alphabet)
      BY <2>4, <3>1, ConcatProperties DEF HeaderRecs
    <3> DEFINE rec == Longer(hs[m], w)
    <3>3. rec \in HeaderRecs  BY <3>1, <3>2 DEF Longer, HeaderRecs
    <3>4. s = [hs EXCEPT ![m] = rec]  BY <3>1 DEF LastLonger
    <3> HIDE DEF rec, s
    <3>5. s \in Seq(HeaderRecs) /\ Len(s) = m /\ s[m] = rec /\ \A k \in 1..m : k # m => s[k] = hs[k]
      BY <2>3, <3>1, <3>3, <3>4 DEF rec
    <3> QED  BY <3>5 DEF rec
  <2> HIDE DEF s
  <2>6. \A k \in 1..m : Hs(more)[k] = s[k]
    <3> TAKE k \in 1..m
    <3> DEFINE head == Kth(Heads(text), k)
    <3>1. head \in Heads(text) /\ hs[k] = Header(text, head)  BY <1>3
    <3>2. Hs(more)[k] = Header(more, head)  BY <1>4, <2>2 DEF m
    <3>3. (\A other \in Heads(text) : ~(head < other)) <=> k = m
      BY <1>1, <1>6, KthIsLast DEF m
    <3> HIDE DEF head, hs, w
    <3>4. CASE k = m
      <4>1. Folded(more, head) = Folded(text, head) \cup {new}  BY <1>2, <1>12, <2>1, <3>1, <3>3, <3>4
      <4>2. Header(more, head) = Longer(Header(text, head), w)
        BY <1>5, <1>12, <3>1, <4>1 DEF w
      <4> QED  BY <2>5, <3>1, <3>2, <3>4, <4>2
    <3>5. CASE k # m
      <4>1. Folded(more, head) = Folded(text, head)  BY <1>2, <1>12, <3>1, <3>3, <3>5
      <4> QED  BY <1>5, <2>5, <3>1, <3>2, <3>5, <4>1
    <3> QED  BY <3>4, <3>5
  <2>7. Len(Hs(more)) = m  BY <1>4, <2>2 DEF m
  <2>8. Hs(more) = s  BY <1>4, <2>5, <2>6, <2>7, SeqEqual
  <2> QED  BY <2>8 DEF s, hs, w
<1> QED  BY <1>8, <1>9, <1>10, <1>11, <1>12 DEF n, H, F

-----------------------------------------------------------------------------
(* The later lines, as they are kept.                                      *)

\* Headers, the last of which is another.
WithLast(headers, header) == [headers EXCEPT ![Len(headers)] = header]

\* A header whose name goes on.
LongerName(header, c) == [name |-> Append(header.name, c), value |-> header.value]

\* What is added to the last of a list of headers.
LEMMA LastGoesOn ==
    ASSUME NEW hs \in Seq(HeaderRecs), NEW rec \in HeaderRecs, NEW rec2 \in HeaderRecs
    PROVE  /\ Append(hs, rec) \in Seq(HeaderRecs)
           /\ Append(hs, rec)[Len(Append(hs, rec))] = rec
           /\ WithLast(Append(hs, rec), rec2) = Append(hs, rec2)
           /\ hs # <<>> =>
                /\ WithLast(hs, rec) \in Seq(HeaderRecs) /\ hs[Len(hs)] \in HeaderRecs
                /\ WithLast(hs, rec)[Len(WithLast(hs, rec))] = rec
                /\ WithLast(WithLast(hs, rec), rec2) = WithLast(hs, rec2)
                /\ WithLast(hs, hs[Len(hs)]) = hs
<1> DEFINE n == Len(hs)
<1>1. n \in Nat /\ DOMAIN hs = 1..n /\ \A i \in 1..n : hs[i] \in HeaderRecs
  BY LenProperties, ElementOfSeq
<1>2. ASSUME NEW s \in Seq(HeaderRecs), s # <<>>, NEW r \in HeaderRecs
      PROVE  /\ WithLast(s, r) \in Seq(HeaderRecs) /\ Len(WithLast(s, r)) = Len(s)
             /\ WithLast(s, r)[Len(s)] = r /\ Len(s) \in 1..Len(s)
             /\ \A i \in 1..Len(s) : i # Len(s) => WithLast(s, r)[i] = s[i]
  <2>1. Len(s) \in Nat /\ DOMAIN s = 1..Len(s) /\ Len(s) # 0  BY <1>2, LenProperties, EmptySeq
  <2>2. Len(s) \in 1..Len(s)  BY <2>1
  <2>3. [s EXCEPT ![Len(s)] = r] \in Seq(HeaderRecs)  BY <2>2, ExceptSeq
  <2>4. Len([s EXCEPT ![Len(s)] = r]) = Len(s)  BY <2>2, ExceptSeq
  <2>5. [s EXCEPT ![Len(s)] = r][Len(s)] = r  BY <2>1, <2>2
  <2>6. \A i \in 1..Len(s) : i # Len(s) => [s EXCEPT ![Len(s)] = r][i] = s[i]  BY <2>1
  <2> QED  BY <2>2, <2>3, <2>4, <2>5, <2>6 DEF WithLast
<1>3. ASSUME NEW r \in HeaderRecs
      PROVE  /\ Append(hs, r) \in Seq(HeaderRecs) /\ Len(Append(hs, r)) = n + 1
             /\ Append(hs, r)[n + 1] = r /\ \A i \in 1..n : Append(hs, r)[i] = hs[i]
             /\ Append(hs, r) # <<>>
  BY <1>3, AppendProperties
<1> HIDE DEF n
<1>4. Append(hs, rec)[Len(Append(hs, rec))] = rec  BY <1>3
<1>5. WithLast(Append(hs, rec), rec2) = Append(hs, rec2)
  <2> DEFINE s == Append(hs, rec)
             t == Append(hs, rec2)
             u == WithLast(s, rec2)
  <2>1. /\ s \in Seq(HeaderRecs) /\ Len(s) = n + 1 /\ s # <<>> /\ \A i \in 1..n : s[i] = hs[i]
        /\ t \in Seq(HeaderRecs) /\ Len(t) = n + 1 /\ t[n + 1] = rec2 /\ \A i \in 1..n : t[i] = hs[i]
    BY <1>3
  <2> HIDE DEF s, t
  <2>2. /\ u \in Seq(HeaderRecs) /\ Len(u) = n + 1 /\ u[n + 1] = rec2
        /\ \A i \in 1..(n + 1) : i # n + 1 => u[i] = s[i]
    <3>1. s \in Seq(HeaderRecs) /\ s # <<>> /\ rec2 \in HeaderRecs  BY <2>1
    <3>2. /\ u \in Seq(HeaderRecs) /\ Len(u) = Len(s) /\ u[Len(s)] = rec2
          /\ \A i \in 1..Len(s) : i # Len(s) => u[i] = s[i]
      BY <1>2, <3>1
    <3> QED  BY <2>1, <3>2
  <2> HIDE DEF u
  <2>3. \A i \in 1..(n + 1) : u[i] = t[i]
    <3>1. \A i \in 1..(n + 1) : i = n + 1 \/ (i \in 1..n /\ i # n + 1)  BY <1>1 DEF n
    <3> QED  BY <2>1, <2>2, <3>1
  <2>4. u = t  BY <2>1, <2>2, <2>3, SeqEqual
  <2> QED  BY <2>4 DEF s, t, u
<1>6. ASSUME hs # <<>>
      PROVE  /\ WithLast(hs, rec) \in Seq(HeaderRecs) /\ hs[Len(hs)] \in HeaderRecs
             /\ WithLast(hs, rec)[Len(WithLast(hs, rec))] = rec
             /\ WithLast(WithLast(hs, rec), rec2) = WithLast(hs, rec2)
             /\ WithLast(hs, hs[Len(hs)]) = hs
  <2> DEFINE last == hs[Len(hs)]
             s == WithLast(hs, rec)
             t == WithLast(hs, rec2)
             u == WithLast(s, rec2)
             v == WithLast(hs, last)
  <2>1. /\ s \in Seq(HeaderRecs) /\ Len(s) = Len(hs) /\ s[Len(hs)] = rec /\ Len(hs) \in 1..Len(hs)
        /\ \A i \in 1..Len(hs) : i # Len(hs) => s[i] = hs[i]
    BY <1>2, <1>6
  <2>2. /\ t \in Seq(HeaderRecs) /\ Len(t) = Len(hs) /\ t[Len(hs)] = rec2
        /\ \A i \in 1..Len(hs) : i # Len(hs) => t[i] = hs[i]
    BY <1>2, <1>6
  <2>3. last \in HeaderRecs  BY <1>1, <2>1 DEF n
  <2> HIDE DEF last
  <2>4. /\ v \in Seq(HeaderRecs) /\ Len(v) = Len(hs) /\ v[Len(hs)] = last
        /\ \A i \in 1..Len(hs) : i # Len(hs) => v[i] = hs[i]
    BY <1>2, <1>6, <2>3
  <2> HIDE DEF s, t
  <2>5. s # <<>>  BY <2>1, EmptySeq
  <2>6. /\ u \in Seq(HeaderRecs) /\ Len(u) = Len(hs) /\ u[Len(hs)] = rec2
        /\ \A i \in 1..Len(hs) : i # Len(hs) => u[i] = s[i]
    <3>1. s \in Seq(HeaderRecs) /\ s # <<>> /\ rec2 \in HeaderRecs  BY <2>1, <2>5
    <3>2. /\ u \in Seq(HeaderRecs) /\ Len(u) = Len(s) /\ u[Len(s)] = rec2
          /\ \A i \in 1..Len(s) : i # Len(s) => u[i] = s[i]
      BY <1>2, <3>1
    <3> QED  BY <2>1, <3>2
  <2> HIDE DEF u, v
  <2>7. u = t
    <3>1. \A i \in 1..Len(hs) : u[i] = t[i]  BY <2>1, <2>2, <2>6
    <3> QED  BY <2>2, <2>6, <3>1, SeqEqual
  <2>8. v = hs
    <3>1. \A i \in 1..Len(hs) : v[i] = hs[i]  BY <2>4 DEF last
    <3> QED  BY <2>4, <3>1, SeqEqual
  <2> QED  BY <2>1, <2>3, <2>7, <2>8 DEF s, t, u, v, last
<1> QED  BY <1>3, <1>4, <1>5, <1>6

\* What a character of a later line adds to the request: a header, a character of the
\* name or the value of the last, or nothing.
AddsLast(r, st, to, c, kept) ==
    /\ kept.method = r.method /\ kept.uri = r.uri
    /\ kept.major = r.major /\ kept.minor = r.minor
    /\ to = "header_name" /\ st # "header_name" =>
         kept.headers = Append(r.headers, [name |-> <<c>>, value |-> <<>>])
    /\ to = "header_name" /\ st = "header_name" =>
         kept.headers = WithLast(r.headers, LongerName(r.headers[Len(r.headers)], c))
    /\ to = "header_value" /\ st \in {"header_value", "header_lws"} =>
         kept.headers = LastLonger(r.headers, <<c>>)
    /\ to \notin {"header_name", "header_value"}
       \/ (to = "header_value" /\ st = "space_before_header_value") =>
         kept.headers = r.headers

\* consume, in the states of a later line: what of the request each of them changes.
LEMMA KeptLast ==
    ASSUME NEW r \in Requests, NEW st \in States \ FirstStates, NEW c \in Alphabet,
           st \in InHeader => r.headers # <<>>,
           NEW to, to \notin FirstStates
    PROVE  AddsLast(r, st, to, c, Kept(r, st, to, c))
<1> DEFINE kept == Kept(r, st, to, c)
<1> DEFINE hs == r.headers
           n == Len(hs)
<1>1. /\ r = [method |-> r.method, uri |-> r.uri, major |-> r.major, minor |-> r.minor, headers |-> hs]
      /\ hs \in Seq(HeaderRecs)
  BY DEF Requests
<1>2. st # "uri" /\ to \notin {"method", "http_version_major_start", "http_version_major", "http_version_minor"}
  BY DEF FirstStates, MethodOrUri, Version
<1> DEFINE With(q) == [r EXCEPT !.headers = q]
<1> HIDE DEF kept
<1> SUFFICES AddsLast(r, st, to, c, kept)
  BY DEF kept
<1> USE DEF AddsLast
<1>3. \A q : /\ With(q).method = r.method /\ With(q).uri = r.uri
             /\ With(q).major = r.major /\ With(q).minor = r.minor /\ With(q).headers = q
  BY <1>1
<1>4. CASE to = "header_name" /\ st # "header_name"
  <2>1. kept = With(Append(hs, [name |-> <<c>>, value |-> <<>>]))  BY <1>2, <1>4 DEF Kept, kept
  <2> HIDE DEF With
  <2> QED  BY <1>3, <1>4, <2>1
<1>5. CASE to = "header_name" /\ st = "header_name"
  <2> DEFINE q == [hs EXCEPT ![n].name = Append(@, c)]
  <2>1. kept = With(q)  BY <1>1, <1>2, <1>5 DEF Kept, kept
  <2>2. q = WithLast(hs, LongerName(hs[n], c))
    <3>1. hs # <<>>  BY <1>5 DEF InHeader
    <3>2. hs[n] \in HeaderRecs  BY <1>1, <3>1, LastGoesOn
    <3>3. [hs[n] EXCEPT !.name = Append(@, c)] = LongerName(hs[n], c)
      <4> DEFINE h == hs[n]
      <4>1. h = [name |-> h.name, value |-> h.value]  BY <3>2 DEF HeaderRecs
      <4> HIDE DEF h
      <4>2. [h EXCEPT !.name = Append(@, c)] = LongerName(h, c)  BY <4>1 DEF LongerName
      <4> QED  BY <4>2 DEF h
    <3>4. q = [hs EXCEPT ![n] = [hs[n] EXCEPT !.name = Append(@, c)]]  OBVIOUS
    <3> QED  BY <3>3, <3>4 DEF WithLast
  <2> HIDE DEF With, q
  <2> QED  BY <1>3, <1>5, <2>1, <2>2
<1>6. CASE to = "header_value" /\ st # "space_before_header_value"
  <2> DEFINE q == [hs EXCEPT ![n].value = Append(@, c)]
  <2>1. kept = With(q)  BY <1>1, <1>2, <1>6 DEF Kept, kept
  <2>2. st \in InHeader => q = LastLonger(hs, <<c>>)
    <3> SUFFICES ASSUME st \in InHeader  PROVE q = LastLonger(hs, <<c>>)
      OBVIOUS
    <3>1. hs # <<>>  OBVIOUS
    <3>2. hs[n] \in HeaderRecs  BY <1>1, <3>1, LastGoesOn
    <3>3. Append(hs[n].value, c) = hs[n].value \o <<c>>
      <4>1. hs[n].value \in Seq(Alphabet)  BY <3>2 DEF HeaderRecs
      <4> QED  BY <4>1, AppendIsConcat
    <3>4. [hs[n] EXCEPT !.value = Append(@, c)] = Longer(hs[n], <<c>>)
      <4> DEFINE h == hs[n]
      <4>1. h = [name |-> h.name, value |-> h.value]  BY <3>2 DEF HeaderRecs
      <4>2. Append(h.value, c) = h.value \o <<c>>  BY <3>3
      <4> HIDE DEF h
      <4>3. Longer(h, <<c>>) = [name |-> h.name, value |-> Append(h.value, c)]  BY <4>2 DEF Longer
      <4>4. [h EXCEPT !.value = Append(@, c)] = [name |-> h.name, value |-> Append(h.value, c)]
        BY <4>1
      <4> QED  BY <4>3, <4>4 DEF h
    <3>5. q = [hs EXCEPT ![n] = [hs[n] EXCEPT !.value = Append(@, c)]]  OBVIOUS
    <3> QED  BY <3>4, <3>5 DEF LastLonger
  <2>3. st \in {"header_value", "header_lws"} => st \in InHeader  BY DEF InHeader
  <2> HIDE DEF With, q
  <2> QED  BY <1>3, <1>6, <2>1, <2>2, <2>3
<1>7. CASE to \notin {"header_name", "header_value"} \/ (to = "header_value" /\ st = "space_before_header_value")
  <2>1. kept = r  BY <1>2, <1>7 DEF Kept, kept
  <2> QED  BY <1>7, <2>1
<1> QED  BY <1>4, <1>5, <1>6, <1>7

\* The headers of a text and what the line after them has begun, its name before i and
\* its value to before end, or has added to the last of them after its blanks.
Begun(text, from, i, end) ==
    Append(Hs(text), [name |-> Span(text, from, i), value |-> Span(text, i + 2, end)])
GoneOn(text, i, end) == LastLonger(Hs(text), Span(text, i + 1, end))

\* What is added to the value of the last of the headers, at once or in two parts.
LEMMA ValueGoesOn ==
    ASSUME NEW hs \in Seq(HeaderRecs), NEW rec \in HeaderRecs,
           NEW v \in Seq(Alphabet), NEW w \in Seq(Alphabet)
    PROVE  /\ LastLonger(Append(hs, rec), w) = Append(hs, Longer(rec, w))
           /\ hs # <<>> => /\ LastLonger(LastLonger(hs, v), w) = LastLonger(hs, v \o w)
                           /\ LastLonger(hs, <<>>) = hs
<1> DEFINE rec2 == Longer(rec, w)
<1>1. v \o w \in Seq(Alphabet) /\ rec2 \in HeaderRecs
  <2>1. v \o w \in Seq(Alphabet)  BY ConcatProperties
  <2>2. rec.name \in Seq(Alphabet) /\ rec.value \in Seq(Alphabet)  BY DEF HeaderRecs
  <2>3. rec.value \o w \in Seq(Alphabet)  BY <2>2, ConcatProperties
  <2> QED  BY <2>1, <2>2, <2>3 DEF HeaderRecs, Longer
<1>2. Longer(rec, w) = rec2  OBVIOUS
<1> HIDE DEF rec2
<1>3. LastLonger(Append(hs, rec), w) = Append(hs, rec2)
  <2> DEFINE s == Append(hs, rec)
  <2>1. s[Len(s)] = rec /\ WithLast(s, rec2) = Append(hs, rec2)  BY <1>1, LastGoesOn
  <2>2. LastLonger(s, w) = WithLast(s, Longer(s[Len(s)], w))  BY DEF LastLonger, WithLast
  <2> HIDE DEF s
  <2> QED  BY <1>2, <2>1, <2>2 DEF s
<1>4. ASSUME hs # <<>>
      PROVE  LastLonger(LastLonger(hs, v), w) = LastLonger(hs, v \o w) /\ LastLonger(hs, <<>>) = hs
  <2> DEFINE last == hs[Len(hs)]
             one == Longer(last, v)
             two == Longer(last, v \o w)
             s == WithLast(hs, one)
  <2>1. last \in HeaderRecs /\ WithLast(hs, last) = hs  BY <1>1, <1>4, LastGoesOn
  <2> HIDE DEF last
  <2>2. /\ last.name \in Seq(Alphabet) /\ last.value \in Seq(Alphabet)
        /\ last = [name |-> last.name, value |-> last.value]
    BY <2>1 DEF HeaderRecs
  <2> DEFINE lv == last.value
             ln == last.name
  <2>3. lv \in Seq(Alphabet) /\ ln \in Seq(Alphabet) /\ last = [name |-> ln, value |-> lv]  BY <2>2
  <2>4. /\ one = [name |-> ln, value |-> lv \o v] /\ two = [name |-> ln, value |-> lv \o (v \o w)]
        /\ Longer(last, <<>>) = [name |-> ln, value |-> lv \o <<>>]
    BY DEF Longer
  <2> HIDE DEF lv, ln, one, two
  <2>5. /\ lv \o v \in Seq(Alphabet) /\ lv \o (v \o w) \in Seq(Alphabet)
        /\ (lv \o v) \o w = lv \o (v \o w) /\ lv \o <<>> = lv
    <3>1. lv \o v \in Seq(Alphabet)  BY <2>3, ConcatProperties
    <3>2. lv \o (v \o w) \in Seq(Alphabet)
      <4> DEFINE x == v \o w
      <4>1. x \in Seq(Alphabet)  BY <1>1
      <4> HIDE DEF x
      <4>2. lv \o x \in Seq(Alphabet)  BY <2>3, <4>1, ConcatProperties
      <4> QED  BY <4>2 DEF x
    <3>3. (lv \o v) \o w = lv \o (v \o w)
      <4>1. v \in Seq(Alphabet) /\ w \in Seq(Alphabet)  BY <1>1
      <4> QED  BY <2>3, <4>1, TextsJoin
    <3>4. lv \o <<>> = lv  BY <2>3, ConcatEmptySeq
    <3> QED  BY <3>1, <3>2, <3>3, <3>4
  <2>6. one \in HeaderRecs /\ two \in HeaderRecs  BY <2>3, <2>4, <2>5 DEF HeaderRecs
  <2>7. Longer(one, w) = two
    <3>1. Longer(one, w) = [name |-> ln, value |-> (lv \o v) \o w]  BY <2>4 DEF Longer
    <3> QED  BY <2>4, <2>5, <3>1
  <2>8. Longer(last, <<>>) = last  BY <2>3, <2>4, <2>5
  <2>9. s[Len(s)] = one /\ WithLast(s, two) = WithLast(hs, two)  BY <1>4, <2>6, LastGoesOn
  <2>10. /\ LastLonger(hs, v) = s /\ LastLonger(hs, v \o w) = WithLast(hs, two)
         /\ LastLonger(hs, <<>>) = WithLast(hs, Longer(last, <<>>))
    BY DEF LastLonger, WithLast, last, one, two
  <2>11. LastLonger(s, w) = WithLast(s, Longer(s[Len(s)], w))  BY DEF LastLonger, WithLast
  <2> HIDE DEF s
  <2>12. LastLonger(s, w) = WithLast(s, two)  BY <2>7, <2>9, <2>11
  <2> QED  BY <2>1, <2>8, <2>9, <2>10, <2>12
<1> QED  BY <1>3, <1>4 DEF rec2

\* A character that is added to a value is where the longer text has it.
ValueAdds(text, more, from, c) ==
    LET n == Len(text)
    IN  /\ \A i \in 1..(n - 1) :
             LastLonger(Begun(text, from, i, n + 1), <<c>>) = Begun(more, from, i, n + 2)
        /\ Hs(text) # <<>> => \A i \in 1..n :
             /\ LastLonger(GoneOn(text, i, n + 1), <<c>>) = GoneOn(more, i, n + 2)
             /\ GoneOn(text, i, i + 1) = Hs(text)

\* What is read of a line while a text grows by a character that ends none.
LEMMA LineKept ==
    ASSUME NEW text, NEW more, Continues(more, text), Len(more) = Len(text) + 1,
           NEW c, c = more[Len(text) + 1], c # LF,
           NEW from \in 1..(Len(text) + 1), Open(text, from)
    PROVE  LET n == Len(text)
           IN  /\ Hs(more) = Hs(text)
               /\ \A i, end \in 1..(n + 1) :
                    Begun(more, from, i, end) = Begun(text, from, i, end)
                    /\ GoneOn(more, i, end) = GoneOn(text, i, end)
               /\ Append(Hs(text), [name |-> <<c>>, value |-> <<>>]) = Begun(more, n + 1, n + 2, n + 2)
               /\ LET hs == Begun(text, from, n + 1, n + 1)
                  IN  WithLast(hs, LongerName(hs[Len(hs)], c)) = Begun(more, from, n + 2, n + 2)
               /\ Begun(text, from, n + 1, n + 1) = Begun(more, from, n + 1, n + 2)
               /\ Begun(text, from, n, n + 1) = Begun(more, from, n, n + 2)
               /\ ValueAdds(text, more, from, c)
<1> DEFINE n == Len(text)
           H == Hs(text)
<1>1. text \in Seq(Alphabet) /\ more \in Seq(Alphabet) /\ n \in Nat /\ Len(more) = n + 1
      /\ from \in 1..(n + 1) /\ from \in Nat \ {0} /\ from <= n + 1
  BY NewlinesAre DEF Continues
<1>2. Hs(more) = H  BY HsThen
<1>3. H \in Seq(HeaderRecs)  BY <1>1, HsIs
<1>4. c \in Alphabet /\ <<c>> \in Seq(Alphabet)
  <2>1. n + 1 \in 1..Len(more)  BY <1>1
  <2>2. c \in Alphabet  BY <1>1, <2>1, NewlinesAre
  <2> QED  BY <2>2
<1>5. ASSUME NEW a \in Nat \ {0}, NEW b \in Int, b <= n + 1
      PROVE  /\ Span(text, a, b) \in Seq(Alphabet) /\ Span(more, a, b) = Span(text, a, b)
             /\ b <= a => Span(text, a, b) = <<>>
  BY <1>5, SpanGrows
<1>6. ASSUME NEW a \in Nat \ {0}, a <= n + 1
      PROVE  /\ Span(more, a, n + 2) = Append(Span(text, a, n + 1), c)
             /\ Span(more, a, n + 2) = Span(text, a, n + 1) \o <<c>>
             /\ Span(text, a, n + 1) \in Seq(Alphabet)
  <2>1. n + 1 \in Int /\ n + 1 <= Len(text) + 1  BY <1>1
  <2>2. Span(more, a, n + 2) = Append(Span(text, a, n + 1), c)  BY <1>6, <2>1, SpanGrows
  <2>3. Span(text, a, n + 1) \in Seq(Alphabet)  BY <2>1, <1>5
  <2> QED  BY <1>4, <2>2, <2>3, AppendIsConcat
<1>7. ASSUME NEW a \in Nat \ {0}, n + 2 <= a  PROVE Span(more, a, n + 2) = <<>>
  <2>1. (n + 2) - 1 < a /\ (n + 2) - 1 \in Int  BY <1>1, <1>7
  <2> QED  BY <2>1, SubSeqEmpty DEF Span
<1> HIDE DEF n, H
<1>8. ASSUME NEW i \in 1..(n + 1), NEW end \in 1..(n + 1)
      PROVE  Begun(more, from, i, end) = Begun(text, from, i, end)
             /\ GoneOn(more, i, end) = GoneOn(text, i, end)
  <2>1. i \in Int /\ i <= n + 1 /\ end \in Int /\ end <= n + 1 /\ i + 1 \in Nat \ {0} /\ i + 2 \in Nat \ {0}
    BY <1>1
  <2>2. Span(more, from, i) = Span(text, from, i)  BY <1>1, <1>5, <2>1
  <2>3. Span(more, i + 2, end) = Span(text, i + 2, end)  BY <1>5, <2>1
  <2>4. Span(more, i + 1, end) = Span(text, i + 1, end)  BY <1>5, <2>1
  <2> QED  BY <1>2, <2>2, <2>3, <2>4 DEF Begun, GoneOn, H
<1>9. Append(H, [name |-> <<c>>, value |-> <<>>]) = Begun(more, n + 1, n + 2, n + 2)
  <2>1. n + 1 \in Nat \ {0} /\ n + 1 <= n + 1 /\ n + 1 \in Int  BY <1>1
  <2>2. Span(text, n + 1, n + 1) = <<>>  BY <1>5, <2>1
  <2>3. Span(more, n + 1, n + 2) = Append(<<>>, c)  BY <1>6, <2>1, <2>2
  <2>4. Append(<<>>, c) = <<c>>  OBVIOUS
  <2>5. Span(more, n + 2 + 2, n + 2) = <<>>
    <3>1. n + 2 + 2 \in Nat \ {0} /\ n + 2 <= n + 2 + 2  BY <1>1
    <3> QED  BY <1>7, <3>1
  <2> QED  BY <1>2, <2>3, <2>4, <2>5 DEF Begun
<1>10. Span(text, n + 1 + 2, n + 1) = <<>> /\ Span(more, n + 1 + 2, n + 2) = <<>>
       /\ Span(more, n + 2 + 2, n + 2) = <<>> /\ Span(more, n + 2, n + 2) = <<>>
       /\ Span(text, n + 2, n + 1) = <<>>
  <2>1. n + 1 + 2 \in Nat \ {0} /\ n + 2 <= n + 1 + 2 /\ n + 1 <= n + 1 + 2 /\ n + 1 <= n + 1
        /\ n + 1 \in Int /\ n + 2 + 2 \in Nat \ {0} /\ n + 2 <= n + 2 + 2
        /\ n + 2 \in Nat \ {0} /\ n + 2 <= n + 2 /\ n + 1 <= n + 2
    BY <1>1
  <2>2. Span(text, n + 1 + 2, n + 1) = <<>>  BY <1>5, <2>1
  <2>3. Span(text, n + 2, n + 1) = <<>>  BY <1>5, <2>1
  <2>4. Span(more, n + 1 + 2, n + 2) = <<>>  BY <1>7, <2>1
  <2>5. Span(more, n + 2 + 2, n + 2) = <<>>  BY <1>7, <2>1
  <2>6. Span(more, n + 2, n + 2) = <<>>  BY <1>7, <2>1
  <2> QED  BY <2>2, <2>3, <2>4, <2>5, <2>6
<1>11. LET hs == Begun(text, from, n + 1, n + 1)
       IN  WithLast(hs, LongerName(hs[Len(hs)], c)) = Begun(more, from, n + 2, n + 2)
  <2> DEFINE name == Span(text, from, n + 1)
             rec == [name |-> name, value |-> <<>>]
             rec2 == [name |-> Append(name, c), value |-> <<>>]
             hs == Append(H, rec)
  <2>1. Begun(text, from, n + 1, n + 1) = hs  BY <1>10 DEF Begun, H
  <2>2. Begun(more, from, n + 2, n + 2) = Append(H, rec2)
    <3>1. Span(more, from, n + 2) = Append(name, c)  BY <1>1, <1>6
    <3> QED  BY <1>2, <1>10, <3>1 DEF Begun
  <2>3. name \in Seq(Alphabet)  BY <1>1, <1>6
  <2> HIDE DEF name
  <2>4. Append(name, c) \in Seq(Alphabet) /\ <<>> \in Seq(Alphabet)  BY <1>4, <2>3, AppendProperties
  <2>5. rec \in HeaderRecs /\ rec2 \in HeaderRecs  BY <2>3, <2>4 DEF HeaderRecs
  <2>6. LongerName(rec, c) = rec2  BY DEF LongerName
  <2> HIDE DEF rec, rec2
  <2>7. hs[Len(hs)] = rec /\ WithLast(hs, rec2) = Append(H, rec2)  BY <1>3, <2>5, LastGoesOn
  <2> QED  BY <2>1, <2>2, <2>6, <2>7
<1>12. Begun(text, from, n + 1, n + 1) = Begun(more, from, n + 1, n + 2)
  <2>1. Span(more, from, n + 1) = Span(text, from, n + 1)
    <3>1. n + 1 \in Int /\ n + 1 <= n + 1  BY <1>1
    <3> QED  BY <1>1, <1>5, <3>1
  <2> QED  BY <1>2, <1>10, <2>1 DEF Begun, H
<1>13. Begun(text, from, n, n + 1) = Begun(more, from, n, n + 2)
  <2>1. Span(more, from, n) = Span(text, from, n)
    <3>1. n \in Int /\ n <= n + 1  BY <1>1
    <3> QED  BY <1>1, <1>5, <3>1
  <2> QED  BY <1>2, <1>10, <2>1 DEF Begun, H
<1>14. ASSUME NEW i \in 1..(n - 1)
       PROVE  LastLonger(Begun(text, from, i, n + 1), <<c>>) = Begun(more, from, i, n + 2)
  <2> DEFINE name == Span(text, from, i)
             v == Span(text, i + 2, n + 1)
  <2>1. i \in Int /\ i <= n + 1 /\ i + 2 \in Nat \ {0} /\ i + 2 <= n + 1  BY <1>1
  <2>2. name \in Seq(Alphabet) /\ Span(more, from, i) = name  BY <1>1, <1>5, <2>1
  <2>3. v \in Seq(Alphabet) /\ Span(more, i + 2, n + 2) = v \o <<c>>  BY <1>6, <2>1
  <2> HIDE DEF name, v
  <2>4. LastLonger(Append(H, [name |-> name, value |-> v]), <<c>>)
          = Append(H, [name |-> name, value |-> v \o <<c>>])
    <3> DEFINE w == <<c>>
    <3>1. w \in Seq(Alphabet)  BY <1>4
    <3> HIDE DEF w
    <3> DEFINE rec == [name |-> name, value |-> v]
    <3>2. rec \in HeaderRecs  BY <2>2, <2>3 DEF HeaderRecs
    <3>3. Longer(rec, w) = [name |-> name, value |-> v \o w]  BY DEF Longer
    <3> HIDE DEF rec
    <3>4. LastLonger(Append(H, rec), w) = Append(H, Longer(rec, w))
      BY <1>3, <3>1, <3>2, ValueGoesOn
    <3> QED  BY <3>3, <3>4 DEF w, rec
  <2>5. Begun(text, from, i, n + 1) = Append(H, [name |-> name, value |-> v])
    BY DEF Begun, H, name, v
  <2>6. Begun(more, from, i, n + 2) = Append(H, [name |-> name, value |-> v \o <<c>>])
    BY <1>2, <2>2, <2>3 DEF Begun
  <2> QED  BY <2>4, <2>5, <2>6
<1>15. ASSUME H # <<>>, NEW i \in 1..n
       PROVE  /\ LastLonger(GoneOn(text, i, n + 1), <<c>>) = GoneOn(more, i, n + 2)
              /\ GoneOn(text, i, i + 1) = H
  <2> DEFINE v == Span(text, i + 1, n + 1)
  <2>1. i + 1 \in Nat \ {0} /\ i + 1 <= n + 1 /\ i + 1 \in Int  BY <1>1
  <2>2. v \in Seq(Alphabet) /\ Span(more, i + 1, n + 2) = v \o <<c>>  BY <1>6, <2>1
  <2>3. Span(text, i + 1, i + 1) = <<>>  BY <1>5, <2>1
  <2> HIDE DEF v
  <2>4. /\ LastLonger(LastLonger(H, v), <<c>>) = LastLonger(H, v \o <<c>>)
        /\ LastLonger(H, <<>>) = H
    <3> DEFINE w == <<c>>
    <3>1. w \in Seq(Alphabet)  BY <1>4
    <3> HIDE DEF w
    <3>2. LastLonger(LastLonger(H, v), w) = LastLonger(H, v \o w) /\ LastLonger(H, <<>>) = H
      BY <1>3, <1>15, <2>2, <3>1, ValueGoesOn
    <3> QED  BY <3>2 DEF w
  <2>5. GoneOn(text, i, n + 1) = LastLonger(H, v)  BY DEF GoneOn, H, v
  <2>6. GoneOn(more, i, n + 2) = LastLonger(H, v \o <<c>>)  BY <1>2, <2>2 DEF GoneOn
  <2>7. GoneOn(text, i, i + 1) = LastLonger(H, <<>>)  BY <2>3 DEF GoneOn, H
  <2> QED  BY <2>4, <2>5, <2>6, <2>7
<1>16. ValueAdds(text, more, from, c)  BY <1>14, <1>15 DEF ValueAdds, n, H
<1> QED  BY <1>2, <1>8, <1>9, <1>11, <1>12, <1>13, <1>16 DEF n, H

\* What has been kept of a later line, in the states in it.
KeptLater(st, text, from, hs) ==
    LET n == Len(text)
    IN  /\ st \in {"header_line_start", "header_lws", "expecting_newline_3"} => hs = Hs(text)
        /\ st = "header_name" => hs = Begun(text, from, n + 1, n + 1)
        /\ st = "space_before_header_value" => hs = Begun(text, from, n, n + 1)
        /\ st = "header_value" =>
             \/ \E i \in HeaderLine(text, from, n) : hs = Begun(text, from, i, n + 1)
             \/ /\ Hs(text) # <<>>
                /\ \E i \in FoldedLine(text, from, n) : i < n /\ hs = GoneOn(text, i, n + 1)
        /\ st = "expecting_newline_2" =>
             \/ \E i \in HeaderLine(text, from, n - 1) : hs = Begun(text, from, i, n)
             \/ /\ Hs(text) # <<>>
                /\ \E i \in FoldedLine(text, from, n - 1) : hs = GoneOn(text, i, n)

\* A character of a later line is kept where the line has it.
LEMMA LaterLineKept ==
    ASSUME NEW text, NEW more, Continues(more, text), Len(more) = Len(text) + 1,
           NEW from \in 2..(Len(text) + 1), Open(text, from),
           NEW st \in States \ FirstStates, InLater(st, text, from),
           NEW r \in Requests, st \in InHeader => r.headers # <<>>, Knows(st, text, from, r.headers),
           KeptLater(st, text, from, r.headers),
           NEW to, to = After(st, more[Len(text) + 1], r.headers),
           to \notin {"bad", "good", "header_line_start"}
    PROVE  KeptLater(to, more, from, Kept(r, st, to, more[Len(text) + 1]).headers)
<1> DEFINE n == Len(text)
           c == more[n + 1]
           hs == r.headers
           H == Hs(text)
           kept == Kept(r, st, to, c)
           out == kept.headers
<1>1. /\ text \in Seq(Alphabet) /\ more \in Seq(Alphabet) /\ n \in Nat /\ Len(more) = n + 1
      /\ from \in Int /\ 1 < from /\ from <= n + 1 /\ from \in 1..(n + 1) /\ from \in Nat \ {0}
      /\ (n + 1) + 1 = n + 2 /\ (n + 1) - 1 = n
      /\ \A i \in 1..n : more[i] = text[i]
  BY NewlinesAre DEF Continues
<1>2. c \in Alphabet
  <2>1. n + 1 \in 1..Len(more)  BY <1>1
  <2> QED  BY <1>1, <2>1, NewlinesAre
<1>3. to = InHeaders(st, c, hs)  BY DEF After, FirstStates
<1>4. c # LF /\ to \in States \ FirstStates /\ InLater(to, more, from)
  BY LaterLineGoesOn
<1>5. /\ to = "header_name" /\ st # "header_name" =>
           out = Append(hs, [name |-> <<c>>, value |-> <<>>])
      /\ to = "header_name" /\ st = "header_name" => out = WithLast(hs, LongerName(hs[Len(hs)], c))
      /\ to = "header_value" /\ st \in {"header_value", "header_lws"} => out = LastLonger(hs, <<c>>)
      /\ to \notin {"header_name", "header_value"}
         \/ (to = "header_value" /\ st = "space_before_header_value") => out = hs
  <2>1. to \notin FirstStates  BY <1>4
  <2> HIDE DEF c
  <2>2. AddsLast(r, st, to, c, kept)  BY <1>2, <2>1, KeptLast
  <2> HIDE DEF kept
  <2> QED  BY <2>2 DEF AddsLast
<1>6. /\ Hs(more) = H
      /\ \A i, end \in 1..(n + 1) :
           Begun(more, from, i, end) = Begun(text, from, i, end)
           /\ GoneOn(more, i, end) = GoneOn(text, i, end)
      /\ Append(H, [name |-> <<c>>, value |-> <<>>]) = Begun(more, n + 1, n + 2, n + 2)
      /\ \A q : q = Begun(text, from, n + 1, n + 1) =>
           WithLast(q, LongerName(q[Len(q)], c)) = Begun(more, from, n + 2, n + 2)
      /\ Begun(text, from, n + 1, n + 1) = Begun(more, from, n + 1, n + 2)
      /\ Begun(text, from, n, n + 1) = Begun(more, from, n, n + 2)
  <2> HIDE DEF c
  <2>1. c = more[n + 1]  BY DEF c
  <2> QED  BY <1>1, <1>4, <2>1, LineKept DEF n
<1>7. /\ \A i \in 1..(n - 1) :
           LastLonger(Begun(text, from, i, n + 1), <<c>>) = Begun(more, from, i, n + 2)
      /\ H # <<>> => \A i \in 1..n :
           /\ LastLonger(GoneOn(text, i, n + 1), <<c>>) = GoneOn(more, i, n + 2)
           /\ GoneOn(text, i, i + 1) = H
  <2> HIDE DEF c
  <2>1. c = more[n + 1]  BY DEF c
  <2>2. ValueAdds(text, more, from, c)  BY <1>1, <1>4, <2>1, LineKept
  <2> QED  BY <2>2 DEF ValueAdds, n, H
<1>8. /\ HeaderLine(more, from, n) = HeaderLine(text, from, n)
      /\ FoldedLine(more, from, n) = FoldedLine(text, from, n)
  BY <1>1, SameLine
<1>9. /\ IsToken(c) => c \notin {SP, TAB, CR, LF, ":", "/"}
      /\ c # SP /\ ~IsCtl(c) <=> IsUriChar(c)
      /\ ~IsCtl(c) <=> IsText(c)
      /\ c \in {SP, TAB} <=> IsBlank(c)
  BY Classes
<1>10. IsText(c) =>
         /\ \A i \in HeaderLine(text, from, n) : i \in HeaderLine(more, from, n + 1)
         /\ \A i \in FoldedLine(text, from, n) : i < n => i \in FoldedLine(more, from, n + 1)
  BY <1>1, ValueLineGrows
<1>11. KeptLater(st, text, from, hs)  OBVIOUS
<1>12. to \notin {"bad", "good", "header_line_start"} /\ (st \in InHeader => hs # <<>>)  OBVIOUS
<1>13. more[n + 1] = c  OBVIOUS
<1> HIDE DEF n, c, hs, H, kept, out
<1>14. /\ InLater(st, text, from) /\ InLater(to, more, from)
       /\ hs = r.headers /\ H = Hs(text) /\ n = Len(text)
       /\ \A s : KeptLater(to, more, from, s) <=> 
            /\ to \in {"header_lws", "expecting_newline_3"} => s = Hs(more)
            /\ to = "header_name" => s = Begun(more, from, n + 2, n + 2)
            /\ to = "space_before_header_value" => s = Begun(more, from, n + 1, n + 2)
            /\ to = "header_value" =>
                 \/ \E i \in HeaderLine(more, from, n + 1) : s = Begun(more, from, i, n + 2)
                 \/ /\ Hs(more) # <<>>
                    /\ \E i \in FoldedLine(more, from, n + 1) : i < n + 1 /\ s = GoneOn(more, i, n + 2)
            /\ to = "expecting_newline_2" =>
                 \/ \E i \in HeaderLine(more, from, n) : s = Begun(more, from, i, n + 1)
                 \/ /\ Hs(more) # <<>>
                    /\ \E i \in FoldedLine(more, from, n) : s = GoneOn(more, i, n + 1)
  <2>1. to # "header_line_start"  BY <1>12
  <2> QED  BY <1>1, <1>4, <2>1 DEF KeptLater, n, hs, H
<1> SUFFICES KeptLater(to, more, from, out)
  BY DEF out, kept, c, n
<1>15. CASE st = "header_line_start"
  <2>1. from = n + 1 /\ hs = H  BY <1>11, <1>14, <1>15 DEF InLater, KeptLater
  <2>2. to \in {"expecting_newline_3", "header_lws", "header_name"}
    BY <1>3, <1>12, <1>15 DEF InHeaders
  <2>3. CASE to = "header_name"
    <3>1. out = Begun(more, from, n + 2, n + 2)  BY <1>5, <1>6, <1>15, <2>1, <2>3
    <3> QED  BY <1>14, <2>3, <3>1
  <2>4. CASE to # "header_name"
    <3>1. out = Hs(more)  BY <1>5, <1>6, <2>1, <2>2, <2>4
    <3> QED  BY <1>14, <2>2, <2>4, <3>1
  <2> QED  BY <2>3, <2>4
<1>16. CASE st = "header_name"
  <2>1. hs = Begun(text, from, n + 1, n + 1)  BY <1>11, <1>14, <1>16 DEF KeptLater
  <2>2. to \in {"space_before_header_value", "header_name"}
    BY <1>3, <1>12, <1>16 DEF InHeaders
  <2>3. CASE to = "header_name"
    <3>1. out = Begun(more, from, n + 2, n + 2)  BY <1>5, <1>6, <1>16, <2>1, <2>3
    <3> QED  BY <1>14, <2>3, <3>1
  <2>4. CASE to = "space_before_header_value"
    <3>1. out = Begun(more, from, n + 1, n + 2)  BY <1>5, <1>6, <2>1, <2>4
    <3> QED  BY <1>14, <2>4, <3>1
  <2> QED  BY <2>2, <2>3, <2>4
<1>17. CASE st = "space_before_header_value"
  <2>1. hs = Begun(text, from, n, n + 1)  BY <1>11, <1>14, <1>17 DEF KeptLater
  <2>2. to = "header_value" /\ c = SP  BY <1>3, <1>12, <1>17 DEF InHeaders
  <2>3. out = Begun(more, from, n, n + 2)  BY <1>5, <1>6, <1>17, <2>1, <2>2
  <2>4. n \in HeaderLine(more, from, n + 1)
    <3>1. from < n /\ text[n] = ":" /\ \A i \in from..(n - 1) : IsToken(text[i])
      BY <1>14, <1>17 DEF InLater
    <3>2. n \in (from + 1)..(n + 1 - 1)  BY <1>1, <3>1 DEF n
    <3>3. more[n] = ":" /\ \A i \in from..(n - 1) : IsToken(more[i])  BY <1>1, <3>1 DEF n
    <3>4. \A i \in (n + 2)..(n + 1) : FALSE  BY <1>1 DEF n
    <3> QED  BY <1>13, <2>2, <3>2, <3>3, <3>4 DEF HeaderLine
  <2> QED  BY <1>14, <2>2, <2>3, <2>4
<1>18. CASE st = "header_value"
  <2>1. \/ to = "expecting_newline_2" /\ c = CR
        \/ to = "header_value" /\ IsText(c)
    BY <1>3, <1>9, <1>12, <1>18 DEF InHeaders
  <2>2. CASE \E i \in HeaderLine(text, from, n) : hs = Begun(text, from, i, n + 1)
    <3>1. PICK i \in HeaderLine(text, from, n) : hs = Begun(text, from, i, n + 1)  BY <2>2
    <3>2. i \in 1..(n - 1) /\ i \in 1..(n + 1) /\ n + 1 \in 1..(n + 1)
      <4>1. i \in (from + 1)..(n - 1)  BY DEF HeaderLine
      <4> QED  BY <1>1, <4>1 DEF n
    <3>3. CASE to = "expecting_newline_2"
      <4>1. out = Begun(more, from, i, n + 1)  BY <1>5, <1>6, <3>1, <3>2, <3>3
      <4>2. i \in HeaderLine(more, from, n)  BY <1>8
      <4> QED  BY <1>14, <3>3, <4>1, <4>2
    <3>4. CASE to = "header_value" /\ IsText(c)
      <4>1. out = Begun(more, from, i, n + 2)  BY <1>5, <1>7, <1>18, <3>1, <3>2, <3>4
      <4>2. i \in HeaderLine(more, from, n + 1)  BY <1>10, <3>4
      <4> QED  BY <1>14, <3>4, <4>1, <4>2
    <3> QED  BY <2>1, <3>3, <3>4
  <2>3. CASE H # <<>> /\ \E i \in FoldedLine(text, from, n) : i < n /\ hs = GoneOn(text, i, n + 1)
    <3>1. PICK i \in FoldedLine(text, from, n) : i < n /\ hs = GoneOn(text, i, n + 1)  BY <2>3
    <3>2. i \in 1..n /\ i \in 1..(n + 1) /\ n + 1 \in 1..(n + 1) /\ i < n + 1
      <4>1. i \in from..n  BY DEF FoldedLine
      <4> QED  BY <1>1, <4>1 DEF n
    <3>3. Hs(more) # <<>>  BY <1>6, <2>3
    <3>4. CASE to = "expecting_newline_2"
      <4>1. out = GoneOn(more, i, n + 1)  BY <1>5, <1>6, <3>1, <3>2, <3>4
      <4>2. i \in FoldedLine(more, from, n)  BY <1>8
      <4> QED  BY <1>14, <3>3, <3>4, <4>1, <4>2
    <3>5. CASE to = "header_value" /\ IsText(c)
      <4>1. out = GoneOn(more, i, n + 2)  BY <1>5, <1>7, <1>18, <2>3, <3>1, <3>2, <3>5
      <4>2. i \in FoldedLine(more, from, n + 1)  BY <1>10, <3>1, <3>5
      <4> QED  BY <1>14, <3>2, <3>3, <3>5, <4>1, <4>2
    <3> QED  BY <2>1, <3>4, <3>5
  <2>4. \/ \E i \in HeaderLine(text, from, n) : hs = Begun(text, from, i, n + 1)
        \/ H # <<>> /\ \E i \in FoldedLine(text, from, n) : i < n /\ hs = GoneOn(text, i, n + 1)
    BY <1>11, <1>14, <1>18 DEF KeptLater
  <2> QED  BY <2>2, <2>3, <2>4
<1>19. CASE st = "header_lws"
  <2>1. hs = H /\ H # <<>>
    <3>1. hs = H  BY <1>11, <1>14, <1>19 DEF KeptLater
    <3>2. st \in InHeader  BY <1>19 DEF InHeader
    <3> QED  BY <1>12, <3>1, <3>2
  <2>2. \/ to = "expecting_newline_2" /\ c = CR
        \/ to = "header_lws" /\ IsBlank(c)
        \/ to = "header_value" /\ IsUriChar(c)
    BY <1>3, <1>9, <1>12, <1>19 DEF InHeaders
  <2>3. from <= n /\ \A i \in from..n : IsBlank(more[i])
    <3>1. from <= n /\ \A i \in from..n : IsBlank(text[i])  BY <1>14, <1>19 DEF InLater
    <3> QED  BY <1>1, <3>1 DEF n
  <2>4. GoneOn(text, n, n + 1) = H /\ n \in 1..n /\ n \in 1..(n + 1) /\ n + 1 \in 1..(n + 1)
    <3>1. n \in 1..n /\ n \in 1..(n + 1) /\ n + 1 \in 1..(n + 1)  BY <1>1, <2>3 DEF n
    <3> QED  BY <1>7, <2>1, <3>1
  <2>5. Hs(more) # <<>> /\ Hs(more) = H  BY <1>6, <2>1
  <2>6. CASE to = "expecting_newline_2"
    <3>1. n \in FoldedLine(more, from, n)
      <4>1. n \in from..n /\ \A j \in (n + 1)..n : FALSE  BY <1>1, <2>3 DEF n
      <4> QED  BY <2>3, <4>1 DEF FoldedLine
    <3>2. out = GoneOn(more, n, n + 1)  BY <1>5, <1>6, <2>1, <2>4, <2>6
    <3> QED  BY <1>14, <2>5, <2>6, <3>1, <3>2
  <2>7. CASE to = "header_lws"
    <3>1. out = Hs(more)  BY <1>5, <2>1, <2>5, <2>7
    <3> QED  BY <1>14, <2>7, <3>1
  <2>8. CASE to = "header_value" /\ IsUriChar(c)
    <3>1. n \in FoldedLine(more, from, n + 1) /\ n < n + 1
      <4>1. n \in from..(n + 1) /\ n < n + 1 /\ \A j \in (n + 1)..(n + 1) : j = n + 1
        BY <1>1, <2>3 DEF n
      <4>2. IsText(c) /\ c # SP  BY <1>9, <2>8
      <4> QED  BY <1>13, <2>3, <4>1, <4>2 DEF FoldedLine
    <3>2. out = GoneOn(more, n, n + 2)  BY <1>5, <1>7, <1>19, <2>1, <2>4, <2>8
    <3> QED  BY <1>14, <2>5, <2>8, <3>1, <3>2
  <2> QED  BY <2>2, <2>6, <2>7, <2>8
<1>20. st \notin {"expecting_newline_2", "expecting_newline_3"}
  BY <1>3, <1>12 DEF InHeaders
<1> QED  BY <1>15, <1>16, <1>17, <1>18, <1>19, <1>20 DEF States, InHeader, FirstStates

\* At the end of a later line its headers are those of the text.
LEMMA LaterLineDone ==
    ASSUME NEW text, NEW more, Continues(more, text), Len(more) = Len(text) + 1,
           more[Len(text) + 1] = LF,
           NEW from \in 2..(Len(text) + 1), Open(text, from),
           NEW hs, KeptLater("expecting_newline_2", text, from, hs)
    PROVE  hs = Hs(more)
<1> DEFINE n == Len(text)
           H == Hs(text)
<1>1. /\ text \in Seq(Alphabet) /\ n \in Nat /\ 1 < from /\ from \in Nat \ {0} /\ from <= n + 1
      /\ n - 1 \in Int /\ n - 1 <= n
  BY NewlinesAre DEF Continues
<1>2. /\ HeaderLine(more, from, n - 1) = HeaderLine(text, from, n - 1)
      /\ FoldedLine(more, from, n - 1) = FoldedLine(text, from, n - 1)
  BY <1>1, SameLine
<1>3. /\ \A i \in HeaderLine(more, from, n - 1) :
           Hs(more) = Append(H, [name  |-> SubSeq(more, from, i - 1), value |-> SubSeq(more, i + 2, n - 1)])
      /\ H # <<>> => \A i \in FoldedLine(more, from, n - 1) :
           Hs(more) = LastLonger(H, SubSeq(more, i + 1, n - 1))
  BY <1>1, HsThen
<1>4. ASSUME NEW a \in Nat \ {0}, NEW b \in Int, b <= n + 1
      PROVE  Span(text, a, b) = SubSeq(more, a, b - 1)
  <2>1. b - 1 \in Int /\ b - 1 <= Len(text)  BY <1>1, <1>4
  <2> QED  BY <1>1, <2>1, PartsOf DEF Span
<1>5. \/ \E i \in HeaderLine(text, from, n - 1) : hs = Begun(text, from, i, n)
      \/ H # <<>> /\ \E i \in FoldedLine(text, from, n - 1) : hs = GoneOn(text, i, n)
  BY DEF KeptLater
<1> HIDE DEF n, H
<1>6. ASSUME NEW i \in HeaderLine(text, from, n - 1), hs = Begun(text, from, i, n)  PROVE hs = Hs(more)
  <2>1. i \in (from + 1)..(n - 1 - 1)  BY DEF HeaderLine
  <2>2. i \in Int /\ i <= n + 1 /\ n \in Int /\ n <= n + 1 /\ i + 2 \in Nat \ {0}  BY <1>1, <2>1
  <2>3. Span(text, from, i) = SubSeq(more, from, i - 1)  BY <1>1, <1>4, <2>2
  <2>4. Span(text, i + 2, n) = SubSeq(more, i + 2, n - 1)  BY <1>4, <2>2
  <2>5. hs = Append(H, [name |-> Span(text, from, i), value |-> Span(text, i + 2, n)])
    BY <1>6 DEF Begun, H
  <2>6. Hs(more) = Append(H, [name |-> SubSeq(more, from, i - 1), value |-> SubSeq(more, i + 2, n - 1)])
    BY <1>2, <1>3
  <2> QED  BY <2>3, <2>4, <2>5, <2>6
<1>7. ASSUME H # <<>>, NEW i \in FoldedLine(text, from, n - 1), hs = GoneOn(text, i, n)
      PROVE  hs = Hs(more)
  <2>1. i \in from..(n - 1)  BY DEF FoldedLine
  <2>2. n \in Int /\ n <= n + 1 /\ i + 1 \in Nat \ {0}  BY <1>1, <2>1
  <2>3. Span(text, i + 1, n) = SubSeq(more, i + 1, n - 1)  BY <1>4, <2>2
  <2>4. hs = LastLonger(H, Span(text, i + 1, n))  BY <1>7 DEF GoneOn, H
  <2>5. Hs(more) = LastLonger(H, SubSeq(more, i + 1, n - 1))  BY <1>2, <1>3, <1>7
  <2> QED  BY <2>3, <2>4, <2>5
<1> QED  BY <1>5, <1>6, <1>7

\* The line that ends a request adds no header to it.
LEMMA NoLineDone ==
    ASSUME NEW text, NEW more, Continues(more, text), Len(more) = Len(text) + 1,
           more[Len(text) + 1] = LF, Open(text, Len(text)), 1 < Len(text)
    PROVE  Hs(more) = Hs(text)
<1> DEFINE n == Len(text)
<1>1. n \in Nat  BY NewlinesAre DEF Continues
<1>2. (n + 1)..(n - 1 - 1) = {} /\ n..(n - 1) = {}  BY <1>1
<1>3. HeaderLine(more, n, n - 1) = {} /\ FoldedLine(more, n, n - 1) = {}
  BY <1>2 DEF HeaderLine, FoldedLine
<1> QED  BY <1>3, HsThen

-----------------------------------------------------------------------------
(* All that is known, whatever the text.                                   *)

\* What has been kept of a text, in each state.
Says(st, text, from, r) ==
    IF st \in FirstStates THEN KeptFirst(st, text, r)
    ELSE FirstMeant(text, r) /\ KeptLater(st, text, from, r.headers)

\* The machine that has read a text has kept what it says.
Means(m, text) ==
    /\ m.result = "indeterminate" => \E from : Open(text, from) /\ Says(m.state, text, from, m.req)
    /\ m.result = "good" => m.req = Meaning(text)

\* There is one line that has begun and not ended.
LEMMA OpenIsOne ==
    ASSUME NEW text \in Seq(Alphabet), NEW a, NEW b, Open(text, a), Open(text, b)
    PROVE  a = b
<1>1. Len(text) \in Nat /\ a \in 1..(Len(text) + 1) /\ b \in 1..(Len(text) + 1)
  BY LenProperties DEF Open
<1>2. a = 1 \/ a - 1 < b  BY DEF Open
<1>3. b = 1 \/ b - 1 < a  BY DEF Open
<1> QED  BY <1>1, <1>2, <1>3

\* consume keeps what the text with the character says.
LEMMA ConsumedMeans ==
    ASSUME NEW m \in Machines, m.result = "indeterminate", NEW text \in Seq(Alphabet),
           Sound(m, text), Means(m, text), NEW c \in Alphabet
    PROVE  Means(Consumed(m, c), Append(text, c))
<1> DEFINE n == Len(text)
           st == m.state
           r == m.req
           to == After(st, c, r.headers)
           kept == Kept(r, st, to, c)
           more == Append(text, c)
           out == Consumed(m, c)
<1>1. /\ st \in States /\ r \in Requests
      /\ st \in InHeader => r.headers # <<>>
  BY DEF Machines
<1>2. PICK from : Leading(st, text, from) /\ Knows(st, text, from, r.headers)
  BY DEF Sound
<1>3. Says(st, text, from, r)
  <2>1. PICK a : Open(text, a) /\ Says(st, text, a, r)  BY DEF Means
  <2>2. Open(text, from)  BY <1>2 DEF Leading
  <2> QED  BY <2>1, <2>2, OpenIsOne
<1>4. Continues(more, text) /\ Len(more) = n + 1 /\ more[n + 1] = c /\ more \in Seq(Alphabet)
  BY OneMore, AppendProperties
<1>5. /\ out.state = (IF to \in {"good", "bad"} THEN st ELSE to)
      /\ out.result = (IF to \in {"good", "bad"} THEN to ELSE "indeterminate")
      /\ out.req = kept
  BY DEF Consumed
<1>6. to \in States \cup {"good", "bad"}  BY <1>1, Leads
<1>7. kept \in Requests
  <2>1. out \in Machines  BY ConsumedOK
  <2> QED  BY <1>5, <2>1 DEF Machines
<1>8. Open(text, from) /\ n \in Nat /\ from \in 1..(n + 1) /\ n + 1 \in Nat
  BY <1>2, LenProperties DEF Leading, Open
<1> HIDE DEF n, st, r, to, kept, more, out
<1>9. /\ to = "good" => st = "expecting_newline_3" /\ c = LF
      /\ to = "header_line_start" => st \in {"expecting_newline_1", "expecting_newline_2"} /\ c = LF
      /\ to \in FirstStates => st \in FirstStates
  BY Turns DEF to
<1>10. Continues(more, text) /\ Len(more) = Len(text) + 1 /\ more[Len(text) + 1] = c
  BY <1>4 DEF n
<1>11. st \notin FirstStates =>
         /\ kept.method = r.method /\ kept.uri = r.uri
         /\ kept.major = r.major /\ kept.minor = r.minor
         /\ to \notin {"header_name", "header_value"} => kept.headers = r.headers
         /\ FirstMeant(text, r) /\ FirstMeant(more, kept)
         /\ KeptLater(st, text, from, r.headers) /\ InLater(st, text, from) /\ from \in 2..(Len(text) + 1)
  <2> SUFFICES ASSUME st \notin FirstStates
               PROVE  /\ kept.method = r.method /\ kept.uri = r.uri
                      /\ kept.major = r.major /\ kept.minor = r.minor
                      /\ to \notin {"header_name", "header_value"} => kept.headers = r.headers
                      /\ FirstMeant(text, r) /\ FirstMeant(more, kept)
                      /\ KeptLater(st, text, from, r.headers) /\ InLater(st, text, from)
                      /\ from \in 2..(Len(text) + 1)
    OBVIOUS
  <2>1. /\ kept.method = r.method /\ kept.uri = r.uri
        /\ kept.major = r.major /\ kept.minor = r.minor
        /\ to \notin {"header_name", "header_value"} => kept.headers = r.headers
    <3>1. to \notin FirstStates /\ st \in States \ FirstStates  BY <1>1, <1>9
    <3>2. AddsLast(r, st, to, c, kept)  BY <1>1, <3>1, KeptLast DEF kept
    <3> QED  BY <3>2 DEF AddsLast
  <2>2. FirstMeant(text, r) /\ KeptLater(st, text, from, r.headers)  BY <1>3 DEF Says
  <2>3. FirstMeant(more, kept)  BY <1>10, <2>1, <2>2, FirstMeantStays
  <2>4. InLater(st, text, from) /\ 1 < from  BY <1>2 DEF Leading
  <2>5. from \in 2..(Len(text) + 1)  BY <1>8, <2>4 DEF n
  <2> QED  BY <2>1, <2>2, <2>3, <2>4, <2>5
<1>12. CASE to = "bad"
  BY <1>5, <1>12 DEF Means, out, more
<1>13. CASE to = "good"
  <2>1. st = "expecting_newline_3" /\ c = LF /\ st \notin FirstStates
    BY <1>9, <1>13 DEF FirstStates, MethodOrUri, Version
  <2>2. from = n /\ 1 < from  BY <1>8, <1>11, <2>1 DEF InLater, n
  <2>3. r.headers = Hs(text)  BY <1>11, <2>1 DEF KeptLater
  <2>4. Hs(more) = Hs(text)  BY <1>8, <1>10, <2>1, <2>2, NoLineDone DEF n
  <2>5. kept.headers = Hs(more)  BY <1>11, <1>13, <2>1, <2>3, <2>4
  <2>6. kept = Meaning(more)  BY <1>4, <1>7, <1>11, <2>1, <2>5, MeaningIs
  <2> QED  BY <1>5, <1>13, <2>6 DEF Means, out, more
<1>14. CASE to = "header_line_start"
  <2>1. c = LF /\ to \notin FirstStates /\ st \in {"expecting_newline_1", "expecting_newline_2"}
    BY <1>9, <1>14 DEF FirstStates, MethodOrUri, Version
  <2>2. Open(more, Len(more) + 1)  BY <1>8, <1>10, <2>1, LineEnds
  <2>3. FirstMeant(more, kept) /\ kept.headers = Hs(more)
    <3>1. CASE st = "expecting_newline_1"
      <4>1. st \in FirstStates  BY <3>1 DEF FirstStates, Version
      <4>2. from = 1 /\ KeptFirst(st, text, r)  BY <1>2, <1>3, <4>1 DEF Leading, Says
      <4>3. kept = r  BY <1>14, <3>1 DEF Kept, kept
      <4>4. FirstMeant(more, r) /\ r.headers = <<>>
        BY <1>8, <1>10, <2>1, <3>1, <4>2, FirstLineDone
      <4>5. Hs(more) = <<>>  BY <1>8, <1>10, <2>1, <4>2, HsThen
      <4> QED  BY <4>3, <4>4, <4>5
    <3>2. CASE st = "expecting_newline_2"
      <4>1. st \notin FirstStates  BY <3>2 DEF FirstStates, MethodOrUri, Version
      <4>2. kept.headers = r.headers  BY <1>11, <1>14, <4>1
      <4>3. KeptLater("expecting_newline_2", text, from, r.headers)  BY <1>11, <3>2, <4>1
      <4>4. r.headers = Hs(more)  BY <1>8, <1>10, <1>11, <2>1, <4>1, <4>3, LaterLineDone
      <4> QED  BY <1>11, <4>1, <4>2, <4>4
    <3> QED  BY <2>1, <3>1, <3>2
  <2>4. KeptLater(to, more, Len(more) + 1, kept.headers)  BY <1>14, <2>3 DEF KeptLater
  <2>5. Says(to, more, Len(more) + 1, kept)  BY <2>1, <2>3, <2>4 DEF Says
  <2> QED  BY <1>5, <1>14, <2>2, <2>5 DEF Means, out, more
<1>15. CASE to \notin {"good", "bad", "header_line_start"} /\ st \in FirstStates
  <2>1. InFirst(st, text) /\ KeptFirst(st, text, r)  BY <1>2, <1>3, <1>15 DEF Leading, Says
  <2>2. to = After(st, more[Len(text) + 1], r.headers)  BY <1>10 DEF to
  <2>3. more[Len(text) + 1] # LF /\ to \in FirstStates
    BY <1>10, <1>15, <2>1, <2>2, FirstLineGoesOn
  <2>4. KeptFirst(to, more, Kept(r, st, to, more[Len(text) + 1]))
    BY <1>10, <1>15, <2>1, <2>2, FirstLineKept
  <2>5. Says(to, more, from, kept)  BY <1>10, <2>3, <2>4 DEF Says, kept
  <2>6. Open(more, from)  BY <1>8, <1>10, <2>3, LineGoesOn
  <2> QED  BY <1>5, <1>15, <2>5, <2>6 DEF Means, out, more
<1>16. CASE to \notin {"good", "bad", "header_line_start"} /\ st \notin FirstStates
  <2>1. to = After(st, more[Len(text) + 1], r.headers)  BY <1>10 DEF to
  <2>2. st \in States \ FirstStates  BY <1>1, <1>16
  <2>3. more[Len(text) + 1] # LF /\ to \in States \ FirstStates
    BY <1>2, <1>10, <1>11, <1>16, <2>1, <2>2, LaterLineGoesOn
  <2>4. KeptLater(to, more, from, Kept(r, st, to, more[Len(text) + 1]).headers)
    BY <1>1, <1>2, <1>8, <1>10, <1>11, <1>16, <2>1, <2>2, LaterLineKept
  <2>5. Says(to, more, from, kept)  BY <1>10, <1>11, <1>16, <2>3, <2>4 DEF Says, kept
  <2>6. Open(more, from)  BY <1>8, <1>10, <2>3, LineGoesOn
  <2> QED  BY <1>5, <1>16, <2>5, <2>6 DEF Means, out, more
<1> QED  BY <1>12, <1>13, <1>14, <1>15, <1>16

\* What is known of a text by the machine that has read it, and what it has kept.
Faithful(m, text) == Sound(m, text) /\ Means(m, text)

\* consume keeps both.
LEMMA ConsumedFaithful ==
    ASSUME NEW m \in Machines, m.result = "indeterminate", NEW text \in Seq(Alphabet),
           Faithful(m, text), NEW c \in Alphabet
    PROVE  Faithful(Consumed(m, c), Append(text, c))
BY ConsumedSound, ConsumedMeans DEF Faithful

\* What is bad stays so, and nothing more is kept of it.
LEMMA FaithfulStays ==
    ASSUME NEW m, m.result = "bad", NEW text \in Seq(Alphabet), Faithful(m, text), NEW c \in Alphabet
    PROVE  Faithful(m, Append(text, c))
<1>1. Sound(m, Append(text, c))  BY SoundStays DEF Faithful
<1>2. Means(m, Append(text, c))  BY DEF Means
<1> QED  BY <1>1, <1>2 DEF Faithful

\* A text in which a request can end at its last character alone.
LEMMA FoldFaithful ==
    ASSUME NEW base \in Machines, NEW in \in Seq(Alphabet), Faithful(base, in),
           NEW text \in Seq(Alphabet), NEW run, IsRun(run, base, text),
           \A k \in 0..(Len(text) - 1) : run[k].result # "good"
    PROVE  Faithful(FoldLeft(Stepped, base, text), in \o text)
<1> DEFINE n == Len(text)
           Read(k) == in \o SubSeq(text, 1, k)
           Good == {k \in 0..n : Read(k) \in Seq(Alphabet) /\ Faithful(run[k], Read(k))}
<1>1. n \in Nat /\ \A i \in 1..n : text[i] \in Alphabet
  BY LenProperties, ElementOfSeq
<1>2. \A k \in 0..n : run[k] \in Machines  BY RunOK
<1>3. run[0] = base /\ run[n] = FoldLeft(Stepped, base, text)
      /\ \A k \in 0..(n - 1) : run[k + 1] = Stepped(run[k], text[k + 1])
  BY DEF IsRun
<1>4. 0 \in Good
  <2>1. SubSeq(text, 1, 0) = <<>>  BY SubSeqEmpty
  <2>2. Read(0) = in  BY <2>1, ConcatEmptySeq
  <2>3. 0 \in 0..n  BY <1>1
  <2> QED  BY <1>3, <2>2, <2>3
<1>5. ASSUME NEW k \in Nat, k < n, k \in Good  PROVE k + 1 \in Good
  <2> DEFINE c == text[k + 1]
  <2>1. k \in 0..(n - 1) /\ k \in 0..n /\ k + 1 \in 0..n /\ k + 1 \in 1..n  BY <1>1, <1>5
  <2>2. c \in Alphabet  BY <1>1, <2>1
  <2>3. Read(k + 1) = Append(Read(k), c)
    <3> DEFINE part == SubSeq(text, 1, k)
    <3>1. SubSeq(text, 1, k + 1) = part \o <<c>>
      <4> DEFINE j == k + 1
      <4>1. 1 \in 1..Len(text) /\ j \in 1..Len(text) /\ j - 1 = k  BY <1>1, <2>1
      <4> HIDE DEF j
      <4>2. SubSeq(text, 1, j) = SubSeq(text, 1, j - 1) \o <<text[j]>>
        BY <4>1, SubSeqRecursiveSecond
      <4>3. SubSeq(text, 1, j) = SubSeq(text, 1, k) \o <<text[j]>>
        BY <4>1, <4>2
      <4> QED  BY <4>3 DEF j
    <3>2. part \in Seq(Alphabet)
      <4>1. \A i \in 1..k : text[i] \in Alphabet  BY <1>1, <2>1
      <4> QED  BY <4>1, SubSeqProperties
    <3>3. <<c>> \in Seq(Alphabet)  BY <2>2
    <3> HIDE DEF part, c
    <3>4. in \o (part \o <<c>>) = (in \o part) \o <<c>>  BY <3>2, <3>3, TextsJoin
    <3>5. in \o part \in Seq(Alphabet)  BY <3>2, ConcatProperties
    <3>6. Append(in \o part, c) = (in \o part) \o <<c>>  BY <2>2, <3>5, AppendIsConcat
    <3> QED  BY <3>1, <3>4, <3>6 DEF part
  <2> DEFINE m == run[k]
             before == Read(k)
  <2>4. before \in Seq(Alphabet) /\ Faithful(m, before) /\ m \in Machines /\ m.result # "good"
    BY <1>2, <1>5, <2>1
  <2>5. run[k + 1] = Stepped(m, c)  BY <1>3, <2>1
  <2> HIDE DEF m, before, c
  <2>6. Faithful(Stepped(m, c), Append(before, c))
    <3>1. CASE m.result = "indeterminate"
      BY <2>2, <2>4, <3>1, ConsumedFaithful DEF Stepped
    <3>2. CASE m.result = "bad"
      <4>1. Stepped(m, c) = m  BY <3>2 DEF Stepped
      <4> QED  BY <2>2, <2>4, <3>2, <4>1, FaithfulStays
    <3>3. m.result \in {"indeterminate", "good", "bad"}  BY <2>4 DEF Machines
    <3> QED  BY <2>4, <3>1, <3>2, <3>3
  <2>7. Append(before, c) \in Seq(Alphabet)  BY <2>2, <2>4, AppendProperties
  <2> QED  BY <2>1, <2>3, <2>5, <2>6, <2>7 DEF before
<1> HIDE DEF Good
<1>6. \A k \in 0..n : k \in Good  BY <1>1, <1>4, <1>5, UpTo
<1>7. n \in Good  BY <1>1, <1>6
<1>8. Read(n) = in \o text
  <2>1. SubSeq(text, 1, n) = text  BY SubSeqFull
  <2> QED  BY <2>1
<1> HIDE DEF Read
<1> QED  BY <1>3, <1>7, <1>8 DEF Good

\* A machine that goes from state to state to the last character of a text.
LEMMA RunGoesOn ==
    ASSUME NEW base \in Machines, base.result = "indeterminate",
           NEW text \in Seq(Alphabet), NEW run, IsRun(run, base, text),
           NEW states, states[1] = base.state,
           \A i \in 1..(Len(text) - 1) : \A headers :
              /\ After(states[i], text[i], headers) = states[i + 1]
              /\ states[i + 1] \in States
    PROVE  \A k \in 0..(Len(text) - 1) : run[k].result # "good"
<1> DEFINE n == Len(text)
           Good == {k \in 0..(n - 1) : run[k].result = "indeterminate" /\ run[k].state = states[k + 1]}
<1>1. n \in Nat  BY LenProperties
<1> SUFFICES ASSUME n # 0  PROVE \A k \in 0..(n - 1) : run[k].result # "good"
  BY <1>1
<1>2. run[0] = base /\ \A k \in 0..(n - 1) : run[k + 1] = Stepped(run[k], text[k + 1])
  BY DEF IsRun
<1>3. n - 1 \in Nat /\ 0 \in Good
  <2>1. 0 \in 0..(n - 1) /\ 0 + 1 = 1 /\ n - 1 \in Nat  BY <1>1
  <2> QED  BY <1>2, <2>1
<1>4. ASSUME NEW k \in Nat, k < n - 1, k \in Good  PROVE k + 1 \in Good
  <2> DEFINE m == run[k]
             c == text[k + 1]
             to == states[k + 1 + 1]
  <2>1. k \in 0..(n - 1) /\ k + 1 \in 1..(n - 1) /\ k + 1 \in 0..(n - 1)  BY <1>1, <1>4
  <2>2. m.result = "indeterminate" /\ m.state = states[k + 1]  BY <1>4
  <2>3. run[k + 1] = Stepped(m, c)  BY <1>2, <2>1
  <2>4. \A headers : After(states[k + 1], c, headers) = to /\ to \in States  BY <2>1
  <2> HIDE DEF m, c, to
  <2>5. After(m.state, c, m.req.headers) = to /\ to \notin {"good", "bad"}
    BY <2>2, <2>4 DEF States, MethodOrUri, Version, InHeader
  <2>6. Stepped(m, c).result = "indeterminate" /\ Stepped(m, c).state = to
    BY <2>2, <2>5 DEF Stepped, Consumed
  <2> QED  BY <2>1, <2>3, <2>6 DEF to
<1> HIDE DEF Good
<1>5. \A k \in 0..(n - 1) : k \in Good  BY <1>3, <1>4, UpTo
<1> QED  BY <1>5 DEF Good

\* parse keeps what is known true of all its input.
LEMMA ParseFaithful ==
    ASSUME Machine \in Machines, input \in Seq(Alphabet), Faithful(Machine, input),
           NEW text \in Seq(Alphabet), Parse(text),
           NEW states, states[1] = state,
           \A i \in 1..(Len(text) - 1) : \A headers :
              /\ After(states[i], text[i], headers) = states[i + 1]
              /\ states[i + 1] \in States
    PROVE  Faithful(Machine', input')
<1> DEFINE end == FoldLeft(Stepped, Machine, text)
<1>1. end \in Machines  BY FoldOK
<1>2. /\ result = "indeterminate"
      /\ state' = end.state /\ result' = end.result /\ req' = end.req /\ input' = input \o text
  BY DEF Parse, Stepped, Machine
<1>3. Machine.result = "indeterminate" /\ Machine.state = state  BY <1>2 DEF Machine
<1>4. PICK run : IsRun(run, Machine, text)  BY Runs
<1> HIDE DEF end
<1>5. \A k \in 0..(Len(text) - 1) : run[k].result # "good"
  BY <1>3, <1>4, RunGoesOn
<1>6. Faithful(end, input \o text)  BY <1>4, <1>5, FoldFaithful DEF end
<1>7. Machine' = end  BY <1>1, <1>2 DEF Machine, Machines
<1> QED  BY <1>2, <1>6, <1>7
=============================================================================
