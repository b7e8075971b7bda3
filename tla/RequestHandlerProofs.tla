-------------------------- MODULE RequestHandlerProofs --------------------------
(***************************************************************************)
(* What the parser and the handler of example/server do with every text,   *)
(* in whatever pieces it arrives: the header a character is added to       *)
(* exists, nothing outside the root is opened, and a reply ends where it   *)
(* says it does.                                                           *)
(***************************************************************************)
EXTENDS RequestHandler, RequestMeaningProofs

-----------------------------------------------------------------------------
(* The uri.                                                                *)

Decoded == Alphabet \cup {"nul"}

\* What the function by which UrlDecode is defined says of one position.
Decoding(f, in, i) ==
    IF i > Len(in) THEN {<<>>}
    ELSE IF in[i] # "%"
         THEN {<<IF in[i] = "+" THEN SP ELSE in[i]>> \o rest : rest \in f[i + 1]}
    ELSE IF i + 2 > Len(in) THEN {}
    ELSE {<<Char(value)>> \o rest :
              value \in Extracted(in[i + 1], in[i + 2]), rest \in f[i + 3]}

Decodes(f, in, a) == f = [i \in a..(Len(in) + 1) |-> Decoding(f, in, i)]

\* It looks ahead only.
LEMMA LooksAhead ==
    ASSUME NEW in \in Seq(Alphabet), NEW i \in 1..(Len(in) + 1), NEW f, NEW g,
           \A j \in (i + 1)..(Len(in) + 1) : f[j] = g[j]
    PROVE  Decoding(f, in, i) = Decoding(g, in, i)
<1> DEFINE n == Len(in)
<1>1. n \in Nat  BY LenProperties
<1> HIDE DEF n
<1>2. i <= n => f[i + 1] = g[i + 1]
  <2>1. i <= n => i + 1 \in (i + 1)..(n + 1)  BY <1>1 DEF n
  <2> QED  BY <2>1 DEF n
<1>3. i + 2 <= n => f[i + 3] = g[i + 3]
  <2>1. i + 2 <= n => i + 3 \in (i + 1)..(n + 1)  BY <1>1 DEF n
  <2> QED  BY <2>1 DEF n
<1>4. (~(i > n) => i <= n) /\ (~(i + 2 > n) => i + 2 <= n)
  BY <1>1 DEF n
<1>5. CASE i > n
  BY <1>5 DEF Decoding, n
<1>6. CASE ~(i > n) /\ in[i] # "%"
  <2>1. f[i + 1] = g[i + 1]  BY <1>2, <1>4, <1>6
  <2> QED  BY <1>6, <2>1 DEF Decoding, n
<1>7. CASE ~(i > n) /\ in[i] = "%" /\ i + 2 > n
  BY <1>7 DEF Decoding, n
<1>8. CASE ~(i > n) /\ in[i] = "%" /\ ~(i + 2 > n)
  <2>1. f[i + 3] = g[i + 3]  BY <1>3, <1>4, <1>8
  <2> QED  BY <1>8, <2>1 DEF Decoding, n
<1> QED  BY <1>5, <1>6, <1>7, <1>8

LEMMA DecodesExists ==
    ASSUME NEW in \in Seq(Alphabet)
    PROVE  \E f : Decodes(f, in, 1)
<1> DEFINE n == Len(in)
           Good == {k \in 0..(n + 1) : \E f : Decodes(f, in, n + 2 - k)}
<1>1. n \in Nat  BY LenProperties
<1>2. 0 \in Good
  <2> DEFINE f == [i \in (n + 2)..(n + 1) |-> {}]
  <2>1. (n + 2)..(n + 1) = {} /\ n + 2 - 0 = n + 2 /\ 0 \in 0..(n + 1)  BY <1>1
  <2>2. Decodes(f, in, n + 2)
    BY <2>1 DEF Decodes
  <2> HIDE DEF f, n
  <2> QED  BY <2>1, <2>2
<1>3. ASSUME NEW k \in Nat, k < n + 1, k \in Good  PROVE k + 1 \in Good
  <2> DEFINE a == n + 1 - k
  <2>1. /\ a \in 1..(n + 1) /\ n + 2 - k = a + 1 /\ n + 2 - (k + 1) = a /\ k + 1 \in 0..(n + 1)
    <3> HIDE DEF Good
    <3> QED  BY <1>1, <1>3
  <2>2. PICK f : Decodes(f, in, a + 1)
    BY <1>3, <2>1
  <2> DEFINE g == [i \in a..(n + 1) |-> IF i = a THEN Decoding(f, in, a) ELSE f[i]]
  <2> HIDE DEF a
  <2>3. \A j \in (a + 1)..(n + 1) : g[j] = f[j]
    BY <1>1, <2>1
  <2>4. ASSUME NEW i \in a..(n + 1)  PROVE g[i] = Decoding(g, in, i)
    <3>1. i \in 1..(n + 1) /\ \A j \in (i + 1)..(n + 1) : g[j] = f[j]
      BY <1>1, <2>1, <2>3
    <3>2. Decoding(f, in, i) = Decoding(g, in, i)
      <4> HIDE DEF g
      <4> QED  BY <3>1, LooksAhead
    <3>3. CASE i = a
      <4>1. g[i] = Decoding(f, in, i)  BY <3>3
      <4> QED  BY <3>2, <4>1
    <3>4. CASE i # a
      <4>1. i \in (a + 1)..(n + 1)  BY <1>1, <2>1, <3>4
      <4>2. g[i] = f[i]  BY <2>3, <4>1
      <4>3. f[i] = Decoding(f, in, i)  BY <2>2, <4>1 DEF Decodes
      <4> HIDE DEF g
      <4> QED  BY <3>2, <4>2, <4>3
    <3> QED  BY <3>3, <3>4
  <2>5. g = [i \in a..(n + 1) |-> g[i]]  OBVIOUS
  <2> HIDE DEF g
  <2>6. Decodes(g, in, a)
    BY <2>4, <2>5 DEF Decodes
  <2> QED  BY <2>1, <2>6
<1> HIDE DEF Good
<1>4. \A k \in 0..(n + 1) : k \in Good
  <2>1. n + 1 \in Nat  BY <1>1
  <2> QED  BY <1>2, <1>3, <2>1, UpTo
<1>5. n + 1 \in 0..(n + 1) /\ n + 2 - (n + 1) = 1  BY <1>1
<1>6. n + 1 \in Good  BY <1>4, <1>5
<1> HIDE DEF n
<1> QED  BY <1>5, <1>6 DEF Good

\* What a uri is decoded to is a text.
LEMMA UrlDecodeOK ==
    ASSUME NEW in \in Seq(Alphabet)
    PROVE  UrlDecode(in) \subseteq Seq(Decoded)
<1> DEFINE n == Len(in)
           from == CHOOSE f : Decodes(f, in, 1)
           Good == {k \in 0..n : \A i \in (n + 1 - k)..(n + 1) : from[i] \subseteq Seq(Decoded)}
<1>1. n \in Nat /\ \A i \in 1..n : in[i] \in Alphabet
  BY LenProperties, ElementOfSeq
<1>2. UrlDecode(in) = from[1]
  BY DEF UrlDecode, Decodes, Decoding
<1>3. Decodes(from, in, 1)  BY DecodesExists
<1> HIDE DEF from
<1>4. \A i \in 1..(n + 1) : from[i] = Decoding(from, in, i)
  BY <1>3 DEF Decodes
<1>5. ASSUME NEW c \in Decoded, NEW rest \in Seq(Decoded)
      PROVE  <<c>> \o rest \in Seq(Decoded)
  OBVIOUS
<1>6. \A value : Char(value) \in Decoded
  BY DEF Char, Decoded, Alphabet
<1>7. 0 \in Good
  <2>1. from[n + 1] = {<<>>}
    <3>1. n + 1 \in 1..(n + 1) /\ n + 1 > n  BY <1>1
    <3>2. from[n + 1] = Decoding(from, in, n + 1)  BY <1>4, <3>1
    <3>3. Decoding(from, in, n + 1) = {<<>>}  BY <3>1 DEF Decoding
    <3> QED  BY <3>2, <3>3
  <2>2. \A i \in (n + 1 - 0)..(n + 1) : i = n + 1  BY <1>1
  <2>3. <<>> \in Seq(Decoded)  OBVIOUS
  <2>4. 0 \in 0..n  BY <1>1
  <2> HIDE DEF n
  <2> QED  BY <2>1, <2>2, <2>3, <2>4
<1>8. ASSUME NEW k \in Nat, k < n, k \in Good  PROVE k + 1 \in Good
  <2> DEFINE a == n - k
  <2>1. /\ a \in 1..n /\ n + 1 - (k + 1) = a /\ n + 1 - k = a + 1 /\ k + 1 \in 0..n
    <3> HIDE DEF Good
    <3> QED  BY <1>1, <1>8
  <2>2. \A i \in (a + 1)..(n + 1) : from[i] \subseteq Seq(Decoded)
    <3> HIDE DEF a
    <3> QED  BY <1>8, <2>1
  <2> HIDE DEF a, Good
  <2>3. from[a] = Decoding(from, in, a)
    <3>1. a \in 1..(n + 1)  BY <1>1, <2>1
    <3> QED  BY <1>4, <3>1
  <2>4. from[a + 1] \subseteq Seq(Decoded) /\ (a + 2 <= n => from[a + 3] \subseteq Seq(Decoded))
    <3>1. a + 1 \in (a + 1)..(n + 1) /\ (a + 2 <= n => a + 3 \in (a + 1)..(n + 1))
      BY <1>1, <2>1
    <3> QED  BY <2>2, <3>1
  <2>5. in[a] \in Decoded /\ SP \in Decoded
    BY <1>1, <2>1 DEF Decoded, Alphabet
  <2>6. ASSUME in[a] # "%"  PROVE from[a] \subseteq Seq(Decoded)
    <3> DEFINE w == IF in[a] = "+" THEN SP ELSE in[a]
    <3>1. w \in Decoded  BY <2>5
    <3>2. ~(a > n)  BY <1>1, <2>1
    <3>3. from[a] = {<<w>> \o rest : rest \in from[a + 1]}
      BY <2>3, <2>6, <3>2 DEF Decoding
    <3> HIDE DEF w
    <3> QED  BY <1>5, <2>4, <3>1, <3>3
  <2>7. ASSUME in[a] = "%", a + 2 > n  PROVE from[a] \subseteq Seq(Decoded)
    <3>2. ~(a > n)  BY <1>1, <2>1
    <3>3. from[a] = {}
      BY <2>3, <2>7, <3>2 DEF Decoding
    <3> QED  BY <3>3
  <2>8. ASSUME in[a] = "%", ~(a + 2 > n)  PROVE from[a] \subseteq Seq(Decoded)
    <3>1. ~(a > n) /\ a + 2 <= n  BY <1>1, <2>1, <2>8
    <3>3. from[a] = {<<Char(value)>> \o rest :
                        value \in Extracted(in[a + 1], in[a + 2]), rest \in from[a + 3]}
      BY <2>3, <2>8, <3>1 DEF Decoding
    <3>4. from[a + 3] \subseteq Seq(Decoded)  BY <2>4, <3>1
    <3>5. ASSUME NEW x \in from[a]  PROVE x \in Seq(Decoded)
      <4> DEFINE E == Extracted(in[a + 1], in[a + 2])
                 F == from[a + 3]
                 W(value, rest) == <<Char(value)>> \o rest
      <4>1. from[a] = {W(value, rest) : value \in E, rest \in F}  BY <3>3
      <4> HIDE DEF E, F, W
      <4>2. \E value \in E, rest \in F : x = W(value, rest)  BY <4>1
      <4>3. PICK value, rest : rest \in from[a + 3] /\ x = <<Char(value)>> \o rest
        BY <4>2 DEF F, W
      <4>4. rest \in Seq(Decoded) /\ Char(value) \in Decoded  BY <1>6, <3>4, <4>3
      <4> QED  BY <1>5, <4>3, <4>4
    <3> QED  BY <3>5
  <2>9. from[a] \subseteq Seq(Decoded)  BY <2>6, <2>7, <2>8
  <2>10. \A i \in a..(n + 1) : i = a \/ i \in (a + 1)..(n + 1)  BY <1>1, <2>1
  <2> QED  BY <2>1, <2>2, <2>9, <2>10 DEF Good
<1> HIDE DEF Good
<1>9. \A k \in 0..n : k \in Good  BY <1>1, <1>7, <1>8, UpTo
<1>10. n \in 0..n /\ 1 \in (n + 1 - n)..(n + 1)  BY <1>1
<1>11. n \in Good  BY <1>9, <1>10
<1> HIDE DEF n
<1> QED  BY <1>2, <1>10, <1>11 DEF Good

\* How many of a set of positions come before one.
Before(S, i) == Cardinality({j \in S : j < i})

\* Counting from below: the position with so many before it is the only one.
LEMMA Ranks ==
    ASSUME NEW n \in Nat, NEW S \in SUBSET (1..n), NEW i \in S
    PROVE  /\ Before(S, i) \in Nat /\ Before(S, i) < Cardinality(S)
           /\ Before(S, i + 1) = Before(S, i) + 1
           /\ (CHOOSE x \in S : Cardinality({j \in S : j <= x}) = Before(S, i) + 1) = i
<1> DEFINE Upto(x) == {j \in S : j <= x}
           under == {j \in S : j < i}
<1>1. \A j \in S : j \in Int  OBVIOUS
<1>2. IsFiniteSet(S) /\ Cardinality(S) \in Nat
  <2>1. IsFiniteSet(1..n)  BY FS_Interval
  <2>2. IsFiniteSet(S)  BY <2>1, FS_Subset
  <2> QED  BY <2>2, FS_CardinalityType
<1>3. \A x \in S : Upto(x) \subseteq S /\ IsFiniteSet(Upto(x)) /\ Cardinality(Upto(x)) \in Nat
  <2> TAKE x \in S
  <2>1. Upto(x) \in SUBSET S  OBVIOUS
  <2> HIDE DEF Upto
  <2> QED  BY <1>2, <2>1, FS_Subset, FS_CardinalityType
<1>4. under \in SUBSET S /\ IsFiniteSet(under) /\ Cardinality(under) \in Nat /\ i \notin under
  <2>1. under \in SUBSET S /\ i \notin under  OBVIOUS
  <2> HIDE DEF under
  <2> QED  BY <1>2, <2>1, FS_Subset, FS_CardinalityType
<1>5. Upto(i) = under \cup {i} /\ {j \in S : j < i + 1} = under \cup {i}
  <2>1. \A j \in S : (j <= i <=> j < i \/ j = i) /\ (j < i + 1 <=> j < i \/ j = i)
    BY <1>1
  <2> QED  BY <2>1
<1>6. Cardinality(under \cup {i}) = Cardinality(under) + 1
  <2> HIDE DEF under
  <2> QED  BY <1>4, FS_AddElement
<1>7. Before(S, i) = Cardinality(under) /\ Before(S, i + 1) = Cardinality(under \cup {i})
  BY <1>5 DEF Before
<1>8. Cardinality(under \cup {i}) <= Cardinality(S)
  <2>1. under \cup {i} \in SUBSET S  OBVIOUS
  <2> HIDE DEF under
  <2> QED  BY <1>2, <2>1, FS_Subset
<1>9. ASSUME NEW x \in S, Cardinality(Upto(x)) = Cardinality(Upto(i))  PROVE x = i
  <2>1. ASSUME NEW y \in S, NEW z \in S, y < z  PROVE Cardinality(Upto(y)) # Cardinality(Upto(z))
    <3>1. y \in Int /\ z \in Int /\ z <= z /\ ~(z <= y) /\ \A j \in S : j <= y => j <= z
      BY <1>1, <2>1
    <3>2. Upto(y) \in SUBSET Upto(z) /\ z \in Upto(z) /\ z \notin Upto(y)  BY <3>1
    <3> HIDE DEF Upto
    <3>3. IsFiniteSet(Upto(z))  BY <1>3
    <3> QED  BY <3>2, <3>3, FS_Subset
  <2> HIDE DEF Upto
  <2>2. ~(x < i) /\ ~(i < x)  BY <1>9, <2>1
  <2> QED  BY <2>2
<1>10. (CHOOSE x \in S : Cardinality(Upto(x)) = Before(S, i) + 1) = i
  <2>1. Cardinality(Upto(i)) = Before(S, i) + 1  BY <1>5, <1>6, <1>7
  <2> HIDE DEF Upto, under
  <2> QED  BY <1>9, <2>1
<1> HIDE DEF under
<1>11. /\ Before(S, i) \in Nat /\ Before(S, i) < Cardinality(S)
       /\ Before(S, i + 1) = Before(S, i) + 1
  BY <1>2, <1>4, <1>6, <1>7, <1>8
<1> QED  BY <1>10, <1>11, Zenon

\* The character of the text that begins at a position.
Spelled(in, i) ==
    CASE in[i] = "%" -> Char(16 * Hex[in[i + 1]] + Hex[in[i + 2]])
      [] in[i] = "+" -> SP
      [] OTHER       -> in[i]

\* What is left of the text when so many of its characters are left out.
Rest(in, k) ==
    [l \in 1..(Cardinality(Begins(in)) - k) |-> Spelled(in, Kth(Begins(in), k + l))]

\* The next character begins after the code, if there is one.
NextOf(in, i) == IF in[i] = "%" THEN i + 3 ELSE i + 1

LEMMA NextBegins ==
    ASSUME NEW in \in Seq(Alphabet), WellEncoded(in), NEW i \in Begins(in)
    PROVE  LET next == NextOf(in, i)
           IN  /\ i \in 1..Len(in) /\ next \in (i + 1)..(Len(in) + 1)
               /\ next \in Begins(in) \/ next = Len(in) + 1
               /\ \A j \in Begins(in) : j < next => j < i + 1
<1> DEFINE n == Len(in)
           next == NextOf(in, i)
<1>1. n \in Nat /\ DOMAIN in = 1..n  BY LenProperties
<1>2. i \in 1..n /\ \A j \in {i - 1, i - 2} \cap 1..n : in[j] # "%"
  BY <1>1 DEF Begins
<1>3. CASE in[i] # "%"
  <2>1. next = i + 1  BY <1>3 DEF NextOf
  <2>2. i + 1 <= n => i + 1 \in Begins(in)
    <3> SUFFICES ASSUME i + 1 <= n, NEW j \in {i + 1 - 1, i + 1 - 2} \cap 1..n
                 PROVE  in[j] # "%"
      BY <1>1, <1>2 DEF Begins
    <3>1. j = i \/ j = i - 1  BY <1>2
    <3> QED  BY <1>2, <1>3, <3>1
  <2>3. i + 1 \in (i + 1)..(n + 1) /\ (i + 1 <= n \/ i + 1 = n + 1)  BY <1>1, <1>2
  <2> QED  BY <1>2, <2>1, <2>2, <2>3
<1>4. CASE in[i] = "%"
  <2>1. next = i + 3  BY <1>4 DEF NextOf
  <2>2. /\ i + 2 <= n /\ in[i + 1] # "%" /\ in[i + 2] # "%"
    <3>1. i + 2 <= n /\ in[i + 1] \in DOMAIN Hex /\ in[i + 2] \in DOMAIN Hex
      BY <1>1, <1>2, <1>4 DEF WellEncoded
    <3> QED  BY <3>1 DEF Hex
  <2>3. i + 3 <= n => i + 3 \in Begins(in)
    <3> SUFFICES ASSUME i + 3 <= n, NEW j \in {i + 3 - 1, i + 3 - 2} \cap 1..n
                 PROVE  in[j] # "%"
      BY <1>1, <1>2 DEF Begins
    <3>1. j = i + 2 \/ j = i + 1  BY <1>2
    <3> QED  BY <2>2, <3>1
  <2>4. i + 3 \in (i + 1)..(n + 1) /\ (i + 3 <= n \/ i + 3 = n + 1)  BY <1>1, <1>2, <2>2
  <2>5. ASSUME NEW j \in Begins(in), j < i + 3  PROVE j < i + 1
    <3>1. j \in 1..n /\ \A k \in {j - 1, j - 2} \cap 1..n : in[k] # "%"
      BY <1>1 DEF Begins
    <3>2. j # i + 1
      <4> SUFFICES ASSUME j = i + 1  PROVE FALSE
        OBVIOUS
      <4>1. i \in {j - 1, j - 2} \cap 1..n  BY <1>2
      <4> QED  BY <1>4, <3>1, <4>1
    <3>3. j # i + 2
      <4> SUFFICES ASSUME j = i + 2  PROVE FALSE
        OBVIOUS
      <4>1. i \in {j - 1, j - 2} \cap 1..n  BY <1>2
      <4> QED  BY <1>4, <3>1, <4>1
    <3> QED  BY <1>2, <2>5, <3>1, <3>2, <3>3
  <2> QED  BY <1>2, <2>1, <2>3, <2>4, <2>5
<1> HIDE DEF next
<1> QED  BY <1>3, <1>4 DEF next

\* One character and the rest after it.
LEMMA RestIs ==
    ASSUME NEW in \in Seq(Alphabet), WellEncoded(in), NEW i \in Begins(in)
    PROVE  LET b == Before(Begins(in), i)
           IN  /\ Before(Begins(in), NextOf(in, i)) = b + 1
               /\ Rest(in, b) = <<Spelled(in, i)>> \o Rest(in, b + 1)
<1> DEFINE B == Begins(in)
           b == Before(B, i)
           N == Cardinality(B)
           next == NextOf(in, i)
<1>1. Len(in) \in Nat /\ B \in SUBSET (1..Len(in))
  <2>1. Len(in) \in Nat /\ DOMAIN in = 1..Len(in)  BY LenProperties
  <2> QED  BY <2>1 DEF Begins
<1>2. /\ b \in Nat /\ b < N
      /\ Before(B, i + 1) = b + 1
      /\ (CHOOSE x \in B : Cardinality({j \in B : j <= x}) = b + 1) = i
  <2> HIDE DEF B
  <2>1. i \in B  BY DEF B
  <2> QED  BY <1>1, <2>1, Ranks
<1>3. N \in Nat
  <2>1. IsFiniteSet(1..Len(in))  BY <1>1, FS_Interval
  <2> HIDE DEF B
  <2> QED  BY <1>1, <2>1, FS_Subset, FS_CardinalityType
<1>4. Before(B, next) = b + 1
  <2>1. next \in (i + 1)..(Len(in) + 1) /\ i \in 1..Len(in) /\ \A j \in B : j < next => j < i + 1
    BY NextBegins
  <2> HIDE DEF B, next
  <2>2. {j \in B : j < next} = {j \in B : j < i + 1}
    <3>1. next \in Int /\ i \in Int /\ i + 1 <= next /\ \A j \in B : j \in Int
      BY <1>1, <2>1
    <3>2. \A j \in B : j < i + 1 => j < next  BY <3>1
    <3> QED  BY <2>1, <3>2
  <2> QED  BY <1>2, <2>2 DEF Before
<1>5. Kth(B, b + 1) = i  BY <1>2 DEF Kth
<1>6. Rest(in, b) = <<Spelled(in, i)>> \o Rest(in, b + 1)
  <2> DEFINE w == Spelled(in, i)
             V(k) == Spelled(in, Kth(Begins(in), k))
  <2>1. Rest(in, b) = [l \in 1..(N - b) |-> V(b + l)]  BY DEF Rest
  <2>2. Rest(in, b + 1) = [l \in 1..(N - (b + 1)) |-> V(b + 1 + l)]  BY DEF Rest
  <2>3. V(b + 1) = w  BY <1>5
  <2> HIDE DEF w, V, N, b, B
  <2> DEFINE rest == [l \in 1..(N - (b + 1)) |-> V(b + 1 + l)]
             whole == [l \in 1..(N - b) |-> V(b + l)]
             m == N - (b + 1)
  <2>4. m \in Nat /\ N - b = m + 1  BY <1>2, <1>3
  <2>5. Len(rest) = m /\ rest \in Seq({V(b + 1 + l) : l \in 1..m})  BY <2>4
  <2>6. /\ Len(<<w>> \o rest) = m + 1 /\ DOMAIN (<<w>> \o rest) = 1..(m + 1)
        /\ (<<w>> \o rest)[1] = w
        /\ \A l \in 2..(m + 1) : (<<w>> \o rest)[l] = rest[l - 1]
    BY <2>4, <2>5
  <2>7. ASSUME NEW l \in 1..(m + 1)  PROVE (<<w>> \o rest)[l] = whole[l]
    <3>1. CASE l = 1
      BY <1>2, <2>3, <2>4, <2>6, <3>1
    <3>2. CASE l # 1
      <4>1. l \in 2..(m + 1) /\ l - 1 \in 1..m /\ b + 1 + (l - 1) = b + l
        BY <1>2, <2>4, <3>2
      <4>2. rest[l - 1] = V(b + 1 + (l - 1))  BY <4>1
      <4>3. whole[l] = V(b + l)  BY <2>4
      <4> HIDE DEF rest, whole, m
      <4> QED  BY <2>6, <4>1, <4>2, <4>3
    <3> QED  BY <3>1, <3>2
  <2>8. DOMAIN whole = 1..(m + 1) /\ whole = [l \in 1..(m + 1) |-> whole[l]]  BY <2>4
  <2>9. <<w>> \o rest = [l \in 1..(m + 1) |-> (<<w>> \o rest)[l]]
    <3>1. <<w>> \o rest \in Seq({V(b + 1 + l) : l \in 1..m} \cup {w})
      <4>1. <<w>> \in Seq({V(b + 1 + l) : l \in 1..m} \cup {w})  OBVIOUS
      <4>2. rest \in Seq({V(b + 1 + l) : l \in 1..m} \cup {w})  BY <2>4
      <4> HIDE DEF rest
      <4> QED  BY <4>1, <4>2, ConcatProperties
    <3> HIDE DEF rest, m
    <3> QED  BY <2>6, <3>1
  <2> HIDE DEF rest, whole, m
  <2>10. <<w>> \o rest = whole  BY <2>7, <2>8, <2>9
  <2> QED  BY <2>1, <2>2, <2>10 DEF rest, whole, w
<1> HIDE DEF b, next
<1> QED  BY <1>4, <1>6 DEF b, next

\* A uri whose every "%" is followed by two hex digits is decoded, to the one text it
\* means.
LEMMA UrlDecodeIs ==
    ASSUME NEW in \in Seq(Alphabet), WellEncoded(in)
    PROVE  UrlDecode(in) = {Meant(in)}
<1> DEFINE n == Len(in)
           B == Begins(in)
           from == CHOOSE f : Decodes(f, in, 1)
           Right(i) == from[i] = {Rest(in, Before(B, i))}
           Good == {k \in 0..n : \A i \in (n + 1 - k)..(n + 1) :
                                    i \in B \/ i = n + 1 => Right(i)}
<1>1. n \in Nat /\ DOMAIN in = 1..n /\ B \in SUBSET (1..n)
  <2>1. n \in Nat /\ DOMAIN in = 1..n  BY LenProperties
  <2> QED  BY <2>1 DEF Begins
<1>2. UrlDecode(in) = from[1]
  BY DEF UrlDecode, Decodes, Decoding
<1>3. Decodes(from, in, 1)  BY DecodesExists
<1> HIDE DEF from
<1>4. \A i \in 1..(n + 1) : from[i] = Decoding(from, in, i)
  BY <1>3 DEF Decodes
<1>5. Cardinality(B) \in Nat
  <2>1. IsFiniteSet(1..n)  BY <1>1, FS_Interval
  <2> HIDE DEF B
  <2> QED  BY <1>1, <2>1, FS_Subset, FS_CardinalityType
<1>6. Right(n + 1)
  <2>1. n + 1 \in 1..(n + 1) /\ n + 1 > n  BY <1>1
  <2>2. from[n + 1] = {<<>>}
    <3>1. from[n + 1] = Decoding(from, in, n + 1)  BY <1>4, <2>1
    <3>2. Decoding(from, in, n + 1) = {<<>>}  BY <2>1 DEF Decoding
    <3> QED  BY <3>1, <3>2
  <2>3. Before(B, n + 1) = Cardinality(B)
    <3> HIDE DEF B, n
    <3>1. \A j \in B : j < n + 1  BY <1>1
    <3>2. {j \in B : j < n + 1} = B  BY <3>1
    <3> QED  BY <3>2 DEF Before
  <2>4. Rest(in, Cardinality(B)) = <<>>
    <3>1. 1..(Cardinality(B) - Cardinality(B)) = {}  BY <1>5
    <3> QED  BY <3>1 DEF Rest
  <2> HIDE DEF n, B
  <2> QED  BY <2>2, <2>3, <2>4
<1>7. 0 \in Good
  <2>1. \A i \in (n + 1 - 0)..(n + 1) : i = n + 1  BY <1>1
  <2>2. 0 \in 0..n  BY <1>1
  <2> HIDE DEF Right
  <2> QED  BY <1>6, <2>1, <2>2
<1>8. ASSUME NEW k \in Nat, k < n, k \in Good  PROVE k + 1 \in Good
  <2> DEFINE a == n - k
             next == NextOf(in, a)
             b == Before(B, a)
  <2>1. /\ a \in 1..n /\ n + 1 - (k + 1) = a /\ n + 1 - k = a + 1 /\ k + 1 \in 0..n
    <3>1. k < n /\ k \in Nat /\ n \in Nat  BY <1>1, <1>8
    <3> HIDE DEF Good, n
    <3> QED  BY <3>1
  <2>2. \A i \in (a + 1)..(n + 1) : i \in B \/ i = n + 1 => Right(i)
    <3> HIDE DEF a, Right
    <3> QED  BY <1>8, <2>1
  <2> HIDE DEF a, Good
  <2>3. ASSUME a \in B  PROVE Right(a)
    <3>1. /\ next \in (a + 1)..(n + 1)
          /\ next \in B \/ next = n + 1
      BY <2>3, NextBegins
    <3>2. Right(next)
      <4> HIDE DEF Right, next
      <4> QED  BY <1>1, <2>1, <2>2, <3>1
    <3>3. Before(B, next) = b + 1 /\ Rest(in, b) = <<Spelled(in, a)>> \o Rest(in, b + 1)
      BY <2>3, RestIs
    <3>4. from[next] = {Rest(in, b + 1)}  BY <3>2, <3>3
    <3>5. from[a] = Decoding(from, in, a) /\ ~(a > n)
      BY <1>1, <1>4, <2>1
    <3> DEFINE rest == Rest(in, b + 1)
    <3>6. CASE in[a] # "%"
      <4>1. next = a + 1  BY <3>6 DEF NextOf
      <4>2. Spelled(in, a) = IF in[a] = "+" THEN SP ELSE in[a]  BY <3>6 DEF Spelled
      <4>3. from[a] = {<<Spelled(in, a)>> \o r : r \in from[a + 1]}
        BY <3>5, <3>6, <4>2 DEF Decoding
      <4> DEFINE W(r) == <<Spelled(in, a)>> \o r
                 F == from[a + 1]
      <4>4. from[a] = {W(r) : r \in F}  BY <4>3
      <4>5. F = {rest}  BY <3>4, <4>1
      <4> HIDE DEF W, F, rest
      <4>6. from[a] = {W(rest)}  BY <4>4, <4>5
      <4> QED  BY <3>3, <4>6 DEF W, rest, b
    <3>7. CASE in[a] = "%"
      <4>1. next = a + 3  BY <3>7 DEF NextOf
      <4> DEFINE v == 16 * Hex[in[a + 1]] + Hex[in[a + 2]]
      <4>2. a + 2 <= n /\ in[a + 1] \in DOMAIN Hex /\ in[a + 2] \in DOMAIN Hex
        BY <1>1, <2>1, <3>7 DEF WellEncoded
      <4>3. Extracted(in[a + 1], in[a + 2]) = {v}
        <5>1. DOMAIN Hex = {"0", "2", "e", "f"}  BY DEF Hex
        <5>2. /\ in[a + 1] \notin {"+", "-"} /\ in[a + 2] # "x"
          BY <4>2, <5>1
        <5>3. <<in[a + 1], in[a + 2]>> # <<"0", "x">>
          <6>1. <<in[a + 1], in[a + 2]>>[2] # <<"0", "x">>[2]  BY <5>2
          <6> QED  BY <6>1
        <5> QED  BY <4>2, <5>2, <5>3 DEF Extracted
      <4>4. Spelled(in, a) = Char(v)  BY <3>7 DEF Spelled
      <4> HIDE DEF v
      <4>5. ~(a + 2 > n)  BY <1>1, <2>1, <4>2
      <4>6. from[a] = {<<Char(value)>> \o r :
                          value \in Extracted(in[a + 1], in[a + 2]), r \in from[a + 3]}
        BY <3>5, <3>7, <4>5 DEF Decoding
      <4> DEFINE W(value, r) == <<Char(value)>> \o r
                 F == from[a + 3]
      <4>7. from[a] = {W(value, r) : value \in {v}, r \in F}  BY <4>3, <4>6
      <4>8. F = {rest}  BY <3>4, <4>1
      <4> HIDE DEF W, F, rest
      <4>9. from[a] = {W(v, rest)}  BY <4>7, <4>8
      <4>10. W(v, rest) = Rest(in, b)  BY <3>3, <4>4 DEF W, rest
      <4> QED  BY <4>9, <4>10 DEF b
    <3> QED  BY <3>6, <3>7
  <2>4. \A i \in a..(n + 1) : i = a \/ i \in (a + 1)..(n + 1)  BY <1>1, <2>1
  <2>5. a # n + 1  BY <1>1, <2>1
  <2> HIDE DEF Right
  <2> QED  BY <2>1, <2>2, <2>3, <2>4, <2>5 DEF Good
<1> HIDE DEF Good
<1>9. \A k \in 0..n : k \in Good
  <2> HIDE DEF n, B
  <2> QED  BY <1>1, <1>7, <1>8, UpTo
<1>10. n \in Good /\ 1 \in (n + 1 - n)..(n + 1)  BY <1>1, <1>9
<1>11. 1 \in B \/ 1 = n + 1
  <2>1. n = 0 \/ 1 \in 1..n  BY <1>1
  <2>2. \A j \in {1 - 1, 1 - 2} : j \notin 1..n  OBVIOUS
  <2> QED  BY <1>1, <2>1, <2>2 DEF Begins
<1>12. Right(1)
  <2> HIDE DEF Right
  <2> QED  BY <1>10, <1>11 DEF Good
<1>13. Before(B, 1) = 0
  <2>1. {j \in B : j < 1} = {}  BY <1>1
  <2> QED  BY <2>1, FS_EmptySet DEF Before
<1>14. Meant(in) = Rest(in, 0)
  <2> DEFINE V(k) == Spelled(in, Kth(Begins(in), k))
  <2>1. Meant(in) = [k \in 1..Cardinality(B) |-> V(k)]
    BY DEF Meant, Spelled
  <2>2. Rest(in, 0) = [l \in 1..(Cardinality(B) - 0) |-> V(0 + l)]  BY DEF Rest
  <2> HIDE DEF V, B
  <2>3. Cardinality(B) - 0 = Cardinality(B) /\ \A l \in 1..Cardinality(B) : 0 + l = l
    BY <1>5
  <2> QED  BY <2>1, <2>2, <2>3
<1> HIDE DEF B
<1> QED  BY <1>2, <1>12, <1>13, <1>14

-----------------------------------------------------------------------------
(* The name that is opened.                                                *)

Letters == Decoded \cup {"index", "html"}

\* An index is the name of no other directory.
LEMMA WithIndexOK ==
    ASSUME NEW path \in Seq(Decoded), Absolute(path), ~HasDotDot(path)
    PROVE  /\ WithIndex(path) \in Seq(Letters) /\ Absolute(WithIndex(path))
           /\ ~HasDotDot(WithIndex(path))
<1> DEFINE n == Len(path)
           tail == <<"index", ".", "html">>
           more == path \o tail
<1>1. n \in Nat /\ n # 0 /\ path[1] = "/" /\ path # <<>>
  BY EmptySeq, LenProperties DEF Absolute
<1>2. path \in Seq(Letters)
  <2>1. Decoded \subseteq Letters  BY DEF Letters
  <2> QED  BY <2>1
<1>3. \A i \in 1..(n - 1) : ~(path[i] = "." /\ path[i + 1] = ".")
  BY DEF HasDotDot
<1>4. CASE Last(path) # "/"
  <2>1. WithIndex(path) = path  BY <1>4 DEF WithIndex
  <2> QED  BY <1>2, <2>1
<1>5. CASE Last(path) = "/"
  <2>1. WithIndex(path) = more /\ path[n] = "/"
    BY <1>5 DEF WithIndex, Last
  <2>2. tail \in Seq(Letters) /\ Len(tail) = 3 /\ tail[1] = "index" /\ tail[2] = "." /\ tail[3] = "html"
    <3>1. "index" \in Letters /\ "." \in Letters /\ "html" \in Letters
      BY DEF Letters, Decoded, Alphabet
    <3> QED  BY <3>1
  <2> HIDE DEF tail
  <2>3. /\ more \in Seq(Letters) /\ Len(more) = n + 3
        /\ \A i \in 1..(n + 3) : more[i] = IF i <= n THEN path[i] ELSE tail[i - n]
    <3>1. /\ path \o tail \in Seq(Letters) /\ Len(path \o tail) = Len(path) + Len(tail)
          /\ \A i \in 1..(Len(path) + Len(tail)) :
                (path \o tail)[i] = IF i <= Len(path) THEN path[i] ELSE tail[i - Len(path)]
      BY <1>2, <2>2, ConcatProperties
    <3> QED  BY <2>2, <3>1
  <2> HIDE DEF more, n
  <2>4. /\ \A i \in 1..n : more[i] = path[i]
        /\ more[n + 1] = "index" /\ more[n + 2] = "." /\ more[n + 3] = "html"
    <3>1. /\ \A i \in 1..n : i \in 1..(n + 3) /\ i <= n
          /\ n + 1 \in 1..(n + 3) /\ n + 2 \in 1..(n + 3) /\ n + 3 \in 1..(n + 3)
          /\ ~(n + 1 <= n) /\ ~(n + 2 <= n) /\ ~(n + 3 <= n)
          /\ (n + 1) - n = 1 /\ (n + 2) - n = 2 /\ (n + 3) - n = 3
      BY <1>1
    <3> QED  BY <2>2, <2>3, <3>1
  <2>5. Absolute(more)
    <3>1. 1 \in 1..n  BY <1>1
    <3>2. more[1] = "/"  BY <1>1, <2>4, <3>1
    <3>3. more # <<>>
      <4>1. Len(more) # 0  BY <1>1, <2>3
      <4> QED  BY <4>1, EmptySeq
    <3> QED  BY <3>2, <3>3 DEF Absolute
  <2>6. ASSUME NEW i \in 1..(n + 3 - 1), more[i] = ".", more[i + 1] = "."  PROVE FALSE
    <3>1. CASE i < n
      <4>1. i \in 1..(n - 1) /\ i \in 1..n /\ i + 1 \in 1..n  BY <1>1, <3>1
      <4>2. more[i] = path[i] /\ more[i + 1] = path[i + 1]  BY <2>4, <4>1
      <4> QED  BY <1>3, <2>6, <4>1, <4>2
    <3>2. CASE i = n
      <4>1. n \in 1..n  BY <1>1
      <4> QED  BY <2>1, <2>4, <2>6, <3>2, <4>1
    <3>3. CASE i = n + 1
      BY <2>4, <2>6, <3>3
    <3>4. CASE i = n + 2
      <4>1. i + 1 = n + 3  BY <1>1, <3>4
      <4> QED  BY <2>4, <2>6, <4>1
    <3>5. i < n \/ i = n \/ i = n + 1 \/ i = n + 2  BY <1>1
    <3> QED  BY <3>1, <3>2, <3>3, <3>4, <3>5
  <2>7. ~HasDotDot(more)
    <3>1. Len(more) - 1 = n + 3 - 1  BY <1>1, <2>3
    <3> QED  BY <2>6, <3>1 DEF HasDotDot
  <2> QED  BY <2>1, <2>3, <2>5, <2>7
<1> QED  BY <1>4, <1>5

\* The beginning of a path goes up no more than the path.
LEMMA CStrOK ==
    ASSUME NEW path \in Seq(Letters), Absolute(path), ~HasDotDot(path)
    PROVE  /\ CStr(path) \in Seq(Letters) /\ Absolute(CStr(path)) /\ ~HasDotDot(CStr(path))
<1> DEFINE n == Len(path)
           I == {i \in 1..n : path[i] = "nul"}
           zero == IF I # {} THEN Min(I) ELSE 0
           short == SubSeq(path, 1, zero - 1)
<1>1. n \in Nat /\ n # 0 /\ path[1] = "/" /\ \A i \in 1..n : path[i] \in Letters
  BY EmptySeq, LenProperties, ElementOfSeq DEF Absolute
<1>2. CStr(path) = IF zero = 0 THEN path ELSE short
  BY DEF CStr, SelectInSeq
<1>3. CASE zero = 0
  BY <1>2, <1>3
<1>4. CASE zero # 0
  <2>1. zero \in I
    <3>1. I # {} /\ zero = CHOOSE x \in I : \A y \in I : x <= y
      BY <1>4 DEF Min
    <3>2. I \subseteq Nat  OBVIOUS
    <3> HIDE DEF I, zero
    <3>3. PICK x \in I : \A y \in I : <<y, x>> \notin OpToRel(<, Nat)
      BY <3>1, <3>2, WFMin, NatLessThanWellFounded
    <3>4. \A y \in I : x <= y
      <4>1. \A y \in I : ~(y < x)  BY <3>2, <3>3 DEF OpToRel
      <4> QED  BY <3>2, <4>1
    <3> QED  BY <3>1, <3>4
  <2>2. zero \in 1..n /\ path[zero] = "nul"  BY <2>1
  <2> DEFINE k == zero - 1
  <2> HIDE DEF zero, I
  <2>3. k \in 1..n
    <3>1. zero # 1  BY <1>1, <2>2
    <3> QED  BY <1>1, <2>2, <3>1
  <2>4. short = SubSeq(path, 1, k)  OBVIOUS
  <2> HIDE DEF k, short, n
  <2>5. /\ short \in Seq(Letters) /\ Len(short) = k
        /\ \A i \in 1..k : short[i] = path[i]
    <3>1. \A i \in 1..k : path[i] \in Letters  BY <1>1, <2>3
    <3>2. /\ short \in Seq(Letters) /\ Len(short) = (IF 1 <= k THEN k - 1 + 1 ELSE 0)
          /\ \A i \in 1..k - 1 + 1 : short[i] = path[1 + i - 1]
      BY <2>3, <2>4, <3>1, SubSeqProperties
    <3>3. k \in Nat /\ 1 <= k /\ k - 1 + 1 = k /\ \A i \in 1..k : 1 + i - 1 = i
      BY <2>3
    <3> QED  BY <3>2, <3>3
  <2>6. Absolute(short)
    <3>1. 1 \in 1..k  BY <2>3
    <3>2. short # <<>>  BY <2>3, <2>5, EmptySeq
    <3> QED  BY <1>1, <2>5, <3>1, <3>2 DEF Absolute
  <2>7. ~HasDotDot(short)
    <3>1. ASSUME NEW i \in 1..(k - 1), short[i] = ".", short[i + 1] = "."  PROVE FALSE
      <4>1. i \in 1..k /\ i + 1 \in 1..k /\ i \in 1..(n - 1)  BY <1>1, <2>3
      <4>2. path[i] = "." /\ path[i + 1] = "."  BY <2>5, <3>1, <4>1
      <4> QED  BY <4>1, <4>2 DEF HasDotDot, n
    <3> QED  BY <2>5, <3>1 DEF HasDotDot
  <2>8. CStr(path) = short  BY <1>2, <1>4
  <2> QED  BY <2>5, <2>6, <2>7, <2>8
<1> QED  BY <1>3, <1>4

\* A path without two dots in a row goes up nowhere.
LEMMA NoDotsInside ==
    ASSUME NEW path \in Seq(Letters), ~HasDotDot(path)
    PROVE  StaysInside(path)
<1> DEFINE n == Len(path)
<1>1. n \in Nat /\ \A i \in 1..n : path[i] \in Letters
  BY LenProperties, ElementOfSeq
<1>2. ASSUME NEW p \in Parts(path), Part(path, p) = <<".", ".">>  PROVE FALSE
  <2> DEFINE a == p[1]
             b == p[2]
             x == SubSeq(path, a, b)
  <2>1. a \in 1..n /\ b \in 1..n /\ a <= b  BY DEF Parts
  <2>2. x = <<".", ".">>  BY <1>2 DEF Part
  <2>3. Len(x) = 2 /\ x[1] = "." /\ x[2] = "."  BY <2>2
  <2> HIDE DEF x, a, b, n
  <2>4. Len(x) = b - a + 1 /\ \A i \in 1..b - a + 1 : x[i] = path[a + i - 1]
    <3>1. \A i \in a..b : path[i] \in Letters  BY <1>1, <2>1
    <3>2. a \in Int /\ b \in Int  BY <1>1, <2>1
    <3> QED  BY <2>1, <3>1, <3>2, SubSeqProperties DEF x
  <2>5. b - a + 1 = 2  BY <2>3, <2>4
  <2>6. b = a + 1 /\ a + 1 - 1 = a /\ a + 2 - 1 = a + 1 /\ a \in 1..(n - 1)
    BY <1>1, <2>1, <2>5
  <2>7. path[a] = "." /\ path[a + 1] = "."
    <3>1. 1 \in 1..b - a + 1 /\ 2 \in 1..b - a + 1  BY <2>5
    <3> QED  BY <2>3, <2>4, <2>6, <3>1
  <2> QED  BY <2>6, <2>7 DEF HasDotDot, n
<1>3. IsFiniteSet(Parts(path))
  <2>1. IsFiniteSet(1..n)
    <3> HIDE DEF n
    <3> QED  BY <1>1, FS_Interval
  <2>2. IsFiniteSet((1..n) \X (1..n))  BY <2>1, FS_Product
  <2>3. Parts(path) \subseteq (1..n) \X (1..n)  BY DEF Parts
  <2> QED  BY <2>2, <2>3, FS_Subset
<1>4. ASSUME NEW last \in Parts(path)
      PROVE  LET first == {p \in Parts(path) : p[1] <= last[1]}
             IN  Cardinality({p \in first : Part(path, p) = <<".", ".">>})
                   <= Cardinality({p \in first : Part(path, p) \notin {<<".">>, <<".", ".">>}})
  <2> DEFINE first == {p \in Parts(path) : p[1] <= last[1]}
             ups == {p \in first : Part(path, p) = <<".", ".">>}
             downs == {p \in first : Part(path, p) \notin {<<".">>, <<".", ".">>}}
  <2>1. ups = {}  BY <1>2
  <2>2. downs \subseteq Parts(path)  OBVIOUS
  <2> HIDE DEF ups, downs
  <2>3. IsFiniteSet(downs)  BY <1>3, <2>2, FS_Subset
  <2>4. Cardinality(ups) = 0 /\ Cardinality(downs) \in Nat
    BY <2>1, <2>3, FS_EmptySet, FS_CardinalityType
  <2>5. Cardinality(ups) <= Cardinality(downs)  BY <2>4
  <2> QED  BY <2>5 DEF ups, downs
<1> QED  BY <1>4 DEF StaysInside

-----------------------------------------------------------------------------
(* Replies.                                                                *)

LEMMA Joined ==
    ASSUME NEW U, NEW s \in Seq(U), NEW t \in Seq(U)
    PROVE  /\ s \o t \in Seq(U) /\ Len(s \o t) = Len(s) + Len(t)
           /\ \A i \in 1..Len(s) : (s \o t)[i] = s[i]
           /\ \A i \in 1..Len(t) : (s \o t)[Len(s) + i] = t[i]
<1>1. Len(s) \in Nat /\ Len(t) \in Nat  BY LenProperties
<1>2. /\ s \o t \in Seq(U) /\ Len(s \o t) = Len(s) + Len(t)
      /\ \A i \in 1..(Len(s) + Len(t)) :
            (s \o t)[i] = IF i <= Len(s) THEN s[i] ELSE t[i - Len(s)]
  BY ConcatProperties
<1>3. \A i \in 1..Len(s) : i \in 1..(Len(s) + Len(t)) /\ i <= Len(s)
  BY <1>1
<1>4. \A i \in 1..Len(t) : /\ Len(s) + i \in 1..(Len(s) + Len(t)) /\ ~(Len(s) + i <= Len(s))
                           /\ (Len(s) + i) - Len(s) = i
  BY <1>1
<1> QED  BY <1>1, <1>2, <1>3, <1>4

LEMMA FlattenTwo ==
    ASSUME NEW s, NEW t
    PROVE  FlattenSeq(<<s, t>>) = s \o t
<1> DEFINE seqs == <<s, t>>
           Is(f) == f = [i \in 1..Len(seqs) |-> IF i = 1 THEN seqs[i] ELSE f[i - 1] \o seqs[i]]
           f == CHOOSE g : Is(g)
           g == [i \in 1..2 |-> IF i = 1 THEN s ELSE s \o t]
<1>1. Len(seqs) = 2 /\ seqs[1] = s /\ seqs[2] = t  OBVIOUS
<1>2. FlattenSeq(seqs) = f[Len(seqs)]
  BY <1>1 DEF FlattenSeq
<1> HIDE DEF seqs
<1>3. Is(g)
  <2>1. g[1] = s /\ g[2] = s \o t /\ g = [i \in 1..2 |-> g[i]]  OBVIOUS
  <2> HIDE DEF g
  <2>2. ASSUME NEW i \in 1..2
        PROVE  g[i] = IF i = 1 THEN seqs[i] ELSE g[i - 1] \o seqs[i]
    <3>1. CASE i = 1  BY <1>1, <2>1, <3>1
    <3>2. CASE i = 2
      <4>1. i - 1 = 1 /\ i # 1  BY <3>2
      <4>2. g[i] = g[i - 1] \o seqs[i]  BY <1>1, <2>1, <3>2, <4>1
      <4> QED  BY <4>1, <4>2
    <3> QED  BY <3>1, <3>2
  <2> QED  BY <1>1, <2>1, <2>2
<1>4. Is(f)
  <2> HIDE DEF Is, g
  <2> QED  BY <1>3
<1>5. f[2] = s \o t
  <2> HIDE DEF f
  <2>1. f[1] = seqs[1]  BY <1>1, <1>4
  <2>2. f[2] = f[2 - 1] \o seqs[2]  BY <1>1, <1>4
  <2>3. 2 - 1 = 1  OBVIOUS
  <2> QED  BY <1>1, <2>1, <2>2, <2>3
<1> HIDE DEF f
<1> QED  BY <1>1, <1>2, <1>5 DEF seqs

LEMMA MinIs ==
    ASSUME NEW S, S \subseteq Nat, NEW m \in S, \A x \in S : m <= x
    PROVE  Min(S) = m
<1>1. \A x \in S : (\A y \in S : x <= y) => x = m
  <2>1. \A x \in S : x \in Nat  OBVIOUS
  <2> QED  BY <2>1
<1> QED  BY <1>1 DEF Min

\* Where the headers of a text end is told by its last four characters.
LEMMA EndsAt ==
    ASSUME NEW U, NEW wire \in Seq(U), NEW i \in 4..Len(wire)
    PROVE  SubSeq(wire, i - 3, i) = <<CR, LF, CR, LF>> <=>
             wire[i - 3] = CR /\ wire[i - 2] = LF /\ wire[i - 1] = CR /\ wire[i] = LF
<1> DEFINE x == SubSeq(wire, i - 3, i)
           y == <<CR, LF, CR, LF>>
           a == i - 3
<1>1. Len(wire) \in Nat /\ i \in Nat /\ i >= 4 /\ i <= Len(wire)  BY LenProperties
<1>2. \A j \in a..i : wire[j] \in U
  <2>1. \A j \in a..i : j \in 1..Len(wire)  BY <1>1
  <2> QED  BY <2>1, ElementOfSeq
<1>3. a \in Int /\ i \in Int /\ a <= i /\ i - a + 1 = 4  BY <1>1
<1>4. x \in Seq(U) /\ Len(x) = 4 /\ \A j \in 1..4 : x[j] = wire[a + j - 1]
  <2>1. /\ SubSeq(wire, a, i) \in Seq(U)
        /\ Len(SubSeq(wire, a, i)) = IF a <= i THEN i - a + 1 ELSE 0
        /\ \A j \in 1..i - a + 1 : SubSeq(wire, a, i)[j] = wire[a + j - 1]
    <3> HIDE DEF a
    <3> QED  BY <1>2, <1>3, SubSeqProperties
  <2> HIDE DEF a
  <2>2. SubSeq(wire, a, i) = x  BY DEF a
  <2> HIDE DEF x
  <2> QED  BY <1>3, <2>1, <2>2
<1>5. a + 1 - 1 = i - 3 /\ a + 2 - 1 = i - 2 /\ a + 3 - 1 = i - 1 /\ a + 4 - 1 = i
  BY <1>1
<1> HIDE DEF x, a
<1>6. x[1] = wire[i - 3] /\ x[2] = wire[i - 2] /\ x[3] = wire[i - 1] /\ x[4] = wire[i]
  <2>1. 1 \in 1..4 /\ 2 \in 1..4 /\ 3 \in 1..4 /\ 4 \in 1..4  OBVIOUS
  <2> QED  BY <1>4, <1>5, <2>1
<1>7. Len(y) = 4 /\ y[1] = CR /\ y[2] = LF /\ y[3] = CR /\ y[4] = LF  OBVIOUS
<1>8. x = y => x[1] = CR /\ x[2] = LF /\ x[3] = CR /\ x[4] = LF
  <2> HIDE DEF y
  <2> QED  BY <1>7
<1>9. ASSUME x[1] = CR, x[2] = LF, x[3] = CR, x[4] = LF  PROVE x = y
  <2>1. y \in Seq({CR, LF})  OBVIOUS
  <2> HIDE DEF y
  <2>2. \A j \in 1..4 : x[j] = y[j]
    <3>1. \A j \in 1..4 : j = 1 \/ j = 2 \/ j = 3 \/ j = 4  OBVIOUS
    <3> QED  BY <1>7, <1>9, <3>1
  <2>3. x \in Seq(U \cup {CR, LF}) /\ y \in Seq(U \cup {CR, LF})
    BY <1>4, <2>1
  <2> QED  BY <1>4, <1>7, <2>2, <2>3, SeqEqual
<1>10. x = y <=> wire[i - 3] = CR /\ wire[i - 2] = LF /\ wire[i - 1] = CR /\ wire[i] = LF
  BY <1>6, <1>8, <1>9
<1> QED  BY <1>10 DEF x, y, a

LEMMA FiveUnits ==
    ASSUME NEW U, NEW a \in U, NEW b \in U, NEW c \in U, NEW d \in U, NEW e \in U
    PROVE  LET s == <<a, b, c, d, e>>
           IN  /\ s \in Seq(U) /\ Len(s) = 5
               /\ s[1] = a /\ s[2] = b /\ s[3] = c /\ s[4] = d /\ s[5] = e
<1> DEFINE s == <<a, b, c, d, e>>
<1>1. s \in [1..5 -> U]
  <2>1. \A i \in 1..5 : i = 1 \/ i = 2 \/ i = 3 \/ i = 4 \/ i = 5  OBVIOUS
  <2>2. DOMAIN s = 1..5 /\ s = [i \in 1..5 |-> s[i]]  OBVIOUS
  <2>3. s[1] = a /\ s[2] = b /\ s[3] = c /\ s[4] = d /\ s[5] = e  OBVIOUS
  <2> HIDE DEF s
  <2>4. \A i \in 1..5 : s[i] \in U  BY <2>1, <2>3
  <2> QED  BY <2>2, <2>4
<1>2. s[1] = a /\ s[2] = b /\ s[3] = c /\ s[4] = d /\ s[5] = e /\ Len(s) = 5  OBVIOUS
<1> HIDE DEF s
<1>3. s \in Seq(U)  BY <1>1, SeqDef
<1> QED  BY <1>2, <1>3 DEF s

Types == {"text/html", "image/gif", "text/plain"}

\* The units of a reply, but for a size.
Words ==
    Statuses \cup Types
    \cup {"HTTP/1.0", CR, LF, NameValueSeparator, "Content-Length", "Content-Type",
          "<html><head><title>", "</title></head><body><h1>", "</h1></body></html>"}

\* A reply with the headers that HandleRequest and StockReply give it.
Labelled(status, content, type, n) ==
    [status |-> status, content |-> content,
     headers |-> <<[name |-> "Content-Length", value |-> n],
                   [name |-> "Content-Type", value |-> type]>>]

\* The text of a reply, unit by unit.
Laid(wire, content, type, n) ==
    /\ wire \in Seq(Words \cup {n}) /\ Len(wire) = 16 + Len(content)
    /\ wire[1] = "HTTP/1.0" /\ wire[2] \in Statuses /\ wire[3] = CR /\ wire[4] = LF
    /\ wire[5] = "Content-Length" /\ wire[6] = NameValueSeparator /\ wire[7] = n
    /\ wire[8] = CR /\ wire[9] = LF
    /\ wire[10] = "Content-Type" /\ wire[11] = NameValueSeparator /\ wire[12] = type
    /\ wire[13] = CR /\ wire[14] = LF /\ wire[15] = CR /\ wire[16] = LF

LEMMA Wire ==
    ASSUME NEW status, NEW content \in Seq(Words), NEW type \in Types, NEW n
    PROVE  Laid(ToBuffers(Labelled(status, content, type, n)), content, type, n)
<1> DEFINE U == Words \cup {n}
           rep == Labelled(status, content, type, n)
           line == StatusLine(status)
           size == <<"Content-Length", NameValueSeparator, n, CR, LF>>
           kind == <<"Content-Type", NameValueSeparator, type, CR, LF>>
           blank == <<CR, LF>>
           wire == ToBuffers(rep)
<1>1. /\ line \in Seq(U) /\ Len(line) = 4 /\ line[1] = "HTTP/1.0" /\ line[2] \in Statuses
      /\ line[3] = CR /\ line[4] = LF
  <2> DEFINE k == Known(status)
  <2>1. k \in Statuses  BY DEF Known, Statuses
  <2>2. k \in Words  BY <2>1 DEF Words
  <2> HIDE DEF k
  <2>3. line = <<"HTTP/1.0", k, CR, LF>>  BY DEF StatusLine, k
  <2>4. "HTTP/1.0" \in U /\ k \in U /\ CR \in U /\ LF \in U  BY <2>2 DEF Words
  <2> HIDE DEF U
  <2> QED  BY <2>1, <2>3, <2>4
<1>2. /\ size \in Seq(U) /\ Len(size) = 5 /\ size[1] = "Content-Length" /\ size[2] = NameValueSeparator
      /\ size[3] = n /\ size[4] = CR /\ size[5] = LF
  <2>1. "Content-Length" \in U /\ NameValueSeparator \in U /\ n \in U /\ CR \in U /\ LF \in U  BY DEF Words
  <2> HIDE DEF U
  <2> QED  BY <2>1, FiveUnits
<1>3. /\ kind \in Seq(U) /\ Len(kind) = 5 /\ kind[1] = "Content-Type" /\ kind[2] = NameValueSeparator
      /\ kind[3] = type /\ kind[4] = CR /\ kind[5] = LF
  <2>1. "Content-Type" \in U /\ NameValueSeparator \in U /\ type \in U /\ CR \in U /\ LF \in U
    BY DEF Words
  <2> HIDE DEF U
  <2> QED  BY <2>1, FiveUnits
<1>4. blank \in Seq(U) /\ Len(blank) = 2 /\ blank[1] = CR /\ blank[2] = LF
  <2>1. CR \in U /\ LF \in U  BY DEF Words
  <2> HIDE DEF U
  <2> QED  BY <2>1
<1>5. content \in Seq(U) /\ Len(content) \in Nat
  <2>1. Words \subseteq U  OBVIOUS
  <2> HIDE DEF U
  <2> QED  BY <2>1, LenProperties
<1>6. [i \in DOMAIN rep.headers |->
          <<rep.headers[i].name, NameValueSeparator, rep.headers[i].value, CR, LF>>] = <<size, kind>>
  <2>1. rep.headers = <<[name |-> "Content-Length", value |-> n],
                        [name |-> "Content-Type", value |-> type]>>
    BY DEF Labelled
  <2> HIDE DEF rep
  <2>2. DOMAIN rep.headers = 1..2  BY <2>1
  <2>3. /\ rep.headers[1].name = "Content-Length" /\ rep.headers[1].value = n
        /\ rep.headers[2].name = "Content-Type" /\ rep.headers[2].value = type
    BY <2>1
  <2> DEFINE F(i) == <<rep.headers[i].name, NameValueSeparator, rep.headers[i].value, CR, LF>>
  <2>4. F(1) = size /\ F(2) = kind  BY <2>3
  <2> HIDE DEF F, size, kind
  <2>5. [i \in 1..2 |-> F(i)] = <<size, kind>>
    <3>1. \A i \in 1..2 : i = 1 \/ i = 2  OBVIOUS
    <3> QED  BY <2>4, <3>1
  <2> QED  BY <2>2, <2>5 DEF F
<1>7. wire = ((line \o (size \o kind)) \o blank) \o content
  <2>1. rep.status = status /\ rep.content = content  BY DEF Labelled
  <2>2. FlattenSeq([i \in DOMAIN rep.headers |->
          <<rep.headers[i].name, NameValueSeparator, rep.headers[i].value, CR, LF>>]) = size \o kind
    <3> HIDE DEF rep, size, kind
    <3> QED  BY <1>6, FlattenTwo
  <2> HIDE DEF rep, size, kind, line, blank
  <2> QED  BY <2>1, <2>2 DEF ToBuffers, line, blank
<1> HIDE DEF line, size, kind, blank, wire, U
<1> DEFINE h == size \o kind
           lh == line \o h
           lhb == lh \o blank
<1>8. /\ h \in Seq(U) /\ Len(h) = 10
      /\ (\A i \in 1..5 : h[i] = size[i]) /\ (\A i \in 1..5 : h[5 + i] = kind[i])
  <2>1. h = size \o kind  OBVIOUS
  <2>2. size \in Seq(U) /\ kind \in Seq(U)  BY <1>2, <1>3
  <2>3. Len(size) = 5 /\ Len(kind) = 5  BY <1>2, <1>3
  <2> HIDE DEF h
  <2>4. /\ size \o kind \in Seq(U) /\ Len(size \o kind) = Len(size) + Len(kind)
        /\ \A i \in 1..Len(size) : (size \o kind)[i] = size[i]
        /\ \A i \in 1..Len(kind) : (size \o kind)[Len(size) + i] = kind[i]
    BY <2>2, Joined
  <2>5. /\ h \in Seq(U) /\ Len(h) = Len(size) + Len(kind)
        /\ \A i \in 1..Len(size) : h[i] = size[i]
        /\ \A i \in 1..Len(kind) : h[Len(size) + i] = kind[i]
    BY <2>1, <2>4
  <2> QED  BY <2>3, <2>5
<1> HIDE DEF h
<1>9. /\ lh \in Seq(U) /\ Len(lh) = 14
      /\ (\A i \in 1..4 : lh[i] = line[i]) /\ (\A i \in 1..10 : lh[4 + i] = h[i])
  <2>1. lh = line \o h  OBVIOUS
  <2>2. line \in Seq(U) /\ h \in Seq(U)  BY <1>1, <1>8
  <2>3. Len(line) = 4 /\ Len(h) = 10  BY <1>1, <1>8
  <2> HIDE DEF lh
  <2>4. /\ line \o h \in Seq(U) /\ Len(line \o h) = Len(line) + Len(h)
        /\ \A i \in 1..Len(line) : (line \o h)[i] = line[i]
        /\ \A i \in 1..Len(h) : (line \o h)[Len(line) + i] = h[i]
    BY <2>2, Joined
  <2>5. /\ lh \in Seq(U) /\ Len(lh) = Len(line) + Len(h)
        /\ \A i \in 1..Len(line) : lh[i] = line[i]
        /\ \A i \in 1..Len(h) : lh[Len(line) + i] = h[i]
    BY <2>1, <2>4
  <2> QED  BY <2>3, <2>5
<1> HIDE DEF lh
<1>10. /\ lhb \in Seq(U) /\ Len(lhb) = 16
      /\ (\A i \in 1..14 : lhb[i] = lh[i]) /\ (\A i \in 1..2 : lhb[14 + i] = blank[i])
  <2>1. lhb = lh \o blank  OBVIOUS
  <2>2. lh \in Seq(U) /\ blank \in Seq(U)  BY <1>4, <1>9
  <2>3. Len(lh) = 14 /\ Len(blank) = 2  BY <1>4, <1>9
  <2> HIDE DEF lhb
  <2>4. /\ lh \o blank \in Seq(U) /\ Len(lh \o blank) = Len(lh) + Len(blank)
        /\ \A i \in 1..Len(lh) : (lh \o blank)[i] = lh[i]
        /\ \A i \in 1..Len(blank) : (lh \o blank)[Len(lh) + i] = blank[i]
    BY <2>2, Joined
  <2>5. /\ lhb \in Seq(U) /\ Len(lhb) = Len(lh) + Len(blank)
        /\ \A i \in 1..Len(lh) : lhb[i] = lh[i]
        /\ \A i \in 1..Len(blank) : lhb[Len(lh) + i] = blank[i]
    BY <2>1, <2>4
  <2> QED  BY <2>3, <2>5
<1> HIDE DEF lhb
<1>11. /\ wire \in Seq(U) /\ Len(wire) = 16 + Len(content)
      /\ (\A i \in 1..16 : wire[i] = lhb[i])
  <2>1. wire = lhb \o content  BY <1>7 DEF lhb, lh, h
  <2>2. lhb \in Seq(U) /\ content \in Seq(U)  BY <1>5, <1>10
  <2>3. Len(lhb) = 16  BY <1>5, <1>10
  <2> HIDE DEF wire
  <2>4. /\ lhb \o content \in Seq(U) /\ Len(lhb \o content) = Len(lhb) + Len(content)
        /\ \A i \in 1..Len(lhb) : (lhb \o content)[i] = lhb[i]
        /\ \A i \in 1..Len(content) : (lhb \o content)[Len(lhb) + i] = content[i]
    BY <2>2, Joined
  <2>5. /\ wire \in Seq(U) /\ Len(wire) = Len(lhb) + Len(content)
        /\ \A i \in 1..Len(lhb) : wire[i] = lhb[i]
        /\ \A i \in 1..Len(content) : wire[Len(lhb) + i] = content[i]
    BY <2>1, <2>4
  <2> QED  BY <2>3, <2>5
<1>12. /\ wire[1] = line[1] /\ wire[2] = line[2] /\ wire[3] = line[3] /\ wire[4] = line[4]
  <2>1. lh[1] = line[1] /\ lh[2] = line[2] /\ lh[3] = line[3] /\ lh[4] = line[4]  BY <1>9
  <2>2. lhb[1] = lh[1] /\ lhb[2] = lh[2] /\ lhb[3] = lh[3] /\ lhb[4] = lh[4]  BY <1>10
  <2>3. wire[1] = lhb[1] /\ wire[2] = lhb[2] /\ wire[3] = lhb[3] /\ wire[4] = lhb[4]  BY <1>11
  <2> QED  BY <2>1, <2>2, <2>3
<1>13. /\ wire[5] = size[1] /\ wire[6] = size[2] /\ wire[7] = size[3] /\ wire[8] = size[4]
       /\ wire[9] = size[5]
  <2>1. h[1] = size[1] /\ h[2] = size[2] /\ h[3] = size[3] /\ h[4] = size[4] /\ h[5] = size[5]
    BY <1>8
  <2>2. lh[4 + 1] = h[1] /\ lh[4 + 2] = h[2] /\ lh[4 + 3] = h[3] /\ lh[4 + 4] = h[4] /\ lh[4 + 5] = h[5]
    BY <1>9
  <2>3. /\ 4 + 1 = 5 /\ 4 + 2 = 6 /\ 4 + 3 = 7 /\ 4 + 4 = 8 /\ 4 + 5 = 9
    OBVIOUS
  <2>4. \A i \in 5..9 : wire[i] = lh[i]  BY <1>10, <1>11
  <2> QED  BY <2>1, <2>2, <2>3, <2>4
<1>14. /\ wire[10] = kind[1] /\ wire[11] = kind[2] /\ wire[12] = kind[3] /\ wire[13] = kind[4]
       /\ wire[14] = kind[5]
  <2>1. h[5 + 1] = kind[1] /\ h[5 + 2] = kind[2] /\ h[5 + 3] = kind[3] /\ h[5 + 4] = kind[4] /\ h[5 + 5] = kind[5]
    BY <1>8
  <2>2. lh[4 + 6] = h[6] /\ lh[4 + 7] = h[7] /\ lh[4 + 8] = h[8] /\ lh[4 + 9] = h[9] /\ lh[4 + 10] = h[10]
    BY <1>9
  <2>3. /\ 5 + 1 = 6 /\ 5 + 2 = 7 /\ 5 + 3 = 8 /\ 5 + 4 = 9 /\ 5 + 5 = 10
        /\ 4 + 6 = 10 /\ 4 + 7 = 11 /\ 4 + 8 = 12 /\ 4 + 9 = 13 /\ 4 + 10 = 14
    OBVIOUS
  <2>4. \A i \in 10..14 : wire[i] = lh[i]  BY <1>10, <1>11
  <2> QED  BY <2>1, <2>2, <2>3, <2>4
<1>15. wire[15] = blank[1] /\ wire[16] = blank[2]
  <2>1. lhb[14 + 1] = blank[1] /\ lhb[14 + 2] = blank[2]  BY <1>10
  <2>2. 14 + 1 = 15 /\ 14 + 2 = 16  OBVIOUS
  <2>3. wire[15] = lhb[15] /\ wire[16] = lhb[16]  BY <1>11
  <2> QED  BY <2>1, <2>2, <2>3
<1>16. /\ wire \in Seq(U) /\ Len(wire) = 16 + Len(content)
       /\ wire[1] = "HTTP/1.0" /\ wire[2] \in Statuses /\ wire[3] = CR /\ wire[4] = LF
       /\ wire[5] = "Content-Length" /\ wire[6] = NameValueSeparator /\ wire[7] = n
       /\ wire[8] = CR /\ wire[9] = LF
       /\ wire[10] = "Content-Type" /\ wire[11] = NameValueSeparator /\ wire[12] = type
       /\ wire[13] = CR /\ wire[14] = LF /\ wire[15] = CR /\ wire[16] = LF
  BY <1>1, <1>2, <1>3, <1>4, <1>11, <1>12, <1>13, <1>14, <1>15
<1> QED  BY <1>16 DEF wire, U, Laid

\* What ReplyIsFramed says of a reply.
FramedReply(rep) ==
    LET wire == ToBuffers(rep)
        end  == Min({i \in 4..Len(wire) : SubSeq(wire, i - 3, i) = <<CR, LF, CR, LF>>})
        said == {wire[i + 2] : i \in {j \in 1..end : wire[j] = "Content-Length"
                                                  /\ wire[j + 1] = NameValueSeparator}}
    IN  said = {ToString(Len(wire) - end)}

LEMMA SeparatorIsNone ==
    NameValueSeparator \notin {CR, LF, "Content-Length", "Content-Type", "HTTP/1.0"}
BY Zenon DEF NameValueSeparator, CR, LF

\* Whatever the content, the headers end at the sixteenth unit and say its size once.
LEMMA LabelledIsFramed ==
    ASSUME NEW status, NEW content \in Seq(Words), NEW type \in Types
    PROVE  FramedReply(Labelled(status, content, type, ToString(Len(content))))
<1> DEFINE n == ToString(Len(content))
           wire == ToBuffers(Labelled(status, content, type, n))
           S == {i \in 4..Len(wire) : SubSeq(wire, i - 3, i) = <<CR, LF, CR, LF>>}
           J == {j \in 1..16 : wire[j] = "Content-Length" /\ wire[j + 1] = NameValueSeparator}
<1> HIDE DEF n, S
<1>1. /\ wire \in Seq(Words \cup {n}) /\ Len(wire) = 16 + Len(content)
      /\ wire[1] = "HTTP/1.0" /\ wire[2] \in Statuses /\ wire[3] = CR /\ wire[4] = LF
      /\ wire[5] = "Content-Length" /\ wire[6] = NameValueSeparator /\ wire[7] = n
      /\ wire[8] = CR /\ wire[9] = LF
      /\ wire[10] = "Content-Type" /\ wire[11] = NameValueSeparator /\ wire[12] = type
      /\ wire[13] = CR /\ wire[14] = LF /\ wire[15] = CR /\ wire[16] = LF
  <2>1. Laid(wire, content, type, n)  BY Wire
  <2> HIDE DEF wire
  <2> QED  BY <2>1 DEF Laid
<1>2. Len(content) \in Nat  BY LenProperties
<1> HIDE DEF wire
<1>3. ASSUME NEW i \in 4..Len(wire)
      PROVE  i \in S <=>
               wire[i - 3] = CR /\ wire[i - 2] = LF /\ wire[i - 1] = CR /\ wire[i] = LF
  <2>1. i \in S <=> SubSeq(wire, i - 3, i) = <<CR, LF, CR, LF>>
    <3> DEFINE P(j) == SubSeq(wire, j - 3, j) = <<CR, LF, CR, LF>>
    <3>1. S = {j \in 4..Len(wire) : P(j)}  BY DEF S
    <3> HIDE DEF P
    <3>2. i \in S <=> P(i)  BY <3>1
    <3> QED  BY <3>2 DEF P
  <2>2. SubSeq(wire, i - 3, i) = <<CR, LF, CR, LF>> <=>
          wire[i - 3] = CR /\ wire[i - 2] = LF /\ wire[i - 1] = CR /\ wire[i] = LF
    BY <1>1, EndsAt
  <2> QED  BY <2>1, <2>2, Zenon
<1>4. 16 \in S
  <2>1. 16 \in 4..Len(wire)  BY <1>1, <1>2
  <2>2. 16 - 3 = 13 /\ 16 - 2 = 14 /\ 16 - 1 = 15  OBVIOUS
  <2> QED  BY <1>1, <1>3, <2>1, <2>2
<1>5. ASSUME NEW i \in S  PROVE 16 <= i
  <2>1. i \in 4..Len(wire)
    <3> DEFINE P(j) == SubSeq(wire, j - 3, j) = <<CR, LF, CR, LF>>
    <3>1. S = {j \in 4..Len(wire) : P(j)}  BY DEF S
    <3> HIDE DEF P
    <3> QED  BY <3>1
  <2>2. wire[i - 3] = CR /\ wire[i - 2] = LF /\ wire[i - 1] = CR /\ wire[i] = LF
    BY <1>3, <2>1
  <2>3. i \in Nat /\ 4 <= i  BY <1>1, <1>2, <2>1
  <2>4. wire[2] # CR /\ type # CR  BY <1>1 DEF Statuses, Types, CR
  <2>5. \A j \in 1..12 : j + 3 = i => j \in {3, 7, 8}
    <3>1. \A j \in 1..12 : j + 3 = i => wire[j] = CR  BY <2>2, <2>3
    <3>2. /\ wire[1] # CR /\ wire[2] # CR /\ wire[4] # CR /\ wire[5] # CR /\ wire[6] # CR
          /\ wire[9] # CR /\ wire[10] # CR /\ wire[11] # CR /\ wire[12] # CR
      BY <1>1, <2>4, SeparatorIsNone DEF CR, LF
    <3>3. \A j \in {1, 2, 4, 5, 6, 9, 10, 11, 12} : wire[j] # CR  BY <3>2
    <3>4. \A j \in 1..12 : j \in {1, 2, 4, 5, 6, 9, 10, 11, 12} \cup {3, 7, 8}  OBVIOUS
    <3> HIDE DEF S
    <3> QED  BY <3>1, <3>3, <3>4
  <2>6. i # 6
    <3>1. wire[5] # CR  BY <1>1 DEF CR
    <3> QED  BY <2>2, <3>1
  <2>7. i # 10
    <3>1. wire[8] # LF  BY <1>1 DEF CR, LF
    <3> QED  BY <2>2, <3>1
  <2>8. i # 11
    <3>1. wire[10] # CR  BY <1>1 DEF CR
    <3> QED  BY <2>2, <3>1
  <2> QED  BY <2>3, <2>5, <2>6, <2>7, <2>8
<1>6. Min(S) = 16
  <2>1. S \subseteq Nat
    <3> DEFINE P(j) == SubSeq(wire, j - 3, j) = <<CR, LF, CR, LF>>
    <3>1. S = {j \in 4..Len(wire) : P(j)}  BY DEF S
    <3>2. 4..Len(wire) \subseteq Nat  BY <1>1, <1>2
    <3> HIDE DEF P
    <3> QED  BY <3>1, <3>2
  <2> QED  BY <1>4, <1>5, <2>1, MinIs
<1>7. J = {5}
  <2>1. 5 \in J  BY <1>1
  <2>2. ASSUME NEW j \in J  PROVE j = 5
    <3>1. wire[2] # "Content-Length" /\ type # "Content-Length"  BY <1>1 DEF Statuses, Types
    <3>2. /\ wire[1] # "Content-Length" /\ wire[3] # "Content-Length" /\ wire[4] # "Content-Length"
          /\ wire[6] # "Content-Length" /\ wire[8] # "Content-Length" /\ wire[9] # "Content-Length"
          /\ wire[10] # "Content-Length" /\ wire[11] # "Content-Length" /\ wire[12] # "Content-Length"
          /\ wire[13] # "Content-Length" /\ wire[14] # "Content-Length"
          /\ wire[15] # "Content-Length" /\ wire[16] # "Content-Length"
          /\ wire[8] # NameValueSeparator
      BY <1>1, <3>1, SeparatorIsNone DEF CR, LF
    <3>3. j \in {1, 2, 3, 4, 5, 6, 7, 8, 9, 10, 11, 12, 13, 14, 15, 16}  OBVIOUS
    <3>4. wire[j] = "Content-Length" /\ wire[j + 1] = NameValueSeparator  OBVIOUS
    <3>5. j # 7
      <4>1. 7 + 1 = 8  OBVIOUS
      <4> QED  BY <3>2, <3>4, <4>1
    <3> HIDE DEF J
    <3> QED  BY <3>1, <3>2, <3>3, <3>4, <3>5
  <2> HIDE DEF J
  <2> QED  BY <2>1, <2>2
<1>8. {wire[j + 2] : j \in J} = {n}
  <2>1. 5 + 2 = 7  OBVIOUS
  <2> HIDE DEF J
  <2> QED  BY <1>1, <1>7, <2>1
<1>9. Len(wire) - 16 = Len(content)  BY <1>1, <1>2
<1> HIDE DEF J
<1>10. FramedReply(Labelled(status, content, type, n))
  <2>1. {wire[j + 2] : j \in J} = {ToString(Len(wire) - 16)}
    BY <1>8, <1>9 DEF n
  <2> QED  BY <1>6, <2>1 DEF FramedReply, wire, S, J
<1> QED  BY <1>10 DEF n

-----------------------------------------------------------------------------
(* The type of the file.                                                   *)

LEMMA IsASequence ==
    ASSUME NEW U, NEW n \in Nat, NEW s \in [1..n -> U]
    PROVE  s \in Seq(U) /\ Len(s) = n
<1>1. s \in Seq(U)  BY SeqDef
<1> QED  BY <1>1, LenProperties

LEMMA DotAnd ==
    ASSUME NEW u
    PROVE  <<".">> \o <<u>> = <<".", u>>
<1> DEFINE U == {".", u}
           a == <<".">>
           b == <<u>>
           two == <<".", u>>
<1>1. a \in Seq(U) /\ Len(a) = 1 /\ a[1] = "."  OBVIOUS
<1>2. b \in Seq(U) /\ Len(b) = 1 /\ b[1] = u  OBVIOUS
<1>3. two \in Seq(U) /\ Len(two) = 2 /\ two[1] = "." /\ two[2] = u  OBVIOUS
<1> HIDE DEF a, b, two, U
<1>4. /\ a \o b \in Seq(U) /\ Len(a \o b) = Len(a) + Len(b)
      /\ \A i \in 1..Len(a) : (a \o b)[i] = a[i]
      /\ \A i \in 1..Len(b) : (a \o b)[Len(a) + i] = b[i]
  <2>1. a \in Seq(U) /\ b \in Seq(U)  BY <1>1, <1>2
  <2> QED  BY <2>1, Joined
<1>5. Len(a \o b) = 2 /\ (a \o b)[1] = "." /\ (a \o b)[2] = u
  <2>1. 1 \in 1..1 /\ 1 + 1 = 2  OBVIOUS
  <2>2. (a \o b)[1] = a[1]  BY <1>1, <1>4, <2>1
  <2>3. (a \o b)[1 + 1] = b[1]  BY <1>1, <1>2, <1>4, <2>1
  <2>4. Len(a \o b) = 1 + 1  BY <1>1, <1>2, <1>4
  <2> QED  BY <1>1, <1>2, <2>1, <2>2, <2>3, <2>4
<1>6. \A i \in 1..2 : (a \o b)[i] = two[i]
  <2>1. \A i \in 1..2 : i = 1 \/ i = 2  OBVIOUS
  <2> QED  BY <1>3, <1>5, <2>1
<1>7. a \o b \in Seq(U)  BY <1>4
<1>8. a \o b = two  BY <1>3, <1>5, <1>6, <1>7, SeqEqual
<1> QED  BY <1>8 DEF a, b, two

\* What ends in two units.
LEMMA EndsInTwo ==
    ASSUME NEW w \in Seq(Letters), NEW a \in Letters, NEW b \in Letters
    PROVE  IsSuffix(<<a, b>>, w) <=> Len(w) >= 2 /\ w[Len(w) - 1] = a /\ w[Len(w)] = b
<1> DEFINE n == Len(w)
           r == Reverse(w)
           s == Reverse(<<a, b>>)
<1>1. n \in Nat /\ \A i \in 1..n : w[i] \in Letters  BY LenProperties, ElementOfSeq
<1>2. Len(s) = 2 /\ s[1] = b /\ s[2] = a /\ s \in Seq(Letters)
  <2> DEFINE two == <<a, b>>
  <2>1. Len(two) = 2 /\ two[1] = a /\ two[2] = b  OBVIOUS
  <2> HIDE DEF two
  <2>2. s = [i \in 1..2 |-> two[2 - i + 1]]  BY <2>1 DEF Reverse, two
  <2>3. 2 - 1 + 1 = 2 /\ 2 - 2 + 1 = 1  OBVIOUS
  <2> HIDE DEF s
  <2>4. s[1] = b /\ s[2] = a  BY <2>1, <2>2, <2>3
  <2>5. s \in [1..2 -> Letters]
    <3>1. \A i \in 1..2 : i = 1 \/ i = 2  OBVIOUS
    <3> QED  BY <2>2, <2>4, <3>1
  <2>6. s \in Seq(Letters) /\ Len(s) = 2
    <3>1. 2 \in Nat  OBVIOUS
    <3> QED  BY <2>5, <3>1, IsASequence
  <2> QED  BY <2>4, <2>6
<1>3. Len(r) = n /\ r \in Seq(Letters) /\ \A i \in 1..n : r[i] = w[n - i + 1]
  <2>1. r = [i \in 1..n |-> w[n - i + 1]]  BY DEF Reverse
  <2> HIDE DEF n, r
  <2>2. \A i \in 1..n : n - i + 1 \in 1..n  BY <1>1
  <2>3. r \in [1..n -> Letters]  BY <1>1, <2>1, <2>2
  <2>4. r \in Seq(Letters) /\ Len(r) = n  BY <1>1, <2>3, IsASequence
  <2> QED  BY <2>1, <2>4
<1>4. IsSuffix(<<a, b>>, w) <=> 2 <= n /\ SubSeq(s, 1, 2) = SubSeq(r, 1, 2)
  <2>1. IsSuffix(<<a, b>>, w) <=> Len(s) <= Len(r) /\ SubSeq(s, 1, Len(s)) = SubSeq(r, 1, Len(s))
    BY DEF IsSuffix, IsPrefix
  <2> HIDE DEF n, r, s
  <2> QED  BY <1>2, <1>3, <2>1
<1> HIDE DEF r, s, n
<1>5. SubSeq(s, 1, 2) = s
  BY <1>2, SubSeqFull
<1>6. ASSUME 2 <= n
      PROVE  SubSeq(s, 1, 2) = SubSeq(r, 1, 2) <=> w[n - 1] = a /\ w[n] = b
  <2> DEFINE q == SubSeq(r, 1, 2)
  <2>1. q \in Seq(Letters) /\ Len(q) = 2 /\ q[1] = r[1] /\ q[2] = r[2]
    <3>1. \A i \in 1..2 : r[i] \in Letters
      BY <1>1, <1>3, <1>6, ElementOfSeq
    <3>2. /\ SubSeq(r, 1, 2) \in Seq(Letters)
          /\ Len(SubSeq(r, 1, 2)) = IF 1 <= 2 THEN 2 - 1 + 1 ELSE 0
          /\ \A i \in 1..2 - 1 + 1 : SubSeq(r, 1, 2)[i] = r[1 + i - 1]
      BY <1>3, <3>1, SubSeqProperties
    <3>3. 1 + 1 - 1 = 1 /\ 1 + 2 - 1 = 2 /\ 2 - 1 + 1 = 2 /\ 1 \in 1..2 /\ 2 \in 1..2 /\ 1 <= 2
      OBVIOUS
    <3> QED  BY <3>2, <3>3
  <2>2. r[1] = w[n] /\ r[2] = w[n - 1]
    <3>1. 1 \in 1..n /\ 2 \in 1..n /\ n - 1 + 1 = n /\ n - 2 + 1 = n - 1  BY <1>1, <1>6
    <3> QED  BY <1>3, <3>1
  <2> HIDE DEF q
  <2>3. s = q <=> s[1] = q[1] /\ s[2] = q[2]
    <3>1. ASSUME s[1] = q[1], s[2] = q[2]  PROVE s = q
      <4>1. \A i \in 1..2 : s[i] = q[i]
        <5>1. \A i \in 1..2 : i = 1 \/ i = 2  OBVIOUS
        <5> QED  BY <3>1, <5>1
      <4> QED  BY <1>2, <2>1, <4>1, SeqEqual
    <3> QED  BY <3>1
  <2>4. s = q <=> w[n - 1] = a /\ w[n] = b
    BY <1>2, <2>1, <2>2, <2>3
  <2> QED  BY <1>5, <2>4 DEF q
<1>7. 2 <= n <=> n >= 2  BY <1>1
<1> QED  BY <1>4, <1>6, <1>7 DEF n

\* find_last_of.
LEMMA LastOf ==
    ASSUME NEW w \in Seq(Letters), NEW c
    PROVE  LET k == FindLastOf(w, c)
           IN  /\ k \in 0..Len(w)
               /\ k # 0 => w[k] = c
               /\ \A i \in 1..Len(w) : w[i] = c => i <= k
<1> DEFINE n == Len(w)
           I == {i \in 1..n : w[i] = c}
           k == FindLastOf(w, c)
<1>1. n \in Nat  BY LenProperties
<1>2. k = IF I # {} THEN Max(I) ELSE 0
  BY DEF FindLastOf, SelectLastInSeq
<1>3. I \subseteq 1..n /\ \A i \in 1..n : i \in I <=> w[i] = c  OBVIOUS
<1> HIDE DEF I, k, n
<1>4. CASE I = {}
  <2>1. k = 0 /\ 0 \in 0..n  BY <1>1, <1>2, <1>4
  <2> QED  BY <1>3, <1>4, <2>1 DEF k, n
<1>5. CASE I # {}
  <2> DEFINE D == {d \in 0..n : n - d \in I}
  <2>1. D # {} /\ D \subseteq Nat
    <3>1. PICK i : i \in I  BY <1>5
    <3>2. i \in 1..n  BY <1>3, <3>1
    <3>3. n - i \in 0..n /\ n - (n - i) = i  BY <1>1, <3>2
    <3>4. n - i \in D  BY <3>1, <3>3
    <3> QED  BY <1>1, <3>4
  <2> HIDE DEF D
  <2>2. PICK d \in D : \A e \in D : <<e, d>> \notin OpToRel(<, Nat)
    BY <2>1, WFMin, NatLessThanWellFounded
  <2>3. \A e \in D : ~(e < d)  BY <2>1, <2>2 DEF OpToRel
  <2>4. d \in 0..n /\ n - d \in I  BY <2>2 DEF D
  <2>5. ASSUME NEW i \in I  PROVE i <= n - d
    <3>1. i \in 1..n  BY <1>3
    <3>2. n - i \in 0..n /\ n - (n - i) = i  BY <1>1, <3>1
    <3>3. n - i \in D  BY <3>2 DEF D
    <3>4. ~(n - i < d)  BY <2>3, <3>3
    <3> QED  BY <1>1, <2>4, <3>1, <3>4
  <2>6. \A x \in I : (\A y \in I : x >= y) => x = n - d
    <3>1. \A x \in I : x \in Int /\ x <= n - d  BY <1>3, <2>5
    <3>2. n - d \in Int  BY <1>1, <2>4
    <3> QED  BY <2>4, <3>1, <3>2
  <2>7. \A y \in I : n - d >= y
    <3>1. \A y \in I : y \in Int  BY <1>3
    <3>2. n - d \in Int  BY <1>1, <2>4
    <3> QED  BY <2>5, <3>1, <3>2
  <2>8. Max(I) = n - d  BY <2>4, <2>6, <2>7 DEF Max
  <2>9. k = n - d  BY <1>2, <1>5, <2>8
  <2>10. k \in 0..n /\ k \in I  BY <1>1, <2>4, <2>9
  <2>11. w[k] = c  BY <1>3, <2>10
  <2>12. \A i \in 1..n : w[i] = c => i <= k  BY <1>3, <2>5, <2>9
  <2> QED  BY <2>10, <2>11, <2>12 DEF k, n
<1> QED  BY <1>4, <1>5

\* What follows the last dot, if that is after the last slash, is one unit just when
\* the name ends in a dot and that unit.
LEMMA ExtensionIs ==
    ASSUME NEW w \in Seq(Letters), NEW u \in {"html", "f"}
    PROVE  IsSuffix(<<".", u>>, w) <=> Extension(w) = <<u>>
<1> DEFINE n == Len(w)
           dot == FindLastOf(w, ".")
           slash == FindLastOf(w, "/")
           rest == SubSeq(w, dot + 1, n)
<1>1. n \in Nat /\ \A i \in 1..n : w[i] \in Letters  BY LenProperties, ElementOfSeq
<1>2. Extension(w) = IF dot > slash THEN rest ELSE <<>>
  BY DEF Extension
<1>3. /\ dot \in 0..n /\ (dot # 0 => w[dot] = ".")
      /\ \A i \in 1..n : w[i] = "." => i <= dot
  BY LastOf
<1>4. slash \in 0..n /\ (slash # 0 => w[slash] = "/")
  BY LastOf
<1>5. IsSuffix(<<".", u>>, w) <=> n >= 2 /\ w[n - 1] = "." /\ w[n] = u
  <2>1. "." \in Letters /\ u \in Letters  BY DEF Letters, Decoded, Alphabet
  <2> QED  BY <2>1, EndsInTwo
<1> HIDE DEF dot, slash, n
<1>6. /\ rest \in Seq(Letters) /\ Len(rest) = n - dot
      /\ dot < n => rest[n - dot] = w[n]
  <2>1. \A i \in (dot + 1)..n : w[i] \in Letters  BY <1>1, <1>3
  <2>2. dot + 1 \in Int /\ n \in Int  BY <1>1, <1>3
  <2>3. /\ SubSeq(w, dot + 1, n) \in Seq(Letters)
        /\ Len(SubSeq(w, dot + 1, n)) = IF dot + 1 <= n THEN n - (dot + 1) + 1 ELSE 0
        /\ \A i \in 1..n - (dot + 1) + 1 : SubSeq(w, dot + 1, n)[i] = w[dot + 1 + i - 1]
    BY <2>1, <2>2, SubSeqProperties
  <2>4. (IF dot + 1 <= n THEN n - (dot + 1) + 1 ELSE 0) = n - dot  BY <1>1, <1>3
  <2>5. dot < n => n - dot \in 1..n - (dot + 1) + 1 /\ dot + 1 + (n - dot) - 1 = n
    BY <1>1, <1>3
  <2> QED  BY <2>3, <2>4, <2>5
<1> HIDE DEF rest
<1>7. ASSUME n >= 2, w[n - 1] = ".", w[n] = u  PROVE Extension(w) = <<u>>
  <2>1. n - 1 \in 1..n /\ n # 0  BY <1>1, <1>7
  <2>2. n - 1 <= dot  BY <1>3, <1>7, <2>1
  <2>3. dot # n  BY <1>3, <1>7, <2>1
  <2>4. dot = n - 1  BY <1>1, <1>3, <2>2, <2>3
  <2>5. slash # n /\ slash # n - 1
    <3>1. slash = n => FALSE  BY <1>4, <1>7, <2>1
    <3>2. slash = n - 1 => FALSE  BY <1>1, <1>4, <1>7, <2>1
    <3> QED  BY <3>1, <3>2
  <2>6. dot > slash  BY <1>1, <1>4, <2>4, <2>5
  <2>7. dot < n /\ n - dot = 1  BY <1>1, <2>4
  <2>8. Len(rest) = 1 /\ rest[1] = u  BY <1>6, <1>7, <2>7
  <2>9. rest = <<u>>
    <3> DEFINE one == <<u>>
    <3>1. Len(one) = 1 /\ one[1] = u /\ one \in Seq(Letters)
      <4>1. u \in Letters  BY DEF Letters, Decoded, Alphabet
      <4> QED  BY <4>1
    <3> HIDE DEF one
    <3>2. \A i \in 1..1 : rest[i] = one[i]
      <4>1. \A i \in 1..1 : i = 1  OBVIOUS
      <4> QED  BY <2>8, <3>1, <4>1
    <3>3. rest = one  BY <1>6, <2>8, <3>1, <3>2, SeqEqual
    <3> QED  BY <3>3 DEF one
  <2> QED  BY <1>2, <2>6, <2>9
<1>8. ASSUME Extension(w) = <<u>>  PROVE n >= 2 /\ w[n - 1] = "." /\ w[n] = u
  <2>1. Len(<<u>>) = 1 /\ <<u>>[1] = u /\ <<u>> # <<>>  OBVIOUS
  <2>2. dot > slash /\ rest = <<u>>  BY <1>2, <1>8, <2>1
  <2>3. Len(rest) = 1 /\ rest[1] = u  BY <2>1, <2>2
  <2>4. dot # 0  BY <1>3, <1>4, <2>2
  <2>5. n - dot = 1  BY <1>6, <2>3
  <2>6. dot < n /\ dot = n - 1 /\ n >= 2  BY <1>1, <1>3, <2>4, <2>5
  <2>7. w[n] = u  BY <1>6, <2>3, <2>5, <2>6
  <2> QED  BY <1>3, <2>4, <2>6, <2>7
<1> QED  BY <1>5, <1>7, <1>8

\* A path with no zero in it is opened whole.
LEMMA NoZero ==
    ASSUME NEW p \in Seq(Decoded), "nul" \notin Range(p)
    PROVE  CStr(WithIndex(p)) = WithIndex(p)
<1> DEFINE w == WithIndex(p)
           I == {i \in 1..Len(w) : w[i] = "nul"}
           tail == <<"index", ".", "html">>
<1>1. Len(p) \in Nat /\ \A i \in 1..Len(p) : p[i] # "nul"
  <2>1. DOMAIN p = 1..Len(p) /\ Len(p) \in Nat  BY LenProperties
  <2> QED  BY <2>1 DEF Range
<1>2. ASSUME NEW i \in 1..Len(w)  PROVE w[i] # "nul"
  <2>1. CASE w = p
    <3> HIDE DEF w
    <3> QED  BY <1>1, <2>1
  <2>2. CASE w = p \o tail
    <3>1. p \in Seq(Letters)
      <4>1. Decoded \subseteq Letters  BY DEF Letters
      <4> QED  BY <4>1
    <3>2. tail \in Seq(Letters) /\ Len(tail) = 3 /\ \A j \in 1..3 : tail[j] # "nul"
      <4>1. "index" \in Letters /\ "." \in Letters /\ "html" \in Letters
        BY DEF Letters, Decoded, Alphabet
      <4>2. tail[1] # "nul" /\ tail[2] # "nul" /\ tail[3] # "nul"  OBVIOUS
      <4>3. tail \in Seq(Letters) /\ Len(tail) = 3  BY <4>1
      <4>4. \A j \in 1..3 : j = 1 \/ j = 2 \/ j = 3  OBVIOUS
      <4> HIDE DEF tail
      <4> QED  BY <4>2, <4>3, <4>4
    <3> HIDE DEF w, tail
    <3>3. /\ p \o tail \in Seq(Letters) /\ Len(p \o tail) = Len(p) + Len(tail)
          /\ \A j \in 1..Len(p) : (p \o tail)[j] = p[j]
          /\ \A j \in 1..Len(tail) : (p \o tail)[Len(p) + j] = tail[j]
      <4>1. tail \in Seq(Letters)  BY <3>2
      <4> QED  BY <3>1, <4>1, Joined
    <3>4. /\ Len(w) = Len(p) + 3
          /\ \A j \in 1..Len(p) : w[j] # "nul"
          /\ \A j \in 1..3 : w[Len(p) + j] # "nul"
      BY <1>1, <2>2, <3>2, <3>3
    <3>5. i \in 1..Len(p) \/ \E j \in 1..3 : i = Len(p) + j
      <4>1. ~(i \in 1..Len(p)) => i - Len(p) \in 1..3 /\ i = Len(p) + (i - Len(p))
        BY <1>1, <3>4
      <4> QED  BY <4>1
    <3> QED  BY <3>4, <3>5
  <2> QED  BY <2>1, <2>2 DEF WithIndex
<1>3. I = {}  BY <1>2
<1>4. CStr(w) = IF (IF I # {} THEN Min(I) ELSE 0) = 0 THEN w
                ELSE SubSeq(w, 1, (IF I # {} THEN Min(I) ELSE 0) - 1)
  BY DEF CStr, SelectInSeq
<1> HIDE DEF I, w
<1>5. CStr(w) = w  BY <1>3, <1>4
<1> QED  BY <1>5 DEF w

-----------------------------------------------------------------------------
(* The invariant.                                                          *)

Labelling ==
    \/ reply = NoReply
    \/ \E status \in Statuses, content \in Seq(Words), type \in Types :
         reply = Labelled(status, content, type, ToString(Len(content)))

Rooted ==
    \A path \in opened : path \in Seq(Letters) /\ Absolute(path) /\ ~HasDotDot(path)

\* A file is sent for a whole request alone, and its type is that of the path.
Matching ==
    /\ reply.status = "ok" => result = "good"
    /\ result = "good" =>
         \/ Servable(req.uri) = {} /\ opened = {} /\ reply.status = "bad_request"
         \/ \E p \in Servable(req.uri) :
              /\ opened = {CStr(WithIndex(p))}
              /\ \/ reply.status = "not_found"
                 \/ /\ reply.status = "ok"
                    /\ reply.headers[2].value = ExtensionToType(Extension(WithIndex(p)))

IInv ==
    /\ Machine \in Machines /\ input \in Seq(Alphabet)
    /\ Rooted /\ Labelling /\ Matching

\* Refuse gives a reply with both headers.
LEMMA RefuseOK ==
    ASSUME NEW status \in {"bad_request", "not_found"}, Refuse(status)
    PROVE  Labelling' /\ reply'.status = status
<1> DEFINE content == StockContent(status)
<1>1. content \in Seq(Words)
  <2> DEFINE a == "<html><head><title>"
             b == Known(status)
             c == "</title></head><body><h1>"
             d == "</h1></body></html>"
  <2>1. content = <<a, b, c, b, d>>  BY DEF StockContent
  <2>2. a \in Words /\ c \in Words /\ d \in Words  BY DEF Words
  <2>3. b \in Words  BY DEF Words, Known, Statuses
  <2> HIDE DEF a, b, c, d, content
  <2> QED  BY <2>1, <2>2, <2>3, FiveUnits
<1>2. "text/html" \in Types /\ status \in Statuses  BY DEF Types, Statuses
<1>3. reply' = Labelled(status, content, "text/html", ToString(Len(content)))
  BY DEF Refuse, StockReply, Labelled, Headers
<1> HIDE DEF content
<1>4. Labelling'  BY <1>1, <1>2, <1>3 DEF Labelling
<1>5. reply'.status = status  BY <1>3 DEF Labelled
<1> QED  BY <1>4, <1>5

\* Every file has one of the types.
LEMMA TypeOfExtension ==
    ASSUME NEW extension
    PROVE  ExtensionToType(extension) \in Types
<1>1. DOMAIN Mappings = {<<"html">>, <<"f">>} /\ \A x \in DOMAIN Mappings : Mappings[x] \in Types
  BY DEF Mappings, Types
<1> QED  BY <1>1 DEF ExtensionToType, Types

\* The handler opens a path below the root, if any, and gives a reply with both headers.
LEMMA HandleRequestOK ==
    ASSUME req' \in Requests, result' = "good", HandleRequest(req')
    PROVE  Rooted' /\ Labelling' /\ Matching'
<1> DEFINE uri == req'.uri
<1>1. UrlDecode(uri) \subseteq Seq(Decoded)
  <2>1. uri \in Seq(Alphabet)  BY DEF Requests
  <2> HIDE DEF uri
  <2> QED  BY <2>1, UrlDecodeOK
<1>2. CASE Servable(uri) = {}
  <2>1. Refuse("bad_request") /\ opened' = {}  BY <1>2 DEF HandleRequest
  <2>2. Labelling' /\ reply'.status = "bad_request"  BY <2>1, RefuseOK
  <2>3. Matching'  BY <1>2, <2>1, <2>2 DEF Matching
  <2> QED  BY <2>1, <2>2, <2>3 DEF Rooted
<1>3. CASE Servable(uri) # {}
  <2>1. PICK path \in {WithIndex(p) : p \in Servable(uri)} :
          /\ opened' = {CStr(path)}
          /\ \/ Refuse("not_found")
             \/ \E content \in Files :
                  reply' = [status |-> "ok", content |-> content,
                            headers |-> Headers(Len(content),
                                                ExtensionToType(Extension(path)))]
    BY <1>3 DEF HandleRequest
  <2>2. PICK p \in Servable(uri) : path = WithIndex(p)  OBVIOUS
  <2> HIDE DEF uri
  <2>3. p \in Seq(Decoded) /\ Absolute(p) /\ ~HasDotDot(p)  BY <1>1, <2>2 DEF Servable
  <2>4. path \in Seq(Letters) /\ Absolute(path) /\ ~HasDotDot(path)
    BY <2>2, <2>3, WithIndexOK
  <2>5. Rooted'
    BY <2>1, <2>4, CStrOK DEF Rooted
  <2>6. CASE Refuse("not_found")
    <3>1. Labelling' /\ reply'.status = "not_found"  BY <2>6, RefuseOK
    <3>2. p \in Servable(req'.uri)  BY <2>2 DEF uri
    <3>3. opened' = {CStr(WithIndex(p))}  BY <2>1, <2>2
    <3>4. Matching'  BY <3>1, <3>2, <3>3 DEF Matching
    <3> QED  BY <2>5, <3>1, <3>4
  <2>7. CASE \E content \in Files :
               reply' = [status |-> "ok", content |-> content,
                         headers |-> Headers(Len(content), ExtensionToType(Extension(path)))]
    <3> DEFINE type == ExtensionToType(Extension(path))
    <3>1. type \in Types  BY TypeOfExtension
    <3> HIDE DEF type
    <3>2. PICK content \in Files :
            reply' = [status |-> "ok", content |-> content,
                      headers |-> Headers(Len(content), type)]
      BY <2>7 DEF type
    <3>3. content \in Seq(Words)
      <4>1. CR \in Words /\ LF \in Words  BY DEF Words
      <4>2. <<>> \in Seq(Words) /\ <<CR, LF, CR, LF>> \in Seq(Words)  BY <4>1
      <4> QED  BY <4>2 DEF Files
    <3>4. reply' = Labelled("ok", content, type, ToString(Len(content)))
      BY <3>2 DEF Labelled, Headers
    <3>5. "ok" \in Statuses  BY DEF Statuses
    <3>6. Labelling'  BY <3>1, <3>3, <3>4, <3>5 DEF Labelling
    <3>7. reply'.headers[2].value = type
      BY <3>4 DEF Labelled
    <3>8. Matching'
      <4>1. p \in Servable(req'.uri)  BY <2>2 DEF uri
      <4>2. opened' = {CStr(WithIndex(p))}  BY <2>1, <2>2
      <4>3. reply'.headers[2].value = ExtensionToType(Extension(WithIndex(p)))
        BY <2>2, <3>7 DEF type
      <4>4. reply'.status = "ok"  BY <3>4 DEF Labelled
      <4> QED  BY <4>1, <4>2, <4>3, <4>4 DEF Matching
    <3> QED  BY <2>5, <3>6, <3>8
  <2> QED  BY <2>1, <2>6, <2>7
<1> QED  BY <1>2, <1>3

\* So does the handler of a read, whatever the parser says.
LEMMA RespondOK ==
    ASSUME Machine' \in Machines, Rooted, Labelling, Matching, result = "indeterminate",
           Respond
    PROVE  Rooted' /\ Labelling' /\ Matching'
<1>1. req' \in Requests  BY DEF Machine, Machines
<1>2. CASE result' = "good"
  <2>1. HandleRequest(req')  BY <1>2 DEF Respond
  <2> QED  BY <1>1, <1>2, <2>1, HandleRequestOK
<1>3. CASE result' = "bad"
  <2>1. Refuse("bad_request") /\ opened' = opened
    BY <1>3 DEF Respond
  <2>2. Labelling' /\ reply'.status = "bad_request"  BY <2>1, RefuseOK
  <2>3. Matching'  BY <1>3, <2>2 DEF Matching
  <2> QED  BY <2>1, <2>2, <2>3 DEF Rooted
<1>4. CASE result' \notin {"good", "bad"}
  <2>1. reply' = reply /\ opened' = opened
    BY <1>4 DEF Respond
  <2>2. reply.status # "ok"  BY DEF Matching
  <2> QED  BY <1>4, <2>1, <2>2 DEF Rooted, Labelling, Matching
<1> QED  BY <1>2, <1>3, <1>4

LEMMA InitOK == InitHandler => IInv
<1> SUFFICES ASSUME InitHandler  PROVE IInv
  OBVIOUS
<1> USE DEF InitHandler, Init
<1>1. Machine \in Machines
  <2> DEFINE first == [method |-> <<>>, uri |-> <<>>, major |-> 0, minor |-> 0, headers |-> <<>>]
  <2>1. first \in Requests
    <3>1. <<>> \in Seq(Alphabet) /\ <<>> \in Seq(HeaderRecs)  OBVIOUS
    <3> QED  BY <3>1 DEF Requests
  <2>2. "method_start" \in States /\ "method_start" \notin InHeader
    BY DEF States, MethodOrUri, InHeader
  <2>3. Machine = [state |-> "method_start", result |-> "indeterminate", req |-> first]
    BY DEF Machine
  <2> HIDE DEF first
  <2> QED  BY <2>1, <2>2, <2>3 DEF Machines
<1>2. input \in Seq(Alphabet)  OBVIOUS
<1>3. Rooted /\ Labelling /\ Matching
  BY DEF Rooted, Labelling, Matching, NoReply
<1> QED  BY <1>1, <1>2, <1>3 DEF IInv

LEMMA StepOK == IInv /\ [NextHandler]_handlerVars => IInv'
<1> SUFFICES ASSUME IInv, [NextHandler]_handlerVars  PROVE IInv'
  OBVIOUS
<1> USE DEF IInv
<1>1. ASSUME NEW text \in Seq(Alphabet), Parse(text), Respond
      PROVE  IInv'
  <2>1. Machine' \in Machines /\ input' \in Seq(Alphabet)  BY <1>1, ParseOK
  <2>2. Rooted' /\ Labelling' /\ Matching'
    <3>1. result = "indeterminate"  BY <1>1 DEF Parse
    <3> QED  BY <1>1, <2>1, <3>1, RespondOK
  <2> QED  BY <2>1, <2>2
<1>2. ASSUME NEW c \in Chars(state), Some(c), Respond  PROVE IInv'
  <2>1. c \in Alphabet  BY DEF Chars, Alphabet
  <2>2. <<c>> \in Seq(Alphabet)  BY <2>1
  <2>3. Parse(<<c>>)  BY <1>2 DEF Some
  <2> QED  BY <1>1, <1>2, <2>2, <2>3
<1>3. ASSUME NEW text \in UriTexts, Parse(text), Respond  PROVE IInv'
  <2>1. text \in Seq(Alphabet)
    <3>1. {"/", ".", "%", "+", "-", "x", "0", "2", "e", "f", "H", "T", "P", "1", SP, CR, LF}
            \subseteq Alphabet
      BY DEF Alphabet
    <3>2. PlainEnd \in Seq(Alphabet)
      <4>1. /\ SP \in Alphabet /\ "H" \in Alphabet /\ "T" \in Alphabet /\ "P" \in Alphabet
            /\ "/" \in Alphabet /\ "1" \in Alphabet /\ "." \in Alphabet /\ "0" \in Alphabet
            /\ CR \in Alphabet /\ LF \in Alphabet
        BY DEF Alphabet
      <4> QED  BY <4>1 DEF PlainEnd
    <3>3. <<"%", "2", "f">> \in Seq(Alphabet)
      <4>1. "%" \in Alphabet /\ "2" \in Alphabet /\ "f" \in Alphabet  BY <3>1
      <4> QED  BY <4>1
    <3>4. DOMAIN Hex = {"0", "2", "e", "f"}  BY DEF Hex
    <3>5. \A c \in {"/", ".", "%", "+", "-", "x"} \cup DOMAIN Hex : <<c>> \in Seq(Alphabet)
      <4>1. \A c \in {"/", ".", "%", "+", "-", "x"} \cup DOMAIN Hex : c \in Alphabet
        BY <3>1, <3>4
      <4> QED  BY <4>1
    <3>6. \/ text \in {<<"/">>, <<"%", "2", "f">>, PlainEnd}
          \/ \E c \in {"/", ".", "%", "+", "-", "x"} \cup DOMAIN Hex : text = <<c>>
      BY DEF UriTexts
    <3> QED  BY <3>2, <3>3, <3>5, <3>6
  <2> QED  BY <1>1, <1>3, <2>1
<1>4. CASE UNCHANGED handlerVars
  BY <1>4 DEF handlerVars, vars, Machine, Rooted, Labelling, Matching
<1> QED  BY <1>2, <1>3, <1>4 DEF NextHandler

LEMMA Always == HandlerSpec => []IInv
BY InitOK, StepOK, PTL DEF HandlerSpec

-----------------------------------------------------------------------------
(* The verdict and the request, at every character of every text.          *)

\* The beginning of every text is known for what it is.
LEMMA InitFaithful == InitHandler => Faithful(Machine, input)
<1> SUFFICES ASSUME InitHandler  PROVE Faithful(Machine, input)
  OBVIOUS
<1>1. /\ Machine.state = "method_start" /\ Machine.result = "indeterminate"
      /\ Machine.req.headers = <<>> /\ input = <<>>
  BY DEF InitHandler, Init, Machine
<1>2. <<>> \in Seq(Alphabet) /\ Len(<<>>) = 0  OBVIOUS
<1>3. Newlines(<<>>) = {} /\ Lines(<<>>) = {}
  <2>1. Newlines(<<>>) = {}  BY DEF Newlines
  <2> QED  BY <2>1 DEF Lines
<1>4. Open(<<>>, 1) /\ Whole(<<>>)
  BY <1>2, <1>3 DEF Open, Whole
<1>5. InFirst("method_start", <<>>)
  BY <1>2 DEF InFirst, Letters5
<1>6. "method_start" \in FirstStates /\ "method_start" # "header_line_start"
  BY DEF FirstStates, MethodOrUri
<1>7. Leading("method_start", <<>>, 1)
  BY <1>4, <1>5, <1>6 DEF Leading
<1>8. Knows("method_start", <<>>, 1, <<>>)
  BY <1>6 DEF Knows
<1>9. Sound(Machine, input)  BY <1>1, <1>7, <1>8 DEF Sound
<1>10. Machine.req = Begin(<<>>, <<>>, <<>>, <<>>)
  <2>1. Number(<<>>) = 0  BY NumberGrows
  <2> QED  BY <2>1 DEF InitHandler, Init, Machine, Begin
<1>11. Span(<<>>, 1, Len(<<>>) + 1) = <<>>
  <2>1. (Len(<<>>) + 1) - 1 = 0  BY <1>2
  <2>2. SubSeq(<<>>, 1, 0) = <<>>  BY SubSeqEmpty
  <2> QED  BY <2>1, <2>2 DEF Span
<1>12. KeptFirst("method_start", <<>>, Machine.req)
  <2> DEFINE r == Machine.req
  <2>1. r = Begin(Span(<<>>, 1, Len(<<>>) + 1), <<>>, <<>>, <<>>)  BY <1>10, <1>11
  <2>2. "method_start" \notin DOMAIN Letters5  BY DEF Letters5
  <2> HIDE DEF r
  <2> QED  BY <2>1, <2>2 DEF KeptFirst, r
<1>13. Says("method_start", <<>>, 1, Machine.req)  BY <1>6, <1>12 DEF Says
<1>14. Means(Machine, input)  BY <1>1, <1>4, <1>13 DEF Means
<1> QED  BY <1>9, <1>14 DEF Faithful

\* What may be read of a uri, and what may follow it, ends no request before its end.
LEMMA UriTextGoesOn ==
    ASSUME NEW text \in UriTexts
    PROVE  /\ text \in Seq(Alphabet)
           /\ \E states :
                /\ states[1] = "uri"
                /\ \A i \in 1..(Len(text) - 1) : \A headers :
                     /\ After(states[i], text[i], headers) = states[i + 1]
                     /\ states[i + 1] \in States
<1> DEFINE Singles == {"/", ".", "%", "+", "-", "x"} \cup DOMAIN Hex
<1>1. /\ \A c \in Singles : c \in Alphabet
      /\ \A c \in {SP, "H", "T", "P", "/", "1", ".", "0", CR, LF} : c \in Alphabet
  BY DEF Hex, Alphabet
<1>2. text \in {<<"/">>, <<"%", "2", "f">>, PlainEnd} \/ \E c \in Singles : text = <<c>>
  BY DEF UriTexts
<1>3. ASSUME NEW c \in Singles, text = <<c>>
      PROVE  /\ text \in Seq(Alphabet)
             /\ \E states :
                  /\ states[1] = "uri"
                  /\ \A i \in 1..(Len(text) - 1) : \A headers :
                       /\ After(states[i], text[i], headers) = states[i + 1]
                       /\ states[i + 1] \in States
  <2>1. c \in Alphabet  BY <1>1
  <2> DEFINE states == <<"uri">>
  <2>2. states[1] = "uri"  OBVIOUS
  <2>3. Len(text) - 1 = 0 /\ text \in Seq(Alphabet)  BY <1>3, <2>1
  <2> HIDE DEF states
  <2>4. \A i \in 1..(Len(text) - 1) : FALSE
    <3>1. 1..0 = {}  OBVIOUS
    <3> QED  BY <2>3, <3>1
  <2>5. \A i \in 1..(Len(text) - 1) : \A headers :
          /\ After(states[i], text[i], headers) = states[i + 1]
          /\ states[i + 1] \in States
    BY <2>4
  <2> QED  BY <2>2, <2>3, <2>5
<1>4. CASE text = <<"%", "2", "f">>
  <2>1. "%" \in Alphabet /\ "2" \in Alphabet /\ "f" \in Alphabet  BY DEF Alphabet
  <2> DEFINE states == <<"uri", "uri", "uri">>
  <2>2. /\ text \in Seq(Alphabet) /\ Len(text) = 3 /\ text[1] = "%" /\ text[2] = "2"
        /\ states[1] = "uri" /\ states[2] = "uri" /\ states[3] = "uri"
    BY <1>4, <2>1
  <2> HIDE DEF states
  <2>3. \A headers : After("uri", "%", headers) = "uri" /\ After("uri", "2", headers) = "uri"
    BY DEF After, InMethodOrUri, MethodOrUri, IsCtl, SP, TAB, CR, LF
  <2>4. "uri" \in States  BY DEF States, MethodOrUri
  <2>5. ASSUME NEW i \in 1..(Len(text) - 1), NEW headers
        PROVE  After(states[i], text[i], headers) = states[i + 1] /\ states[i + 1] \in States
    <3>1. i = 1 \/ i = 2  BY <2>2
    <3>2. CASE i = 1
      <4>1. i + 1 = 2  BY <3>2
      <4> QED  BY <2>2, <2>3, <2>4, <3>2, <4>1
    <3>3. CASE i = 2
      <4>1. i + 1 = 3  BY <3>3
      <4> QED  BY <2>2, <2>3, <2>4, <3>3, <4>1
    <3> QED  BY <3>1, <3>2, <3>3
  <2> QED  BY <2>2, <2>5
<1>5. CASE text = PlainEnd
  <2>1. PlainEnd \in Seq(Alphabet) /\ Len(PlainEnd) = 13
    <3>1. /\ SP \in Alphabet /\ "H" \in Alphabet /\ "T" \in Alphabet /\ "P" \in Alphabet
          /\ "/" \in Alphabet /\ "1" \in Alphabet /\ "." \in Alphabet /\ "0" \in Alphabet
          /\ CR \in Alphabet /\ LF \in Alphabet
      BY <1>1
    <3> QED  BY <3>1 DEF PlainEnd
  <2> DEFINE states == [i \in 1..13 |-> PlainStates[i + 2]]
  <2>2. states[1] = "uri"
    <3>1. states[1] = PlainStates[3]  OBVIOUS
    <3> QED  BY <3>1 DEF PlainStates
  <2>3. \A i \in 1..13 : states[i] = PlainStates[i + 2]  OBVIOUS
  <2> HIDE DEF states
  <2>4. ASSUME NEW i \in 1..12, NEW headers
        PROVE  /\ After(PlainStates[i + 2], PlainEnd[i], headers) = PlainStates[i + 3]
               /\ PlainStates[i + 3] \in States
    <3>1. i \in {1, 2, 3, 4, 5, 6, 7, 8, 9, 10, 11, 12}  OBVIOUS
    <3>2. PlainStates[i + 3] \in States
      BY <3>1 DEF PlainStates, States, MethodOrUri, Version
    <3>3. /\ After("uri", SP, headers) = "http_version_h"
          /\ After("header_line_start", CR, headers) = "expecting_newline_3"
      <4>1. ~IsToken(CR) /\ CR \notin {SP, TAB}
        BY DEF IsToken, IsChar, IsCtl, IsTspecial, CR, LF, SP, TAB
      <4> QED  BY <4>1 DEF After, InMethodOrUri, InHeaders, MethodOrUri, Version
    <3>4. /\ After("http_version_h", "H", headers) = "http_version_t_1"
          /\ After("http_version_t_1", "T", headers) = "http_version_t_2"
          /\ After("http_version_t_2", "T", headers) = "http_version_p"
          /\ After("http_version_p", "P", headers) = "http_version_slash"
          /\ After("http_version_slash", "/", headers) = "http_version_major_start"
      BY DEF After, InVersion, MethodOrUri, Version
    <3>5. /\ After("http_version_major_start", "1", headers) = "http_version_major"
          /\ After("http_version_major", ".", headers) = "http_version_minor_start"
          /\ After("http_version_minor_start", "0", headers) = "http_version_minor"
          /\ After("http_version_minor", CR, headers) = "expecting_newline_1"
          /\ After("expecting_newline_1", LF, headers) = "header_line_start"
      BY DEF After, InVersion, MethodOrUri, Version, Digits, CR
    <3> QED  BY <3>1, <3>2, <3>3, <3>4, <3>5 DEF PlainStates, PlainEnd
  <2>5. ASSUME NEW i \in 1..(Len(text) - 1), NEW headers
        PROVE  After(states[i], text[i], headers) = states[i + 1] /\ states[i + 1] \in States
    <3>1. i \in 1..12 /\ i \in 1..13 /\ i + 1 \in 1..13 /\ i + 1 + 2 = i + 3  BY <1>5, <2>1
    <3>2. states[i] = PlainStates[i + 2] /\ states[i + 1] = PlainStates[i + 3]  BY <2>3, <3>1
    <3> QED  BY <1>5, <2>4, <3>1, <3>2
  <2> QED  BY <1>5, <2>1, <2>2, <2>5
<1>6. "/" \in Singles  OBVIOUS
<1> HIDE DEF Singles
<1> QED  BY <1>2, <1>3, <1>4, <1>5, <1>6

\* The strengthening: what is known of all the input, and what has been kept of it.
VInv == IInv /\ Faithful(Machine, input)

LEMMA StepFaithful == VInv /\ [NextHandler]_handlerVars => VInv'
<1> SUFFICES ASSUME IInv, Faithful(Machine, input), [NextHandler]_handlerVars
             PROVE  Faithful(Machine', input')
  BY StepOK DEF VInv
<1>1. Machine \in Machines /\ input \in Seq(Alphabet)  BY DEF IInv
<1>2. ASSUME NEW c \in Chars(state), Some(c)  PROVE Faithful(Machine', input')
  <2>1. c \in Alphabet  BY DEF Chars, Alphabet
  <2> DEFINE states == <<state>>
  <2>2. <<c>> \in Seq(Alphabet) /\ Len(<<c>>) - 1 = 0 /\ states[1] = state  BY <2>1
  <2>3. Parse(<<c>>)  BY <1>2 DEF Some
  <2> HIDE DEF states
  <2>4. \A i \in 1..(Len(<<c>>) - 1) : FALSE  BY <2>2
  <2> QED  BY <1>1, <2>2, <2>3, <2>4, ParseFaithful
<1>3. ASSUME NEW text \in UriTexts, state = "uri", Parse(text)  PROVE Faithful(Machine', input')
  BY <1>1, <1>3, UriTextGoesOn, ParseFaithful
<1>4. CASE UNCHANGED handlerVars
  BY <1>4 DEF handlerVars, vars, Machine
<1> QED  BY <1>2, <1>3, <1>4 DEF NextHandler

\* request_parser::parse: good when a complete request has been parsed, bad as soon as
\* no more characters can make one, and indeterminate when they can: whatever the text.
THEOREM ParserVerdict == HandlerSpec => []VerdictIsRight
<1>1. InitHandler => VInv  BY InitOK, InitFaithful DEF VInv
<1>2. VInv => VerdictIsRight  BY SoundVerdict DEF VInv, IInv, Faithful
<1> QED  BY <1>1, <1>2, StepFaithful, PTL DEF HandlerSpec

\* request_parser::consume: the request of a good verdict is the one its text says, its
\* first line, its headers in their order and what is folded into each: whatever its length.
THEOREM RequestsAreMeant == HandlerSpec => []RequestIsMeant
<1>1. InitHandler => VInv  BY InitOK, InitFaithful DEF VInv
<1>2. VInv => RequestIsMeant  BY DEF VInv, Faithful, Means, RequestIsMeant, Machine
<1> QED  BY <1>1, <1>2, StepFaithful, PTL DEF HandlerSpec

-----------------------------------------------------------------------------
\* request_parser::consume: whenever it adds to headers.back() there is a header,
\* whatever the characters and however they are divided among the reads.
THEOREM HeaderExists == HandlerSpec => []BackExists
<1>1. IInv => BackExists
  BY DEF IInv, Machine, Machines, InHeader, BackExists
<1> QED  BY <1>1, Always, PTL

\* request_handler: however long the uri, and however it goes on after the slash it
\* begins with, plain or encoded, the name given to ifstream is absolute, so that
\* it goes on in doc_root_, and never goes up and out of it.
THEOREM NothingOutside == HandlerSpec => []PathStaysInside
<1>1. IInv => PathStaysInside
  BY NoDotsInside DEF IInv, Rooted, PathStaysInside
<1> QED  BY <1>1, Always, PTL

\* reply::to_buffers: a reader that looks for the first empty line finds the end of
\* the headers, and after it the content, as long as Content-Length says.
THEOREM RepliesAreFramed == HandlerSpec => []ReplyIsFramed
<1>1. IInv => ReplyIsFramed
  <2> SUFFICES ASSUME IInv, reply # NoReply  PROVE FramedReply(reply)
    BY DEF ReplyIsFramed, FramedReply
  <2>1. PICK status \in Statuses, content \in Seq(Words), type \in Types :
          reply = Labelled(status, content, type, ToString(Len(content)))
    BY DEF IInv, Labelling
  <2>2. FramedReply(Labelled(status, content, type, ToString(Len(content))))
    BY LabelledIsFramed
  <2> QED  BY <2>1, <2>2
<1> QED  BY <1>1, Always, PTL

\* request_handler: for a uri of any length whose every "%" is followed by two hex
\* digits, the file opened is the one that the decoded text names, and only a text
\* that is not absolute or has two dots in a row is refused.
THEOREM FilesAreMeant == HandlerSpec => []FileIsMeant
<1>1. IInv => FileIsMeant
  <2> SUFFICES ASSUME IInv, result = "good", WellEncoded(req.uri)
               PROVE  LET path == Meant(req.uri)
                      IN  /\ opened = IF Absolute(path) /\ ~HasDotDot(path)
                                      THEN {CStr(WithIndex(path))} ELSE {}
                          /\ (opened = {}) <=> (reply.status = "bad_request")
    BY DEF FileIsMeant
  <2> DEFINE path == Meant(req.uri)
  <2>1. req.uri \in Seq(Alphabet)  BY DEF IInv, Machine, Machines, Requests
  <2>2. UrlDecode(req.uri) = {path}  BY <2>1, UrlDecodeIs
  <2> HIDE DEF path
  <2>3. Servable(req.uri) = IF Absolute(path) /\ ~HasDotDot(path) THEN {path} ELSE {}
    BY <2>2 DEF Servable
  <2>4. \/ Servable(req.uri) = {} /\ opened = {} /\ reply.status = "bad_request"
        \/ \E p \in Servable(req.uri) :
             opened = {CStr(WithIndex(p))} /\ reply.status \in {"not_found", "ok"}
    BY DEF IInv, Matching
  <2>5. "bad_request" \notin {"not_found", "ok"}  OBVIOUS
  <2>6. /\ opened = IF Absolute(path) /\ ~HasDotDot(path) THEN {CStr(WithIndex(path))} ELSE {}
        /\ (opened = {}) <=> (reply.status = "bad_request")
    <3>1. CASE Absolute(path) /\ ~HasDotDot(path)
      <4>1. opened = {CStr(WithIndex(path))} /\ reply.status \in {"not_found", "ok"}
        BY <2>3, <2>4, <3>1
      <4> QED  BY <2>5, <3>1, <4>1
    <3>2. CASE ~(Absolute(path) /\ ~HasDotDot(path))
      <4>1. opened = {} /\ reply.status = "bad_request"  BY <2>3, <2>4, <3>2
      <4> QED  BY <3>2, <4>1
    <3> QED  BY <3>1, <3>2
  <2> QED  BY <2>6 DEF path
<1> QED  BY <1>1, Always, PTL

\* request_handler: the type of a reply that sends a file is the one its name ends
\* in, whatever the path, unless an encoded zero cuts the name short.
THEOREM TypesAreOfFiles == HandlerSpec => []TypeIsOfFile
<1>1. IInv => TypeIsOfFile
  <2> SUFFICES ASSUME IInv, reply.status = "ok",
                      ~\E path \in UrlDecode(req.uri) : "nul" \in Range(path),
                      NEW path \in opened, NEW extension \in DOMAIN Mappings
               PROVE  IsSuffix(<<".">> \o extension, path)
                        <=> reply.headers[2].value = Mappings[extension]
    BY DEF TypeIsOfFile
  <2>1. PICK p \in Servable(req.uri) :
          /\ opened = {CStr(WithIndex(p))}
          /\ reply.headers[2].value = ExtensionToType(Extension(WithIndex(p)))
    <3>1. reply.status # "bad_request" /\ reply.status # "not_found"  OBVIOUS
    <3> QED  BY <3>1 DEF IInv, Matching
  <2>2. p \in UrlDecode(req.uri) /\ Absolute(p) /\ ~HasDotDot(p)  BY DEF Servable
  <2>3. p \in Seq(Decoded) /\ "nul" \notin Range(p)
    <3>1. req.uri \in Seq(Alphabet)  BY DEF IInv, Machine, Machines, Requests
    <3> QED  BY <2>2, <3>1, UrlDecodeOK
  <2>4. path = WithIndex(p) /\ path \in Seq(Letters)
    BY <2>1, <2>2, <2>3, NoZero, WithIndexOK
  <2>5. PICK u \in {"html", "f"} : extension = <<u>>
    BY DEF Mappings
  <2>6. <<".">> \o extension = <<".", u>>
    BY <2>5, DotAnd
  <2>7. IsSuffix(<<".", u>>, path) <=> Extension(path) = <<u>>
    BY <2>4, ExtensionIs
  <2>8. ExtensionToType(Extension(path)) = Mappings[<<u>>] <=> Extension(path) = <<u>>
    <3> DEFINE e == Extension(path)
    <3>1. <<"html">> # <<"f">>
      <4>1. <<"html">>[1] # <<"f">>[1]  OBVIOUS
      <4> QED  BY <4>1
    <3>2. /\ DOMAIN Mappings = {<<"html">>, <<"f">>}
          /\ Mappings[<<"html">>] = "text/html" /\ Mappings[<<"f">>] = "image/gif"
      BY <3>1 DEF Mappings
    <3> HIDE DEF e
    <3>3. CASE u = "html"
      <4>1. ExtensionToType(e) = "text/html" <=> e = <<"html">>
        BY <3>1, <3>2 DEF ExtensionToType
      <4> QED  BY <3>2, <3>3, <4>1 DEF e
    <3>4. CASE u = "f"
      <4>1. ExtensionToType(e) = "image/gif" <=> e = <<"f">>
        BY <3>1, <3>2 DEF ExtensionToType
      <4> QED  BY <3>2, <3>4, <4>1 DEF e
    <3> QED  BY <3>3, <3>4
  <2> QED  BY <2>1, <2>4, <2>5, <2>6, <2>7, <2>8
<1> QED  BY <1>1, Always, PTL

=============================================================================
