-------------------------- MODULE RequestParserProofs --------------------------
(***************************************************************************)
(* What the parser of example/server does with every text: the header a    *)
(* character is added to exists, and its verdict is that of the grammar.   *)
(***************************************************************************)
EXTENDS RequestParser, SequenceTheorems, FiniteSetTheorems, WellFoundedInduction, TLAPS

Alphabet ==
    {"x", ":", SP, TAB, CR, LF, "ctl", "high", "H", "T", "P", "/", "0", "1", ".",
     "2", "e", "f", "%", "+", "-"}

InHeader ==
    {"header_lws", "header_name", "space_before_header_value", "header_value",
     "expecting_newline_2"}

States == MethodOrUri \cup Version \cup InHeader \cup {"header_line_start", "expecting_newline_3"}

HeaderRecs == [name : Seq(Alphabet), value : Seq(Alphabet)]

Requests ==
    [method : Seq(Alphabet), uri : Seq(Alphabet), major : Nat, minor : Nat,
     headers : Seq(HeaderRecs)]

\* The parser with its request: within a header there is a header.
Machines ==
    {m \in [state : States, result : {"indeterminate", "good", "bad"}, req : Requests] :
        m.state \in InHeader => m.req.headers # <<>>}

Machine == [state |-> state, result |-> result, req |-> req]

-----------------------------------------------------------------------------
(* The parser.                                                             *)

\* Where a character leads: a header is begun at the start of a line alone, and what
\* goes on in one was in one.
LEMMA Leads ==
    ASSUME NEW st \in States, NEW c \in Alphabet, NEW headers
    PROVE  LET to == After(st, c, headers)
           IN  /\ to \in States \cup {"good", "bad"}
               /\ to \in InHeader =>
                    \/ st \in InHeader
                    \/ to = "header_name"
                    \/ to = "header_lws" /\ headers # <<>>
<1> DEFINE to == After(st, c, headers)
           Goal == /\ to \in States \cup {"good", "bad"}
                   /\ to \in InHeader =>
                        \/ st \in InHeader
                        \/ to = "header_name"
                        \/ to = "header_lws" /\ headers # <<>>
<1>1. CASE st \in MethodOrUri
  <2>1. to \in {"method", "uri", "http_version_h", "bad"}
    BY <1>1 DEF After, InMethodOrUri
  <2> QED  BY <2>1 DEF States, MethodOrUri, Version, InHeader
<1>2. CASE st \in Version
  <2>1. st \notin MethodOrUri  BY <1>2 DEF Version, MethodOrUri
  <2>2. to \in Version \cup {"header_line_start", "bad"}
    BY <1>2, <2>1 DEF After, InVersion, Version
  <2> QED  BY <2>2 DEF States, Version, InHeader
<1>3. CASE st \notin MethodOrUri \cup Version
  <2>1. to = InHeaders(st, c, headers)
    BY <1>3 DEF After
  <2>2. st \in InHeader \cup {"header_line_start", "expecting_newline_3"}
    BY <1>3 DEF States
  <2>3. CASE st \in InHeader
    <3>1. to \in InHeader \cup {"header_line_start", "bad"}
      BY <2>1, <2>3 DEF InHeaders, InHeader
    <3> QED  BY <2>3, <3>1 DEF States
  <2>4. CASE st = "header_line_start"
    <3>1. /\ to \in {"expecting_newline_3", "header_lws", "header_name", "bad"}
          /\ to = "header_lws" => headers # <<>>
      BY <2>1, <2>4 DEF InHeaders
    <3> QED  BY <3>1 DEF States, InHeader
  <2>5. CASE st = "expecting_newline_3"
    <3>1. to \in {"good", "bad"}
      BY <2>1, <2>5 DEF InHeaders
    <3> QED  BY <3>1 DEF InHeader
  <2> QED  BY <2>2, <2>3, <2>4, <2>5
<1> QED  BY <1>1, <1>2, <1>3

\* A character more for the last header.
LEMMA LastHeader ==
    ASSUME NEW hs \in Seq(HeaderRecs), hs # <<>>, NEW c \in Alphabet
    PROVE  LET n == Len(hs)
               a == [hs EXCEPT ![n].name = Append(@, c)]
               b == [hs EXCEPT ![n].value = Append(@, c)]
           IN  {a, b} \subseteq Seq(HeaderRecs) /\ a # <<>> /\ b # <<>>
<1> DEFINE n == Len(hs)
           h == hs[n]
<1>1. n \in Nat /\ n # 0 /\ DOMAIN hs = 1..n
  BY EmptySeq, LenProperties
<1>2. n \in 1..n  BY <1>1
<1>3. h \in HeaderRecs  BY <1>1, <1>2, ElementOfSeq
<1>4. h.name \in Seq(Alphabet) /\ h.value \in Seq(Alphabet)
  BY <1>3 DEF HeaderRecs
<1> DEFINE more == Append(h.name, c)
           longer == Append(h.value, c)
<1>5. more \in Seq(Alphabet) /\ longer \in Seq(Alphabet)
  <2> HIDE DEF h
  <2> QED  BY <1>4, AppendProperties
<1> HIDE DEF more, longer
<1>6. [h EXCEPT !.name = more] \in HeaderRecs /\ [h EXCEPT !.value = longer] \in HeaderRecs
  BY <1>3, <1>5 DEF HeaderRecs
<1>7. ASSUME NEW r \in HeaderRecs
      PROVE  [hs EXCEPT ![n] = r] \in Seq(HeaderRecs) /\ [hs EXCEPT ![n] = r] # <<>>
  <2> DEFINE x == [hs EXCEPT ![n] = r]
  <2>1. x \in Seq(HeaderRecs)  BY <1>2, ExceptSeq
  <2>2. DOMAIN x = 1..n  BY <1>1
  <2> HIDE DEF x
  <2>3. 1 \in DOMAIN x  BY <1>1, <2>2
  <2> QED  BY <2>1, <2>3, EmptySeq DEF x
<1>8. /\ [hs EXCEPT ![n].name = Append(@, c)] = [hs EXCEPT ![n] = [h EXCEPT !.name = more]]
      /\ [hs EXCEPT ![n].value = Append(@, c)] = [hs EXCEPT ![n] = [h EXCEPT !.value = longer]]
  BY DEF more, longer
<1> DEFINE a == [hs EXCEPT ![n].name = Append(@, c)]
           b == [hs EXCEPT ![n].value = Append(@, c)]
<1>9. a \in Seq(HeaderRecs) /\ a # <<>>
  <2> HIDE DEF n, h
  <2> QED  BY <1>6, <1>7, <1>8
<1>10. b \in Seq(HeaderRecs) /\ b # <<>>
  <2> HIDE DEF n, h
  <2> QED  BY <1>6, <1>7, <1>8
<1>11. {a, b} \subseteq Seq(HeaderRecs) /\ a # <<>> /\ b # <<>>
  <2> HIDE DEF a, b
  <2> QED  BY <1>9, <1>10
<1> QED  BY <1>11, Zenon

\* consume keeps the machine as it should be.
LEMMA ConsumedOK ==
    ASSUME NEW m \in Machines, NEW c \in Alphabet
    PROVE  Consumed(m, c) \in Machines
<1> DEFINE to == After(m.state, c, m.req.headers)
           kept == Kept(m.req, m.state, to, c)
           hs == m.req.headers
<1>1. /\ m.state \in States /\ m.req \in Requests
      /\ m.state \in InHeader => hs # <<>>
      /\ hs \in Seq(HeaderRecs)
  BY DEF Machines, Requests
<1>2. /\ to \in States \cup {"good", "bad"}
      /\ to \in InHeader =>
           \/ m.state \in InHeader
           \/ to = "header_name"
           \/ to = "header_lws" /\ hs # <<>>
  BY <1>1, Leads
<1>3. Consumed(m, c) =
        [state  |-> IF to \in {"good", "bad"} THEN m.state ELSE to,
         result |-> IF to \in {"good", "bad"} THEN to ELSE "indeterminate",
         req    |-> kept]
  BY DEF Consumed
<1>4. to = "header_name" /\ m.state # "header_name" => m.state = "header_line_start"
  BY <1>1 DEF After, InMethodOrUri, InVersion, InHeaders, States, InHeader
<1>5. to = "header_value" => m.state \in InHeader
  <2>1. to = "header_value" => to \in InHeader /\ to # "header_name" /\ to # "header_lws"
    BY DEF InHeader
  <2> QED  BY <1>2, <2>1
<1> HIDE DEF to
<1>6. /\ kept \in Requests
      /\ hs # <<>> => kept.headers # <<>>
      /\ to = "header_name" => kept.headers # <<>>
  <2> DEFINE r == m.req
             n == Len(hs)
  <2>1. /\ r.method \in Seq(Alphabet) /\ r.uri \in Seq(Alphabet) /\ r.major \in Nat /\ r.minor \in Nat
        /\ r.headers = hs /\ r \in Requests
    BY <1>1 DEF Requests
  <2>2. CASE to = "method"
    <3> DEFINE q == Append(r.method, c)
    <3>1. q \in Seq(Alphabet)  BY <2>1, AppendProperties
    <3>2. kept = [r EXCEPT !.method = q]  BY <2>2 DEF Kept
    <3> HIDE DEF q, r
    <3> QED  BY <2>1, <2>2, <3>1, <3>2 DEF Requests
  <2>3. CASE m.state = "uri" /\ to = "uri"
    <3> DEFINE q == Append(r.uri, c)
    <3>1. q \in Seq(Alphabet)  BY <2>1, AppendProperties
    <3>2. kept = [r EXCEPT !.uri = q]  BY <2>3 DEF Kept
    <3> HIDE DEF q, r
    <3> QED  BY <2>1, <2>3, <3>1, <3>2 DEF Requests
  <2>4. CASE to \in {"http_version_major_start", "http_version_major", "http_version_minor"}
    <3>1. Value(c) \in Nat  BY DEF Value
    <3>2. r.major * 10 + Value(c) \in Nat /\ r.minor * 10 + Value(c) \in Nat
      <4>1. \A k \in Nat, v \in Nat : k * 10 + v \in Nat  OBVIOUS
      <4> HIDE DEF r
      <4> QED  BY <2>1, <3>1, <4>1
    <3>3. PICK a \in Nat, b \in Nat : kept = [r EXCEPT !.major = a, !.minor = b]
      <4>1. CASE to = "http_version_major_start"
        <5>1. kept = [r EXCEPT !.major = 0, !.minor = 0]  BY <4>1 DEF Kept
        <5> QED  BY <5>1
      <4>2. CASE to = "http_version_major"
        <5>1. kept = [r EXCEPT !.major = @ * 10 + Value(c)]  BY <4>2 DEF Kept
        <5>2. kept = [r EXCEPT !.major = r.major * 10 + Value(c), !.minor = r.minor]
          BY <2>1, <5>1 DEF Requests
        <5> QED  BY <2>1, <3>2, <5>2
      <4>3. CASE to = "http_version_minor"
        <5>1. kept = [r EXCEPT !.minor = @ * 10 + Value(c)]  BY <4>3 DEF Kept
        <5>2. kept = [r EXCEPT !.major = r.major, !.minor = r.minor * 10 + Value(c)]
          BY <2>1, <5>1 DEF Requests
        <5> QED  BY <2>1, <3>2, <5>2
      <4> QED  BY <2>4, <4>1, <4>2, <4>3
    <3> HIDE DEF r, kept
    <3> QED  BY <2>1, <2>4, <3>3 DEF Requests
  <2>5. CASE to = "header_name"
    <3>1. PICK q \in Seq(HeaderRecs) : q # <<>> /\ kept = [r EXCEPT !.headers = q]
      <4>1. CASE m.state # "header_name"
        <5> DEFINE h == [name |-> <<c>>, value |-> <<>>]
        <5>1. h \in HeaderRecs
          <6>1. <<c>> \in Seq(Alphabet) /\ <<>> \in Seq(Alphabet)  OBVIOUS
          <6> QED  BY <6>1 DEF HeaderRecs
        <5>2. kept = [r EXCEPT !.headers = Append(hs, h)]
          BY <2>5, <4>1 DEF Kept
        <5> HIDE DEF h, hs
        <5>3. Append(hs, h) \in Seq(HeaderRecs) /\ Append(hs, h) # <<>>
          BY <1>1, <5>1, AppendProperties
        <5> QED  BY <5>2, <5>3
      <4>2. CASE m.state = "header_name"
        <5>1. hs # <<>>  BY <1>1, <4>2 DEF InHeader
        <5> DEFINE q == [hs EXCEPT ![n].name = Append(@, c)]
        <5>2. q \in Seq(HeaderRecs) /\ q # <<>>  BY <1>1, <5>1, LastHeader
        <5>3. kept = [r EXCEPT !.headers = q]
          BY <2>1, <2>5, <4>2 DEF Kept, Requests
        <5> HIDE DEF q
        <5> QED  BY <5>2, <5>3
      <4> QED  BY <4>1, <4>2
    <3> HIDE DEF r, kept
    <3> QED  BY <2>1, <2>5, <3>1 DEF Requests
  <2>6. CASE to = "header_value" /\ m.state # "space_before_header_value"
    <3>1. hs # <<>>  BY <1>1, <1>5, <2>6
    <3> DEFINE q == [hs EXCEPT ![n].value = Append(@, c)]
    <3>2. q \in Seq(HeaderRecs) /\ q # <<>>  BY <1>1, <3>1, LastHeader
    <3>3. kept = [r EXCEPT !.headers = q]
      BY <2>1, <2>6 DEF Kept, Requests
    <3> HIDE DEF r, kept, q
    <3> QED  BY <2>1, <2>6, <3>2, <3>3 DEF Requests
  <2>7. CASE /\ to \notin {"method", "http_version_major_start", "http_version_major",
                           "http_version_minor", "header_name"}
             /\ ~(m.state = "uri" /\ to = "uri")
             /\ ~(to = "header_value" /\ m.state # "space_before_header_value")
    <3>1. kept = r  BY <2>7 DEF Kept
    <3> QED  BY <2>1, <2>7, <3>1
  <2> QED  BY <2>2, <2>3, <2>4, <2>5, <2>6, <2>7
<1> HIDE DEF kept
<1>7. CASE to \in {"good", "bad"}
  BY <1>1, <1>3, <1>6, <1>7 DEF Machines
<1>8. CASE to \notin {"good", "bad"}
  <2>1. to \in InHeader => kept.headers # <<>>
    BY <1>1, <1>2, <1>6
  <2> QED  BY <1>2, <1>3, <1>6, <1>8, <2>1 DEF Machines
<1> QED  BY <1>7, <1>8

-----------------------------------------------------------------------------
(* A text, one character after the other.                                  *)

\* Induction on the numbers up to n, as the search for a least counterexample.
LEMMA UpTo ==
    ASSUME NEW n \in Nat, NEW Good, 0 \in Good,
           \A k \in Nat : k < n /\ k \in Good => k + 1 \in Good
    PROVE  \A k \in 0..n : k \in Good
<1> DEFINE bad == {k \in 0..n : k \notin Good}
<1> SUFFICES ASSUME bad # {}  PROVE FALSE
  OBVIOUS
<1>1. bad \subseteq Nat  OBVIOUS
<1>2. PICK k \in bad : \A j \in bad : <<j, k>> \notin OpToRel(<, Nat)
  <2> HIDE DEF bad
  <2> QED  BY <1>1, WFMin, NatLessThanWellFounded
<1>3. \A j \in bad : ~(j < k)
  <2> HIDE DEF bad
  <2> QED  BY <1>1, <1>2 DEF OpToRel
<1>4. k \in 0..n /\ k \notin Good /\ k # 0  BY <1>2
<1>5. k - 1 \in 0..n /\ k - 1 < k  BY <1>4
<1>6. k - 1 \notin bad  BY <1>3, <1>5
<1>7. k - 1 \in Good /\ k - 1 \in Nat /\ k - 1 < n  BY <1>4, <1>5, <1>6
<1>8. k - 1 + 1 \in Good  BY <1>7
<1> QED  BY <1>4, <1>8

LEMMA MaxOfInterval ==
    ASSUME NEW k \in Nat, NEW t \in SUBSET (1..(k + 1)), k + 1 \in t
    PROVE  Max(t) = k + 1
<1>1. \A x \in t : k + 1 >= x  OBVIOUS
<1>2. \A x \in t : (\A y \in t : x >= y) => x = k + 1  OBVIOUS
<1> QED  BY <1>1, <1>2 DEF Max

\* What parse does with one character of its buffer.
Stepped(m, c) == IF m.result = "indeterminate" THEN Consumed(m, c) ELSE m

\* What a fold does with one character of a text: parse takes it, or a number a digit more.
Fed(what, a, c) == IF what = "parse" THEN Stepped(a, c) ELSE a * 10 + Value(c)

\* The function by which FoldLeft is defined, on the sets of the first k positions.
FoldsTo(what, f, base, text, k) ==
    f = [t \in SUBSET (1..k) |->
            IF t = {} THEN base ELSE Fed(what, f[t \ {Max(t)}], text[Max(t)])]

LEMMA FoldExists ==
    ASSUME NEW what, NEW base, NEW text, NEW n \in Nat
    PROVE  \E f : FoldsTo(what, f, base, text, n)
<1> DEFINE Good == {k \in 0..n : \E f : FoldsTo(what, f, base, text, k)}
<1>1. 0 \in Good
  <2> DEFINE f == [t \in SUBSET (1..0) |-> base]
  <2>1. \A t \in SUBSET (1..0) : t = {}  OBVIOUS
  <2>2. FoldsTo(what, f, base, text, 0)
    BY <2>1 DEF FoldsTo
  <2> HIDE DEF f
  <2> QED  BY <2>2
<1>2. ASSUME NEW k \in Nat, k < n, k \in Good  PROVE k + 1 \in Good
  <2>1. PICK f : FoldsTo(what, f, base, text, k)
    BY <1>2
  <2> DEFINE top == k + 1
             g == [t \in SUBSET (1..top) |->
                     IF top \in t THEN Fed(what, f[t \ {top}], text[top]) ELSE f[t]]
  <2>2. \A t \in SUBSET (1..k) :
           f[t] = IF t = {} THEN base ELSE Fed(what, f[t \ {Max(t)}], text[Max(t)])
    BY <2>1 DEF FoldsTo
  <2>3. ASSUME NEW t \in SUBSET (1..top)
        PROVE  g[t] = IF t = {} THEN base ELSE Fed(what, g[t \ {Max(t)}], text[Max(t)])
    <3>1. CASE top \in t
      <4>1. Max(t) = top  BY <3>1, MaxOfInterval
      <4>2. t \ {top} \in SUBSET (1..top) /\ top \notin t \ {top}  OBVIOUS
      <4>3. g[t \ {top}] = f[t \ {top}]  BY <4>2
      <4>4. g[t] = Fed(what, f[t \ {top}], text[top])  BY <3>1
      <4> HIDE DEF g
      <4> QED  BY <3>1, <4>1, <4>3, <4>4
    <3>2. CASE top \notin t
      <4> DEFINE rest == t \ {Max(t)}
      <4>1. t \in SUBSET (1..k)  BY <3>2
      <4>2. rest \in SUBSET (1..top) /\ top \notin rest  BY <3>2
      <4>3. g[t] = f[t]  BY <3>2
      <4>4. g[rest] = f[rest]
        <5> HIDE DEF rest
        <5> QED  BY <4>2
      <4> HIDE DEF g
      <4> QED  BY <2>2, <4>1, <4>3, <4>4
    <3> QED  BY <3>1, <3>2
  <2>4. g = [t \in SUBSET (1..top) |-> g[t]]  OBVIOUS
  <2> HIDE DEF g
  <2>5. g = [t \in SUBSET (1..top) |->
                IF t = {} THEN base ELSE Fed(what, g[t \ {Max(t)}], text[Max(t)])]
    BY <2>3, <2>4
  <2>6. FoldsTo(what, g, base, text, top)  BY <2>5 DEF FoldsTo
  <2>7. top \in 0..n  BY <1>2
  <2> HIDE DEF top
  <2>8. top \in Good  BY <2>6, <2>7
  <2> QED  BY <2>8 DEF top
<1> HIDE DEF Good
<1>3. \A k \in 0..n : k \in Good  BY <1>1, <1>2, UpTo
<1>4. n \in 0..n  OBVIOUS
<1>5. n \in Good  BY <1>3, <1>4
<1> QED  BY <1>5 DEF Good

\* The machine after each character of a text.
IsRun(run, base, text) ==
    /\ run[0] = base /\ run[Len(text)] = FoldLeft(Stepped, base, text)
    /\ \A k \in 0..(Len(text) - 1) : run[k + 1] = Stepped(run[k], text[k + 1])

LEMMA Runs ==
    ASSUME NEW base, NEW text \in Seq(Alphabet)
    PROVE  \E run : IsRun(run, base, text)
<1> DEFINE n == Len(text)
           iter == CHOOSE f : FoldsTo("parse", f, base, text, n)
           run == [k \in 0..n |-> iter[1..k]]
<1>1. n \in Nat /\ DOMAIN text = 1..n
  BY LenProperties
<1>2. FoldLeft(Stepped, base, text) = iter[1..n]
  BY <1>1 DEF FoldLeft, MapThenFoldSet, FoldsTo, Fed
<1> HIDE DEF n
<1>3. FoldsTo("parse", iter, base, text, n)
  BY <1>1, FoldExists
<1> HIDE DEF iter
<1>4. \A t \in SUBSET (1..n) :
         iter[t] = IF t = {} THEN base ELSE Stepped(iter[t \ {Max(t)}], text[Max(t)])
  BY <1>3 DEF FoldsTo, Fed
<1>5. 0 \in 0..n /\ n \in 0..n  BY <1>1
<1>6. run[0] = base
  <2>1. 1..0 = {} /\ 1..0 \in SUBSET (1..n)  OBVIOUS
  <2>2. iter[1..0] = base  BY <1>4, <2>1
  <2> QED  BY <1>5, <2>2
<1>7. ASSUME NEW k \in 0..(n - 1)  PROVE run[k + 1] = Stepped(run[k], text[k + 1])
  <2> DEFINE t == 1..(k + 1)
  <2>1. k \in Nat /\ k \in 0..n /\ k + 1 \in 0..n  BY <1>1
  <2>2. t \in SUBSET (1..n) /\ t # {} /\ t \ {k + 1} = 1..k /\ k + 1 \in t
    <3>1. t \ {k + 1} = 1..k  BY <2>1
    <3>2. k + 1 \in t  BY <2>1
    <3>3. t \subseteq 1..n  BY <1>1, <2>1
    <3> QED  BY <3>1, <3>2, <3>3
  <2>3. t \in SUBSET (1..(k + 1))  OBVIOUS
  <2> HIDE DEF t
  <2>4. Max(t) = k + 1
    BY <2>1, <2>2, <2>3, MaxOfInterval
  <2>5. iter[t] = Stepped(iter[1..k], text[k + 1])
    BY <1>4, <2>2, <2>4
  <2> QED  BY <2>1, <2>5 DEF t
<1>8. run[n] = FoldLeft(Stepped, base, text)  BY <1>2, <1>5
<1> HIDE DEF run
<1> QED  BY <1>6, <1>7, <1>8 DEF IsRun, n

\* parse keeps the machine as it should be, whatever the length of its buffer.
LEMMA RunOK ==
    ASSUME NEW text \in Seq(Alphabet), NEW base \in Machines, NEW run, IsRun(run, base, text)
    PROVE  \A k \in 0..Len(text) : run[k] \in Machines
<1> DEFINE n == Len(text)
           Good == {k \in 0..n : run[k] \in Machines}
<1>1. n \in Nat /\ \A i \in 1..n : text[i] \in Alphabet
  BY LenProperties, ElementOfSeq
<1>2. 0 \in Good  BY <1>1 DEF IsRun
<1>3. ASSUME NEW k \in Nat, k < n, k \in Good  PROVE k + 1 \in Good
  <2>1. k \in 0..(n - 1) /\ k + 1 \in 0..n /\ k + 1 \in 1..n  BY <1>1, <1>3
  <2>2. Stepped(run[k], text[k + 1]) \in Machines
    BY <1>1, <1>3, <2>1, ConsumedOK DEF Stepped
  <2> QED  BY <2>1, <2>2 DEF IsRun
<1> HIDE DEF Good
<1>4. \A k \in 0..n : k \in Good  BY <1>1, <1>2, <1>3, UpTo
<1> QED  BY <1>4 DEF Good

LEMMA FoldOK ==
    ASSUME NEW base \in Machines, NEW text \in Seq(Alphabet)
    PROVE  FoldLeft(Stepped, base, text) \in Machines
<1>1. PICK run : IsRun(run, base, text)  BY Runs
<1>2. Len(text) \in 0..Len(text)  BY LenProperties
<1>3. run[Len(text)] \in Machines  BY <1>1, <1>2, RunOK
<1> QED  BY <1>1, <1>3 DEF IsRun

LEMMA ParseOK ==
    ASSUME Machine \in Machines, input \in Seq(Alphabet), NEW text \in Seq(Alphabet), Parse(text)
    PROVE  Machine' \in Machines /\ input' \in Seq(Alphabet)
<1> DEFINE end == FoldLeft(Stepped, Machine, text)
<1>1. end \in Machines  BY FoldOK
<1>2. state' = end.state /\ result' = end.result /\ req' = end.req /\ input' = input \o text
  BY DEF Parse, Stepped, Machine
<1> HIDE DEF end
<1>3. Machine' = end
  BY <1>1, <1>2 DEF Machine, Machines
<1>4. input' \in Seq(Alphabet)  BY <1>2, ConcatProperties
<1> QED  BY <1>1, <1>3, <1>4

-----------------------------------------------------------------------------
(* The lines of a text, while it grows.                                    *)

\* A text goes on after another.
Continues(more, text) ==
    /\ more \in Seq(Alphabet) /\ text \in Seq(Alphabet) /\ Len(text) <= Len(more)
    /\ \A i \in 1..Len(text) : more[i] = text[i]

\* A line has begun at a position and not ended.
Open(text, from) ==
    /\ from \in 1..(Len(text) + 1)
    /\ from = 1 \/ from - 1 \in Newlines(text)
    /\ \A i \in Newlines(text) : i < from

LEMMA NewlinesAre ==
    ASSUME NEW text \in Seq(Alphabet)
    PROVE  /\ Len(text) \in Nat /\ DOMAIN text = 1..Len(text)
           /\ \A i \in 1..Len(text) : text[i] \in Alphabet
           /\ \A i : i \in Newlines(text) <=> i \in 1..Len(text) /\ text[i] = LF
           /\ \A from, end : <<from, end>> \in Lines(text) <=>
                /\ from = 1 \/ from - 1 \in Newlines(text)
                /\ from \in Int /\ end \in Newlines(text) /\ from <= end
                /\ \A i \in Newlines(text) : from <= i => end <= i
           /\ \A l \in Lines(text) : l = <<l[1], l[2]>>
<1>1. Len(text) \in Nat /\ DOMAIN text = 1..Len(text) /\ \A i \in 1..Len(text) : text[i] \in Alphabet
  BY LenProperties, ElementOfSeq
<1>2. \A i : i \in Newlines(text) <=> i \in 1..Len(text) /\ text[i] = LF
  BY <1>1 DEF Newlines
<1>3. ASSUME NEW from, NEW end
      PROVE  <<from, end>> \in Lines(text) <=>
                /\ from = 1 \/ from - 1 \in Newlines(text)
                /\ from \in Int /\ end \in Newlines(text) /\ from <= end
                /\ \A i \in Newlines(text) : from <= i => end <= i
  <2> DEFINE N == Newlines(text)
  <2>1. N \subseteq Int  BY <1>1, <1>2
  <2> HIDE DEF N
  <2>2. from \in {1} \cup {i + 1 : i \in N} <=> (from = 1 \/ from - 1 \in N) /\ from \in Int
    <3>1. ASSUME NEW i \in N, from = i + 1  PROVE from - 1 \in N /\ from \in Int
      <4>1. i \in Int /\ i + 1 - 1 = i  BY <2>1
      <4> QED  BY <3>1, <4>1
    <3>2. ASSUME from \in Int, from - 1 \in N  PROVE \E i \in N : from = i + 1
      <4>1. from - 1 + 1 = from  BY <3>2
      <4> QED  BY <3>2, <4>1
    <3> QED  BY <3>1, <3>2
  <2>3. <<from, end>> \in Lines(text) <=>
          /\ from \in {1} \cup {i + 1 : i \in N} /\ end \in N
          /\ from <= end /\ \A i \in N : from <= i => end <= i
    BY DEF Lines, N
  <2> QED  BY <2>2, <2>3 DEF N
<1>4. \A l \in Lines(text) : l = <<l[1], l[2]>>
  BY DEF Lines
<1> QED  BY <1>1, <1>2, <1>3, <1>4

\* The lines that have ended stay the lines they are.
LEMMA EarlierLines ==
    ASSUME NEW text, NEW more, Continues(more, text)
    PROVE  /\ \A i : i \in Newlines(text) <=> i \in Newlines(more) /\ i <= Len(text)
           /\ \A l : l \in Lines(text) <=> l \in Lines(more) /\ l[2] <= Len(text)
<1>1. text \in Seq(Alphabet) /\ more \in Seq(Alphabet) /\ Len(text) <= Len(more)
      /\ \A i \in 1..Len(text) : more[i] = text[i]
  BY DEF Continues
<1>2. Len(text) \in Nat /\ Len(more) \in Nat  BY <1>1, NewlinesAre
<1> DEFINE n == Len(text)
           N == Newlines(text)
           M == Newlines(more)
<1>3. \A i : i \in N <=> i \in M /\ i <= n
  <2>1. \A i : i \in N <=> i \in 1..n /\ text[i] = LF  BY <1>1, NewlinesAre
  <2>2. \A i : i \in M <=> i \in 1..Len(more) /\ more[i] = LF  BY <1>1, NewlinesAre
  <2> HIDE DEF N, M
  <2> QED  BY <1>1, <1>2, <2>1, <2>2
<1>4. \A l \in M : l \in Int  BY <1>1, <1>2, NewlinesAre
<1>5. ASSUME NEW from, NEW end
      PROVE  <<from, end>> \in Lines(text) <=> <<from, end>> \in Lines(more) /\ end <= n
  <2>1. <<from, end>> \in Lines(text) <=>
          /\ from = 1 \/ from - 1 \in N
          /\ from \in Int /\ end \in N /\ from <= end
          /\ \A i \in N : from <= i => end <= i
    BY <1>1, NewlinesAre
  <2>2. <<from, end>> \in Lines(more) <=>
          /\ from = 1 \/ from - 1 \in M
          /\ from \in Int /\ end \in M /\ from <= end
          /\ \A i \in M : from <= i => end <= i
    BY <1>1, NewlinesAre
  <2> HIDE DEF N, M
  <2>3. ASSUME from \in Int, from <= end, end \in M, end <= n
        PROVE  /\ from - 1 \in N <=> from - 1 \in M
               /\ (\A i \in N : from <= i => end <= i) <=> (\A i \in M : from <= i => end <= i)
    <3>1. end \in Int /\ n \in Int  BY <1>2, <1>4, <2>3
    <3>2. from - 1 <= n  BY <2>3, <3>1
    <3>3. \A i \in M : i \notin N => end <= i  BY <1>3, <1>4, <2>3, <3>1
    <3> QED  BY <1>3, <3>2, <3>3
  <2> QED  BY <1>3, <2>1, <2>2, <2>3
<1>6. \A l \in Lines(text) \cup Lines(more) : l = <<l[1], l[2]>>
  BY <1>1, NewlinesAre
<1> HIDE DEF N, M, n
<1>7. \A l : l \in Lines(text) <=> l \in Lines(more) /\ l[2] <= n
  BY <1>5, <1>6
<1> QED  BY <1>3, <1>7 DEF N, M, n

\* A line may be folded into a header: it is not the first header line.
Later(text, from) == \E i \in Newlines(text) : i < from - 1

\* What a line is like is seen in the line and before it.
LEMMA SameLine ==
    ASSUME NEW text, NEW more, Continues(more, text), NEW from \in Nat \ {0},
           NEW to \in Int, to <= Len(text)
    PROVE  /\ RequestLine(more, to) = RequestLine(text, to)
           /\ HeaderLine(more, from, to) = HeaderLine(text, from, to)
           /\ FoldedLine(more, from, to) = FoldedLine(text, from, to)
<1> DEFINE n == Len(text)
<1>1. n \in Nat /\ Len(more) \in Nat /\ n <= Len(more) /\ \A i \in 1..n : more[i] = text[i]
  BY NewlinesAre DEF Continues
<1> HIDE DEF n
<1>2. to \in Int /\ to <= n  BY <1>1 DEF n
<1>3. Spaces(more, to) = Spaces(text, to)
  BY <1>1, <1>2 DEF Spaces
<1>4. ASSUME NEW p \in Spaces(text, to) \X Spaces(text, to)
      PROVE  p \in RequestLine(more, to) <=> p \in RequestLine(text, to)
  <2>1. p[1] \in 1..to /\ p[2] \in 1..to  BY DEF Spaces
  <2>2. (\A i \in 1..(p[1] - 1) : IsToken(more[i])) <=> (\A i \in 1..(p[1] - 1) : IsToken(text[i]))
    <3>1. \A i \in 1..(p[1] - 1) : more[i] = text[i]  BY <1>1, <1>2, <2>1
    <3> QED  BY <3>1
  <2>3. (\A i \in (p[1] + 1)..(p[2] - 1) : IsUriChar(more[i]))
          <=> (\A i \in (p[1] + 1)..(p[2] - 1) : IsUriChar(text[i]))
    <3>1. \A i \in (p[1] + 1)..(p[2] - 1) : more[i] = text[i]  BY <1>1, <1>2, <2>1
    <3> QED  BY <3>1
  <2>4. IsVersion(more, p[2] + 1, to) <=> IsVersion(text, p[2] + 1, to)
    <3> DEFINE f == p[2] + 1
    <3>1. f \in Nat /\ f >= 1 /\ \A i \in f..to : more[i] = text[i]  BY <1>1, <1>2, <2>1
    <3> HIDE DEF f
    <3>2. f + 4 <= to => /\ more[f] = text[f] /\ more[f + 1] = text[f + 1]
                         /\ more[f + 2] = text[f + 2] /\ more[f + 3] = text[f + 3]
                         /\ more[f + 4] = text[f + 4]
      BY <1>2, <3>1
    <3>3. ASSUME NEW dot \in (f + 6)..(to - 1)
          PROVE  /\ more[dot] = text[dot]
                 /\ (\A i \in (f + 5)..(dot - 1) : IsDigit(more[i]))
                      <=> (\A i \in (f + 5)..(dot - 1) : IsDigit(text[i]))
                 /\ (\A i \in (dot + 1)..to : IsDigit(more[i]))
                      <=> (\A i \in (dot + 1)..to : IsDigit(text[i]))
      <4>1. \A i \in (f + 5)..(dot - 1) : more[i] = text[i]  BY <1>2, <3>1
      <4>2. \A i \in (dot + 1)..to : more[i] = text[i]  BY <1>2, <3>1
      <4>3. more[dot] = text[dot]  BY <1>2, <3>1
      <4> QED  BY <4>1, <4>2, <4>3
    <3> QED  BY <3>2, <3>3 DEF IsVersion, f
  <2> QED  BY <1>3, <2>2, <2>3, <2>4 DEF RequestLine
<1>5. RequestLine(more, to) = RequestLine(text, to)
  <2>1. /\ RequestLine(more, to) \subseteq Spaces(text, to) \X Spaces(text, to)
        /\ RequestLine(text, to) \subseteq Spaces(text, to) \X Spaces(text, to)
    BY <1>3 DEF RequestLine
  <2> QED  BY <1>4, <2>1
<1>6. HeaderLine(more, from, to) = HeaderLine(text, from, to)
  <2>1. ASSUME NEW i \in (from + 1)..(to - 1)
        PROVE  i \in HeaderLine(more, from, to) <=> i \in HeaderLine(text, from, to)
    <3>1. more[i] = text[i] /\ more[i + 1] = text[i + 1]  BY <1>1, <1>2
    <3>2. \A j \in from..(i - 1) : more[j] = text[j]  BY <1>1, <1>2
    <3>3. \A j \in (i + 2)..to : more[j] = text[j]  BY <1>1, <1>2
    <3> QED  BY <3>1, <3>2, <3>3 DEF HeaderLine
  <2>2. /\ HeaderLine(more, from, to) \subseteq (from + 1)..(to - 1)
        /\ HeaderLine(text, from, to) \subseteq (from + 1)..(to - 1)
    BY DEF HeaderLine
  <2> QED  BY <2>1, <2>2
<1>7. FoldedLine(more, from, to) = FoldedLine(text, from, to)
  <2>1. ASSUME NEW i \in from..to
        PROVE  i \in FoldedLine(more, from, to) <=> i \in FoldedLine(text, from, to)
    <3>1. i # to => more[i + 1] = text[i + 1]  BY <1>1, <1>2
    <3>2. \A j \in from..i : more[j] = text[j]  BY <1>1, <1>2
    <3>3. \A j \in (i + 1)..to : more[j] = text[j]  BY <1>1, <1>2
    <3> QED  BY <3>1, <3>2, <3>3 DEF FoldedLine
  <2>2. FoldedLine(more, from, to) \subseteq from..to /\ FoldedLine(text, from, to) \subseteq from..to
    BY DEF FoldedLine
  <2> QED  BY <2>1, <2>2
<1> QED  BY <1>5, <1>6, <1>7

LEMMA SameLater ==
    ASSUME NEW text, NEW more, Continues(more, text), NEW from \in Int, from <= Len(text) + 1
    PROVE  Later(more, from) <=> Later(text, from)
<1>1. more \in Seq(Alphabet) /\ text \in Seq(Alphabet)  BY DEF Continues
<1>2. \A i : i \in Newlines(text) <=> i \in Newlines(more) /\ i <= Len(text)  BY EarlierLines
<1>3. \A i \in Newlines(more) : i < from - 1 => i <= Len(text)
  <2>1. Len(text) \in Nat /\ \A i \in Newlines(more) : i \in Int  BY <1>1, NewlinesAre
  <2> QED  BY <2>1
<1> QED  BY <1>2, <1>3 DEF Later

LEMMA SameIsLine ==
    ASSUME NEW text, NEW more, Continues(more, text), NEW from \in Nat \ {0},
           NEW end \in 1..Len(text), from <= end
    PROVE  IsLine(more, from, end) <=> IsLine(text, from, end)
<1>1. Len(text) \in Nat /\ \A i \in 1..Len(text) : more[i] = text[i]
  BY NewlinesAre DEF Continues
<1>2. from < end => more[end - 1] = text[end - 1]  BY <1>1
<1>3. Later(more, from) <=> Later(text, from)
  <2>1. from <= Len(text) + 1  BY <1>1
  <2> QED  BY <2>1, SameLater
<1>4. /\ RequestLine(more, end - 2) = RequestLine(text, end - 2)
      /\ HeaderLine(more, from, end - 2) = HeaderLine(text, from, end - 2)
      /\ FoldedLine(more, from, end - 2) = FoldedLine(text, from, end - 2)
  <2>1. end - 2 \in Int /\ end - 2 <= Len(text)  BY <1>1
  <2> QED  BY <2>1, SameLine
<1> QED  BY <1>2, <1>3, <1>4 DEF IsLine, Later

\* All the lines that have ended are such as another may follow.
Whole(text) == \A l \in Lines(text) : IsLine(text, l[1], l[2])

LEMMA WholeStays ==
    ASSUME NEW text, NEW more, Continues(more, text)
    PROVE  Whole(text) <=> \A l \in Lines(more) : l[2] <= Len(text) => IsLine(more, l[1], l[2])
<1>1. text \in Seq(Alphabet)  BY DEF Continues
<1>2. ASSUME NEW l \in Lines(text)
      PROVE  IsLine(more, l[1], l[2]) <=> IsLine(text, l[1], l[2])
  <2>1. l = <<l[1], l[2]>>  BY <1>1, <1>2, NewlinesAre
  <2>2. <<l[1], l[2]>> \in Lines(text)  BY <1>2, <2>1, Zenon
  <2>3. /\ l[1] = 1 \/ l[1] - 1 \in Newlines(text)
        /\ l[1] \in Int /\ l[2] \in Newlines(text) /\ l[1] <= l[2]
        /\ Len(text) \in Nat
    BY <1>1, <2>2, NewlinesAre
  <2>4. l[1] \in Nat \ {0} /\ l[2] \in 1..Len(text)
    <3>1. l[1] - 1 \in Newlines(text) => l[1] - 1 \in 1..Len(text)  BY <1>1, NewlinesAre
    <3>2. l[2] \in 1..Len(text)  BY <1>1, <2>3, NewlinesAre
    <3> QED  BY <2>3, <3>1, <3>2
  <2> QED  BY <2>3, <2>4, SameIsLine
<1> QED  BY <1>2, EarlierLines DEF Whole

LEMMA OneMore ==
    ASSUME NEW text \in Seq(Alphabet), NEW c \in Alphabet
    PROVE  LET more == Append(text, c)
           IN  /\ Continues(more, text) /\ Len(more) = Len(text) + 1
               /\ more[Len(text) + 1] = c
<1> DEFINE more == Append(text, c)
<1>1. /\ more \in Seq(Alphabet) /\ Len(more) = Len(text) + 1 /\ more[Len(text) + 1] = c
      /\ \A i \in 1..Len(text) : more[i] = text[i]
  BY AppendProperties
<1>2. Len(text) \in Nat  BY LenProperties
<1> HIDE DEF more
<1>3. Continues(more, text)  BY <1>1, <1>2 DEF Continues
<1> QED  BY <1>1, <1>3 DEF more

\* Any character but LF goes on with the line.
LEMMA LineGoesOn ==
    ASSUME NEW text, NEW more, Continues(more, text), Len(more) = Len(text) + 1,
           more[Len(text) + 1] # LF, NEW from, Open(text, from)
    PROVE  /\ Newlines(more) = Newlines(text)
           /\ Open(more, from)
           /\ Whole(text) => Whole(more)
<1>1. text \in Seq(Alphabet) /\ more \in Seq(Alphabet)  BY DEF Continues
<1> DEFINE n == Len(text)
           N == Newlines(text)
           M == Newlines(more)
<1>2. n \in Nat /\ \A i : i \in M <=> i \in 1..(n + 1) /\ more[i] = LF
  BY <1>1, NewlinesAre
<1>3. \A i : i \in N <=> i \in M /\ i <= n  BY EarlierLines
<1> HIDE DEF N, M
<1>4. M = N
  <2>1. \A i \in M : i <= n
    <3>1. \A i \in 1..(n + 1) : i <= n \/ i = n + 1  BY <1>2
    <3> QED  BY <1>2, <3>1
  <2> QED  BY <1>3, <2>1
<1>5. Open(more, from)
  <2>1. from \in 1..(n + 1) => from \in 1..(n + 2)  BY <1>2
  <2> QED  BY <1>4, <2>1 DEF Open, N, M
<1>6. \A l \in Lines(more) : l[2] <= n
  <2> TAKE l \in Lines(more)
  <2>1. <<l[1], l[2]>> \in Lines(more)
    <3>1. l = <<l[1], l[2]>>  BY <1>1, NewlinesAre
    <3> QED  BY <3>1, Zenon
  <2>2. l[2] \in M  BY <1>1, <2>1, NewlinesAre DEF M
  <2> QED  BY <1>3, <1>4, <2>2
<1>7. Whole(text) => Whole(more)
  BY <1>6, WholeStays DEF Whole
<1> QED  BY <1>4, <1>5, <1>7 DEF N, M

\* LF ends the line, and begins the next.
LEMMA LineEnds ==
    ASSUME NEW text, NEW more, Continues(more, text), Len(more) = Len(text) + 1,
           more[Len(text) + 1] = LF, NEW from, Open(text, from)
    PROVE  /\ Newlines(more) = Newlines(text) \cup {Len(more)}
           /\ <<from, Len(more)>> \in Lines(more)
           /\ \A l \in Lines(more) : l[2] <= Len(text) \/ l = <<from, Len(more)>>
           /\ Open(more, Len(more) + 1)
           /\ Whole(text) /\ IsLine(more, from, Len(more)) => Whole(more)
<1>1. text \in Seq(Alphabet) /\ more \in Seq(Alphabet)  BY DEF Continues
<1> DEFINE n == Len(text)
           N == Newlines(text)
           M == Newlines(more)
<1>2. n \in Nat /\ Len(more) = n + 1
      /\ \A i : i \in M <=> i \in 1..(n + 1) /\ more[i] = LF
  BY <1>1, NewlinesAre
<1>3. \A i : i \in N <=> i \in M /\ i <= n  BY EarlierLines
<1>4. from \in 1..(n + 1) /\ (from = 1 \/ from - 1 \in N) /\ \A i \in N : i < from
  BY DEF Open
<1> HIDE DEF N, M, n
<1>5. M = N \cup {n + 1}
  <2>1. \A i \in M : i <= n \/ i = n + 1
    <3>1. \A i \in 1..(n + 1) : i <= n \/ i = n + 1  BY <1>2
    <3> QED  BY <1>2, <3>1
  <2>2. n + 1 \in M  BY <1>2 DEF n
  <2> QED  BY <1>3, <2>1, <2>2
<1>6. \A i \in M : i < from \/ i = n + 1  BY <1>4, <1>5
<1>7. <<from, n + 1>> \in Lines(more)
  <2>1. from \in Int /\ n + 1 \in M /\ from <= n + 1 /\ (from = 1 \/ from - 1 \in M)
    BY <1>2, <1>4, <1>5
  <2>2. \A i \in M : from <= i => n + 1 <= i
    <3>1. \A i \in M : i \in Int  BY <1>2
    <3> QED  BY <1>2, <1>4, <1>6, <3>1
  <2> QED  BY <1>1, <2>1, <2>2, NewlinesAre DEF M
<1>8. ASSUME NEW l \in Lines(more)  PROVE l[2] <= n \/ l = <<from, n + 1>>
  <2>1. l = <<l[1], l[2]>>  BY <1>1, NewlinesAre
  <2>2. <<l[1], l[2]>> \in Lines(more)  BY <2>1, Zenon
  <2>3. /\ l[1] = 1 \/ l[1] - 1 \in M
        /\ l[1] \in Int /\ l[2] \in M /\ l[1] <= l[2]
        /\ \A i \in M : l[1] <= i => l[2] <= i
    BY <1>1, <2>2, NewlinesAre DEF M
  <2> SUFFICES ASSUME ~(l[2] <= n)  PROVE l[1] = from /\ l[2] = n + 1
    BY <2>1
  <2>4. l[2] = n + 1  BY <1>3, <1>5, <2>3
  <2>5. \A i \in M : i \in Int  BY <1>2
  <2>6. ~(l[1] < from)
    <3> SUFFICES ASSUME l[1] < from  PROVE FALSE
      OBVIOUS
    <3>1. from # 1
      <4>1. l[1] - 1 \in M => l[1] - 1 \in 1..(n + 1)  BY <1>2
      <4> QED  BY <2>3, <4>1
    <3>2. from - 1 \in M /\ l[1] <= from - 1  BY <1>2, <1>4, <1>5, <2>3, <3>1
    <3>3. n + 1 <= from - 1  BY <2>3, <2>4, <3>2
    <3> QED  BY <1>2, <1>4, <3>3
  <2>7. ~(from < l[1])
    <3> SUFFICES ASSUME from < l[1]  PROVE FALSE
      OBVIOUS
    <3>1. l[1] # 1  BY <1>4
    <3>2. l[1] - 1 \in M  BY <2>3, <3>1
    <3>3. l[1] - 1 = n + 1 \/ l[1] - 1 < from  BY <1>6, <3>2
    <3> QED  BY <1>2, <1>4, <2>3, <2>4, <3>3
  <2> QED  BY <1>4, <2>3, <2>4, <2>6, <2>7
<1>9. Open(more, n + 2)
  <2>1. n + 2 \in 1..(n + 1 + 1) /\ n + 2 - 1 = n + 1  BY <1>2
  <2>2. \A i \in M : i < n + 2  BY <1>2
  <2>3. n + 1 \in M  BY <1>5
  <2> QED  BY <1>2, <2>1, <2>2, <2>3 DEF Open, M
<1>10. ASSUME Whole(text), IsLine(more, from, n + 1)  PROVE Whole(more)
  <2> SUFFICES ASSUME NEW l \in Lines(more)  PROVE IsLine(more, l[1], l[2])
    BY DEF Whole
  <2>1. CASE l[2] <= n
    BY <1>10, <2>1, WholeStays DEF n
  <2>2. CASE l = <<from, n + 1>>
    BY <1>10, <2>2
  <2> QED  BY <1>8, <2>1, <2>2
<1>11. n + 1 + 1 = n + 2  BY <1>2
<1> QED  BY <1>2, <1>5, <1>7, <1>8, <1>9, <1>10, <1>11 DEF n, N, M

\* A set of numbers has a least.
LEMMA Least ==
    ASSUME NEW S \in SUBSET Nat, NEW x \in S
    PROVE  \E y \in S : \A z \in S : y <= z
<1>1. PICK y \in S : \A z \in S : <<z, y>> \notin OpToRel(<, Nat)
  BY WFMin, NatLessThanWellFounded
<1>2. \A z \in S : ~(z < y)  BY <1>1 DEF OpToRel
<1>3. \A z \in S : y <= z
  <2> TAKE z \in S
  <2>1. y \in Nat /\ z \in Nat /\ ~(z < y)  BY <1>2
  <2> QED  BY <2>1
<1> QED  BY <1>3

\* The line that is open in the beginning of a text goes on to a newline of the text.
LEMMA OpenLineEnds ==
    ASSUME NEW text, NEW more, Continues(more, text), Len(text) < Len(more),
           Len(more) \in Newlines(more), NEW from, Open(text, from)
    PROVE  \E end \in (Len(text) + 1)..Len(more) :
             /\ <<from, end>> \in Lines(more)
             /\ \A i \in from..(end - 1) : more[i] # LF
<1>1. text \in Seq(Alphabet) /\ more \in Seq(Alphabet)  BY DEF Continues
<1> DEFINE n == Len(text)
           N == Newlines(text)
           M == Newlines(more)
           S == {i \in M : n < i}
<1>2. n \in Nat /\ Len(more) \in Nat
      /\ \A i : i \in M <=> i \in 1..Len(more) /\ more[i] = LF
  BY <1>1, NewlinesAre
<1>3. \A i : i \in N <=> i \in M /\ i <= n  BY EarlierLines
<1>4. from \in 1..(n + 1) /\ (from = 1 \/ from - 1 \in N) /\ \A i \in N : i < from
  BY DEF Open
<1> HIDE DEF N, M
<1>5. PICK end \in S : \A i \in S : end <= i
  <2>1. S \in SUBSET Nat  BY <1>2
  <2>2. Len(more) \in S  BY DEF M
  <2> HIDE DEF S
  <2> QED  BY <2>1, <2>2, Least
<1>6. end \in M /\ end \in (n + 1)..Len(more)
  BY <1>2, <1>5
<1>7. \A i \in M : from <= i => end <= i
  <2> TAKE i \in M
  <2> HAVE from <= i
  <2>1. i \in Int  BY <1>2
  <2>2. i \notin N  BY <1>4, <2>1
  <2>3. n < i  BY <1>2, <1>3, <2>1, <2>2
  <2> QED  BY <1>5, <2>3
<1>8. <<from, end>> \in Lines(more)
  <2>1. from \in Int /\ from <= end /\ (from = 1 \/ from - 1 \in M)
    BY <1>2, <1>3, <1>4, <1>6
  <2> QED  BY <1>1, <1>6, <1>7, <2>1, NewlinesAre DEF M
<1>9. \A i \in from..(end - 1) : more[i] # LF
  <2> SUFFICES ASSUME NEW i \in from..(end - 1), more[i] = LF  PROVE FALSE
    OBVIOUS
  <2>1. i \in 1..Len(more) /\ from <= i /\ i < end  BY <1>2, <1>4, <1>6
  <2>2. i \in M  BY <1>2, <2>1
  <2>3. end <= i  BY <1>7, <2>1, <2>2
  <2> QED  BY <1>2, <1>6, <2>1, <2>3
<1> QED  BY <1>6, <1>8, <1>9

-----------------------------------------------------------------------------
(* Which beginnings of a request lead to a state.                          *)

LEMMA Classes ==
    ASSUME NEW c
    PROVE  /\ IsToken(c) => c \notin {SP, TAB, CR, LF, ":", "/"}
           /\ IsUriChar(c) <=> c # SP /\ ~IsCtl(c)
           /\ IsUriChar(c) => c \notin {SP, CR, LF}
           /\ IsDigit(c) <=> c \in Digits
           /\ IsDigit(c) => c \notin {SP, CR, LF, "."}
           /\ IsText(c) <=> ~IsCtl(c)
           /\ IsText(c) => c \notin {TAB, CR, LF}
           /\ IsBlank(c) <=> c \in {SP, TAB}
           /\ IsCtl(SP) = FALSE
BY DEF IsToken, IsUriChar, IsDigit, IsText, IsBlank, IsCtl, IsTspecial, Digits, SP, TAB, CR, LF

\* A request line up to a position, its method ended at p, its uri at q, the major
\* version at d.
Method(text, p) == 1 < p /\ \A i \in 1..(p - 1) : IsToken(text[i])

Uri(text, p, q) ==
    /\ Method(text, p) /\ text[p] = SP /\ p < q
    /\ \A i \in (p + 1)..(q - 1) : IsUriChar(text[i])

Protocol == <<"H", "T", "T", "P", "/">>

Named(text, p, q, k) ==
    Uri(text, p, q) /\ text[q] = SP /\ \A j \in 1..k : text[q + j] = Protocol[j]

Major(text, p, q, d) ==
    Named(text, p, q, 5) /\ q + 6 < d /\ \A i \in (q + 6)..(d - 1) : IsDigit(text[i])

Minor(text, p, q, d, to) ==
    /\ Major(text, p, q, d) /\ text[d] = "." /\ d < to
    /\ \A i \in (d + 1)..to : IsDigit(text[i])

LEMMA RequestLineIs ==
    ASSUME NEW text, NEW to \in Int
    PROVE  /\ RequestLine(text, to) # {} <=>
                \E p, q, d \in 1..to : Minor(text, p, q, d, to)
           /\ \A l \in RequestLine(text, to) :
                /\ l[1] \in 1..to /\ l[2] \in 1..to
                /\ \E d \in 1..to : Minor(text, l[1], l[2], d, to)
           /\ \A p, q, d \in 1..to :
                Minor(text, p, q, d, to) => <<p, q>> \in RequestLine(text, to)
<1>1. ASSUME NEW l \in RequestLine(text, to)
      PROVE  /\ l[1] \in 1..to /\ l[2] \in 1..to
             /\ \E d \in 1..to : Minor(text, l[1], l[2], d, to)
  <2> DEFINE p == l[1]
             q == l[2]
  <2>1. /\ p \in 1..to /\ q \in 1..to /\ text[p] = SP /\ text[q] = SP
        /\ 1 < p /\ p < q
        /\ \A i \in 1..(p - 1) : IsToken(text[i])
        /\ \A i \in (p + 1)..(q - 1) : IsUriChar(text[i])
        /\ IsVersion(text, q + 1, to)
    BY DEF RequestLine, Spaces
  <2> HIDE DEF p, q
  <2>2. PICK d \in (q + 1 + 6)..(to - 1) :
          /\ text[d] = "."
          /\ \A i \in (q + 1 + 5)..(d - 1) : IsDigit(text[i])
          /\ \A i \in (d + 1)..to : IsDigit(text[i])
    BY <2>1 DEF IsVersion
  <2>3. \A j \in 1..5 : text[q + j] = Protocol[j]
    <3>1. text[q + 1] = "H" /\ text[q + 1 + 1] = "T" /\ text[q + 1 + 2] = "T"
          /\ text[q + 1 + 3] = "P" /\ text[q + 1 + 4] = "/"
      BY <2>1 DEF IsVersion
    <3>2. \A j \in 1..5 : j \in {1, 2, 3, 4, 5}  OBVIOUS
    <3>3. q + 1 + 1 = q + 2 /\ q + 1 + 2 = q + 3 /\ q + 1 + 3 = q + 4 /\ q + 1 + 4 = q + 5
      BY <2>1
    <3> QED  BY <3>1, <3>2, <3>3 DEF Protocol
  <2>4. Uri(text, p, q)  BY <2>1 DEF Uri, Method
  <2>5. q + 1 + 5 = q + 6 /\ q + 6 < d /\ d \in 1..to /\ d < to  BY <2>1, <2>2
  <2>6. Major(text, p, q, d)  BY <2>1, <2>2, <2>3, <2>4, <2>5 DEF Major, Named
  <2>7. Minor(text, p, q, d, to)  BY <2>1, <2>2, <2>5, <2>6 DEF Minor
  <2> QED  BY <2>1, <2>5, <2>7 DEF p, q
<1>2. ASSUME NEW p \in 1..to, NEW q \in 1..to, NEW d \in 1..to, Minor(text, p, q, d, to)
      PROVE  <<p, q>> \in RequestLine(text, to)
  <2>1. /\ text[p] = SP /\ text[q] = SP /\ 1 < p /\ p < q
        /\ \A i \in 1..(p - 1) : IsToken(text[i])
        /\ \A i \in (p + 1)..(q - 1) : IsUriChar(text[i])
        /\ \A j \in 1..5 : text[q + j] = Protocol[j]
        /\ q + 6 < d /\ d < to /\ text[d] = "."
        /\ \A i \in (q + 6)..(d - 1) : IsDigit(text[i])
        /\ \A i \in (d + 1)..to : IsDigit(text[i])
    BY <1>2 DEF Minor, Major, Named, Uri, Method
  <2>2. IsVersion(text, q + 1, to)
    <3>1. /\ q + 1 + 1 = q + 2 /\ q + 1 + 2 = q + 3 /\ q + 1 + 3 = q + 4 /\ q + 1 + 4 = q + 5
          /\ q + 1 + 5 = q + 6 /\ q + 5 <= to /\ d \in (q + 1 + 6)..(to - 1)
      BY <2>1
    <3>2. /\ text[q + 1] = "H" /\ text[q + 2] = "T" /\ text[q + 3] = "T"
          /\ text[q + 4] = "P" /\ text[q + 5] = "/"
      BY <2>1 DEF Protocol
    <3> QED  BY <2>1, <3>1, <3>2 DEF IsVersion
  <2> QED
    BY <2>1, <2>2 DEF RequestLine, Spaces
<1> QED  BY <1>1, <1>2

\* The parts are the same ones, as far as two texts are.
SameTo(text, more, p, q, d, to, k) ==
    LET n == Len(text)
    IN  /\ p <= n + 1 => (Method(more, p) <=> Method(text, p))
        /\ q <= n + 1 => (Uri(more, p, q) <=> Uri(text, p, q))
        /\ q + k <= n => (Named(more, p, q, k) <=> Named(text, p, q, k))
        /\ d <= n + 1 => (Major(more, p, q, d) <=> Major(text, p, q, d))
        /\ to <= n => (Minor(more, p, q, d, to) <=> Minor(text, p, q, d, to))

LEMMA SameFirst ==
    ASSUME NEW text, NEW more, Continues(more, text),
           NEW p \in Nat, NEW q \in Nat, NEW d \in Nat, NEW to \in Nat, NEW k \in 0..5
    PROVE  SameTo(text, more, p, q, d, to, k)
<1> DEFINE n == Len(text)
<1>1. n \in Nat /\ \A i \in 1..n : more[i] = text[i]
  BY NewlinesAre DEF Continues
<1> HIDE DEF n
<1>2. p <= n + 1 => (Method(more, p) <=> Method(text, p))
  BY <1>1 DEF Method
<1>3. q <= n + 1 => (Uri(more, p, q) <=> Uri(text, p, q))
  <2> SUFFICES ASSUME q <= n + 1, 1 < p, p < q  PROVE Uri(more, p, q) <=> Uri(text, p, q)
    BY DEF Uri, Method
  <2>1. more[p] = text[p] /\ \A i \in (p + 1)..(q - 1) : more[i] = text[i]  BY <1>1
  <2>2. Method(more, p) <=> Method(text, p)
    <3>1. p <= n + 1  BY <1>1
    <3> QED  BY <1>2, <3>1
  <2> QED  BY <2>1, <2>2 DEF Uri
<1>4. \A m \in 0..5 : q + m <= n => (Named(more, p, q, m) <=> Named(text, p, q, m))
  <2> TAKE m \in 0..5
  <2> SUFFICES ASSUME q + m <= n, 1 < p, p < q
               PROVE  Named(more, p, q, m) <=> Named(text, p, q, m)
    BY DEF Named, Uri, Method
  <2>1. more[q] = text[q] /\ \A j \in 1..m : more[q + j] = text[q + j]  BY <1>1
  <2>2. q <= n + 1  BY <1>1
  <2> QED  BY <1>3, <2>1, <2>2 DEF Named
<1>5. d <= n + 1 => (Major(more, p, q, d) <=> Major(text, p, q, d))
  <2> SUFFICES ASSUME d <= n + 1, q + 6 < d  PROVE Major(more, p, q, d) <=> Major(text, p, q, d)
    BY DEF Major
  <2>1. q + 5 <= n /\ \A i \in (q + 6)..(d - 1) : more[i] = text[i]  BY <1>1
  <2>2. Named(more, p, q, 5) <=> Named(text, p, q, 5)  BY <1>4, <2>1
  <2> QED  BY <2>1, <2>2 DEF Major
<1>6. to <= n => (Minor(more, p, q, d, to) <=> Minor(text, p, q, d, to))
  <2> SUFFICES ASSUME to <= n, d < to, q + 6 < d
               PROVE  Minor(more, p, q, d, to) <=> Minor(text, p, q, d, to)
    BY DEF Minor, Major
  <2>1. d <= n + 1 /\ more[d] = text[d] /\ \A i \in (d + 1)..to : more[i] = text[i]  BY <1>1
  <2> QED  BY <1>5, <2>1 DEF Minor
<1> QED  BY <1>2, <1>3, <1>4, <1>5, <1>6 DEF SameTo, n

\* Where the parts of a request line end is never in doubt.
LEMMA PartsAreClear ==
    ASSUME NEW text, NEW p \in Nat, NEW p2 \in Nat, NEW q \in Nat, NEW q2 \in Nat,
           NEW d \in Nat, NEW d2 \in Nat
    PROVE  /\ Method(text, p) /\ text[p2] = SP /\ 0 < p2 => p <= p2
           /\ Uri(text, p, q) /\ p < q2 /\ text[q2] = SP => q <= q2
           /\ Major(text, p, q, d) /\ q + 5 < d2 /\ ~IsDigit(text[d2]) => d <= d2
<1>1. Method(text, p) /\ text[p2] = SP /\ 0 < p2 => p <= p2
  <2> SUFFICES ASSUME Method(text, p), text[p2] = SP, 0 < p2, p2 < p  PROVE FALSE
    OBVIOUS
  <2>1. IsToken(text[p2])  BY DEF Method
  <2> QED  BY <2>1, Classes
<1>2. Uri(text, p, q) /\ p < q2 /\ text[q2] = SP => q <= q2
  <2> SUFFICES ASSUME Uri(text, p, q), p < q2, text[q2] = SP, q2 < q  PROVE FALSE
    OBVIOUS
  <2>1. IsUriChar(text[q2])  BY DEF Uri
  <2> QED  BY <2>1, Classes
<1>3. Major(text, p, q, d) /\ q + 5 < d2 /\ ~IsDigit(text[d2]) => d <= d2
  BY DEF Major
<1> QED  BY <1>1, <1>2, <1>3

\* What a character does to the parts of a request line: it goes on with one or ends it.
Takes(text, more, c, p, q, d, k) ==
    LET n == Len(text)
    IN  /\ Method(text, n + 1) /\ IsToken(c) => Method(more, n + 2)
        /\ Method(text, n + 1) /\ c = SP => Uri(more, n + 1, n + 2)
        /\ Uri(text, p, n + 1) /\ IsUriChar(c) => Uri(more, p, n + 2)
        /\ Uri(text, p, n + 1) /\ c = SP => Named(more, p, n + 1, 0)
        /\ Named(text, p, q, k) /\ q + k = n /\ c = Protocol[k + 1] => Named(more, p, q, k + 1)
        /\ Named(text, p, q, 5) /\ q + 5 = n /\ IsDigit(c) => Major(more, p, q, n + 2)
        /\ Major(text, p, q, n + 1) =>
             Major(more, p, q, n + 1) /\ (IsDigit(c) => Major(more, p, q, n + 2))
        /\ Major(text, p, q, n) /\ text[n] = "." /\ IsDigit(c) => Minor(more, p, q, n, n + 1)
        /\ Minor(text, p, q, d, n) =>
             Minor(more, p, q, d, n) /\ (IsDigit(c) => Minor(more, p, q, d, n + 1))

LEMMA PartsGrow ==
    ASSUME NEW text, NEW more, Continues(more, text), Len(more) = Len(text) + 1,
           NEW c, c = more[Len(text) + 1],
           NEW p \in Nat, NEW q \in Nat, NEW d \in Nat, NEW k \in 0..4
    PROVE  Takes(text, more, c, p, q, d, k)
<1> DEFINE n == Len(text)
<1>1. /\ n \in Nat /\ \A i \in 1..n : more[i] = text[i]
      /\ c = more[n + 1]
  BY NewlinesAre DEF Continues
<1> HIDE DEF n
<1>2. ASSUME Method(text, n + 1)
      PROVE  /\ IsToken(c) => Method(more, n + 2)
             /\ c = SP => Uri(more, n + 1, n + 2)
  <2>1. Method(more, n + 1)  BY <1>1, <1>2, SameFirst DEF SameTo, n
  <2>2. \A i \in 1..(n + 2 - 1) : i \in 1..(n + 1 - 1) \/ i = n + 1  BY <1>1
  <2>3. (n + 1 + 1)..(n + 2 - 1) = {} /\ n + 1 < n + 2  BY <1>1
  <2>4. IsToken(c) => Method(more, n + 2)  BY <1>1, <2>1, <2>2 DEF Method
  <2>5. c = SP => Uri(more, n + 1, n + 2)  BY <1>1, <2>1, <2>3 DEF Uri
  <2> QED  BY <2>4, <2>5
<1>3. ASSUME Uri(text, p, n + 1)
      PROVE  /\ IsUriChar(c) => Uri(more, p, n + 2)
             /\ c = SP => Named(more, p, n + 1, 0)
  <2>1. Uri(more, p, n + 1)  BY <1>1, <1>3, SameFirst DEF SameTo, n
  <2>2. /\ p < n + 1 => p < n + 2
        /\ \A i \in (p + 1)..(n + 2 - 1) : i \in (p + 1)..(n + 1 - 1) \/ i = n + 1
    BY <1>1
  <2>3. 1..0 = {}  OBVIOUS
  <2>4. IsUriChar(c) => Uri(more, p, n + 2)  BY <1>1, <2>1, <2>2 DEF Uri
  <2>5. c = SP => Named(more, p, n + 1, 0)  BY <1>1, <2>1, <2>3 DEF Named
  <2> QED  BY <2>4, <2>5
<1>4. ASSUME Named(text, p, q, k), q + k = n, c = Protocol[k + 1]
      PROVE  Named(more, p, q, k + 1)
  <2>1. Named(more, p, q, k)  BY <1>1, <1>4, SameFirst DEF SameTo, n
  <2>2. \A j \in 1..(k + 1) : j \in 1..k \/ j = k + 1  OBVIOUS
  <2>3. q + (k + 1) = n + 1  BY <1>1, <1>4
  <2> QED  BY <1>1, <1>4, <2>1, <2>2, <2>3 DEF Named
<1>5. ASSUME Named(text, p, q, 5), q + 5 = n, IsDigit(c)
      PROVE  Major(more, p, q, n + 2)
  <2>1. Named(more, p, q, 5)  BY <1>1, <1>5, SameFirst DEF SameTo, n
  <2>2. q + 6 < n + 2 /\ \A i \in (q + 6)..(n + 2 - 1) : i = n + 1  BY <1>1, <1>5
  <2> QED  BY <1>1, <1>5, <2>1, <2>2 DEF Major
<1>6. ASSUME Major(text, p, q, n + 1)
      PROVE  Major(more, p, q, n + 1) /\ (IsDigit(c) => Major(more, p, q, n + 2))
  <2>1. Major(more, p, q, n + 1)  BY <1>1, <1>6, SameFirst DEF SameTo, n
  <2>2. q + 6 < n + 1 => q + 6 < n + 2  BY <1>1
  <2>3. \A i \in (q + 6)..(n + 2 - 1) : i \in (q + 6)..(n + 1 - 1) \/ i = n + 1  BY <1>1
  <2>4. ASSUME IsDigit(c)  PROVE Major(more, p, q, n + 2)
    <3>1. Named(more, p, q, 5) /\ q + 6 < n + 1  BY <2>1 DEF Major
    <3>2. \A i \in (q + 6)..((n + 2) - 1) : IsDigit(more[i])
      BY <1>1, <2>1, <2>3, <2>4 DEF Major
    <3>3. q + 6 < n + 2  BY <2>2, <3>1
    <3> QED  BY <3>1, <3>2, <3>3, Zenon DEF Major
  <2> QED  BY <2>1, <2>4
<1>7. ASSUME Major(text, p, q, n), text[n] = ".", IsDigit(c)
      PROVE  Minor(more, p, q, n, n + 1)
  <2>1. Major(more, p, q, n)  BY <1>1, <1>7, SameFirst DEF SameTo, n
  <2>2. n # 0  BY <1>1, <1>7 DEF Major
  <2>3. more[n] = "." /\ n < n + 1 /\ \A i \in (n + 1)..(n + 1) : i = n + 1  BY <1>1, <1>7, <2>2
  <2> QED  BY <1>1, <1>7, <2>1, <2>3 DEF Minor
<1>8. ASSUME Minor(text, p, q, d, n)
      PROVE  Minor(more, p, q, d, n) /\ (IsDigit(c) => Minor(more, p, q, d, n + 1))
  <2>1. Minor(more, p, q, d, n)  BY <1>1, <1>8, SameFirst DEF SameTo, n
  <2>2. /\ d < n => d < n + 1
        /\ \A i \in (d + 1)..(n + 1) : i \in (d + 1)..n \/ i = n + 1
    BY <1>1
  <2> QED  BY <1>1, <2>1, <2>2 DEF Minor
<1> QED  BY <1>2, <1>3, <1>4, <1>5, <1>6, <1>7, <1>8 DEF Takes, n

\* How far the protocol's name has been read.
Letters5 ==
    [st \in {"http_version_h", "http_version_t_1", "http_version_t_2", "http_version_p",
             "http_version_slash", "http_version_major_start"} |->
        CASE st = "http_version_h"     -> 0
          [] st = "http_version_t_1"   -> 1
          [] st = "http_version_t_2"   -> 2
          [] st = "http_version_p"     -> 3
          [] st = "http_version_slash" -> 4
          [] OTHER                     -> 5]

\* What the first line is like, in the states in it.
InFirst(st, text) ==
    LET n == Len(text)
    IN  /\ st = "method_start" => n = 0
        /\ st = "method" => Method(text, n + 1)
        /\ st = "uri" => \E p \in 1..n : Uri(text, p, n + 1)
        /\ st \in DOMAIN Letters5 =>
             \E p, q \in 1..n : q + Letters5[st] = n /\ Named(text, p, q, Letters5[st])
        /\ st = "http_version_major" => \E p, q \in 1..n : Major(text, p, q, n + 1)
        /\ st = "http_version_minor_start" =>
             \E p, q \in 1..n : Major(text, p, q, n) /\ text[n] = "."
        /\ st = "http_version_minor" => \E p, q, d \in 1..n : Minor(text, p, q, d, n)
        /\ st = "expecting_newline_1" =>
             n > 0 /\ text[n] = CR /\ \E p, q, d \in 1..(n - 1) : Minor(text, p, q, d, n - 1)

\* What a later line is like, in the states in it.
InLater(st, text, from) ==
    LET n == Len(text)
    IN  /\ st = "header_line_start" => from = n + 1
        /\ st = "expecting_newline_3" => from = n /\ text[n] = CR
        /\ st \notin {"header_line_start", "expecting_newline_3"} => from <= n
        /\ st = "header_name" => \A i \in from..n : IsToken(text[i])
        /\ st = "space_before_header_value" =>
             from < n /\ text[n] = ":" /\ \A i \in from..(n - 1) : IsToken(text[i])
        /\ st = "header_lws" => Later(text, from) /\ \A i \in from..n : IsBlank(text[i])
        /\ st = "header_value" =>
             \/ HeaderLine(text, from, n) # {}
             \/ Later(text, from) /\ \E i \in FoldedLine(text, from, n) : i < n
        /\ st = "expecting_newline_2" =>
             /\ from < n /\ text[n] = CR
             /\ \/ HeaderLine(text, from, n - 1) # {}
                \/ Later(text, from) /\ FoldedLine(text, from, n - 1) # {}

FirstStates == MethodOrUri \cup Version

\* The text is the beginning of a request, and the machine in the state for what is
\* left of it.
Leading(st, text, from) ==
    /\ Open(text, from) /\ Whole(text)
    /\ IF st \in FirstStates THEN from = 1 /\ InFirst(st, text)
       ELSE 1 < from /\ InLater(st, text, from)

\* Whether there is a header for a folded line to go on with.
Knows(st, text, from, headers) ==
    st = "header_line_start" => (headers # <<>> <=> Later(text, from))

-----------------------------------------------------------------------------
(* A character in the first line.                                          *)

LEMMA FirstLineGoesOn ==
    ASSUME NEW text, NEW more, Continues(more, text), Len(more) = Len(text) + 1,
           NEW st \in FirstStates, InFirst(st, text), NEW headers,
           LET to == After(st, more[Len(text) + 1], headers)
           IN  to \notin {"bad", "header_line_start"}
    PROVE  LET to == After(st, more[Len(text) + 1], headers)
           IN  /\ more[Len(text) + 1] # LF
               /\ to \in FirstStates /\ InFirst(to, more)
<1> DEFINE n == Len(text)
           c == more[n + 1]
           to == After(st, c, headers)
<1>1. /\ n \in Nat /\ Len(more) = n + 1 /\ n + 1 + 1 = n + 2 /\ n + 1 \in 1..(n + 1)
      /\ \A p \in 1..n : p \in 1..(n + 1) /\ p \in Nat
  BY NewlinesAre DEF Continues
<1>2. to \notin {"bad", "header_line_start"}  OBVIOUS
<1>3. /\ IsToken(c) => c \notin {SP, TAB, CR, LF, ":", "/"}
      /\ c # SP /\ ~IsCtl(c) <=> IsUriChar(c)
      /\ IsUriChar(c) => c \notin {SP, CR, LF}
      /\ c \in Digits <=> IsDigit(c)
      /\ IsDigit(c) => c \notin {SP, CR, LF, "."}
  BY Classes
<1>4. LF \notin {SP, CR, "H", "T", "P", "/", "."}  BY DEF LF, CR, SP
<1>5. \A p, q, d \in Nat, k \in 0..4 : Takes(text, more, c, p, q, d, k)
  BY PartsGrow
<1> HIDE DEF n, c
<1>6. CASE st = "method_start"
  <2>1. to = InMethodOrUri(st, c)  BY <1>6 DEF After, MethodOrUri
  <2>2. to = "method" /\ IsToken(c)  BY <1>2, <1>6, <2>1 DEF InMethodOrUri
  <2>3. Method(more, n + 2)
    <3>1. n = 0  BY <1>6 DEF InFirst, n
    <3>2. \A i \in 1..(n + 2 - 1) : i = n + 1  BY <3>1
    <3> QED  BY <2>2, <3>1, <3>2 DEF Method, c
  <2> QED  BY <1>1, <1>3, <2>2, <2>3 DEF InFirst, FirstStates, MethodOrUri, Letters5, n, c
<1>7. CASE st = "method"
  <2>1. to = InMethodOrUri(st, c)  BY <1>7 DEF After, MethodOrUri
  <2>2. \/ to = "method" /\ IsToken(c)
        \/ to = "uri" /\ c = SP
    BY <1>2, <1>7, <2>1 DEF InMethodOrUri
  <2>3. /\ IsToken(c) => Method(more, n + 2)
        /\ c = SP => Uri(more, n + 1, n + 2)
    <3>1. Method(text, n + 1)  BY <1>7 DEF InFirst, n
    <3>2. Takes(text, more, c, 0, 0, 0, 0)  BY <1>5
    <3> QED  BY <3>1, <3>2 DEF Takes, n
  <2> QED
    BY <1>1, <1>3, <1>4, <2>2, <2>3 DEF InFirst, FirstStates, MethodOrUri, Letters5, n, c
<1>8. CASE st = "uri"
  <2>1. to = InMethodOrUri(st, c)  BY <1>8 DEF After, MethodOrUri
  <2>2. \/ to = "uri" /\ IsUriChar(c)
        \/ to = "http_version_h" /\ c = SP
    BY <1>2, <1>3, <1>8, <2>1 DEF InMethodOrUri
  <2>3. PICK p \in 1..n : Uri(text, p, n + 1)  BY <1>8 DEF InFirst, n
  <2>4. /\ IsUriChar(c) => Uri(more, p, n + 2)
        /\ c = SP => Named(more, p, n + 1, 0)
    <3>1. Takes(text, more, c, p, 0, 0, 0)  BY <1>1, <1>5
    <3> QED  BY <2>3, <3>1 DEF Takes, n
  <2>5. CASE to = "uri" /\ IsUriChar(c)
    BY <1>1, <1>3, <2>4, <2>5 DEF InFirst, FirstStates, MethodOrUri, Letters5, n, c
  <2>6. CASE to = "http_version_h" /\ c = SP
    <3>1. n + 1 + 0 = n + 1  BY <1>1
    <3>2. "http_version_h" \in DOMAIN Letters5 /\ Letters5["http_version_h"] = 0  BY DEF Letters5
    <3> QED  BY <1>1, <1>4, <2>4, <2>6, <3>1, <3>2 DEF InFirst, FirstStates, Version, n, c
  <2> QED  BY <2>2, <2>5, <2>6
<1>9. CASE st \in DOMAIN Letters5 \ {"http_version_major_start"}
  <2> DEFINE k == Letters5[st]
  <2>1. st \in Version /\ st \notin MethodOrUri /\ k \in 0..4
    BY <1>9 DEF Letters5, Version, MethodOrUri
  <2>2. to = InVersion(st, c)  BY <2>1 DEF After
  <2>3. /\ to \in DOMAIN Letters5 /\ Letters5[to] = k + 1 /\ c = Protocol[k + 1]
        /\ to \in Version /\ to \notin {"http_version_h"} \cup MethodOrUri
    BY <1>2, <1>9, <2>2 DEF InVersion, Letters5, Protocol, Version, MethodOrUri
  <2>4. PICK p \in 1..n, q \in 1..n : q + k = n /\ Named(text, p, q, k)
    BY <1>9 DEF InFirst, n
  <2> HIDE DEF k
  <2>5. Named(more, p, q, k + 1)
    <3>1. Takes(text, more, c, p, q, 0, k)  BY <1>1, <1>5, <2>1
    <3> QED  BY <2>3, <2>4, <3>1 DEF Takes, n
  <2>6. p \in 1..(n + 1) /\ q \in 1..(n + 1) /\ q + (k + 1) = n + 1  BY <1>1, <2>1, <2>4
  <2>7. c # LF
    <3>1. k + 1 \in {1, 2, 3, 4, 5}  BY <2>1
    <3> QED  BY <1>4, <2>3, <3>1 DEF Protocol
  <2>8. \E p2, q2 \in 1..(n + 1) : q2 + Letters5[to] = n + 1 /\ Named(more, p2, q2, Letters5[to])
    BY <2>3, <2>5, <2>6
  <2>9. to \notin {"method_start", "method", "uri", "http_version_major",
                   "http_version_minor_start", "http_version_minor", "expecting_newline_1"}
    BY <2>3 DEF Letters5
  <2> HIDE DEF to
  <2>10. InFirst(to, more)  BY <1>1, <2>8, <2>9 DEF InFirst
  <2> QED  BY <2>3, <2>7, <2>10 DEF FirstStates, to, c, n
<1>10. CASE st = "http_version_major_start"
  <2>1. to = InVersion(st, c)  BY <1>10 DEF After, MethodOrUri, Version
  <2>2. to = "http_version_major" /\ IsDigit(c)  BY <1>2, <1>3, <1>10, <2>1 DEF InVersion
  <2>3. st \in DOMAIN Letters5 /\ Letters5[st] = 5  BY <1>10 DEF Letters5
  <2>4. PICK p \in 1..n, q \in 1..n : q + 5 = n /\ Named(text, p, q, 5)
    BY <2>3 DEF InFirst, n
  <2>5. Major(more, p, q, n + 2)
    <3>1. Takes(text, more, c, p, q, 0, 0)  BY <1>1, <1>5
    <3> QED  BY <2>2, <2>4, <3>1 DEF Takes, n
  <2> QED  BY <1>1, <1>3, <2>2, <2>5 DEF InFirst, FirstStates, Version, Letters5, n, c
<1>11. CASE st = "http_version_major"
  <2>1. to = InVersion(st, c)  BY <1>11 DEF After, MethodOrUri, Version
  <2>2. \/ to = "http_version_major" /\ IsDigit(c)
        \/ to = "http_version_minor_start" /\ c = "."
    BY <1>2, <1>3, <1>11, <2>1 DEF InVersion
  <2>3. PICK p \in 1..n, q \in 1..n : Major(text, p, q, n + 1)
    BY <1>11 DEF InFirst, n
  <2>4. Major(more, p, q, n + 1) /\ (IsDigit(c) => Major(more, p, q, n + 2))
    <3>1. Takes(text, more, c, p, q, 0, 0)  BY <1>1, <1>5
    <3> QED  BY <2>3, <3>1 DEF Takes, n
  <2>5. CASE to = "http_version_major" /\ IsDigit(c)
    BY <1>1, <1>3, <2>4, <2>5 DEF InFirst, FirstStates, Version, Letters5, n, c
  <2>6. CASE to = "http_version_minor_start" /\ c = "."
    BY <1>1, <1>4, <2>4, <2>6 DEF InFirst, FirstStates, Version, Letters5, n, c
  <2> QED  BY <2>2, <2>5, <2>6
<1>12. CASE st = "http_version_minor_start"
  <2>1. to = InVersion(st, c)  BY <1>12 DEF After, MethodOrUri, Version
  <2>2. to = "http_version_minor" /\ IsDigit(c)  BY <1>2, <1>3, <1>12, <2>1 DEF InVersion
  <2>3. PICK p \in 1..n, q \in 1..n : Major(text, p, q, n) /\ text[n] = "."
    BY <1>12 DEF InFirst, n
  <2>4. Minor(more, p, q, n, n + 1) /\ n \in 1..(n + 1)
    <3>1. Takes(text, more, c, p, q, 0, 0) /\ n \in 1..(n + 1)  BY <1>1, <1>5
    <3> QED  BY <2>2, <2>3, <3>1 DEF Takes, n
  <2> QED  BY <1>1, <1>3, <2>2, <2>4 DEF InFirst, FirstStates, Version, Letters5, n, c
<1>13. CASE st = "http_version_minor"
  <2>1. to = InVersion(st, c)  BY <1>13 DEF After, MethodOrUri, Version
  <2>2. \/ to = "http_version_minor" /\ IsDigit(c)
        \/ to = "expecting_newline_1" /\ c = CR
    BY <1>2, <1>3, <1>13, <2>1 DEF InVersion
  <2>3. PICK p \in 1..n, q \in 1..n, d \in 1..n : Minor(text, p, q, d, n)
    BY <1>13 DEF InFirst, n
  <2>4. Minor(more, p, q, d, n) /\ (IsDigit(c) => Minor(more, p, q, d, n + 1))
    <3>1. Takes(text, more, c, p, q, d, 0)  BY <1>1, <1>5
    <3> QED  BY <2>3, <3>1 DEF Takes, n
  <2>5. CASE to = "http_version_minor" /\ IsDigit(c)
    BY <1>1, <1>3, <2>4, <2>5 DEF InFirst, FirstStates, Version, Letters5, n, c
  <2>6. CASE to = "expecting_newline_1" /\ c = CR
    <3>1. n + 1 - 1 = n /\ n + 1 > 0  BY <1>1
    <3> QED  BY <1>1, <1>4, <2>4, <2>6, <3>1 DEF InFirst, FirstStates, Version, Letters5, n, c
  <2> QED  BY <2>2, <2>5, <2>6
<1>14. CASE st = "expecting_newline_1"
  <2>1. to = InVersion(st, c)  BY <1>14 DEF After, MethodOrUri, Version
  <2>2. to \in {"bad", "header_line_start"}  BY <1>2, <1>14, <2>1 DEF InVersion
  <2> QED  BY <2>2 DEF n, c
<1> QED
  BY <1>6, <1>7, <1>8, <1>9, <1>10, <1>11, <1>12, <1>13, <1>14
  DEF FirstStates, MethodOrUri, Version, Letters5

-----------------------------------------------------------------------------
(* A character in a later line, and the ends of lines.                     *)

\* A line with a value goes on with it.
LEMMA ValueLineGrows ==
    ASSUME NEW text, NEW more, Continues(more, text), Len(more) = Len(text) + 1,
           NEW from \in Nat \ {0}, from <= Len(text) + 1, IsText(more[Len(text) + 1])
    PROVE  LET n == Len(text)
           IN  /\ \A i \in HeaderLine(text, from, n) : i \in HeaderLine(more, from, n + 1)
               /\ \A i \in FoldedLine(text, from, n) : i < n => i \in FoldedLine(more, from, n + 1)
<1> DEFINE n == Len(text)
           c == more[n + 1]
<1>1. n \in Nat  BY NewlinesAre DEF Continues
<1>2. /\ HeaderLine(more, from, n) = HeaderLine(text, from, n)
      /\ FoldedLine(more, from, n) = FoldedLine(text, from, n)
  BY <1>1, SameLine
<1>3. IsText(c)  OBVIOUS
<1> HIDE DEF n
<1>4. ASSUME NEW i \in HeaderLine(more, from, n)  PROVE i \in HeaderLine(more, from, n + 1)
  <2>1. /\ i \in (from + 1)..(n - 1) /\ more[i] = ":" /\ more[i + 1] = SP
        /\ \A j \in from..(i - 1) : IsToken(more[j])
        /\ \A j \in (i + 2)..n : IsText(more[j])
    BY DEF HeaderLine
  <2>2. i \in (from + 1)..(n + 1 - 1) /\ \A j \in (i + 2)..(n + 1) : j \in (i + 2)..n \/ j = n + 1
    BY <1>1, <2>1
  <2> QED  BY <1>1, <1>3, <2>1, <2>2 DEF HeaderLine
<1>5. ASSUME NEW i \in FoldedLine(more, from, n), i < n  PROVE i \in FoldedLine(more, from, n + 1)
  <2>1. /\ i \in from..n /\ more[i + 1] # SP
        /\ \A j \in from..i : IsBlank(more[j])
        /\ \A j \in (i + 1)..n : IsText(more[j])
    BY <1>1, <1>5 DEF FoldedLine
  <2>2. i \in from..(n + 1) /\ \A j \in (i + 1)..(n + 1) : j \in (i + 1)..n \/ j = n + 1
    BY <1>1, <2>1
  <2> QED  BY <1>1, <1>3, <2>1, <2>2 DEF FoldedLine
<1> QED  BY <1>2, <1>4, <1>5 DEF n

LEMMA LaterLineGoesOn ==
    ASSUME NEW text, NEW more, Continues(more, text), Len(more) = Len(text) + 1,
           NEW from \in 2..(Len(text) + 1),
           NEW st \in States \ FirstStates, InLater(st, text, from),
           NEW headers, Knows(st, text, from, headers),
           LET to == After(st, more[Len(text) + 1], headers)
           IN  to \notin {"bad", "good", "header_line_start"}
    PROVE  LET to == After(st, more[Len(text) + 1], headers)
           IN  /\ more[Len(text) + 1] # LF
               /\ to \in States \ FirstStates /\ InLater(to, more, from)
<1> DEFINE n == Len(text)
           c == more[n + 1]
           to == After(st, c, headers)
<1>1. /\ n \in Nat /\ Len(more) = n + 1
      /\ \A i \in 1..n : more[i] = text[i]
      /\ from \in Int /\ 1 < from /\ from <= n + 1
  BY NewlinesAre DEF Continues
<1>2. to \notin {"bad", "good", "header_line_start"}  OBVIOUS
<1>3. to = InHeaders(st, c, headers)
  BY DEF After, FirstStates
<1>4. Later(more, from) <=> Later(text, from)  BY <1>1, SameLater DEF n
<1>5. ASSUME NEW i \in (n - 1)..n
      PROVE  /\ HeaderLine(more, from, i) = HeaderLine(text, from, i)
             /\ FoldedLine(more, from, i) = FoldedLine(text, from, i)
  <2>1. from \in Nat \ {0} /\ i \in Int /\ i <= n  BY <1>1
  <2> QED  BY <2>1, SameLine DEF n
<1>6. n \in (n - 1)..n  BY <1>1
<1> HIDE DEF n
<1>7. /\ IsToken(c) => c \notin {SP, TAB, CR, LF, ":", "/"}
      /\ c # SP /\ ~IsCtl(c) <=> IsUriChar(c)
      /\ IsUriChar(c) => c \notin {SP, CR, LF}
      /\ ~IsCtl(c) <=> IsText(c)
      /\ IsText(c) => c \notin {TAB, CR, LF}
      /\ c \in {SP, TAB} <=> IsBlank(c)
      /\ IsCtl(SP) = FALSE
  BY Classes
<1>8. LF \notin {SP, TAB, CR, ":"} /\ SP # CR  BY DEF LF, CR, SP, TAB
<1> SUFFICES c # LF /\ to \in States \ FirstStates /\ InLater(to, more, from)
  BY DEF n
<1> HIDE DEF c
<1> USE DEF FirstStates, MethodOrUri, Version, States, InHeader
<1>9. CASE st = "header_line_start"
  <2>1. from = n + 1  BY <1>9 DEF InLater, n
  <2>2. \/ to = "expecting_newline_3" /\ c = CR
        \/ to = "header_lws" /\ headers # <<>> /\ IsBlank(c)
        \/ to = "header_name" /\ IsToken(c)
    BY <1>2, <1>3, <1>7, <1>9 DEF InHeaders
  <2>3. \A i \in from..(n + 1) : i = n + 1  BY <1>1, <2>1
  <2>4. headers # <<>> => Later(more, from)  BY <1>4, <1>9 DEF Knows
  <2>5. CASE to = "expecting_newline_3" /\ c = CR
    <3>1. InLater(to, more, from)  BY <1>1, <2>1, <2>5 DEF InLater, c
    <3> QED  BY <1>8, <2>5, <3>1
  <2>6. CASE to = "header_lws" /\ headers # <<>> /\ IsBlank(c)
    <3>1. \A i \in from..(n + 1) : IsBlank(more[i])  BY <2>3, <2>6 DEF c
    <3>2. InLater(to, more, from)  BY <1>1, <2>1, <2>4, <2>6, <3>1 DEF InLater
    <3> QED  BY <1>7, <1>8, <2>6, <3>2
  <2>7. CASE to = "header_name" /\ IsToken(c)
    <3>1. \A i \in from..(n + 1) : IsToken(more[i])  BY <2>3, <2>7 DEF c
    <3>2. InLater(to, more, from)  BY <1>1, <2>1, <2>7, <3>1 DEF InLater
    <3> QED  BY <1>7, <2>7, <3>2
  <2> QED  BY <2>2, <2>5, <2>6, <2>7
<1>10. CASE st = "header_name"
  <2>1. from <= n /\ \A i \in from..n : IsToken(text[i])  BY <1>10 DEF InLater, n
  <2>2. \/ to = "space_before_header_value" /\ c = ":"
        \/ to = "header_name" /\ IsToken(c)
    BY <1>2, <1>3, <1>10 DEF InHeaders
  <2>3. \A i \in from..n : IsToken(more[i])  BY <1>1, <2>1
  <2>4. from < n + 1 /\ n + 1 - 1 = n /\ \A i \in from..(n + 1) : i \in from..n \/ i = n + 1
    BY <1>1, <2>1
  <2>5. CASE to = "space_before_header_value" /\ c = ":"
    <3>1. more[n + 1] = ":" /\ from <= n + 1 /\ \A i \in from..(n + 1 - 1) : IsToken(more[i])
      <4>1. more[n + 1] = ":"  BY <2>5 DEF c
      <4>2. \A i \in from..(n + 1 - 1) : IsToken(more[i])  BY <2>3, <2>4, Zenon
      <4> QED  BY <1>1, <4>1, <4>2
    <3>2. InLater(to, more, from)  BY <1>1, <2>4, <2>5, <3>1 DEF InLater
    <3> QED  BY <1>8, <2>5, <3>2
  <2>6. CASE to = "header_name" /\ IsToken(c)
    <3>1. \A i \in from..(n + 1) : IsToken(more[i])  BY <2>3, <2>4, <2>6 DEF c
    <3>2. InLater(to, more, from)  BY <1>1, <2>1, <2>6, <3>1 DEF InLater
    <3> QED  BY <1>7, <2>6, <3>2
  <2> QED  BY <2>2, <2>5, <2>6
<1>11. CASE st = "space_before_header_value"
  <2>1. from < n /\ text[n] = ":" /\ \A i \in from..(n - 1) : IsToken(text[i])
    BY <1>11 DEF InLater, n
  <2>2. to = "header_value" /\ c = SP  BY <1>2, <1>3, <1>11 DEF InHeaders
  <2>3. n \in HeaderLine(more, from, n + 1)
    <3>1. n \in (from + 1)..(n + 1 - 1)  BY <1>1, <2>1
    <3>2. more[n] = ":" /\ \A i \in from..(n - 1) : IsToken(more[i])  BY <1>1, <2>1
    <3>3. \A i \in (n + 2)..(n + 1) : FALSE  BY <1>1
    <3> QED  BY <2>2, <3>1, <3>2, <3>3 DEF HeaderLine, c
  <2>4. from <= n + 1  BY <1>1
  <2> QED  BY <1>1, <1>8, <2>2, <2>3, <2>4 DEF InLater, n, c
<1>12. CASE st = "header_value"
  <2>1. /\ from <= n
        /\ \/ HeaderLine(more, from, n) # {}
           \/ Later(more, from) /\ \E i \in FoldedLine(more, from, n) : i < n
    BY <1>4, <1>5, <1>6, <1>12 DEF InLater, n
  <2>2. \/ to = "expecting_newline_2" /\ c = CR
        \/ to = "header_value" /\ IsText(c)
    BY <1>2, <1>3, <1>7, <1>12 DEF InHeaders
  <2>3. CASE to = "expecting_newline_2" /\ c = CR
    <3>1. from < n + 1 /\ n + 1 - 1 = n /\ more[n + 1] = CR  BY <1>1, <2>1, <2>3 DEF c
    <3>2. FoldedLine(more, from, n) # {} \/ HeaderLine(more, from, n) # {}  BY <2>1
    <3>3. InLater(to, more, from)  BY <1>1, <2>1, <2>3, <3>1, <3>2 DEF InLater
    <3> QED  BY <1>8, <2>3, <3>3
  <2>4. CASE to = "header_value" /\ IsText(c)
    <3>1. /\ \A i \in HeaderLine(more, from, n) : i \in HeaderLine(more, from, n + 1)
          /\ \A i \in FoldedLine(more, from, n) : i < n => i \in FoldedLine(more, from, n + 1) /\ i < n + 1
      <4>1. from \in Nat \ {0} /\ from <= Len(text) + 1 /\ IsText(more[Len(text) + 1])
        BY <1>1, <2>4 DEF c, n
      <4>2. /\ \A i \in HeaderLine(text, from, n) : i \in HeaderLine(more, from, n + 1)
            /\ \A i \in FoldedLine(text, from, n) : i < n => i \in FoldedLine(more, from, n + 1)
        BY <4>1, ValueLineGrows DEF n
      <4>3. \A i \in FoldedLine(text, from, n) : i < n => i < n + 1
        <5>1. \A i \in from..n : i < n => i < n + 1  BY <1>1
        <5> QED  BY <5>1 DEF FoldedLine
      <4> QED  BY <1>5, <1>6, <4>2, <4>3
    <3>3. \/ HeaderLine(more, from, n + 1) # {}
          \/ Later(more, from) /\ \E i \in FoldedLine(more, from, n + 1) : i < n + 1
      BY <2>1, <3>1
    <3>4. InLater(to, more, from)  BY <1>1, <2>4, <3>3 DEF InLater
    <3> QED  BY <1>7, <2>4, <3>4
  <2> QED  BY <2>2, <2>3, <2>4
<1>13. CASE st = "header_lws"
  <2>1. from <= n /\ Later(more, from) /\ \A i \in from..n : IsBlank(more[i])
    <3>1. from <= n /\ Later(more, from) /\ \A i \in from..n : IsBlank(text[i])
      BY <1>4, <1>13 DEF InLater, n
    <3> QED  BY <1>1, <3>1
  <2>2. \/ to = "expecting_newline_2" /\ c = CR
        \/ to = "header_lws" /\ IsBlank(c)
        \/ to = "header_value" /\ IsUriChar(c)
    BY <1>2, <1>3, <1>7, <1>13 DEF InHeaders
  <2>3. CASE to = "expecting_newline_2" /\ c = CR
    <3>1. n \in FoldedLine(more, from, n)
      <4>1. n \in from..n /\ \A j \in (n + 1)..n : FALSE  BY <1>1, <2>1
      <4> QED  BY <2>1, <4>1 DEF FoldedLine
    <3>2. from < n + 1 /\ n + 1 - 1 = n /\ more[n + 1] = CR  BY <1>1, <2>1, <2>3 DEF c
    <3>3. InLater(to, more, from)  BY <1>1, <2>1, <2>3, <3>1, <3>2 DEF InLater
    <3> QED  BY <1>8, <2>3, <3>3
  <2>4. CASE to = "header_lws" /\ IsBlank(c)
    <3>1. \A i \in from..(n + 1) : i \in from..n \/ i = n + 1  BY <1>1
    <3>2. \A i \in from..(n + 1) : IsBlank(more[i])  BY <2>1, <2>4, <3>1 DEF c
    <3>3. InLater(to, more, from)  BY <1>1, <2>1, <2>4, <3>2 DEF InLater
    <3> QED  BY <1>7, <1>8, <2>4, <3>3
  <2>5. CASE to = "header_value" /\ IsUriChar(c)
    <3>1. n \in FoldedLine(more, from, n + 1) /\ n < n + 1
      <4>1. n \in from..(n + 1) /\ n < n + 1 /\ \A j \in (n + 1)..(n + 1) : j = n + 1  BY <1>1, <2>1
      <4>2. IsText(c) /\ c # SP  BY <1>7, <2>5
      <4> QED  BY <2>1, <4>1, <4>2 DEF FoldedLine, c
    <3>2. InLater(to, more, from)  BY <1>1, <2>1, <2>5, <3>1 DEF InLater
    <3> QED  BY <1>7, <2>5, <3>2
  <2> QED  BY <2>2, <2>3, <2>4, <2>5
<1>14. CASE st = "expecting_newline_2"
  BY <1>2, <1>3, <1>14 DEF InHeaders
<1>15. CASE st = "expecting_newline_3"
  BY <1>2, <1>3, <1>15 DEF InHeaders
<1> QED  BY <1>9, <1>10, <1>11, <1>12, <1>13, <1>14, <1>15

\* A line is complete when the machine says so.
LEMMA LineIsComplete ==
    ASSUME NEW text, NEW more, Continues(more, text), Len(more) = Len(text) + 1,
           NEW st \in States, NEW from, Leading(st, text, from), NEW headers,
           After(st, more[Len(text) + 1], headers) = "header_line_start"
    PROVE  more[Len(text) + 1] = LF /\ IsLine(more, from, Len(more))
<1> DEFINE n == Len(text)
           c == more[n + 1]
           to == After(st, c, headers)
<1>1. n \in Nat /\ Len(more) = n + 1 /\ \A i \in 1..n : more[i] = text[i]
  BY NewlinesAre DEF Continues
<1>2. to = "header_line_start"  OBVIOUS
<1> HIDE DEF c
<1>3. st \in {"expecting_newline_1", "expecting_newline_2"} /\ c = LF
  <2>1. CASE st \in MethodOrUri
    <3>1. to = InMethodOrUri(st, c)  BY <2>1 DEF After
    <3> QED  BY <1>2, <3>1 DEF InMethodOrUri
  <2>2. CASE st \in Version
    <3>1. to = InVersion(st, c)  BY <2>2 DEF After, MethodOrUri, Version
    <3> QED  BY <1>2, <3>1 DEF InVersion
  <2>3. CASE st \notin MethodOrUri \cup Version
    <3>1. to = InHeaders(st, c, headers)  BY <2>3 DEF After
    <3> QED  BY <1>2, <3>1 DEF InHeaders
  <2> QED  BY <2>1, <2>2, <2>3
<1>4. CASE st = "expecting_newline_1"
  <2>1. from = 1 /\ n > 0 /\ text[n] = CR
        /\ \E p, q, d \in 1..(n - 1) : Minor(text, p, q, d, n - 1)
    BY <1>4 DEF Leading, FirstStates, Version, InFirst, Letters5, n
  <2>2. RequestLine(text, n - 1) # {}
    <3>1. n - 1 \in Int  BY <1>1
    <3> QED  BY <2>1, <3>1, RequestLineIs, Zenon
  <2>3. RequestLine(more, n - 1) # {}
    <3>1. n - 1 \in Int /\ n - 1 <= n /\ 1 \in Nat \ {0}  BY <1>1
    <3>2. RequestLine(more, n - 1) = RequestLine(text, n - 1)  BY <3>1, SameLine DEF n
    <3> QED  BY <2>2, <3>2
  <2>4. 1 < n + 1 /\ n + 1 - 1 = n /\ n + 1 - 2 = n - 1 /\ more[n] = CR
    <3>1. n > 0 /\ text[n] = CR  BY <2>1
    <3> QED  BY <1>1, <3>1
  <2> QED  BY <1>1, <1>3, <2>1, <2>3, <2>4 DEF IsLine, c, n
<1>5. CASE st = "expecting_newline_2"
  <2>1. /\ 1 < from /\ from < n /\ text[n] = CR /\ from \in Int
        /\ \/ HeaderLine(text, from, n - 1) # {}
           \/ Later(text, from) /\ FoldedLine(text, from, n - 1) # {}
    BY <1>5 DEF Leading, FirstStates, MethodOrUri, Version, InLater, Open, n
  <2>2. /\ HeaderLine(more, from, n - 1) = HeaderLine(text, from, n - 1)
        /\ FoldedLine(more, from, n - 1) = FoldedLine(text, from, n - 1)
    <3>1. from \in Nat \ {0} /\ n - 1 \in Int /\ n - 1 <= n  BY <1>1, <2>1
    <3> QED  BY <3>1, SameLine DEF n
  <2>3. Later(more, from) <=> Later(text, from)
    <3>1. from <= n + 1  BY <1>1, <2>1
    <3> QED  BY <2>1, <3>1, SameLater DEF n
  <2>4. from < n + 1 /\ n + 1 - 1 = n /\ n + 1 - 2 = n - 1 /\ more[n] = CR /\ from # 1
    BY <1>1, <2>1
  <2> QED  BY <1>1, <1>3, <2>1, <2>2, <2>3, <2>4 DEF IsLine, Later, c, n
<1> QED  BY <1>3, <1>4, <1>5 DEF c

\* While the machine goes on, the text is the beginning of a request.
LEMMA Advances ==
    ASSUME NEW text, NEW more, Continues(more, text), Len(more) = Len(text) + 1,
           NEW st \in States, NEW from, Leading(st, text, from),
           NEW headers, Knows(st, text, from, headers),
           LET to == After(st, more[Len(text) + 1], headers) IN to \notin {"bad", "good"}
    PROVE  LET to == After(st, more[Len(text) + 1], headers)
           IN  \E next :
                 /\ Leading(to, more, next)
                 /\ to = "header_line_start" => (Later(more, next) <=> st \notin FirstStates)
<1> DEFINE n == Len(text)
           c == more[n + 1]
           to == After(st, c, headers)
<1>1. text \in Seq(Alphabet) /\ more \in Seq(Alphabet) /\ n \in Nat /\ Len(more) = n + 1
  BY NewlinesAre DEF Continues
<1>2. Open(text, from) /\ Whole(text) /\ from \in 1..(n + 1)  BY DEF Leading, Open
<1>3. to \notin {"bad", "good"}  OBVIOUS
<1>4. CASE to = "header_line_start"
  <2>1. c = LF /\ IsLine(more, from, n + 1)  BY <1>1, <1>4, LineIsComplete
  <2>2. /\ Newlines(more) = Newlines(text) \cup {n + 1}
        /\ Open(more, n + 1 + 1) /\ Whole(more)
    <3>1. more[Len(text) + 1] = LF /\ IsLine(more, from, Len(more))  BY <1>1, <2>1
    <3>2. /\ Newlines(more) = Newlines(text) \cup {Len(more)}
          /\ Open(more, Len(more) + 1)
          /\ Whole(text) /\ IsLine(more, from, Len(more)) => Whole(more)
      BY <1>2, <3>1, LineEnds
    <3> QED  BY <1>1, <1>2, <3>1, <3>2
  <2>3. InLater(to, more, n + 1 + 1)  BY <1>1, <1>4 DEF InLater
  <2>4. 1 < n + 1 + 1 /\ to \notin FirstStates
    BY <1>1, <1>4 DEF FirstStates, MethodOrUri, Version
  <2>5. Leading(to, more, n + 1 + 1)
    <3> HIDE DEF to
    <3> QED  BY <2>2, <2>3, <2>4 DEF Leading
  <2>6. Later(more, n + 1 + 1) <=> from # 1
    <3>1. \A i \in Newlines(text) : i \in 1..n  BY <1>1, NewlinesAre
    <3>2. (\E i \in Newlines(more) : i < n + 1 + 1 - 1) <=> (\E i \in Newlines(text) : TRUE)
      BY <1>1, <2>2, <3>1
    <3>3. from # 1 => from - 1 \in Newlines(text)  BY <1>2 DEF Open
    <3>4. \A i \in Newlines(text) : i < from  BY <1>2 DEF Open
    <3> QED  BY <1>2, <3>1, <3>2, <3>3, <3>4 DEF Later
  <2>7. from # 1 <=> st \notin FirstStates
    BY DEF Leading
  <2> HIDE DEF to
  <2> QED  BY <2>5, <2>6, <2>7 DEF to
<1>5. CASE to # "header_line_start" /\ st \in FirstStates
  <2>1. from = 1 /\ InFirst(st, text)  BY <1>5 DEF Leading
  <2>2. c # LF /\ to \in FirstStates /\ InFirst(to, more)
    BY <1>3, <1>5, <2>1, FirstLineGoesOn
  <2>3. Open(more, from) /\ Whole(more)  BY <1>1, <1>2, <2>2, LineGoesOn
  <2>4. Leading(to, more, from)
    <3> HIDE DEF to
    <3> QED  BY <2>1, <2>2, <2>3 DEF Leading
  <2> HIDE DEF to
  <2> QED  BY <1>5, <2>4 DEF to
<1>6. CASE to # "header_line_start" /\ st \notin FirstStates
  <2>1. 1 < from /\ InLater(st, text, from) /\ from \in 2..(Len(text) + 1)
    BY <1>1, <1>2, <1>6 DEF Leading
  <2>2. c # LF /\ to \in States \ FirstStates /\ InLater(to, more, from)
    BY <1>3, <1>6, <2>1, LaterLineGoesOn
  <2>3. Open(more, from) /\ Whole(more)  BY <1>1, <1>2, <2>2, LineGoesOn
  <2>4. Leading(to, more, from)
    <3> HIDE DEF to
    <3> QED  BY <2>1, <2>2, <2>3 DEF Leading
  <2> HIDE DEF to
  <2> QED  BY <1>6, <2>4 DEF to
<1> QED  BY <1>4, <1>5, <1>6

\* Where the machine stops as at a request, the text is one.
LEMMA Completes ==
    ASSUME NEW text, NEW more, Continues(more, text), Len(more) = Len(text) + 1,
           NEW from, Leading("expecting_newline_3", text, from), more[Len(text) + 1] = LF
    PROVE  IsRequest(more)
<1> DEFINE n == Len(text)
<1>1. /\ text \in Seq(Alphabet) /\ n \in Nat /\ Len(more) = n + 1
      /\ \A i \in 1..n : more[i] = text[i]
  BY NewlinesAre DEF Continues
<1>2. /\ Open(text, from) /\ Whole(text) /\ 1 < from /\ from = n /\ text[n] = CR
  BY DEF Leading, FirstStates, MethodOrUri, Version, InLater
<1>3. /\ <<n, n + 1>> \in Lines(more)
      /\ \A l \in Lines(more) : l[2] <= n \/ l = <<n, n + 1>>
  BY <1>1, <1>2, LineEnds
<1>4. \A l \in Lines(more) : l[2] = n + 1 \/ IsLine(more, l[1], l[2])
  <2> TAKE l \in Lines(more)
  <2>1. l[2] <= n => IsLine(more, l[1], l[2])  BY <1>2, WholeStays
  <2> QED  BY <1>3, <2>1
<1>5. n + 1 - 1 = n /\ 1 < n /\ more[n] = CR  BY <1>1, <1>2
<1> QED  BY <1>1, <1>3, <1>4, <1>5 DEF IsRequest

-----------------------------------------------------------------------------
(* What is left of a request decides what the machine does next.           *)

\* What is read of a request line, as text[1..p2], text[1..q2] or text[1..d2], reaches no
\* further than what is there.
Within(text, p, q, d, p2, q2, d2) ==
    /\ Method(text, p2) => p2 <= p
    /\ Uri(text, p2, q2) => p2 = p /\ q2 <= q
    /\ Uri(text, p2, q2) /\ text[q2] = SP => p2 = p /\ q2 = q
    /\ Major(text, p2, q2, d2) => p2 = p /\ q2 = q /\ d2 <= d
    /\ Major(text, p2, q2, d2) /\ text[d2] = "." => d2 = d

\* The parts of the request line that have been read are those of the whole line.
LEMMA SameParts ==
    ASSUME NEW text, NEW p \in Nat, NEW p2 \in Nat, NEW q \in Nat, NEW q2 \in Nat,
           NEW d \in Nat, NEW d2 \in Nat, NEW to \in Int,
           0 < p, 0 < p2, Minor(text, p, q, d, to)
    PROVE  Within(text, p, q, d, p2, q2, d2)
<1>1. /\ Method(text, p) /\ text[p] = SP /\ Uri(text, p, q) /\ text[q] = SP /\ p < q
      /\ Major(text, p, q, d) /\ text[d] = "." /\ q + 6 < d
  BY DEF Minor, Major, Named, Uri
<1>2. ~IsDigit(".")  BY Classes
<1>3. Method(text, p2) => p2 <= p  BY <1>1, PartsAreClear
<1>4. ASSUME Uri(text, p2, q2)  PROVE p2 = p /\ q2 <= q
  <2>1. Method(text, p2) /\ text[p2] = SP  BY <1>4 DEF Uri
  <2>2. p2 = p
    <3>1. p <= p2  BY <1>1, <2>1, PartsAreClear
    <3> QED  BY <1>3, <2>1, <3>1
  <2>3. q2 <= q  BY <1>1, <1>4, <2>2, PartsAreClear
  <2> QED  BY <2>2, <2>3
<1>5. ASSUME Uri(text, p2, q2), text[q2] = SP  PROVE p2 = p /\ q2 = q
  <2>1. p2 < q2  BY <1>5 DEF Uri
  <2>2. p2 = p /\ q2 <= q  BY <1>4, <1>5
  <2>3. q <= q2  BY <1>1, <1>5, <2>1, <2>2, PartsAreClear
  <2> QED  BY <2>2, <2>3
<1>6. ASSUME Major(text, p2, q2, d2)  PROVE p2 = p /\ q2 = q /\ d2 <= d
  <2>1. Uri(text, p2, q2) /\ text[q2] = SP  BY <1>6 DEF Major, Named
  <2>2. p2 = p /\ q2 = q  BY <1>5, <2>1
  <2>3. q + 5 < d  BY <1>1
  <2>4. Major(text, p, q, d2)  BY <1>6, <2>2
  <2>5. d2 <= d  BY <1>1, <1>2, <2>3, <2>4, PartsAreClear
  <2> QED  BY <2>2, <2>5
<1>7. ASSUME Major(text, p2, q2, d2), text[d2] = "."  PROVE d2 = d
  <2>1. p2 = p /\ q2 = q /\ d2 <= d  BY <1>6, <1>7
  <2>2. q + 5 < d2  BY <1>7, <2>1 DEF Major
  <2>3. d <= d2  BY <1>1, <1>2, <1>7, <2>2, PartsAreClear
  <2> QED  BY <2>1, <2>3
<1> QED  BY <1>3, <1>4, <1>5, <1>6, <1>7 DEF Within

\* A character of a request line is one the machine takes there.
LEMMA FirstLineMust ==
    ASSUME NEW text, NEW more, Continues(more, text),
           NEW end \in (Len(text) + 1)..Len(more),
           more[end - 1] = CR, more[end] = LF, RequestLine(more, end - 2) # {},
           NEW st \in FirstStates, InFirst(st, text), NEW headers
    PROVE  After(st, more[Len(text) + 1], headers) # "bad"
<1> DEFINE n == Len(text)
           c == more[n + 1]
           to == After(st, c, headers)
<1>1. /\ n \in Nat /\ Len(more) \in Nat /\ end \in Int /\ n + 1 <= end
      /\ \A i \in 1..n : more[i] = text[i]
  BY NewlinesAre DEF Continues
<1>2. PICK p \in 1..(end - 2), q \in 1..(end - 2), d \in 1..(end - 2) :
        Minor(more, p, q, d, end - 2)
  <2>1. end - 2 \in Int  BY <1>1
  <2> QED  BY <2>1, RequestLineIs
<1>3. /\ p \in Nat /\ q \in Nat /\ d \in Nat /\ 0 < p
      /\ 1 < p /\ more[p] = SP /\ p < q /\ more[q] = SP
      /\ \A i \in 1..(p - 1) : IsToken(more[i])
      /\ \A i \in (p + 1)..(q - 1) : IsUriChar(more[i])
      /\ \A j \in 1..5 : more[q + j] = Protocol[j]
      /\ q + 6 < d /\ d < end - 2 /\ more[d] = "."
      /\ \A i \in (q + 6)..(d - 1) : IsDigit(more[i])
      /\ \A i \in (d + 1)..(end - 2) : IsDigit(more[i])
  BY <1>1, <1>2 DEF Minor, Major, Named, Uri, Method
<1> DEFINE Parts(p2, q2, d2) == Within(more, p, q, d, p2, q2, d2)
           SamePart(p2, q2, d2, m, k) == SameTo(text, more, p2, q2, d2, m, k)
<1>4. ASSUME NEW p2 \in Nat, NEW q2 \in Nat, NEW d2 \in Nat, 0 < p2
      PROVE  Parts(p2, q2, d2)
  <2>1. end - 2 \in Int  BY <1>1
  <2> QED  BY <1>2, <1>3, <1>4, <2>1, SameParts
<1>14. ASSUME NEW p2 \in Nat, NEW q2 \in Nat, NEW d2 \in Nat, NEW m \in Nat, NEW k \in 0..5
       PROVE  SamePart(p2, q2, d2, m, k)
  BY SameFirst
<1> HIDE DEF Parts, SamePart
<1> SUFFICES to # "bad"
  OBVIOUS
<1> HIDE DEF n, c, to
<1>5. /\ IsUriChar(c) <=> c # SP /\ ~IsCtl(c)
      /\ IsDigit(c) <=> c \in Digits
      /\ ~IsDigit(CR)
  BY Classes
<1>6. CASE st = "method_start"
  <2>1. n = 0  BY <1>6 DEF InFirst, Letters5, n
  <2>2. IsToken(c)  BY <1>3, <2>1 DEF c
  <2>3. to = InMethodOrUri(st, c)  BY <1>6 DEF After, MethodOrUri, to
  <2> QED  BY <1>6, <2>2, <2>3 DEF InMethodOrUri
<1>7. CASE st = "method"
  <2>1. Method(text, n + 1)  BY <1>7 DEF InFirst, Letters5, n
  <2>2. n + 1 <= p
    <3>1. SamePart(n + 1, 0, 0, 0, 0) /\ Parts(n + 1, 0, 0)  BY <1>1, <1>4, <1>14
    <3> QED  BY <1>1, <2>1, <3>1 DEF SamePart, SameTo, Parts, Within, n
  <2>3. c = SP \/ IsToken(c)  BY SMTT(15), <1>1, <1>3, <2>2 DEF c
  <2>4. to = InMethodOrUri(st, c)  BY <1>7 DEF After, MethodOrUri, to
  <2> QED  BY <1>7, <2>3, <2>4 DEF InMethodOrUri
<1>8. CASE st = "uri"
  <2>1. PICK p2 \in 1..n : Uri(text, p2, n + 1)  BY <1>8 DEF InFirst, Letters5, n
  <2>2. p2 = p /\ n + 1 <= q
    <3>1. p2 \in Nat /\ 0 < p2 /\ n + 1 \in Nat /\ 0 \in Nat /\ 0 \in 0..5  BY <1>1, <2>1
    <3>2. SamePart(p2, n + 1, 0, 0, 0)  BY <1>14, <3>1
    <3>3. Parts(p2, n + 1, 0)  BY <1>4, <3>1
    <3> QED  BY <1>1, <2>1, <3>2, <3>3 DEF SamePart, SameTo, Parts, Within, n
  <2>3. c = SP \/ IsUriChar(c)
    <3>1. n + 1 = q \/ n + 1 \in (p + 1)..(q - 1)  BY <1>1, <1>3, <2>1, <2>2
    <3> QED  BY <1>3, <3>1 DEF c
  <2>4. to = InMethodOrUri(st, c)  BY <1>8 DEF After, MethodOrUri, to
  <2> QED  BY <1>5, <1>8, <2>3, <2>4 DEF InMethodOrUri
<1>9. CASE st \in DOMAIN Letters5
  <2> DEFINE k == Letters5[st]
  <2>1. st \in Version /\ st \notin MethodOrUri /\ k \in 0..5
    BY <1>9 DEF Letters5, Version, MethodOrUri
  <2>2. to = InVersion(st, c)  BY <2>1 DEF After, to
  <2>3. PICK p2 \in 1..n, q2 \in 1..n : q2 + k = n /\ Named(text, p2, q2, k)
    BY <1>9 DEF InFirst, Letters5, n
  <2> HIDE DEF k
  <2>4. q2 = q
    <3>1. Named(more, p2, q2, k)
      <4>1. SamePart(p2, q2, 0, 0, k)
        <5>1. p2 \in Nat /\ q2 \in Nat /\ 0 \in Nat  BY <1>1, <2>3
        <5> QED  BY <1>14, <2>1, <5>1
      <4> QED  BY <1>1, <2>3, <4>1 DEF SamePart, SameTo, n
    <3>2. Uri(more, p2, q2) /\ more[q2] = SP  BY <3>1 DEF Named
    <3>3. Parts(p2, q2, 0)  BY <1>1, <1>4, <2>3
    <3> QED  BY <3>2, <3>3 DEF Parts, Within
  <2>5. CASE k = 5
    <3>1. IsDigit(c)
      <4>1. n + 1 \in (q + 6)..(d - 1)  BY <1>1, <1>3, <2>3, <2>4, <2>5
      <4> QED  BY <1>3, <4>1 DEF c
    <3>2. st = "http_version_major_start"  BY <1>9, <2>5 DEF Letters5, k
    <3> QED  BY <1>5, <2>2, <3>1, <3>2 DEF InVersion
  <2>6. CASE k # 5
    <3>1. n + 1 = q + (k + 1) /\ k + 1 \in 1..5
      BY <1>1, <1>3, <2>1, <2>3, <2>4, <2>6
    <3>2. c = Protocol[k + 1]
      <4>1. more[q + (k + 1)] = Protocol[k + 1]  BY <1>3, <3>1
      <4> QED  BY <3>1, <4>1 DEF c
    <3>3. \/ st = "http_version_h" /\ k = 0
          \/ st = "http_version_t_1" /\ k = 1
          \/ st = "http_version_t_2" /\ k = 2
          \/ st = "http_version_p" /\ k = 3
          \/ st = "http_version_slash" /\ k = 4
      BY <1>9, <2>6 DEF Letters5, k
    <3>4. \/ st = "http_version_h" /\ c = "H"
          \/ st \in {"http_version_t_1", "http_version_t_2"} /\ c = "T"
          \/ st = "http_version_p" /\ c = "P"
          \/ st = "http_version_slash" /\ c = "/"
      BY <3>2, <3>3 DEF Protocol
    <3> QED  BY <2>2, <3>4 DEF InVersion
  <2> QED  BY <2>5, <2>6
<1>10. CASE st = "http_version_major"
  <2>1. PICK p2 \in 1..n, q2 \in 1..n : Major(text, p2, q2, n + 1)  BY <1>10 DEF InFirst, Letters5, n
  <2>2. p2 = p /\ q2 = q /\ n + 1 <= d /\ q + 6 < n + 1
    <3>1. SamePart(p2, q2, n + 1, 0, 0) /\ Parts(p2, q2, n + 1)
      <4>1. p2 \in Nat /\ 0 < p2 /\ q2 \in Nat /\ n + 1 \in Nat /\ 0 \in Nat /\ 0 \in 0..5
        BY <1>1, <2>1
      <4>2. SamePart(p2, q2, n + 1, 0, 0)  BY <1>14, <4>1
      <4>3. Parts(p2, q2, n + 1)  BY <1>4, <4>1
      <4> QED  BY <4>2, <4>3
    <3>2. q2 + 6 < n + 1  BY <2>1 DEF Major
    <3> QED  BY <1>1, <2>1, <3>1, <3>2 DEF SamePart, SameTo, Parts, Within, n
  <2>3. c = "." \/ IsDigit(c)
    <3>1. n + 1 = d \/ n + 1 \in (q + 6)..(d - 1)  BY <1>1, <1>3, <2>2
    <3> QED  BY <1>3, <3>1 DEF c
  <2>4. to = InVersion(st, c)  BY <1>10 DEF After, MethodOrUri, Version, to
  <2> QED  BY <1>5, <1>10, <2>3, <2>4 DEF InVersion
<1>11. CASE st = "http_version_minor_start"
  <2>1. PICK p2 \in 1..n, q2 \in 1..n : Major(text, p2, q2, n) /\ text[n] = "."
    BY <1>11 DEF InFirst, Letters5, n
  <2>2. n = d
    <3>1. SamePart(p2, q2, n, 0, 0) /\ Parts(p2, q2, n)  BY <1>1, <1>4, <1>14, <2>1
    <3>2. more[n] = "."  BY <1>1, <2>1
    <3> QED  BY <1>1, <2>1, <3>1, <3>2 DEF SamePart, SameTo, Parts, Within, n
  <2>3. IsDigit(c)  BY <1>1, <1>3, <2>2 DEF c
  <2>4. to = InVersion(st, c)  BY <1>11 DEF After, MethodOrUri, Version, to
  <2> QED  BY <1>5, <1>11, <2>3, <2>4 DEF InVersion
<1>12. CASE st = "http_version_minor"
  <2>1. PICK p2 \in 1..n, q2 \in 1..n, d2 \in 1..n : Minor(text, p2, q2, d2, n)
    BY <1>12 DEF InFirst, Letters5, n
  <2>2. Minor(more, p2, q2, d2, n)
    <3>1. SamePart(p2, q2, d2, n, 0)  BY <1>1, <1>14, <2>1
    <3> QED  BY <1>1, <2>1, <3>1 DEF SamePart, SameTo, n
  <2>3. d2 = d /\ d < n /\ IsDigit(more[n])
    <3>1. Major(more, p2, q2, d2) /\ more[d2] = "." /\ d2 < n  BY <2>2 DEF Minor
    <3>2. IsDigit(more[n])  BY <1>1, <2>1, <2>2, <3>1 DEF Minor
    <3>3. Parts(p2, q2, d2)  BY <1>1, <1>4
    <3> QED  BY <3>1, <3>2, <3>3 DEF Parts, Within
  <2>4. n <= end - 2
    <3>1. n # end - 1  BY <1>5, <2>3
    <3> QED  BY <1>1, <3>1
  <2>5. c = CR \/ IsDigit(c)
    <3>1. CASE n = end - 2
      <4>1. n + 1 = end - 1  BY <1>1, <3>1
      <4> QED  BY <4>1 DEF c
    <3>2. CASE n # end - 2
      <4>1. n + 1 \in (d + 1)..(end - 2)  BY <1>1, <2>3, <2>4, <3>2
      <4> QED  BY <1>3, <4>1 DEF c
    <3> QED  BY <3>1, <3>2
  <2>6. to = InVersion(st, c)  BY <1>12 DEF After, MethodOrUri, Version, to
  <2> QED  BY <1>5, <1>12, <2>5, <2>6 DEF InVersion
<1>13. CASE st = "expecting_newline_1"
  <2>1. PICK p2 \in 1..(n - 1), q2 \in 1..(n - 1), d2 \in 1..(n - 1) :
          Minor(text, p2, q2, d2, n - 1) /\ n > 0 /\ text[n] = CR
    BY <1>13 DEF InFirst, Letters5, n
  <2>2. Minor(more, p2, q2, d2, n - 1)
    <3>1. n - 1 \in Nat /\ n - 1 <= n  BY <1>1, <2>1
    <3>2. SamePart(p2, q2, d2, n - 1, 0)  BY <1>1, <1>14, <2>1, <3>1
    <3> QED  BY <2>1, <3>1, <3>2 DEF SamePart, SameTo, n
  <2>3. d2 = d /\ d < n - 1
    <3>1. Major(more, p2, q2, d2) /\ more[d2] = "." /\ d2 < n - 1  BY <2>2 DEF Minor
    <3>2. Parts(p2, q2, d2)  BY <1>1, <1>4, <2>1
    <3> QED  BY <3>1, <3>2 DEF Parts, Within
  <2>4. n + 1 = end
    <3>1. more[n] = CR
      <4>1. n \in 1..n  BY <1>1, <2>1
      <4> QED  BY <1>1, <2>1, <4>1
    <3>2. n \notin (d + 1)..(end - 2)  BY <1>3, <1>5, <3>1
    <3> QED  BY <1>1, <1>3, <2>3, <3>2
  <2>5. c = LF  BY <2>4 DEF c
  <2>6. to = InVersion(st, c)  BY <1>13 DEF After, MethodOrUri, Version, to
  <2> QED  BY <1>13, <2>5, <2>6 DEF InVersion
<1> QED
  BY <1>6, <1>7, <1>8, <1>9, <1>10, <1>11, <1>12, <1>13
  DEF FirstStates, MethodOrUri, Version, Letters5

\* How a header line and a folded line begin, and that no line end is in them.
LEMMA LinesBegin ==
    ASSUME NEW text, NEW from \in Int, NEW to \in Int
    PROVE  /\ HeaderLine(text, from, to) # {} => from < to /\ IsToken(text[from])
           /\ FoldedLine(text, from, to) # {} => from <= to /\ IsBlank(text[from])
           /\ HeaderLine(text, from, to) # {} \/ FoldedLine(text, from, to) # {} =>
                \A j \in from..to : text[j] # CR
<1>1. ~IsToken(CR) /\ ~IsBlank(CR) /\ ~IsText(CR) /\ CR \notin {SP, ":"}
  <2>1. CR \notin {SP, TAB, ":"}  BY DEF CR, SP, TAB
  <2>2. IsToken(CR) => CR \notin {CR}  BY Classes
  <2>3. IsText(CR) => CR \notin {CR}  BY Classes
  <2>4. IsBlank(CR) => CR \in {SP, TAB}  BY Classes
  <2> QED  BY <2>1, <2>2, <2>3, <2>4
<1>2. ASSUME NEW i \in HeaderLine(text, from, to)
      PROVE  from < to /\ IsToken(text[from]) /\ \A j \in from..to : text[j] # CR
  <2>1. /\ i \in (from + 1)..(to - 1) /\ text[i] = ":" /\ text[i + 1] = SP
        /\ \A j \in from..(i - 1) : IsToken(text[j])
        /\ \A j \in (i + 2)..to : IsText(text[j])
    BY DEF HeaderLine
  <2>2. from \in from..(i - 1) /\ from < to  BY <2>1
  <2>3. ASSUME NEW j \in from..to  PROVE text[j] # CR
    <3>1. j \in from..(i - 1) \/ j = i \/ j = i + 1 \/ j \in (i + 2)..to  BY <2>1
    <3> QED  BY <1>1, <2>1, <3>1
  <2> QED  BY <2>1, <2>2, <2>3
<1>3. ASSUME NEW i \in FoldedLine(text, from, to)
      PROVE  from <= to /\ IsBlank(text[from]) /\ \A j \in from..to : text[j] # CR
  <2>1. /\ i \in from..to
        /\ \A j \in from..i : IsBlank(text[j])
        /\ \A j \in (i + 1)..to : IsText(text[j])
    BY DEF FoldedLine
  <2>2. from \in from..i /\ from <= to  BY <2>1
  <2>3. ASSUME NEW j \in from..to  PROVE text[j] # CR
    <3>1. j \in from..i \/ j \in (i + 1)..to  BY <2>1
    <3> QED  BY <1>1, <2>1, <3>1
  <2> QED  BY <2>1, <2>2, <2>3
<1> QED  BY <1>2, <1>3

\* A character of a later line is one the machine takes there.
LEMMA LaterLineMust ==
    ASSUME NEW text, NEW more, Continues(more, text),
           NEW end \in (Len(text) + 1)..Len(more), NEW from \in 2..(Len(text) + 1), from < end,
           more[end - 1] = CR, more[end] = LF,
           \/ from = end - 1
           \/ HeaderLine(more, from, end - 2) # {}
           \/ Later(more, from) /\ FoldedLine(more, from, end - 2) # {},
           NEW st \in States \ FirstStates, InLater(st, text, from),
           NEW headers, Knows(st, text, from, headers)
    PROVE  /\ After(st, more[Len(text) + 1], headers) # "bad"
           /\ st = "expecting_newline_3" => end = Len(text) + 1 /\ from = end - 1
<1> DEFINE n == Len(text)
           c == more[n + 1]
           to == After(st, c, headers)
           m == end - 2
<1>1. /\ n \in Nat /\ Len(more) \in Nat /\ end \in Int /\ n + 1 <= end
      /\ \A i \in 1..n : more[i] = text[i]
      /\ from \in Int /\ 1 < from /\ from <= n + 1 /\ from < end
      /\ m \in Int /\ m + 2 = end /\ more[m + 1] = CR /\ more[m + 2] = LF
  BY NewlinesAre DEF Continues
<1> HIDE DEF n, m
<1>2. Later(more, from) <=> Later(text, from)  BY <1>1, SameLater DEF n
<1>3. to = InHeaders(st, c, headers)
  BY DEF After, FirstStates
<1>4. /\ from = m + 1 => more[from] = CR
      /\ HeaderLine(more, from, m) # {} => from < m /\ IsToken(more[from])
      /\ FoldedLine(more, from, m) # {} => from <= m /\ IsBlank(more[from])
      /\ from # m + 1 => \A j \in from..m : more[j] # CR
      /\ \/ from = m + 1
         \/ HeaderLine(more, from, m) # {}
         \/ Later(more, from) /\ FoldedLine(more, from, m) # {}
  BY <1>1, LinesBegin DEF m
<1>5. ASSUME NEW i \in (n - 1)..n
      PROVE  /\ HeaderLine(more, from, i) = HeaderLine(text, from, i)
             /\ FoldedLine(more, from, i) = FoldedLine(text, from, i)
  <2>1. from \in Nat \ {0} /\ i \in Int /\ i <= n  BY <1>1
  <2> QED  BY <2>1, SameLine DEF n
<1>6. \A d : /\ IsToken(d) => d \notin {SP, TAB, CR, LF, ":", "/"}
             /\ IsUriChar(d) <=> d # SP /\ ~IsCtl(d)
             /\ IsText(d) <=> ~IsCtl(d)
             /\ IsText(d) => d \notin {TAB, CR, LF}
             /\ IsBlank(d) <=> d \in {SP, TAB}
  BY Classes
<1>7. CR \notin {SP, TAB, LF, ":"} /\ SP # ":" /\ SP # TAB /\ TAB # ":"  BY DEF LF, CR, SP, TAB
<1> SUFFICES to # "bad" /\ (st = "expecting_newline_3" => m + 2 = n + 1 /\ from = m + 1)
  <2>1. m + 2 = end /\ m + 1 = end - 1  BY <1>1 DEF m
  <2> QED  BY <2>1 DEF n
<1> HIDE DEF c, to
<1>8. CASE st = "header_line_start"
  <2>1. from = n + 1  BY <1>8 DEF InLater, n
  <2>2. c = more[from]  BY <2>1 DEF c
  <2>3. c = CR \/ IsToken(c) \/ (IsBlank(c) /\ headers # <<>>)
    BY <1>2, <1>4, <1>8, <2>2 DEF Knows
  <2> QED  BY <1>3, <1>6, <1>8, <2>3 DEF InHeaders
<1>9. CASE st = "expecting_newline_3"
  <2>1. from = n /\ more[from] = CR
    <3>1. from = n /\ text[n] = CR  BY <1>9 DEF InLater, n
    <3>2. n \in 1..n  BY <1>1, <3>1
    <3> QED  BY <1>1, <3>1, <3>2
  <2>2. from = m + 1  BY <1>4, <1>6, <1>7, <2>1
  <2>3. c = LF  BY <1>1, <2>1, <2>2 DEF c
  <2> QED  BY <1>1, <1>3, <1>9, <2>1, <2>2, <2>3 DEF InHeaders
<1>10. CASE st = "header_name"
  <2>1. from <= n /\ \A i \in from..n : IsToken(more[i])
    <3>1. from <= n /\ \A i \in from..n : IsToken(text[i])  BY <1>10 DEF InLater, n
    <3> QED  BY <1>1, <3>1
  <2>2. IsToken(more[from])
    <3>1. from \in from..n  BY <1>1, <2>1
    <3> QED  BY <2>1, <3>1
  <2>3. HeaderLine(more, from, m) # {}  BY <1>4, <1>6, <2>2
  <2>4. PICK i \in (from + 1)..(m - 1) : more[i] = ":" /\ \A j \in from..(i - 1) : IsToken(more[j])
    BY <2>3 DEF HeaderLine
  <2>5. ~(i <= n)
    <3> SUFFICES ASSUME i <= n  PROVE FALSE
      OBVIOUS
    <3>1. i \in from..n  BY <1>1, <2>4
    <3>2. IsToken(more[i])  BY <2>1, <3>1
    <3> QED  BY <1>6, <2>4, <3>2
  <2>6. c = ":" \/ IsToken(c)
    <3>1. n + 1 = i \/ n + 1 \in from..(i - 1)  BY <1>1, <2>4, <2>5
    <3> QED  BY <2>4, <3>1 DEF c
  <2> QED  BY <1>3, <1>10, <2>6 DEF InHeaders
<1>11. CASE st = "space_before_header_value"
  <2>1. from < n /\ more[n] = ":" /\ \A i \in from..(n - 1) : IsToken(more[i])
    <3>1. from < n /\ text[n] = ":" /\ \A i \in from..(n - 1) : IsToken(text[i])
      BY <1>11 DEF InLater, n
    <3>2. n \in 1..n  BY <1>1, <3>1
    <3> QED  BY <1>1, <3>1, <3>2
  <2>2. IsToken(more[from])
    <3>1. from \in from..(n - 1)  BY <1>1, <2>1
    <3> QED  BY <2>1, <3>1
  <2>3. HeaderLine(more, from, m) # {}  BY <1>4, <1>6, <2>2
  <2>4. PICK i \in (from + 1)..(m - 1) :
          more[i] = ":" /\ more[i + 1] = SP /\ \A j \in from..(i - 1) : IsToken(more[j])
    BY <2>3 DEF HeaderLine
  <2>5. i = n
    <3>1. i \notin from..(n - 1)  BY <1>6, <2>1, <2>4
    <3>2. n \notin from..(i - 1)  BY <1>6, <2>1, <2>4
    <3> QED  BY <1>1, <2>1, <2>4, <3>1, <3>2
  <2>6. c = SP  BY <2>4, <2>5 DEF c
  <2> QED  BY <1>3, <1>11, <2>6 DEF InHeaders
<1>12. CASE st = "header_lws"
  <2>1. from <= n /\ \A i \in from..n : IsBlank(more[i])
    <3>1. from <= n /\ \A i \in from..n : IsBlank(text[i])  BY <1>12 DEF InLater, n
    <3> QED  BY <1>1, <3>1
  <2>2. IsBlank(more[from]) /\ IsBlank(more[n])
    <3>1. from \in from..n /\ n \in from..n  BY <1>1, <2>1
    <3> QED  BY <2>1, <3>1
  <2>3. FoldedLine(more, from, m) # {}  BY <1>4, <1>6, <1>7, <2>2
  <2>4. PICK i \in from..m :
          (\A j \in from..i : IsBlank(more[j])) /\ (\A j \in (i + 1)..m : IsText(more[j]))
    BY <2>3 DEF FoldedLine
  <2>5. n <= m
    <3>1. n # m + 1  BY <1>1, <1>6, <1>7, <2>2
    <3> QED  BY <1>1, <3>1
  <2>6. c = CR \/ IsBlank(c) \/ IsText(c)
    <3>1. n = m \/ n + 1 \in from..i \/ n + 1 \in (i + 1)..m  BY <1>1, <2>4, <2>5
    <3>2. n = m => c = CR  BY <1>1 DEF c
    <3> QED  BY <2>4, <3>1, <3>2 DEF c
  <2> QED  BY <1>3, <1>6, <1>12, <2>6 DEF InHeaders
<1>13. CASE st = "header_value"
  <2>1. /\ from <= n
        /\ \/ HeaderLine(more, from, n) # {}
           \/ \E i \in FoldedLine(more, from, n) : i < n
    <3>1. n \in (n - 1)..n  BY <1>1
    <3> QED  BY <1>5, <1>13, <3>1 DEF InLater, n
  <2>2. /\ \A j \in from..n : more[j] # CR
        /\ HeaderLine(more, from, n) # {} => IsToken(more[from])
        /\ FoldedLine(more, from, n) # {} => IsBlank(more[from])
    <3>1. HeaderLine(more, from, n) # {} \/ FoldedLine(more, from, n) # {}  BY <2>1
    <3>2. from \in Int /\ n \in Int  BY <1>1
    <3> QED  BY <3>1, <3>2, LinesBegin
  <2>3. n <= m
    <3>1. n \in from..n  BY <1>1, <2>1
    <3>2. n # m + 1  BY <1>1, <2>2, <3>1
    <3> QED  BY <1>1, <3>2
  <2>4. c = CR \/ IsText(c)
    <3>1. CASE n = m
      BY <1>1, <3>1 DEF c
    <3>2. CASE n < m /\ HeaderLine(more, from, n) # {}
      <4>1. PICK i \in (from + 1)..(n - 1) :
              more[i] = ":" /\ \A j \in from..(i - 1) : IsToken(more[j])
        BY <3>2 DEF HeaderLine
      <4>2. HeaderLine(more, from, m) # {}
        <5>1. IsToken(more[from])  BY <2>2, <3>2
        <5> QED  BY <1>4, <1>6, <5>1
      <4>3. PICK i2 \in (from + 1)..(m - 1) :
              /\ more[i2] = ":" /\ \A j \in from..(i2 - 1) : IsToken(more[j])
              /\ \A j \in (i2 + 2)..m : IsText(more[j])
        BY <4>2 DEF HeaderLine
      <4>4. i2 = i
        <5>1. i2 \notin from..(i - 1)  BY <1>6, <4>1, <4>3
        <5>2. i \notin from..(i2 - 1)  BY <1>6, <4>1, <4>3
        <5> QED  BY <1>1, <4>1, <4>3, <5>1, <5>2
      <4>5. n + 1 \in (i2 + 2)..m  BY <1>1, <3>2, <4>1, <4>4
      <4> QED  BY <4>3, <4>5 DEF c
    <3>3. CASE n < m /\ \E i \in FoldedLine(more, from, n) : i < n
      <4>1. PICK i \in from..n : i < n /\ more[i + 1] # SP /\ \A j \in (i + 1)..n : IsText(more[j])
        <5>1. PICK i \in FoldedLine(more, from, n) : i < n  BY <3>3
        <5>2. i # n  BY <1>1, <5>1 DEF FoldedLine
        <5> QED  BY <5>1, <5>2 DEF FoldedLine
      <4>2. FoldedLine(more, from, m) # {}
        <5>1. IsBlank(more[from])  BY <2>2, <3>3
        <5> QED  BY <1>4, <1>6, <1>7, <5>1
      <4>3. PICK i2 \in from..m :
              (\A j \in from..i2 : IsBlank(more[j])) /\ (\A j \in (i2 + 1)..m : IsText(more[j]))
        BY <4>2 DEF FoldedLine
      <4>4. i2 <= i
        <5>1. i + 1 \in (i + 1)..n  BY SMTT(15), <1>1, <4>1
        <5>2. ~IsBlank(more[i + 1])  BY <1>6, <4>1, <5>1
        <5>3. i + 1 \notin from..i2  BY <4>3, <5>2
        <5> QED  BY SMTT(15), <1>1, <4>1, <4>3, <5>3
      <4>5. n + 1 \in (i2 + 1)..m  BY <1>1, <3>3, <4>1, <4>3, <4>4
      <4> QED  BY <4>3, <4>5 DEF c
    <3> QED  BY <1>1, <2>1, <2>3, <3>1, <3>2, <3>3
  <2> QED  BY <1>3, <1>6, <1>13, <2>4 DEF InHeaders
<1>14. CASE st = "expecting_newline_2"
  <2>1. from < n /\ more[n] = CR
    <3>1. from < n /\ text[n] = CR  BY <1>14 DEF InLater, n
    <3>2. n \in 1..n  BY <1>1, <3>1
    <3> QED  BY <1>1, <3>1, <3>2
  <2>2. n = m + 1
    <3>1. n \in from..m => from = m + 1  BY <1>4, <2>1
    <3> QED  BY <1>1, <2>1, <3>1
  <2>3. c = LF  BY <1>1, <2>2 DEF c
  <2> QED  BY <1>3, <1>14, <2>3 DEF InHeaders
<1>15. st \in InHeader \cup {"header_line_start", "expecting_newline_3"}
  BY DEF States, FirstStates
<1> QED
  BY <1>8, <1>9, <1>10, <1>11, <1>12, <1>13, <1>14, <1>15 DEF InHeader

\* In a request, the line that is open in its beginning ends as a line of it.
LEMMA NextLine ==
    ASSUME NEW text, NEW more, Continues(more, text), Len(text) < Len(more), IsRequest(more),
           NEW from, Open(text, from)
    PROVE  \E end \in (Len(text) + 1)..Len(more) :
             /\ from < end /\ more[end - 1] = CR /\ more[end] = LF
             /\ (end = Len(more) /\ 1 < from /\ from = end - 1) \/ IsLine(more, from, end)
<1> DEFINE n == Len(text)
           N == Len(more)
           M == Newlines(more)
<1>1. text \in Seq(Alphabet) /\ more \in Seq(Alphabet)  BY DEF Continues
<1>2. /\ n \in Nat /\ N \in Nat /\ n < N
      /\ \A i : i \in M <=> i \in 1..N /\ more[i] = LF
  BY <1>1, NewlinesAre
<1>3. /\ <<N - 1, N>> \in Lines(more) /\ 1 < N - 1 /\ more[N - 1] = CR
      /\ \A l \in Lines(more) : l[2] = N \/ IsLine(more, l[1], l[2])
  BY DEF IsRequest
<1>4. N \in M /\ (N - 1 = 1 \/ N - 2 \in M)
  <2>1. N \in M /\ (N - 1 = 1 \/ N - 1 - 1 \in M)  BY <1>1, <1>3, NewlinesAre
  <2> QED  BY <1>2, <2>1
<1> HIDE DEF M
<1>5. PICK end \in (n + 1)..N : <<from, end>> \in Lines(more) /\ \A i \in from..(end - 1) : more[i] # LF
  BY <1>2, <1>4, OpenLineEnds DEF M
<1> HIDE DEF n, N
<1>6. /\ from = 1 \/ from - 1 \in M
      /\ from \in Int /\ end \in M /\ from <= end /\ 1 <= from
      /\ more[end] = LF
  <2>1. /\ from = 1 \/ from - 1 \in M
        /\ from \in Int /\ end \in M /\ from <= end
    BY <1>1, <1>5, NewlinesAre DEF M
  <2>2. from \in 1..(n + 1)  BY DEF Open, n
  <2> QED  BY <1>2, <2>1, <2>2
<1>7. CASE end = N
  <2>1. ~(from <= N - 2)
    <3> SUFFICES ASSUME from <= N - 2  PROVE FALSE
      OBVIOUS
    <3>1. N - 2 \in M  BY <1>2, <1>3, <1>4
    <3>2. N - 2 \in from..(end - 1)  BY <1>2, <1>6, <1>7
    <3>3. more[N - 2] = LF  BY <1>2, <3>1
    <3> QED  BY <1>5, <3>2, <3>3
  <2>2. from # N
    <3> SUFFICES ASSUME from = N  PROVE FALSE
      OBVIOUS
    <3>1. N - 1 \in M  BY <1>2, <1>3, <1>6
    <3>2. more[N - 1] = LF  BY <1>2, <3>1
    <3> QED  BY <1>3, <3>2 DEF CR, LF
  <2>3. from = N - 1  BY <1>2, <1>6, <1>7, <2>1, <2>2
  <2>4. from < end /\ 1 < from /\ from = end - 1 /\ more[end - 1] = CR
    BY <1>2, <1>3, <1>7, <2>3
  <2> QED  BY <1>6, <1>7, <2>4 DEF n, N
<1>8. CASE end # N
  <2>1. IsLine(more, from, end)  BY <1>3, <1>5, <1>8
  <2>2. from < end /\ more[end - 1] = CR  BY <2>1 DEF IsLine
  <2> QED  BY <1>6, <2>1, <2>2 DEF n, N
<1> QED  BY <1>7, <1>8

\* The machine is not stopped before the end of a request, and at its end it is.
LEMMA RequestGoesOn ==
    ASSUME NEW text, NEW more, Continues(more, text), Len(text) < Len(more), IsRequest(more),
           NEW st \in States, NEW from, Leading(st, text, from),
           NEW headers, Knows(st, text, from, headers)
    PROVE  /\ After(st, more[Len(text) + 1], headers) # "bad"
           /\ st = "expecting_newline_3" => Len(more) = Len(text) + 1
<1>1. text \in Seq(Alphabet) /\ more \in Seq(Alphabet) /\ Len(text) \in Nat /\ Len(more) \in Nat
  BY NewlinesAre DEF Continues
<1>2. Open(text, from) /\ from \in 1..(Len(text) + 1)  BY DEF Leading, Open
<1>3. PICK end \in (Len(text) + 1)..Len(more) :
        /\ from < end /\ more[end - 1] = CR /\ more[end] = LF
        /\ (end = Len(more) /\ 1 < from /\ from = end - 1) \/ IsLine(more, from, end)
  BY <1>2, NextLine
<1>4. CASE st \in FirstStates
  <2>1. from = 1 /\ InFirst(st, text) /\ st # "expecting_newline_3"
    BY <1>4 DEF Leading, FirstStates, MethodOrUri, Version
  <2>2. RequestLine(more, end - 2) # {}  BY <1>3, <2>1 DEF IsLine
  <2> QED  BY <1>3, <1>4, <2>1, <2>2, FirstLineMust
<1>5. CASE st \notin FirstStates
  <2>1. 1 < from /\ InLater(st, text, from) /\ from \in 2..(Len(text) + 1)
        /\ st \in States \ FirstStates
    BY <1>1, <1>2, <1>5 DEF Leading
  <2>2. \/ from = end - 1 /\ end = Len(more)
        \/ HeaderLine(more, from, end - 2) # {}
        \/ Later(more, from) /\ FoldedLine(more, from, end - 2) # {}
    BY <1>3, <2>1 DEF IsLine, Later
  <2>3. /\ After(st, more[Len(text) + 1], headers) # "bad"
        /\ st = "expecting_newline_3" => end = Len(text) + 1 /\ from = end - 1
    BY <1>3, <2>1, <2>2, LaterLineMust
  <2>4. ASSUME st = "expecting_newline_3"  PROVE Len(more) = Len(text) + 1
    <3>1. end = Len(text) + 1 /\ from = end - 1  BY <2>3, <2>4
    <3>2. HeaderLine(more, from, end - 2) = {} /\ FoldedLine(more, from, end - 2) = {}
      BY <1>1, <3>1, LinesBegin
    <3> QED  BY <2>2, <3>1, <3>2
  <2> QED  BY <2>3, <2>4
<1> QED  BY <1>4, <1>5

\* A text whose lines are all such as another may follow is no request yet.
LEMMA WholeIsNone ==
    ASSUME NEW text \in Seq(Alphabet), Whole(text)
    PROVE  ~IsRequest(text)
<1> DEFINE n == Len(text)
<1> SUFFICES ASSUME IsRequest(text)  PROVE FALSE
  OBVIOUS
<1>1. n \in Nat  BY NewlinesAre
<1>2. <<n - 1, n>> \in Lines(text) /\ 1 < n - 1  BY DEF IsRequest
<1>3. IsLine(text, n - 1, n)  BY <1>2 DEF Whole
<1> HIDE DEF n
<1>4. HeaderLine(text, n - 1, n - 2) # {} \/ FoldedLine(text, n - 1, n - 2) # {}
  <2>1. n - 1 # 1  BY <1>1, <1>2
  <2> QED  BY <1>3, <2>1 DEF IsLine
<1>5. n - 1 \in Int /\ n - 2 \in Int /\ ~(n - 1 <= n - 2)  BY <1>1
<1> HIDE DEF n
<1> QED  BY <1>4, <1>5, LinesBegin

-----------------------------------------------------------------------------
(* Every beginning of a request can still become one.                      *)

Plain  == <<"x", SP, SP, "H", "T", "T", "P", "/", "1", ".", "1", CR, LF, CR, LF>>
Headed == <<"x", ":", SP, CR, LF, CR, LF>>

\* A text that leads to a state becomes a request with the end of another.
Ends(st, tail, i) ==
    \A text \in Seq(Alphabet) :
        (\E from : Leading(st, text, from)) => IsRequest(text \o SubSeq(tail, i, Len(tail)))

LEMMA OneOfTail ==
    ASSUME NEW text \in Seq(Alphabet), NEW tail \in Seq(Alphabet), NEW i \in 1..Len(tail)
    PROVE  text \o SubSeq(tail, i, Len(tail))
             = Append(text, tail[i]) \o SubSeq(tail, i + 1, Len(tail))
<1> DEFINE c == tail[i]
           rest == SubSeq(tail, i + 1, Len(tail))
<1>1. c \in Alphabet /\ <<c>> \in Seq(Alphabet)
  <2>1. c \in Alphabet  BY LenProperties, ElementOfSeq
  <2> QED  BY <2>1
<1>2. Len(tail) \in Nat /\ \A j \in 1..Len(tail) : tail[j] \in Alphabet  BY NewlinesAre
<1>3. rest \in Seq(Alphabet)
  <2>1. i + 1 \in Int /\ \A j \in (i + 1)..Len(tail) : tail[j] \in Alphabet  BY <1>2
  <2> QED  BY <1>2, <2>1, SubSeqProperties
<1>4. SubSeq(tail, i, Len(tail)) = <<c>> \o rest
  <2>1. Len(tail) \in i..Len(tail)  BY <1>2
  <2> QED  BY <2>1, SubSeqRecursiveFirst
<1>5. Append(text, c) = text \o <<c>>  BY <1>1, AppendIsConcat
<1> HIDE DEF c, rest
<1>6. (text \o <<c>>) \o rest = text \o (<<c>> \o rest)
  <2>1. \A S : \A s, t, u \in Seq(S) : (s \o t) \o u = s \o (t \o u)  BY ConcatAssociative
  <2> QED  BY <1>1, <1>3, <2>1
<1>7. text \o SubSeq(tail, i, Len(tail)) = Append(text, c) \o rest  BY <1>4, <1>5, <1>6
<1> QED  BY <1>7 DEF c, rest

LEMMA OneEnds ==
    ASSUME NEW tail \in Seq(Alphabet), NEW i \in 1..Len(tail), NEW st \in States, NEW to \in States,
           \A headers : After(st, tail[i], headers) = to, Ends(to, tail, i + 1)
    PROVE  Ends(st, tail, i)
<1> SUFFICES ASSUME NEW text \in Seq(Alphabet), NEW from, Leading(st, text, from)
             PROVE  IsRequest(text \o SubSeq(tail, i, Len(tail)))
  BY DEF Ends
<1> DEFINE c == tail[i]
           more == Append(text, c)
           headers == IF Later(text, from) THEN <<0>> ELSE <<>>
<1>1. c \in Alphabet  BY LenProperties, ElementOfSeq
<1> HIDE DEF c
<1>2. Continues(more, text) /\ Len(more) = Len(text) + 1 /\ more[Len(text) + 1] = c
  BY <1>1, OneMore
<1>3. more \in Seq(Alphabet)  BY <1>2 DEF Continues
<1>4. Knows(st, text, from, headers)
  <2>1. headers # <<>> <=> Later(text, from)  OBVIOUS
  <2> HIDE DEF headers
  <2> QED  BY <2>1 DEF Knows
<1> HIDE DEF more, headers
<1>5. to \notin {"bad", "good"}  BY DEF States, MethodOrUri, Version, InHeader
<1>6. After(st, more[Len(text) + 1], headers) = to  BY <1>2 DEF c
<1>7. \E next : Leading(to, more, next)  BY <1>2, <1>4, <1>5, <1>6, Advances
<1>8. IsRequest(more \o SubSeq(tail, i + 1, Len(tail)))  BY <1>3, <1>7 DEF Ends
<1>9. text \o SubSeq(tail, i, Len(tail)) = more \o SubSeq(tail, i + 1, Len(tail))
  BY OneOfTail DEF more, c
<1> QED  BY <1>8, <1>9

LEMMA LastEnds ==
    ASSUME NEW tail \in Seq(Alphabet), NEW n, n = Len(tail), n > 0, tail[n] = LF
    PROVE  Ends("expecting_newline_3", tail, n)
<1> SUFFICES ASSUME NEW text \in Seq(Alphabet), NEW from, Leading("expecting_newline_3", text, from)
             PROVE  IsRequest(text \o SubSeq(tail, n, Len(tail)))
  BY DEF Ends
<1> DEFINE more == Append(text, LF)
<1>1. n \in Nat /\ n \in 1..Len(tail)  BY LenProperties
<1>2. LF \in Alphabet  BY DEF Alphabet
<1>3. Continues(more, text) /\ Len(more) = Len(text) + 1 /\ more[Len(text) + 1] = LF
  BY <1>2, OneMore
<1>4. more \in Seq(Alphabet)  BY <1>3 DEF Continues
<1> HIDE DEF more
<1>5. IsRequest(more)  BY <1>3, Completes
<1>6. SubSeq(tail, n + 1, Len(tail)) = <<>>
  <2>1. n + 1 \in Int /\ Len(tail) \in Int /\ Len(tail) < n + 1  BY <1>1
  <2> QED  BY <2>1, SubSeqEmpty
<1>7. text \o SubSeq(tail, n, Len(tail)) = more \o SubSeq(tail, n + 1, Len(tail))
  BY <1>1, OneOfTail DEF more
<1>8. more \o <<>> = more  BY <1>4, ConcatEmptySeq
<1> QED  BY <1>5, <1>6, <1>7, <1>8

\* A machine that goes from state to state along a tail makes a request of it.
LEMMA TailEnds ==
    ASSUME NEW tail \in Seq(Alphabet), NEW n, n = Len(tail), n > 0, tail[n] = LF,
           NEW states, \A i \in 1..n : states[i] \in States, states[n] = "expecting_newline_3",
           \A i \in 1..(n - 1) : \A headers : After(states[i], tail[i], headers) = states[i + 1]
    PROVE  \A i \in 1..n : Ends(states[i], tail, i)
<1>1. n \in Nat  BY LenProperties
<1> DEFINE Good == {k \in 0..(n - 1) : Ends(states[n - k], tail, n - k)}
<1>2. 0 \in Good
  <2>1. n - 0 = n /\ 0 \in 0..(n - 1)  BY <1>1
  <2> QED  BY <2>1, LastEnds
<1>3. ASSUME NEW k \in Nat, k < n - 1, k \in Good  PROVE k + 1 \in Good
  <2> DEFINE i == n - (k + 1)
  <2>1. i \in 1..(n - 1) /\ i \in 1..n /\ i + 1 = n - k /\ n - k \in 1..n /\ k + 1 \in 0..(n - 1)
    BY <1>1, <1>3
  <2>2. Ends(states[i + 1], tail, i + 1)  BY <1>3, <2>1
  <2> HIDE DEF i
  <2>3. i \in 1..Len(tail) /\ states[i] \in States /\ states[i + 1] \in States  BY <2>1
  <2>4. \A headers : After(states[i], tail[i], headers) = states[i + 1]  BY <2>1
  <2>5. Ends(states[i], tail, i)  BY <2>2, <2>3, <2>4, OneEnds
  <2> QED  BY <2>1, <2>5 DEF i
<1>4. n - 1 \in Nat  BY <1>1
<1> HIDE DEF Good
<1>5. \A k \in 0..(n - 1) : k \in Good  BY <1>2, <1>3, <1>4, UpTo
<1> TAKE i \in 1..n
<1>6. n - i \in 0..(n - 1) /\ n - (n - i) = i  BY <1>1
<1>7. n - i \in Good  BY <1>5, <1>6
<1> QED  BY <1>6, <1>7 DEF Good

PlainStates ==
    <<"method_start", "method", "uri", "http_version_h", "http_version_t_1",
      "http_version_t_2", "http_version_p", "http_version_slash",
      "http_version_major_start", "http_version_major", "http_version_minor_start",
      "http_version_minor", "expecting_newline_1", "header_line_start",
      "expecting_newline_3">>

HeadedStates ==
    <<"header_line_start", "header_name", "space_before_header_value", "header_value",
      "expecting_newline_2", "header_line_start", "expecting_newline_3">>

LEMMA PlainEnds == \A i \in 1..15 : Ends(PlainStates[i], Plain, i)
<1>1. Plain \in Seq(Alphabet) /\ Len(Plain) = 15 /\ Plain[15] = LF
  BY DEF Plain, Alphabet
<1>2. PlainStates[15] = "expecting_newline_3"  BY DEF PlainStates
<1>3. \A i \in 1..15 : PlainStates[i] \in States
  BY DEF PlainStates, States, MethodOrUri, Version, InHeader
<1>4. ASSUME NEW headers, NEW i \in 1..14
      PROVE  After(PlainStates[i], Plain[i], headers) = PlainStates[i + 1]
  <2>1. /\ IsToken("x") /\ ~IsToken(SP) /\ ~IsToken(CR) /\ CR \notin {LF, SP, TAB}
    BY DEF IsToken, IsChar, IsCtl, IsTspecial, CR, LF, SP, TAB
  <2>2. CASE i \in 1..3
    <3>1. /\ After("method_start", "x", headers) = "method"
          /\ After("method", SP, headers) = "uri"
          /\ After("uri", SP, headers) = "http_version_h"
      BY <2>1 DEF After, InMethodOrUri, MethodOrUri
    <3>2. i \in {1, 2, 3}  BY <2>2
    <3> QED  BY <3>1, <3>2 DEF PlainStates, Plain
  <2>3. CASE i \in 4..8
    BY <2>3 DEF After, InVersion, MethodOrUri, Version, PlainStates, Plain
  <2>4. CASE i \in 9..13
    <3>1. i \in {9, 10, 11, 12, 13}  BY <2>4
    <3> QED
      BY <2>1, <3>1 DEF After, InVersion, MethodOrUri, Version, PlainStates, Plain, Digits, CR, LF
  <2>5. CASE i = 14
    <3>1. After("header_line_start", CR, headers) = "expecting_newline_3"
      BY <2>1 DEF After, InHeaders, MethodOrUri, Version
    <3> QED  BY <2>5, <3>1 DEF PlainStates, Plain
  <2> QED  BY <2>2, <2>3, <2>4, <2>5
<1>5. 15 - 1 = 14 /\ 15 > 0  OBVIOUS
<1> QED  BY <1>1, <1>2, <1>3, <1>4, <1>5, TailEnds

LEMMA HeadedEnds == \A i \in 1..7 : Ends(HeadedStates[i], Headed, i)
<1>1. Headed \in Seq(Alphabet) /\ Len(Headed) = 7 /\ Headed[7] = LF
  BY DEF Headed, Alphabet
<1>2. HeadedStates[7] = "expecting_newline_3"  BY DEF HeadedStates
<1>3. \A i \in 1..7 : HeadedStates[i] \in States
  BY DEF HeadedStates, States, MethodOrUri, Version, InHeader
<1>4. ASSUME NEW headers, NEW i \in 1..6
      PROVE  After(HeadedStates[i], Headed[i], headers) = HeadedStates[i + 1]
  <2>1. /\ IsToken("x") /\ "x" \notin {SP, TAB, CR} /\ ~IsToken(":") /\ ~IsToken(CR)
        /\ IsCtl(CR) /\ CR \notin {LF, SP, TAB}
    BY DEF IsToken, IsChar, IsCtl, IsTspecial, CR, LF, SP, TAB
  <2>2. i \in {1, 2, 3, 4, 5, 6}  OBVIOUS
  <2>3. /\ HeadedStates[i] \notin MethodOrUri /\ HeadedStates[i] \notin Version
    BY <2>2 DEF HeadedStates, MethodOrUri, Version
  <2>4. InHeaders(HeadedStates[i], Headed[i], headers) = HeadedStates[i + 1]
    <3>1. /\ InHeaders("header_line_start", "x", headers) = "header_name"
          /\ InHeaders("header_line_start", CR, headers) = "expecting_newline_3"
      BY <2>1 DEF InHeaders
    <3>2. /\ InHeaders("header_name", ":", headers) = "space_before_header_value"
          /\ InHeaders("space_before_header_value", SP, headers) = "header_value"
          /\ InHeaders("header_value", CR, headers) = "expecting_newline_2"
          /\ InHeaders("expecting_newline_2", LF, headers) = "header_line_start"
      BY <2>1 DEF InHeaders
    <3> QED  BY <2>2, <3>1, <3>2 DEF HeadedStates, Headed
  <2> QED  BY <2>3, <2>4 DEF After
<1>5. 7 - 1 = 6 /\ 7 > 0  OBVIOUS
<1> QED  BY <1>1, <1>2, <1>3, <1>4, <1>5, TailEnds

LEMMA TailsAre ==
    /\ \A tail \in Tails : tail \in Seq(Alphabet)
    /\ \A i \in 1..15 : SubSeq(Plain, i, Len(Plain)) \in Tails
    /\ \A i \in 1..7 : SubSeq(Headed, i, Len(Headed)) \in Tails
<1>1. Plain \in Seq(Alphabet) /\ Len(Plain) = 15 /\ DOMAIN Plain = 1..15
  BY DEF Plain, Alphabet
<1>2. Headed \in Seq(Alphabet) /\ Len(Headed) = 7 /\ DOMAIN Headed = 1..7
  BY DEF Headed, Alphabet
<1>3. Tails = UNION {{SubSeq(text, i, Len(text)) : i \in DOMAIN text} : text \in {Plain, Headed}}
  BY DEF Tails, Plain, Headed
<1>4. ASSUME NEW text \in Seq(Alphabet), NEW i \in DOMAIN text
      PROVE  SubSeq(text, i, Len(text)) \in Seq(Alphabet)
  <2>1. Len(text) \in Nat /\ DOMAIN text = 1..Len(text) /\ \A j \in 1..Len(text) : text[j] \in Alphabet
    BY NewlinesAre
  <2>2. i \in Int /\ Len(text) \in Int /\ \A j \in i..Len(text) : text[j] \in Alphabet  BY <2>1
  <2> QED  BY <2>2, SubSeqProperties
<1>5. \A i \in 1..15 : SubSeq(Plain, i, Len(Plain)) \in Tails  BY <1>1, <1>3
<1>6. \A i \in 1..7 : SubSeq(Headed, i, Len(Headed)) \in Tails  BY <1>2, <1>3
<1>7. \A tail \in Tails : tail \in Seq(Alphabet)
  <2> TAKE tail \in Tails
  <2>1. PICK text \in {Plain, Headed} : tail \in {SubSeq(text, i, Len(text)) : i \in DOMAIN text}
    BY <1>3
  <2>2. text \in Seq(Alphabet)  BY <1>1, <1>2, <2>1
  <2> QED  BY <1>4, <2>1, <2>2
<1> QED  BY <1>5, <1>6, <1>7

LEMMA LeadingHopes ==
    ASSUME NEW text \in Seq(Alphabet), NEW st \in States, NEW from, Leading(st, text, from)
    PROVE  Hopeful(text)
<1>1. ASSUME NEW i \in 1..15, st = PlainStates[i]  PROVE Hopeful(text)
  <2>1. IsRequest(text \o SubSeq(Plain, i, Len(Plain)))  BY <1>1, PlainEnds DEF Ends
  <2> QED  BY <2>1, TailsAre DEF Hopeful
<1>2. ASSUME NEW i \in 1..7, Ends(st, Headed, i)  PROVE Hopeful(text)
  <2>1. IsRequest(text \o SubSeq(Headed, i, Len(Headed)))  BY <1>2 DEF Ends
  <2> QED  BY <2>1, TailsAre DEF Hopeful
<1>3. Ends("header_lws", Headed, 4)
  <2>1. Headed \in Seq(Alphabet) /\ 4 \in 1..Len(Headed) /\ Headed[4] = CR
    BY DEF Headed, Alphabet
  <2>2. "header_lws" \in States /\ "expecting_newline_2" \in States  BY DEF States, InHeader
  <2>3. \A headers : After("header_lws", Headed[4], headers) = "expecting_newline_2"
    <3>1. CR \notin {SP, TAB} /\ IsCtl(CR)  BY DEF IsCtl, CR, SP, TAB
    <3> HIDE DEF Headed
    <3> QED  BY <2>1, <3>1 DEF After, InHeaders, MethodOrUri, Version
  <2>4. Ends("expecting_newline_2", Headed, 5)
    <3>1. HeadedStates[5] = "expecting_newline_2"  BY DEF HeadedStates
    <3> QED  BY <3>1, HeadedEnds
  <2>5. 4 + 1 = 5  OBVIOUS
  <2> HIDE DEF Headed
  <2> QED  BY <2>1, <2>2, <2>3, <2>4, <2>5, OneEnds
<1>4. CASE st \in FirstStates \cup {"header_line_start", "expecting_newline_3"}
  <2>1. \E i \in 1..15 : st = PlainStates[i]
    BY <1>4 DEF FirstStates, MethodOrUri, Version, PlainStates
  <2> QED  BY <1>1, <2>1
<1>5. CASE st \in InHeader
  <2>1. \/ st = HeadedStates[2] \/ st = HeadedStates[3] \/ st = HeadedStates[4]
        \/ st = HeadedStates[5] \/ st = "header_lws"
    BY <1>5 DEF InHeader, HeadedStates
  <2> QED  BY <1>2, <1>3, <2>1, HeadedEnds
<1> QED  BY <1>4, <1>5 DEF States, FirstStates

-----------------------------------------------------------------------------
(* The verdict.                                                            *)

\* What is known of a text by the machine that has read it.
Sound(m, text) ==
    /\ m.result = "indeterminate" =>
         /\ \E from : Leading(m.state, text, from) /\ Knows(m.state, text, from, m.req.headers)
         /\ m.state \in FirstStates => m.req.headers = <<>>
    /\ m.result = "good" => IsRequest(text)
    /\ m.result = "bad" => \A more : Continues(more, text) => ~IsRequest(more)

LEMMA ContinuesOn ==
    ASSUME NEW a, NEW b, NEW c, Continues(b, a), Continues(c, b)
    PROVE  Continues(c, a)
<1>1. Len(a) \in Nat /\ Len(b) \in Nat /\ Len(c) \in Nat  BY NewlinesAre DEF Continues
<1> QED  BY <1>1 DEF Continues

\* The states in which a line, or the request, can end.
LEMMA Turns ==
    ASSUME NEW st, NEW c, NEW headers, NEW to, to = After(st, c, headers)
    PROVE  /\ to = "good" => st = "expecting_newline_3" /\ c = LF
           /\ to = "header_line_start" =>
                st \in {"expecting_newline_1", "expecting_newline_2"} /\ c = LF
           /\ to \in FirstStates => st \in FirstStates
<1>1. CASE st \in MethodOrUri
  <2>1. to = InMethodOrUri(st, c)  BY <1>1 DEF After
  <2> QED  BY <1>1, <2>1 DEF InMethodOrUri, FirstStates
<1>2. CASE st \in Version
  <2>1. to = InVersion(st, c)  BY <1>2 DEF After, MethodOrUri, Version
  <2> QED  BY <1>2, <2>1 DEF InVersion, FirstStates
<1>3. CASE st \notin MethodOrUri \cup Version
  <2>1. to = InHeaders(st, c, headers)  BY <1>3 DEF After
  <2>2. to = "good" => st = "expecting_newline_3" /\ c = LF  BY <2>1 DEF InHeaders
  <2>3. to = "header_line_start" => st = "expecting_newline_2" /\ c = LF  BY <2>1 DEF InHeaders
  <2>4. to \notin FirstStates  BY <2>1 DEF InHeaders, FirstStates, MethodOrUri, Version
  <2> QED  BY <2>2, <2>3, <2>4
<1> QED  BY <1>1, <1>2, <1>3

\* consume keeps what is known true, of the text with the character.
LEMMA ConsumedSound ==
    ASSUME NEW m \in Machines, m.result = "indeterminate", NEW text \in Seq(Alphabet),
           Sound(m, text), NEW c \in Alphabet
    PROVE  Sound(Consumed(m, c), Append(text, c))
<1> DEFINE st == m.state
           hs == m.req.headers
           to == After(st, c, hs)
           kept == Kept(m.req, st, to, c)
           more == Append(text, c)
           out == Consumed(m, c)
<1>1. /\ st \in States /\ m.req \in Requests
      /\ st \in InHeader => hs # <<>>
  BY DEF Machines
<1>2. PICK from : Leading(st, text, from) /\ Knows(st, text, from, hs)
  BY DEF Sound
<1>3. st \in FirstStates => hs = <<>>  BY DEF Sound
<1>4. Continues(more, text) /\ Len(more) = Len(text) + 1 /\ more[Len(text) + 1] = c
  BY OneMore
<1>5. /\ out.state = (IF to \in {"good", "bad"} THEN st ELSE to)
      /\ out.result = (IF to \in {"good", "bad"} THEN to ELSE "indeterminate")
      /\ out.req = kept
  BY DEF Consumed
<1>6. to \in States \cup {"good", "bad"}  BY <1>1, Leads
<1>7. to = "good" => st = "expecting_newline_3" /\ c = LF  BY Turns
<1>8. to \in FirstStates => st \in FirstStates  BY Turns
<1>9. to = "header_line_start" => st \in {"expecting_newline_1", "expecting_newline_2"}  BY Turns
<1>10. to \in FirstStates \cup {"header_line_start"} => kept.headers = hs
  <2> HIDE DEF to
  <2>1. ASSUME to \in FirstStates \cup {"header_line_start"}
        PROVE  to \notin {"header_name", "header_value"}
    BY <2>1 DEF FirstStates, MethodOrUri, Version
  <2>2. ASSUME to \notin {"header_name", "header_value"}  PROVE kept.headers = hs
    <3> DEFINE r == m.req
    <3>1. r = [method |-> r.method, uri |-> r.uri, major |-> r.major, minor |-> r.minor, headers |-> hs]
      BY <1>1 DEF Requests
    <3>2. \A a : /\ [r EXCEPT !.method = a].headers = r.headers
                 /\ [r EXCEPT !.uri = a].headers = r.headers
                 /\ [r EXCEPT !.major = a].headers = r.headers
                 /\ [r EXCEPT !.minor = a].headers = r.headers
      BY <3>1
    <3>3. \A a, b : [r EXCEPT !.major = a, !.minor = b].headers = r.headers
      BY <3>1
    <3> QED  BY <2>2, <3>2, <3>3 DEF Kept
  <2> QED  BY <2>1, <2>2
<1> HIDE DEF to, kept, more, out
<1>11. CASE to = "bad"
  <2> SUFFICES ASSUME NEW whole, Continues(whole, more), IsRequest(whole)  PROVE FALSE
    BY <1>5, <1>11 DEF Sound, more, out
  <2>1. Continues(whole, text)  BY <1>4, ContinuesOn
  <2>2. Len(text) \in Nat /\ Len(whole) \in Nat /\ Len(text) < Len(whole)
        /\ whole[Len(text) + 1] = c
    <3>1. Len(text) \in Nat /\ Len(whole) \in Nat /\ Len(more) <= Len(whole)
          /\ \A i \in 1..Len(more) : whole[i] = more[i]
      BY NewlinesAre DEF Continues
    <3>2. Len(text) + 1 \in 1..Len(more)  BY <1>4, <3>1
    <3> QED  BY <1>4, <3>1, <3>2
  <2>3. After(st, whole[Len(text) + 1], hs) # "bad"
    BY <1>1, <1>2, <2>1, <2>2, RequestGoesOn
  <2> QED  BY <1>11, <2>2, <2>3 DEF to
<1>12. CASE to = "good"
  <2>1. IsRequest(more)  BY <1>2, <1>4, <1>7, <1>12, Completes
  <2> QED  BY <1>5, <1>12, <2>1 DEF Sound, more, out
<1>13. CASE to \notin {"good", "bad"}
  <2>1. PICK next :
          /\ Leading(to, more, next)
          /\ to = "header_line_start" => (Later(more, next) <=> st \notin FirstStates)
    BY <1>1, <1>2, <1>4, <1>13, Advances DEF to
  <2>2. Knows(to, more, next, kept.headers)
    <3> SUFFICES ASSUME to = "header_line_start"  PROVE kept.headers # <<>> <=> Later(more, next)
      BY DEF Knows
    <3>1. kept.headers = hs  BY <1>10
    <3>2. hs # <<>> <=> st \notin FirstStates
      <4>1. st = "expecting_newline_1" => st \in FirstStates  BY DEF FirstStates, Version
      <4>2. st = "expecting_newline_2" => st \notin FirstStates /\ st \in InHeader
        BY DEF FirstStates, MethodOrUri, Version, InHeader
      <4> QED  BY <1>1, <1>3, <1>9, <4>1, <4>2
    <3> QED  BY <2>1, <3>1, <3>2
  <2>3. to \in FirstStates => kept.headers = <<>>  BY <1>3, <1>8, <1>10
  <2>4. out.state = to /\ out.result = "indeterminate" /\ out.req.headers = kept.headers
    BY <1>5, <1>13
  <2> QED  BY <2>1, <2>2, <2>3, <2>4 DEF Sound, more, out
<1> QED  BY <1>11, <1>12, <1>13

LEMMA SoundStays ==
    ASSUME NEW m, m.result = "bad", NEW text \in Seq(Alphabet), Sound(m, text), NEW c \in Alphabet
    PROVE  Sound(m, Append(text, c))
<1> DEFINE more == Append(text, c)
<1>1. Continues(more, text)  BY OneMore
<1> HIDE DEF more
<1>2. \A whole : Continues(whole, more) => ~IsRequest(whole)
  BY <1>1, ContinuesOn DEF Sound
<1> QED  BY <1>2 DEF Sound, more

\* What is known of the text is the verdict on it.
LEMMA SoundVerdict ==
    ASSUME Machine \in Machines, input \in Seq(Alphabet), Sound(Machine, input)
    PROVE  VerdictIsRight
<1>1. result \in {"indeterminate", "good", "bad"} /\ state \in States
      /\ Machine.result = result /\ Machine.state = state
  BY DEF Machines, Machine
<1>2. CASE result = "indeterminate"
  <2>1. PICK from : Leading(state, input, from)  BY <1>1, <1>2 DEF Sound
  <2>2. ~IsRequest(input)  BY <2>1, WholeIsNone DEF Leading
  <2>3. Hopeful(input)  BY <1>1, <2>1, LeadingHopes
  <2> QED  BY <1>2, <2>2, <2>3 DEF VerdictIsRight
<1>3. CASE result = "good"
  BY <1>1, <1>3 DEF Sound, VerdictIsRight
<1>4. CASE result = "bad"
  <2>1. \A more : Continues(more, input) => ~IsRequest(more)  BY <1>1, <1>4 DEF Sound
  <2>2. Len(input) \in Nat  BY LenProperties
  <2>3. Continues(input, input)  BY <2>2 DEF Continues
  <2>4. ASSUME NEW tail \in Tails  PROVE ~IsRequest(input \o tail)
    <3>1. tail \in Seq(Alphabet)  BY TailsAre
    <3> DEFINE more == input \o tail
    <3>2. /\ more \in Seq(Alphabet) /\ Len(more) = Len(input) + Len(tail) /\ Len(tail) \in Nat
          /\ \A i \in 1..(Len(input) + Len(tail)) :
                more[i] = IF i <= Len(input) THEN input[i] ELSE tail[i - Len(input)]
      BY <3>1, ConcatProperties, LenProperties
    <3> HIDE DEF more
    <3>3. \A i \in 1..Len(input) : more[i] = input[i]  BY <2>2, <3>2
    <3>4. Continues(more, input)  BY <2>2, <3>2, <3>3 DEF Continues
    <3> QED  BY <2>1, <3>4 DEF more
  <2> QED  BY <1>4, <2>1, <2>3, <2>4 DEF VerdictIsRight, Hopeful
<1> QED  BY <1>1, <1>2, <1>3, <1>4
=============================================================================
