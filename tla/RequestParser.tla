---------------------------- MODULE RequestParser ----------------------------
(***************************************************************************)
(* request_parser of example/server: the machine that reads an HTTP        *)
(* request one character at a time, and the grammar it is to decide,       *)
(* stated on whole lines.  A character stands for all of those the parser  *)
(* treats alike.                                                           *)
(***************************************************************************)
EXTENDS Integers, FiniteSets, SequencesExt

CONSTANTS MaxLength,   \* of the input
          MaxText,     \* of a method, a uri, a name and a value
          MaxHeaders

ASSUME ParserAssumption == {MaxLength, MaxText, MaxHeaders} \subseteq Nat

SP  == "sp"
TAB == "tab"
CR  == "cr"
LF  == "lf"

\* "x" is a letter, "ctl" any other control character and "high" a byte above 127,
\* which is negative as a char.
IsChar(c)     == c # "high"
IsCtl(c)      == c \in {TAB, CR, LF, "ctl"}
IsTspecial(c) == c \in {SP, TAB, ":", "/"}
Digits        == {"0", "1"}
Value(c)      == IF c = "1" THEN 1 ELSE 0

IsToken(c) == IsChar(c) /\ ~IsCtl(c) /\ ~IsTspecial(c)

-----------------------------------------------------------------------------
\* The state after a character, or "bad".
InMethodOrUri(state, c) ==
    CASE state = "method_start" /\ IsToken(c)           -> "method"
      [] state = "method" /\ c = SP                     -> "uri"
      [] state = "method" /\ IsToken(c)                 -> "method"
      [] state = "uri" /\ c = SP                        -> "http_version_h"
      [] state = "uri" /\ c # SP /\ ~IsCtl(c)           -> "uri"
      [] OTHER                                          -> "bad"

InVersion(state, c) ==
    CASE state = "http_version_h" /\ c = "H"            -> "http_version_t_1"
      [] state = "http_version_t_1" /\ c = "T"          -> "http_version_t_2"
      [] state = "http_version_t_2" /\ c = "T"          -> "http_version_p"
      [] state = "http_version_p" /\ c = "P"            -> "http_version_slash"
      [] state = "http_version_slash" /\ c = "/"        -> "http_version_major_start"
      [] state = "http_version_major_start" /\ c \in Digits -> "http_version_major"
      [] state = "http_version_major" /\ c \in Digits   -> "http_version_major"
      [] state = "http_version_major" /\ c = "."        -> "http_version_minor_start"
      [] state = "http_version_minor_start" /\ c \in Digits -> "http_version_minor"
      [] state = "http_version_minor" /\ c \in Digits   -> "http_version_minor"
      [] state = "http_version_minor" /\ c = CR         -> "expecting_newline_1"
      [] state = "expecting_newline_1" /\ c = LF        -> "header_line_start"
      [] OTHER                                          -> "bad"

InHeaders(state, c, headers) ==
    CASE state = "header_line_start" /\ c = CR          -> "expecting_newline_3"
      [] state = "header_line_start" /\ headers # <<>> /\ c \in {SP, TAB} -> "header_lws"
      [] state = "header_line_start" /\ IsToken(c)      -> "header_name"
      [] state = "header_lws" /\ c = CR                 -> "expecting_newline_2"
      [] state = "header_lws" /\ c \in {SP, TAB}        -> "header_lws"
      [] state = "header_lws" /\ c # SP /\ ~IsCtl(c)    -> "header_value"
      [] state = "header_name" /\ c = ":"               -> "space_before_header_value"
      [] state = "header_name" /\ IsToken(c)            -> "header_name"
      [] state = "space_before_header_value" /\ c = SP  -> "header_value"
      [] state = "header_value" /\ c = CR               -> "expecting_newline_2"
      [] state = "header_value" /\ ~IsCtl(c)            -> "header_value"
      [] state = "expecting_newline_2" /\ c = LF        -> "header_line_start"
      [] state = "expecting_newline_3" /\ c = LF        -> "good"
      [] OTHER                                          -> "bad"

MethodOrUri == {"method_start", "method", "uri"}
Version ==
    {"http_version_h", "http_version_t_1", "http_version_t_2", "http_version_p",
     "http_version_slash", "http_version_major_start", "http_version_major",
     "http_version_minor_start", "http_version_minor", "expecting_newline_1"}

\* Mutants: a bare LF ends the request; a folded line may come first.
AfterBareNewline(state, c, headers) ==
    IF state = "header_line_start" /\ c = LF THEN "good"
    ELSE IF state \in MethodOrUri THEN InMethodOrUri(state, c)
    ELSE IF state \in Version THEN InVersion(state, c)
    ELSE InHeaders(state, c, headers)
AfterFoldFirst(state, c, headers) ==
    IF state = "header_line_start" /\ c \in {SP, TAB} THEN "header_lws"
    ELSE IF state \in MethodOrUri THEN InMethodOrUri(state, c)
    ELSE IF state \in Version THEN InVersion(state, c)
    ELSE InHeaders(state, c, headers)

After(state, c, headers) ==
    IF state \in MethodOrUri THEN InMethodOrUri(state, c)
    ELSE IF state \in Version THEN InVersion(state, c)
    ELSE InHeaders(state, c, headers)

\* What the character adds to the request.
Kept(req, from, to, c) ==
    CASE to = "method"                       -> [req EXCEPT !.method = Append(@, c)]
      [] from = "uri" /\ to = "uri"          -> [req EXCEPT !.uri = Append(@, c)]
      [] to = "http_version_major_start"     -> [req EXCEPT !.major = 0, !.minor = 0]
      [] to = "http_version_major"           -> [req EXCEPT !.major = @ * 10 + Value(c)]
      [] to = "http_version_minor"           -> [req EXCEPT !.minor = @ * 10 + Value(c)]
      [] to = "header_name" /\ from # to     ->
            [req EXCEPT !.headers = Append(@, [name |-> <<c>>, value |-> <<>>])]
      [] to = "header_name" /\ from = to     ->
            [req EXCEPT !.headers[Len(req.headers)].name = Append(@, c)]
      [] to = "header_value" /\ from # "space_before_header_value" ->
            [req EXCEPT !.headers[Len(req.headers)].value = Append(@, c)]
      [] OTHER                               -> req

-----------------------------------------------------------------------------
VARIABLES state,    \* state_
          result,   \* what parse returns for the input so far
          req,      \* request_
          input     \* all it has been given

vars == <<state, result, req, input>>

Init ==
    /\ state = "method_start" /\ result = "indeterminate"
    /\ req = [method |-> <<>>, uri |-> <<>>, major |-> 0, minor |-> 0, headers |-> <<>>]
    /\ input = <<>>

\* Mutant: the blank after the colon is kept in the value.
ConsumedBlankKept(m, c) ==
    LET to   == After(m.state, c, m.req.headers)
        from == IF m.state = "space_before_header_value" THEN "header_value" ELSE m.state
        done == to \in {"good", "bad"}
    IN  [state  |-> IF done THEN m.state ELSE to,
         result |-> IF done THEN to ELSE "indeterminate",
         req    |-> Kept(m.req, from, to, c)]

\* consume: a state that is no case of the switch is not entered, so state_
\* stays as it is when the result is good or bad.
Consumed(m, c) ==
    LET to   == After(m.state, c, m.req.headers)
        done == to \in {"good", "bad"}
    IN  [state  |-> IF done THEN m.state ELSE to,
         result |-> IF done THEN to ELSE "indeterminate",
         req    |-> Kept(m.req, m.state, to, c)]

\* parse: one buffer of input, no further than the character that decides.
Parse(text) ==
    LET Step(m, c) == IF m.result = "indeterminate" THEN Consumed(m, c) ELSE m
        end == FoldLeft(Step, [state |-> state, result |-> result, req |-> req], text)
    IN  /\ result = "indeterminate"
        /\ state' = end.state /\ result' = end.result /\ req' = end.req
        /\ input' = input \o text

\* In either kind of state, one character of each sort it can tell apart.
Chars(st) ==
    IF st \in Version THEN {"H", "T", "P", "/", "0", "1", ".", "x", SP, CR, LF}
                      ELSE {"x", ":", SP, TAB, CR, LF, "ctl", "high"}

Bounded ==
    /\ {Len(req.method), Len(req.uri)} \subseteq 0..MaxText
    /\ req.major < 12 /\ req.minor < 2
    /\ Len(req.headers) <= MaxHeaders
    /\ \A i \in DOMAIN req.headers :
         {Len(req.headers[i].name), Len(req.headers[i].value)} \subseteq 0..MaxText

\* A character of some text, whatever its shape.
Some(c) == Len(input) < MaxLength /\ Bounded /\ c \in Chars(state) /\ Parse(<<c>>)

-----------------------------------------------------------------------------
(* The grammar, line by line.                                              *)

IsDigit(c)   == c \in Digits
IsBlank(c)   == c \in {SP, TAB}
IsUriChar(c) == c # SP /\ ~IsCtl(c)
IsText(c)    == ~IsCtl(c)

Newlines(text) == {i \in DOMAIN text : text[i] = LF}

\* The lines of a text: where each begins, and where the LF is that ends it.
Lines(text) ==
    LET ends == Newlines(text)
    IN  {l \in ({1} \cup {i + 1 : i \in ends}) \X ends :
            l[1] <= l[2] /\ \A i \in ends : l[1] <= i => l[2] <= i}

\* The version in text[from..to].
IsVersion(text, from, to) ==
    /\ from + 4 <= to
    /\ text[from] = "H" /\ text[from + 1] = "T" /\ text[from + 2] = "T"
    /\ text[from + 3] = "P" /\ text[from + 4] = "/"
    /\ \E dot \in (from + 6)..(to - 1) :
         /\ text[dot] = "."
         /\ \A i \in (from + 5)..(dot - 1) : IsDigit(text[i])
         /\ \A i \in (dot + 1)..to : IsDigit(text[i])

Spaces(text, to) == {i \in 1..to : text[i] = SP}

\* Where the method and the uri of a request line, text[1..to], end.
RequestLine(text, to) ==
    {p \in Spaces(text, to) \X Spaces(text, to) :
        /\ 1 < p[1] /\ p[1] < p[2]
        /\ \A i \in 1..(p[1] - 1) : IsToken(text[i])
        /\ \A i \in (p[1] + 1)..(p[2] - 1) : IsUriChar(text[i])
        /\ IsVersion(text, p[2] + 1, to)}

\* Where the name of a header, text[from..to], ends, and where the blanks of a
\* folded line do.
HeaderLine(text, from, to) ==
    {i \in (from + 1)..(to - 1) :
        /\ text[i] = ":" /\ text[i + 1] = SP
        /\ \A j \in from..(i - 1) : IsToken(text[j])
        /\ \A j \in (i + 2)..to : IsText(text[j])}

FoldedLine(text, from, to) ==
    {i \in from..to :
        /\ \A j \in from..i : IsBlank(text[j])
        /\ \A j \in (i + 1)..to : IsText(text[j])
        /\ i = to \/ text[i + 1] # SP}

\* A line that another follows: the first, a header or what is folded into one.
IsLine(text, from, end) ==
    /\ from < end /\ text[end - 1] = CR
    /\ IF from = 1 THEN RequestLine(text, end - 2) # {}
       ELSE \/ HeaderLine(text, from, end - 2) # {}
            \/ /\ \E i \in Newlines(text) : i < from - 1
               /\ FoldedLine(text, from, end - 2) # {}

IsRequest(text) ==
    LET lines == Lines(text)
        n     == Len(text)
    IN  /\ <<n - 1, n>> \in lines /\ 1 < n - 1 /\ text[n - 1] = CR
        /\ \A l \in lines : l[2] = n \/ IsLine(text, l[1], l[2])

\* The ends of two requests: every text that can still become a request becomes
\* one with some of them.
Tails ==
    LET plain  == <<"x", SP, SP, "H", "T", "T", "P", "/", "1", ".", "1", CR, LF, CR, LF>>
        header == <<"x", ":", SP, CR, LF, CR, LF>>
    IN  UNION {{SubSeq(text, i, Len(text)) : i \in DOMAIN text} : text \in {plain, header}}

Hopeful(text) == \E tail \in Tails : IsRequest(text \o tail)

Number(digits) == FoldLeft(LAMBDA n, c : n * 10 + Value(c), 0, digits)

\* The k-th of a set of positions, and what a text has at them.
Kth(places, k) == CHOOSE i \in places : Cardinality({j \in places : j <= i}) = k

Picked(text, places) == [k \in 1..Cardinality(places) |-> text[Kth(places, k)]]

\* Where the headers begin, the lines folded into one, and where its value is.
Heads(text) ==
    {l[1] : l \in {m \in Lines(text) : 1 < m[1] /\ HeaderLine(text, m[1], m[2] - 2) # {}}}

Folded(text, head) ==
    {l \in Lines(text) :
        /\ head < l[1] /\ FoldedLine(text, l[1], l[2] - 2) # {}
        /\ \A other \in Heads(text) : ~(head < other /\ other < l[1])}

Header(text, head) ==
    LET to    == CHOOSE i \in 1..Len(text) : <<head, i + 2>> \in Lines(text)
        colon == CHOOSE i \in HeaderLine(text, head, to) : TRUE
        blanks(l) == CHOOSE i \in FoldedLine(text, l[1], l[2] - 2) : TRUE
    IN  [name  |-> SubSeq(text, head, colon - 1),
         value |-> Picked(text, ((colon + 2)..to)
                                \cup UNION {(blanks(l) + 1)..(l[2] - 2) : l \in Folded(text, head)})]

\* The request a text says.
Meaning(text) ==
    LET to   == CHOOSE i \in 1..Len(text) : <<1, i + 2>> \in Lines(text)
        ends == CHOOSE p \in RequestLine(text, to) : TRUE
        dot  == CHOOSE i \in (ends[2] + 7)..to : text[i] = "."
    IN  [method  |-> SubSeq(text, 1, ends[1] - 1),
         uri     |-> SubSeq(text, ends[1] + 1, ends[2] - 1),
         major   |-> Number(SubSeq(text, ends[2] + 6, dot - 1)),
         minor   |-> Number(SubSeq(text, dot + 1, to)),
         headers |-> [k \in 1..Cardinality(Heads(text)) |-> Header(text, Kth(Heads(text), k))]]

-----------------------------------------------------------------------------
\* request_parser.hpp: the result is "good when a complete request has been
\* parsed, bad if the data is invalid, indeterminate when more data is
\* required": at every character, of every text, and no later than it is known.
VerdictIsRight ==
    result = IF IsRequest(input) THEN "good"
             ELSE IF Hopeful(input) THEN "indeterminate" ELSE "bad"

\* A request is understood as its text says, folded header lines included.
RequestIsMeant == result = "good" => req = Meaning(input)

\* The header a folded line or a value is added to exists: headers.back() is
\* never taken of an empty vector.
BackExists ==
    state \in {"header_lws", "header_name", "space_before_header_value", "header_value",
               "expecting_newline_2"} => req.headers # <<>>

=============================================================================
