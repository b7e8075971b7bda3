---------------------------- MODULE RequestHandler ----------------------------
(***************************************************************************)
(* From a request to the bytes of its reply, in example/server: the parser *)
(* reads it, request_handler decodes its uri to a path and opens the file, *)
(* and reply makes the buffers that are written.  A path is relative to    *)
(* doc_root_; which files there are, and what is in them, is open.         *)
(***************************************************************************)
EXTENDS RequestParser

CONSTANT MaxUri   \* the length of the uris that name paths

ASSUME UriAssumption == MaxUri \in Nat

VARIABLES reply,   \* reply_
          opened   \* history: the name given to ifstream, if any was

handlerVars == <<vars, reply, opened>>

-----------------------------------------------------------------------------
Hex == [c \in {"0", "2", "e", "f"} |->
           CASE c = "0" -> 0 [] c = "2" -> 2 [] c = "e" -> 14 [] c = "f" -> 15]

\* static_cast<char>(value), as the character it is treated like.
Char(value) ==
    CASE value = 0           -> "nul"
      [] value \in 1..31     -> "ctl"
      [] value = 32          -> SP
      [] value = 46          -> "."
      [] value = 47          -> "/"
      [] value \in 128..255 \/ value < 0 -> "high"
      [] OTHER               -> ":"

\* Mutant: substr takes one character.
ExtractedOne(a, b) == IF a \in DOMAIN Hex THEN {Hex[a]} ELSE {}

\* istringstream >> hex >> value, of two characters: the number they begin with,
\* if any.  A sign may come first; "0x" is a prefix without a number.
Extracted(a, b) ==
    IF a \in {"+", "-"}
    THEN {IF a = "+" THEN Hex[digit] ELSE -Hex[digit] : digit \in {b} \cap DOMAIN Hex}
    ELSE IF a \notin DOMAIN Hex \/ <<a, b>> = <<"0", "x">> THEN {}
    ELSE IF b \in DOMAIN Hex THEN {16 * Hex[a] + Hex[b]}
    ELSE {Hex[a]}

\* url_decode: {} where it returns false, else what out is.
UrlDecode(in) ==
    LET from[i \in 1..(Len(in) + 1)] ==
          IF i > Len(in) THEN {<<>>}
          ELSE IF in[i] # "%"
               THEN {<<IF in[i] = "+" THEN SP ELSE in[i]>> \o rest : rest \in from[i + 1]}
          ELSE IF i + 2 > Len(in) THEN {}
          ELSE {<<Char(value)>> \o rest :
                    value \in Extracted(in[i + 1], in[i + 2]), rest \in from[i + 3]}
    IN  from[1]

Absolute(path)  == path # <<>> /\ path[1] = "/"
HasDotDot(path) == \E i \in 1..(Len(path) - 1) : path[i] = "." /\ path[i + 1] = "."

\* A path that ends in a slash names the index of a directory.
WithIndex(path) == IF Last(path) = "/" THEN path \o <<"index", ".", "html">> ELSE path

\* Where a character last is, 0 if it is not.
FindLastOf(path, c) == SelectLastInSeq(path, LAMBDA d : d = c)

\* Mutant: the first dot after the slash.
ExtensionFirstDot(path) ==
    LET name == SubSeq(path, FindLastOf(path, "/") + 1, Len(path))
        dot  == SelectInSeq(name, LAMBDA d : d = ".")
    IN  IF dot > 0 THEN SubSeq(name, dot + 1, Len(name)) ELSE <<>>

Extension(path) ==
    LET dot == FindLastOf(path, ".")
    IN  IF dot > FindLastOf(path, "/") THEN SubSeq(path, dot + 1, Len(path)) ELSE <<>>

\* mappings: "f" stands for the extensions of the other types.
Mappings ==
    [extension \in {<<"html">>, <<"f">>} |->
        IF extension = <<"html">> THEN "text/html" ELSE "image/gif"]

ExtensionToType(extension) ==
    IF extension \in DOMAIN Mappings THEN Mappings[extension] ELSE "text/plain"

\* c_str: a name goes no further than a zero.
CStr(path) ==
    LET zero == SelectInSeq(path, LAMBDA d : d = "nul")
    IN  IF zero = 0 THEN path ELSE SubSeq(path, 1, zero - 1)

-----------------------------------------------------------------------------
(* Replies.  A word, a tag or a number is one unit of the text.            *)

Statuses ==
    {"ok", "created", "accepted", "no_content", "multiple_choices", "moved_permanently",
     "moved_temporarily", "not_modified", "bad_request", "unauthorized", "forbidden",
     "not_found", "internal_server_error", "not_implemented", "bad_gateway",
     "service_unavailable"}

Known(status) == IF status \in Statuses THEN status ELSE "internal_server_error"

StatusLine(status) == <<"HTTP/1.0", Known(status), CR, LF>>

NameValueSeparator == ": "

StockContent(status) ==
    IF status = "ok" THEN <<>>
    ELSE <<"<html><head><title>", Known(status), "</title></head><body><h1>",
           Known(status), "</h1></body></html>">>

Headers(size, type) ==
    <<[name |-> "Content-Length", value |-> ToString(size)],
      [name |-> "Content-Type", value |-> type]>>

\* Mutant: the size of the array, with the zero that ends it.
StockReplySizeof(status) ==
    [status  |-> status, content |-> StockContent(status),
     headers |-> Headers(Len(StockContent(status)) + 1, "text/html")]

StockReply(status) ==
    [status  |-> status, content |-> StockContent(status),
     headers |-> Headers(Len(StockContent(status)), "text/html")]

ToBuffers(rep) ==
    StatusLine(rep.status)
    \o FlattenSeq([i \in DOMAIN rep.headers |->
                     <<rep.headers[i].name, NameValueSeparator, rep.headers[i].value, CR, LF>>])
    \o <<CR, LF>> \o rep.content

-----------------------------------------------------------------------------
NoReply == [status |-> "none", headers |-> <<>>, content |-> <<>>]

InitHandler == Init /\ reply = NoReply /\ opened = {}

\* What a file may hold: one that looks like the end of headers, or nothing, as
\* a directory does too.
Files == {<<>>, <<CR, LF, CR, LF>>}

Refuse(status) == reply' = StockReply(status)

\* Mutant: the uri is checked before it is decoded.
ServableUndecoded(uri) == {path \in UrlDecode(uri) : Absolute(path) /\ ~HasDotDot(uri)}

\* The path a uri is decoded to, unless the request is refused for it.
Servable(uri) == {path \in UrlDecode(uri) : Absolute(path) /\ ~HasDotDot(path)}

HandleRequest(r) ==
    IF Servable(r.uri) = {} THEN Refuse("bad_request") /\ opened' = {}
    ELSE \E path \in {WithIndex(path) : path \in Servable(r.uri)} :
           /\ opened' = {CStr(path)}
           /\ \/ Refuse("not_found")
              \/ \E content \in Files :
                   reply' = [status |-> "ok", content |-> content,
                             headers |-> Headers(Len(content),
                                                 ExtensionToType(Extension(path)))]

\* The handler of do_read, once parse has returned.
Respond ==
    CASE result' = "good" -> HandleRequest(req')
      [] result' = "bad"  -> Refuse("bad_request") /\ UNCHANGED opened
      [] OTHER            -> UNCHANGED <<reply, opened>>

PlainEnd == <<SP, "H", "T", "T", "P", "/", "1", ".", "0", CR, LF, CR, LF>>

\* What may come next of a uri that names a path, and after it.
UriTexts ==
    IF req.uri = <<>> THEN {<<"/">>, <<"%", "2", "f">>}
    ELSE IF req.uri[1] \notin {"/", "%"} THEN {}
    ELSE IF Len(req.uri) >= MaxUri THEN {PlainEnd}
    ELSE {PlainEnd} \cup {<<c>> : c \in {"/", ".", "%", "+", "-", "x"} \cup DOMAIN Hex}

\* Requests of every shape, with short texts in them; and plain requests for a
\* path, with every character that matters to its decoding.
NextHandler ==
    \/ \E c \in Chars(state) : Some(c) /\ Respond
    \/ /\ state = "uri" /\ req.method = <<"x">>
       /\ \E text \in UriTexts : Parse(text) /\ Respond

HandlerSpec == InitHandler /\ [][NextHandler]_handlerVars

-----------------------------------------------------------------------------
(* What a uri means, and what a reader of the reply makes of it.           *)

WellEncoded(uri) ==
    \A i \in DOMAIN uri : uri[i] = "%" =>
        i + 2 <= Len(uri) /\ {uri[i + 1], uri[i + 2]} \subseteq DOMAIN Hex

\* Where a character of the text begins: not within a code.
Begins(uri) ==
    {i \in DOMAIN uri : \A j \in {i - 1, i - 2} \cap DOMAIN uri : uri[j] # "%"}

\* The text, character by character in the order they begin.
Meant(uri) ==
    LET at(k) == Kth(Begins(uri), k)
    IN  [k \in 1..Cardinality(Begins(uri)) |->
           CASE uri[at(k)] = "%" -> Char(16 * Hex[uri[at(k) + 1]] + Hex[uri[at(k) + 2]])
             [] uri[at(k)] = "+" -> SP
             [] OTHER            -> uri[at(k)]]

\* The parts of a path between its slashes: where each begins and ends.
Parts(path) ==
    {p \in (1..Len(path)) \X (1..Len(path)) :
        /\ p[1] <= p[2] /\ \A i \in p[1]..p[2] : path[i] # "/"
        /\ p[1] = 1 \/ path[p[1] - 1] = "/"
        /\ p[2] = Len(path) \/ path[p[2] + 1] = "/"}

Part(path, p) == SubSeq(path, p[1], p[2])

\* From the left, a path has never gone up more often than down.
StaysInside(path) ==
    \A last \in Parts(path) :
        LET first == {p \in Parts(path) : p[1] <= last[1]}
        IN  Cardinality({p \in first : Part(path, p) = <<".", ".">>})
              <= Cardinality({p \in first : Part(path, p) \notin {<<".">>, <<".", ".">>}})

-----------------------------------------------------------------------------
\* handle_request opens, for a uri whose every "%" is followed by two hex
\* digits, the file its decoded text names, if that is absolute and without
\* "..", and refuses every other: whatever pieces the uri arrived in.
FileIsMeant ==
    result = "good" /\ WellEncoded(req.uri) =>
        LET path == Meant(req.uri)
        IN  /\ opened = IF Absolute(path) /\ ~HasDotDot(path) THEN {CStr(WithIndex(path))} ELSE {}
            /\ (opened = {}) <=> (reply.status = "bad_request")

\* Nothing outside the document root is opened, however the uri writes its dots
\* and slashes: appended to doc_root_ the name goes on in it, and never up and
\* out of it.
PathStaysInside == \A path \in opened : Absolute(path) /\ StaysInside(path)

\* The type a reply gives is that of the file it sends, told by the end of the
\* file's own name.  A uri with an encoded zero is left out: the file is then
\* named by what precedes the zero, the type by what follows it.
TypeIsOfFile ==
    reply.status = "ok" /\ ~(\E path \in UrlDecode(req.uri) : "nul" \in Range(path)) =>
        \A path \in opened, extension \in DOMAIN Mappings :
            IsSuffix(<<".">> \o extension, path)
              <=> reply.headers[2].value = Mappings[extension]

\* A reader of what to_buffers makes finds the headers' end where it is, and after
\* it as much content as Content-Length says, even if the content itself looks
\* like an end of headers.
ReplyIsFramed ==
    reply # NoReply =>
        LET wire == ToBuffers(reply)
            end  == Min({i \in 4..Len(wire) : SubSeq(wire, i - 3, i) = <<CR, LF, CR, LF>>})
            said == {wire[i + 2] : i \in {j \in 1..end : wire[j] = "Content-Length"
                                                      /\ wire[j + 1] = NameValueSeparator}}
        IN  said = {ToString(Len(wire) - end)}

=============================================================================
