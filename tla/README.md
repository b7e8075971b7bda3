# join_server in TLA+

Specifications, model-checking configurations and machine-checked proofs for
`join_server`: a TCP server (C++14, asio 1.10.6) that is to keep two tables, `A`
and `B`, and answer `INSERT`, `TRUNCATE`, `INTERSECTION` and
`SYMMETRIC_DIFFERENCE`. Paths below are relative to the repository's root.

## The system

| part | state | operations | talks to |
|---|---|---|---|
| `Storage` (`src/storage.cpp`) | `tables_` (a vector of sets ordered by id), `names_` (name to reference into it), mutex `m_` | constructor (`add_table` twice), `insert`, `truncate`, `intersection`, `symmetric_difference` | called under its own lock |
| commands, printers, `Processor` (`include/commands.h`, `include/resultprinter.h`, `src/processor.cpp`) | none | `CommandFactory::create`, `run`, `print`, `execute` | is given the storage, never calls it |
| `Session` (`src/server.cpp`) | `streambuf_`, `reply_`, its socket | `start`, `prompt`, `do_read` and its handler, `do_write` and its handler | asio, `Processor::execute` |
| `Server` (`src/server.cpp`) | `acceptor_`, `socket_`, `session_` | `do_accept` and its handler | asio, creates and starts sessions |
| `main` (`src/main.cpp`) | owns all of it | run the `io_service`, stop it on SIGINT or SIGTERM | |
| HTTP example (`example/server`) | `request_parser`: its state and request; `connection`: socket, buffer, request, reply; `connection_manager`: its set; `server`: acceptor, signals; `request_handler`: `doc_root_` | `consume`, `parse`; `do_read`, `do_write`, `start`, `stop`, `stop_all`, `do_accept`, `do_await_stop` and the handlers; `handle_request`, `url_decode`, `stock_reply`, `to_buffers` | asio, files |

One thread runs every handler (`io_service.run()` in `main`), so handlers do not
interleave; what interleaves is their *order*: completions of several reads on
one buffer, of several writes from one string, with whatever the clients and
the network do in between. The storage locks for callers on several threads,
which is how its interface and the README's requirements present it, although
the commands do not call it yet.

Not part of the server: the interpreter (used by tests only), the generic
factory, singleton and command factory headers (used by nothing) and the sandbox.
`example/server`, asio's HTTP example, is in no target either; it is modelled as
the pattern `Server` and `Session` were cut down from: it shows what they lack.

### What is hard here

* References into a vector that grows (`add_table`).
* One `streambuf_` under several concurrent `async_read_until`: each prepares
  an address in the put area, each searches from where it last looked, and the
  position it reports may be stale when its handler runs.
* One `reply_` under several writes, each of which holds a pointer into it, and is
  a loop of sends: after a short one its rest waits behind what was written since.
* Which operations are outstanding at all: nothing but a completed write starts
  a read, and nothing but an executed command starts a write.
* Handlers that hold a plain `this`, and sessions that are never given up.
* In the HTTP example: completions that are already queued when a signal closes
  everything, and connections given up by two handlers.
* A path that is checked, decoded, opened and given a type from strings that are
  not all the same.
* End of input, resets, slow readers, lines in pieces, several lines at once.

The list with lines is `hazards` in `PROJECT.json`.

## Modules

| module | models | how |
|---|---|---|
| `JoinRows` | records, rows and the pure helpers of `storage.cpp` | a table is a set of records; `Answer` says what a set operation means without keys |
| `Storage` | `class Storage` called by threads | `Lock`, then the statements of each method; `ExtractKeys` goes table by table and `FillResult` key by key; a name refers to an address `<<block, index>>` |
| `AtomicStore` | nothing: the promise to a caller | every call takes effect in one step |
| `StorageRefinement` | | `AtomicStore` instantiated with the tables of the vector, the call and the answer of each thread |
| `Commands` | factory, commands, printers, processor | one operator, `Execute(line)` |
| `Streambuf` | `asio::streambuf` (external) | a block of memory with the offsets of the get and put areas |
| `Session` | `class Session`, one connection, its client | the session and its socket are one record; a handler is an operator from record to record, since one handler calls the next; the actions are the reactor's steps and the client's |
| `CommandPrompt` | nothing: the promise to a user who awaits each prompt | a command is executed once, when all before it has been said; what is said is a growing prefix of one dialogue |
| `SessionRefinement` | | `CommandPrompt` instantiated with what the client sent, the session heard and the wire holds; a word is said when the socket has taken its first byte, and is another word if any byte of it is not its own |
| `Server` | `class Server` and `main` | the accept loop, the vector of sessions, stop and destruction |
| `RequestParser` | `request_parser` | its state machine over classes of characters; the reference is a grammar of whole texts, `IsRequest`, which says of positions in the text where its lines and their parts end, and `Meaning`, the request a text says |
| `RequestHandler` | `request_handler`, `reply`, `mime_types`, composed with the parser | a pure function from a request and a way to find files to a reply; when the parser has decided, `Respond` is the handler of the read |
| `HttpServer` | `server`, `connection_manager`, `connection` | `io` is what asio and the kernel hold (handlers to call, waiting operations, open descriptors, what clients sent); an asynchronous call is an operator from `io` to `io`, a handler an action |
| `MCStorage`, `MCSession` | | values for TLC |
| `StorageProofs`, `SessionProofs`, `SessionRefinementProofs`, `ServerProofs`, `HttpServerProofs`, `RequestParserProofs`, `RequestMeaningProofs`, `RequestHandlerProofs` | | lemmas, theorems and proofs |

`PROJECT.json` maps each definition to the lines it stands for. Definitions whose
comment begins with *Mutant* are the faulty variants the properties are tested
against, and are used by nothing.

**Storage.** The constructor's second `emplace_back` moves the vector to a new
block. The reference that `names_` has for `A` then dangles, and using it is
undefined behaviour. The model has the outcomes of the build: as long as the
freed block is untouched it still holds the bytes of an empty `std::set`, which
works as a private table; once the allocator has handed the block out
(`ReuseFreedBlock`) a call through it answers anything or crashes (`Wild`).

**Session.** `async_read_until` and the reactor are external and are modelled as
far as the order and the content of completions depend on them: an operation is
tried at once when none of its kind is waiting; a reported descriptor has its
waiting operations tried in order, the first one completed is dispatched at once
and the others join the queue; a `read_until` that finds its delimiter present
completes through the queue with the position found then. `ContinueRead`, which
resumes the search, includes the assertion `start_pos <= size`.
`async_write` is a loop of sends: a send takes as many bytes as there is room for
(`Transmit`), and the rest goes to the end of the line of waiting writes
(`ContinueWrite`). It takes what `reply_` holds *then*, byte by byte: `reply` says
of each byte of the string which word it is of, and a byte that is no longer of the
word its write was started with goes out as `Garbled`.

Abstractions. What is read is bytes: a line is a sequence of them followed by
`Newline`. What is written is known by its place: byte 3 of the second word. All
replies are `ReplyLength` bytes long (14 to 16 in the code, newline included), a
prompt two. Sizes are scaled: a new buffer has 1 byte (asio: 128) and a read asks
for at least 4 or 8 (512). `reply_` moves to the heap the first time
`TruncatePrinter` outgrows the string's own 15 characters; what that does to a
write that waits is left out. The end of the string the read's handler builds is
an iterator moved `bytes_transferred` from the start and one back. A Debug build
asserts that it stays in the buffer. In a Release build it stops at the end of a
shorter buffer before it goes back; of an empty buffer it is undefined
behaviour, for which the model has what lies in the memory behind, and a crash
(`WildIterator`). A read that was given a block since freed writes into memory
that is not its own: nothing is noticed, or the process crashes (`WildRead`).

**Server.** Module `Session` says what happens inside a session; here a session
is its place in `session_`, its descriptor and the fact that a handler of it
runs. Sessions share nothing but the thread, so the two modules compose by
interleaving.

**HTTP example.** In `RequestParser` a character stands for its class: `x` a
letter, `:` a special, `ctl` a control character, `high` a byte above 127,
negative as a `char`. All of a version's digits are `0` and `1`. In
`RequestHandler` the characters are those a path is decoded and checked by, so
`x` stands for every other; which files there are is open (each step chooses
whether the file opens), and what matters of a content is whether it looks like
an end of headers. In `HttpServer` the parser's three results are two, since a
good and a bad request are both answered; a reply is sent in up to `Pieces`
sends; an operation on a closed descriptor fails, one that waits when its
descriptor is closed is aborted, and one that has completed keeps its result, as
in asio.

## What TLC checks

`tlc -config X.cfg M` in this directory.

| cfg, module | shows | bounds |
|---|---|---|
| `MCStorage`, `MCStorage` | types; unique ids in tables and results; a set operation answers for one instant; only TRUNCATE removes a row; linearizability; the mutex is released; table A of the vector is never reached | 2 threads, ids 0 and 1, two names, tables A, B and an unknown one; 312,014 states |
| `MCStorageNamed` (violation) | rows inserted into `A` are not in the answers | as above, one name |
| `MCSessionPolite`, `MCSession` | a client that awaits each prompt, sends whole lines and may close is heard as it sent, reads whole and intact replies, is answered; the session implements `CommandPrompt`; no read has lost its buffer; no assertion fails; the count of outstanding operations balances, closing and reset included | 6 lines of two kinds (known and unknown command), so up to eight reads on one buffer; 92,328 states |
| `MCSessionHostile`, `MCSession` | pipelining, split and blank lines, a reader so slow that every kind of word is sent in parts and words interleave: the buffer's areas stay in its block, the count of outstanding operations balances, words begin in the order of the commands and no byte of them is lost before a later one, or sent twice | 2 lines of one byte, a socket that holds three bytes, Release build; 802,887 states |
| `MCSessionBlank`, `Split`, `Assert`, `Garbled` (violations) | see *Findings* | 3 blank lines; 1 line in two pieces; 2 lines; 1 line |
| `MCServer`, `Server` | handlers only for existing sessions; one accept outstanding; every connection in one place; service while descriptors last; a signal ends `main` | 3 clients, 2 descriptors, so the accept fails too; 8,734 states |
| `MCServerLeak` (violation) | clients one at a time exhaust the descriptors | 3 clients, 2 descriptors, 1 connected at a time |
| `MCRequestParser`, `RequestHandler` | at every character the verdict is the grammar's: good for a request, indeterminate for what can become one, bad for the rest; the request kept is the one the text says; `headers.back()` is never of an empty vector; the file opened is the one the uri means and below the root, and its type is that of its name; a reader of the reply finds its end where `Content-Length` says | texts of up to 24 characters, one header, text of one character each; paths of up to 6 characters; 786,373 states |
| `MCHttpServer`, `HttpServer` | one operation per connection; sockets, connection objects and the manager agree; one accept outstanding; a reply is sent whole; every client served in its turn; every whole request answered; a signal ends the run | 2 clients, 1 or 2 descriptors, replies of 2 pieces; 55,152 states |

Why the bounds are enough. *Storage*: all interleaving is between one thread
inside and others waiting; ids 0 and 1 include the id a fresh result row has;
the proofs below cover every size. *Session*: every command adds one outstanding
read, and no new pattern of reads appears after the buffer has reached its final
size, in the second command; a pipelining client needs two lines to have two reads
complete against each other, and a slow one a single line for two writes that take
turns: with two lines five words wait in one string. A socket with room for three
bytes is smaller than an answer and a prompt, and larger than either. A client that
pipelines and then closes is left to the theorems, which are about every client:
with closing a socket of three bytes is out of TLC's reach. *Server*: one descriptor more than the leak needs,
one client more than descriptors. *RequestParser*: 15 characters are the shortest
request, 5 more a header, 4 more a line that continues it; texts are cut at the
first character too many of a part, after which the machine is in a state it
has been in before. *RequestHandler*: a path of 6 holds a slash, an escape of three
characters and a dot on either side of it, or two dots between two slashes.
*HttpServer*: with one descriptor the accept fails and is
begun again while a connection is still to be given up, with two both connections
are there when the signal comes.

Every property has a mutant (`PROJECT.json`): a small change of one mapped
definition, such as a missing lock or a read not restarted, that makes TLC report it.

### Fairness

* `Storage`: a thread that is past `Lock` runs on (weak fairness of `Run`).
  Nothing is assumed of who gets the mutex, so no thread is promised its turn.
* `Session`: the thread runs the handlers there are, the kernel accepts and
  reports readiness (asio is edge-triggered and re-arms on each start), and the
  client reads what it is sent and ends the line it began. `ThreadIsFair` is
  `WF_vars(Running)` with the guard written out in place of `ENABLED`.
  Clients need not send, close or stay.
* `Server`: the thread runs on and the kernel reports connections; nobody has to
  connect or to send a signal.
* `HttpServer`: the same, and a read or a write that waits on a client that is
  gone is reported. A client may send nothing, take no reply and stay for ever;
  `EveryConnectionServed` makes an exception of those who hold every descriptor
  time and again, `EveryRequestAnswered` of a client that stops taking its reply
  for good: the code has no timeout for either.

Deadlock is not checked where the system may stop: a crashed process, a session
whose operations have run out, a `main` that has returned.

## Findings

1. `storage.cpp:69`, table `A` is lost: `names_["A"]` dangles from the
   constructor on. No INSERT into A is ever seen by a set operation
   (`MCStorageNamed`; `FirstTableLost` proves it for all parameters). The test
   `Storage_Test.Init` (`test_server.cpp:127`) checks that `n_tables()` is 2 and that
   inserts succeed, which they do on the lost table as well, and no set operation.
2. `server.cpp:76`, blank lines: each one leaves the session an operation fewer.
   When three arrive as one and two against two reads that wait, both reads end
   and nothing is outstanding: the session is deaf (`MCSessionBlank`).
3. `server.cpp:95`, concurrent reads: a command whose newline arrives by itself is
   never executed. A second read writes the newline over the command's first
   byte, or into a block since freed (`MCSessionSplit`).
4. `server.cpp:58`, concurrent reads: pipelined commands abort the Debug build
   (`MCSessionAssert`).
5. `server.cpp:87`, shared `reply_` and short sends: when the socket takes a part of a
   reply, the prompt follows that part, and what comes as its rest are bytes of a
   string overwritten meanwhile (`MCSessionGarbled`).
6. `server.cpp:116`, sessions are never released (`MCServerLeak`). The HTTP
   example, whose manager drops a connection on its first error, serves every
   client in its turn with one descriptor (`MCHttpServer`).

The first five and the polite run together say exactly how far the server can be
used: with a prompt-driven client, whole lines, and replies for which the socket has room, it
does what it should, except that the commands do not call the storage yet and
answer with the name of a printer.

Four smaller disagreements and oddities of the HTTP example came up with
`RequestHandler`. They are stated in the properties' comments rather than
as runs:

* `request_handler.hpp:39-40` says of `url_decode` "Returns false if the encoding
  was invalid". Two characters after a `%` are read as a number instead, so
  `%2x`, with one digit, and `%+2` and `%-1`, with a sign, are accepted.
* `%00` ends the name that is opened (`c_str`), not the one the type is taken
  from: `TypeIsOfFile` leaves such paths out and fails without that exception.
* Two dots anywhere in a path refuse it, as in `a..b`.
* A directory without a final slash opens, and gives an empty reply with status
  200.

## What is proved

Checked by `tlapm` (1.4.5), for every value of the constants, from the named
`ASSUME`s alone (`IdsAssumption`, `StorageAssumption`, `StreambufAssumption`,
`SessionAssumption`, `ServerAssumption`, `HttpServerAssumption`,
`ParserAssumption`, `UriAssumption`), and for `SessionRefinementProofs` from the
hypothesis `Polite` that its theorems state.

* `StorageProofs`: `TypeCorrect`, `SnapshotAnswers`, `PrimaryKeys`,
  `FirstTableLost` and the action property `OnlyTruncateRemoves`, from one
  inductive invariant, `IInv`. `AnswerIsSnapshot` is not inductive: it says
  something only at the end of a call. `IInv` adds (1) that a thread past `Lock`
  is the owner of the mutex, so that nobody else changes a table; (2) that the
  keys extracted so far are those of the tables now; (3) that the rows filled so
  far are the rows of the answer whose keys are no longer to do; (4) where each
  name points, before and after each `add_table`, so that a write through `A`
  goes to a block that is not the vector's. Its first part shows that a table
  filled from combined keys is the join or the disjoint rows stated on records
  (`FilledRowsAreTheAnswer`), which is where unique ids are needed.
  The module also proves the refinement, `StorageIsLinearizable`,
  `Spec => Linearizable`: the last step under the mutex is the abstract
  operation, everything else a stutter.
* `SessionProofs`: `TypeCorrect`, `OperationsBalance` and `WordsKeepOrder`, for
  *every* client (pipelining, splitting, blank lines, slow reading, closing, reset),
  every command set and every size of block, read and socket. A handler is an
  operator from record to record that calls the next, so there is a lemma per
  operator, those of the streambuf first, on what it does to three things, and the
  invariant, `IInv`, is their conjunction (`Sound`). (1) The areas are inside their
  block, a waiting region inside the block it was taken from, a write is of a word
  there is, and one that has completed of a word that has begun (`Wf`). (2) Every operation is waiting,
  queued or being run, counted once (`Work`), of which the queue may name a
  descriptor at most once for each kind it is reported for, or a count would be spent
  twice. (3) What was written is what the commands executed so far call for
  (`Spells`): the words started are the dialogue's in its order (`Scripted`); each
  byte on the wire belongs to its word or is garbled, and comes after the one
  before it (`Said`); and a word begins before the next because every word not yet
  begun waits (`Owed`), and in the line of waiting writes nothing but earlier
  words stands before it, whole or what is left of them (`Turns`).
* `SessionRefinementProofs`, for a polite client: `SessionKeepsPromise`
  (`Spec => KeepsPromise`, the refinement of `CommandPrompt`),
  `CommandsHeardAsSent`, `RepliesLeaveWhole`, `ReadsStayValid` and `ServerStaysUp`.
  `Polite` says that the client neither pipelines, splits nor sends blank lines,
  that a read asks for room for a whole line and that the socket has room for an
  answer and a prompt; it may close whenever it likes, its commands, the sizes and
  the build (assertions or not) are any. `MCSessionPolite` is an instance. None of
  the five properties is inductive, for none mentions where the reads stand. The
  invariant, `PInv`, is that of `SessionProofs` and, by how far the one line under
  way has got, `Calm`: between handlers the buffer is empty and *all* the reads that
  wait were given the whole block from its front (`Aligned`); a line that has
  arrived is whole and is the one command not yet executed (`Arrived`, `Underway`),
  so that the first read finds it (`Taken`) and the others then find nothing and wait
  again; every write is taken whole at once, before anything changes `reply_`
  (`Direct`), since the client awaits the prompt and so has made room by the time it
  sends. That no client has read two prompts is a count on the dialogue
  (`Prompts`). The step of the abstract specification is the execution of a
  command or the taking of words; all else stutters.
* `ServerProofs`: `TypeCorrect`, `HandlersAreOfSessions`, `OneAcceptOutstanding`
  and `ConnectionsHaveOnePlace`, for any number of clients and descriptors. The
  invariant, `IInv`, puts `OnePlace` in terms of what `backlog`, `session_` and
  `socket_` hold rather than where: each holds a connection once, no two the same,
  and together exactly those that were made (`Placed`). It needs `OneAccept`, for
  without it the handler could take a `socket_` that an accept under way has
  reset, and `OneAccept` needs the queue to hold at most one handler of the
  acceptor (`Balanced`).

* `HttpServerProofs`: `TypeCorrect`, `OneOperationEach`, `AllManaged`,
  `AlwaysAccepting` and the action property `NoHangUp`, for any number of clients,
  descriptors and pieces. The invariant, `IInv`, puts the counts of `OneOperation`
  as uniqueness (`Single`: no two operations, waiting or completed, are of one
  descriptor) so that no step has to count; `Counted` turns it back. It adds
  what each property needs of the others: that the manager's connections are busy
  and, with those whose accept is still queued, are exactly the open ones (`Kept`);
  that a client in the backlog or in a queued accept has no operation yet (`Fresh`),
  for otherwise the read begun by the accept's handler would be a second one; and
  that what was cancelled is closed and an error has a cause (`Caused`), for
  otherwise a handler that returns on `aborted` would leave a connection
  with nothing outstanding. The order in which closing cancels operations is
  any, and the lemma `Closing` holds of each.

* `RequestParserProofs`: the lemmas behind `ParserVerdict` (`RequestHandlerProofs`),
  that every verdict of `parse`, at every character of every text, is the
  grammar's. The verdict is about whole lines and the machine knows one character, so
  the invariant, `Sound`, says for each state what it knows of the text: the
  lines before the open one are lines of a request, the open one is a beginning of the
  first line, of a header or of a folded line that has come as far as the state says
  (`Leading`), and there is a header if a line may be folded into one (`Knows`).
  That is kept by a character that the machine takes (`Advances` within a
  line, `Completes` at the end of one). What remains is that the machine gives up no
  sooner and no later than it should: if a longer text is a request, the next
  character of the open line is one the machine takes (`RequestGoesOn`, by the uniqueness
  of where the parts of a line end), so that a text it refuses has no future; and from
  every state one of the two `Tails` leads to the end of a request (`Ends`),
  so that a text it has not refused has one.

* `RequestMeaningProofs`: the lemmas behind `RequestsAreMeant` (`RequestHandlerProofs`),
  that the request kept when the verdict is good is the one its text says: method, uri,
  the two numbers of the version, and every header with the lines folded into it. That
  says something only at the end of a text, so the invariant adds to `Sound` what
  has been kept at every character before it (`Means`): while the first line is open,
  the parts of it that have been read, in each state up to the position it has come to
  (`KeptFirst`); after it (`FirstMeant`), the headers of the lines closed so far,
  `Hs(text)`, and of the open line what its state has already appended to the last of
  them (`KeptLater`). Four things carry it. The parts of a line are in one place only, so
  what was read there is what the grammar's `CHOOSE`s find. The headers
  of a text one character longer are the same, unless it ends a line: then one
  header more, or the last one longer by what was folded into it (`HsThen`). The k-th of a
  set of positions, of which the grammar makes both the list of headers and the
  text of a value, is found by counting (`Rank`), and a position past all others
  comes last (`PickedOn`). And a number is
  the fold over its digits that the machine makes one digit at a time. `Sound` and
  `Means` together, `Faithful`, are kept by a character (`ConsumedFaithful`), stay
  as they are once there is a verdict (`FaithfulStays`), and are kept by
  `Parse`, a fold over the characters of a read, by the argument about least
  positions below (`ParseFaithful`).

* `RequestHandlerProofs`: `ParserVerdict`, `RequestsAreMeant`, `HeaderExists`, `FilesAreMeant`, `NothingOutside`,
  `TypesAreOfFiles` and `RepliesAreFramed`, for texts and uris of any length (the bounds in the model's
  inputs play no part). What parsing and decoding compute is a recursive function
  over the text; that each of its values is as it should be is shown by taking the
  least position where it is not (`UpTo`, from the well-foundedness of `<`), for
  `FoldLeft` and for `UrlDecode` alike, after a lemma that the function exists at
  all (`FoldExists`, `DecodesExists`). The invariant, `IInv`: within a header there
  is a header (`Machines`); the path opened is absolute and without two dots in a
  row, an index appended or cut at a zero (`Rooted`), from which it cannot go up;
  a reply carries its two headers, the first being the length of its content
  (`Labelling`); a whole request is
  refused, or a path it decodes to is opened and, if the file is sent, gives its
  type (`Matching`), which no later step can change. For the parser's two theorems
  `VInv` adds to it that the machine is `Faithful` to the text it has read. That a well-encoded uri decodes
  to the one text it means (`UrlDecodeIs`) counts the positions where a character
  begins: each step of the decoding goes from one to the next. The reply's
  bytes are laid out unit by unit (`Wire`), so that the first empty line is the
  sixteenth unit.

`NothingOutside` is about every uri the specification generates: those that begin with a slash,
written plainly or as `%2f`, and go on in any way, and those of one class of character.
Others name no absolute path, and the handler refuses them.

Every safety invariant and action property of the passing runs is stated by one of these
theorems. Model-checked only: the liveness properties (`HolderReleases`,
`EveryCommandAnswered`, `SignalEndsMain`, `ServedWhileTheyLast`,
`EveryConnectionServed`, `EveryRequestAnswered`, `SignalEndsRun`), since liveness
under fairness and `ENABLED` are beyond the prover.

## Not modelled

* The logger: output the program does not read.
* The interpreter: regular expressions, used by tests only, and `any_of` over
  them; `std::regex` does the work. The generic factory and the singleton: templates
  no code uses.
* The sandbox, two experiments that share no code with the server.
  `state_machine.cpp` is a table and a loop on input; it has two defects that
  need no model to see: `input + 1` wraps for the largest `size_t`, so the check
  lets it through, and nothing ends the loop at the end of the input.
  `async_read_until.cpp:38` asserts that two writes arrive in one read.
* Argument parsing, and the port, an `atoi` into a signed `short` that the endpoint
  converts back.
* Memory exhaustion and the exceptions it would raise; several threads in
  `io_service::run` (the code starts one).
* The digits of an HTTP version, which overflow an `int` nothing reads; that
  a line or a request may be of any length and take any time (no code limits it,
  so there is no promise to check).

## Plan

Done: storage with its refinement and proofs; commands and session with its
refinement, proofs for every client and, of the refinement, for a polite one; server
with its proofs; the HTTP example's parser, handler and replies with proofs of their
safety; its connections with their proofs; the parser's verdict and the request
it keeps proved to be its grammar's.

Left: that `Session` and `Server` compose: a server of several sessions keeps the
promise of each.
