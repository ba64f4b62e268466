# armature-h1 in TLA+

This directory models armature-h1, a thread-per-core HTTP/1.1 server: the worker
threads with the counters and channels they share, the dispatch of an accepted
connection, the native connection loop and the request bodies that share its
transport, the hyper backend with its phase clock and watchdog, the head scanner,
head parsing and the framing decision, the writing of response heads, the chunked
decoder and the per-connection timer. Paths below are relative to the repository
(`src/conn.rs` and so on).

* `*.tla` without prefix: one module per component, with its properties.
* `MC*.tla`, `MC*.cfg`: small instances for TLC.
* `*Proofs.tla`, `ConnectionBytes.tla`: theorems and lemmas checked by TLAPS.
* `PROJECT.json`: which definition models which lines, the runs, a mutant for
  every property, hazards, findings and theorems.

## Inventory

| Component | State it keeps | Operations | Hard part | Correct when |
|---|---|---|---|---|
| Connection loop, `src/conn.rs` | read buffer, scan cursor, owed 100 Continue, response buffer `out`, held output, deadlines | read a head, dispatch, race handler with deadlines, write a response or an error, flush, hand off an upgrade | three writers on one transport; bodies that outlive their handler; handlers that panic, stall or stash; pipelining | heads are found where requests begin; responses leave whole and in order; nobody waits on a silent peer for ever |
| Request bodies, `src/service.rs` | bytes taken from the connection, length still owed, decoder, done/fully-read flags, generation | poll a chunk, collect, finish, fail, drop | reads through the connection's own buffer, gives residue back; may be polled from another task | no byte lost or read twice; end and failure are published to the loop, and only by the current body |
| Chunked decoder, `src/chunked.rs` | state, rest of the chunk, totals, trailers | one turn per size line, data, CRLF, trailer | input cut anywhere; limits checked with and without the terminator | same result for every packetization; what the sender framed is what is decoded |
| Head parsing, `src/parse.rs`, `src/head.rs` | cached splits of the target | find the head's end, prescan, parse, replace the target | resumed search (in `conn.rs`); lenient readers up and down the line | a resumed search equals a full one; one set of lines; the splits fit the target |
| Framing, `src/framing.rs` | none | decide a body's framing | conflicting, repeated and malformed fields; two names for one request | one framing and one authority, whoever reads, or a refusal |
| Deadlines, `src/deadline.rs` | timer instant, logical target | arm, disarm, poll | timer moved lazily | as if every arm moved the timer |
| Server and workers, `src/server.rs` | per-worker counts, inboxes, slot-freed permits, a held connection, shutdown flag | spawn, accept, place, hand off, adopt, release, drain, join | atomics and channels across threads; start-up and shutdown at any moment | counts exact; caps held; no accepted connection lost; serve returns when told to |
| Dispatch, TLS, `src/server.rs`, `src/tls.rs` | peeked bytes, handshake | peek a preface, handshake, route | a peer that dribbles | every wait before serving is bounded; no byte lost at a handover |
| Response writing, `src/write.rs` | date cache | write a head, chunks | which framing fields reach the wire | the peer reads the body that was sent, and the fate of the connection as it is |
| Hyper backend, `src/backend/hyper` | phase clock with its flags, watchdog deadline, read-ahead, a request body in raw mode, a response being encoded | report reads, writes and flushes, call the bridge, convert heads, watch, answer 408, hand off an upgrade | deadlines inferred from outside hyper; a 408 written by hand beside it | every wait has its own deadline; one final response each; same answers as the native loop |
| Names, methods, byte strings, limits | tables | look-ups, checks | none that is stateful | |

How they interact: a worker thread accepts a socket, reserves a slot on itself or
on another worker (a compare-and-swap on a shared counter), and serves it or sends
it through that worker's channel. `dispatch` then negotiates TLS or peeks for an
h2c preface and serves the connection with the backend chosen at compile time, on
the worker's current-thread runtime. The native connection calls the handler with a `Body`
that shares the connection's `IoState` by reference counting: the body takes
bytes from the connection's buffer, reads the socket itself, writes the
100 Continue, puts back what it over-read, and signals that it is finished. The
connection owns one `ConnDeadline` (two with a handler timeout) and re-arms it
for every phase. The hyper backend instead gives hyper an IO adapter and a service
that report to a `PhaseClock`, and races hyper's future with a watchdog that turns
the clock into deadlines; both backends share `decide`, `Body`, the staleness rules
for response fields and the error responses.

## Modules

**`Deadline`** models `ConnDeadline`. State: the timer's instant (`sleep`), the
logical `target`, whether a waker is registered, whether the owning task runs.
`Arm`, `Disarm`, `Poll`/`PollDisarmed` are the methods; `round_up` and the checked
addition keep their saturation. tokio's `Sleep` is external: it fires from its
instant on and wakes whoever polled it last. **`EagerDeadline`** is what the module
comment promises, a deadline without a timer; `ImplementsEager` states the
refinement.

**`HeadScanner`** models `buf`, `scanned` and `head_end` byte by byte with every
operation that touches them: reads, `has_complete_head` (blank lines dropped under
the cursor), the split of the head, `take_buffered`, `poll_fill`, `push_back`.

**`Connection`** models `serve` and all it calls, together with `Body`. The peer's
stream is a sequence of units (blank line, head line, head end, body data, end of a
chunked body, a malformed chunk, post-upgrade bytes), each tagged with its request,
and a buffer is the sequence of stream positions it holds, so losing, duplicating
or reordering a byte is visible. Body data looks like a head terminator to the
scanner, so a loop that searches inside a body finds one. The program counter `pc`
names the await points and the straight-line stretches between them; a Body may be
polled by the handler, by the response stream it moved to, or by any other task
whenever the loop awaits. Handlers and streams are arbitrary. Deadlines may expire
whenever the code polls them armed; their timing is `Deadline`'s subject.
Header contents are abstracted to the facts the loop branches on. The peer is
arbitrary but for the end of its stream: another protocol's bytes follow its last
request only (`LastAssumption`, `UpgradeAssumption`).

**`RequestHead`** holds the pure operators on a head: the request-target checks, the
target's splits that `Head` caches and its accessors, and the authority grammar, over
byte classes and whole words. **`Framing`** extends it with `prescan`, the two-tier
parse, `check_authority` and `decide`, and a small state machine for a head's way
through `serve`: `Parse`, `Decide`, and a handler's `set_target`. Its properties
compare the verdict with what readers of other habits make of the same head. In
`Connection` all of this is a request's attributes, or a refused head.

**`ResponseHead`** extends `Framing` with what becomes of a handler's response:
`write_response`'s decisions (an impossible status replaced, keep-alive, upgrade,
close-delimited bodies) and `write_head_for`, which decides what is stale
(`stale_transfer_encoding`, `stale_content_length`), makes something or nothing of each of
the handler's fields (`Emit`) and adds its own. `Respond` takes an accepted request to an
answer. `Reads`, `Tokens` and `ReadsPersistence` are a peer's reading of it: the last
coding that is not an empty element decides, then a single length, then the close.
**`Bridge`** extends that with the same way through the hyper backend: `convert_head`
before `decide`, `Bridge::call`'s decisions and `convert_response`. What comes before and
after them is external, and modelled from how the bridge uses it and from `BACKENDS.md`.
`HyperHead` is the head that hyper hands over: http::Uri has cut a fragment off its
target, put the scheme's name in lower case and given an absolute target without a path a
slash (`UriTarget`), and hyper has removed a `Content-Length` beside a chunked coding
(`HyperFields`). `HyperFraming` is the framing field that hyper adds from the body's size
hint; to a 2xx to CONNECT, which it takes for a tunnel, it adds none, and does not use the
connection again. `BackendsAgree` compares the two backends.

**`PhaseClock`** is the hyper backend's clock as operators on a record, one per
method, and the watchdog's reading of it: what it arms (`ArmFor`), and what an expiry
means (`Verdict`: look again, park, give up). Instants are kept relative to now, and
the generation as "moved since the watchdog looked". **`Dispatch`** is `dispatch` and
`peek_preface`: one deadline for the whole handshake or preface, and the bytes read to
find out handed on. **`HyperBackend`** composes both with hyper's future: the IO
adapter's reads, writes and flushes, the bridge's calls (`CallService` waits in
`leave_write` while an earlier response is being written), the request body in raw
mode, the response body polled as hyper has room, `Expires` (which drops hyper's
buffers) and `Answers` (the 408 with its own deadline). hyper is external and
unconstrained where its documentation is: it reads ahead as it likes, may send its
100 Continue at any moment while the body is awaited, calls for the next head once
the response before it is buffered. Time is explicit: `Tick` ages every deadline, and
what is ready to run runs first. The history variables `waited`, `bodyAge` and `lapsed`
say for how long the connection has been waiting for what it now waits for, told from
what happened on the wire and never from the clock under test.

**`Chunked`** models `ChunkedDecoder::poll` one turn of its loop at a time, over
byte classes: hex digits, token characters, delimiters, quotes, blank, CR, LF. The
decoder is a pure step on a record; the same step is repeated over the whole stream
(`OneShot`) to have a one-piece reference to compare every packetization with. `Laid`
says what it is for a sender to lay a body out in chunks and trailers.

**`Pool`** models `serve_with`, the worker loops and `Balance`. Between two labels
a worker touches shared state once, so workers interleave between every load,
compare-and-swap, store and channel operation; a send is two steps (the open check,
then the message landing), as in tokio's channel. Connection tasks run only while
their worker's loop awaits. Counts are words of width `UMAX`. Connections are
opaque; that they end is the `Connection` module's business.

## Runs

| Run | Instance | What it checks |
|---|---|---|
| `deadline` | tick 2, durations 0, 1, 3, 4 and one that saturates, clock to 12 | never late, never early, refinement of `EagerDeadline`, every armed deadline reported |
| `scanner` | all buffers up to 9 bytes over CR, LF, x; reads of 1 or 2 | resumed search = full search |
| `connection` | up to three pipelined requests, both framings, blank lines, refused and oversized heads, malformed chunks, 100 Continue, upgrades, streams, HTTP/1.0, HEAD, impossible statuses, all timeouts; reads of up to 5 units | head positions, byte conservation, one reader, wire order, nothing held back, finished responses survive panics, clean upgrade, and liveness: the peer cannot hold the connection |
| `hyper` | TLS and preface dispatch; two pipelined requests, refused by hyper or the bridge too, or with a body behind a streamed response; bodies awaited, failed, dropped, kept or read by the response; upgrades; HTTP/1.0 and HEAD; timeouts 3 (head), 4 (idle), 2 (body), 1 (write) | every wait is bounded by its own deadline and cut by no other; one final response per request; no byte lost at a handover |
| `interim` | one request whose body is late, a 100 Continue in two pieces | finding, see below |
| `pool` | 2 workers, limit 0 (one slot each), 4 connections, full start-up and shutdown | exact counts, caps, retirement, one unplaced connection, nobody stranded, return means gone |
| `held` | 2 workers, one slot each, 3 connections, all workers up | liveness: an accepted connection is settled |
| `shutdown` | 2 workers, 2 connections, from start-up | liveness: shutdown completes |
| `bound` | as `pool`, 3 connections | finding, see below |
| `framing` | all framing values of up to 3 symbols, pairs up to 2, triples; all targets up to 4 symbols and absolute ones up to 4 more, with fragments, and absolute ones around the limit on a head; 99 hosts against 99 authorities; all line structures of up to 9 bytes; 25 requests, one a CONNECT, against every response with one or two framing, connection and other fields, six statuses, four bodies | one framing, authority and set of lines for every reader, whoever combines fields; splits fit the target; limits exact; well-formed framings understood; a response is read as it was sent; both backends agree, but for the differences listed below |
| `chunked` | four bodies with every one-byte deletion and replacement, every packetization | prefix-stability, same verdict as in one piece, meaning of well-formed bodies |
| `packets` | size lines at, below and above the limit | finding, see below |

Why the bounds are enough. Three pipelined requests give a request before, one
in progress and one behind the residue of its body; reads of up to five units span
two requests. Nine buffered bytes hold a blank line, a straddled terminator and
part of a second one. Two workers with one slot and four connections fill both,
leave both holding one more, and let each hand off to the other while one shuts
down. The code samples workers instead of scanning them from five workers on; that
path is modelled (`Samples`, `Probes`) but no instance is that large. What it
chooses only decides which worker is asked first, and the cap rests on `reserve`,
which is asked in either case. A terminator is four bytes and
reads of one byte make every cut of it. In `framing` a length overflows above 25 and the limit is 12, so two digits reach
both by multiplication and by addition, and arrays of two and five fields around a
limit of four reach both tiers. In `hyper` the four timeouts differ, so a wait that ends by another's
deadline is seen; two requests, two buffered units and two chunks of a stream are
enough for a response to be encoded, queued and half written while the next request
arrives. In `framing` a response's length is 0 or 2 and a handler's 0, 2, 6, absent or
malformed: right, wrong, or respelled. In
`Deadline` the tick of two makes durations
round to the same and to different instants, and `U64Max`/`InstantMax` are close
enough to saturate.

`CHECK_DEADLOCK` is on everywhere: an ended connection, pool or body stutters by an
explicit action that is enabled only there.

### Fairness

* `Deadline`: the clock advances, the timer driver fires, a woken task is polled.
* `Connection`: the executor runs the loop's own steps and every deadline that
  stays armed and polled expires (weak fairness of the timeout actions and of the
  write deadline). Nothing is assumed of peers, handlers or streams. The deadlines
  are taken to be on: `Duration::MAX` switches one off.
* `HyperBackend`: none. Its deadlines are safety properties over explicit time, which
  passes only when nothing is ready to run; a wait that nothing bounds is a state in
  which `waited` exceeds its bound.
* `Pool`: threads run and their sleeps end (weak fairness); a `select!` arm that
  keeps becoming ready is taken, because tokio polls arms in random order (strong
  fairness of adopting and of the slot-freed arm); connections end, as their
  deadlines make them.

## Findings

* `bound`: `Limits::max_connections` is documented (`src/limits.rs`, lines 81-82)
  to bound the whole server by `n * max_connections`. A worker that accepts after
  every worker filled up holds the connection in `pending`, so each worker may hold
  one more. The per-worker bound on served connections (`CapHeld`) does hold, except
  that a draining worker serves the one it held.
* `packets`: `find_line` (`src/chunked.rs`, line 351) counts the CR of a split CRLF
  against the limit when the LF has not arrived, and not when it has. A size line of
  exactly the limit (272 bytes) is therefore accepted or refused depending on the
  packets. `PacketsDecodeAlike` shows the effect is confined to that: only from
  accepted to refused, never other data or another end.
* `interim`: a write in `Phase::Handler` is taken for an interim response that needs no
  care (`src/backend/hyper/mod.rs`, lines 91-96: "a 408 after it is correct framing").
  When the peer has not read and the transport took only part of the `100 Continue`,
  the expired body deadline drops hyper's future with the rest of it, and the 408 begins
  inside the interim response. The native loop completes it first (`settle_continue`,
  and `WireWellFormed` covers that). With interim responses written whole,
  `OneFinalResponse` holds.

Differences between the backends that the properties leave open, because `BACKENDS.md`
has them or both reactions are sound. The first four are exceptions in `RequestsAgree`,
`ResponsesAgree` and `ReadAsSent`, and the run reaches each of them:

* A target with a fragment is refused natively and served without it under hyper
  (`BACKENDS.md`, line 42). `RequestsAgree` lets the bridge accept it.
* `Content-Length` together with `Transfer-Encoding: chunked` is refused natively; hyper
  drops the length, serves the request as chunked and closes (line 41). `RequestsAgree`
  lets the bridge accept it, and only as chunked. How it is answered is not compared, as
  there is no native answer.
* http::Uri gives `http://a` a slash, and `convert_head` counts it: a head of exactly
  `max_head_bytes` bytes with such a target is accepted natively and refused with a 431
  under hyper (`Counted`).
* A 2xx to CONNECT is an ordinary response natively; hyper takes it for a tunnel, writes
  no framing field and gives up the connection (line 96). To its reader it has no body
  whatever its head says, so `ReadAsSent` does not speak of it either (`Tunnel`).
* A bare LF as a line end is refused natively and taken by hyper (line 40): heads that
  `prescan` refuses are not compared.
* What hyper or http::Uri refuses by itself never reaches the bridge and is not modelled.
  There hyper may be the stricter one: "the bridge accepts" means that it would if it
  were asked.
* A handler's `Transfer-Encoding: gzip, chunked` on a stream is kept natively and
  becomes `chunked` under hyper. A field value with a control byte other than CR, LF
  and NUL is written natively and dropped under hyper; so is, then, a `Server` field
  with one, and the default takes its place. A HEAD response to which the handler gave
  no length gets one natively.
* `convert_head` compares a declared length with the limit before `decide` looks at the
  head, so one that is both malformed and too long may be refused with another status.
  hyper hands over trimmed values, so a head is counted without their padding; the model
  counts it.
* Under hyper, a streamed response whose request body was put aside elsewhere stays
  under the body's deadline until it is flushed, even when the stream has ended; and a
  head that arrives in part while a response is being written is timed as idle, as
  the module comment says (`src/backend/hyper/mod.rs`, line 18).
* `BACKENDS.md` (lines 94 and 95) still says that natively an out-of-range status and a
  handler's `Connection` are written verbatim; `write_response` replaces the first and
  `write_head_for` filters the second, so here the backends are closer than documented.
  Its other rows about hyper's own parsing (bare LF in trailers, and so on) are about
  code outside this repository and not modelled.

## Proofs

Everything in this section holds for every value of the constants, from the
assumptions named in the modules. TLC evaluates the assumptions on every run of the
module that states them.

| Module | Theorems | Assumed |
|---|---|---|
| `DeadlineProofs` | `TypeCorrect`, `TimerNeverLate`, `NeverFiresEarly`, `LazyImplementsEager` | `DeadlineAssumption`: naturals, and a far future that is representable from any instant of the clock |
| `HeadScannerProofs` | `ScannerTyped`, `NothingHidden`, `ResumedScanIsExact` | `ScannerAssumption`: CR and LF differ from each other and from other bytes |
| `PoolProofs` | `PoolTyped`, `CountsExact`, `CapNeverExceeded`, `RetirementLasts`, `NeverTwoUnplaced`, `InboxesDrained`, `ReturnIsFinal` | `PoolAssumption`: at least one worker; the cap and all connections together stay below `RETIRED`, half of what a count can hold |
| `ConnectionProofs` | `ConnectionTyped`, `OneReaderAlways`, `NothingHeldBackAlways`, `WireAlwaysWellFormed`, `FinishedResponsesAlwaysSurvive` | `ConnectionAssumption`: the shapes of requests and replies, and that a stream has fewer than `MaxReq` requests |
| `ConnectionBytes` | `EveryBytePlaced`, `HeadsAreAlwaysHeads`, `NoByteEverLost`, `UpgradeIsAlwaysClean` | besides, `LastAssumption`: only the peer's last request is followed by another protocol's bytes. For `UpgradeIsAlwaysClean` also `UpgradeAssumption`: only the last request asks for one |
| `HyperProofs` | `HyperInvariant`, `EveryWaitIsBounded`, `OneFinalEach`, `NothingLostChangingHands` | `TimeoutsAssumption`: the four timeouts are positive; `HyperAssumption`: the shapes of requests and replies. `OneFinalEach` only where the transport takes an interim response whole (`~SplitInterim`): the run `interim` shows that it fails otherwise |
| `ChunkedProofs` | `Underway`, `DecoderTyped`, `DataStands`, `CutsDoNotMatter`, `FramedBodiesDecode` | `ChunkedAssumption`: streams are byte strings and the limits naturals. `FramedBodiesDecode` only where the bodies that mean something are laid out by a sender (`WellFramed`) |
| `FramingProofs` | `OnItsWay`, `SplitsStayExact`, `LimitsStayExact`, `LinesStayAlike`, `OneReadingOnly`, `OneAuthorityOnly`, `SpellingsUnderstood`, `BackendsAcceptAlike`, `AnswersAreMade`, `AnswersReadAsSent`, `BackendsAreOneServer` | `FramingAssumption`: the limits are naturals, `max_headers` and the small array no larger than the ceiling; `RequestsAssumption`: requests have their fields, made of byte strings; `AnswersAssumption`: responses have a status, a list of fields, a body and the note whether the request's was read. `SpellingsUnderstood` only where the requests that mean something spell it (`WellSpelled`) |

**Deadlines.** The invariant adds to the properties that a reported expiry is past its
target (`ReadyIsPast`) and that an armed target is where `arm` put it, at least the
asked duration (or the far future) after the arm. The refinement needs only
`SleepNeverLate`: with the timer at or before the target, `poll_expired` is ready
exactly when the clock has reached the target.

**Head scanner.** Exactness is not inductive. `IInv` adds that no terminator ends at or
before the cursor (`CursorPast`); that a known head end is the first of the whole
buffer, lies past the cursor, and is in a buffer that does not begin with a blank line
(`EndKnown`), so that dropping blank lines never moves a known end; and what each
answer leaves behind (`AnswerBacked`). The resumed search starts three bytes before the
cursor, so it sees every terminator that ends after it.

**Pool.** All seven properties follow from one invariant, and none is inductive alone.
`Shape` says where a worker's thread must be for a connection to be where it is
(`Hands`, `Placement`), which workers a hand-off can be on the way to (`Aim`), and how
far the locals and `serve_with` have come. `Counts` is the heart: a live worker's count
equals the slots held against it and is at most the cap. Once a worker retired, its
count is only known within a margin: late releases take at most one per finished
connection off `RETIRED`, and recounts while draining add at most one per recounted
connection. Neither margin exceeds the distance to the cap, or to `UMAX`, which is why a
retired count neither comes back under the cap nor wraps. A worker that died before its
loop may be in either case, because it is retired by whoever first finds its inbox
closed. `Loads` bounds by `Cap + 1` what a draining worker serves. The proof sorts the
actions into kinds (a worker only turns, takes a slot, settles a connection, drops,
carries, recounts or retires; or a worker perishes), and shows once for each kind that
it keeps the whereabouts and the books.

**Connection, control and output.** Lemmas state first what each operator of
`Connection` returns, so that the rest need not look into the records. The invariant
of `ConnectionProofs` says for every label where serve is and for which request
(`Control`), who holds which Body (`Custody`), which one may still read and what that
forbids (`Reading`), where output may wait (`Waiting`), when a 100 Continue is still
owed (`Owing`), what the output ends with at each point of a request (`Tips`), that
every unit of it may follow the one before (`Chained`), which responses are whole
(`Answered`, `Kept`) and that a head to be split was found (`Found`). The argument:
only the Body of the current generation can still read, and serve leaves a request for
the next head only when that Body is finished or dropped. Steps are a task's, which
leaves the loop where it is, or the loop's, which leaves the Bodies alone or drops the
one it drives; what each kind keeps is proved once.

**Connection, bytes.** The lemma `StreamIs` says which unit is where in the stream, for
any sequence of requests. `Stream` joins the requests' units with a recursive fold, so
this takes an induction. The library's induction rules take a predicate as a parameter,
which the provers cannot instantiate; the lemma `Induction` states the rule for a set
of naturals instead and follows from the well-foundedness of `<`. `Bytes` then places
the connection in the stream: the buffer holds a contiguous stretch up to the read
position; an open Body is where its framing says (a sized one owes exactly what is left
of its length, a chunked one has kept a contiguous stretch of its own request), and
between requests the consumed part ends where the last request ended, blank lines
aside. Every step either takes nothing from the stream, drops blank lines, lets a Body
consume (it hands over data, ends, continues or fails), or splits off a head. From
that the scanner, which takes any body data for a terminator, can only find the end of
the next request's head.

The two assumptions about the peer are about the end of its stream. What follows an
accepted upgrade is not HTTP/1, so a stream in which another request follows such bytes
has no reading as a sequence of requests; nor has one in which a request is pipelined
behind one that asked to upgrade and was granted. The code makes no promise there: it
hands over whatever is buffered.

**Hyper backend, deadlines.** `OnTime` speaks of how long was waited, which no code
keeps; the invariant ties it to what the code does keep. `Phased` says which phase the
clock is in by where hyper's future is, `Bodied` what the clock knows of the request's
body (and that a response that streams is bounded by it exactly while that body is
awaited), `Watching` that the watchdog has armed what the clock says unless
`notify_waiters` has run since, and `Timed` that the time waited is the phase's age, or
what is gone of the body's deadline. So a deadline that fires un-overtaken has run out
for what is waited for (`Due`), and while none fires, none has run out (`NotDue`). One
case needs care: while a pipelined request waits for the response before it
(`leave_write`), the clock is still the response's; once that is out, the request has
waited for nothing, since the bridge runs before time passes. `Buffered` says what a
byte written in each phase can have been, which decides between the 408 and silence.

**Hyper backend, output.** `OneFinalResponse` speaks of the wire alone, but what comes
next is decided while units are still buffered. `Chain` says that the wire and the
buffer together are well linked, what their last unit is by where hyper's future is,
and, because `Expires` drops the buffer, what the last unit of the wire is wherever a
408 may follow: in the Handler phase only an interim response can be buffered, in the
Head phase only hyper's own refusal, none of it written.

**Hyper backend, handovers.** What dispatch read, what hyper read ahead and what the
socket still has must be the stream in order, whoever takes the connection over. `Handed`
says that the read-ahead and the bytes behind it hold the stream unit by unit up to the
read position (`InOrder`), what dispatch's verdict says of the stream's first bytes
(`Verdicts`), and that a request whose body is done with is consumed to its last unit
(`Consumed`). hyper drops from its read-ahead what lies before a position (`Past`), so a
contiguous stretch stays one.

**Chunked decoder.** A decoder that gets the stream in pieces is compared with one that
has it all. The lemma `TurnCut` compares one turn of `poll` on what has arrived with the
turn it would be on everything: it is the same, or the decoder asks for more, or it moves
part of a chunk's data and the next turn moves the rest, or it refuses what would be
refused too, but for a size line at the limit. So the decoder stays on the way of the
other (`OnTheWay`, the inductive invariant: the one-piece decoding is reached from here),
and rests where that one does. `FramedBodiesDecode` is an induction over a body's layout:
after each chunk, and each trailer, the one-piece decoder is where the layout says, with
the data so far. A layout's size lines are those that `parse_chunk_size` reads as the
length of the chunk; that it reads digits, zeros and extensions as a sender writes them is
checked by TLC on the bodies of the run. That the bodies of the run have a layout is an
assumption of `MCChunked` that TLC evaluates (`MeantIsFramed`).

**Framing.** The state machine is short and so is its invariant (`HeadOnItsWay`: which
head and which verdict there is at each stage, and that the splits a head keeps are those
of its target). The work is in what the operators compute, for byte strings and field
lists of any length. They are recursive functions over a sequence; each is shown to be a
fold (`FoldIs`), and what it computes is an induction over the sequence (`SeqInduction`,
again for a set in place of a predicate).

* `OneReadingOnly`: an element that `parse_content_length` accepts, or that is `chunked`,
  has nothing that another reader would strip (`NumeralSame`, `ChunkedSame`), so all see
  what `decide` saw (`ReadAlike`). Values joined with commas have the elements of the
  values (`AllCombined`), so combining fields changes nothing that `decide` asks
  (`JoinedDecidesAlike`).
* `OneAuthorityOnly`: what `valid_host` and `valid_port` accept has no `@`, and one colon
  outside brackets at most, so there is one place at which to cut it (`ShapeCuts`); and
  `check_authority` has compared the two names with the ports filled in.
* `SplitsStayExact`: the first `?` comes after the authority, since a scheme has none and
  the authority ends at one (`QueryAfter`), so the slices are in order and meet.
* `SpellingsUnderstood`: the requests that mean something are those that `Spells` admits:
  a number within the limits, in any digits and any number of times, or `chunked` in any
  case among empty elements. That the requests of the run are such is an assumption of
  `MCFraming` that TLC evaluates (`MeantIsSpelled`).
* `BackendsAcceptAlike`: `convert_head` checks what `parse` checks, and a length that it
  reads more leniently, but never one over the limit where `decide` accepts the head
  (`DeclaredFits`). It checks another target, though. `Respelled` says byte by byte how
  http::Uri's differs from the one that was sent; both are cut at the same places up to
  the end of the authority (`RespelledCuts`), the query is found behind the slash
  (`RespelledQuery`), no percent-encoding reaches across it (`RespelledValid`), and so the
  path, query, authority and scheme that anyone goes by are the same (`RespelledParts`).
  Of the fields, a head that `decide` accepts loses none (`AcceptedOnceFramed`), and one
  that loses its lengths can only be chunked (`TwiceFramedIsChunked`).

**Responses.** The invariant is again short (`Answered`: an answer is what
`write_response` or `bridge_response` makes of the parsed head and the handler's
response); the work is one lemma about the two functions (`AnswersAgree`), for every
answer but a 2xx to CONNECT. Both pass over
the handler's fields one by one, so what they make is a map whose results are joined
(`FlatMap`), and what is read in that is the map of what is read in each field's part
(`MapMap`). `Shows` says of a list of fields what a peer reads in it: the lengths, the
codings, the tokens of `Connection` and the other fields, none with a value that ends it
early. It is computed for what becomes of one field (`EmitShows`, `ConvertShows`), for
the handler's fields (`WrittenShows`, `ConvertedShows`) and for the server's own, and
added up (`ShowsBoth`), which gives each backend's head (`NativeShows`, `HyperShows`).

* The framing. Of the handler's lengths the staleness rules leave none or one that is
  right (`LengthKept`), of its codings none or one that ends in `chunked` before a stream
  (`CodingKept`), and not one of each. Where none is left the server adds its own, whose
  digits are read back as the body's length (`DecimalIs`). So each head satisfies `Frames`:
  at most one framing field, none where the status has neither body nor length, and else
  the one that delimits what follows.
* The connection. A handler's tokens are neither the server's nor a framing field's
  name, so a peer reads the server's decision and nothing else (`TokensSay`). `Joint`
  writes all tokens in one field where the native writer writes several; the elements are
  the same.
* Agreement. The backends differ in what they know when they judge a length: the bridge
  has dropped a forbidden body, and knows no competing coding. `StaleAlike` shows that
  this never matters but for a HEAD, where a length may be dropped on one side only, as
  `ResponsesAgree` allows. Everything else is then equal part by part.

### Model-checked only

* Liveness and fairness (`Deadline`, `Connection`, `Pool`): the prover does not treat
  them.

## Not modelled

* `httparse`, hyper, rustls and tokio themselves: external, modelled by what the code
  relies on. A handshake succeeds, fails or stalls.
* Header and method tables, `ByteStr`, dates, reason phrases, chunk-size lines and the
  status number of an error: data conversions without state. Their outcome is a
  request's attributes, or a refused head.
* Configuration (`Limits`, `TlsConfig`, builders), the compile-time choice of a backend,
  socket set-up in `bind`, core pinning, logging.
* Memory orderings weaker than sequential consistency: every `Balance` decision is
  on a single counter, and `started` uses acquire and release.
* A handler that runs for ever without awaiting, which stops its whole worker.

## Plan

The modules above cover every part that keeps state, and every safety invariant is a
theorem. Left:

1. An abstract specification of a connection (a queue of requests answered in order)
   that `Connection` and `HyperBackend` refine.
