---------------------------- MODULE MCConnection ----------------------------
(***************************************************************************)
(* Instances of Connection for TLC: menus of requests, the pipelines over  *)
(* them, and menus of replies.                                             *)
(***************************************************************************)
EXTENDS Connection

Get == [kind |-> "none", len |-> 0, malformed |-> FALSE, blank |-> 0, lines |-> 0,
        post |-> 0, reject |-> FALSE, http10 |-> FALSE, keep_alive |-> TRUE,
        expect |-> FALSE, upgrade |-> FALSE, head |-> FALSE]

Post(n)    == [Get EXCEPT !.kind = "length", !.len = n]
Chunked(n) == [Get EXCEPT !.kind = "chunked", !.len = n]
Expect(r)  == [r EXCEPT !.expect = TRUE]

Plain    == [status |-> "final", close |-> FALSE, stream |-> FALSE]
Streamed == [Plain EXCEPT !.stream = TRUE]

\* Pipelining: bodies of both framings ahead of and between other requests,
\* a head in two units, blank lines, a refused head, a malformed chunk.
PipelineInputs ==
    { <<a, b, c>> :
        a \in {Post(2), Chunked(1), [Chunked(2) EXCEPT !.lines = 1], Get},
        b \in {[Post(1) EXCEPT !.lines = 1], [Chunked(1) EXCEPT !.blank = 1], Get,
               [Get EXCEPT !.keep_alive = FALSE]},
        c \in {Get, [Post(1) EXCEPT !.lines = 1, !.blank = 1]} }
    \cup { <<Get, [Get EXCEPT !.reject = TRUE]>>,
           <<[Chunked(1) EXCEPT !.malformed = TRUE], Get>>,
           <<Post(0), [Get EXCEPT !.lines = 3]>> }

\* 100 Continue: expected by pipelined requests, one of which comes from an
\* HTTP/1.0 client, whose expectation is ignored.
ContinueInputs ==
    { <<Get, Expect(Post(1)), Get>>,
      <<Expect(Chunked(1)), Expect(Post(1))>>,
      <<Expect(Get), [Expect(Post(1)) EXCEPT !.http10 = TRUE]>> }

\* Upgrades asked for with and without a body, the first post-upgrade bytes
\* possibly early, behind another request.
UpgradeInputs ==
    { <<a, [b EXCEPT !.upgrade = TRUE, !.post = 2]>> :
        a \in {Get, Post(1)},
        b \in {Get, Expect(Chunked(1)), [Get EXCEPT !.http10 = TRUE]} }

\* Streams: to HTTP/1.0 (close-delimited), to HEAD, and echoes of the body.
StreamInputs ==
    { <<a, b>> :
        a \in {Chunked(1), [Get EXCEPT !.head = TRUE]},
        b \in {Post(2), [Get EXCEPT !.http10 = TRUE], [Post(1) EXCEPT !.head = TRUE]} }

ExchangeInputs == ContinueInputs \cup UpgradeInputs \cup StreamInputs

\* Final, interim and switching statuses, streams, a body-less status with a
\* stream, a handler's own close.
ExchangeReplies ==
    { Plain, Streamed, [Plain EXCEPT !.close = TRUE],
      [Plain EXCEPT !.status = "interim"], [Plain EXCEPT !.status = "switch"],
      [Streamed EXCEPT !.status = "switch"], [Streamed EXCEPT !.status = "bodyless"] }

MCInputs == PipelineInputs \cup ExchangeInputs
MCReplies(rs) == IF rs \in ExchangeInputs THEN ExchangeReplies ELSE {Plain}
=============================================================================
