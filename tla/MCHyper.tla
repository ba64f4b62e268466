------------------------------ MODULE MCHyper -------------------------------
(* Instances of HyperBackend: what peers send, what handlers answer.       *)
EXTENDS HyperBackend, SequencesExt

R(status, sends) == [status |-> status, body |-> sends, close |-> FALSE]

Plain == [version |-> "1.1", head |-> FALSE, keep_alive |-> TRUE, expect |-> FALSE,
          upgrade |-> FALSE, refuse |-> "no", replies |-> {R("200", "none")}]

\* A request is this many units of head and of body; a blank line may precede.
U(k, part) == [c |-> "x", req |-> k, part |-> part]
Many(k, part, n) == [i \in 1..n |-> U(k, part)]

Conn(stream, reqs) ==
    [tls |-> FALSE, detect_h2c |-> FALSE, h2 |-> FALSE, handler_timeout |-> FALSE,
     stream |-> stream, reqs |-> reqs]

Spelled(s, classes) ==
    [i \in DOMAIN s |-> IF i <= Len(classes) THEN [s[i] EXCEPT !.c = classes[i]] ELSE s[i]]

\* Dispatch: a preface, one that breaks off, one that turns out a method.
Dispatched ==
    LET one == Conn(<<U(1, "head"), U(1, "head"), U(1, "head")>>, <<Plain>>) IN
    {[one EXCEPT !.tls = TRUE, !.h2 = h] : h \in BOOLEAN}
    \cup {[one EXCEPT !.detect_h2c = TRUE, !.stream = Spelled(@, c)] :
             c \in {<<"p", "q", "r">>, <<"p", "q">>, <<"p">>, <<>>}}
    \cup {[one EXCEPT !.detect_h2c = TRUE,
                      !.stream = Spelled(<<U(1, "head"), U(1, "head")>>, <<"p", "q">>)]}

\* Two requests, the second arriving at any moment of the first.
Pipelined ==
    {Conn(<<U(1, "blank"), U(1, "head"), U(2, "head"), U(2, "head")>>,
          <<[Plain EXCEPT !.replies = {R("200", "full"), R("204", "stream"),
                                       [R("200", "none") EXCEPT !.close = TRUE]}],
            [Plain EXCEPT !.refuse = r]>>) : r \in {"no", "hyper", "bridge"}}

\* Bodies: awaited, failed, dropped, kept, read by the response's stream.
Bodies ==
    LET post == [Plain EXCEPT !.expect = TRUE,
                              !.replies = {R("200", "stream"), R("200", "none"), R("bad", "full")}]
    IN {[Conn(<<U(1, "head"), U(1, "body"), U(1, last), U(2, "head")>>, <<post, Plain>>)
            EXCEPT !.handler_timeout = (last = "bad")] : last \in {"body", "bad"}}

\* Whose turn it is to speak decides who reads what comes next.
Upgrades ==
    {Conn(<<U(1, "head"), U(1, "body"), U(2, "head"), U(2, "head")>>,
          <<[Plain EXCEPT !.upgrade = u, !.replies = {R("101", "none")}]>>) : u \in BOOLEAN}

Older ==
    {Conn(<<U(1, "head"), U(2, "head")>>,
          <<[Plain EXCEPT !.version = v, !.head = h, !.replies = {R("200", "stream")}], Plain>>) :
        v \in {"1.0", "1.1"}, h \in BOOLEAN}

\* A request with a body behind a response that takes its time.
Behind ==
    {Conn(<<U(1, "head"), U(2, "head"), U(2, "body")>>,
          <<[Plain EXCEPT !.replies = {R("200", "stream")}], Plain>>)}

MCInputs == Behind \cup Dispatched \cup Pipelined \cup Bodies \cup Upgrades \cup Older

\* A body that is late after an interim response.
MCLate == {Conn(<<U(1, "head"), U(1, "body")>>, <<[Plain EXCEPT !.expect = TRUE]>>)}

MCPreface == <<"p", "q", "r">>
=============================================================================
