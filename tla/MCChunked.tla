----------------------------- MODULE MCChunked -----------------------------
(* Bodies a sender could frame, with every one-byte corruption of them. *)
EXTENDS Chunked

Crlf == <<"r", "n">>

(* The framing of RFC 9112 section 7.1: chunks, the last one, trailers. *)
Frame(body) ==
    FlattenSeq([i \in DOMAIN body.chunks |->
                   body.chunks[i].line \o Crlf \o body.chunks[i].data \o Crlf])
    \o body.last \o Crlf
    \o FlattenSeq([i \in DOMAIN body.fields |-> body.fields[i] \o Crlf]) \o Crlf

Chunk(line, data) == [line |-> line, data |-> data]

Bodies == {
    [chunks |-> <<>>, last |-> <<"0">>, fields |-> <<>>],
    [chunks |-> <<Chunk(<<"1", ";", "x">>, <<"n">>), Chunk(<<"0", "1">>, <<"r">>)>>,
     last |-> <<"0", "0", "0">>, fields |-> <<>>],
    [chunks |-> <<Chunk(<<"1">>, <<"0">>)>>,
     last |-> <<"0", " ">>, fields |-> << <<"x", ":", "t">> >>],
    [chunks |-> <<Chunk(<<"2", " ">>, <<"x", "1">>), Chunk(<<"1">>, <<"n">>)>>,
     last |-> <<"0">>, fields |-> <<>>]}

(* A body, and the first bytes of the request after it. *)
Wire(body) == Frame(body) \o <<"1", "r", "n">>

Wires == {Wire(b) : b \in Bodies}

Corrupt(w) ==
    {RemoveAt(w, i) : i \in DOMAIN w} \cup
    {ReplaceAt(w, i, c) : i \in DOMAIN w, c \in {"r", "n", "x", "t", "f", "2", " ", ":"}}

(* Size lines of exactly the limit, and around it. *)
Line(ext) == <<"0">> \o ext \o Crlf \o Crlf \o <<"1">>

LimitStreams == {Line(<<";", "x", "x">>), Line(<<";", "x">>), Line(<<";", "x", "x", "x">>)}

MCStreams == LimitStreams \cup Wires \cup UNION {Corrupt(w) : w \in Wires}

MCMeant == [w \in Wires |->
    LET b == CHOOSE b \in Bodies : Wire(b) = w IN
    [data |-> FlattenSeq([i \in DOMAIN b.chunks |-> b.chunks[i].data]),
     ends |-> Len(Frame(b))]]

(* Where the parts of such a body lie. *)
Layout(b) ==
    LET at[j \in 0..Len(b.chunks)] ==
            IF j = 0 THEN 0
            ELSE at[j - 1] + Len(b.chunks[j].line) + 2 + Len(b.chunks[j].data) + 2
        data[j \in 0..Len(b.chunks)] ==
            IF j = 0 THEN <<>> ELSE data[j - 1] \o b.chunks[j].data
        ft[j \in 0..Len(b.fields)] ==
            IF j = 0 THEN at[Len(b.chunks)] + Len(b.last) + 2
            ELSE ft[j - 1] + Len(b.fields[j]) + 2
    IN [chunks |-> b.chunks, last |-> b.last, fields |-> b.fields,
        at |-> at, data |-> data, ft |-> ft]

(* What is meant is laid out as the theorem FramedBodiesDecode asks.        *)
ASSUME MeantIsFramed ==
    \A b \in Bodies : Wire(b) \in DOMAIN Meant =>
        LET l == Layout(b) IN
        /\ Laid(Wire(b), l)
        /\ Meant[Wire(b)].data = l.data[Len(l.chunks)]
        /\ Meant[Wire(b)].ends = l.ft[Len(l.fields)] + 2

NothingMeant == [w \in {} |-> 0]
============================================================================
