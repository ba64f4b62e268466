----------------------------- MODULE MCFraming -----------------------------
(* Every short Content-Length, Transfer-Encoding and target, and every      *)
(* pairing of the hosts and targets below.                                  *)
EXTENDS Bridge

Upto(n, S) == UNION {[1..k -> S] : k \in 0..n}

Line == <<"x", "r", "n", "r", "n">>

Sent(methods, targets, versions, headers) ==
    [method : methods, target : targets, version : versions, headers : headers,
     region : {Line}]
Field(id, value) == [id |-> id, value |-> value]

(* Framing fields: longer values alone, shorter ones in pairs and triples. *)
Fields(n) ==
    {Field("ContentLength", v) : v \in Upto(n, {"0", "2", "6", ",", " ", "+", "u"})} \cup
    {Field("TransferEncoding", v) :
        v \in Upto(n, {"chunked", "CHUNKED", "gzip", ",", " ", "u"})}

HostA == Field("Host", <<"a">>)

FramedRequests ==
    {Sent({"GET"}, {<<"/">>}, {"1.0", "1.1"}, lists) :
        lists \in {{<<HostA, f>> : f \in Fields(3)},
                   {<<HostA, f, g>> : f, g \in Fields(2)},
                   {<<f, HostA, g, h>> : f, g, h \in Fields(1)},
                   {<<f, f, HostA, f, f>> : f \in Fields(1)},
                   {<<f, f, HostA, f, f, f>> : f \in Fields(1)}}}

(* Heads in any line structure, up to their first empty line. *)
EmptyLine == <<"r", "n", "r", "n">>
Regions ==
    LET cut == {r \o EmptyLine : r \in Upto(5, {"r", "n", " ", "x"})} IN
    {r \in cut : /\ SubSeq(r, 1, 2) # <<"r", "n">>
                 /\ \A i \in 1..(Len(r) - 4) : SubSeq(r, i, i + 3) # EmptyLine}

Paths == {<<>>, <<"/">>, <<"?", "a">>, <<"/", "a", "#">>}

LineRequests ==
    {[method : {"GET"}, target : {<<"/">>}, version : {"1.1"}, headers : {<<HostA>>},
      region : Regions],
     [method : {"GET"}, target : {<<"http", ":", "/", "/", "a">> \o rest : rest \in Paths},
      version : {"1.1"}, headers : {<<HostA>>}, region : {r \in Regions : BareLf(r) = {}}]}

(* Targets: every short one, and every short rest of an absolute one. *)
Targets ==
    Upto(4, {"a", "8", ":", "/", "?", "*", "@", "%"}) \cup
    {<<"http", ":", "/", "/">> \o rest : rest \in Upto(4, {"a", "8", ":", "/", "?", "@"})} \cup
    {<<"g", "-", "!">>} \cup
    {t \o <<"#">> \o rest : t \in Upto(2, {"a", ":", "/", "?"}), rest \in {<<>>, <<"a">>, <<":", "/", "/">>}} \cup
    {<<"http", ":", "/", "/">> \o rest \o <<"#", "?">> : rest \in Upto(2, {"a", ":", "/", "?"})}

TargetRequests ==
    {Sent({"GET", "CONNECT", "OPTIONS"}, Targets, {"1.0"}, {<<>>})}

(* Hosts against the authorities of targets. *)
Hosts == {<<>>, <<"a">>, <<"A">>, <<"b">>, <<"a", "@", "b">>, <<"a", "%", "8", "a">>,
          <<"a", "%", "g", "a">>, <<"[", ":", "8", "]">>, <<"[", "]">>, <<"[", "g", "]">>,
          <<"[", "8">>}
Ports == {<<>>, <<":">>, <<":", "8", "0">>, <<":", "0", "8", "0">>, <<":", "4", "4", "3">>,
          <<":", "2", "2">>, <<":", "6", "5", "5", "3", "6">>, <<":", "a">>, <<":", "8", ":", "8">>}
Authorities == {host \o port : host \in Hosts, port \in Ports}

HostLists == {<<>>, <<HostA, HostA>>} \cup {<<Field("Host", a)>> : a \in Authorities}

HostRequests ==
    {Sent({"CONNECT"}, Authorities, {"1.1"}, HostLists),
     Sent({"GET"}, {<<scheme, ":", "/", "/">> \o a :
                       scheme \in {"http", "HTTP", "https", "ftp"}, a \in Authorities},
          {"1.1"}, HostLists)}

(* Spellings of a length and of `chunked`. *)
Spelled(n) == {<<Digits[n + 1]>>, <<"0", Digits[n + 1]>>, <<" ", Digits[n + 1]>>}
Twice(S) == {<<v>> : v \in S} \cup {<<v \o <<",">> \o w>> : v, w \in S}
            \cup {<<v, w>> : v, w \in S}
ChunkedOnce == {<<"chunked">>, <<"CHUNKED">>, <<" ", "chunked">>, <<",", "CHUNKED">>}

Spell(id, values) == [i \in DOMAIN values |-> Field(id, values[i])]
Meaning ==
    {<<Spell("ContentLength", vs), Kind("Length", n)>> :
        vs \in Twice(Spelled(2)), n \in {2}} \cup
    {<<Spell("ContentLength", vs), Kind("Length", n)>> :
        vs \in Twice(Spelled(0)), n \in {0}} \cup
    {<<Spell("TransferEncoding", <<v>>), Kind("Chunked", 0)>> : v \in ChunkedOnce} \cup
    {<< <<>>, Kind("None", 0)>>}

MeantRequest(m) ==
    [method |-> "GET", target |-> <<"/">>, version |-> "1.1", headers |-> <<HostA>> \o m[1],
     region |-> Line]
MCMeant == [r \in {MeantRequest(m) : m \in Meaning} |->
               (CHOOSE m \in Meaning : MeantRequest(m) = r)[2]]

ASSUME MeantIsSpelled == \A r \in DOMAIN MCMeant : Spells(r, MCMeant[r])

(* Responses: framing and connection fields alone and in pairs, against    *)
(* bodies and statuses that they may or may not fit.                        *)
Asking == {<<>>, <<Field("Connection", <<"CLOSE">>)>>, <<Field("Connection", <<"keep-alive">>)>>,
           <<Field("Connection", <<"hop", ",", "upgrade">>), Field("Upgrade", <<"a">>)>>}

MCAnswerable ==
    Sent({"GET", "HEAD"}, {<<"/">>}, {"1.0", "1.1"}, {<<HostA>> \o asks : asks \in Asking})
    \cup Sent({"GET"}, {<<"/">>}, {"1.1"},
              {<<HostA, Field("ContentLength", <<"2">>)>> \o asks : asks \in Asking})
    \cup Sent({"CONNECT"}, {<<"a", ":", "8">>}, {"1.1"}, {<<Field("Host", <<"a", ":", "8">>)>>})

LengthFields ==
    {Field("ContentLength", v) : v \in {<<"2">>, <<"0">>, <<"0", "2">>, <<"6">>, <<"+", "2">>,
                                        <<>>, <<"2", "crlf">>}}
    \cup {Field("Other(content-length)", <<"2">>)}
CodingFields ==
    {Field("TransferEncoding", v) :
        v \in {<<"chunked">>, <<"CHUNKED">>, <<"gzip">>, <<"gzip", ",", " ", "chunked">>,
               <<"chunked", ",", "gzip">>, <<"chunked", ",">>, <<"chunked", "u">>}}
    \cup {Field("Other(transfer-encoding)", <<"chunked">>)}
ConnectionFields ==
    {Field("Connection", v) :
        v \in {<<"close">>, <<"keep-alive">>, <<"upgrade">>, <<"upgrade", ",", " ", "CLOSE">>,
               <<"content-length", ",", "hop">>, <<"transfer-encoding">>, <<"hop", "crlf">>,
               <<"hop", ",", "(">>}}
    \cup {Field("Other(connection)", <<"close">>)}
OtherFields ==
    {Field("Date", <<"a">>), Field("Server", <<"b">>), Field("X", <<"a", "crlf">>),
     Field("X", <<"a", "ctl">>), Field("Other(bad name)", <<"a">>)}

OutBodies == {[kind |-> "Empty", len |-> 0], [kind |-> "Full", len |-> 0],
              [kind |-> "Full", len |-> 2], [kind |-> "Full", len |-> 12],
              [kind |-> "Stream", len |-> 0]}

Returned(statuses, lists, bodies, read) ==
    [status : statuses, headers : lists, body : bodies, fully_read : read]

MCAnswers ==
    LET framing == LengthFields \cup CodingFields
        any == framing \cup ConnectionFields \cup OtherFields
    IN {Returned({200, 204, 304, 101, 100, 700}, {<<>>} \cup {<<f>> : f \in any}, OutBodies, BOOLEAN),
        Returned({200, 304}, {<<f, g>> : f, g \in framing}, OutBodies, {TRUE}),
        Returned({200}, {<<f, g>> : f \in ConnectionFields, g \in any}, OutBodies \ {NoReply.body}, {TRUE})}

MCRequests ==
    {MCAnswerable} \cup FramedRequests \cup LineRequests \cup TargetRequests \cup HostRequests \cup {DOMAIN MCMeant}

MCRewrites ==
    {<<>>, <<"*">>, <<"/", "a", "?", "a">>, <<"http", ":", "/", "/", "b">>,
     <<"http", ":", "/", "/", "#", "?">>, <<"?", ":", "/", "/">>}
============================================================================
