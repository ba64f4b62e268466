------------------------------ MODULE Framing ------------------------------
(***************************************************************************)
(* From a head's bytes to how its body is framed: parse_head_region        *)
(* (src/parse.rs), decide (src/framing.rs), and a handler that rewrites    *)
(* the target (Head::set_target in src/head.rs), in the order in which     *)
(* Connection::serve runs them.                                            *)
(*                                                                         *)
(* A request is what httparse tokenized (method, target, version, fields)  *)
(* and the region its head took up, of which only the line structure       *)
(* counts: "r" and "n" for CR and LF, blanks, and "x" for any other byte.  *)
(* Request lines and field names that httparse refuses are not here.       *)
(***************************************************************************)
EXTENDS RequestHead

CONSTANTS
    Requests,               \* the sets of requests a peer may send from
    Meant,                  \* of the well-formed ones: the framing meant
    Rewrites,               \* targets a handler may set
    U64Max,                 \* u64::MAX
    MaxBody,                \* Limits::max_body_bytes
    MaxHead,                \* Limits::max_head_bytes
    MaxHeaders,             \* Limits::max_headers
    HEADER_SCRATCH_TIER1,
    MAX_HEADERS_CEILING

ASSUME FramingAssumption ==
    /\ {U64Max, MaxBody, MaxHead, HEADER_SCRATCH_TIER1, MAX_HEADERS_CEILING} \subseteq Nat
    /\ MaxHeaders \in 0..MAX_HEADERS_CEILING
    /\ HEADER_SCRATCH_TIER1 <= MAX_HEADERS_CEILING

\* Byte strings are sequences of symbols.
Request == [method : STRING, target : Seq(STRING), version : {"1.0", "1.1"},
            headers : Seq([id : STRING, value : Seq(STRING)]), region : Seq(STRING)]

ASSUME RequestsAssumption ==
    /\ \A from \in Requests : from \subseteq Request
    /\ Rewrites \subseteq Seq(STRING)

VARIABLES
    request,   \* what arrived
    head,      \* the parsed head
    stage,     \* where the head is on its way to the handler
    verdict    \* BodyKind, or why the request was refused

vars == <<request, head, stage, verdict>>

Kind(k, n) == [kind |-> k, len |-> n, error |-> "none"]
Refuse(e) == [kind |-> "refused", len |-> 0, error |-> e]
NoHead == HeadNew("none", <<>>, "none", <<>>)

Init ==
    /\ \E from \in Requests : request \in from
    /\ head = NoHead
    /\ stage = "received"
    /\ verdict = Kind("undecided", 0)

-----------------------------------------------------------------------------
(* Parsing: strict lines first, then httparse, whose fields go into a      *)
(* small array, or into a large one when they did not fit.                 *)

At(s, i) == IF i \in DOMAIN s THEN s[i] ELSE "none"

CrOf(region) == {i \in DOMAIN region : region[i] = "r"}
BareCr(region) == {i \in CrOf(region) : At(region, i + 1) # "n"}
Folds(region) == {i \in CrOf(region) : At(region, i + 2) = " "}
BareLf(region) == {i \in DOMAIN region : region[i] = "n" /\ At(region, i - 1) # "r"}

\* Mutant of prescan: as lenient about LF as httparse.
CrOnly(region) ==
    IF BareCr(region) # {} THEN "BareCr"
    ELSE IF Folds(region) # {} THEN "ObsFold" ELSE "none"

\* One loop over the CRs, for both of their errors, and one over the LFs.
prescan(region) ==
    LET wrong == BareCr(region) \cup Folds(region) IN
    IF wrong # {}
    THEN IF (CHOOSE i \in wrong : \A j \in wrong : i <= j) \in BareCr(region)
         THEN "BareCr" ELSE "ObsFold"
    ELSE IF BareLf(region) # {} THEN "BareLf" ELSE "none"

\* Mutant of Tokenized: the large array is never tried.
SmallArrayOnly(n) == n <= HEADER_SCRATCH_TIER1

Tokenized(n) ==
    \/ n <= HEADER_SCRATCH_TIER1
    \/ MaxHeaders > HEADER_SCRATCH_TIER1 /\ n <= MAX_HEADERS_CEILING

ParseError(r) ==
    IF Len(r.region) > MaxHead THEN "HeadTooLarge"
    ELSE IF prescan(r.region) # "none" THEN prescan(r.region)
    ELSE IF ~Tokenized(Len(r.headers)) THEN "TooManyHeaders"
    ELSE IF ~validate_request_target(r.target, r.method) THEN "InvalidTarget"
    ELSE IF Len(r.headers) > MaxHeaders THEN "TooManyHeaders"
    ELSE "none"

Parse ==
    /\ stage = "received"
    /\ IF ParseError(request) # "none"
       THEN /\ stage' = "refused"
            /\ verdict' = Refuse(ParseError(request))
            /\ UNCHANGED head
       ELSE /\ stage' = "parsed"
            /\ head' = HeadNew(request.method, request.target, request.version,
                               request.headers)
            /\ UNCHANGED verdict
    /\ UNCHANGED request

-----------------------------------------------------------------------------
(* Host and the target's authority: two names, one request.                *)

\* A Host without a port matches the ports its readers would assume.
SamePort(port, target_port, defaults) ==
    IF port = None THEN target_port \in defaults ELSE port = target_port

\* Host against the authority that the target names.
Reconcile(h, target, defaults) ==
    LET host == all(h, "Host") IN
    IF target = NoAuthority THEN "InvalidAuthority"
    ELSE IF host = <<>> THEN "none"
    ELSE IF host[1] = <<>> THEN "HostMismatch"
    ELSE LET named == parse_authority(host[1]) IN
         IF /\ eq_ignore_ascii_case(named.host, target.host)
            /\ SamePort(named.port, target.port, defaults)
         THEN "none" ELSE "HostMismatch"

DefaultPort == ("http" :> 80) @@ ("https" :> 443)

\* The target's authority, with its scheme's port filled in.
WithPort(a, default) ==
    IF a # NoAuthority /\ a.port = None THEN [a EXCEPT !.port = default] ELSE a

check_authority(h) ==
    LET host == all(h, "Host")
        scheme == to_lower(absolute_scheme(h))
    IN IF host # <<>> /\ host[1] # <<>> /\ parse_authority(host[1]) = NoAuthority
       THEN "InvalidHost"
       ELSE IF h.method = "CONNECT"
       THEN LET target == parse_authority(h.target) IN
            IF target.port = None THEN "InvalidAuthority"
            ELSE Reconcile(h, target, {80, 443})
       ELSE IF h.authority_at = NoRange THEN "none"
       ELSE IF scheme \notin {<<s>> : s \in DOMAIN DefaultPort} THEN "UnsupportedScheme"
       ELSE Reconcile(h, WithPort(parse_authority(authority(h)), DefaultPort[scheme[1]]),
                      {DefaultPort[scheme[1]]})

-----------------------------------------------------------------------------
(* The framing fields.                                                     *)

trim_ows(s) ==
    LET kept == {i \in DOMAIN s : s[i] # " "} IN
    IF kept = {} THEN <<>>
    ELSE SubSeq(s, CHOOSE i \in kept : \A j \in kept : i <= j,
                   CHOOSE i \in kept : \A j \in kept : i >= j)

\* What lies between the commas.
Parts(value) ==
    LET Cut(parts, b) == IF b = "," THEN Append(parts, <<>>)
                         ELSE [parts EXCEPT ![Len(parts)] = Append(@, b)]
        of[n \in 0..Len(value)] == IF n = 0 THEN << <<>> >> ELSE Cut(of[n - 1], value[n])
    IN of[Len(value)]

\* The trimmed elements of a comma list.
Elements(value) == [i \in DOMAIN Parts(value) |-> trim_ows(Parts(value)[i])]

\* Of all the fields with that name, in wire order.
AllElements(values) == FlattenSeq([i \in DOMAIN values |-> Elements(values[i])])

\* A decimal number, or None: also when it does not fit in 64 bits.
parse_content_length(e) ==
    LET Add(n, b) == IF n = None \/ ~is_ascii_digit(b) \/ n * 10 + Digit[b] > U64Max
                     THEN None ELSE n * 10 + Digit[b]
        acc[i \in 0..Len(e)] == IF i = 0 THEN 0 ELSE Add(acc[i - 1], e[i])
    IN IF e = <<>> THEN None ELSE acc[Len(e)]

Limited(len) == IF len > MaxBody THEN Refuse("BodyTooLarge") ELSE Kind("Length", len)

\* Every element of every field says the same number; the first that does not
\* parse, or says another, is the reason why not.
ContentLength(values) ==
    LET elements == AllElements(values)
        lens == [i \in DOMAIN elements |-> parse_content_length(elements[i])]
        wrong == {i \in DOMAIN lens : lens[i] = None \/ lens[i] # lens[1]}
        first == CHOOSE i \in wrong : \A j \in wrong : i <= j
    IN IF wrong = {} THEN Limited(lens[1])
       ELSE IF lens[first] = None THEN Refuse("InvalidContentLength")
       ELSE Refuse("DuplicateContentLength")

\* Mutant of IsChunked: codings compared case by case.
ExactCase(coding) == coding = <<"chunked">>

IsChunked(coding) == eq_ignore_ascii_case(coding, <<"chunked">>)

\* `chunked` once, and nothing else but empty elements.
TransferEncoding(values) ==
    LET elements == AllElements(values)
        codings == {i \in DOMAIN elements : elements[i] # <<>>}
        chunked == {i \in codings : IsChunked(elements[i])}
        final == CHOOSE i \in codings : \A j \in codings : j <= i
    IN IF \E i \in DOMAIN values : Contains(values[i], "u") THEN Refuse("ChunkedNotFinal")
       ELSE IF chunked = {} THEN Refuse("UnsupportedTransferEncoding")
       ELSE IF chunked # {final} THEN Refuse("ChunkedNotFinal")
       ELSE IF codings = chunked THEN Kind("Chunked", 0)
       ELSE Refuse("UnsupportedTransferEncoding")

\* Mutant of BodyKind: Transfer-Encoding wins over Content-Length.
EncodingWins(version, lens, codings) ==
    IF codings # <<>>
    THEN IF version = "1.0" THEN Refuse("TransferEncodingOnHttp10")
         ELSE TransferEncoding(codings)
    ELSE IF lens # <<>> THEN ContentLength(lens)
    ELSE Kind("None", 0)

\* The conflict first, then either field.
BodyKind(version, lens, codings) ==
    IF lens # <<>> /\ codings # <<>> THEN Refuse("LengthAndTransferEncoding")
    ELSE IF codings # <<>>
    THEN IF version = "1.0" THEN Refuse("TransferEncodingOnHttp10")
         ELSE TransferEncoding(codings)
    ELSE IF lens # <<>> THEN ContentLength(lens)
    ELSE Kind("None", 0)

\* decide: its five rules in their order.
decide(h) ==
    LET hosts == Len(all(h, "Host")) IN
    IF hosts = 0 /\ h.version = "1.1" THEN Refuse("MissingHost")
    ELSE IF hosts > 1 THEN Refuse("MultipleHost")
    ELSE IF check_authority(h) # "none" THEN Refuse(check_authority(h))
    ELSE BodyKind(h.version, all(h, "ContentLength"), all(h, "TransferEncoding"))

Decide ==
    /\ stage = "parsed"
    /\ verdict' = decide(head)
    /\ stage' = IF verdict'.error = "none" THEN "accepted" ELSE "refused"
    /\ UNCHANGED <<request, head>>

\* A handler, or middleware, rewrites the target: to anything.
SetTarget(t) ==
    /\ stage = "accepted"
    /\ head' = set_target(head, t)
    /\ stage' = "rewritten"
    /\ UNCHANGED <<request, verdict>>

Finished == stage \in {"refused", "rewritten"} /\ UNCHANGED vars

Next ==
    \/ Parse
    \/ Decide
    \/ \E t \in Rewrites : SetTarget(t)
    \/ Finished

Spec == Init /\ [][Next]_vars

-----------------------------------------------------------------------------
(* Properties.                                                             *)

\* What hops with other habits would make of the framing fields.  One takes
\* the first number it finds and another the last, one strips signs and
\* Unicode blanks, one looks for `chunked` anywhere; a hop that speaks
\* HTTP/1.0 does not know Transfer-Encoding.
Loose(e) ==
    LET of[n \in 0..Len(e)] ==
            IF n = 0 THEN <<>>
            ELSE IF e[n] \in {"u", "+", " "} THEN of[n - 1] ELSE Append(of[n - 1], e[n])
    IN of[Len(e)]
IsNumber(e) == e # <<>> /\ \A i \in DOMAIN e : is_ascii_digit(e[i])

OtherReadings(h) ==
    LET lens == {Loose(e) : e \in ToSet(AllElements(all(h, "ContentLength")))}
        codings == {Loose(e) : e \in ToSet(AllElements(all(h, "TransferEncoding")))}
    IN {Kind("Length", PortValue(e)) : e \in {e \in lens : IsNumber(e)}}
       \cup {Kind("Chunked", 0) : e \in {e \in codings : <<"chunked">> = to_lower(e)}}
       \cup {Kind("None", 0) : e \in {e \in codings : lens = {} /\ h.version = "1.0"}}
       \cup (IF lens \cup codings = {} THEN {Kind("None", 0)} ELSE {})

Comma(values) ==
    Head(values) \o FlattenSeq([i \in DOMAIN Tail(values) |-> <<",">> \o Tail(values)[i]])

FieldsOf(id, values) == [i \in DOMAIN values |-> [id |-> id, value |-> values[i]]]

\* The head as a hop may forward it: repeated framing fields combined into
\* one list, and fields of different names in another order.
Joined(h) ==
    LET One(id) == IF all(h, id) = <<>> THEN <<>> ELSE FieldsOf(id, <<Comma(all(h, id))>>)
    IN [h EXCEPT !.headers = One("TransferEncoding") \o One("ContentLength")
                             \o FieldsOf("Host", all(h, "Host"))]

\* decide resolves nothing ambiguously: a request it accepts is framed the
\* same way by every hop, so all agree where the next request begins; and
\* combining fields (RFC 9110 section 5.3) or reordering them on the way here
\* would have changed neither its answer nor its reason.
OneReading ==
    /\ stage = "accepted" => OtherReadings(head) = {verdict}
    /\ head # NoHead /\ stage \in {"accepted", "refused"} => verdict = decide(Joined(head))

\* How other readers take an authority apart: with or without a userinfo, at
\* the first colon or at the last one, outside brackets.
Split(a, i) ==
    LET port == Slice(a, i + 1, Len(a)) IN
    [host |-> to_lower(Slice(a, 0, i)),
     port |-> IF port = <<>> THEN None ELSE IF IsNumber(port) THEN PortValue(port) ELSE -2]

AfterAt(a) ==
    LET at == {i \in DOMAIN a : a[i] = "@"} IN
    IF at = {} THEN a ELSE SubSeq(a, (CHOOSE i \in at : \A j \in at : j <= i) + 1, Len(a))

Cuts(a) ==
    LET colons == {i \in 0..(Len(a) - 1) :
                       a[i + 1] = ":" /\ ~Contains(Slice(a, i, Len(a)), "]")}
    IN IF colons = {} THEN {Len(a)} ELSE colons

NamesIn(a, default) ==
    UNION {{WithPort(Split(b, i), default) : i \in Cuts(b)} : b \in {a, AfterAt(a)}}

\* The ports that a reader of Host may take one without a port to mean.
Assumable(h) ==
    IF h.authority_at = NoRange THEN {80, 443}
    ELSE {DefaultPort[to_lower(absolute_scheme(h))[1]]}

\* check_authority leaves one name: whoever routes an accepted request by Host
\* or by Head::authority, and however it takes either apart, reaches the same
\* host and port.
OneAuthority ==
    stage = "accepted" /\ authority(head) # <<>> =>
        \E default \in Assumable(head) :
            LET names == [a \in {authority(head)} \cup ToSet(all(head, "Host")) |->
                              NamesIn(a, default)]
            IN \A a, b \in DOMAIN names : \A m \in names[a], n \in names[b] : m = n

\* Slicing outside the target panics.
InRange(h) == h.query_at < Len(h.target) /\ h.authority_at.end <= Len(h.target)

\* The target is scheme, authority, path and query put together.
SplitsFit(h) ==
    LET before == IF h.authority_at = NoRange THEN <<>>
                  ELSE absolute_scheme(h) \o <<":", "/", "/">> \o authority(h)
        after == IF h.query_at = None THEN <<>> ELSE <<"?">> \o query(h)
    IN \/ h.target = before \o path(h) \o after
       \/ /\ h.target = before \o after
          /\ path(h) = <<"/">>
          /\ h.authority_at # NoRange

Rooted(h) ==
    h.method = "CONNECT" \/ h.target = <<"*">> \/ Slice(path(h), 0, 1) = <<"/">>

\* The cached splits are in and of the current target, a rewritten one too (an
\* absent path reads as "/"), and the path a router matches on begins with a
\* slash for every target that parsed, except CONNECT's and `*`.
SplitIsExact ==
    /\ head # NoHead => InRange(head) /\ SplitsFit(head)
    /\ stage \in {"parsed", "accepted"} => Rooted(head)

\* The limits are exact: on the head's bytes, on its fields, whichever array
\* they were tokenized into, and on the length it declares.
LimitsExact ==
    /\ stage \notin {"received", "refused"} =>
           Len(request.headers) <= MaxHeaders /\ Len(request.region) <= MaxHead
    /\ verdict.error = "TooManyHeaders" => Len(request.headers) > MaxHeaders
    /\ verdict.error = "HeadTooLarge" => Len(request.region) > MaxHead
    /\ verdict.len <= MaxBody

\* Where lines end, for a reader that wants CRLF, for one that LF is enough
\* for, and for one that takes CR, LF or both.
StrictEnds(s) == {i \in DOMAIN s : s[i] = "n" /\ At(s, i - 1) = "r"}
LfEnds(s) == {i \in DOMAIN s : s[i] = "n"}
AnyEnds(s) == LfEnds(s) \cup {i \in DOMAIN s : s[i] = "r" /\ At(s, i + 1) # "n"}

\* A head that prescan lets through has the same lines for all of them, and
\* none that a reader would unfold into the one before.
LinesReadAlike ==
    stage \notin {"received", "refused"} =>
        LET s == request.region IN
        /\ StrictEnds(s) = LfEnds(s) /\ LfEnds(s) = AnyEnds(s)
        /\ \A i \in LfEnds(s) : At(s, i + 1) # " "

\* r is a request that nothing is wrong with, and its framing fields spell v:
\* one number, in whatever digits and however often, or `chunked`, in
\* whatever case and among empty elements, or there are none.
Spells(r, v) ==
    LET h == HeadNew(r.method, r.target, r.version, r.headers)
        lens == all(h, "ContentLength")
        codings == all(h, "TransferEncoding")
        elements == AllElements(codings)
    IN /\ Len(r.region) <= MaxHead /\ Len(r.headers) <= MaxHeaders
       /\ prescan(r.region) = "none" /\ validate_request_target(r.target, r.method)
       /\ Len(all(h, "Host")) = 1 /\ check_authority(h) = "none"
       /\ \/ v = Kind("None", 0) /\ lens = <<>> /\ codings = <<>>
          \/ /\ lens # <<>> /\ codings = <<>>
             /\ \E n \in 0..MaxBody :
                    /\ n <= U64Max /\ v = Kind("Length", n)
                    /\ \A e \in ToSet(AllElements(lens)) : IsNumber(e) /\ PortValue(e) = n
          \/ /\ v = Kind("Chunked", 0) /\ lens = <<>> /\ codings # <<>> /\ r.version # "1.0"
             /\ \A i \in DOMAIN codings : ~Contains(codings[i], "u")
             /\ \E i \in DOMAIN elements :
                    /\ to_lower(elements[i]) = <<"chunked">>
                    /\ \A j \in DOMAIN elements \ {i} : elements[j] = <<>>

\* A framing written as RFC 9112 section 6 has it, in any spelling, is
\* understood as meant.
UnderstoodAsMeant ==
    stage \in {"accepted", "refused"} /\ request \in DOMAIN Meant =>
        verdict = Meant[request]
============================================================================
