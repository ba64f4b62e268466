------------------------------- MODULE Bridge -------------------------------
(***************************************************************************)
(* The same request and response through the hyper backend                 *)
(* (src/backend/hyper/bridge.rs): convert_head and decide on the way in,   *)
(* Bridge::call's decisions and convert_response on the way out.           *)
(*                                                                         *)
(* What hyper does on either side of it is external, and here as the       *)
(* bridge and BACKENDS.md have it: a head comes with its target put        *)
(* together again by http::Uri and with one framing of the two it may have *)
(* been sent with; a response gets the framing field that its body's size  *)
(* hint calls for (body.rs), unless the handler's length survived or the   *)
(* response opens a tunnel.  Heads that hyper refuses by itself never get  *)
(* to the bridge.                                                          *)
(***************************************************************************)
EXTENDS ResponseHead

-----------------------------------------------------------------------------
(* The head that hyper hands over.                                         *)

UpTo(t, b) == LET at == Position(t, LAMBDA c : c = b) IN IF at = None THEN t ELSE Slice(t, 0, at)

\* Known schemes are put in lower case.
UriScheme(s) == IF to_lower(s) \in {<<"http">>, <<"https">>} THEN to_lower(s) ELSE s

\* A path has lost its fragment; an absolute target without one has a slash.
UriTarget(t) ==
    LET s == UpTo(t, "#")
        a == find_absolute_authority(s)
    IN IF At(t, 1) = "/" THEN s
       ELSE IF ~AbsoluteForm(t) THEN t
       ELSE UriScheme(Slice(s, 0, a.start - 3)) \o Slice(s, a.start - 3, a.end)
            \o (IF At(s, a.end + 1) = "/" THEN <<>> ELSE <<"/">>) \o Slice(s, a.end, Len(s))

\* Sent with a length and with chunked as its coding.
TwiceFramed(headers) ==
    /\ Values(headers, "ContentLength") # <<>>
    /\ EndsChunked(AllElements(Values(headers, "TransferEncoding")))

\* The coding wins: then the lengths are gone, and hyper closes after the answer.
HyperFields(headers) ==
    IF TwiceFramed(headers) THEN Only(headers, LAMBDA f : f.id # "ContentLength") ELSE headers

HyperHead(r) == HeadNew(r.method, UriTarget(r.target), r.version, HyperFields(r.headers))

-----------------------------------------------------------------------------
(* convert_head.                                                           *)

\* A sign and blanks around it do not keep Rust from parsing a number.
Bare(value) ==
    LET t == trim_ows(value) IN IF t # <<>> /\ t[1] = "+" THEN Tail(t) ELSE t

\* The last length that parses.
DeclaredLen(headers) ==
    LET lens == {i \in DOMAIN headers : /\ headers[i].id = "ContentLength"
                                        /\ parse_content_length(Bare(headers[i].value)) # None}
        last == CHOOSE i \in lens : \A j \in lens : j <= i
    IN IF lens = {} THEN None ELSE parse_content_length(Bare(headers[last].value))

\* The head's bytes, with the target's as http::Uri has it.  Padding of values
\* and dropped fields, by which hyper's count is short, are counted here.
Counted(r) == Len(r.region) - Len(r.target) + Len(UriTarget(r.target))

\* Mutant of convert_head: a target that http::Uri parses is good enough.
AnyTarget(r) ==
    LET h == HyperHead(r) IN
    IF Len(h.headers) > MaxHeaders THEN "TooManyHeaders"
    ELSE IF Counted(r) > MaxHead THEN "HeadTooLarge"
    ELSE IF DeclaredLen(h.headers) > MaxBody THEN "BodyTooLarge"
    ELSE "none"

convert_head(r) ==
    LET h == HyperHead(r) IN
    IF Len(h.headers) > MaxHeaders THEN "TooManyHeaders"
    ELSE IF Counted(r) > MaxHead THEN "HeadTooLarge"
    ELSE IF ~validate_request_target(h.target, h.method) THEN "InvalidTarget"
    ELSE IF DeclaredLen(h.headers) > MaxBody THEN "BodyTooLarge"
    ELSE "none"

BridgeVerdict(r) ==
    IF convert_head(r) # "none" THEN Refuse(convert_head(r)) ELSE decide(HyperHead(r))

-----------------------------------------------------------------------------
(* convert_response.                                                       *)

\* HeaderValue takes no control byte at all.
HeaderValue(value) == valid_field_value(value) /\ ~Contains(value, "ctl")

\* Bodies that the status forbids are dropped.
Allowed(r) == IF forbids_body_framing(r.status) THEN [r EXCEPT !.body = NoReply.body] ELSE r

\* One Connection value: the handler's tokens, then the server's.
Joint(headers, own) ==
    LET Of(f) == IF canonical(f.id) = "Connection" THEN connection_tokens(f.value) ELSE <<>>
    IN Listed(FlattenSeq([i \in DOMAIN headers |-> Of(headers[i])]) \o own)

\* Mutant of Kept: each length is judged by itself.
OneByOne(f, r, head_request, instances) ==
    CASE canonical(f.id) = "ContentLength" ->
             ~handler_length_is_stale(f.value, 1, r.status, head_request, BodyLen(r.body), FALSE)
      [] canonical(f.id) \in {"TransferEncoding", "Connection"} -> FALSE
      [] OTHER -> valid_field_name(f.id) /\ HeaderValue(f.value)

Kept(f, r, head_request, instances) ==
    CASE canonical(f.id) = "ContentLength" ->
             ~handler_length_is_stale(f.value, instances, r.status, head_request,
                                      BodyLen(r.body), FALSE)
      [] canonical(f.id) \in {"TransferEncoding", "Connection"} -> FALSE
      [] OTHER -> valid_field_name(f.id) /\ HeaderValue(f.value)

convert_response(r, version, keeps, head_request) ==
    LET lens == Only(r.headers, LAMBDA f : /\ canonical(f.id) = "ContentLength"
                                           /\ valid_field_value(f.value))
        Converted(f) == IF Kept(f, r, head_request, Len(lens))
                        THEN <<[id |-> canonical(f.id), value |-> f.value]>> ELSE <<>>
        own == IF r.status = 101 THEN <<>> ELSE connection_field(version, keeps)
    IN WithServer(FlattenSeq([i \in DOMAIN r.headers |-> Converted(r.headers[i])]))
       \o Joint(r.headers, own)

\* hyper's own framing field, of a response that has a body to frame.
HyperFraming(version, status, fields, body, head_request, tunnel) ==
    LET measured == \E i \in DOMAIN fields : canonical(fields[i].id) = "ContentLength" IN
    IF measured \/ forbids_body_framing(status) \/ head_request \/ tunnel THEN <<>>
    ELSE FramingField(version, body)

\* Bridge::call, from the handler's return on.  hyper takes a tunnel off HTTP,
\* and it is dropped, since only a 101 fills the upgrade slot.
bridge_response(h, given) ==
    LET r == Allowed(Possible(h, given))
        is_head == h.method = "HEAD"
        tunnel == Tunnel(h, r.status)
        force_close == ~upgrading(h, given)
                       /\ (~given.fully_read \/ ~is_final_status(given.status, wants_upgrade(h)))
        keeps == /\ is_keep_alive(h) /\ ~force_close
                 /\ ~close_delimited(h, r) /\ ~SaysClose(r.headers)
        fields == convert_response(r, h.version, keeps, is_head)
    IN [status |-> r.status,
        fields |-> fields \o HyperFraming(h.version, r.status, fields, r.body, is_head, tunnel),
        sends |-> IF is_head \/ tunnel \/ forbids_body_framing(r.status) THEN Kind("None", 0)
                  ELSE Framed(h.version, r.body),
        after |-> IF upgrading(h, given) THEN "upgrade"
                  ELSE IF keeps /\ ~tunnel THEN "keep" ELSE "close"]

BridgeResponds ==
    /\ stage = "accepted" /\ request \in Answerable
    /\ \E from \in Answers : \E r \in from :
           /\ MayReturn(r)
           /\ reply' = r
           /\ answer' = bridge_response(head, r)
    /\ stage' = "answered"
    /\ UNCHANGED <<request, head, verdict>>

BridgeNext == RespondNext \/ BridgeResponds

BridgeSpec == RespondInit /\ [][BridgeNext]_responseVars

-----------------------------------------------------------------------------
(* Properties.                                                             *)

\* A handler's own fields, apart from those the server decides on, and one
\* with a control byte, which only the native writer lets through.
Others(a) ==
    LET own == {"ContentLength", "TransferEncoding", "Connection", "Date", "Server"} IN
    Only(a.fields, LAMBDA f : f.id \notin own /\ HeaderValue(f.value))

\* A handler, or a router, finds the same request in either head.
SameRequest(h, g) == path(h) = path(g) /\ query(h) = query(g) /\ authority(h) = authority(g)

\* Native and bridged requests, but for line ends (BACKENDS.md, rows 1 to 3).
RequestsAgree ==
    stage \in {"accepted", "refused"} /\ prescan(request.region) = "none" =>
        LET bridged == BridgeVerdict(request) IN
        /\ verdict.error = "none" /\ Counted(request) <= MaxHead =>
               bridged = verdict /\ SameRequest(head, HyperHead(request))
        /\ bridged.error = "none" =>
               \/ verdict.error = "none"
               \/ Contains(request.target, "#")
               \/ TwiceFramed(request.headers) /\ bridged = Kind("Chunked", 0)

\* Native and bridged responses: what of them a peer can tell apart.
ResponsesAgree ==
    stage = "answered" /\ ~Tunnel(head, answer.status) =>
        LET native == write_response(head, reply)
            hyper == bridge_response(head, reply)
        IN /\ native.status = hyper.status
           /\ native.after = hyper.after
           /\ Reads(head, native) = Reads(head, hyper)
           /\ head.method # "HEAD" =>
                  Named(native, "ContentLength") = Named(hyper, "ContentLength")
           /\ Tokens(native) = Tokens(hyper)
           /\ Others(native) = Others(hyper)

\* The backends are one server but for what BACKENDS.md lists.  Of the heads
\* that hyper hands over, the bridge accepts those that the native backend
\* accepts, unless http::Uri's slash is a byte too many for the limit, with the
\* same framing and the same path, query and authority; and, padding aside,
\* none that the native backend refuses, except without the fragment, or as
\* chunked without the length, that it came with.  To one response, other than a 2xx to CONNECT, they
\* give the same status, delimit its body alike, state the same length for it
\* (a HEAD's, where the handler stated none, is hyper's affair), send the same
\* other fields and Connection tokens in the same order, and do the same with
\* the connection.
BackendsAgree == RequestsAgree /\ ResponsesAgree
=============================================================================
