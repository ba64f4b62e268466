---------------------------- MODULE ResponseHead ----------------------------
(***************************************************************************)
(* A handler's response on its way to the wire: write_response's decisions *)
(* (src/conn.rs) and the head that write_head_for makes of them            *)
(* (src/write.rs), over the requests that module Framing accepts.          *)
(*                                                                         *)
(* Values are sequences of symbols as in RequestHead; "crlf" stands for a  *)
(* byte that would end the field, "ctl" for another control byte, and "("  *)
(* for a byte that no token contains.  A field's id is a known one, or     *)
(* "Other(name)", where a handler spelled the name out.  The status line's *)
(* text and the date are left out.                                         *)
(***************************************************************************)
EXTENDS Framing

CONSTANTS
    Answerable,   \* the requests that the responses below are for
    Answers       \* the sets of responses a handler may return

Response == [status : Nat, headers : Seq([id : STRING, value : Seq(STRING)]),
             body : [kind : {"Empty", "Full", "Stream"}, len : Nat], fully_read : BOOLEAN]

ASSUME AnswersAssumption == \A from \in Answers : from \subseteq Response

VARIABLES
    reply,        \* what the handler returned: status, headers, body, fully_read
    answer        \* what is written: status, fields, sends, after

responseVars == <<vars, reply, answer>>

NoReply == [status |-> 0, headers |-> <<>>, body |-> [kind |-> "Empty", len |-> 0],
            fully_read |-> TRUE]
NoAnswer == [status |-> 0, fields |-> <<>>, sends |-> Kind("None", 0), after |-> "none"]

RespondInit == Init /\ reply = NoReply /\ answer = NoAnswer

-----------------------------------------------------------------------------
(* Fields.                                                                 *)

canonical(id) == CASE id = "Other(content-length)" -> "ContentLength"
                   [] id = "Other(transfer-encoding)" -> "TransferEncoding"
                   [] id = "Other(connection)" -> "Connection"
                   [] id = "Other(date)" -> "Date"
                   [] id = "Other(server)" -> "Server"
                   [] OTHER -> id

\* Those elements of s that P holds of.
Only(s, P(_)) == FlattenSeq([i \in DOMAIN s |-> IF P(s[i]) THEN <<s[i]>> ELSE <<>>])

Words == {"close", "CLOSE", "keep-alive", "upgrade", "content-length",
          "transfer-encoding", "hop"}

is_tchar(b) == is_ascii_alphanumeric(b) \/ b \in Words \cup {"+", "-", ".", "*", "%"}

valid_field_value(value) == ~Contains(value, "crlf")
valid_field_name(id) == id # "Other(bad name)"
writable(f) == valid_field_name(f.id) /\ valid_field_value(f.value)

value_has_token(value, token) ==
    \E i \in DOMAIN Elements(value) : eq_ignore_ascii_case(Elements(value)[i], <<token>>)

connection_has_token(h, token) ==
    \E i \in DOMAIN all(h, "Connection") : value_has_token(all(h, "Connection")[i], token)

is_keep_alive(h) ==
    IF h.version = "1.1" THEN ~connection_has_token(h, "close")
    ELSE connection_has_token(h, "keep-alive")

wants_upgrade(h) ==
    h.version = "1.1" /\ all(h, "Upgrade") # <<>> /\ connection_has_token(h, "upgrade")

\* The tokens of a handler's Connection field that are not the server's.
Passed(t) ==
    /\ t # <<>>
    /\ \A i \in DOMAIN t : is_tchar(t[i])
    /\ to_lower(t) \notin {<<"close">>, <<"keep-alive">>, <<"content-length">>, <<"transfer-encoding">>}

connection_tokens(value) == Only(Elements(value), Passed)

\* One field for all of them, if there are any.
Listed(tokens) ==
    IF tokens = <<>> THEN <<>> ELSE <<[id |-> "Connection", value |-> Comma(tokens)]>>

-----------------------------------------------------------------------------
(* The framing of a response.                                              *)

forbids_body_framing(status) == status \in {204, 304} \cup 100..199
content_length_is_descriptive(status) == status = 304
is_final_status(status, upgrade) == status \in 200..599 \/ (status = 101 /\ upgrade)

\* Digits only, and they fit.
parse_len(value) == parse_content_length(value)

\* The last coding, if not the last element, is `chunked`.
EndsChunked(elements) ==
    \E i \in DOMAIN elements :
        /\ IsChunked(elements[i])
        /\ \A j \in DOMAIN elements : j > i => elements[j] = <<>>

te_frames_chunked(value) == ~Contains(value, "u") /\ EndsChunked(Elements(value))

\* Mutant of handler_length_is_stale: the first of several is as good as one.
FirstLengthCounts(value, instances, status, head_request, body_len, competing_te) ==
    \/ forbids_body_framing(status) /\ ~content_length_is_descriptive(status)
    \/ IF content_length_is_descriptive(status) \/ head_request
       THEN parse_len(value) = None \/ competing_te
       ELSE body_len = None \/ parse_len(value) # body_len

handler_length_is_stale(value, instances, status, head_request, body_len, competing_te) ==
    \/ instances > 1
    \/ forbids_body_framing(status) /\ ~content_length_is_descriptive(status)
    \/ IF content_length_is_descriptive(status)
          \/ (head_request /\ ~forbids_body_framing(status))
       THEN parse_len(value) = None \/ competing_te
       ELSE body_len = None \/ parse_len(value) # body_len

connection_field(version, keep_alive) ==
    IF ~keep_alive THEN << <<"close">> >>
    ELSE IF version = "1.0" THEN << <<"keep-alive">> >> ELSE <<>>

BodyLen(body) == IF body.kind = "Stream" THEN None ELSE body.len

\* write_u64.
Decimal(n) ==
    LET of[m \in 0..n] == IF m < 10 THEN <<Digits[m + 1]>>
                          ELSE Append(of[m \div 10], Digits[(m % 10) + 1])
    IN of[n]

\* The fields of that name that can be written.
Emitted(headers, id) == Only(headers, LAMBDA f : writable(f) /\ canonical(f.id) = id)

stale_transfer_encoding(version, status, headers, body) ==
    LET codings == Emitted(headers, "TransferEncoding") IN
    /\ codings # <<>>
    /\ \/ Len(codings) > 1 \/ body.kind # "Stream" \/ version = "1.0"
       \/ forbids_body_framing(status) \/ ~te_frames_chunked(codings[1].value)

\* The handler's coding frames the body.
coded(version, status, headers, body) ==
    /\ Emitted(headers, "TransferEncoding") # <<>>
    /\ ~stale_transfer_encoding(version, status, headers, body)

stale_content_length(version, status, headers, body, head_request) ==
    LET lens == Emitted(headers, "ContentLength") IN
    /\ lens # <<>>
    /\ handler_length_is_stale(lens[1].value, Len(lens), status, head_request, BodyLen(body),
                               coded(version, status, headers, body))

\* What becomes of a handler's field.
Emit(f, stale_length, stale_coding) ==
    LET id == canonical(f.id)
    IN CASE id = "ContentLength" /\ stale_length -> <<>>
         [] id = "TransferEncoding" /\ stale_coding -> <<>>
         [] id = "Connection" -> Listed(connection_tokens(f.value))
         [] OTHER -> IF writable(f) THEN <<[id |-> id, value |-> f.value]>> ELSE <<>>

\* The framing field for a body that nothing else frames.
FramingField(version, body) ==
    IF body.kind # "Stream" THEN <<[id |-> "ContentLength", value |-> Decimal(body.len)]>>
    ELSE IF version = "1.0" THEN <<>>
    ELSE <<[id |-> "TransferEncoding", value |-> <<"chunked">>]>>

\* The fields of the head, in order: the handler's but for stale framing, the
\* server's tokens and what cannot be written; then the server's own.
write_head_for(version, status, headers, body, keep_alive, head_request) ==
    LET stale_coding == stale_transfer_encoding(version, status, headers, body)
        stale_length == stale_content_length(version, status, headers, body, head_request)
        framed == \/ coded(version, status, headers, body)
                  \/ Emitted(headers, "ContentLength") # <<>> /\ ~stale_length
                  \/ forbids_body_framing(status)
    IN FlattenSeq([i \in DOMAIN headers |-> Emit(headers[i], stale_length, stale_coding)])
       \o (IF Emitted(headers, "Date") # <<>> THEN <<>> ELSE <<[id |-> "Date", value |-> <<"a">>]>>)
       \o (IF framed THEN <<>> ELSE FramingField(version, body))
       \o FieldsOf("Connection", IF status = 101 THEN <<>> ELSE connection_field(version, keep_alive))

-----------------------------------------------------------------------------
(* write_response.                                                         *)

\* What goes out behind a head.
Framed(version, body) ==
    IF body.kind # "Stream" THEN Kind("Length", body.len)
    ELSE IF version = "1.1" THEN Kind("Chunked", 0) ELSE Kind("Close", 0)

\* A status no final response can have, and what came with it, is replaced.
Possible(h, r) ==
    IF is_final_status(r.status, wants_upgrade(h)) THEN r
    ELSE [r EXCEPT !.status = 500, !.headers = <<>>, !.body = NoReply.body]

SaysClose(headers) ==
    \E i \in DOMAIN headers :
        canonical(headers[i].id) = "Connection" /\ value_has_token(headers[i].value, "close")

\* A body that only the close will end: not one that is not written.
close_delimited(h, r) ==
    /\ h.version = "1.0" /\ r.body.kind = "Stream"
    /\ h.method # "HEAD" /\ ~forbids_body_framing(r.status)

keep_alive(h, given, r) ==
    /\ is_keep_alive(h) /\ given.fully_read
    /\ is_final_status(given.status, wants_upgrade(h))
    /\ ~SaysClose(r.headers)
    /\ ~close_delimited(h, r)

upgrading(h, given) == given.status = 101 /\ wants_upgrade(h) /\ given.fully_read

\* The server's name, unless the handler has one.
WithServer(headers) ==
    IF \E i \in DOMAIN headers : canonical(headers[i].id) = "Server" THEN headers
    ELSE Append(headers, [id |-> "Server", value |-> <<"a">>])

write_response(h, given) ==
    LET r == Possible(h, given)
        keeps == keep_alive(h, given, r) /\ ~upgrading(h, given)
    IN [status |-> r.status,
        fields |-> write_head_for(h.version, r.status, WithServer(r.headers), r.body, keeps,
                                  h.method = "HEAD"),
        sends |-> IF h.method = "HEAD" \/ upgrading(h, given) \/ forbids_body_framing(r.status)
                  THEN Kind("None", 0) ELSE Framed(h.version, r.body),
        after |-> IF upgrading(h, given) THEN "upgrade" ELSE IF keeps THEN "keep" ELSE "close"]

\* A handler may leave unread the body that there is.
MayReturn(r) == r.fully_read \/ verdict.kind = "Chunked" \/ verdict.len > 0

Respond ==
    /\ stage = "accepted" /\ request \in Answerable
    /\ \E from \in Answers : \E r \in from :
           /\ MayReturn(r)
           /\ reply' = r
           /\ answer' = write_response(head, r)
    /\ stage' = "answered"
    /\ UNCHANGED <<request, head, verdict>>

RespondNext ==
    \/ Next /\ UNCHANGED <<reply, answer>>
    \/ Respond
    \/ stage = "answered" /\ UNCHANGED responseVars

RespondSpec == RespondInit /\ [][RespondNext]_responseVars

-----------------------------------------------------------------------------
(* The peer's reading of a head (RFC 9112 sections 6.3 and 9.3).           *)

\* The values of a name's fields, however it is spelled.
Named(a, id) ==
    FlattenSeq([i \in DOMAIN a.fields |->
                    IF canonical(a.fields[i].id) = id THEN <<a.fields[i].value>> ELSE <<>>])

Reads(h, a) ==
    LET lens == Named(a, "ContentLength")
        codings == AllElements(Named(a, "TransferEncoding"))
    IN IF h.method = "HEAD" \/ a.status \in {204, 304} \cup 100..199 THEN Kind("None", 0)
       ELSE CASE h.version = "1.1" /\ EndsChunked(codings) -> Kind("Chunked", 0)
              [] codings = <<>> /\ Len(lens) = 1 /\ IsNumber(lens[1]) -> Kind("Length", PortValue(lens[1]))
              [] OTHER -> Kind("Close", 0)

Tokens(a) == LET ts == AllElements(Named(a, "Connection")) IN
             [i \in DOMAIN ts |-> to_lower(ts[i])]

\* A 2xx to CONNECT is no message with a body to its reader, whatever it says.
Tunnel(h, status) == h.method = "CONNECT" /\ status \in 200..299

ReadsPersistence(h, a) ==
    IF h.version = "1.1" THEN ~Contains(Tokens(a), <<"close">>)
    ELSE Contains(Tokens(a), <<"keep-alive">>) /\ ~Contains(Tokens(a), <<"close">>)

\* Whatever a handler put into its response to anything but a CONNECT that
\* succeeds (BACKENDS.md tells what becomes of those), the peer takes for its body
\* exactly the bytes that follow, by at most one framing field that no hop is
\* told to strip and that a status without a body does not have (a 304's
\* length describes another's); it is told to keep the connection if and only
\* if the server will; and no value ends its field early (write_head_for,
\* handler_length_is_stale, connection_tokens).
ReadAsSent ==
    stage = "answered" /\ ~Tunnel(head, answer.status) =>
        /\ Reads(head, answer) = answer.sends
        /\ answer.sends.kind = "Close" => answer.after = "close"
        /\ Len(Named(answer, "ContentLength")) + Len(Named(answer, "TransferEncoding")) <= 1
        /\ answer.status \in {204} \cup 100..199 =>
               Named(answer, "ContentLength") \o Named(answer, "TransferEncoding") = <<>>
        /\ \A i \in DOMAIN Tokens(answer) :
               Tokens(answer)[i] \notin {<<"content-length">>, <<"transfer-encoding">>}
        /\ answer.status # 101 => (ReadsPersistence(head, answer) <=> answer.after = "keep")
        /\ \A i \in DOMAIN answer.fields : ~Contains(answer.fields[i].value, "crlf")
=============================================================================
