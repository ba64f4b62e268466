---------------------------- MODULE RequestHead ----------------------------
(***************************************************************************)
(* The pure part of a request head: the request-target checks of           *)
(* src/parse.rs, the splits of the target that src/head.rs caches, and the *)
(* authority grammar of src/framing.rs.                                    *)
(*                                                                         *)
(* A byte string is a sequence of symbols.  A symbol is a byte, or a whole *)
(* word ("http", "chunked") that the code only ever compares as a word.    *)
(* "!" stands for a byte no target may contain and "u" for a byte from     *)
(* 0x80 on.  Offsets are the source's: they count from 0.                  *)
(***************************************************************************)
EXTENDS Integers, Sequences, SequencesExt, TLC

Digits == <<"0", "1", "2", "3", "4", "5", "6", "7", "8", "9">>
Digit == [d \in ToSet(Digits) |-> (CHOOSE i \in DOMAIN Digits : Digits[i] = d) - 1]

is_ascii_digit(b) == b \in DOMAIN Digit
is_ascii_alphabetic(b) ==
    b \in {"a", "A", "b", "g", "http", "HTTP", "https", "ftp", "chunked", "CHUNKED", "gzip"}
is_ascii_alphanumeric(b) == is_ascii_alphabetic(b) \/ is_ascii_digit(b)
is_ascii_hexdigit(b) == is_ascii_digit(b) \/ b \in {"a", "A", "b"}

Lowered == [b \in {"A", "HTTP", "CHUNKED", "CLOSE"} |->
                CASE b = "A" -> "a" [] b = "HTTP" -> "http"
                  [] b = "CHUNKED" -> "chunked" [] b = "CLOSE" -> "close"]
to_lower(s) == [i \in DOMAIN s |-> IF s[i] \in DOMAIN Lowered THEN Lowered[s[i]] ELSE s[i]]
eq_ignore_ascii_case(s, t) == to_lower(s) = to_lower(t)

Slice(s, from, to) == SubSeq(s, from + 1, to)
None == -1

\* The offset of the first byte that satisfies P, or None.
Position(s, P(_)) ==
    IF \E i \in DOMAIN s : P(s[i])
    THEN (CHOOSE i \in DOMAIN s : P(s[i]) /\ \A j \in 1..(i - 1) : ~P(s[j])) - 1
    ELSE None

\* The offset of the first "://", or None.
SchemeEnd(s) ==
    LET at == {i \in 0..(Len(s) - 3) : Slice(s, i, i + 3) = <<":", "/", "/">>} IN
    IF at = {} THEN None ELSE CHOOSE i \in at : \A j \in at : i <= j

-----------------------------------------------------------------------------
(* Which targets the parser lets through.                                  *)

PercentOk(s, i) ==
    /\ i + 2 <= Len(s)
    /\ is_ascii_hexdigit(s[i + 1])
    /\ is_ascii_hexdigit(s[i + 2])

TargetBytes == {"-", ".", ":", "/", "?", "[", "]", "@", "*", "+", ",", ";", "=", "%"}

validate_target(t) ==
    /\ t # <<>>
    /\ \A i \in DOMAIN t : /\ is_ascii_alphanumeric(t[i]) \/ t[i] \in TargetBytes
                           /\ t[i] = "%" => PercentOk(t, i)

valid_scheme(s) ==
    /\ s # <<>>
    /\ is_ascii_alphabetic(s[1])
    /\ \A i \in DOMAIN s : is_ascii_alphanumeric(s[i]) \/ s[i] \in {"+", "-", "."}

\* The four forms of RFC 9112 section 3.2, each for the methods that have it.
AuthorityForm(t) == SchemeEnd(t) = None /\ Contains(t, ":") /\ t[1] # "/"
AbsoluteForm(t) == SchemeEnd(t) # None /\ valid_scheme(Slice(t, 0, SchemeEnd(t)))

validate_target_form(t, method) ==
    IF t = <<"*">> THEN method = "OPTIONS"
    ELSE IF method = "CONNECT" THEN AuthorityForm(t)
    ELSE t[1] = "/" \/ AbsoluteForm(t)

validate_request_target(t, method) ==
    validate_target(t) /\ validate_target_form(t, method)

-----------------------------------------------------------------------------
(* The head: the target, and two splits of it that are computed once.      *)

find_query(t) == Position(t, LAMBDA b : b = "?")

NoRange == [start |-> None, end |-> None]

find_absolute_authority(t) ==
    IF \/ t = <<>> \/ t[1] \in {"/", "*"}
       \/ ~AbsoluteForm(t)
    THEN NoRange
    ELSE LET start == SchemeEnd(t) + 3
             n == Position(Slice(t, start, Len(t)), LAMBDA b : b \in {"/", "?", "#"})
         IN [start |-> start, end |-> IF n = None THEN Len(t) ELSE start + n]

HeadNew(method, t, version, headers) ==
    [method |-> method, target |-> t, version |-> version, headers |-> headers,
     query_at |-> find_query(t), authority_at |-> find_absolute_authority(t)]

\* Mutant of set_target: the authority's range is that of the old target.
StaleAuthority(h, t) == [h EXCEPT !.target = t, !.query_at = find_query(t)]

set_target(h, t) ==
    [h EXCEPT !.target = t,
              !.query_at = find_query(t),
              !.authority_at = find_absolute_authority(t)]

\* header::all: the values of a field, in wire order.
Values(headers, id) ==
    LET of[n \in 0..Len(headers)] ==
            IF n = 0 THEN <<>>
            ELSE IF headers[n].id = id THEN Append(of[n - 1], headers[n].value)
            ELSE of[n - 1]
    IN of[Len(headers)]

all(h, id) == Values(h.headers, id)

PathEnd(h) == IF h.query_at = None THEN Len(h.target) ELSE h.query_at

path(h) ==
    IF h.authority_at = NoRange THEN Slice(h.target, 0, PathEnd(h))
    ELSE IF h.authority_at.end < PathEnd(h)
    THEN Slice(h.target, h.authority_at.end, PathEnd(h))
    ELSE <<"/">>

query(h) ==
    IF h.query_at = None THEN <<>> ELSE Slice(h.target, h.query_at + 1, Len(h.target))

absolute_scheme(h) == Slice(h.target, 0, h.authority_at.start - 3)

\* The empty authority stands for none.
authority(h) ==
    IF h.authority_at # NoRange
    THEN Slice(h.target, h.authority_at.start, h.authority_at.end)
    ELSE IF h.method = "CONNECT" THEN h.target
    ELSE IF all(h, "Host") = <<>> THEN <<>> ELSE all(h, "Host")[1]

-----------------------------------------------------------------------------
(* uri-host [ ":" port ].                                                  *)

RegNameBytes == {"-", ".", "*", "+", ",", ";", "="}

\* The common case is one pass; with percent-encodings, the triples are
\* skipped, and no byte inside one can begin another.
valid_reg_name(host) ==
    \A i \in DOMAIN host :
        \/ is_ascii_alphanumeric(host[i]) \/ host[i] \in RegNameBytes
        \/ host[i] = "%" /\ PercentOk(host, i)

MaxPort == 65535
PortValue(digits) ==
    LET of[n \in 0..Len(digits)] == IF n = 0 THEN 0 ELSE of[n - 1] * 10 + Digit[digits[n]]
    IN of[Len(digits)]

valid_port(rest) ==
    \/ rest = <<>>
    \/ /\ rest[1] = ":"
       /\ Len(rest) <= 6
       /\ \A i \in 2..Len(rest) : is_ascii_digit(rest[i])
       /\ PortValue(Tail(rest)) <= MaxPort

valid_host(host) ==
    IF host # <<>> /\ host[1] = "["
    THEN /\ Len(host) > 2
         /\ host[Len(host)] = "]"
         /\ \A i \in 2..(Len(host) - 1) : is_ascii_hexdigit(host[i]) \/ host[i] \in {":", "."}
    ELSE host # <<>> /\ valid_reg_name(host)

\* Where the host ends: after the first "]" of a bracketed one, else before
\* the first ":".
HostEnd(a) ==
    LET bracketed == a # <<>> /\ a[1] = "["
        at == Position(a, LAMBDA b : b = IF bracketed THEN "]" ELSE ":")
    IN IF at = None THEN Len(a) ELSE IF bracketed THEN at + 1 ELSE at

NoAuthority == [host |-> <<>>, port |-> None]

\* Mutant of parse_authority: the host is not checked.
AnyHost(a) ==
    LET rest == Slice(a, HostEnd(a), Len(a)) IN
    IF ~valid_port(rest) THEN NoAuthority
    ELSE [host |-> Slice(a, 0, HostEnd(a)),
          port |-> IF Len(rest) < 2 THEN None ELSE PortValue(Tail(rest))]

parse_authority(a) ==
    LET host == Slice(a, 0, HostEnd(a))
        rest == Slice(a, HostEnd(a), Len(a))
    IN IF ~valid_host(host) \/ ~valid_port(rest) THEN NoAuthority
       ELSE [host |-> host, port |-> IF Len(rest) < 2 THEN None ELSE PortValue(Tail(rest))]
============================================================================
