------------------------------ MODULE Chunked ------------------------------
(***************************************************************************)
(* The incremental chunked-body decoder of src/chunked.rs                  *)
(* (ChunkedDecoder::poll and the line, size, extension and trailer parsers *)
(* under it), fed a stream that the network cuts anywhere.                 *)
(*                                                                         *)
(* Bytes are classes: the hex digits "0" "1" "2" "f"; the token characters *)
(* "x" (an ordinary name) and "t" (the name of a field that no trailer may *)
(* carry); the delimiters ";" "=" ":"; DQUOTE "q" and backslash "e"; a     *)
(* blank " "; "@", which fits only in quotes; and "r", "n" for CR and LF.  *)
(* Data is any of them.                                                    *)
(*                                                                         *)
(* The decoder is a pure step on a record, so that the same definition is  *)
(* run packet by packet by the actions and in one go by OneShot.           *)
(***************************************************************************)
EXTENDS Integers, Sequences, SequencesExt

CONSTANTS
    Streams,          \* the byte streams a peer may send
    Meant,            \* of the well-formed ones: the data, and where it ends
    MAX_SIZE_DIGITS,
    ExtRoom,          \* the 256 bytes a size line may have beyond its digits
    MaxBody,          \* Limits::max_body_bytes
    MaxTrailer,       \* Limits::max_head_bytes
    MaxTrailers,      \* Limits::max_headers
    MaxRead           \* bound: bytes that arrive together

Bytes == {"0", "1", "2", "f", "x", "t", ";", "=", ":", "q", "e", " ", "@", "r", "n"}

ASSUME ChunkedAssumption ==
    /\ Streams \subseteq Seq(Bytes)
    /\ DOMAIN Meant \subseteq Streams
    /\ {MAX_SIZE_DIGITS, ExtRoom, MaxBody, MaxTrailer, MaxTrailers, MaxRead}
           \subseteq Nat

VARIABLES
    stream,   \* what the peer sends
    fed,      \* how much of it has arrived
    dec,      \* the decoder, and how much it has consumed and produced
    whole     \* history: the decoder had the stream arrived in one piece

vars == <<stream, fed, dec, whole>>

Errors == {"BadSize", "SizeOverflow", "MissingCrlf", "BodyTooLarge",
           "BadTrailer", "ForbiddenTrailer", "BadExtension", "TrailerTooLarge"}

\* The type of the decoder.  What it has decoded is within max_body at every
\* step, however many chunks announce how much.
TypeOK ==
    /\ stream \in Seq(Bytes)
    /\ fed \in 0..Len(stream)
    /\ dec \in [state : {"Size", "Data", "DataCrlf", "Trailers", "Ending", "Done"},
                remaining : Nat, decoded : 0..MaxBody, trailer_bytes : Nat,
                trailers : 0..MaxTrailers, at : 0..Len(stream),
                data : Seq(Bytes), asks : BOOLEAN, error : Errors \cup {"none"}]

-----------------------------------------------------------------------------
(* Lines.                                                                  *)

HexValue == [c \in {"0", "1", "2", "f"} |->
                CASE c = "0" -> 0 [] c = "1" -> 1 [] c = "2" -> 2 [] c = "f" -> 15]
is_ascii_hexdigit(c) == c \in DOMAIN HexValue
is_tchar(c) == is_ascii_hexdigit(c) \/ c \in {"x", "t"}
Blank(c) == c = " "

\* The length of the longest prefix of s whose bytes satisfy P.
Prefix(s, P(_)) ==
    CHOOSE n \in 0..Len(s) : /\ \A i \in 1..n : P(s[i])
                             /\ n < Len(s) => ~P(s[n + 1])

More == [got |-> "more"]
Err(e) == [got |-> "error", error |-> e]

LineFeed(b) == CHOOSE i \in DOMAIN b : b[i] = "n" /\ \A j \in 1..(i - 1) : b[j] # "n"

\* Mutant of find_line: the bound applies only while the LF is missing.
BoundedUntilLf(b, max, too_long) ==
    IF ~Contains(b, "n")
    THEN IF Len(b) > max THEN Err(too_long) ELSE More
    ELSE LET i == LineFeed(b) IN
         IF i = 1 \/ b[i - 1] # "r" THEN Err("MissingCrlf")
         ELSE [got |-> "line", content |-> i - 2, consumed |-> i]

\* find_line: strict CRLF, and a bound on the content.
find_line(b, max, too_long) ==
    IF ~Contains(b, "n")
    THEN IF Len(b) > max THEN Err(too_long) ELSE More
    ELSE LET i == LineFeed(b) IN
         IF i = 1 \/ b[i - 1] # "r" THEN Err("MissingCrlf")
         ELSE IF i - 2 > max THEN Err(too_long)
         ELSE [got |-> "line", content |-> i - 2, consumed |-> i]

\* check_chunk_ext, as the automaton its loop is: in "gap" between
\* extensions, "semi" after a `;`, in a "name", after it in "named", after
\* the `=` in "eq", in a token "value" or in a "quoted" one.
\* A tab is a blank, and a byte from 0x80 on is "@".
ExtStep(q, c) ==
    CASE q = "gap" /\ Blank(c) -> "gap"
      [] q \in {"gap", "name", "named", "value"} /\ c = ";" -> "semi"
      [] q = "semi" /\ Blank(c) -> "semi"
      [] q \in {"semi", "name"} /\ is_tchar(c) -> "name"
      [] q \in {"name", "named"} /\ Blank(c) -> "named"
      [] q \in {"name", "named"} /\ c = "=" -> "eq"
      [] q = "eq" /\ Blank(c) -> "eq"
      [] q = "eq" /\ c = "q" -> "quoted"
      [] q \in {"eq", "value"} /\ is_tchar(c) -> "value"
      [] q = "value" /\ Blank(c) -> "gap"
      [] q = "quoted" /\ c = "q" -> "gap"
      [] q = "quoted" /\ c = "e" -> "escaped"
      [] q = "quoted" /\ c \notin {"q", "e", "r"} -> "quoted"
      [] q = "escaped" /\ c # "r" -> "quoted"
      [] OTHER -> "bad"

check_chunk_ext(ext) ==
    LET after[n \in 0..Len(ext)] == IF n = 0 THEN "gap" ELSE ExtStep(after[n - 1], ext[n])
    IN after[Len(ext)] \in {"gap", "name", "named", "value"}

\* A size's digits without its leading zeros.
Significant(digits) ==
    SubSeq(digits, Prefix(digits, LAMBDA c : c = "0") + 1, Len(digits))

\* What the hexadecimal digits are worth.
Value(digits) ==
    LET of[n \in 0..Len(digits)] == IF n = 0 THEN 0 ELSE of[n - 1] * 16 + HexValue[digits[n]]
    IN of[Len(digits)]

\* parse_chunk_size: leading zeros count for nothing; MAX_SIZE_DIGITS digits
\* are what the word holds, so the arithmetic itself cannot overflow.
parse_chunk_size(line) ==
    LET n == Prefix(line, is_ascii_hexdigit)
        digits == SubSeq(line, 1, n)
        ext == SubSeq(line, n + 1, Len(line))
        significant == Significant(digits)
    IN IF n = 0 \/ (ext # <<>> /\ ext[1] \notin {";", " "}) THEN Err("BadSize")
       ELSE IF ~check_chunk_ext(ext) THEN Err("BadExtension")
       ELSE IF Len(significant) > MAX_SIZE_DIGITS THEN Err("SizeOverflow")
       ELSE [got |-> "size", size |-> Value(significant)]

\* push_trailer's verdict on one field line, `n` fields being kept already.
push_trailer(line, n) ==
    LET colon == CHOOSE i \in DOMAIN line : line[i] = ":" /\ \A j \in 1..(i - 1) : line[j] # ":"
        name == SubSeq(line, 1, colon - 1)
        value == SubSeq(line, colon + 1, Len(line))
    IN IF Blank(line[1]) \/ n >= MaxTrailers \/ ~Contains(line, ":") THEN "BadTrailer"
       ELSE IF name = <<>> \/ \E i \in DOMAIN name : ~is_tchar(name[i]) THEN "BadTrailer"
       ELSE IF name = <<"t">> THEN "ForbiddenTrailer"
       ELSE IF Contains(value, "r") THEN "BadTrailer" ELSE "none"

-----------------------------------------------------------------------------
(* ChunkedDecoder::poll, one turn of its loop at a time.                   *)

New == [state |-> "Size", remaining |-> 0, decoded |-> 0, trailer_bytes |-> 0,
        trailers |-> 0, at |-> 0, data |-> <<>>, asks |-> FALSE, error |-> "none"]

Asks(d) == [d EXCEPT !.asks = TRUE]
Fails(d, e) == [d EXCEPT !.error = e]

\* Mutant of TooLarge: the declared size on its own.
TooLargeAlone(d, size) == size > MaxBody

\* The declared size is checked with what was decoded before.
TooLarge(d, size) == d.decoded + size > MaxBody

SizeTurn(d, b) ==
    LET l == find_line(b, MAX_SIZE_DIGITS + ExtRoom, "MissingCrlf")
        p == parse_chunk_size(SubSeq(b, 1, l.content))
    IN CASE l.got = "more" -> Asks(d)
         [] l.got = "error" -> Fails(d, l.error)
         [] l.got = "line" /\ p.got = "error" -> Fails(d, p.error)
         [] OTHER ->
            LET e == [d EXCEPT !.at = @ + l.consumed] IN
            IF TooLarge(d, p.size) THEN Fails(e, "BodyTooLarge")
            ELSE IF p.size = 0 THEN [e EXCEPT !.state = "Trailers"]
            ELSE [e EXCEPT !.state = "Data", !.remaining = p.size]

\* What has arrived, up to the rest of this chunk.
Take(d, b) == IF Len(b) < d.remaining THEN Len(b) ELSE d.remaining

\* Mutant of DataTurn: a partial chunk is not counted off.
PartialUncounted(d, b) ==
    LET n == Take(d, b) IN
    IF b = <<>> THEN Asks(d)
    ELSE [d EXCEPT !.at = @ + n, !.decoded = @ + n, !.data = @ \o SubSeq(b, 1, n),
                   !.state = IF n = d.remaining THEN "DataCrlf" ELSE @,
                   !.remaining = IF n = @ THEN 0 ELSE @]

DataTurn(d, b) ==
    LET n == Take(d, b) IN
    IF b = <<>> THEN Asks(d)
    ELSE [d EXCEPT !.at = @ + n, !.remaining = @ - n, !.decoded = @ + n,
                   !.data = @ \o SubSeq(b, 1, n),
                   !.state = IF n = d.remaining THEN "DataCrlf" ELSE @]

DataCrlfTurn(d, b) ==
    IF Len(b) < 2 THEN Asks(d)
    ELSE IF SubSeq(b, 1, 2) # <<"r", "n">> THEN Fails(d, "MissingCrlf")
    ELSE [d EXCEPT !.at = @ + 2, !.state = "Size"]

\* Mutant of Ended: the empty line stays in the buffer.
EmptyLineLeft(d, l) == [d EXCEPT !.state = "Ending"]

\* The empty line, consumed, ends the trailers.
Ended(d, l) == [d EXCEPT !.at = @ + l.consumed, !.state = "Ending"]

TrailersTurn(d, b) ==
    LET l == find_line(b, MaxTrailer, "TrailerTooLarge") IN
    CASE l.got = "more" -> Asks(d)
      [] l.got = "error" -> Fails(d, l.error)
      [] OTHER ->
         LET e == [d EXCEPT !.trailer_bytes = @ + l.consumed]
             verdict == push_trailer(SubSeq(b, 1, l.content), d.trailers)
         IN IF e.trailer_bytes > MaxTrailer THEN Fails(e, "TrailerTooLarge")
            ELSE IF l.content = 0 THEN Ended(e, l)
            ELSE IF verdict # "none"
                 THEN Fails([e EXCEPT !.at = @ + l.consumed], verdict)
            ELSE [e EXCEPT !.at = @ + l.consumed, !.trailers = @ + 1]

Turn(d, b) ==
    CASE d.state = "Size" -> SizeTurn(d, b)
      [] d.state = "Data" -> DataTurn(d, b)
      [] d.state = "DataCrlf" -> DataCrlfTurn(d, b)
      [] d.state = "Trailers" -> TrailersTurn(d, b)
      [] d.state = "Ending" -> [d EXCEPT !.state = "Done"]

Stopped(d) == d.asks \/ d.error # "none" \/ d.state = "Done"

\* A turn with all of stream s there.
Onward(s, d) == IF Stopped(d) THEN d ELSE Turn(d, SubSeq(s, d.at + 1, Len(s)))

\* The decoder given the whole stream at once.  Every turn consumes or stops,
\* so its length and one more is turns enough.
OneShot(s) ==
    LET after[n \in 0..(Len(s) + 1)] == IF n = 0 THEN New ELSE Onward(s, after[n - 1])
    IN after[Len(s) + 1]

-----------------------------------------------------------------------------
Init ==
    /\ stream \in Streams
    /\ fed = 0
    /\ dec = New
    /\ whole = OneShot(stream)

\* One turn of poll's loop, on what has arrived and is not consumed.
Poll ==
    /\ ~Stopped(dec)
    /\ dec' = Turn(dec, SubSeq(stream, dec.at + 1, fed))
    /\ UNCHANGED <<stream, fed, whole>>

\* The decoder asked for more, and some arrives: poll is called again.
Feed(k) ==
    /\ dec.asks
    /\ fed + k <= Len(stream)
    /\ fed' = fed + k
    /\ dec' = [dec EXCEPT !.asks = FALSE]
    /\ UNCHANGED <<stream, whole>>

\* The body is over, refused, or cut short by the peer.
Over ==
    /\ Stopped(dec)
    /\ dec.asks => fed = Len(stream)
    /\ UNCHANGED vars

Next == Poll \/ (\E k \in 1..MaxRead : Feed(k)) \/ Over

Spec == Init /\ [][Next]_vars

-----------------------------------------------------------------------------
(* A body as its sender frames it.                                         *)

\* Line t and its CRLF stand in w behind the first i bytes.
LineAt(w, i, t) ==
    /\ i + Len(t) + 2 <= Len(w)
    /\ \A j \in 1..Len(t) : w[i + j] = t[j]
    /\ w[i + Len(t) + 1] = "r" /\ w[i + Len(t) + 2] = "n"

\* No LF in t.
OneLine(t) == \A j \in 1..Len(t) : t[j] # "n"

\* A line that says a chunk of z bytes follows.
SizeLine(t, z) ==
    /\ OneLine(t)
    /\ Len(t) <= MAX_SIZE_DIGITS + ExtRoom
    /\ parse_chunk_size(t) = [got |-> "size", size |-> z]

\* Layout l of stream w: chunks, each a size line and its data, at[j] and
\* data[j] being where chunk j ends and the data up to it; the last size line;
\* and fields, ft[j] being where field j ends, with the empty line behind them.
Laid(w, l) ==
    LET k == Len(l.chunks)
        n == Len(l.fields) IN
    /\ l.chunks \in Seq([line : Seq(Bytes), data : Seq(Bytes)])
    /\ l.last \in Seq(Bytes) /\ l.fields \in Seq(Seq(Bytes))
    /\ l.at \in [0..k -> Nat] /\ l.data \in [0..k -> Seq(Bytes)] /\ l.ft \in [0..n -> Nat]
    /\ l.at[0] = 0 /\ l.data[0] = <<>>
    /\ \A j \in 1..k :
          LET c == l.chunks[j]
              i == l.at[j - 1] + Len(c.line) + 2 IN
          /\ LineAt(w, l.at[j - 1], c.line) /\ SizeLine(c.line, Len(c.data)) /\ Len(c.data) > 0
          /\ LineAt(w, i, c.data) /\ l.at[j] = i + Len(c.data) + 2
          /\ l.data[j] = l.data[j - 1] \o c.data /\ Len(l.data[j]) <= MaxBody
    /\ LineAt(w, l.at[k], l.last) /\ SizeLine(l.last, 0)
    /\ l.ft[0] = l.at[k] + Len(l.last) + 2
    /\ \A j \in 1..n :
          /\ LineAt(w, l.ft[j - 1], l.fields[j]) /\ l.ft[j] = l.ft[j - 1] + Len(l.fields[j]) + 2
          /\ Len(l.fields[j]) > 0 /\ OneLine(l.fields[j])
          /\ push_trailer(l.fields[j], j - 1) = "none"
    /\ LineAt(w, l.ft[n], <<>>)
    /\ \A j \in 0..n : l.ft[j] + 2 - l.ft[0] <= MaxTrailer

-----------------------------------------------------------------------------
(* Properties.                                                             *)

Verdict(d) == IF d.error # "none" THEN "refused"
              ELSE IF d.state = "Done" THEN "done" ELSE "asks"

\* The decoder is done with everything that will arrive.
Settled == Stopped(dec) /\ (dec.asks => fed = Len(stream))

\* find_line: "the outcome cannot depend on how the peer packetized its
\* writes".  However the stream is cut, the body is accepted or refused as it
\* would be in one piece, with the same data and the same bytes left over.
PacketsDoNotMatter ==
    Settled =>
        /\ Verdict(dec) = Verdict(whole)
        /\ Verdict(dec) # "refused" =>
               dec.data = whole.data /\ dec.at = whole.at

\* A chunk-size line of exactly the length allowed stands in the stream.
LineAtLimit ==
    \E i \in 0..Len(stream) :
        LET b == SubSeq(stream, i + 1, Len(stream))
            l == find_line(b, Len(b), "none")
        IN /\ i = 0 \/ stream[i] = "n"
           /\ l.got = "line" /\ l.content = MAX_SIZE_DIGITS + ExtRoom

\* The same, for every stream without a line at the limit; and with one, a
\* cut may turn an accepted body into a refused one, but never the reverse,
\* and never changes the data or where the body ends.
PacketsDecodeAlike ==
    Settled =>
        \/ /\ Verdict(dec) = Verdict(whole)
           /\ Verdict(dec) # "refused" =>
                  dec.data = whole.data /\ dec.at = whole.at
        \/ LineAtLimit /\ Verdict(dec) = "refused"

\* A body framed as RFC 9112 has it is decoded to what the sender put in,
\* whatever its extensions, leading zeros, trailers and data bytes, and leaves
\* the next request's bytes alone.  (A sender that keeps below the limits.)
DecodesWhatWasMeant ==
    stream \in DOMAIN Meant /\ Settled /\ ~LineAtLimit =>
        /\ dec.error = "none" /\ dec.state = "Done"
        /\ dec.data = Meant[stream].data
        /\ dec.at = Meant[stream].ends

\* Nothing decoded is ever taken back: at every point of every packetization
\* the data handed to the handler is a prefix of the one-piece decoding.
DataIsFinal == IsPrefix(dec.data, whole.data)
=============================================================================
