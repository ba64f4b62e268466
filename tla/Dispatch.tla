------------------------------ MODULE Dispatch ------------------------------
(***************************************************************************)
(* What happens to an accepted connection before it is served: dispatch    *)
(* and peek_preface (src/server.rs), is_h2c_preface and negotiated_h2      *)
(* (src/tls.rs).                                                           *)
(*                                                                         *)
(* A peer's bytes are units: input.stream is everything it will ever send, *)
(* `pos` how much of it has left the socket.  A unit's `c` is the class    *)
(* that the preface is told by; what else a unit is concerns only those    *)
(* who take the connection over.                                           *)
(***************************************************************************)
EXTENDS PhaseClock, Sequences

CONSTANTS
    Inputs,     \* configurations and what a peer sends under them
    Preface     \* H2C_PREFACE, as classes of units

VARIABLES
    input,      \* [tls, detect_h2c, h2 : BOOLEAN, stream, reqs]
    stage,      \* who has the connection: dispatch, a backend, or nobody
    pos,        \* units read off the socket
    buffered,   \* units handed to the backend with the connection
    eof,        \* the peer has closed its side
    left,       \* time left of the deadline of dispatch, or of a 408
    fate        \* how it ended

dispatchVars == <<input, stage, pos, buffered, eof, left, fate>>

Units(first, last) == [i \in 1..(last - first + 1) |-> first + i - 1]

Classes(n) == [i \in 1..n |-> input.stream[i].c]

DispatchInit ==
    /\ input \in Inputs
    /\ stage = IF input.tls THEN "tls" ELSE IF input.detect_h2c THEN "peek" ELSE "serve"
    /\ pos = 0
    /\ buffered = <<>>
    /\ eof = FALSE
    /\ left = HeaderTimeout
    /\ fate = "none"

\* Mutant of is_h2c_preface: the first bytes are enough.
Guesses(buf) ==
    IF buf = <<>> THEN "NeedMore"
    ELSE IF buf[1] = Preface[1] THEN "Http2" ELSE "Http1"

is_h2c_preface(buf) ==
    LET n == Least(Len(buf), Len(Preface)) IN
    IF SubSeq(buf, 1, n) # SubSeq(Preface, 1, n) THEN "Http1"
    ELSE IF Len(buf) >= Len(Preface) THEN "Http2"
    ELSE "NeedMore"

\* The connection goes to the fallback, or nowhere.
Leave(end) == stage' = "over" /\ fate' = end

\* The acceptor has a stream; it has read nothing past the handshake.
Handshaken ==
    /\ stage = "tls"
    /\ IF input.h2 THEN Leave("h2") ELSE stage' = "serve" /\ UNCHANGED fate
    /\ UNCHANGED <<input, pos, buffered, eof, left>>

\* Mutant of PeekLeft: each read has the deadline to itself.
LeftPerRead == HeaderTimeout

\* What a read leaves of the one deadline for the whole preface.
PeekLeft == left

\* A read for the preface, of no more than the room left for it, and what
\* the bytes so far say.
PeekRead ==
    /\ stage = "peek"
    /\ \E n \in 1..(Len(Preface) - pos) :
           /\ pos + n <= Len(input.stream)
           /\ pos' = pos + n
           /\ LET preface == is_h2c_preface(Classes(pos + n)) IN
              /\ stage' = [Http1 |-> "serve", Http2 |-> "over", NeedMore |-> "peek"][preface]
              /\ fate' = IF preface = "Http2" THEN "h2" ELSE fate
              /\ buffered' = IF preface = "NeedMore" THEN <<>> ELSE Units(1, pos + n)
    /\ left' = PeekLeft
    /\ UNCHANGED <<input, eof>>

\* The end of the stream in the middle of a preface: HTTP/1's to deal with.
PeekEof ==
    /\ stage = "peek"
    /\ eof' = TRUE
    /\ stage' = "serve"
    /\ buffered' = Units(1, pos)
    /\ UNCHANGED <<input, pos, left, fate>>

DispatchFails ==
    /\ stage \in {"tls", "peek"}
    /\ Leave("failed")
    /\ UNCHANGED <<input, pos, buffered, eof, left>>

DispatchTimeout ==
    /\ stage \in {"tls", "peek"} /\ left = 0
    /\ Leave("expired")
    /\ UNCHANGED <<input, pos, buffered, eof, left>>

DispatchNext ==
    Handshaken \/ PeekRead \/ PeekEof \/ DispatchFails \/ DispatchTimeout
=============================================================================
