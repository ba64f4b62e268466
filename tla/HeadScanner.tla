---------------------------- MODULE HeadScanner ----------------------------
(***************************************************************************)
(* The resumable search for a head's terminator: IoState's `buf`,          *)
(* `scanned` and `head_end`, and has_complete_head (src/conn.rs).          *)
(*                                                                         *)
(* A head cut into many reads is not searched again from its start: the    *)
(* search resumes three bytes before the cursor.  Blank lines are dropped  *)
(* from the front under the cursor's feet, and request bodies take bytes   *)
(* from the same buffer and put them back.  Bytes are CR, LF and others.   *)
(***************************************************************************)
EXTENDS Integers, Sequences

CONSTANTS
    CR, LF,
    Others,     \* every other byte
    MaxRead,    \* bound: bytes one read appends, or a body puts back
    MaxBuf      \* bound: bytes buffered

ASSUME ScannerAssumption ==
    /\ CR # LF /\ CR \notin Others /\ LF \notin Others
    /\ MaxRead \in Nat /\ MaxBuf \in Nat

Byte == {CR, LF} \cup Others

VARIABLES
    buf,        \* IoState::buf
    scanned,    \* how much of it the scanner has searched
    head_end,   \* where the head ends, or None
    answer      \* history: what has_complete_head said of this very buffer

vars == <<buf, scanned, head_end, answer>>

None == 0

\* The type invariant of IoState's scanner fields: a cursor or a head end
\* past the buffer would make the slices of has_complete_head and serve panic.
TypeOK ==
    /\ buf \in Seq(Byte)
    /\ scanned \in 0..Len(buf)
    /\ head_end \in 0..Len(buf)
    /\ answer \in {"none", "yes", "no"}

\* A terminator whose last byte is the e-th.
EndsAt(b, e) ==
    b[e - 3] = CR /\ b[e - 2] = LF /\ b[e - 1] = CR /\ b[e] = LF

\* Where a search that starts after the first `from` bytes finds terminators.
HeadEnds(b, from) == {e \in (from + 4)..Len(b) : EndsAt(b, e)}

\* parse::find_head_end: the first of them.
find_head_end(b, from, e) ==
    /\ e \in HeadEnds(b, from)
    /\ \A f \in HeadEnds(b, from) : e <= f

\* The first n bytes of b are whole CRLFs, and a further one does not follow.
BlankLines(b, n) ==
    /\ n \in 0..Len(b) /\ n % 2 = 0
    /\ \A i \in 1..n : b[i] = IF i % 2 = 1 THEN CR ELSE LF
    /\ ~(n + 2 <= Len(b) /\ b[n + 1] = CR /\ b[n + 2] = LF)

\* Mutant of Resume: an overlap one byte short.
ResumeLate(s) == IF s < 2 THEN 0 ELSE s - 2

\* Where the search resumes: three bytes back, saturating.
Resume(s) == IF s < 3 THEN 0 ELSE s - 3

\* Mutant of Shifted: the cursor stays where it was.
Unshifted(s, n) == s

\* The cursor once n bytes are gone from the front, saturating.
Shifted(s, n) == IF s < n THEN 0 ELSE s - n

Chunks == UNION {[1..k -> Byte] : k \in 1..MaxRead}

-----------------------------------------------------------------------------
Init ==
    /\ buf = <<>>
    /\ scanned = 0
    /\ head_end = None
    /\ answer = "none"

\* poll_read_more: bytes are appended, the cursor stays.
Read(bytes) ==
    /\ Len(buf) + Len(bytes) <= MaxBuf
    /\ buf' = buf \o bytes
    /\ answer' = "none"
    /\ UNCHANGED <<scanned, head_end>>

\* has_complete_head, n bytes of blank lines being at the front.
Scan(n) ==
    /\ BlankLines(buf, n)
    /\ LET b == SubSeq(buf, n + 1, Len(buf))
           s == Shifted(scanned, n)
       IN /\ buf' = b
          /\ \/ /\ Len(b) <= s
                /\ scanned' = s
                /\ answer' = "no"
                /\ UNCHANGED head_end
             \/ /\ Len(b) > s
                /\ \E e \in 1..Len(b) : find_head_end(b, Resume(s), e) /\ head_end' = e
                /\ scanned' = s
                /\ answer' = "yes"
             \/ /\ Len(b) > s
                /\ HeadEnds(b, Resume(s)) = {}
                /\ scanned' = Len(b)
                /\ answer' = "no"
                /\ UNCHANGED head_end

\* reset_scan.
ResetScan == scanned' = 0 /\ head_end' = None

\* serve splits the head off at the end that was found.
SplitHead ==
    /\ answer = "yes"
    /\ buf' = SubSeq(buf, head_end + 1, Len(buf))
    /\ ResetScan
    /\ answer' = "none"

\* take_buffered: a body takes bytes from the front.
TakeBuffered(n) ==
    /\ n \in 0..Len(buf)
    /\ buf' = SubSeq(buf, n + 1, Len(buf))
    /\ ResetScan
    /\ answer' = "none"

\* poll_fill: a body reads, and gets the fresh bytes; the buffer is as before.
PollFill ==
    /\ ResetScan
    /\ answer' = "none"
    /\ UNCHANGED buf

\* push_back: a body returns what it read past its end.
PushBack(bytes) ==
    /\ Len(buf) + Len(bytes) <= MaxBuf
    /\ buf' = bytes \o buf
    /\ ResetScan
    /\ answer' = "none"

Next ==
    \/ \E bytes \in Chunks : Read(bytes) \/ PushBack(bytes)
    \/ \E n \in 0..Len(buf) : Scan(n) \/ TakeBuffered(n)
    \/ SplitHead
    \/ PollFill

Spec == Init /\ [][Next]_vars

-----------------------------------------------------------------------------
\* The field `scanned`: "a stale value can never hide a terminator".  No
\* terminator ends in what a resumed search will skip, however reads cut the
\* stream and whatever was dropped from its front, unless its place is known.
CursorHidesNothing ==
    head_end = None => \A e \in HeadEnds(buf, 0) : e >= Resume(scanned) + 4

\* has_complete_head: "restricting it to a suffix is exact".  Its answer, and
\* the end it leaves for serve to split at, are those of a search of the whole
\* buffer from its first byte.
ScanIsExact ==
    /\ answer = "yes" => find_head_end(buf, 0, head_end)
    /\ answer = "no" => HeadEnds(buf, 0) = {}
=============================================================================
