------------------------- MODULE HeadScannerProofs -------------------------
(***************************************************************************)
(* The resumed search is exact, for every alphabet, buffer bound and read  *)
(* size.  Neither property is inductive by itself: the cursor's meaning    *)
(* must cover terminators that end anywhere up to it, and a head end once  *)
(* found must still be the first one, ahead of the cursor, in a buffer     *)
(* that does not begin with a blank line.                                  *)
(***************************************************************************)
EXTENDS HeadScanner, TLAPS

\* No terminator ends at or before the cursor.
CursorPast == head_end = None => \A e \in HeadEnds(buf, 0) : e > scanned

\* A head end that is known is the whole buffer's first, past the cursor, and
\* no blank line can be dropped ahead of it.
EndKnown ==
    head_end # None =>
        /\ find_head_end(buf, 0, head_end)
        /\ scanned < head_end
        /\ ~(buf[1] = CR /\ buf[2] = LF)

AnswerBacked ==
    /\ answer = "yes" => head_end # None
    /\ answer = "no" => head_end = None /\ scanned = Len(buf)

IInv == TypeOK /\ CursorPast /\ EndKnown /\ AnswerBacked

\* What is left of a sequence once its first n bytes are gone.
LEMMA Remainder ==
    ASSUME NEW b \in Seq(Byte), NEW n \in 0..Len(b)
    PROVE  LET s == SubSeq(b, n + 1, Len(b)) IN
           /\ s \in Seq(Byte)
           /\ Len(s) = Len(b) - n
           /\ \A i \in 1..Len(s) : s[i] = b[n + i]
  OBVIOUS

\* What is where in two joined sequences.
LEMMA Joined ==
    ASSUME NEW b \in Seq(Byte), NEW c \in Seq(Byte)
    PROVE  /\ b \o c \in Seq(Byte)
           /\ Len(b \o c) = Len(b) + Len(c)
           /\ \A i \in 1..Len(b) : (b \o c)[i] = b[i]
  OBVIOUS

\* A read brings a sequence of bytes.
LEMMA ChunksAreSequences == Chunks \subseteq Seq(Byte)
  BY ScannerAssumption DEF Chunks

\* An empty buffer satisfies the invariant.
LEMMA InitHolds == Init => IInv
  BY DEF Init, IInv, TypeOK, CursorPast, EndKnown, AnswerBacked, HeadEnds, None, Byte

\* A step that resets the scan leaves nothing to be wrong about.
LEMMA ResetHolds ==
    ASSUME buf' \in Seq(Byte), ResetScan, answer' = "none"
    PROVE  IInv'
<1>1. \A e \in HeadEnds(buf, 0)' : e > 0
  BY DEF HeadEnds
<1> QED
  BY <1>1 DEF ResetScan, IInv, TypeOK, CursorPast, EndKnown, AnswerBacked, None

\* A read keeps the invariant: it only appends.
LEMMA ReadHolds ==
    ASSUME IInv, NEW bytes \in Chunks, Read(bytes)
    PROVE  IInv'
<1> USE DEF IInv, TypeOK
<1>1. bytes \in Seq(Byte)
  BY ChunksAreSequences
<1>2. /\ buf' \in Seq(Byte)
      /\ Len(buf') >= Len(buf)
      /\ \A i \in 1..Len(buf) : buf'[i] = buf[i]
  BY <1>1, Joined DEF Read
<1>3. ASSUME NEW e \in 4..Len(buf) PROVE EndsAt(buf', e) <=> EndsAt(buf, e)
  <2>1. {e - 3, e - 2, e - 1, e} \subseteq 1..Len(buf)
    BY <1>3
  <2>2. /\ buf'[e - 3] = buf[e - 3] /\ buf'[e - 2] = buf[e - 2]
        /\ buf'[e - 1] = buf[e - 1] /\ buf'[e] = buf[e]
    BY <2>1, <1>2
  <2> QED
    BY <2>2 DEF EndsAt
<1>4. TypeOK'
  BY <1>2 DEF Read
<1>5. CursorPast'
  BY <1>2, <1>3 DEF Read, CursorPast, HeadEnds
<1>6. EndKnown'
  <2> SUFFICES ASSUME head_end # None PROVE EndKnown'
    BY DEF Read, EndKnown
  <2>1. head_end' = head_end /\ scanned' = scanned
    BY DEF Read
  <2>2. head_end \in 4..Len(buf) /\ EndsAt(buf, head_end)
    BY DEF EndKnown, find_head_end, HeadEnds
  <2>3. buf'[1] = buf[1] /\ buf'[2] = buf[2]
    BY <1>2, <2>2
  <2>4. head_end \in 4..Len(buf') /\ EndsAt(buf', head_end)
    BY <1>2, <1>3, <2>2
  <2>5. ASSUME NEW f \in 4..Len(buf'), EndsAt(buf', f) PROVE head_end <= f
    BY <1>2, <1>3, <2>2, <2>5 DEF EndKnown, find_head_end, HeadEnds
  <2> QED BY <2>1, <2>3, <2>4, <2>5 DEF EndKnown, find_head_end, HeadEnds
<1>7. AnswerBacked'
  BY DEF Read, AnswerBacked
<1> QED
  BY <1>4, <1>5, <1>6, <1>7

\* The search, with the blank lines it drops, keeps the invariant.
LEMMA ScanHolds ==
    ASSUME IInv, NEW n \in 0..Len(buf), Scan(n)
    PROVE  IInv'
<1> DEFINE b == SubSeq(buf, n + 1, Len(buf))
           s == Shifted(scanned, n)
<1>t. TypeOK
  BY DEF IInv
<1>1. /\ b \in Seq(Byte)
      /\ Len(b) = Len(buf) - n
      /\ \A i \in 1..Len(b) : b[i] = buf[n + i]
  BY <1>t, Remainder DEF TypeOK
<1>2. buf' = b
  BY DEF Scan
<1>3. s \in 0..Len(b)
  BY <1>t, <1>1 DEF TypeOK, Shifted
<1>4. \A e \in 4..Len(b) : EndsAt(b, e) <=> EndsAt(buf, n + e)
  BY <1>1, <1>t DEF EndsAt, TypeOK
<1>5. ~(Len(b) >= 2 /\ b[1] = CR /\ b[2] = LF)
  BY <1>1, <1>t DEF Scan, BlankLines, TypeOK
\* Blank lines are found only where no head end is known.
<1>6. head_end # None => n = 0
  <2>1. SUFFICES ASSUME head_end # None, n # 0 PROVE FALSE
    OBVIOUS
  <2>2. n >= 2 /\ buf[1] = CR /\ buf[2] = LF
    BY <2>1, <1>t DEF Scan, BlankLines, TypeOK
  <2> QED
    BY <2>1, <2>2 DEF IInv, EndKnown
<1>7. ASSUME head_end = None, NEW e \in HeadEnds(b, 0) PROVE e > s
  <2>1. n + e \in HeadEnds(buf, 0)
    BY <1>7, <1>1, <1>4, <1>t DEF HeadEnds, TypeOK
  <2>2. n + e > scanned
    BY <2>1, <1>7 DEF IInv, CursorPast
  <2> QED
    BY <2>2, <1>t, <1>7 DEF Shifted, TypeOK, HeadEnds
\* What the resumed search does not see, it need not see.
<1>8. ASSUME NEW e \in HeadEnds(b, 0), e > s PROVE e \in HeadEnds(b, Resume(s))
  BY <1>8, <1>3 DEF HeadEnds, Resume
<1>9. HeadEnds(b, Resume(s)) \subseteq HeadEnds(b, 0)
  BY <1>3 DEF HeadEnds, Resume
<1>10. head_end # None => b = buf /\ s = scanned
  BY <1>6, <1>t DEF Shifted, TypeOK
<1>11. CASE Len(b) <= s
  <2>1. head_end = None
    BY <1>11, <1>3, <1>10, <1>t DEF IInv, EndKnown, TypeOK, find_head_end, HeadEnds
  <2>2. scanned' = s /\ answer' = "no" /\ head_end' = head_end
    BY <1>11, <1>3, <1>1 DEF Scan
  <2>3. s = Len(b)
    BY <1>11, <1>3, <1>1
  <2>4. TypeOK'
    BY <1>1, <1>2, <1>3, <2>1, <2>2 DEF TypeOK, None
  <2>5. CursorPast'
    BY <1>2, <1>7, <2>1, <2>2 DEF CursorPast
  <2> QED
    BY <2>1, <2>2, <2>3, <2>4, <2>5, <1>2 DEF IInv, EndKnown, AnswerBacked
<1>12. CASE Len(b) > s /\ HeadEnds(b, Resume(s)) = {}
  <2>1. scanned' = Len(b) /\ answer' = "no" /\ head_end' = head_end
    BY <1>12, <1>3, <1>1 DEF Scan, find_head_end
  <2>2. head_end = None
    <3>1. SUFFICES ASSUME head_end # None PROVE FALSE
      OBVIOUS
    <3>2. head_end \in HeadEnds(b, 0) /\ head_end > s
      BY <3>1, <1>10, <1>t DEF IInv, EndKnown, find_head_end, TypeOK
    <3> QED
      BY <3>2, <1>8, <1>12
  <2>3. HeadEnds(b, 0) = {}
    BY <2>2, <1>7, <1>8, <1>12
  <2>4. TypeOK'
    BY <1>1, <1>2, <2>1, <2>2 DEF TypeOK, None
  <2>5. CursorPast'
    BY <1>2, <2>3 DEF CursorPast
  <2> QED
    BY <2>1, <2>2, <2>4, <2>5, <1>2 DEF IInv, EndKnown, AnswerBacked
<1>13. CASE Len(b) > s /\ HeadEnds(b, Resume(s)) # {}
  <2>1. PICK e \in 1..Len(b) : find_head_end(b, Resume(s), e) /\ head_end' = e
    BY <1>13, <1>3, <1>1 DEF Scan
  <2>2. scanned' = s /\ answer' = "yes"
    BY <1>13, <1>3, <1>1 DEF Scan
  <2>3. \A f \in HeadEnds(b, 0) : f > s
    <3>1. CASE head_end = None
      BY <3>1, <1>7
    <3>2. CASE head_end # None
      <4>1. scanned < head_end /\ \A f \in HeadEnds(buf, 0) : head_end <= f
        BY <3>2 DEF IInv, EndKnown, find_head_end
      <4>2. \A f \in HeadEnds(buf, 0) : f \in Int
        BY <1>t DEF HeadEnds, TypeOK
      <4>3. \A f \in HeadEnds(buf, 0) : f > scanned
        BY <4>1, <4>2, <1>t DEF TypeOK
      <4> QED
        BY <4>3, <3>2, <1>10
    <3> QED
      BY <3>1, <3>2
  <2>4. find_head_end(b, 0, e)
    BY <2>1, <2>3, <1>8, <1>9 DEF find_head_end
  <2>5. e > s /\ e >= 4
    BY <2>3, <2>4 DEF find_head_end, HeadEnds
  <2>6. TypeOK'
    BY <1>1, <1>2, <1>3, <2>1, <2>2 DEF TypeOK
  <2>7. EndKnown'
    BY <1>2, <1>5, <1>1, <2>1, <2>2, <2>4, <2>5 DEF EndKnown
  <2> QED
    BY <2>1, <2>2, <2>5, <2>6, <2>7 DEF IInv, CursorPast, AnswerBacked, None
<1> QED
  BY <1>11, <1>12, <1>13, <1>1, <1>3

\* Every operation keeps the invariant.
LEMMA NextHolds == IInv /\ [Next]_vars => IInv'
<1> SUFFICES ASSUME IInv, [Next]_vars PROVE IInv'
  OBVIOUS
<1>t. TypeOK
  BY DEF IInv
<1>1. ASSUME NEW bytes \in Chunks, Read(bytes) PROVE IInv'
  BY <1>1, ReadHolds
<1>2. ASSUME NEW bytes \in Chunks, PushBack(bytes) PROVE IInv'
  <2>1. bytes \in Seq(Byte)
    BY ChunksAreSequences
  <2>2. buf' \in Seq(Byte)
    BY <1>2, <2>1, <1>t, Joined DEF PushBack, TypeOK
  <2> QED
    BY <1>2, <2>2, ResetHolds DEF PushBack
<1>3. ASSUME NEW n \in 0..Len(buf), Scan(n) PROVE IInv'
  BY <1>3, ScanHolds
<1>4. ASSUME NEW n \in 0..Len(buf), TakeBuffered(n) PROVE IInv'
  <2>1. buf' \in Seq(Byte)
    BY <1>4, <1>t, Remainder DEF TakeBuffered, TypeOK
  <2> QED
    BY <1>4, <2>1, ResetHolds DEF TakeBuffered
<1>5. ASSUME SplitHead PROVE IInv'
  <2>1. buf' \in Seq(Byte)
    BY <1>5, <1>t, Remainder DEF SplitHead, TypeOK
  <2> QED
    BY <1>5, <2>1, ResetHolds DEF SplitHead
<1>6. ASSUME PollFill PROVE IInv'
  <2>1. buf' \in Seq(Byte)
    BY <1>6, <1>t DEF PollFill, TypeOK
  <2> QED
    BY <1>6, <2>1, ResetHolds DEF PollFill
<1>7. ASSUME UNCHANGED vars PROVE IInv'
  BY <1>7 DEF vars, IInv, TypeOK, CursorPast, EndKnown, AnswerBacked, HeadEnds,
              find_head_end, EndsAt
<1> QED
  BY <1>1, <1>2, <1>3, <1>4, <1>5, <1>6, <1>7 DEF Next

\* The invariant holds for ever.
LEMMA Invariance == Spec => []IInv
  BY InitHolds, NextHolds, PTL DEF Spec

\* The cursor and the head end never leave the buffer (has_complete_head and
\* serve slice at them), whatever is read, dropped, taken or put back.
THEOREM ScannerTyped == Spec => []TypeOK
<1>1. IInv => TypeOK
  BY DEF IInv
<1> QED
  BY <1>1, Invariance, PTL

\* A stale cursor never hides a terminator (the comment on `scanned`).
THEOREM NothingHidden == Spec => []CursorHidesNothing
<1>1. IInv => CursorHidesNothing
  BY DEF IInv, TypeOK, CursorPast, CursorHidesNothing, HeadEnds, Resume
<1> QED
  BY <1>1, Invariance, PTL

\* has_complete_head answers, and marks the head's end, as a search of the
\* whole buffer would, for every way the network cuts the stream.
THEOREM ResumedScanIsExact == Spec => []ScanIsExact
<1>1. IInv => ScanIsExact
  BY DEF IInv, TypeOK, CursorPast, EndKnown, AnswerBacked, ScanIsExact, HeadEnds
<1> QED
  BY <1>1, Invariance, PTL
=============================================================================
