--------------------------- MODULE ChunkedProofs ---------------------------
(***************************************************************************)
(* Theorems about the chunked decoder of module Chunked, for every stream, *)
(* every cut of it and every value of the limits.                          *)
(*                                                                         *)
(* The argument compares one turn of poll on what has arrived with the     *)
(* turn it would be with the whole stream there (lemma TurnCut): it is the *)
(* same, or the decoder asks, or it moves a part of a chunk and the next   *)
(* turn moves the rest, or it refuses what would be refused, but for a     *)
(* size line at the limit.  So the decoder stays on the way of the one     *)
(* that has it all (invariant OnTheWay), and comes to rest where that one  *)
(* does.  Where that one rests is an induction over the parts of a body as *)
(* its sender lays it out (lemma LaidDecoded).                             *)
(***************************************************************************)
EXTENDS Chunked, SequenceTheorems, WellFoundedInduction, TLAPS

-----------------------------------------------------------------------------
(* What the proofs talk about.                                             *)

\* t is the beginning of u.
Begins(t, u) == Len(t) <= Len(u) /\ \A i \in 1..Len(t) : t[i] = u[i]

\* A line that ends with the LF at i.
Line(i) == [got |-> "line", content |-> i - 2, consumed |-> i]

\* The type of a decoder that has n bytes to decode.
Records(n) ==
    [state : {"Size", "Data", "DataCrlf", "Trailers", "Ending", "Done"},
     remaining : Nat, decoded : 0..MaxBody, trailer_bytes : Nat, trailers : 0..MaxTrailers,
     at : 0..n, data : Seq(Bytes), asks : BOOLEAN, error : Errors \cup {"none"}]

\* What is announced fits, data is decoded only while some is left of the
\* chunk, a size line is looked for behind an LF, and it asks only on its way.
Sound(s, d) ==
    /\ d.decoded + d.remaining <= MaxBody
    /\ d.state = "Data" => d.remaining > 0
    /\ d.state = "Size" => d.at = 0 \/ s[d.at] = "n"
    /\ d.asks => d.state \notin {"Ending", "Done"}

Decoders(s) == {d \in Records(Len(s)) : Sound(s, d)}

\* e is what one turn makes of d when the first f bytes of s have arrived.
Good(s, d, f, e) ==
    /\ e \in Decoders(s)
    /\ d.at <= e.at /\ e.at <= f
    /\ Begins(d.data, e.data)
    /\ Stopped(e) \/ e.at > d.at
    /\ e.asks => e = Asks(d)

\* Every non-empty set of naturals has a least element.
LEMMA Least ==
    ASSUME NEW S, S \subseteq Nat, S # {}
    PROVE  \E n \in S : \A m \in S : n <= m
<1>1. PICK n \in S : \A m \in S : ~(<<m, n>> \in OpToRel(<, Nat))
  BY NatLessThanWellFounded, WFMin
<1>2. \A m \in S : ~(m < n)
  <2> TAKE m \in S
  <2>1. <<m, n>> \in Nat \X Nat
    OBVIOUS
  <2>2. <<m, n>>[1] = m /\ <<m, n>>[2] = n
    OBVIOUS
  <2> QED BY <1>1, <2>1, <2>2 DEF OpToRel
<1> QED BY <1>2

\* Induction over the naturals, for the set S of those that have a property.
LEMMA Induction ==
    ASSUME NEW S, 0 \in S, \A n \in Nat : n \in S => n + 1 \in S
    PROVE  Nat \subseteq S
<1> SUFFICES ASSUME Nat \ S # {} PROVE FALSE
  OBVIOUS
<1>1. PICK n \in Nat \ S : \A m \in Nat \ S : n <= m
  BY Least
<1>2. n # 0 /\ n - 1 \in Nat /\ n - 1 \in S
  BY <1>1
<1> QED BY <1>1, <1>2

-----------------------------------------------------------------------------
(* Prefixes, and what is left of a stream.                                 *)

\* A sequence begins itself, whatever follows it.
LEMMA BeginsConcat ==
    ASSUME NEW S, NEW t \in Seq(S), NEW u \in Seq(S)
    PROVE  t \o u \in Seq(S) /\ Begins(t, t \o u)
<1>1. /\ t \o u \in Seq(S) /\ Len(t \o u) = Len(t) + Len(u) /\ Len(t) \in Nat /\ Len(u) \in Nat
      /\ \A i \in 1..(Len(t) + Len(u)) :
            (t \o u)[i] = IF i <= Len(t) THEN t[i] ELSE u[i - Len(t)]
  BY ConcatProperties
<1>2. ASSUME NEW i \in 1..Len(t) PROVE t[i] = (t \o u)[i]
  BY <1>1
<1> QED BY <1>1, <1>2 DEF Begins

\* To begin is transitive.
LEMMA BeginsTrans ==
    ASSUME NEW S, NEW t \in Seq(S), NEW u \in Seq(S), NEW v \in Seq(S), Begins(t, u), Begins(u, v)
    PROVE  Begins(t, v)
<1>1. Len(t) \in Nat /\ Len(u) \in Nat /\ Len(v) \in Nat
  OBVIOUS
<1> QED BY <1>1 DEF Begins

\* And reflexive.
LEMMA BeginsSelf ==
    ASSUME NEW S, NEW t \in Seq(S)
    PROVE  Begins(t, t)
BY DEF Begins

\* What begins a sequence is a prefix of it.
LEMMA BeginsIsPrefix ==
    ASSUME NEW S, NEW t \in Seq(S), NEW u \in Seq(S), Begins(t, u)
    PROVE  IsPrefix(t, u)
<1>1. Len(t) \in Nat /\ Len(u) \in Nat /\ Len(t) <= Len(u)
  BY DEF Begins
<1>2. /\ SubSeq(t, 1, Len(t)) \in Seq(S) /\ Len(SubSeq(t, 1, Len(t))) = Len(t)
      /\ \A i \in 1..Len(t) : SubSeq(t, 1, Len(t))[i] = t[i]
  BY <1>1
<1>3. /\ SubSeq(u, 1, Len(t)) \in Seq(S) /\ Len(SubSeq(u, 1, Len(t))) = Len(t)
      /\ \A i \in 1..Len(t) : SubSeq(u, 1, Len(t))[i] = u[i]
  BY <1>1
<1>4. SubSeq(t, 1, Len(t)) = SubSeq(u, 1, Len(t))
  BY <1>1, <1>2, <1>3, SeqEqual DEF Begins
<1> QED BY <1>1, <1>4 DEF IsPrefix

\* The same of a part of both that the shorter one has.
LEMMA BeginsSame ==
    ASSUME NEW S, NEW t \in Seq(S), NEW u \in Seq(S), Begins(t, u), NEW n \in 0..Len(t)
    PROVE  SubSeq(t, 1, n) = SubSeq(u, 1, n) /\ SubSeq(t, 1, n) \in Seq(S)
<1>1. Len(t) \in Nat /\ Len(u) \in Nat /\ Len(t) <= Len(u) /\ n <= Len(t) /\ n \in Nat
  BY DEF Begins
<1>2. /\ SubSeq(t, 1, n) \in Seq(S) /\ Len(SubSeq(t, 1, n)) = n
      /\ \A i \in 1..n : SubSeq(t, 1, n)[i] = t[i]
  BY <1>1
<1>3. /\ SubSeq(u, 1, n) \in Seq(S) /\ Len(SubSeq(u, 1, n)) = n
      /\ \A i \in 1..n : SubSeq(u, 1, n)[i] = u[i]
  BY <1>1
<1>4. \A i \in 1..n : t[i] = u[i]
  BY <1>1 DEF Begins
<1> QED BY <1>1, <1>2, <1>3, <1>4, SeqEqual

\* What of s lies between two places.
LEMMA Rest ==
    ASSUME NEW S, NEW s \in Seq(S), NEW f \in 0..Len(s), NEW a \in 0..f
    PROVE  /\ SubSeq(s, a + 1, f) \in Seq(S) /\ Len(SubSeq(s, a + 1, f)) = f - a
           /\ \A i \in 1..(f - a) : SubSeq(s, a + 1, f)[i] = s[a + i]
<1>1. Len(s) \in Nat /\ f \in Nat /\ a \in Nat /\ a <= f /\ f <= Len(s)
  OBVIOUS
<1>2. SubSeq(s, a + 1, f) \in Seq(S) /\ Len(SubSeq(s, a + 1, f)) = f - a
  BY <1>1
<1>3. \A i \in 1..(f - a) : SubSeq(s, a + 1, f)[i] = s[a + i]
  BY <1>1
<1> QED BY <1>2, <1>3

\* What has arrived begins what will.
LEMMA RestBegins ==
    ASSUME NEW S, NEW s \in Seq(S), NEW f \in 0..Len(s), NEW a \in 0..f
    PROVE  Begins(SubSeq(s, a + 1, f), SubSeq(s, a + 1, Len(s)))
<1>1. Len(s) \in Nat /\ f \in Nat /\ a \in Nat /\ a <= f /\ f <= Len(s) /\ a \in 0..Len(s)
      /\ Len(s) \in 0..Len(s)
  OBVIOUS
<1>2. /\ Len(SubSeq(s, a + 1, f)) = f - a
      /\ \A i \in 1..(f - a) : SubSeq(s, a + 1, f)[i] = s[a + i]
  BY Rest
<1>3. /\ Len(SubSeq(s, a + 1, Len(s))) = Len(s) - a
      /\ \A i \in 1..(Len(s) - a) : SubSeq(s, a + 1, Len(s))[i] = s[a + i]
  BY <1>1, Rest
<1> QED BY <1>1, <1>2, <1>3 DEF Begins

-----------------------------------------------------------------------------
(* Lines.                                                                  *)

\* The first LF of what holds one.
LEMMA LineFeedIs ==
    ASSUME NEW b \in Seq(Bytes), Contains(b, "n")
    PROVE  LET i == LineFeed(b) IN
           i \in 1..Len(b) /\ b[i] = "n" /\ \A j \in 1..(i - 1) : b[j] # "n"
<1> DEFINE S == {i \in 1..Len(b) : b[i] = "n"}
<1>1. DOMAIN b = 1..Len(b) /\ Len(b) \in Nat
  OBVIOUS
<1>2. S \subseteq Nat /\ S # {}
  BY DEF Contains
<1>3. PICK i \in S : \A m \in S : i <= m
  <2> HIDE DEF S
  <2> QED BY <1>2, Least
<1>4. ASSUME NEW j \in 1..(i - 1) PROVE b[j] # "n"
  <2>1. j \in 1..Len(b) /\ j < i
    BY <1>1, <1>3
  <2> QED BY <1>1, <1>3, <2>1
<1>5. \E k \in DOMAIN b : b[k] = "n" /\ \A j \in 1..(k - 1) : b[j] # "n"
  BY <1>1, <1>3, <1>4
<1> QED BY <1>1, <1>5 DEF LineFeed

\* There is one first LF.
LEMMA LineFeedOnly ==
    ASSUME NEW b \in Seq(Bytes), NEW i \in 1..Len(b), b[i] = "n", \A j \in 1..(i - 1) : b[j] # "n"
    PROVE  Contains(b, "n") /\ LineFeed(b) = i
<1>1. Len(b) \in Nat /\ Contains(b, "n")
  BY DEF Contains
<1> DEFINE k == LineFeed(b)
<1>2. k \in 1..Len(b) /\ b[k] = "n" /\ \A j \in 1..(k - 1) : b[j] # "n"
  BY <1>1, LineFeedIs
<1> HIDE DEF k
<1>3. ~(k < i) /\ ~(i < k)
  <2>1. ASSUME k < i PROVE FALSE
    <3>1. k \in 1..(i - 1)
      BY <1>1, <1>2, <2>1
    <3> QED BY <1>2, <3>1
  <2>2. ASSUME i < k PROVE FALSE
    <3>1. i \in 1..(k - 1)
      BY <1>1, <1>2, <2>2
    <3> QED BY <1>2, <3>1
  <2> QED BY <2>1, <2>2
<1>4. k = i
  BY <1>1, <1>2, <1>3
<1> QED BY <1>1, <1>4 DEF k

\* What find_line returns: it asks, it fails, or it has the first line.
LEMMA FindLineIs ==
    ASSUME NEW b \in Seq(Bytes), NEW max \in Nat, NEW e
    PROVE  LET l == find_line(b, max, e)
               i == LineFeed(b) IN
           /\ ~Contains(b, "n") /\ Len(b) <= max => l = More
           /\ ~Contains(b, "n") /\ Len(b) > max => l = Err(e)
           /\ Contains(b, "n") /\ (i = 1 \/ b[i - 1] # "r") => l = Err("MissingCrlf")
           /\ Contains(b, "n") /\ i # 1 /\ b[i - 1] = "r" /\ i - 2 > max => l = Err(e)
           /\ Contains(b, "n") /\ i # 1 /\ b[i - 1] = "r" /\ i - 2 <= max => l = Line(i)
<1>1. Len(b) \in Nat
  OBVIOUS
<1>2. Contains(b, "n") => LineFeed(b) \in 1..Len(b)
  BY LineFeedIs
<1> QED BY <1>1, <1>2 DEF find_line, Line

\* Its results, by kind.
LEMMA FindLineTyped ==
    ASSUME NEW b \in Seq(Bytes), NEW max \in Nat, NEW e
    PROVE  LET l == find_line(b, max, e) IN
           \/ l = More
           \/ l = Err(e) \/ l = Err("MissingCrlf")
           \/ \E i \in 2..Len(b) : l = Line(i) /\ b[i] = "n" /\ i - 2 <= max /\ i = LineFeed(b)
<1>1. CASE ~Contains(b, "n")
  BY <1>1, FindLineIs
<1>2. CASE Contains(b, "n")
  <2> DEFINE i == LineFeed(b)
  <2>1. i \in 1..Len(b) /\ b[i] = "n" /\ Len(b) \in Nat
    BY <1>2, LineFeedIs
  <2>2. CASE i = 1 \/ b[i - 1] # "r"
    BY <1>2, <2>2, FindLineIs
  <2>3. CASE i # 1 /\ b[i - 1] = "r" /\ i - 2 > max
    BY <1>2, <2>3, FindLineIs
  <2>4. CASE i # 1 /\ b[i - 1] = "r" /\ i - 2 <= max
    <3>1. find_line(b, max, e) = Line(i)
      BY <1>2, <2>4, FindLineIs
    <3>2. i \in 2..Len(b)
      BY <2>1, <2>4
    <3> QED BY <2>1, <2>4, <3>1, <3>2
  <2>5. i - 2 > max \/ i - 2 <= max
    BY <2>1
  <2> QED BY <2>2, <2>3, <2>4, <2>5
<1> QED BY <1>1, <1>2

\* What more bytes can change of find_line's answer: nothing, once it has a
\* line; and where it fails for want of one, a line of exactly the length
\* allowed may turn out to stand there.
LEMMA FindLineBegins ==
    ASSUME NEW b \in Seq(Bytes), NEW c \in Seq(Bytes), Begins(b, c), NEW max \in Nat, NEW e
    PROVE  \/ find_line(b, max, e) = find_line(c, max, e)
           \/ find_line(b, max, e) = More
           \/ /\ find_line(b, max, e) = Err(e)
              /\ \/ find_line(c, max, e) \in {Err(e), Err("MissingCrlf")}
                 \/ /\ max + 2 \in 2..Len(c) /\ find_line(c, max, e) = Line(max + 2)
                    /\ find_line(c, Len(c), "none") = Line(max + 2)
<1>1. Len(b) \in Nat /\ Len(c) \in Nat /\ Len(b) <= Len(c) /\ \A i \in 1..Len(b) : b[i] = c[i]
  BY DEF Begins
<1>2. CASE Contains(b, "n")
  <2> DEFINE i == LineFeed(b)
  <2>1. i \in 1..Len(b) /\ b[i] = "n" /\ \A j \in 1..(i - 1) : b[j] # "n"
    BY <1>2, LineFeedIs
  <2> HIDE DEF i
  <2>2. i \in 1..Len(c) /\ c[i] = "n" /\ (i # 1 => c[i - 1] = b[i - 1])
    BY <1>1, <2>1
  <2>3. \A j \in 1..(i - 1) : c[j] # "n"
    BY <1>1, <2>1
  <2>4. Contains(c, "n") /\ LineFeed(c) = i
    BY <2>2, <2>3, LineFeedOnly
  <2> QED BY <1>2, <2>2, <2>4, FindLineIs DEF find_line, i
<1>3. CASE ~Contains(b, "n") /\ Len(b) <= max
  BY <1>3, FindLineIs
<1>4. CASE ~Contains(b, "n") /\ Len(b) > max
  <2>1. find_line(b, max, e) = Err(e)
    BY <1>4, FindLineIs
  <2>2. CASE ~Contains(c, "n")
    <3>1. Len(c) > max
      BY <1>1, <1>4
    <3> QED BY <2>1, <2>2, <3>1, FindLineIs
  <2>3. CASE Contains(c, "n")
    <3> DEFINE i == LineFeed(c)
    <3>1. i \in 1..Len(c) /\ c[i] = "n"
      BY <2>3, LineFeedIs
    <3>2. i > Len(b)
      <4>1. ASSUME i <= Len(b) PROVE FALSE
        <5>1. i \in 1..Len(b) /\ b[i] = "n"
          BY <1>1, <3>1, <4>1
        <5> QED BY <1>4, <5>1 DEF Contains
      <4> QED BY <1>1, <3>1, <4>1
    <3>3. CASE i = 1 \/ c[i - 1] # "r"
      BY <2>1, <2>3, <3>3, FindLineIs
    <3>4. CASE i # 1 /\ c[i - 1] = "r" /\ i - 2 > max
      BY <2>1, <2>3, <3>4, FindLineIs
    <3>5. CASE i # 1 /\ c[i - 1] = "r" /\ i - 2 <= max
      <4>1. i = max + 2 /\ i - 2 <= Len(c) /\ max + 2 \in 2..Len(c)
        BY <1>1, <1>4, <3>1, <3>2, <3>5
      <4>2. find_line(c, max, e) = Line(i)
        BY <2>3, <3>5, FindLineIs
      <4>3. find_line(c, Len(c), "none") = Line(i)
        BY <1>1, <2>3, <3>5, <4>1, FindLineIs
      <4> QED BY <2>1, <4>1, <4>2, <4>3
    <3>6. i - 2 > max \/ i - 2 <= max
      BY <3>1
    <3> QED BY <3>3, <3>4, <3>5, <3>6
  <2> QED BY <2>2, <2>3
<1> QED BY <1>1, <1>2, <1>3, <1>4

-----------------------------------------------------------------------------
(* Sizes and trailers.                                                     *)

Hex == {"0", "1", "2", "f"}

\* The digits, and what they are worth.
LEMMA HexIs == DOMAIN HexValue = Hex /\ \A c \in Hex : HexValue[c] \in Nat
<1>1. DOMAIN HexValue = Hex
  BY DEF HexValue, Hex
<1>2. HexValue["0"] = 0 /\ HexValue["1"] = 1 /\ HexValue["2"] = 2 /\ HexValue["f"] = 15
  BY Zenon DEF HexValue
<1> QED BY <1>1, <1>2 DEF Hex

\* A longest prefix in D exists.
LEMMA LongestPrefix ==
    ASSUME NEW s \in Seq(Bytes), NEW D
    PROVE  \E n \in 0..Len(s) : (\A i \in 1..n : s[i] \in D) /\ (n < Len(s) => s[n + 1] \notin D)
<1> DEFINE S == {i \in 1..(Len(s) + 1) : i = Len(s) + 1 \/ s[i] \notin D}
<1>1. Len(s) \in Nat
  OBVIOUS
<1>2. S \subseteq Nat /\ Len(s) + 1 \in S
  BY <1>1
<1>3. PICK k \in S : \A m \in S : k <= m
  <2> HIDE DEF S
  <2> QED BY <1>2, Least
<1>4. k - 1 \in 0..Len(s)
  BY <1>1, <1>3
<1>5. ASSUME NEW i \in 1..(k - 1) PROVE s[i] \in D
  <2>1. i \in 1..(Len(s) + 1) /\ i < k
    BY <1>1, <1>3
  <2> QED BY <1>1, <1>3, <2>1
<1>6. k - 1 < Len(s) => s[(k - 1) + 1] \notin D
  BY <1>1, <1>3
<1> QED BY <1>4, <1>5, <1>6

\* The digits of a size line.
LEMMA DigitsIs ==
    ASSUME NEW s \in Seq(Bytes)
    PROVE  LET n == Prefix(s, is_ascii_hexdigit) IN
           n \in 0..Len(s) /\ \A i \in 1..n : s[i] \in Hex
<1>1. \E n \in 0..Len(s) : (\A i \in 1..n : s[i] \in Hex) /\ (n < Len(s) => s[n + 1] \notin Hex)
  BY LongestPrefix
<1>2. Prefix(s, is_ascii_hexdigit) =
        CHOOSE n \in 0..Len(s) : (\A i \in 1..n : s[i] \in DOMAIN HexValue)
                                 /\ (n < Len(s) => ~(s[n + 1] \in DOMAIN HexValue))
  BY DEF Prefix, is_ascii_hexdigit
<1>3. Prefix(s, is_ascii_hexdigit) =
        CHOOSE n \in 0..Len(s) : (\A i \in 1..n : s[i] \in Hex)
                                 /\ (n < Len(s) => ~(s[n + 1] \in Hex))
  BY <1>2, HexIs
<1> QED BY <1>1, <1>3

\* The digits without their leading zeros are digits.
LEMMA SignificantIs ==
    ASSUME NEW s \in Seq(Hex)
    PROVE  Significant(s) \in Seq(Hex)
<1>1. s \in Seq(Bytes) /\ Len(s) \in Nat
  <2>1. Hex \subseteq Bytes
    BY DEF Hex, Bytes
  <2> QED BY <2>1
<1>2. \E n \in 0..Len(s) : (\A i \in 1..n : s[i] \in {"0"}) /\ (n < Len(s) => s[n + 1] \notin {"0"})
  BY <1>1, LongestPrefix
<1> DEFINE n == Prefix(s, LAMBDA c : c = "0")
<1>3. n = CHOOSE m \in 0..Len(s) : (\A i \in 1..m : s[i] = "0") /\ (m < Len(s) => ~(s[m + 1] = "0"))
  BY DEF Prefix
<1>4. n \in 0..Len(s)
  <2> HIDE DEF n
  <2> QED BY <1>2, <1>3
<1>5. Significant(s) = SubSeq(s, n + 1, Len(s))
  BY DEF Significant
<1> HIDE DEF n
<1>6. Len(s) \in 0..Len(s)
  BY <1>1
<1> QED BY <1>4, <1>5, <1>6, Rest

\* f counts what the first 0, 1, ... of the digits are worth.
Counts(digits, n, f) ==
    f = [i \in 0..n |-> IF i = 0 THEN 0 ELSE f[i - 1] * 16 + HexValue[digits[i]]]

\* It exists, and is a natural throughout.
LEMMA CountExists ==
    ASSUME NEW digits \in Seq(Hex), NEW n \in Nat, n <= Len(digits)
    PROVE  \E f : Counts(digits, n, f)
<1> DEFINE S == {m \in Nat : \E f : Counts(digits, m, f)}
<1>1. 0 \in S
  <2> DEFINE f == [i \in 0..0 |-> 0]
  <2>1. f = [i \in 0..0 |-> IF i = 0 THEN 0 ELSE f[i - 1] * 16 + HexValue[digits[i]]]
    OBVIOUS
  <2> QED BY <2>1 DEF Counts
<1>2. ASSUME NEW m \in Nat, m \in S PROVE m + 1 \in S
  <2>1. PICK f : Counts(digits, m, f)
    BY <1>2
  <2> DEFINE G(x, i) == x * 16 + HexValue[digits[i]]
             g == [i \in 0..(m + 1) |-> IF i <= m THEN f[i] ELSE G(f[i - 1], i)]
  <2>2. \A i \in 0..m : f[i] = IF i = 0 THEN 0 ELSE G(f[i - 1], i)
    BY <2>1 DEF Counts
  <2> HIDE DEF G
  <2>3. ASSUME NEW i \in 0..(m + 1)
        PROVE  g[i] = IF i = 0 THEN 0 ELSE G(g[i - 1], i)
    <3>1. CASE i <= m
      <4>1. i \in 0..m /\ (i # 0 => i - 1 \in 0..m /\ i - 1 \in 0..(m + 1))
        BY <3>1
      <4>2. g[i] = f[i] /\ (i # 0 => g[i - 1] = f[i - 1])
        BY <4>1
      <4> QED BY <4>1, <4>2, <2>2
    <3>2. CASE i = m + 1
      <4>1. i # 0 /\ i - 1 \in 0..(m + 1) /\ i - 1 <= m
        BY <3>2
      <4>2. g[i] = G(f[i - 1], i)
        BY <3>2
      <4>3. g[i - 1] = f[i - 1]
        BY <4>1
      <4> QED BY <4>1, <4>2, <4>3
    <3> QED BY <3>1, <3>2
  <2>4. g = [i \in 0..(m + 1) |-> IF i = 0 THEN 0 ELSE G(g[i - 1], i)]
    <3> HIDE DEF g
    <3>1. g = [i \in 0..(m + 1) |-> g[i]]
      BY DEF g
    <3> QED BY <2>3, <3>1
  <2>5. Counts(digits, m + 1, g)
    <3> HIDE DEF g
    <3> QED BY <2>4 DEF Counts, G
  <2> QED BY <2>5
<1>3. Nat \subseteq S
  <2> HIDE DEF S
  <2> QED BY <1>1, <1>2, Induction
<1> QED BY <1>3

\* What digits are worth is a natural number.
LEMMA ValueIs ==
    ASSUME NEW digits \in Seq(Hex)
    PROVE  Value(digits) \in Nat
<1> DEFINE L == Len(digits)
           f == CHOOSE g : Counts(digits, L, g)
<1>1. L \in Nat
  OBVIOUS
<1>2. Value(digits) = f[L]
  BY DEF Value, Counts
<1>3. Counts(digits, L, f)
  <2>1. \E g : Counts(digits, L, g)
    BY <1>1, CountExists
  <2> QED BY <2>1
<1> HIDE DEF f
<1>4. \A i \in 0..L : f[i] = IF i = 0 THEN 0 ELSE f[i - 1] * 16 + HexValue[digits[i]]
  BY <1>3 DEF Counts
<1> DEFINE S == {i \in Nat : i <= L => f[i] \in Nat}
<1>5. 0 \in S
  BY <1>1, <1>4
<1>6. ASSUME NEW i \in Nat, i \in S PROVE i + 1 \in S
  <2> SUFFICES ASSUME i + 1 <= L PROVE f[i + 1] \in Nat
    OBVIOUS
  <2>1. f[i] \in Nat /\ i + 1 \in 0..L /\ i + 1 # 0 /\ (i + 1) - 1 = i
    BY <1>1, <1>6
  <2>2. HexValue[digits[i + 1]] \in Nat
    <3>1. digits[i + 1] \in Hex
      BY <1>1
    <3> QED BY <3>1, HexIs
  <2>3. f[i + 1] = f[i] * 16 + HexValue[digits[i + 1]]
    BY <1>4, <2>1
  <2> QED BY <2>1, <2>2, <2>3
<1>7. Nat \subseteq S
  <2> HIDE DEF S
  <2> QED BY <1>5, <1>6, Induction
<1> QED BY <1>1, <1>2, <1>7

\* A size line is refused, or says a size.
LEMMA ParseTyped ==
    ASSUME NEW line \in Seq(Bytes)
    PROVE  LET p == parse_chunk_size(line) IN
           \/ p.got = "error" /\ p.error \in Errors
           \/ p.got = "size" /\ p.size \in Nat
<1> DEFINE n == Prefix(line, is_ascii_hexdigit)
           digits == SubSeq(line, 1, n)
           ext == SubSeq(line, n + 1, Len(line))
           v == Value(Significant(digits))
<1>1. parse_chunk_size(line) \in {Err("BadSize"), Err("BadExtension"), Err("SizeOverflow"),
                                  [got |-> "size", size |-> v]}
  BY DEF parse_chunk_size
<1>2. v \in Nat
  <2>1. n \in 0..Len(line) /\ \A i \in 1..n : line[i] \in Hex
    BY DigitsIs
  <2> HIDE DEF n
  <2>2. /\ Len(digits) = n /\ digits \in Seq(Bytes)
        /\ \A i \in 1..n : digits[i] = line[i]
    BY <2>1
  <2> HIDE DEF digits
  <2>3. \A i \in 1..Len(digits) : digits[i] \in Hex
    BY <2>1, <2>2
  <2>4. digits \in Seq(Hex)
    BY <2>2, <2>3
  <2> QED BY <2>4, SignificantIs, ValueIs
<1> HIDE DEF v
<1> QED BY <1>1, <1>2 DEF Err, Errors

\* A trailer is refused, or there was room for it.
LEMMA TrailerTyped ==
    ASSUME NEW line, NEW n \in Nat
    PROVE  /\ push_trailer(line, n) \in Errors \cup {"none"}
           /\ push_trailer(line, n) = "none" => n < MaxTrailers
<1>1. MaxTrailers \in Nat
  BY ChunkedAssumption
<1>2. n >= MaxTrailers => push_trailer(line, n) = "BadTrailer"
  BY DEF push_trailer
<1>3. push_trailer(line, n) \in {"BadTrailer", "ForbiddenTrailer", "none"}
  BY DEF push_trailer
<1> QED BY <1>1, <1>2, <1>3 DEF Errors

-----------------------------------------------------------------------------
(* One turn.                                                               *)

\* The limits are naturals.
LEMMA Limits ==
    /\ MAX_SIZE_DIGITS \in Nat /\ ExtRoom \in Nat /\ MAX_SIZE_DIGITS + ExtRoom \in Nat
    /\ MaxBody \in Nat /\ MaxTrailer \in Nat /\ MaxTrailers \in Nat /\ MaxRead \in Nat
BY ChunkedAssumption

\* The turns of poll, case by case.
LEMMA TurnIs ==
    ASSUME NEW d, NEW b
    PROVE  /\ d.state = "Size" => Turn(d, b) = SizeTurn(d, b)
           /\ d.state = "Data" => Turn(d, b) = DataTurn(d, b)
           /\ d.state = "DataCrlf" => Turn(d, b) = DataCrlfTurn(d, b)
           /\ d.state = "Trailers" => Turn(d, b) = TrailersTurn(d, b)
           /\ d.state = "Ending" => Turn(d, b) = [d EXCEPT !.state = "Done"]
<1>1. d.state = "Size" => Turn(d, b) = SizeTurn(d, b)
  BY Zenon DEF Turn
<1>2. d.state = "Data" => Turn(d, b) = DataTurn(d, b)
  BY Zenon DEF Turn
<1>3. d.state = "DataCrlf" => Turn(d, b) = DataCrlfTurn(d, b)
  BY Zenon DEF Turn
<1>4. d.state = "Trailers" => Turn(d, b) = TrailersTurn(d, b)
  BY Zenon DEF Turn
<1>5. d.state = "Ending" => Turn(d, b) = [d EXCEPT !.state = "Done"]
  BY Zenon DEF Turn
<1> QED BY <1>1, <1>2, <1>3, <1>4, <1>5

\* A size line, read.
Sized(d, i, size) ==
    LET e == [d EXCEPT !.at = @ + i] IN
    IF TooLarge(d, size) THEN Fails(e, "BodyTooLarge")
    ELSE IF size = 0 THEN [e EXCEPT !.state = "Trailers"]
    ELSE [e EXCEPT !.state = "Data", !.remaining = size]

\* What a turn does that looks for a size line.
LEMMA SizeTurnIs ==
    ASSUME NEW d, NEW b
    PROVE  LET l == find_line(b, MAX_SIZE_DIGITS + ExtRoom, "MissingCrlf")
               p == parse_chunk_size(SubSeq(b, 1, l.content))
           IN /\ l.got = "more" => SizeTurn(d, b) = Asks(d)
              /\ l.got = "error" => SizeTurn(d, b) = Fails(d, l.error)
              /\ l.got = "line" /\ p.got = "error" => SizeTurn(d, b) = Fails(d, p.error)
              /\ l.got = "line" /\ p.got = "size" => SizeTurn(d, b) = Sized(d, l.consumed, p.size)
<1> DEFINE l == find_line(b, MAX_SIZE_DIGITS + ExtRoom, "MissingCrlf")
           p == parse_chunk_size(SubSeq(b, 1, l.content))
<1>1. SizeTurn(d, b) =
        CASE l.got = "more" -> Asks(d)
          [] l.got = "error" -> Fails(d, l.error)
          [] l.got = "line" /\ p.got = "error" -> Fails(d, p.error)
          [] OTHER -> Sized(d, l.consumed, p.size)
  BY Zenon DEF SizeTurn, Sized
<1> HIDE DEF l, p
<1>2. l.got = "more" => SizeTurn(d, b) = Asks(d)
  BY <1>1, Zenon
<1>3. l.got = "error" => SizeTurn(d, b) = Fails(d, l.error)
  BY <1>1, Zenon
<1>4. l.got = "line" /\ p.got = "error" => SizeTurn(d, b) = Fails(d, p.error)
  BY <1>1, Zenon
<1>5. l.got = "line" /\ p.got = "size" => SizeTurn(d, b) = Sized(d, l.consumed, p.size)
  BY <1>1, Zenon
<1> QED BY <1>2, <1>3, <1>4, <1>5 DEF l, p

\* A line of the trailer section, read.
Trailed(d, content, i, line) ==
    LET e == [d EXCEPT !.trailer_bytes = @ + i]
        verdict == push_trailer(line, d.trailers)
    IN IF e.trailer_bytes > MaxTrailer THEN Fails(e, "TrailerTooLarge")
       ELSE IF content = 0 THEN [e EXCEPT !.at = @ + i, !.state = "Ending"]
       ELSE IF verdict # "none" THEN Fails([e EXCEPT !.at = @ + i], verdict)
       ELSE [e EXCEPT !.at = @ + i, !.trailers = @ + 1]

\* What a turn does that looks for a trailer.
LEMMA TrailersTurnIs ==
    ASSUME NEW d, NEW b
    PROVE  LET l == find_line(b, MaxTrailer, "TrailerTooLarge")
           IN /\ l.got = "more" => TrailersTurn(d, b) = Asks(d)
              /\ l.got = "error" => TrailersTurn(d, b) = Fails(d, l.error)
              /\ l.got = "line" => TrailersTurn(d, b) =
                    Trailed(d, l.content, l.consumed, SubSeq(b, 1, l.content))
<1> DEFINE l == find_line(b, MaxTrailer, "TrailerTooLarge")
           other == Trailed(d, l.content, l.consumed, SubSeq(b, 1, l.content))
<1>1. TrailersTurn(d, b) = CASE l.got = "more" -> Asks(d)
                             [] l.got = "error" -> Fails(d, l.error)
                             [] OTHER -> other
  BY Zenon DEF TrailersTurn, Trailed, Ended
<1> HIDE DEF l, other
<1>3. l.got = "more" => TrailersTurn(d, b) = Asks(d)
  BY <1>1, Zenon
<1>4. l.got = "error" => TrailersTurn(d, b) = Fails(d, l.error)
  BY <1>1, Zenon
<1>5. l.got = "line" => TrailersTurn(d, b) = other
  BY <1>1, Zenon
<1> QED BY <1>3, <1>4, <1>5 DEF l, other

\* To ask changes nothing else.
LEMMA AsksGood ==
    ASSUME NEW s \in Seq(Bytes), NEW d \in Decoders(s), NEW f \in Nat, d.at <= f,
           d.state \notin {"Ending", "Done"}
    PROVE  Good(s, d, f, Asks(d))
<1>1. d \in Records(Len(s)) /\ Sound(s, d)
  BY DEF Decoders
<1> DEFINE e == Asks(d)
<1>2. /\ e \in Records(Len(s)) /\ e.asks = TRUE /\ e.at = d.at /\ e.data = d.data
      /\ e.state = d.state /\ e.decoded = d.decoded /\ e.remaining = d.remaining
  BY <1>1 DEF Records, Asks
<1>3. Sound(s, e)
  BY <1>1, <1>2 DEF Sound
<1>4. d.at \in Nat /\ d.data \in Seq(Bytes)
  BY <1>1 DEF Records
<1>5. Begins(d.data, e.data)
  BY <1>2, <1>4, BeginsSelf
<1> HIDE DEF e
<1>6. e \in Decoders(s) /\ Stopped(e)
  BY <1>2, <1>3 DEF Decoders, Stopped
<1> QED BY <1>2, <1>4, <1>5, <1>6 DEF Good, e

\* To fail changes nothing else.
LEMMA FailsGood ==
    ASSUME NEW s \in Seq(Bytes), NEW d \in Decoders(s), NEW f \in Nat, d.at <= f, ~Stopped(d),
           NEW x \in Errors
    PROVE  Good(s, d, f, Fails(d, x)) /\ Fails(d, x).error = x /\ Fails(d, x).data = d.data
<1>1. d \in Records(Len(s)) /\ Sound(s, d) /\ ~d.asks
  BY DEF Decoders, Stopped
<1> DEFINE e == Fails(d, x)
<1>2. /\ e \in Records(Len(s)) /\ e.asks = d.asks /\ e.at = d.at /\ e.data = d.data
      /\ e.state = d.state /\ e.decoded = d.decoded /\ e.remaining = d.remaining
      /\ e.error = x
  BY <1>1 DEF Records, Fails
<1>3. Sound(s, e)
  BY <1>1, <1>2 DEF Sound
<1>4. d.at \in Nat /\ d.data \in Seq(Bytes)
  BY <1>1 DEF Records
<1>5. Begins(d.data, e.data)
  BY <1>2, <1>4, BeginsSelf
<1>7. x # "none"
  BY DEF Errors
<1> HIDE DEF e
<1>6. e \in Decoders(s) /\ Stopped(e)
  BY <1>2, <1>3, <1>7 DEF Decoders, Stopped
<1> QED BY <1>1, <1>2, <1>4, <1>5, <1>6 DEF Good, e

\* A turn that goes on, or stops without asking.
LEMMA GoodMoved ==
    ASSUME NEW s, NEW d, NEW f, NEW g, g \in Records(Len(s)), Sound(s, g), d.at <= g.at, g.at <= f,
           Begins(d.data, g.data), Stopped(g) \/ g.at > d.at, g.asks = FALSE
    PROVE  Good(s, d, f, g)
BY DEF Good, Decoders

\* A size line leads on to data, to the trailers, or to nothing.
LEMMA SizedGood ==
    ASSUME NEW s \in Seq(Bytes), NEW d \in Decoders(s), ~Stopped(d), d.state = "Size",
           NEW f \in 0..Len(s), NEW i \in Nat, i > 0, d.at + i <= f, s[d.at + i] = "n",
           NEW size \in Nat
    PROVE  Good(s, d, f, Sized(d, i, size)) /\ Sized(d, i, size).data = d.data
<1>1. d \in Records(Len(s)) /\ Sound(s, d) /\ d.asks = FALSE /\ d.error = "none"
  BY DEF Decoders, Stopped, Records
<1>2. d.at \in Nat /\ d.data \in Seq(Bytes) /\ d.decoded \in Nat /\ Len(s) \in Nat
      /\ d.remaining \in Nat /\ f \in Nat /\ f <= Len(s)
  BY <1>1, Limits DEF Records
<1>3. Begins(d.data, d.data)
  BY <1>2, BeginsSelf
<1> DEFINE e == [d EXCEPT !.at = @ + i]
<1>5. d.at + i > d.at /\ d.at <= d.at + i /\ d.at + i <= f /\ d.at + i \in 0..Len(s)
  BY <1>2
<1>4. /\ e \in Records(Len(s)) /\ e.asks = FALSE /\ e.at = d.at + i /\ e.data = d.data
      /\ e.state = "Size" /\ e.decoded = d.decoded /\ e.remaining = d.remaining
      /\ e.error = "none"
  BY <1>1, <1>5 DEF Records
<1>6. Sound(s, e)
  BY <1>1, <1>4 DEF Sound
<1>7. CASE TooLarge(d, size)
  <2> DEFINE g == Fails(e, "BodyTooLarge")
  <2>1. Sized(d, i, size) = g
    BY <1>7 DEF Sized
  <2> HIDE DEF e
  <2>2. /\ g \in Records(Len(s)) /\ g.asks = FALSE /\ g.at = e.at /\ g.data = d.data
        /\ g.state = e.state /\ g.decoded = e.decoded /\ g.remaining = e.remaining
        /\ g.error = "BodyTooLarge"
    BY <1>4 DEF Records, Fails, Errors
  <2> HIDE DEF g
  <2>3. Sound(s, g) /\ Stopped(g)
    BY <1>6, <2>2 DEF Sound, Stopped
  <2> QED BY <1>3, <1>4, <1>5, <2>1, <2>2, <2>3, GoodMoved
<1>8. CASE ~TooLarge(d, size) /\ size = 0
  <2> DEFINE g == [e EXCEPT !.state = "Trailers"]
  <2>1. Sized(d, i, size) = g
    BY <1>8 DEF Sized
  <2> HIDE DEF e
  <2>2. /\ g \in Records(Len(s)) /\ g.asks = FALSE /\ g.at = e.at /\ g.data = d.data
        /\ g.state = "Trailers" /\ g.decoded = e.decoded /\ g.remaining = e.remaining
        /\ g.error = "none"
    BY <1>4 DEF Records
  <2> HIDE DEF g
  <2>3. Sound(s, g)
    BY <1>6, <2>2 DEF Sound
  <2> QED BY <1>3, <1>4, <1>5, <2>1, <2>2, <2>3, GoodMoved
<1>9. CASE ~TooLarge(d, size) /\ size # 0
  <2> DEFINE g == [e EXCEPT !.state = "Data", !.remaining = size]
  <2>1. Sized(d, i, size) = g
    BY <1>9 DEF Sized
  <2> HIDE DEF e
  <2>2. /\ g \in Records(Len(s)) /\ g.asks = FALSE /\ g.at = e.at /\ g.data = d.data
        /\ g.state = "Data" /\ g.decoded = d.decoded /\ g.remaining = size
        /\ g.error = "none"
    BY <1>4 DEF Records
  <2> HIDE DEF g
  <2>4. d.decoded + size <= MaxBody /\ size > 0
    BY <1>2, <1>9, Limits DEF TooLarge
  <2>3. Sound(s, g)
    BY <2>2, <2>4 DEF Sound
  <2> QED BY <1>3, <1>4, <1>5, <2>1, <2>2, <2>3, GoodMoved
<1> QED BY <1>7, <1>8, <1>9

\* A turn that looks for a size line.
LEMMA SizeGood ==
    ASSUME NEW s \in Seq(Bytes), NEW d \in Decoders(s), ~Stopped(d), d.state = "Size",
           NEW f \in 0..Len(s), d.at <= f
    PROVE  LET e == Turn(d, SubSeq(s, d.at + 1, f)) IN Good(s, d, f, e) /\ e.data = d.data
<1> DEFINE b == SubSeq(s, d.at + 1, f)
           l == find_line(b, MAX_SIZE_DIGITS + ExtRoom, "MissingCrlf")
           p == parse_chunk_size(SubSeq(b, 1, l.content))
           e == Turn(d, b)
<1>1. d.at \in 0..f /\ f \in Nat
  BY DEF Decoders, Records
<1>2. b \in Seq(Bytes) /\ Len(b) = f - d.at /\ \A i \in 1..(f - d.at) : b[i] = s[d.at + i]
  BY <1>1, Rest
<1>3. /\ l.got = "more" => e = Asks(d)
      /\ l.got = "error" => e = Fails(d, l.error)
      /\ l.got = "line" /\ p.got = "error" => e = Fails(d, p.error)
      /\ l.got = "line" /\ p.got = "size" => e = Sized(d, l.consumed, p.size)
  BY TurnIs, SizeTurnIs
<1> HIDE DEF b
<1>4. \/ l = More
      \/ l = Err("MissingCrlf")
      \/ \E i \in 2..Len(b) : l = Line(i) /\ b[i] = "n"
  BY <1>2, Limits, FindLineTyped
<1> HIDE DEF l, p, e
<1>5. CASE l = More
  <2>1. e = Asks(d) /\ Asks(d).data = d.data
    BY <1>3, <1>5 DEF More, Asks, Decoders, Records
  <2> QED BY <1>1, <2>1, AsksGood DEF b, e
<1>6. CASE l = Err("MissingCrlf")
  <2>1. e = Fails(d, "MissingCrlf")
    BY <1>3, <1>6 DEF Err
  <2> QED BY <1>1, <2>1, FailsGood DEF b, e, Errors
<1>7. ASSUME NEW i \in 2..Len(b), l = Line(i), b[i] = "n" PROVE Good(s, d, f, e) /\ e.data = d.data
  <2>1. l.got = "line" /\ l.content = i - 2 /\ l.consumed = i
    BY <1>7 DEF Line
  <2>2. SubSeq(b, 1, i - 2) \in Seq(Bytes)
    <3>1. i - 2 \in 0..Len(b)
      BY <1>7, <1>2
    <3> QED BY <1>2, <3>1, BeginsSelf, BeginsSame
  <2>3. \/ p.got = "error" /\ p.error \in Errors
        \/ p.got = "size" /\ p.size \in Nat
    BY <2>1, <2>2, ParseTyped DEF p
  <2>4. CASE p.got = "error" /\ p.error \in Errors
    BY <1>1, <1>3, <2>1, <2>4, FailsGood
  <2>5. CASE p.got = "size" /\ p.size \in Nat
    <3>1. e = Sized(d, i, p.size)
      BY <1>3, <2>1, <2>5
    <3>2. i \in 1..(f - d.at)
      BY <1>1, <1>2, <1>7
    <3>3. s[d.at + i] = "n"
      BY <1>2, <1>7, <3>2
    <3>4. i \in Nat /\ i > 0 /\ d.at + i <= f
      BY <1>1, <3>2
    <3> QED BY <2>5, <3>1, <3>3, <3>4, SizedGood
  <2> QED BY <2>3, <2>4, <2>5
<1> QED BY <1>4, <1>5, <1>6, <1>7 DEF b, e

\* A turn that moves data.
LEMMA DataGood ==
    ASSUME NEW s \in Seq(Bytes), NEW d \in Decoders(s), ~Stopped(d), d.state = "Data",
           NEW f \in 0..Len(s), d.at <= f
    PROVE  Good(s, d, f, Turn(d, SubSeq(s, d.at + 1, f)))
<1> DEFINE b == SubSeq(s, d.at + 1, f)
           n == Take(d, b)
           e == Turn(d, b)
<1>1. d.at \in 0..f /\ f \in Nat
  BY DEF Decoders, Records
<1>2. b \in Seq(Bytes) /\ Len(b) = f - d.at
  BY <1>1, Rest
<1>3. d \in Records(Len(s)) /\ Sound(s, d) /\ d.asks = FALSE /\ d.error = "none"
  BY DEF Decoders, Stopped, Records
<1>4. e = DataTurn(d, b)
  BY TurnIs
<1> HIDE DEF b
<1>5. CASE b = <<>>
  <2>1. e = Asks(d)
    BY <1>4, <1>5 DEF DataTurn
  <2> QED BY <1>1, <2>1, AsksGood DEF b
<1>6. CASE b # <<>>
  <2>1. Len(b) > 0 /\ Len(b) \in Nat
    BY <1>2, <1>6
  <2>2. d.remaining \in Nat /\ d.remaining > 0 /\ d.decoded + d.remaining <= MaxBody
        /\ d.decoded \in Nat /\ d.data \in Seq(Bytes) /\ f <= Len(s) /\ Len(s) \in Nat
    BY <1>1, <1>3, Limits DEF Sound, Records
  <2>3. n \in 1..Len(b) /\ n <= d.remaining
    BY <2>1, <2>2 DEF Take
  <2>4. SubSeq(b, 1, n) \in Seq(Bytes)
    BY <1>2, <2>3, BeginsSelf, BeginsSame
  <2>5. d.data \o SubSeq(b, 1, n) \in Seq(Bytes) /\ Begins(d.data, d.data \o SubSeq(b, 1, n))
    BY <2>2, <2>4, BeginsConcat
  <2> DEFINE t == d.data \o SubSeq(b, 1, n)
             g == [d EXCEPT !.at = @ + n, !.remaining = @ - n, !.decoded = @ + n, !.data = t,
                            !.state = IF n = d.remaining THEN "DataCrlf" ELSE @]
  <2>6. e = g
    BY <1>4, <1>6 DEF DataTurn
  <2> HIDE DEF n, t
  <2>12. n \in Nat /\ n >= 1 /\ n <= f - d.at /\ d.at \in Nat
    BY <1>1, <1>2, <2>3
  <2>13. d.at + n \in 0..Len(s) /\ d.at + n > d.at /\ d.at <= d.at + n /\ d.at + n <= f
    BY <1>1, <2>2, <2>12, SMTT(30)
  <2>14. d.remaining - n \in Nat /\ d.decoded + n \in 0..MaxBody
    BY <2>2, <2>3, <2>12, Limits, SMTT(30)
  <2>15. (d.decoded + n) + (d.remaining - n) <= MaxBody
    BY <2>2, <2>12
  <2>7. d.at + n \in 0..Len(s) /\ d.at + n > d.at /\ d.at <= d.at + n /\ d.at + n <= f
        /\ d.remaining - n \in Nat /\ d.decoded + n \in 0..MaxBody
        /\ (d.decoded + n) + (d.remaining - n) <= MaxBody
    BY <2>13, <2>14, <2>15
  <2>8. t \in Seq(Bytes)
    BY <2>5 DEF t
  <2>9. /\ g \in Records(Len(s)) /\ g.asks = FALSE /\ g.at = d.at + n /\ g.data = t
        /\ g.state = (IF n = d.remaining THEN "DataCrlf" ELSE "Data")
        /\ g.decoded = d.decoded + n /\ g.remaining = d.remaining - n /\ g.error = "none"
    BY <1>3, <2>7, <2>8 DEF Records
  <2> HIDE DEF g
  <2>10. n # d.remaining => d.remaining - n > 0
    BY <2>2, <2>3
  <2>11. Sound(s, g)
    BY <2>7, <2>9, <2>10 DEF Sound
  <2>16. Begins(d.data, g.data)
    BY <2>5, <2>9 DEF t
  <2>17. Good(s, d, f, g)
    BY <2>7, <2>9, <2>11, <2>16, GoodMoved
  <2> QED BY <2>6, <2>17 DEF b
<1> QED BY <1>5, <1>6 DEF b

\* A turn that looks for the CRLF behind a chunk.
LEMMA DataCrlfGood ==
    ASSUME NEW s \in Seq(Bytes), NEW d \in Decoders(s), ~Stopped(d), d.state = "DataCrlf",
           NEW f \in 0..Len(s), d.at <= f
    PROVE  LET e == Turn(d, SubSeq(s, d.at + 1, f)) IN Good(s, d, f, e) /\ e.data = d.data
<1> DEFINE b == SubSeq(s, d.at + 1, f)
           e == Turn(d, b)
<1>1. d.at \in 0..f /\ f \in Nat
  BY DEF Decoders, Records
<1>2. b \in Seq(Bytes) /\ Len(b) = f - d.at /\ \A i \in 1..(f - d.at) : b[i] = s[d.at + i]
  BY <1>1, Rest
<1>3. d \in Records(Len(s)) /\ Sound(s, d) /\ d.asks = FALSE /\ d.error = "none"
  BY DEF Decoders, Stopped, Records
<1>4. e = DataCrlfTurn(d, b)
  BY TurnIs
<1> HIDE DEF b
<1>5. CASE Len(b) < 2
  <2>1. e = Asks(d)
    BY <1>4, <1>5 DEF DataCrlfTurn
  <2>2. Asks(d).data = d.data
    BY <1>3 DEF Asks, Records
  <2> QED BY <1>1, <2>1, <2>2, AsksGood DEF b
<1>6. CASE ~(Len(b) < 2) /\ SubSeq(b, 1, 2) # <<"r", "n">>
  <2>1. e = Fails(d, "MissingCrlf")
    BY <1>4, <1>6 DEF DataCrlfTurn
  <2> QED BY <1>1, <2>1, FailsGood DEF Errors, b
<1>7. CASE ~(Len(b) < 2) /\ SubSeq(b, 1, 2) = <<"r", "n">>
  <2>11. ~(Len(b) < 2)
    BY <1>7
  <2>1. f - d.at >= 2 /\ 2 \in 1..(f - d.at) /\ 2 \in 1..Len(b)
    BY <1>1, <1>2, <2>11
  <2>12. SubSeq(b, 1, 2) = <<"r", "n">>
    BY <1>7
  <2>13. <<"r", "n">>[2] = "n"
    OBVIOUS
  <2>2. SubSeq(b, 1, 2)[2] = "n"
    BY <2>12, <2>13, Zenon
  <2>3. SubSeq(b, 1, 2)[2] = b[2]
    BY <1>2, <2>1, SubSeqProperties
  <2>4. s[d.at + 2] = "n"
    BY <1>2, <2>1, <2>2, <2>3
  <2> DEFINE g == [d EXCEPT !.at = @ + 2, !.state = "Size"]
  <2>5. e = g
    BY <1>4, <1>7 DEF DataCrlfTurn
  <2>6. d.at + 2 > d.at /\ d.at <= d.at + 2 /\ d.at + 2 <= f /\ d.at + 2 \in 0..Len(s)
    BY <1>1, <2>1
  <2>7. /\ g \in Records(Len(s)) /\ g.asks = FALSE /\ g.at = d.at + 2 /\ g.data = d.data
        /\ g.state = "Size" /\ g.decoded = d.decoded /\ g.remaining = d.remaining
    BY <1>3, <2>6 DEF Records
  <2> HIDE DEF g
  <2>8. Sound(s, g)
    BY <1>3, <2>4, <2>7 DEF Sound
  <2>9. Begins(d.data, g.data)
    BY <1>3, <2>7, BeginsSelf DEF Records
  <2>10. Good(s, d, f, g)
    BY <2>6, <2>7, <2>8, <2>9, GoodMoved
  <2> QED BY <2>5, <2>7, <2>10 DEF b
<1> QED BY <1>5, <1>6, <1>7 DEF b

\* A line of the trailer section is the last, another field, or refused.
LEMMA TrailedGood ==
    ASSUME NEW s \in Seq(Bytes), NEW d \in Decoders(s), ~Stopped(d), d.state = "Trailers",
           NEW f \in 0..Len(s), NEW i \in Nat, i > 0, d.at + i <= f, NEW content, NEW line
    PROVE  Good(s, d, f, Trailed(d, content, i, line)) /\ Trailed(d, content, i, line).data = d.data
<1>1. d \in Records(Len(s)) /\ Sound(s, d) /\ d.asks = FALSE /\ d.error = "none"
  BY DEF Decoders, Stopped, Records
<1>2. d.at \in Nat /\ d.data \in Seq(Bytes) /\ Len(s) \in Nat /\ d.trailer_bytes \in Nat
      /\ f \in Nat /\ f <= Len(s) /\ d.trailers \in Nat
  BY <1>1, Limits DEF Records
<1>3. Begins(d.data, d.data)
  BY <1>2, BeginsSelf
<1>4. d.at + i > d.at /\ d.at <= d.at + i /\ d.at + i <= f /\ d.at + i \in 0..Len(s)
      /\ d.at <= d.at /\ d.at <= f
  BY <1>2
<1> DEFINE e == [d EXCEPT !.trailer_bytes = @ + i]
           verdict == push_trailer(line, d.trailers)
<1>11. d.trailer_bytes + i \in Nat
  BY <1>2
<1>5. /\ e \in Records(Len(s)) /\ e.asks = FALSE /\ e.at = d.at /\ e.data = d.data
      /\ e.state = "Trailers" /\ e.decoded = d.decoded /\ e.remaining = d.remaining
      /\ e.error = "none" /\ e.trailers = d.trailers
  BY <1>1, <1>11 DEF Records
<1>6. verdict \in Errors \cup {"none"} /\ (verdict = "none" => d.trailers + 1 \in 0..MaxTrailers)
  BY <1>2, TrailerTyped, Limits
<1>7. CASE e.trailer_bytes > MaxTrailer
  <2> DEFINE g == Fails(e, "TrailerTooLarge")
  <2>1. Trailed(d, content, i, line) = g
    BY <1>7 DEF Trailed
  <2> HIDE DEF e
  <2>2. /\ g \in Records(Len(s)) /\ g.asks = FALSE /\ g.at = d.at /\ g.data = d.data
        /\ g.state = "Trailers" /\ g.decoded = d.decoded /\ g.remaining = d.remaining
        /\ g.error = "TrailerTooLarge"
    BY <1>5 DEF Records, Fails, Errors
  <2> HIDE DEF g
  <2>3. Sound(s, g) /\ Stopped(g)
    BY <1>1, <2>2 DEF Sound, Stopped
  <2> QED BY <1>3, <1>4, <2>1, <2>2, <2>3, GoodMoved
<1>8. CASE ~(e.trailer_bytes > MaxTrailer) /\ content = 0
  <2> DEFINE g == [e EXCEPT !.at = @ + i, !.state = "Ending"]
  <2>1. Trailed(d, content, i, line) = g
    BY <1>8 DEF Trailed
  <2> HIDE DEF e
  <2>2. /\ g \in Records(Len(s)) /\ g.asks = FALSE /\ g.at = d.at + i /\ g.data = d.data
        /\ g.state = "Ending" /\ g.decoded = d.decoded /\ g.remaining = d.remaining
    BY <1>4, <1>5 DEF Records
  <2> HIDE DEF g
  <2>3. Sound(s, g)
    BY <1>1, <2>2 DEF Sound
  <2> QED BY <1>3, <1>4, <2>1, <2>2, <2>3, GoodMoved
<1>9. CASE ~(e.trailer_bytes > MaxTrailer) /\ content # 0 /\ verdict # "none"
  <2> DEFINE h == [e EXCEPT !.at = @ + i]
             g == Fails(h, verdict)
  <2>1. Trailed(d, content, i, line) = g
    BY <1>9 DEF Trailed
  <2> HIDE DEF e, verdict
  <2>2. /\ h \in Records(Len(s)) /\ h.asks = FALSE /\ h.at = d.at + i /\ h.data = d.data
        /\ h.state = "Trailers" /\ h.decoded = d.decoded /\ h.remaining = d.remaining
    BY <1>4, <1>5 DEF Records
  <2> HIDE DEF h
  <2>3. /\ g \in Records(Len(s)) /\ g.asks = FALSE /\ g.at = d.at + i /\ g.data = d.data
        /\ g.state = "Trailers" /\ g.decoded = d.decoded /\ g.remaining = d.remaining
        /\ g.error = verdict
    BY <1>6, <2>2 DEF Records, Fails
  <2> HIDE DEF g
  <2>4. Sound(s, g) /\ Stopped(g)
    BY <1>1, <1>9, <2>3 DEF Sound, Stopped
  <2> QED BY <1>3, <1>4, <2>1, <2>3, <2>4, GoodMoved
<1>10. CASE ~(e.trailer_bytes > MaxTrailer) /\ content # 0 /\ verdict = "none"
  <2> DEFINE g == [e EXCEPT !.at = @ + i, !.trailers = @ + 1]
  <2>1. Trailed(d, content, i, line) = g
    BY <1>10 DEF Trailed
  <2> HIDE DEF e
  <2>2. /\ g \in Records(Len(s)) /\ g.asks = FALSE /\ g.at = d.at + i /\ g.data = d.data
        /\ g.state = "Trailers" /\ g.decoded = d.decoded /\ g.remaining = d.remaining
    BY <1>4, <1>5, <1>6, <1>10 DEF Records
  <2> HIDE DEF g
  <2>3. Sound(s, g)
    BY <1>1, <2>2 DEF Sound
  <2> QED BY <1>3, <1>4, <2>1, <2>2, <2>3, GoodMoved
<1> QED BY <1>7, <1>8, <1>9, <1>10

\* A turn that looks for a trailer.
LEMMA TrailersGood ==
    ASSUME NEW s \in Seq(Bytes), NEW d \in Decoders(s), ~Stopped(d), d.state = "Trailers",
           NEW f \in 0..Len(s), d.at <= f
    PROVE  LET e == Turn(d, SubSeq(s, d.at + 1, f)) IN Good(s, d, f, e) /\ e.data = d.data
<1> DEFINE b == SubSeq(s, d.at + 1, f)
           l == find_line(b, MaxTrailer, "TrailerTooLarge")
           e == Turn(d, b)
<1>1. d.at \in 0..f /\ f \in Nat
  BY DEF Decoders, Records
<1>2. b \in Seq(Bytes) /\ Len(b) = f - d.at
  BY <1>1, Rest
<1>3. /\ l.got = "more" => e = Asks(d)
      /\ l.got = "error" => e = Fails(d, l.error)
      /\ l.got = "line" => e = Trailed(d, l.content, l.consumed, SubSeq(b, 1, l.content))
  BY TurnIs, TrailersTurnIs
<1> HIDE DEF b
<1>4. \/ l = More
      \/ l = Err("TrailerTooLarge") \/ l = Err("MissingCrlf")
      \/ \E i \in 2..Len(b) : l = Line(i)
  BY <1>2, Limits, FindLineTyped
<1> HIDE DEF l, e
<1>5. CASE l = More
  <2>1. e = Asks(d) /\ Asks(d).data = d.data
    BY <1>3, <1>5 DEF More, Asks, Decoders, Records
  <2> QED BY <1>1, <2>1, AsksGood DEF b, e
<1>6. CASE l = Err("TrailerTooLarge") \/ l = Err("MissingCrlf")
  <2>1. e = Fails(d, "TrailerTooLarge") \/ e = Fails(d, "MissingCrlf")
    BY <1>3, <1>6 DEF Err
  <2> QED BY <1>1, <2>1, FailsGood DEF b, e, Errors
<1>7. ASSUME NEW i \in 2..Len(b), l = Line(i) PROVE Good(s, d, f, e) /\ e.data = d.data
  <2>1. e = Trailed(d, l.content, i, SubSeq(b, 1, l.content))
    BY <1>3, <1>7 DEF Line
  <2>2. i \in Nat /\ i > 0 /\ d.at + i <= f
    BY <1>1, <1>2, <1>7
  <2> QED BY <2>1, <2>2, TrailedGood
<1> QED BY <1>4, <1>5, <1>6, <1>7 DEF b, e

\* The last turn.
LEMMA EndingGood ==
    ASSUME NEW s \in Seq(Bytes), NEW d \in Decoders(s), ~Stopped(d), d.state = "Ending",
           NEW f \in 0..Len(s), d.at <= f
    PROVE  LET e == Turn(d, SubSeq(s, d.at + 1, f)) IN Good(s, d, f, e) /\ e.data = d.data
<1> DEFINE b == SubSeq(s, d.at + 1, f)
           g == [d EXCEPT !.state = "Done"]
<1>1. Turn(d, b) = g
  BY TurnIs
<1>2. d \in Records(Len(s)) /\ Sound(s, d) /\ d.asks = FALSE
  BY DEF Decoders, Stopped, Records
<1>3. /\ g \in Records(Len(s)) /\ g.asks = FALSE /\ g.at = d.at /\ g.data = d.data
      /\ g.state = "Done" /\ g.decoded = d.decoded /\ g.remaining = d.remaining
  BY <1>2 DEF Records
<1>4. d.at <= d.at /\ Begins(d.data, d.data)
  BY <1>2, BeginsSelf DEF Records
<1> HIDE DEF g, b
<1>5. Sound(s, g) /\ Stopped(g)
  BY <1>2, <1>3 DEF Sound, Stopped
<1>6. Good(s, d, f, g)
  BY <1>3, <1>4, <1>5, GoodMoved
<1> QED BY <1>1, <1>3, <1>6 DEF b

\* Every turn keeps the decoder in its type, consumes or stops, stays within
\* what has arrived and takes back nothing of the data.
LEMMA TurnGood ==
    ASSUME NEW s \in Seq(Bytes), NEW d \in Decoders(s), ~Stopped(d),
           NEW f \in 0..Len(s), d.at <= f
    PROVE  Good(s, d, f, Turn(d, SubSeq(s, d.at + 1, f)))
<1>1. d.state \in {"Size", "Data", "DataCrlf", "Trailers", "Ending"}
  BY DEF Decoders, Records, Stopped
<1> QED BY <1>1, SizeGood, DataGood, DataCrlfGood, TrailersGood, EndingGood

-----------------------------------------------------------------------------
(* What a cut does to a turn.                                              *)

\* A size line of exactly the length allowed follows the first i bytes of s.
LimitAt(s, i) ==
    LET b == SubSeq(s, i + 1, Len(s)) IN
    find_line(b, Len(b), "none") = Line(MAX_SIZE_DIGITS + ExtRoom + 2)

\* A turn on what has arrived does what it would do on all of the stream, or
\* it asks, or moves a part of the chunk, or it refuses what is refused anyway
\* or stands at the limit.
Cut(s, d, f) ==
    LET e == Turn(d, SubSeq(s, d.at + 1, f)) IN
    \/ e = Onward(s, d)
    \/ e = Asks(d)
    \/ ~Stopped(e) /\ Onward(s, e) = Onward(s, d)
    \/ /\ e.error # "none" /\ e.data = d.data
       /\ \/ Onward(s, d).error # "none"
          \/ d.state = "Size" /\ LimitAt(s, d.at)

\* To fail is to have failed.
LEMMA FailsIs ==
    ASSUME NEW s, NEW d \in Decoders(s), NEW x
    PROVE  Fails(d, x).error = x /\ Fails(d, x).data = d.data
BY DEF Fails, Decoders, Records

\* The cut while a size line is looked for.
LEMMA SizeCut ==
    ASSUME NEW s \in Seq(Bytes), NEW d \in Decoders(s), ~Stopped(d), d.state = "Size",
           NEW f \in 0..Len(s), d.at <= f
    PROVE  Cut(s, d, f)
<1> DEFINE b == SubSeq(s, d.at + 1, f)
           c == SubSeq(s, d.at + 1, Len(s))
           M == MAX_SIZE_DIGITS + ExtRoom
           l == find_line(b, M, "MissingCrlf")
           k == find_line(c, M, "MissingCrlf")
           e == Turn(d, b)
           g == Turn(d, c)
<1>1. d.at \in 0..f /\ f \in Nat /\ Len(s) \in 0..Len(s) /\ d.at \in 0..Len(s)
  BY DEF Decoders, Records
<1>2. b \in Seq(Bytes) /\ c \in Seq(Bytes) /\ Begins(b, c)
  BY <1>1, Rest, RestBegins
<1>3. /\ l.got = "more" => e = Asks(d)
      /\ l.got = "error" => e = Fails(d, l.error)
      /\ LET p == parse_chunk_size(SubSeq(b, 1, l.content)) IN
         /\ l.got = "line" /\ p.got = "error" => e = Fails(d, p.error)
         /\ l.got = "line" /\ p.got = "size" => e = Sized(d, l.consumed, p.size)
  BY TurnIs, SizeTurnIs
<1>4. /\ k.got = "more" => g = Asks(d)
      /\ k.got = "error" => g = Fails(d, k.error)
      /\ LET p == parse_chunk_size(SubSeq(c, 1, k.content)) IN
         /\ k.got = "line" /\ p.got = "error" => g = Fails(d, p.error)
         /\ k.got = "line" /\ p.got = "size" => g = Sized(d, k.consumed, p.size)
  BY TurnIs, SizeTurnIs
<1>5. Onward(s, d) = g
  BY DEF Onward
<1> HIDE DEF b, c
<1>6. \/ l = k
      \/ l = More
      \/ /\ l = Err("MissingCrlf")
         /\ \/ k \in {Err("MissingCrlf"), Err("MissingCrlf")}
            \/ /\ k = Line(M + 2)
               /\ find_line(c, Len(c), "none") = Line(M + 2)
  BY <1>2, Limits, FindLineBegins
<1>7. \/ l = More
      \/ l = Err("MissingCrlf")
      \/ \E i \in 2..Len(b) : l = Line(i)
  BY <1>2, Limits, FindLineTyped
<1> HIDE DEF l, k, e, g
<1>8. CASE l = More
  <2>1. e = Asks(d)
    BY <1>3, <1>8 DEF More
  <2> QED BY <2>1 DEF Cut, e, b
<1>9. CASE l = k /\ l = Err("MissingCrlf")
  <2>1. e = g
    BY <1>3, <1>4, <1>9 DEF Err
  <2> QED BY <1>5, <2>1 DEF Cut, e, b
<1>10. ASSUME l = k, NEW i \in 2..Len(b), l = Line(i) PROVE Cut(s, d, f)
  <2>1. l.got = "line" /\ l.content = i - 2 /\ l.consumed = i
    BY <1>10 DEF Line
  <2>2. i - 2 \in 0..Len(b)
    BY <1>2, <1>10
  <2>3. SubSeq(b, 1, i - 2) = SubSeq(c, 1, i - 2) /\ SubSeq(b, 1, i - 2) \in Seq(Bytes)
    BY <1>2, <2>2, BeginsSame
  <2> DEFINE p == parse_chunk_size(SubSeq(b, 1, i - 2))
             q == parse_chunk_size(SubSeq(c, 1, i - 2))
  <2>4. p = q /\ (p.got = "error" \/ p.got = "size")
    BY <2>3, ParseTyped
  <2>5. /\ p.got = "error" => e = Fails(d, p.error)
        /\ p.got = "size" => e = Sized(d, i, p.size)
    BY <1>3, <2>1
  <2>6. /\ q.got = "error" => g = Fails(d, q.error)
        /\ q.got = "size" => g = Sized(d, i, q.size)
    BY <1>4, <1>10, <2>1
  <2> HIDE DEF p, q
  <2>7. e = g
    BY <2>4, <2>5, <2>6
  <2> QED BY <1>5, <2>7 DEF Cut, e, b
<1>11. CASE l = Err("MissingCrlf") /\ k = Err("MissingCrlf")
  BY <1>9, <1>11
<1>12. CASE l = Err("MissingCrlf") /\ find_line(c, Len(c), "none") = Line(M + 2)
  <2>1. e = Fails(d, "MissingCrlf")
    BY <1>3, <1>12 DEF Err
  <2>2. e.error # "none" /\ e.data = d.data
    BY <2>1, FailsIs
  <2>3. LimitAt(s, d.at)
    BY <1>12 DEF LimitAt, c
  <2> QED BY <2>2, <2>3 DEF Cut, e, b
<1> QED BY <1>6, <1>7, <1>8, <1>9, <1>10, <1>11, <1>12

\* The cut while a trailer is looked for: a line of the length allowed leaves
\* no room for its own CRLF.
LEMMA TrailersCut ==
    ASSUME NEW s \in Seq(Bytes), NEW d \in Decoders(s), ~Stopped(d), d.state = "Trailers",
           NEW f \in 0..Len(s), d.at <= f
    PROVE  Cut(s, d, f)
<1> DEFINE b == SubSeq(s, d.at + 1, f)
           c == SubSeq(s, d.at + 1, Len(s))
           l == find_line(b, MaxTrailer, "TrailerTooLarge")
           k == find_line(c, MaxTrailer, "TrailerTooLarge")
           e == Turn(d, b)
           g == Turn(d, c)
<1>1. d.at \in 0..f /\ f \in Nat /\ Len(s) \in 0..Len(s) /\ d.at \in 0..Len(s)
  BY DEF Decoders, Records
<1>2. b \in Seq(Bytes) /\ c \in Seq(Bytes) /\ Begins(b, c)
  BY <1>1, Rest, RestBegins
<1>3. /\ l.got = "more" => e = Asks(d)
      /\ l.got = "error" => e = Fails(d, l.error)
      /\ l.got = "line" => e = Trailed(d, l.content, l.consumed, SubSeq(b, 1, l.content))
  BY TurnIs, TrailersTurnIs
<1>4. /\ k.got = "more" => g = Asks(d)
      /\ k.got = "error" => g = Fails(d, k.error)
      /\ k.got = "line" => g = Trailed(d, k.content, k.consumed, SubSeq(c, 1, k.content))
  BY TurnIs, TrailersTurnIs
<1>5. Onward(s, d) = g
  BY DEF Onward
<1> HIDE DEF b, c
<1>6. \/ l = k
      \/ l = More
      \/ /\ l = Err("TrailerTooLarge")
         /\ \/ k \in {Err("TrailerTooLarge"), Err("MissingCrlf")}
            \/ k = Line(MaxTrailer + 2)
  BY <1>2, Limits, FindLineBegins
<1>7. \/ l = More
      \/ l = Err("TrailerTooLarge") \/ l = Err("MissingCrlf")
      \/ \E i \in 2..Len(b) : l = Line(i)
  BY <1>2, Limits, FindLineTyped
<1> HIDE DEF l, k, e, g
<1>8. CASE l = More
  <2>1. e = Asks(d)
    BY <1>3, <1>8 DEF More
  <2> QED BY <2>1 DEF Cut, e, b
<1>9. CASE l = k /\ (l = Err("TrailerTooLarge") \/ l = Err("MissingCrlf"))
  <2>1. e = g
    BY <1>3, <1>4, <1>9 DEF Err
  <2> QED BY <1>5, <2>1 DEF Cut, e, b
<1>10. ASSUME l = k, NEW i \in 2..Len(b), l = Line(i) PROVE Cut(s, d, f)
  <2>1. l.got = "line" /\ l.content = i - 2 /\ l.consumed = i
    BY <1>10 DEF Line
  <2>2. i - 2 \in 0..Len(b)
    BY <1>2, <1>10
  <2>3. SubSeq(b, 1, i - 2) = SubSeq(c, 1, i - 2)
    BY <1>2, <2>2, BeginsSame
  <2>7. e = g
    BY <1>3, <1>4, <1>10, <2>1, <2>3
  <2> QED BY <1>5, <2>7 DEF Cut, e, b
<1>11. CASE l = Err("TrailerTooLarge")
            /\ (k \in {Err("TrailerTooLarge"), Err("MissingCrlf")} \/ k = Line(MaxTrailer + 2))
  <2>1. e = Fails(d, "TrailerTooLarge")
    BY <1>3, <1>11 DEF Err
  <2>2. e.error # "none" /\ e.data = d.data
    BY <2>1, FailsIs
  <2>3. CASE k \in {Err("TrailerTooLarge"), Err("MissingCrlf")}
    <3>1. g = Fails(d, "TrailerTooLarge") \/ g = Fails(d, "MissingCrlf")
      BY <1>4, <2>3 DEF Err
    <3>2. g.error # "none"
      BY <3>1, FailsIs
    <3> QED BY <1>5, <2>2, <3>2 DEF Cut, e, b
  <2>4. CASE k = Line(MaxTrailer + 2)
    <3> DEFINE j == MaxTrailer + 2
               h == [d EXCEPT !.trailer_bytes = @ + j]
    <3>1. g = Trailed(d, k.content, j, SubSeq(c, 1, k.content))
      BY <1>4, <2>4 DEF Line
    <3>2. d.trailer_bytes \in Nat /\ d \in Records(Len(s))
      BY DEF Decoders, Records
    <3>3. d.trailer_bytes + j > MaxTrailer
      BY <3>2, Limits
    <3> HIDE DEF j
    <3>4. h.trailer_bytes = d.trailer_bytes + j
      BY <3>2 DEF Records
    <3>5. g = Fails(h, "TrailerTooLarge")
      BY <3>1, <3>3, <3>4 DEF Trailed
    <3>6. Fails(h, "TrailerTooLarge").error = "TrailerTooLarge"
      BY <3>2 DEF Records, Fails
    <3> QED BY <1>5, <2>2, <3>5, <3>6 DEF Cut, e, b
  <2> QED BY <1>11, <2>3, <2>4
<1> QED BY <1>6, <1>7, <1>8, <1>9, <1>10, <1>11

\* The cut behind a chunk, and at the end.
LEMMA CrlfCut ==
    ASSUME NEW s \in Seq(Bytes), NEW d \in Decoders(s), ~Stopped(d),
           d.state = "DataCrlf" \/ d.state = "Ending",
           NEW f \in 0..Len(s), d.at <= f
    PROVE  Cut(s, d, f)
<1> DEFINE b == SubSeq(s, d.at + 1, f)
           c == SubSeq(s, d.at + 1, Len(s))
<1>1. d.at \in 0..f /\ f \in Nat /\ Len(s) \in 0..Len(s) /\ d.at \in 0..Len(s)
  BY DEF Decoders, Records
<1>2. b \in Seq(Bytes) /\ c \in Seq(Bytes) /\ Begins(b, c)
  BY <1>1, Rest, RestBegins
<1>3. Onward(s, d) = Turn(d, c)
  BY DEF Onward
<1>4. CASE d.state = "Ending"
  BY <1>3, <1>4, TurnIs DEF Cut
<1>5. CASE d.state = "DataCrlf"
  <2>1. Turn(d, b) = DataCrlfTurn(d, b) /\ Turn(d, c) = DataCrlfTurn(d, c)
    BY <1>5, TurnIs
  <2> HIDE DEF b, c
  <2>2. CASE Len(b) < 2
    <3>1. Turn(d, b) = Asks(d)
      BY <2>1, <2>2 DEF DataCrlfTurn
    <3> QED BY <3>1 DEF Cut, b
  <2>3. CASE ~(Len(b) < 2)
    <3>1. 2 \in 0..Len(b) /\ ~(Len(c) < 2)
      BY <1>2, <2>3 DEF Begins
    <3>2. SubSeq(b, 1, 2) = SubSeq(c, 1, 2)
      BY <1>2, <3>1, BeginsSame
    <3>4. DataCrlfTurn(d, b) = IF SubSeq(b, 1, 2) # <<"r", "n">> THEN Fails(d, "MissingCrlf")
                               ELSE [d EXCEPT !.at = @ + 2, !.state = "Size"]
      BY <2>3, Zenon DEF DataCrlfTurn
    <3>5. DataCrlfTurn(d, c) = IF SubSeq(c, 1, 2) # <<"r", "n">> THEN Fails(d, "MissingCrlf")
                               ELSE [d EXCEPT !.at = @ + 2, !.state = "Size"]
      BY <3>1, Zenon DEF DataCrlfTurn
    <3>3. Turn(d, b) = Turn(d, c)
      BY <2>1, <3>2, <3>4, <3>5, Zenon
    <3> QED BY <1>3, <3>3 DEF Cut, b
  <2> QED BY <2>2, <2>3
<1> QED BY <1>4, <1>5

\* n bytes of the chunk, moved.
Moved(s, d, n) ==
    [d EXCEPT !.at = @ + n, !.remaining = @ - n, !.decoded = @ + n,
              !.data = @ \o SubSeq(s, d.at + 1, d.at + n),
              !.state = IF n = d.remaining THEN "DataCrlf" ELSE @]

\* A part of a part.
LEMMA PartOfPart ==
    ASSUME NEW S, NEW s \in Seq(S), NEW f \in 0..Len(s), NEW a \in 0..f, NEW n \in 0..(f - a)
    PROVE  SubSeq(SubSeq(s, a + 1, f), 1, n) = SubSeq(s, a + 1, a + n)
<1> DEFINE b == SubSeq(s, a + 1, f)
           t == SubSeq(b, 1, n)
           u == SubSeq(s, a + 1, a + n)
<1>1. Len(s) \in Nat /\ f \in Nat /\ a \in Nat /\ n \in Nat /\ a <= f /\ f <= Len(s) /\ n <= f - a
  OBVIOUS
<1>2. b \in Seq(S) /\ Len(b) = f - a /\ \A i \in 1..(f - a) : b[i] = s[a + i]
  BY Rest
<1>3. a + n \in 0..Len(s) /\ a \in 0..(a + n) /\ (a + n) - a = n
  BY <1>1
<1>4. u \in Seq(S) /\ Len(u) = n /\ \A i \in 1..n : u[i] = s[a + i]
  BY <1>3, Rest
<1> HIDE DEF b, u
<1>5. n \in 0..Len(b) /\ 0 \in 0..n /\ n - 0 = n /\ 0 + 1 = 1
  BY <1>1, <1>2
<1>6. /\ SubSeq(b, 0 + 1, n) \in Seq(S) /\ Len(SubSeq(b, 0 + 1, n)) = n - 0
      /\ \A i \in 1..(n - 0) : SubSeq(b, 0 + 1, n)[i] = b[0 + i]
  BY <1>2, <1>5, Rest
<1>7. t \in Seq(S) /\ Len(t) = n /\ \A i \in 1..n : t[i] = b[i]
  BY <1>5, <1>6
<1> HIDE DEF t
<1>8. ASSUME NEW i \in 1..n PROVE t[i] = u[i]
  <2>1. i \in 1..(f - a)
    BY <1>1
  <2> QED BY <1>2, <1>4, <1>7, <2>1
<1>9. t = u
  BY <1>4, <1>7, <1>8, SeqEqual
<1> QED BY <1>9 DEF t, u, b

\* Two parts, one behind the other.
LEMMA PartsJoin ==
    ASSUME NEW S, NEW s \in Seq(S), NEW t \in Seq(S), NEW f \in 0..Len(s), NEW m \in 0..f, NEW a \in 0..m
    PROVE  (t \o SubSeq(s, a + 1, m)) \o SubSeq(s, m + 1, f) = t \o SubSeq(s, a + 1, f)
<1> DEFINE u == SubSeq(s, a + 1, m)
           v == SubSeq(s, m + 1, f)
           w == SubSeq(s, a + 1, f)
<1>1. Len(s) \in Nat /\ f \in Nat /\ a \in Nat /\ m \in Nat /\ a <= m /\ m <= f /\ f <= Len(s)
      /\ m \in 0..Len(s) /\ a \in 0..f /\ Len(t) \in Nat
  OBVIOUS
<1>2. u \in Seq(S) /\ Len(u) = m - a /\ \A i \in 1..(m - a) : u[i] = s[a + i]
  BY <1>1, Rest
<1>3. v \in Seq(S) /\ Len(v) = f - m /\ \A i \in 1..(f - m) : v[i] = s[m + i]
  BY <1>1, Rest
<1>4. w \in Seq(S) /\ Len(w) = f - a /\ \A i \in 1..(f - a) : w[i] = s[a + i]
  BY <1>1, Rest
<1> HIDE DEF u, v, w
<1>5. u \o v \in Seq(S) /\ Len(u \o v) = Len(u) + Len(v)
      /\ \A i \in 1..(Len(u) + Len(v)) : (u \o v)[i] = IF i <= Len(u) THEN u[i] ELSE v[i - Len(u)]
  BY <1>2, <1>3, ConcatProperties
<1>6. Len(u \o v) = Len(w)
  BY <1>1, <1>2, <1>3, <1>4, <1>5, SMTT(30)
<1>7. ASSUME NEW i \in 1..Len(w) PROVE (u \o v)[i] = w[i]
  <2>1. i \in 1..(f - a) /\ i \in 1..(Len(u) + Len(v))
    BY <1>1, <1>2, <1>3, <1>4
  <2>2. w[i] = s[a + i]
    BY <1>4, <2>1
  <2>3. CASE i <= m - a
    <3>1. (u \o v)[i] = u[i]
      BY <1>2, <1>5, <2>1, <2>3
    <3>2. i \in 1..(m - a)
      BY <1>1, <2>1, <2>3
    <3> QED BY <1>2, <2>2, <3>1, <3>2
  <2>4. CASE ~(i <= m - a)
    <3>1. (u \o v)[i] = v[i - (m - a)]
      BY <1>2, <1>5, <2>1, <2>4
    <3>2. i - (m - a) \in 1..(f - m) /\ m + (i - (m - a)) = a + i
      BY <1>1, <2>1, <2>4
    <3> QED BY <1>3, <2>2, <3>1, <3>2
  <2> QED BY <2>3, <2>4
<1>8. u \o v = w
  BY <1>4, <1>5, <1>6, <1>7, SeqEqual
<1>9. (t \o u) \o v = t \o (u \o v)
  <2>1. t \in Seq(S) /\ u \in Seq(S) /\ v \in Seq(S)
    BY <1>2, <1>3
  <2> QED BY ONLY <2>1, ConcatAssociative, SMTT(40)
<1> QED BY <1>8, <1>9 DEF u, v, w

\* A turn moves what has arrived, up to the rest of the chunk.
LEMMA DataIs ==
    ASSUME NEW s \in Seq(Bytes), NEW d \in Decoders(s), ~Stopped(d), d.state = "Data",
           NEW f \in 0..Len(s), d.at <= f
    PROVE  LET n == IF f - d.at < d.remaining THEN f - d.at ELSE d.remaining
               e == Turn(d, SubSeq(s, d.at + 1, f))
           IN /\ d.at = f => e = Asks(d)
              /\ d.at < f => e = Moved(s, d, n)
<1> DEFINE b == SubSeq(s, d.at + 1, f)
           n == IF f - d.at < d.remaining THEN f - d.at ELSE d.remaining
           e == Turn(d, b)
<1>1. d.at \in 0..f /\ d.at \in Nat /\ f \in Nat /\ d.remaining \in Nat
  BY DEF Decoders, Records
<1>2. b \in Seq(Bytes) /\ Len(b) = f - d.at
  BY <1>1, Rest
<1>3. e = DataTurn(d, b)
  BY TurnIs
<1>4. SubSeq(b, 1, n) = SubSeq(s, d.at + 1, d.at + n)
  <2>1. n \in 0..(f - d.at)
    BY <1>1
  <2> QED BY <1>1, <2>1, PartOfPart
<1> HIDE DEF b
<1>5. Take(d, b) = n
  BY <1>2 DEF Take
<1>6. CASE d.at = f
  <2>1. Len(b) = 0
    BY <1>1, <1>2, <1>6
  <2>2. b = <<>>
    BY <1>2, <2>1, EmptySeq
  <2>3. e = Asks(d)
    BY <1>3, <2>2 DEF DataTurn
  <2>4. ~(d.at < f)
    BY <1>1, <1>6
  <2> QED BY <2>3, <2>4 DEF b
<1>7. CASE d.at < f
  <2>1. Len(b) # 0 /\ d.at # f
    BY <1>1, <1>2, <1>7
  <2>2. b # <<>>
    BY <1>2, <2>1, EmptySeq
  <2>3. e = [d EXCEPT !.at = @ + n, !.remaining = @ - n, !.decoded = @ + n,
                      !.data = @ \o SubSeq(b, 1, n),
                      !.state = IF n = d.remaining THEN "DataCrlf" ELSE @]
    BY <1>3, <1>5, <2>2, Zenon DEF DataTurn
  <2>4. e = Moved(s, d, n)
    BY <1>4, <2>3, Zenon DEF Moved
  <2> QED BY <2>1, <2>4 DEF b
<1> QED BY <1>1, <1>6, <1>7

\* What is left to take of a chunk.
LEMMA TakeRest ==
    ASSUME NEW a \in Nat, NEW r \in Nat, NEW L \in Nat, NEW n \in Nat, a + n <= L, n < r
    PROVE  (IF L - (a + n) < r - n THEN L - (a + n) ELSE r - n)
           = (IF L - a < r THEN L - a ELSE r) - n
OBVIOUS

\* The arithmetic of a chunk moved in two parts.
LEMMA Sums ==
    ASSUME NEW a \in Nat, NEW r \in Nat, NEW c \in Nat, NEW L \in Nat, NEW n \in Nat, NEW m \in Nat,
           n < r, a + (n + m) <= L
    PROVE  /\ n # r
           /\ a + (n + m) \in 0..L /\ a + n \in 0..(a + (n + m)) /\ a \in 0..(a + n)
           /\ (a + n) + m = a + (n + m)
           /\ (r - n) - m = r - (n + m) /\ (c + n) + m = c + (n + m)
           /\ (m = r - n <=> n + m = r)
OBVIOUS

\* To move some and then some more is to move both.
LEMMA MovedTwice ==
    ASSUME NEW s \in Seq(Bytes), NEW d \in Decoders(s), d.state = "Data",
           NEW n \in Nat, n < d.remaining, NEW m \in Nat, d.at + (n + m) <= Len(s)
    PROVE  LET e == Moved(s, d, n) IN
           /\ e.at = d.at + n /\ e.remaining = d.remaining - n /\ e.state = "Data"
           /\ e.asks = d.asks /\ e.error = d.error
           /\ Moved(s, e, m) = Moved(s, d, n + m)
<1> DEFINE t == d.data \o SubSeq(s, d.at + 1, d.at + n)
           e == Moved(s, d, n)
<1>1. d \in Records(Len(s)) /\ d.at \in Nat /\ d.remaining \in Nat /\ d.decoded \in Nat
      /\ d.data \in Seq(Bytes)
  BY Limits DEF Decoders, Records
<1>17. d.at \in Nat /\ d.remaining \in Nat /\ d.decoded \in Nat /\ Len(s) \in Nat
  BY <1>1
<1>2. n # d.remaining
  BY <1>17
<1>3. e = [d EXCEPT !.at = @ + n, !.remaining = @ - n, !.decoded = @ + n, !.data = t,
                    !.state = IF n = d.remaining THEN "DataCrlf" ELSE @]
  BY DEF Moved
<1> HIDE DEF t, e
<1>4. /\ e.at = d.at + n /\ e.remaining = d.remaining - n /\ e.state = "Data"
      /\ e.asks = d.asks /\ e.error = d.error /\ e.data = t /\ e.decoded = d.decoded + n
      /\ e.trailer_bytes = d.trailer_bytes /\ e.trailers = d.trailers
  BY <1>1, <1>2, <1>3 DEF Records
<1>5. t \o SubSeq(s, (d.at + n) + 1, (d.at + n) + m) = d.data \o SubSeq(s, d.at + 1, d.at + (n + m))
  <2>1. d.at + (n + m) \in 0..Len(s) /\ d.at + n \in 0..(d.at + (n + m)) /\ d.at \in 0..(d.at + n)
        /\ (d.at + n) + m = d.at + (n + m) /\ (d.decoded + n) + m = d.decoded + (n + m)
    BY <1>17, Sums
  <2>2. s \in Seq(Bytes) /\ d.data \in Seq(Bytes)
    BY <1>1
  <2>3. t \o SubSeq(s, (d.at + n) + 1, d.at + (n + m)) = d.data \o SubSeq(s, d.at + 1, d.at + (n + m))
    BY <2>1, <2>2, PartsJoin DEF t
  <2> QED BY <2>1, <2>3
<1> DEFINE u == t \o SubSeq(s, (d.at + n) + 1, (d.at + n) + m)
           g == Moved(s, e, m)
           h == Moved(s, d, n + m)
           fields == {"state", "remaining", "decoded", "trailer_bytes", "trailers",
                      "at", "data", "asks", "error"}
<1>6. g = [e EXCEPT !.at = @ + m, !.remaining = @ - m, !.decoded = @ + m, !.data = u,
                    !.state = IF m = e.remaining THEN "DataCrlf" ELSE @]
  BY <1>4 DEF Moved
<1>7. h = [d EXCEPT !.at = @ + (n + m), !.remaining = @ - (n + m), !.decoded = @ + (n + m),
                    !.data = u, !.state = IF n + m = d.remaining THEN "DataCrlf" ELSE @]
  BY <1>5 DEF Moved
<1> HIDE DEF u, g, h
<1>8. d = [x \in fields |-> d[x]]
  BY <1>1 DEF Records
<1>9. e = [x \in fields |-> e[x]]
  BY <1>3, <1>8
<1>10. g = [x \in fields |-> g[x]] /\ h = [x \in fields |-> h[x]]
  BY <1>6, <1>7, <1>8, <1>9
<1>11. /\ g.state = (IF m = d.remaining - n THEN "DataCrlf" ELSE "Data")
       /\ g.remaining = (d.remaining - n) - m /\ g.decoded = (d.decoded + n) + m
       /\ g.trailer_bytes = d.trailer_bytes /\ g.trailers = d.trailers
       /\ g.at = (d.at + n) + m /\ g.data = u /\ g.asks = d.asks /\ g.error = d.error
  BY <1>4, <1>6, <1>9
<1>12. /\ h.state = (IF n + m = d.remaining THEN "DataCrlf" ELSE "Data")
       /\ h.remaining = d.remaining - (n + m) /\ h.decoded = d.decoded + (n + m)
       /\ h.trailer_bytes = d.trailer_bytes /\ h.trailers = d.trailers
       /\ h.at = d.at + (n + m) /\ h.data = u /\ h.asks = d.asks /\ h.error = d.error
  BY <1>7, <1>8
<1>13. /\ (d.remaining - n) - m = d.remaining - (n + m) /\ (d.decoded + n) + m = d.decoded + (n + m)
       /\ (d.at + n) + m = d.at + (n + m) /\ (m = d.remaining - n <=> n + m = d.remaining)
  BY <1>17, Sums, SMTT(30)
<1>15. g.state = h.state /\ g.remaining = h.remaining /\ g.decoded = h.decoded /\ g.at = h.at
       /\ g.trailer_bytes = h.trailer_bytes /\ g.trailers = h.trailers
       /\ g.data = h.data /\ g.asks = h.asks /\ g.error = h.error
  BY <1>11, <1>12, <1>13
<1>14. \A x \in fields : g[x] = h[x]
  BY <1>15
<1> HIDE DEF fields
<1>16. g = h
  BY <1>10, <1>14
<1> QED BY <1>4, <1>16 DEF g, h, e

\* The cut within a chunk.
LEMMA DataCut ==
    ASSUME NEW s \in Seq(Bytes), NEW d \in Decoders(s), ~Stopped(d), d.state = "Data",
           NEW f \in 0..Len(s), d.at <= f
    PROVE  Cut(s, d, f)
<1> DEFINE e == Turn(d, SubSeq(s, d.at + 1, f))
           L == Len(s)
<1>1. d.at \in Nat /\ f \in Nat /\ d.remaining \in Nat /\ d.remaining > 0 /\ f <= L /\ L \in Nat
      /\ L \in 0..L /\ d.at <= L
  BY DEF Decoders, Records, Sound
<1>2. /\ d.at = f => e = Asks(d)
      /\ d.at < f => e = Moved(s, d, IF f - d.at < d.remaining THEN f - d.at ELSE d.remaining)
  BY DataIs
<1>3. d.at < L =>
        Onward(s, d) = Moved(s, d, IF L - d.at < d.remaining THEN L - d.at ELSE d.remaining)
  BY <1>1, DataIs DEF Onward
<1> HIDE DEF L
<1>4. CASE d.at = f
  BY <1>2, <1>4 DEF Cut
<1>5. CASE d.at < f /\ ~(f - d.at < d.remaining)
  <2>1. d.at < L /\ ~(L - d.at < d.remaining)
    BY <1>1, <1>5
  <2>2. e = Onward(s, d)
    BY <1>2, <1>3, <1>5, <2>1
  <2> QED BY <2>2 DEF Cut
<1>6. CASE f = L
  BY <1>6 DEF Cut, Onward, L
<1>7. CASE d.at < f /\ f - d.at < d.remaining /\ f < L
  <2> DEFINE n == f - d.at
             k == IF L - d.at < d.remaining THEN L - d.at ELSE d.remaining
             m == k - n
  <2>1. n \in Nat /\ n < d.remaining /\ m \in Nat /\ n + m = k /\ d.at + (n + m) <= L /\ d.at < L
        /\ d.at + n = f
    BY <1>1, <1>7, SMTT(30)
  <2>2. e = Moved(s, d, n)
    BY <1>2, <1>7
  <2>3. Onward(s, d) = Moved(s, d, k)
    BY <1>3, <2>1
  <2> HIDE DEF m, k, n
  <2>4. /\ e.at = d.at + n /\ e.remaining = d.remaining - n /\ e.state = "Data"
        /\ e.asks = d.asks /\ e.error = d.error
        /\ Moved(s, e, m) = Moved(s, d, n + m)
    BY <2>1, <2>2, MovedTwice DEF L
  <2>5. ~Stopped(e)
    BY <2>4 DEF Stopped
  <2>6. e \in Decoders(s)
    BY TurnGood DEF Good
  <2> HIDE DEF e
  <2>7. Onward(s, e) = Moved(s, e, IF L - e.at < e.remaining THEN L - e.at ELSE e.remaining)
    <3>1. e.at < L /\ L \in 0..Len(s) /\ e.at <= L
      BY <1>1, <1>7, <2>1, <2>4 DEF L
    <3>2. Onward(s, e) = Turn(e, SubSeq(s, e.at + 1, L))
      BY <2>5 DEF Onward, L
    <3>3. e.state = "Data"
      BY <2>4
    <3>4. e.at < L => Turn(e, SubSeq(s, e.at + 1, L))
              = Moved(s, e, IF L - e.at < e.remaining THEN L - e.at ELSE e.remaining)
      BY <2>5, <2>6, <3>1, <3>3, DataIs, Zenon
    <3> QED BY <3>1, <3>2, <3>4, Zenon
  <2>8. (IF L - e.at < e.remaining THEN L - e.at ELSE e.remaining) = m
    <3>1. d.at + n <= L /\ n < d.remaining /\ d.at \in Nat /\ d.remaining \in Nat /\ L \in Nat
          /\ n \in Nat
      BY <1>1, <2>1
    <3>2. (IF L - (d.at + n) < d.remaining - n THEN L - (d.at + n) ELSE d.remaining - n) = k - n
      BY <3>1, TakeRest DEF k
    <3> QED BY <2>4, <3>2, Zenon DEF m
  <2>9. Onward(s, e) = Onward(s, d)
    BY <2>1, <2>3, <2>4, <2>7, <2>8
  <2> QED BY <2>5, <2>9 DEF Cut, e
<1> QED BY <1>1, <1>4, <1>5, <1>6, <1>7

\* Every turn.
LEMMA TurnCut ==
    ASSUME NEW s \in Seq(Bytes), NEW d \in Decoders(s), ~Stopped(d),
           NEW f \in 0..Len(s), d.at <= f
    PROVE  Cut(s, d, f)
<1>1. d.state \in {"Size", "Data", "DataCrlf", "Trailers", "Ending"}
  BY DEF Decoders, Records, Stopped
<1> QED BY <1>1, SizeCut, DataCut, CrlfCut, TrailersCut

-----------------------------------------------------------------------------
(* The stream in one piece.                                                *)

\* Decoder w lies on the way of d, given all of s: it is in every set that
\* has d and that a turn does not leave.
Reaches(s, d, w) ==
    \A C \in SUBSET Decoders(s) : d \in C /\ (\A x \in C : Onward(s, x) \in C) => w \in C

\* A turn with all of the stream there.
LEMMA OnwardGood ==
    ASSUME NEW s \in Seq(Bytes), NEW d \in Decoders(s)
    PROVE  /\ Onward(s, d) \in Decoders(s)
           /\ Begins(d.data, Onward(s, d).data)
           /\ Stopped(d) => Onward(s, d) = d
           /\ ~Stopped(d) => Good(s, d, Len(s), Onward(s, d))
<1>1. CASE Stopped(d)
  <2>1. Onward(s, d) = d
    BY <1>1 DEF Onward
  <2>2. Begins(d.data, d.data)
    BY BeginsSelf DEF Decoders, Records
  <2> QED BY <1>1, <2>1, <2>2
<1>2. CASE ~Stopped(d)
  <2>1. Len(s) \in 0..Len(s) /\ d.at <= Len(s)
    BY DEF Decoders, Records
  <2>2. Onward(s, d) = Turn(d, SubSeq(s, d.at + 1, Len(s)))
    BY <1>2 DEF Onward
  <2>3. Good(s, d, Len(s), Onward(s, d))
    BY <1>2, <2>1, <2>2, TurnGood
  <2> QED BY <1>2, <2>3 DEF Good
<1> QED BY <1>1, <1>2

\* What the next turn reaches is reached.
LEMMA ReachesBack ==
    ASSUME NEW s, NEW d, NEW w, Reaches(s, Onward(s, d), w)
    PROVE  Reaches(s, d, w)
BY DEF Reaches

\* What is reached, and is not where the way starts, is reached from the next turn.
LEMMA ReachesNext ==
    ASSUME NEW s \in Seq(Bytes), NEW d \in Decoders(s), NEW w, w # d, Reaches(s, d, w)
    PROVE  Reaches(s, Onward(s, d), w)
<1> SUFFICES ASSUME NEW C \in SUBSET Decoders(s), Onward(s, d) \in C,
                    \A x \in C : Onward(s, x) \in C
             PROVE  w \in C
  BY DEF Reaches
<1> DEFINE D == C \cup {d}
<1>1. D \in SUBSET Decoders(s) /\ d \in D /\ \A x \in D : Onward(s, x) \in D
  OBVIOUS
<1> HIDE DEF D
<1>2. w \in D
  BY <1>1 DEF Reaches
<1> QED BY <1>2 DEF D

\* A decoder that has stopped reaches only itself.
LEMMA ReachesStopped ==
    ASSUME NEW s \in Seq(Bytes), NEW d \in Decoders(s), Stopped(d), NEW w, Reaches(s, d, w)
    PROVE  w = d
<1> DEFINE C == {d}
<1>1. Onward(s, d) = d
  BY OnwardGood
<1>2. C \in SUBSET Decoders(s) /\ d \in C /\ \A x \in C : Onward(s, x) \in C
  BY <1>1
<1> HIDE DEF C
<1>3. w \in C
  BY <1>2 DEF Reaches
<1> QED BY <1>3 DEF C

\* On the way, nothing of the data is taken back.
LEMMA ReachesData ==
    ASSUME NEW s \in Seq(Bytes), NEW d \in Decoders(s), NEW w \in Decoders(s), Reaches(s, d, w)
    PROVE  Begins(d.data, w.data)
<1> DEFINE C == {x \in Decoders(s) : Begins(d.data, x.data)}
<1>1. \A x \in Decoders(s) : x.data \in Seq(Bytes)
  BY DEF Decoders, Records
<1>2. d \in C
  BY <1>1, BeginsSelf
<1>3. ASSUME NEW x \in C PROVE Onward(s, x) \in C
  <2>1. Onward(s, x) \in Decoders(s) /\ Begins(x.data, Onward(s, x).data)
    BY OnwardGood
  <2>2. d.data \in Seq(Bytes) /\ x.data \in Seq(Bytes) /\ Onward(s, x).data \in Seq(Bytes)
    BY <1>1, <2>1
  <2>3. Begins(d.data, Onward(s, x).data)
    BY <2>1, <2>2, BeginsTrans
  <2> QED BY <2>1, <2>3
<1>4. C \in SUBSET Decoders(s)
  OBVIOUS
<1> HIDE DEF C
<1>5. w \in C
  BY <1>2, <1>3, <1>4 DEF Reaches
<1> QED BY <1>5 DEF C

\* f is the first n turns on s.
Runs(s, n, f) == f = [i \in 0..n |-> IF i = 0 THEN New ELSE Onward(s, f[i - 1])]

\* They exist.
LEMMA RunExists ==
    ASSUME NEW s, NEW n \in Nat
    PROVE  \E f : Runs(s, n, f)
<1> DEFINE S == {m \in Nat : \E f : Runs(s, m, f)}
<1>1. 0 \in S
  <2> DEFINE f == [i \in 0..0 |-> New]
  <2>1. f = [i \in 0..0 |-> IF i = 0 THEN New ELSE Onward(s, f[i - 1])]
    OBVIOUS
  <2> QED BY <2>1 DEF Runs
<1>2. ASSUME NEW m \in Nat, m \in S PROVE m + 1 \in S
  <2>1. PICK f : Runs(s, m, f)
    BY <1>2
  <2> DEFINE g == [i \in 0..(m + 1) |-> IF i <= m THEN f[i] ELSE Onward(s, f[i - 1])]
  <2>2. \A i \in 0..m : f[i] = IF i = 0 THEN New ELSE Onward(s, f[i - 1])
    BY <2>1 DEF Runs
  <2>3. ASSUME NEW i \in 0..(m + 1)
        PROVE  g[i] = IF i = 0 THEN New ELSE Onward(s, g[i - 1])
    <3>1. CASE i <= m
      <4>1. i \in 0..m /\ (i # 0 => i - 1 \in 0..m /\ i - 1 \in 0..(m + 1))
        BY <3>1
      <4>2. g[i] = f[i] /\ (i # 0 => g[i - 1] = f[i - 1])
        BY <4>1
      <4> QED BY <4>1, <4>2, <2>2
    <3>2. CASE i = m + 1
      <4>1. i # 0 /\ i - 1 \in 0..(m + 1) /\ i - 1 <= m
        BY <3>2
      <4>2. g[i] = Onward(s, f[i - 1])
        BY <3>2
      <4>3. g[i - 1] = f[i - 1]
        BY <4>1
      <4> QED BY <4>1, <4>2, <4>3
    <3> QED BY <3>1, <3>2
  <2>4. g = [i \in 0..(m + 1) |-> IF i = 0 THEN New ELSE Onward(s, g[i - 1])]
    <3> HIDE DEF g
    <3>1. g = [i \in 0..(m + 1) |-> g[i]]
      BY DEF g
    <3> QED BY <2>3, <3>1
  <2>5. Runs(s, m + 1, g)
    <3> HIDE DEF g
    <3> QED BY <2>4 DEF Runs
  <2> QED BY <2>5
<1>3. Nat \subseteq S
  <2> HIDE DEF S
  <2> QED BY <1>1, <1>2, Induction
<1> QED BY <1>3

\* A new decoder.
LEMMA NewGood ==
    ASSUME NEW s \in Seq(Bytes)
    PROVE  New \in Decoders(s) /\ ~Stopped(New)
<1>1. Len(s) \in Nat /\ 0 \in 0..Len(s) /\ 0 \in 0..MaxBody /\ 0 \in 0..MaxTrailers /\ 0 + 0 <= MaxBody
  BY Limits
<1>2. <<>> \in Seq(Bytes)
  OBVIOUS
<1>3. New \in Records(Len(s))
  BY <1>1, <1>2 DEF New, Records
<1>4. Sound(s, New)
  BY <1>1 DEF New, Sound
<1>5. ~Stopped(New)
  BY DEF New, Stopped
<1> QED BY <1>3, <1>4, <1>5 DEF Decoders

\* OneShot is where a new decoder comes to a stop: a turn consumes or stops,
\* so there are turns enough.
LEMMA OneShotIs ==
    ASSUME NEW s \in Seq(Bytes)
    PROVE  OneShot(s) \in Decoders(s) /\ Stopped(OneShot(s)) /\ Reaches(s, New, OneShot(s))
<1> DEFINE L == Len(s) + 1
           f == CHOOSE g : Runs(s, L, g)
<1>1. L \in Nat
  OBVIOUS
<1>2. OneShot(s) = f[L]
  BY DEF OneShot, Runs
<1>3. Runs(s, L, f)
  <2>1. \E g : Runs(s, L, g)
    BY <1>1, RunExists
  <2> QED BY <2>1
<1> HIDE DEF f
<1>4. \A i \in 0..L : f[i] = IF i = 0 THEN New ELSE Onward(s, f[i - 1])
  BY <1>3 DEF Runs
<1> HIDE DEF L
<1>5. f[0] = New
  BY <1>1, <1>4
<1>6. ASSUME NEW i \in Nat, i + 1 <= L PROVE f[i + 1] = Onward(s, f[i])
  <2>1. i + 1 \in 0..L /\ i + 1 # 0 /\ (i + 1) - 1 = i
    BY <1>1, <1>6
  <2> QED BY <1>4, <2>1
<1> DEFINE P == {i \in Nat : i <= L => f[i] \in Decoders(s) /\ (Stopped(f[i]) \/ f[i].at >= i)}
<1>7. 0 \in P
  <2>1. New.at >= 0
    BY DEF New
  <2> QED BY <1>5, <2>1, NewGood
<1>8. ASSUME NEW i \in Nat, i \in P PROVE i + 1 \in P
  <2> SUFFICES ASSUME i + 1 <= L
               PROVE  f[i + 1] \in Decoders(s) /\ (Stopped(f[i + 1]) \/ f[i + 1].at >= i + 1)
    OBVIOUS
  <2>1. f[i] \in Decoders(s) /\ (Stopped(f[i]) \/ f[i].at >= i)
    BY <1>1, <1>8
  <2>2. f[i + 1] = Onward(s, f[i])
    BY <1>6
  <2>3. f[i + 1] \in Decoders(s)
    BY <2>1, <2>2, OnwardGood
  <2>4. CASE Stopped(f[i])
    <3>1. f[i + 1] = f[i]
      BY <2>1, <2>2, <2>4, OnwardGood
    <3> QED BY <2>3, <2>4, <3>1
  <2>5. CASE ~Stopped(f[i])
    <3>1. Stopped(f[i + 1]) \/ f[i + 1].at > f[i].at
      BY <2>1, <2>2, <2>5, OnwardGood DEF Good
    <3>2. f[i].at >= i /\ f[i].at \in Int /\ f[i + 1].at \in Int
      BY <2>1, <2>3, <2>5 DEF Decoders, Records
    <3>3. f[i + 1].at > f[i].at => f[i + 1].at >= i + 1
      BY <3>2
    <3> QED BY <2>3, <3>1, <3>3
  <2> QED BY <2>4, <2>5
<1>9. Nat \subseteq P
  <2> HIDE DEF P
  <2> QED BY <1>7, <1>8, Induction
<1>10. f[L] \in Decoders(s) /\ (Stopped(f[L]) \/ f[L].at >= L)
  BY <1>1, <1>9
<1>11. Stopped(f[L])
  <2>1. f[L].at \in 0..Len(s)
    BY <1>10 DEF Decoders, Records
  <2>2. ~(f[L].at >= L)
    BY <2>1 DEF L
  <2> QED BY <1>10, <2>2
<1>12. ASSUME NEW C \in SUBSET Decoders(s), New \in C, \A x \in C : Onward(s, x) \in C
       PROVE  f[L] \in C
  <2> DEFINE Q == {i \in Nat : i <= L => f[i] \in C}
  <2>1. 0 \in Q
    BY <1>5, <1>12
  <2>2. ASSUME NEW i \in Nat, i \in Q PROVE i + 1 \in Q
    <3> SUFFICES ASSUME i + 1 <= L PROVE f[i + 1] \in C
      OBVIOUS
    <3>1. f[i] \in C
      BY <1>1, <2>2
    <3> QED BY <1>6, <1>12, <3>1
  <2>3. Nat \subseteq Q
    <3> HIDE DEF Q
    <3> QED BY <2>1, <2>2, Induction
  <2> QED BY <1>1, <2>3
<1>13. Reaches(s, New, f[L])
  BY <1>12 DEF Reaches
<1> QED BY <1>2, <1>10, <1>11, <1>13

-----------------------------------------------------------------------------
(* A body as its sender frames it.                                         *)

\* Every stream of Meant is laid out as a sender within the limits would, and
\* Meant says its data and where it ends.
WellFramed ==
    \A w \in DOMAIN Meant :
        \E l : /\ Laid(w, l)
               /\ Meant[w].data = l.data[Len(l.chunks)]
               /\ Meant[w].ends = l.ft[Len(l.fields)] + 2

\* The decoder at place a, with t decoded, r bytes left of its chunk, and n
\* trailers in b bytes.
Stage(q, a, t, r, b, n) ==
    [state |-> q, remaining |-> r, decoded |-> Len(t), trailer_bytes |-> b, trailers |-> n,
     at |-> a, data |-> t, asks |-> FALSE, error |-> "none"]

\* With all of s there, e comes after d.
Goes(s, d, e) == Onward(s, d) = e

\* The turn over a CRLF.
LEMMA StageOver ==
    ASSUME NEW a \in Nat, NEW i \in Nat, NEW t \in Seq(Bytes), NEW e,
           e = [Stage("DataCrlf", a, t, 0, 0, 0) EXCEPT !.at = @ + i, !.state = "Size"]
    PROVE  e = Stage("Size", a + i, t, 0, 0, 0)
BY DEF Stage

\* find_line finds line t there.
Found(s, a, t, max, e) ==
    LET c == SubSeq(s, a + 1, Len(s)) IN
    find_line(c, max, e) = Line(Len(t) + 2) /\ SubSeq(c, 1, Len(t)) = t

\* It does find a line that stands there.
LEMMA LineFound ==
    ASSUME NEW s \in Seq(Bytes), NEW a \in Nat, NEW t \in Seq(Bytes), LineAt(s, a, t),
           OneLine(t), NEW max \in Nat, Len(t) <= max, NEW e
    PROVE  Found(s, a, t, max, e)
<1> DEFINE c == SubSeq(s, a + 1, Len(s))
           i == Len(t) + 2
           L == Len(s)
<1>1. Len(t) \in Nat /\ L \in Nat /\ a + Len(t) + 2 <= L
  BY DEF LineAt
<1>2. a \in 0..L /\ L \in 0..L /\ i \in 1..(L - a) /\ Len(t) + 1 \in 1..(L - a) /\ i - 1 = Len(t) + 1
      /\ a + i = a + Len(t) + 2 /\ a + (Len(t) + 1) = a + Len(t) + 1 /\ i # 1 /\ i - 2 <= max
      /\ Len(t) \in 0..(L - a)
  BY <1>1
<1>3. c \in Seq(Bytes) /\ Len(c) = L - a /\ \A j \in 1..(L - a) : c[j] = s[a + j]
  BY <1>2, Rest
<1> HIDE DEF c, i, L
<1>4. c[i] = "n" /\ c[i - 1] = "r"
  BY <1>2, <1>3 DEF LineAt
<1>5. ASSUME NEW j \in 1..Len(t) PROVE c[j] = t[j]
  <2>1. j \in 1..(L - a)
    BY <1>1, <1>2
  <2> QED BY <1>3, <2>1 DEF LineAt
<1>6. ASSUME NEW j \in 1..(i - 1) PROVE c[j] # "n"
  <2>1. j \in 1..Len(t) \/ j = i - 1
    BY <1>1, <1>2
  <2> QED BY <1>4, <1>5, <2>1 DEF OneLine
<1>7. Contains(c, "n") /\ LineFeed(c) = i
  BY <1>2, <1>3, <1>4, <1>6, LineFeedOnly
<1>8. find_line(c, max, e) = Line(i)
  <2>1. c \in Seq(Bytes) /\ i # 1 /\ i - 2 <= max
    BY <1>2, <1>3
  <2> QED BY <1>4, <1>7, <2>1, FindLineIs
<1>9. SubSeq(c, 1, Len(t)) = t
  <2>1. Len(t) \in 0..Len(c) /\ 0 \in 0..Len(t) /\ 0 + 1 = 1 /\ Len(t) - 0 = Len(t)
    BY <1>1, <1>2, <1>3
  <2>2. /\ SubSeq(c, 0 + 1, Len(t)) \in Seq(Bytes) /\ Len(SubSeq(c, 0 + 1, Len(t))) = Len(t) - 0
        /\ \A j \in 1..(Len(t) - 0) : SubSeq(c, 0 + 1, Len(t))[j] = c[0 + j]
    BY <1>3, <2>1, Rest
  <2>3. /\ SubSeq(c, 1, Len(t)) \in Seq(Bytes) /\ Len(SubSeq(c, 1, Len(t))) = Len(t)
        /\ \A j \in 1..Len(t) : SubSeq(c, 1, Len(t))[j] = c[j]
    BY <2>1, <2>2
  <2> QED BY <1>5, <2>3, SeqEqual
<1> QED BY <1>8, <1>9 DEF Found, c, i

\* A size line, taken.
LEMMA SizeStep ==
    ASSUME NEW s \in Seq(Bytes), NEW a \in Nat, NEW t \in Seq(Bytes), NEW line \in Seq(Bytes),
           NEW z \in Nat, LineAt(s, a, line), SizeLine(line, z), Len(t) + z <= MaxBody,
           NEW q, q = (IF z = 0 THEN "Trailers" ELSE "Data"),
           NEW h \in Nat, h = a + (Len(line) + 2)
    PROVE  Goes(s, Stage("Size", a, t, 0, 0, 0), Stage(q, h, t, z, 0, 0))
<1> DEFINE d == Stage("Size", a, t, 0, 0, 0)
           c == SubSeq(s, a + 1, Len(s))
           l == find_line(c, MAX_SIZE_DIGITS + ExtRoom, "MissingCrlf")
           p == parse_chunk_size(SubSeq(c, 1, l.content))
           i == Len(line) + 2
<1>1. d.state = "Size" /\ d.at = a /\ ~Stopped(d) /\ d.decoded = Len(t)
  BY DEF Stage, Stopped
<1>2. Onward(s, d) = SizeTurn(d, c)
  <2>1. Onward(s, d) = Turn(d, c)
    BY <1>1 DEF Onward
  <2> HIDE DEF d, c
  <2> QED BY <1>1, <2>1, TurnIs
<1>3. l = Line(i) /\ SubSeq(c, 1, Len(line)) = line
  <2> DEFINE M == MAX_SIZE_DIGITS + ExtRoom
  <2>1. /\ OneLine(line) /\ Len(line) <= M /\ M \in Nat
    BY Limits DEF SizeLine
  <2>2. l = find_line(c, M, "MissingCrlf")
    OBVIOUS
  <2> HIDE DEF M, l
  <2>3. Found(s, a, line, M, "MissingCrlf")
    BY <2>1, LineFound
  <2> QED BY <2>2, <2>3 DEF Found
<1>4. /\ l.got = "line" /\ p.got = "size" => SizeTurn(d, c) = Sized(d, l.consumed, p.size)
  BY SizeTurnIs
<1> HIDE DEF l, c, d
<1>5. l.got = "line" /\ l.content = i - 2 /\ l.consumed = i /\ i - 2 = Len(line)
  BY <1>3 DEF Line
<1>6. p = [got |-> "size", size |-> z]
  BY <1>3, <1>5 DEF SizeLine
<1>7. SizeTurn(d, c) = Sized(d, i, z)
  BY <1>4, <1>5, <1>6
<1>8. ~TooLarge(d, z)
  BY <1>1, Limits DEF TooLarge
<1>9. CASE z = 0
  <2>1. Sized(d, i, z) = [[d EXCEPT !.at = @ + i] EXCEPT !.state = "Trailers"]
    BY <1>8, <1>9 DEF Sized
  <2>2. Sized(d, i, z) = Stage("Trailers", a + i, t, 0, 0, 0)
    BY <2>1 DEF d, Stage
  <2> QED BY <1>2, <1>7, <1>9, <2>2 DEF d, Goes
<1>10. CASE z # 0
  <2>1. Sized(d, i, z) = [[d EXCEPT !.at = @ + i] EXCEPT !.state = "Data", !.remaining = z]
    BY <1>8, <1>10 DEF Sized
  <2>2. Sized(d, i, z) = Stage("Data", a + i, t, z, 0, 0)
    BY <2>1 DEF d, Stage
  <2> QED BY <1>2, <1>7, <1>10, <2>2 DEF d, Goes
<1> QED BY <1>9, <1>10

\* A chunk, moved.
LEMMA DataStep ==
    ASSUME NEW s \in Seq(Bytes), NEW a \in Nat, NEW t \in Seq(Bytes), NEW u \in Seq(Bytes),
           NEW z \in Nat, z = Len(u), z > 0, LineAt(s, a, u),
           Stage("Data", a, t, z, 0, 0) \in Decoders(s),
           NEW h \in Nat, h = a + z, NEW v, v = t \o u
    PROVE  Goes(s, Stage("Data", a, t, z, 0, 0), Stage("DataCrlf", h, v, 0, 0, 0))
<1> DEFINE d == Stage("Data", a, t, z, 0, 0)
           L == Len(s)
<1>1. d.state = "Data" /\ d.at = a /\ ~Stopped(d) /\ d.decoded = Len(t) /\ d.remaining = z /\ d.data = t
  BY DEF Stage, Stopped
<1>2. z \in Nat /\ z > 0 /\ L \in Nat /\ a + z + 2 <= L /\ Len(t) \in Nat
  BY DEF LineAt
<1>3. L \in 0..L /\ a <= L /\ a < L /\ ~(L - a < z) /\ a + z \in 0..L /\ a \in 0..(a + z)
      /\ (a + z) - a = z
  BY <1>2
<1>4. Onward(s, d) = Turn(d, SubSeq(s, a + 1, L))
  BY <1>1 DEF Onward
<1> HIDE DEF d, L
<1>5. d \in Decoders(s)
  BY DEF d
<1>6. Onward(s, d) = Moved(s, d, z)
  <2>1. d.at < L => Turn(d, SubSeq(s, d.at + 1, L))
                      = Moved(s, d, IF L - d.at < d.remaining THEN L - d.at ELSE d.remaining)
    <3>1. L \in 0..Len(s) /\ d.at <= L
      BY <1>1, <1>3 DEF L
    <3> QED BY <1>1, <1>5, <3>1, DataIs, Zenon
  <2> QED BY <1>1, <1>3, <1>4, <2>1
<1>7. SubSeq(s, a + 1, a + z) = u
  <2>1. /\ SubSeq(s, a + 1, a + z) \in Seq(Bytes) /\ Len(SubSeq(s, a + 1, a + z)) = z
        /\ \A j \in 1..z : SubSeq(s, a + 1, a + z)[j] = s[a + j]
    <3>1. a + z \in 0..Len(s)
      BY <1>3 DEF L
    <3> QED BY <1>3, <3>1, Rest
  <2>2. \A j \in 1..z : s[a + j] = u[j]
    BY DEF LineAt
  <2> QED BY <2>1, <2>2, SeqEqual
<1>8. Len(t \o u) = Len(t) + z
  BY ConcatProperties
<1>9. Moved(s, d, z) = [d EXCEPT !.at = @ + z, !.remaining = @ - z, !.decoded = @ + z,
                                 !.data = t \o u, !.state = "DataCrlf"]
  BY <1>1, <1>7, Zenon DEF Moved
<1>10. z - z = 0
  BY <1>2
<1>11. Len(v) = Len(t) + z /\ Moved(s, d, z) = [d EXCEPT !.at = @ + z, !.remaining = @ - z,
                                     !.decoded = @ + z, !.data = v, !.state = "DataCrlf"]
  BY <1>8, <1>9
<1>12. Moved(s, d, z) = Stage("DataCrlf", a + z, v, 0, 0, 0)
  BY <1>10, <1>11, ZenonT(60) DEF d, Stage
<1> QED BY <1>6, <1>12 DEF d, Goes

\* The CRLF behind it, taken.
LEMMA CrlfStep ==
    ASSUME NEW s \in Seq(Bytes), NEW a \in Nat, NEW t \in Seq(Bytes),
           a + 2 <= Len(s), s[a + 1] = "r", s[a + 2] = "n", NEW h, h = a + 2
    PROVE  Goes(s, Stage("DataCrlf", a, t, 0, 0, 0), Stage("Size", h, t, 0, 0, 0))
<1> DEFINE d == Stage("DataCrlf", a, t, 0, 0, 0)
           c == SubSeq(s, a + 1, Len(s))
<1>1. d.state = "DataCrlf" /\ d.at = a /\ ~Stopped(d)
  BY DEF Stage, Stopped
<1>2. Onward(s, d) = Turn(d, c)
  BY <1>1 DEF Onward
<1>3. a \in 0..Len(s) /\ Len(s) \in 0..Len(s) /\ Len(s) - a >= 2 /\ Len(s) \in Nat
      /\ 1 \in 1..(Len(s) - a) /\ 2 \in 1..(Len(s) - a) /\ 2 \in 0..(Len(s) - a)
  OBVIOUS
<1>4. c \in Seq(Bytes) /\ Len(c) = Len(s) - a /\ \A j \in 1..(Len(s) - a) : c[j] = s[a + j]
  BY <1>3, Rest
<1> HIDE DEF c, d
<1>5. c[1] = "r" /\ c[2] = "n" /\ ~(Len(c) < 2)
  BY <1>3, <1>4
<1>6. SubSeq(c, 1, 2) = <<"r", "n">>
  <2>1. 2 \in 0..Len(c) /\ 0 \in 0..2
    BY <1>3, <1>4
  <2>2. /\ SubSeq(c, 0 + 1, 2) \in Seq(Bytes) /\ Len(SubSeq(c, 0 + 1, 2)) = 2 - 0
        /\ \A j \in 1..(2 - 0) : SubSeq(c, 0 + 1, 2)[j] = c[0 + j]
    BY <1>4, <2>1, Rest
  <2>3. SubSeq(c, 1, 2) \in Seq(Bytes) /\ Len(SubSeq(c, 1, 2)) = 2
        /\ SubSeq(c, 1, 2)[1] = "r" /\ SubSeq(c, 1, 2)[2] = "n"
    BY <1>5, <2>2
  <2> DEFINE v == SubSeq(c, 1, 2)
             y == <<"r", "n">>
  <2>7. "r" \in Bytes /\ "n" \in Bytes
    BY DEF Bytes
  <2>4. y \in Seq(Bytes) /\ Len(y) = 2 /\ y[1] = "r" /\ y[2] = "n"
    BY <2>7
  <2> HIDE DEF v, y
  <2>5. v \in Seq(Bytes) /\ Len(v) = Len(y) /\ \A j \in 1..Len(v) : v[j] = y[j]
    BY <2>3, <2>4 DEF v
  <2>6. v = y
    BY <2>4, <2>5, SeqEqual
  <2> QED BY <2>6 DEF v, y
<1>7. DataCrlfTurn(d, c) = [d EXCEPT !.at = @ + 2, !.state = "Size"]
  BY <1>5, <1>6, Zenon DEF DataCrlfTurn
<1>8. Turn(d, c) = DataCrlfTurn(d, c)
  BY <1>1, TurnIs
<1>9. DataCrlfTurn(d, c) = Stage("Size", a + 2, t, 0, 0, 0)
  <2>1. 2 \in Nat
    OBVIOUS
  <2> QED BY <1>7, <2>1, StageOver, ZenonT(60) DEF d
<1> QED BY <1>2, <1>8, <1>9 DEF d, Goes

\* A line of the trailer section, taken.
LEMMA TrailerStep ==
    ASSUME NEW s \in Seq(Bytes), NEW a \in Nat, NEW t \in Seq(Bytes), NEW line \in Seq(Bytes),
           NEW b \in Nat, NEW n \in Nat, LineAt(s, a, line), OneLine(line),
           NEW i \in Nat, i = Len(line) + 2, b + i <= MaxTrailer,
           NEW h, h = a + i, NEW g, g = b + i, NEW m, m = n + 1
    PROVE  /\ Len(line) = 0 =>
                  Goes(s, Stage("Trailers", a, t, 0, b, n), Stage("Ending", h, t, 0, g, n))
           /\ Len(line) # 0 /\ push_trailer(line, n) = "none" =>
                  Goes(s, Stage("Trailers", a, t, 0, b, n), Stage("Trailers", h, t, 0, g, m))
<1> DEFINE d == Stage("Trailers", a, t, 0, b, n)
           c == SubSeq(s, a + 1, Len(s))
           l == find_line(c, MaxTrailer, "TrailerTooLarge")
           e == [d EXCEPT !.trailer_bytes = @ + i]
<1>1. d.state = "Trailers" /\ d.at = a /\ ~Stopped(d) /\ d.trailers = n
  BY DEF Stage, Stopped
<1>2. Onward(s, d) = TrailersTurn(d, c)
  <2>1. Onward(s, d) = Turn(d, c)
    BY <1>1 DEF Onward
  <2> HIDE DEF d, c
  <2> QED BY <1>1, <2>1, TurnIs
<1>3. l.got = "line" => TrailersTurn(d, c) = Trailed(d, l.content, l.consumed, SubSeq(c, 1, l.content))
  BY TrailersTurnIs
<1>4. l = Line(i) /\ SubSeq(c, 1, Len(line)) = line
  <2>1. Len(line) <= MaxTrailer /\ MaxTrailer \in Nat
    BY Limits
  <2> HIDE DEF l
  <2>3. Found(s, a, line, MaxTrailer, "TrailerTooLarge")
    BY <2>1, LineFound
  <2> QED BY <2>3 DEF Found, l
<1> HIDE DEF l, c
<1>5. l.got = "line" /\ l.content = i - 2 /\ l.consumed = i /\ i - 2 = Len(line)
  BY <1>4 DEF Line
<1>6. Onward(s, d) = Trailed(d, Len(line), i, line)
  BY <1>2, <1>3, <1>4, <1>5
<1>7. e = Stage("Trailers", a, t, 0, b + i, n) /\ e.trailer_bytes = b + i
  <2>1. e.trailer_bytes = b + i
    BY DEF Stage
  <2> DEFINE x == e
  <2>2. x = [d EXCEPT !.trailer_bytes = @ + i]
    OBVIOUS
  <2> HIDE DEF x
  <2>3. x = Stage("Trailers", a, t, 0, b + i, n)
    BY <2>2 DEF Stage
  <2> QED BY <2>1, <2>3 DEF x
<1>8. ~(e.trailer_bytes > MaxTrailer)
  BY <1>7, Limits, SMTT(30)
<1>9. CASE Len(line) = 0
  <2>1. Trailed(d, Len(line), i, line) = [e EXCEPT !.at = @ + i, !.state = "Ending"]
    BY <1>8, <1>9 DEF Trailed
  <2> HIDE DEF e
  <2>2. Trailed(d, Len(line), i, line) = Stage("Ending", a + i, t, 0, b + i, n)
    BY <1>7, <2>1 DEF Stage
  <2> QED BY <1>6, <1>9, <2>2 DEF Goes
<1>10. CASE Len(line) # 0 /\ push_trailer(line, n) = "none"
  <2>1. Trailed(d, Len(line), i, line) = [e EXCEPT !.at = @ + i, !.trailers = @ + 1]
    BY <1>1, <1>8, <1>10 DEF Trailed
  <2> HIDE DEF e
  <2> DEFINE j == 1
  <2> HIDE DEF j
  <2>3. Trailed(d, Len(line), i, line) = [e EXCEPT !.at = @ + i, !.trailers = @ + j] /\ j \in Nat
    BY <2>1 DEF j
  <2>2. Trailed(d, Len(line), i, line) = Stage("Trailers", a + i, t, 0, b + i, n + j)
    BY <1>7, <2>3 DEF Stage
  <2> QED BY <1>6, <1>10, <2>2 DEF j, Goes
<1> QED BY <1>9, <1>10

\* The last turn.
LEMMA EndStep ==
    ASSUME NEW s, NEW a, NEW t, NEW b, NEW n
    PROVE  Goes(s, Stage("Ending", a, t, 0, b, n), Stage("Done", a, t, 0, b, n))
<1> DEFINE d == Stage("Ending", a, t, 0, b, n)
           e == Onward(s, d)
<1>1. d.state = "Ending" /\ ~Stopped(d)
  BY DEF Stage, Stopped
<1>2. e = Turn(d, SubSeq(s, d.at + 1, Len(s)))
  BY <1>1 DEF Onward
<1> HIDE DEF e
<1>3. e = [d EXCEPT !.state = "Done"]
  BY <1>1, <1>2, TurnIs
<1>4. e = Stage("Done", a, t, 0, b, n)
  BY <1>3 DEF Stage
<1> QED BY <1>4 DEF e, Goes

\* A stage that is not the last reaches w by way of its next turn.
LEMMA StageOn ==
    ASSUME NEW s \in Seq(Bytes), NEW w \in Decoders(s), Stopped(w),
           NEW q, q # "Done", NEW a, NEW t, NEW r, NEW b, NEW n,
           Stage(q, a, t, r, b, n) \in Decoders(s), Reaches(s, Stage(q, a, t, r, b, n), w),
           NEW e, Goes(s, Stage(q, a, t, r, b, n), e)
    PROVE  e \in Decoders(s) /\ Reaches(s, e, w)
<1> DEFINE d == Stage(q, a, t, r, b, n)
<1>1. ~Stopped(d)
  BY DEF Stage, Stopped
<1> HIDE DEF d
<1>2. d \in Decoders(s) /\ Reaches(s, d, w) /\ w # d /\ e = Onward(s, d)
  BY <1>1 DEF d, Goes
<1> QED BY <1>2, OnwardGood, ReachesNext

\* The one-piece decoding passes the end of every chunk.
LEMMA ChunksReached ==
    ASSUME NEW s \in Seq(Bytes), NEW l, Laid(s, l), NEW w \in Decoders(s), Stopped(w), Reaches(s, New, w)
    PROVE  LET k == Len(l.chunks)
               d == Stage("Size", l.at[k], l.data[k], 0, 0, 0)
           IN d \in Decoders(s) /\ Reaches(s, d, w)
<1> DEFINE k == Len(l.chunks)
           D(j) == Stage("Size", l.at[j], l.data[j], 0, 0, 0)
           S == {j \in Nat : j <= k => D(j) \in Decoders(s) /\ Reaches(s, D(j), w)}
<1>1. k \in Nat /\ l.at[0] = 0 /\ l.data[0] = <<>>
  BY DEF Laid
<1>2. 0 \in S
  <2>1. New = D(0)
    BY <1>1 DEF New, Stage
  <2> HIDE DEF D
  <2> QED BY <2>1, NewGood
<1>3. ASSUME NEW j \in Nat, j \in S PROVE j + 1 \in S
  <2> SUFFICES ASSUME j + 1 <= k PROVE D(j + 1) \in Decoders(s) /\ Reaches(s, D(j + 1), w)
    OBVIOUS
  <2>1. D(j) \in Decoders(s) /\ Reaches(s, D(j), w)
    BY <1>1, <1>3
  <2> DEFINE m == j + 1
             c == l.chunks[m]
             a == l.at[j]
             t == l.data[j]
             i == a + (Len(c.line) + 2)
  <2>2. m \in 1..k /\ m - 1 = j /\ j \in 0..k
    BY <1>1
  <2>18. /\ l.chunks \in Seq([line : Seq(Bytes), data : Seq(Bytes)])
         /\ l.at \in [0..k -> Nat] /\ l.data \in [0..k -> Seq(Bytes)]
    BY DEF Laid
  <2>19. a \in Nat /\ t \in Seq(Bytes)
    BY <2>2, <2>18
  <2>20. c \in [line : Seq(Bytes), data : Seq(Bytes)]
    <3> DEFINE R == [line : Seq(Bytes), data : Seq(Bytes)]
    <3>1. l.chunks \in Seq(R)
      BY <2>18
    <3> HIDE DEF R
    <3>2. \A x \in 1..Len(l.chunks) : l.chunks[x] \in R
      BY <3>1
    <3>3. c \in R
      BY <2>2, <3>2
    <3> QED BY <3>3 DEF R
  <2> HIDE DEF c, a, t
  <2>3. c.line \in Seq(Bytes) /\ c.data \in Seq(Bytes) /\ a \in Nat /\ t \in Seq(Bytes)
    BY <2>19, <2>20
  <2>4. /\ LineAt(s, a, c.line) /\ SizeLine(c.line, Len(c.data)) /\ Len(c.data) > 0
        /\ LineAt(s, a + Len(c.line) + 2, c.data)
        /\ l.at[m] = a + Len(c.line) + 2 + Len(c.data) + 2
        /\ l.data[m] = t \o c.data /\ Len(l.data[m]) <= MaxBody
    BY <2>2 DEF Laid, c, a, t
  <2> HIDE DEF m
  <2>5. Len(c.line) \in Nat /\ Len(c.data) \in Nat /\ Len(t) \in Nat
    BY <2>3
  <2>6. i \in Nat /\ i = a + Len(c.line) + 2
    BY <2>3, <2>5
  <2>7. LineAt(s, i, c.data) /\ l.at[m] = i + Len(c.data) + 2
    BY <2>4, <2>6
  <2>8. Len(t) + Len(c.data) <= MaxBody
    BY <2>3, <2>4, ConcatProperties
  <2>9. t \o c.data \in Seq(Bytes)
    BY <2>3, ConcatProperties
  <2> DEFINE z == Len(c.data)
             h == i + z
             y == h + 2
             u == t \o c.data
  <2>10. z \in Nat /\ z > 0 /\ z = Len(c.data) /\ h \in Nat /\ h = i + z /\ y = h + 2 /\ u = t \o c.data
         /\ u \in Seq(Bytes) /\ "Data" = (IF z = 0 THEN "Trailers" ELSE "Data")
         /\ i = a + (Len(c.line) + 2)
    BY <2>4, <2>5, <2>6, <2>9, SMTT(30)
  <2>13. y = l.at[m] /\ h + 2 <= Len(s) /\ s[h + 1] = "r" /\ s[h + 2] = "n"
    BY <2>5, <2>6, <2>7 DEF LineAt
  <2>21. SizeLine(c.line, z) /\ LineAt(s, a, c.line) /\ Len(t) + z <= MaxBody /\ u = l.data[m]
    BY <2>4, <2>8
  <2> HIDE DEF i, z, h, y, u
  <2>11. Stage("Size", a, t, 0, 0, 0) = D(j)
    BY DEF a, t
  <2>12. Stage("Size", y, u, 0, 0, 0) = D(m)
    BY <2>13, <2>21
  <2> HIDE DEF D
  <2>14. Goes(s, Stage("Size", a, t, 0, 0, 0), Stage("Data", i, t, z, 0, 0))
    BY <2>3, <2>6, <2>10, <2>21, SizeStep
  <2>15. Stage("Data", i, t, z, 0, 0) \in Decoders(s) /\ Reaches(s, Stage("Data", i, t, z, 0, 0), w)
    BY <2>1, <2>11, <2>14, StageOn
  <2>16. Goes(s, Stage("Data", i, t, z, 0, 0), Stage("DataCrlf", h, u, 0, 0, 0))
    BY <2>3, <2>6, <2>7, <2>10, <2>15, DataStep
  <2>17. Stage("DataCrlf", h, u, 0, 0, 0) \in Decoders(s) /\ Reaches(s, Stage("DataCrlf", h, u, 0, 0, 0), w)
    BY <2>15, <2>16, StageOn
  <2>22. Goes(s, Stage("DataCrlf", h, u, 0, 0, 0), Stage("Size", y, u, 0, 0, 0))
    BY <2>10, <2>13, CrlfStep
  <2>23. Stage("Size", y, u, 0, 0, 0) \in Decoders(s) /\ Reaches(s, Stage("Size", y, u, 0, 0, 0), w)
    BY <2>17, <2>22, StageOn
  <2> QED BY <2>12, <2>23 DEF m
<1>4. Nat \subseteq S
  <2> HIDE DEF S
  <2> QED BY <1>2, <1>3, Induction
<1> QED BY <1>1, <1>4

\* It passes the end of every trailer too.
LEMMA FieldsReached ==
    ASSUME NEW s \in Seq(Bytes), NEW l, Laid(s, l), NEW w \in Decoders(s), Stopped(w), Reaches(s, New, w)
    PROVE  LET n == Len(l.fields)
               t == l.data[Len(l.chunks)]
               d == Stage("Trailers", l.ft[n], t, 0, l.ft[n] - l.ft[0], n)
           IN d \in Decoders(s) /\ Reaches(s, d, w)
<1> DEFINE n == Len(l.fields)
           k == Len(l.chunks)
           t == l.data[k]
           o == l.ft[0]
           D(j) == Stage("Trailers", l.ft[j], t, 0, l.ft[j] - o, j)
           S == {j \in Nat : j <= n => D(j) \in Decoders(s) /\ Reaches(s, D(j), w)}
<1>1. /\ n \in Nat /\ k \in Nat /\ k \in 0..k /\ 0 \in 0..n
  BY DEF Laid
<1>2. /\ l.last \in Seq(Bytes) /\ t \in Seq(Bytes) /\ l.at[k] \in Nat /\ o \in Nat
      /\ LineAt(s, l.at[k], l.last) /\ SizeLine(l.last, 0) /\ o = l.at[k] + Len(l.last) + 2
  BY <1>1 DEF Laid
<1> HIDE DEF n, k, t, o
<1>3. 0 \in S
  <2> DEFINE d == Stage("Size", l.at[k], t, 0, 0, 0)
  <2>1. d \in Decoders(s) /\ Reaches(s, d, w)
    BY ChunksReached DEF k, t
  <2>2. d.decoded = Len(t)
    BY DEF Stage
  <2>3. d.decoded \in 0..MaxBody
    BY <2>1 DEF Decoders, Records
  <2>4. Len(t) + 0 <= MaxBody /\ o = l.at[k] + (Len(l.last) + 2) /\ o - o = 0
        /\ "Trailers" = (IF 0 = 0 THEN "Trailers" ELSE "Data") /\ 0 \in Nat
    BY <1>2, <2>2, <2>3, Limits, SMTT(30)
  <2> HIDE DEF d
  <2>5. Goes(s, Stage("Size", l.at[k], t, 0, 0, 0), Stage("Trailers", o, t, 0, 0, 0))
    BY <1>2, <2>4, SizeStep
  <2>6. Stage("Trailers", o, t, 0, 0, 0) \in Decoders(s) /\ Reaches(s, Stage("Trailers", o, t, 0, 0, 0), w)
    BY <2>1, <2>5, StageOn DEF d
  <2>7. Stage("Trailers", o, t, 0, 0, 0) = D(0)
    BY <2>4 DEF o
  <2> QED BY <2>6, <2>7
<1>4. ASSUME NEW j \in Nat, j \in S PROVE j + 1 \in S
  <2> SUFFICES ASSUME j + 1 <= n PROVE D(j + 1) \in Decoders(s) /\ Reaches(s, D(j + 1), w)
    OBVIOUS
  <2>1. D(j) \in Decoders(s) /\ Reaches(s, D(j), w)
    BY <1>1, <1>4
  <2> DEFINE m == j + 1
             line == l.fields[m]
             i == Len(line) + 2
             a == l.ft[j]
             b == l.ft[j] - o
  <2>2. m \in 1..n /\ m - 1 = j /\ j \in 0..n /\ m \in 0..n
    BY <1>1
  <2>12. l.fields \in Seq(Seq(Bytes)) /\ l.ft \in [0..n -> Nat]
    BY DEF Laid, n
  <2>16. a \in Nat /\ l.ft[m] \in Nat
    BY <2>2, <2>12
  <2>17. \A x \in 1..Len(l.fields) : l.fields[x] \in Seq(Bytes)
    BY <2>12
  <2>3. line \in Seq(Bytes) /\ a \in Nat /\ l.ft[m] \in Nat
    BY <2>2, <2>16, <2>17 DEF n
  <2>4. /\ LineAt(s, a, line) /\ l.ft[m] = a + Len(line) + 2 /\ Len(line) > 0 /\ OneLine(line)
        /\ push_trailer(line, j) = "none"
    BY <2>2 DEF Laid, n
  <2>5. l.ft[m] + 2 - o <= MaxTrailer
    <3>1. \A x \in 0..n : l.ft[x] + 2 - o <= MaxTrailer
      BY DEF Laid, n, o
    <3> QED BY ONLY <2>2, <3>1
  <2>6. b \in Nat
    <3>1. D(j).trailer_bytes = b
      BY DEF Stage
    <3> QED BY <2>1, <3>1 DEF Decoders, Records
  <2> HIDE DEF m, line, D
  <2>7. Len(line) \in Nat /\ Len(line) # 0 /\ i \in Nat /\ i = Len(line) + 2 /\ l.ft[m] = a + i
    <3>1. Len(line) \in Nat
      BY ONLY <2>3
    <3>2. a \in Nat /\ l.ft[m] = a + Len(line) + 2 /\ Len(line) > 0
      BY <2>3, <2>4
    <3> QED BY ONLY <3>1, <3>2, SMTT(30)
  <2>13. o \in Nat /\ a \in Nat /\ i \in Nat /\ MaxTrailer \in Nat
    BY <1>2, <2>3, <2>7, Limits
  <2>14. (a + i) + 2 - o <= MaxTrailer
    BY <2>5, <2>7
  <2>15. (a - o) + i <= MaxTrailer /\ (a - o) + i = (a + i) - o
    BY <2>13, <2>14, SMTT(30)
  <2>8. b + i <= MaxTrailer /\ b + i = l.ft[m] - o
    BY <2>7, <2>15
  <2> HIDE DEF i, a, b
  <2> DEFINE h == a + i
             g == b + i
  <2>18. h = a + i /\ g = b + i /\ m = j + 1 /\ h = l.ft[m] /\ g = l.ft[m] - o
    BY <2>7, <2>8 DEF m
  <2> HIDE DEF h, g
  <2>9. Goes(s, Stage("Trailers", a, t, 0, b, j), Stage("Trailers", h, t, 0, g, m))
    BY <1>2, <2>3, <2>4, <2>6, <2>7, <2>8, <2>18, TrailerStep
  <2>10. Stage("Trailers", a, t, 0, b, j) = D(j)
    BY DEF a, b, D
  <2>11. Stage("Trailers", h, t, 0, g, m) = D(m)
    BY <2>18 DEF D
  <2>19. Stage("Trailers", h, t, 0, g, m) \in Decoders(s) /\ Reaches(s, Stage("Trailers", h, t, 0, g, m), w)
    BY <2>1, <2>9, <2>10, StageOn
  <2> QED BY <2>11, <2>19 DEF m
<1>5. Nat \subseteq S
  <2> HIDE DEF S
  <2> QED BY <1>3, <1>4, Induction
<1>6. D(n) \in Decoders(s) /\ Reaches(s, D(n), w)
  BY <1>1, <1>5
<1> QED BY <1>6 DEF n, k, t, o

\* A body laid out so is decoded to its data and to its end.
LEMMA LaidDecoded ==
    ASSUME NEW s \in Seq(Bytes), NEW l, Laid(s, l)
    PROVE  LET d == OneShot(s) IN
           /\ d.error = "none" /\ d.state = "Done" /\ d.asks = FALSE
           /\ d.data = l.data[Len(l.chunks)]
           /\ d.at = l.ft[Len(l.fields)] + 2
<1> DEFINE w == OneShot(s)
           n == Len(l.fields)
           k == Len(l.chunks)
           t == l.data[k]
           a == l.ft[n]
           b == l.ft[n] - l.ft[0]
           i == 2
           d == Stage("Trailers", a, t, 0, b, n)
           e == Stage("Done", a + i, t, 0, b + i, n)
<1>1. w \in Decoders(s) /\ Stopped(w) /\ Reaches(s, New, w)
  BY OneShotIs
<1> HIDE DEF w
<1>2. d \in Decoders(s) /\ Reaches(s, d, w)
  BY <1>1, FieldsReached
<1>3. n \in Nat /\ n \in 0..n /\ k \in 0..k
  BY DEF Laid
<1>13. l.ft \in [0..n -> Nat] /\ l.data \in [0..k -> Seq(Bytes)]
  BY DEF Laid
<1>14. LineAt(s, a, <<>>) /\ \A j \in 0..n : l.ft[j] + 2 - l.ft[0] <= MaxTrailer
  BY DEF Laid
<1>15. 0 \in 0..n
  BY <1>3
<1>16. a \in Nat /\ t \in Seq(Bytes) /\ l.ft[0] \in Nat
  BY <1>3, <1>13, <1>15
<1>17. a + 2 - l.ft[0] <= MaxTrailer
  BY <1>3, <1>14
<1>4. a \in Nat /\ t \in Seq(Bytes) /\ LineAt(s, a, <<>>) /\ a + 2 - l.ft[0] <= MaxTrailer
      /\ l.ft[0] \in Nat
  BY <1>14, <1>16, <1>17
<1>5. b \in Nat
  <2>1. d.trailer_bytes = b
    BY DEF Stage
  <2> QED BY <1>2, <2>1 DEF Decoders, Records
<1>6. b + i <= MaxTrailer
  BY <1>4, Limits
<1> HIDE DEF n, k, t, a, b
<1>7. <<>> \in Seq(Bytes) /\ Len(<<>>) = 0 /\ OneLine(<<>>)
  BY DEF OneLine
<1> DEFINE y == <<>>
           h == a + i
           g == b + i
           m == n + 1
<1>11. y \in Seq(Bytes) /\ Len(y) = 0 /\ OneLine(y) /\ LineAt(s, a, y) /\ i \in Nat /\ i = Len(y) + 2
       /\ h = a + i /\ g = b + i /\ m = n + 1
  BY <1>4, <1>7
<1>18. n \in Nat /\ a \in Nat /\ t \in Seq(Bytes) /\ b \in Nat /\ b + i <= MaxTrailer
  BY <1>3, <1>4, <1>5, <1>6
<1> HIDE DEF y, h, g, m, i
<1>19. Goes(s, Stage("Trailers", a, t, 0, b, n), Stage("Ending", h, t, 0, g, n))
  BY <1>11, <1>18, TrailerStep
<1>8. Stage("Ending", h, t, 0, g, n) \in Decoders(s) /\ Reaches(s, Stage("Ending", h, t, 0, g, n), w)
  BY <1>1, <1>2, <1>19, StageOn
<1>20. Goes(s, Stage("Ending", h, t, 0, g, n), e)
  BY EndStep DEF h, g
<1>9. e \in Decoders(s) /\ Reaches(s, e, w)
  BY <1>1, <1>8, <1>20, StageOn
<1>10. Stopped(e) /\ e.error = "none" /\ e.state = "Done" /\ e.asks = FALSE /\ e.data = t /\ e.at = a + i
  BY DEF Stage, Stopped
<1> HIDE DEF e
<1>12. w = e
  BY <1>9, <1>10, ReachesStopped
<1> QED BY <1>10, <1>12 DEF w, t, k, a, n, i

-----------------------------------------------------------------------------
(* The decoder, packet by packet.                                          *)

\* The decoder as it was before it asked.
Bare(d) == [d EXCEPT !.asks = FALSE]

\* The inductive invariant: until it has failed, the decoder is on the way of
\* the one that has the whole stream; when it asks, it does so for want of
\* bytes; and when it has failed, that one fails too, or a line is at the limit.
OnTheWay ==
    /\ stream \in Seq(Bytes) /\ fed \in 0..Len(stream)
    /\ dec \in Decoders(stream) /\ dec.at <= fed
    /\ whole \in Decoders(stream) /\ Stopped(whole)
    /\ Begins(dec.data, whole.data)
    /\ dec.asks => /\ dec.error = "none"
                   /\ Turn(Bare(dec), SubSeq(stream, dec.at + 1, fed)) = dec
    /\ dec.error = "none" => Reaches(stream, Bare(dec), whole)
    /\ dec.error # "none" => whole.error # "none" \/ LineAtLimit

\* Before it asked, the decoder was the same but for that.
LEMMA BareIs ==
    ASSUME NEW s, NEW d \in Decoders(s)
    PROVE  /\ Bare(d) \in Decoders(s) /\ Bare(d).asks = FALSE
           /\ Bare(d).at = d.at /\ Bare(d).data = d.data /\ Bare(d).error = d.error
           /\ Bare(d).state = d.state /\ Bare(Bare(d)) = Bare(d)
           /\ ~d.asks => Bare(d) = d
           /\ ~d.asks => Bare(Asks(d)) = d
<1>1. d \in Records(Len(s)) /\ Sound(s, d)
  BY DEF Decoders
<1>2. /\ Bare(d) \in Records(Len(s)) /\ Bare(d).asks = FALSE
      /\ Bare(d).at = d.at /\ Bare(d).data = d.data /\ Bare(d).error = d.error
      /\ Bare(d).state = d.state /\ Bare(d).decoded = d.decoded /\ Bare(d).remaining = d.remaining
  BY <1>1 DEF Records, Bare
<1>3. Sound(s, Bare(d))
  BY <1>1, <1>2 DEF Sound
<1>4. ~d.asks => d.asks = FALSE
  BY <1>1 DEF Records
<1>5. d.asks = FALSE => Bare(d) = d /\ Bare(Asks(d)) = d
  BY <1>1 DEF Records, Bare, Asks
<1>6. Bare(Bare(d)) = Bare(d)
  BY <1>1 DEF Records, Bare
<1> QED BY <1>2, <1>3, <1>4, <1>5, <1>6 DEF Decoders

\* A size line at the limit is a line at the limit.
LEMMA LimitIsLine ==
    ASSUME stream \in Seq(Bytes), NEW d \in Decoders(stream), d.state = "Size", LimitAt(stream, d.at)
    PROVE  LineAtLimit
<1>1. d.at \in 0..Len(stream) /\ (d.at = 0 \/ stream[d.at] = "n")
  BY DEF Decoders, Records, Sound
<1> DEFINE b == SubSeq(stream, d.at + 1, Len(stream))
           l == find_line(b, Len(b), "none")
<1>2. l = Line(MAX_SIZE_DIGITS + ExtRoom + 2)
  BY DEF LimitAt
<1> HIDE DEF l
<1>3. l.got = "line" /\ l.content = (MAX_SIZE_DIGITS + ExtRoom + 2) - 2
  BY <1>2 DEF Line
<1>4. (MAX_SIZE_DIGITS + ExtRoom + 2) - 2 = MAX_SIZE_DIGITS + ExtRoom
  BY Limits
<1> QED BY <1>1, <1>3, <1>4 DEF LineAtLimit, l

\* It holds at the start.
LEMMA OnTheWayInit == Init => OnTheWay
<1> SUFFICES ASSUME Init PROVE OnTheWay
  OBVIOUS
<1>1. stream \in Seq(Bytes) /\ fed = 0 /\ dec = New /\ whole = OneShot(stream)
  BY ChunkedAssumption DEF Init
<1>2. fed \in 0..Len(stream) /\ New.at <= fed
  BY <1>1 DEF New
<1>3. New.asks = FALSE /\ New.error = "none"
  BY DEF New
<1>4. New \in Decoders(stream) /\ Bare(New) = New
  BY <1>1, <1>3, NewGood, BareIs
<1>5. whole \in Decoders(stream) /\ Stopped(whole) /\ Reaches(stream, New, whole)
  BY <1>1, OneShotIs
<1>6. Begins(New.data, whole.data)
  BY <1>1, <1>4, <1>5, ReachesData
<1> QED BY <1>1, <1>2, <1>3, <1>4, <1>5, <1>6 DEF OnTheWay

\* A turn keeps it.
LEMMA OnTheWayPoll ==
    ASSUME OnTheWay, Poll
    PROVE  OnTheWay'
<1> DEFINE s == stream
           d == dec
           e == Turn(d, SubSeq(s, d.at + 1, fed))
           w == whole
<1>1. /\ s \in Seq(Bytes) /\ fed \in 0..Len(s) /\ d \in Decoders(s) /\ d.at <= fed
      /\ w \in Decoders(s) /\ Stopped(w) /\ ~Stopped(d)
  BY DEF OnTheWay, Poll
<1>2. d.error = "none" /\ ~d.asks
  BY <1>1 DEF Stopped
<1>3. Bare(d) = d /\ Bare(Asks(d)) = d
  BY <1>1, <1>2, BareIs
<1>4. Reaches(s, d, w)
  BY <1>2, <1>3 DEF OnTheWay
<1>5. Reaches(s, Onward(s, d), w)
  BY <1>1, <1>4, ReachesNext
<1>6. Begins(d.data, w.data)
  BY <1>1, <1>4, ReachesData
<1>7. dec' = e /\ stream' = s /\ fed' = fed /\ whole' = w
  BY DEF Poll
<1>8. Good(s, d, fed, e)
  BY <1>1, TurnGood
<1>9. Cut(s, d, fed)
  BY <1>1, TurnCut
<1> HIDE DEF s, d, w
<1>10. /\ e \in Decoders(s) /\ e.at <= fed
       /\ e.asks => e = Asks(d)
  BY <1>8 DEF Good
<1>11. /\ Begins(e.data, w.data)
       /\ e.asks => e.error = "none" /\ Turn(Bare(e), SubSeq(s, e.at + 1, fed)) = e
       /\ e.error = "none" => Reaches(s, Bare(e), w)
       /\ e.error # "none" => w.error # "none" \/ LineAtLimit
  <2>1. CASE e = Asks(d)
    <3>1. e.error = d.error /\ e.data = d.data /\ e.at = d.at
      BY <1>1, <2>1 DEF Asks, Decoders, Records
    <3>2. Bare(e) = d
      BY <1>3, <2>1
    <3>3. Turn(Bare(e), SubSeq(s, e.at + 1, fed)) = e
      BY <3>1, <3>2, Zenon
    <3> HIDE DEF e
    <3> QED BY <1>2, <1>4, <1>6, <3>1, <3>2, <3>3
  <2>2. CASE ~e.asks /\ e = Onward(s, d)
    <3> HIDE DEF e
    <3>1. Reaches(s, e, w)
      BY <1>5, <2>2
    <3>2. Begins(e.data, w.data) /\ Bare(e) = e
      BY <1>1, <1>10, <2>2, <3>1, ReachesData, BareIs
    <3>3. e.error # "none" => w = e
      BY <1>1, <1>10, <3>1, ReachesStopped DEF Stopped
    <3> QED BY <2>2, <3>1, <3>2, <3>3
  <2>3. CASE ~Stopped(e) /\ Onward(s, e) = Onward(s, d)
    <3> HIDE DEF e
    <3>1. Reaches(s, e, w)
      BY <1>5, <2>3, ReachesBack
    <3>2. ~e.asks /\ e.error = "none"
      BY <2>3 DEF Stopped
    <3>3. Begins(e.data, w.data) /\ Bare(e) = e
      BY <1>1, <1>10, <3>1, <3>2, ReachesData, BareIs
    <3> QED BY <3>1, <3>2, <3>3
  <2>4. CASE /\ ~e.asks /\ e.error # "none" /\ e.data = d.data
             /\ \/ Onward(s, d).error # "none"
                \/ d.state = "Size" /\ LimitAt(s, d.at)
    <3> HIDE DEF e
    <3>1. Onward(s, d).error # "none" => w.error # "none"
      <4>1. Onward(s, d) \in Decoders(s)
        BY <1>1, OnwardGood
      <4>2. Onward(s, d).error # "none" => w = Onward(s, d)
        BY <1>1, <1>5, <4>1, ReachesStopped DEF Stopped
      <4> QED BY <4>2
    <3>2. d.state = "Size" /\ LimitAt(s, d.at) => LineAtLimit
      BY <1>1, LimitIsLine DEF s, d
    <3> QED BY <1>6, <2>4, <3>1, <3>2
  <2>5. \/ e = Onward(s, d) \/ e = Asks(d)
        \/ ~Stopped(e) /\ Onward(s, e) = Onward(s, d)
        \/ /\ e.error # "none" /\ e.data = d.data
           /\ \/ Onward(s, d).error # "none"
              \/ d.state = "Size" /\ LimitAt(s, d.at)
    BY <1>9 DEF Cut
  <2> HIDE DEF e
  <2> QED BY <1>10, <2>1, <2>2, <2>3, <2>4, <2>5
<1>12. stream' = stream => (LineAtLimit' <=> LineAtLimit)
  BY DEF LineAtLimit
<1> HIDE DEF e
<1>13. /\ stream' \in Seq(Bytes) /\ fed' \in 0..Len(stream')
       /\ dec' \in Decoders(stream') /\ dec'.at <= fed'
       /\ whole' \in Decoders(stream') /\ Stopped(whole')
  BY <1>1, <1>7, <1>10
<1>14. /\ Begins(dec'.data, whole'.data)
       /\ dec'.asks => /\ dec'.error = "none"
                       /\ Turn(Bare(dec'), SubSeq(stream', dec'.at + 1, fed')) = dec'
       /\ dec'.error = "none" => Reaches(stream', Bare(dec'), whole')
  BY <1>7, <1>11
<1>15. dec'.error # "none" => whole'.error # "none" \/ LineAtLimit'
  BY <1>7, <1>11, <1>12 DEF s
<1> QED BY <1>13, <1>14, <1>15 DEF OnTheWay

\* More bytes keep it.
LEMMA OnTheWayFeed ==
    ASSUME OnTheWay, NEW k \in 1..MaxRead, Feed(k)
    PROVE  OnTheWay'
<1>1. /\ stream \in Seq(Bytes) /\ fed \in 0..Len(stream) /\ dec \in Decoders(stream) /\ dec.at <= fed
      /\ whole \in Decoders(stream) /\ Stopped(whole) /\ dec.asks /\ dec.error = "none"
      /\ Begins(dec.data, whole.data) /\ Reaches(stream, Bare(dec), whole)
  BY DEF OnTheWay, Feed
<1>2. dec' = Bare(dec) /\ stream' = stream /\ whole' = whole /\ fed' = fed + k /\ fed + k <= Len(stream)
  BY DEF Feed, Bare
<1>3. dec.at \in Nat /\ fed \in Nat /\ k \in Nat /\ Len(stream) \in Nat
  BY <1>1, Limits DEF Decoders, Records
<1>4. fed' \in 0..Len(stream) /\ dec.at <= fed'
  BY <1>1, <1>2, <1>3
<1>5. /\ dec' \in Decoders(stream) /\ dec'.asks = FALSE
      /\ dec'.at = dec.at /\ dec'.data = dec.data /\ dec'.error = "none" /\ Bare(dec') = Bare(dec)
  BY <1>1, <1>2, BareIs, ZenonT(60)
<1> QED BY <1>1, <1>2, <1>4, <1>5 DEF OnTheWay

\* Nothing else touches it.
LEMMA OnTheWayStutter ==
    ASSUME OnTheWay, UNCHANGED vars
    PROVE  OnTheWay'
<1>1. stream' = stream /\ fed' = fed /\ dec' = dec /\ whole' = whole
  BY DEF vars
<1>2. LineAtLimit' <=> LineAtLimit
  BY <1>1 DEF LineAtLimit
<1> QED BY <1>1, <1>2 DEF OnTheWay

\* poll and its caller keep the decoder on the way of the one-piece decoding.
THEOREM Underway == Spec => []OnTheWay
<1>1. ASSUME OnTheWay, [Next]_vars PROVE OnTheWay'
  <2>1. CASE Poll
    BY <1>1, <2>1, OnTheWayPoll
  <2>2. CASE \E k \in 1..MaxRead : Feed(k)
    BY <1>1, <2>2, OnTheWayFeed
  <2>3. CASE Over
    BY <1>1, <2>3, OnTheWayStutter DEF Over
  <2>4. CASE UNCHANGED vars
    BY <1>1, <2>4, OnTheWayStutter
  <2> QED BY <1>1, <2>1, <2>2, <2>3, <2>4 DEF Next
<1> QED BY <1>1, OnTheWayInit, PTL DEF Spec

-----------------------------------------------------------------------------
(* The theorems.                                                           *)

\* ChunkedDecoder::poll keeps its type: what is decoded never exceeds
\* max_body_bytes, no more trailers are kept than max_headers, and no byte is
\* consumed that has not been sent, on every stream and under every cut.
THEOREM DecoderTyped == Spec => []TypeOK
<1>1. OnTheWay => TypeOK
  BY DEF OnTheWay, TypeOK, Decoders, Records
<1> QED BY <1>1, Underway, PTL

\* Nothing the decoder has handed over is taken back or belied by what comes.
THEOREM DataStands == Spec => []DataIsFinal
<1>1. OnTheWay => DataIsFinal
  <2> SUFFICES ASSUME OnTheWay PROVE IsPrefix(dec.data, whole.data)
    BY DEF DataIsFinal
  <2>1. dec.data \in Seq(Bytes) /\ whole.data \in Seq(Bytes) /\ Begins(dec.data, whole.data)
    BY DEF OnTheWay, Decoders, Records
  <2> QED BY <2>1, BeginsIsPrefix
<1> QED BY <1>1, Underway, PTL

\* A decoder that is done with all that arrives is the one-piece decoder,
\* unless it has refused.
LEMMA SettledIsWhole ==
    ASSUME OnTheWay, Settled, dec.error = "none"
    PROVE  whole = dec
<1>1. /\ stream \in Seq(Bytes) /\ dec \in Decoders(stream) /\ Reaches(stream, Bare(dec), whole)
      /\ Stopped(whole) /\ Stopped(dec)
  BY DEF OnTheWay, Settled
<1>2. CASE ~dec.asks
  <2>1. Bare(dec) = dec
    BY <1>1, <1>2, BareIs
  <2> QED BY <1>1, <2>1, ReachesStopped
<1>3. CASE dec.asks
  <2>1. fed = Len(stream) /\ Turn(Bare(dec), SubSeq(stream, dec.at + 1, fed)) = dec
    BY <1>3 DEF OnTheWay, Settled
  <2>2. /\ Bare(dec) \in Decoders(stream) /\ Bare(dec).asks = FALSE /\ Bare(dec).at = dec.at
        /\ Bare(dec).error = "none" /\ Bare(dec).state = dec.state
    BY <1>1, BareIs
  <2>3. dec.state # "Done"
    BY <1>1, <1>3 DEF Decoders, Sound
  <2>4. ~Stopped(Bare(dec))
    BY <2>2, <2>3 DEF Stopped
  <2>5. Onward(stream, Bare(dec)) = dec
    BY <2>1, <2>2, <2>4 DEF Onward
  <2>6. whole # Bare(dec)
    BY <1>1, <2>4
  <2>7. Reaches(stream, dec, whole)
    BY <1>1, <2>2, <2>5, <2>6, ReachesNext
  <2> QED BY <1>1, <2>7, ReachesStopped
<1> QED BY <1>2, <1>3

\* How the network cuts the stream changes neither the verdict nor the data
\* nor where the body ends, but for a size line at the limit, which find_line
\* may refuse when it is cut before its LF.
THEOREM CutsDoNotMatter == Spec => []PacketsDecodeAlike
<1>1. OnTheWay => PacketsDecodeAlike
  <2> SUFFICES ASSUME OnTheWay, Settled
               PROVE  \/ /\ Verdict(dec) = Verdict(whole)
                         /\ Verdict(dec) # "refused" =>
                                dec.data = whole.data /\ dec.at = whole.at
                      \/ LineAtLimit /\ Verdict(dec) = "refused"
    BY DEF PacketsDecodeAlike
  <2>1. CASE dec.error = "none"
    BY <2>1, SettledIsWhole
  <2>2. CASE dec.error # "none"
    <3>1. Verdict(dec) = "refused" /\ (whole.error # "none" => Verdict(whole) = "refused")
      BY <2>2 DEF Verdict
    <3>2. whole.error # "none" \/ LineAtLimit
      BY <2>2 DEF OnTheWay
    <3> QED BY <3>1, <3>2
  <2> QED BY <2>1, <2>2
<1> QED BY <1>1, Underway, PTL

\* The history variable is the one-piece decoding of the stream.
IsWhole == whole = OneShot(stream)

\* It stays so.
LEMMA WholeStays == Spec => []IsWhole
<1>1. Init => IsWhole
  BY DEF Init, IsWhole
<1>2. IsWhole /\ [Next]_vars => IsWhole'
  <2> SUFFICES ASSUME IsWhole, [Next]_vars PROVE IsWhole'
    OBVIOUS
  <2>1. stream' = stream /\ whole' = whole
    BY DEF Next, Poll, Feed, Over, vars
  <2> QED BY <2>1 DEF IsWhole
<1> QED BY <1>1, <1>2, PTL DEF Spec

\* A body framed as RFC 9112 has it, by a sender within the limits, is decoded
\* to the data its chunks carry and leaves what follows it alone, whatever its
\* data bytes look like and wherever the stream is cut.
THEOREM FramedBodiesDecode == WellFramed => (Spec => []DecodesWhatWasMeant)
<1> SUFFICES ASSUME WellFramed PROVE Spec => []DecodesWhatWasMeant
  OBVIOUS
<1>1. OnTheWay /\ IsWhole => DecodesWhatWasMeant
  <2> SUFFICES ASSUME OnTheWay, IsWhole, stream \in DOMAIN Meant, Settled, ~LineAtLimit
               PROVE  /\ dec.error = "none" /\ dec.state = "Done"
                      /\ dec.data = Meant[stream].data /\ dec.at = Meant[stream].ends
    BY DEF DecodesWhatWasMeant
  <2>1. PICK l : /\ Laid(stream, l)
                 /\ Meant[stream].data = l.data[Len(l.chunks)]
                 /\ Meant[stream].ends = l.ft[Len(l.fields)] + 2
    BY DEF WellFramed
  <2>2. stream \in Seq(Bytes)
    BY DEF OnTheWay
  <2>3. /\ whole.error = "none" /\ whole.state = "Done"
        /\ whole.data = l.data[Len(l.chunks)] /\ whole.at = l.ft[Len(l.fields)] + 2
    BY <2>1, <2>2, LaidDecoded DEF IsWhole
  <2>4. dec.error = "none"
    BY <2>3 DEF OnTheWay
  <2>5. whole = dec
    BY <2>4, SettledIsWhole
  <2> QED BY <2>1, <2>3, <2>5
<1> QED BY <1>1, Underway, WholeStays, PTL
=============================================================================
