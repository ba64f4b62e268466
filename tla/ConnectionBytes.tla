-------------------------- MODULE ConnectionBytes --------------------------
(***************************************************************************)
(* Where the connection is in the peer's stream.  Every request has its    *)
(* place there (lemma StreamIs); what was consumed ends inside the body    *)
(* that is being read, or where the last request ended, blank lines aside. *)
(* So heads are found where requests begin, no byte is lost, and an        *)
(* upgrade's consumer gets what follows the request.                       *)
(***************************************************************************)
EXTENDS ConnectionProofs

\* Where the head and the body of request i end in the stream.
HeadEnd(off, i) == off[i - 1] + HeadLen(reqs[i])
BodyEnd(off, i) == IF i = 0 THEN 0 ELSE HeadEnd(off, i) + BodyLen(reqs[i])

\* b holds the stream's positions up to p, in order.
Runs(b, p) == \A k \in 1..Len(b) : b[k] = p - Len(b) + k

\* How far the stream was consumed: by all, and by a Body that keeps some of it.
Consumed == pos - Len(io.buf)
ReadBy(b) == Consumed - Len(b.buffered)

\* An unfinished Body is where its framing says it is.
Partial(off, i) ==
    LET b == body[i]
        r == reqs[i]
    IN  /\ b.kind = r.kind
        /\ \/ /\ b.kind = "length" /\ b.buffered = <<>> /\ b.remaining > 0
              /\ ReadBy(b) = HeadEnd(off, i) + r.len - b.remaining
           \/ /\ b.kind = "chunked"
              /\ b.buffered # <<>> => io.buf = <<>> /\ Runs(b.buffered, pos)
              /\ HeadEnd(off, i) <= ReadBy(b) /\ ReadBy(b) <= HeadEnd(off, i) + r.len

\* Request i was read to its end, and blank lines after it at most.
Between(off, i) ==
    /\ BodyEnd(off, i) <= Consumed
    /\ \A p \in (BodyEnd(off, i) + 1)..Consumed : IsBlank(p)

\* All of it, when the requests are at the offsets off.
Bytes(off) ==
    /\ Runs(io.buf, pos)
    /\ \A i \in Ids : Undone(i) => Partial(off, i)
    /\ cur = io.body_generation /\ (cur = 0 \/ conn.body_read) => Between(off, cur)

-----------------------------------------------------------------------------
(* The stream, position by position.                                       *)

\* What the stream and its offsets are.
LEMMA Ground ==
    ASSUME Peer, NEW off, Offsets(reqs, off)
    PROVE  /\ Len(reqs) \in Nat /\ Len(input) \in Nat
           /\ Len(input) = off[Len(reqs)] /\ off[0] = 0
           /\ \A i \in 0..Len(reqs) : off[i] \in Nat
           /\ \A i \in 1..Len(reqs) :
                  /\ reqs[i] \in Request /\ off[i - 1] \in Nat /\ off[i] \in Nat
                  /\ off[i] = off[i - 1] + SizeOf(reqs[i])
                  /\ LaidOut(input, off[i - 1], i, reqs[i])
<1>1. /\ reqs \in Seq(Request) /\ Len(reqs) \in Nat /\ Len(input) \in Nat
      /\ input = Stream(reqs)
  BY PeerIs DEF Peer
<1>2. /\ off \in [0..Len(reqs) -> Nat] /\ off[0] = 0 /\ Len(input) = off[Len(reqs)]
      /\ \A i \in 1..Len(reqs) : off[i] = off[i - 1] + SizeOf(reqs[i])
      /\ \A i \in 1..Len(reqs) : LaidOut(input, off[i - 1], i, reqs[i])
  BY <1>1 DEF Offsets
<1>3. \A i \in 0..Len(reqs) : off[i] \in Nat
  BY <1>2
<1>4. \A i \in 1..Len(reqs) : /\ i \in 0..Len(reqs) /\ i - 1 \in 0..Len(reqs)
                              /\ reqs[i] \in Request
  BY <1>1
<1> QED BY <1>1, <1>2, <1>3, <1>4

\* The parts of request i, in absolute positions.
LEMMA Layout ==
    ASSUME Peer, NEW off, Offsets(reqs, off), NEW i \in 1..Len(reqs)
    PROVE  LET r == reqs[i]
               s == off[i - 1]
           IN  /\ r \in Request /\ r.blank \in Nat /\ r.lines \in Nat /\ r.len \in Nat
               /\ s \in Nat /\ off[i] \in Nat
               /\ HeadEnd(off, i) = s + r.blank + r.lines + 1
               /\ BodyEnd(off, i) = HeadEnd(off, i) + BodyLen(r)
               /\ BodyLen(r) \in Nat /\ r.post \in Nat
               /\ off[i] = BodyEnd(off, i) + r.post
               /\ \A p \in (s + 1)..(s + r.blank) : input[p] = <<i, "n">>
               /\ \A p \in (s + r.blank + 1)..(s + r.blank + r.lines) : input[p] = <<i, "h">>
               /\ input[HeadEnd(off, i)] = <<i, "H">>
               /\ r.kind # "none" =>
                      \A p \in (HeadEnd(off, i) + 1)..(HeadEnd(off, i) + r.len) :
                          input[p] = <<i, "b">>
               /\ r.kind = "chunked" =>
                      input[HeadEnd(off, i) + r.len + 1] \in {<<i, "x">>, <<i, "e">>}
               /\ \A p \in (BodyEnd(off, i) + 1)..off[i] : input[p] = <<i, "u">>
<1> DEFINE r == reqs[i]
           s == off[i - 1]
           o == off[i]
           a == r.blank
           l == r.lines
           n == r.len
           t == r.post
           bl == BodyLen(r)
           hl == HeadLen(r)
           sz == SizeOf(r)
           h == HeadEnd(off, i)
           e == BodyEnd(off, i)
<1>1. /\ r \in Request /\ s \in Nat /\ o \in Nat /\ o = s + sz
      /\ LaidOut(input, s, i, r) /\ i # 0
  BY Ground
<1>2. h = s + hl /\ e = h + bl
  BY <1>1 DEF HeadEnd, BodyEnd
<1>3. hl = a + l + 1 /\ sz = hl + bl + t
  BY DEF HeadLen, SizeOf
<1>4. /\ \A j \in 1..a : input[s + j] = <<i, "n">>
      /\ \A j \in (a + 1)..(a + l) : input[s + j] = <<i, "h">>
      /\ input[s + hl] = <<i, "H">>
      /\ r.kind # "none" => \A j \in (hl + 1)..(hl + n) : input[s + j] = <<i, "b">>
      /\ r.kind = "chunked" => input[s + hl + n + 1] = <<i, IF r.malformed THEN "x" ELSE "e">>
      /\ \A j \in (hl + bl + 1)..sz : input[s + j] = <<i, "u">>
  BY <1>1 DEF LaidOut
<1>5. a \in Nat /\ l \in Nat /\ n \in Nat /\ t \in Nat /\ bl \in Nat /\ hl \in Nat /\ sz \in Nat
  <2> HIDE DEF r
  <2> QED BY <1>1, RequestSorts
<1> HIDE DEF r, s, o, a, l, n, t, bl, hl, sz, h, e
<1>6. s \in Nat /\ o = s + sz
  BY <1>1
<1>7. h = s + a + l + 1 /\ o = e + t /\ h \in Nat /\ e \in Nat
  BY <1>2, <1>3, <1>5, <1>6
<1>8. ASSUME NEW p \in (s + 1)..(s + a) PROVE input[p] = <<i, "n">>
  <2>1. p - s \in 1..a /\ s + (p - s) = p
    BY <1>5, <1>6
  <2> QED BY <1>4, <2>1
<1>9. ASSUME NEW p \in (s + a + 1)..(s + a + l) PROVE input[p] = <<i, "h">>
  <2>1. p - s \in (a + 1)..(a + l) /\ s + (p - s) = p
    BY <1>5, <1>6
  <2> QED BY <1>4, <2>1
<1>10. ASSUME r.kind # "none", NEW p \in (h + 1)..(h + n) PROVE input[p] = <<i, "b">>
  <2>1. p - s \in (hl + 1)..(hl + n) /\ s + (p - s) = p
    BY <1>2, <1>5, <1>6
  <2> QED BY <1>4, <1>10, <2>1
<1>11. ASSUME r.kind = "chunked" PROVE input[h + n + 1] \in {<<i, "x">>, <<i, "e">>}
  <2>1. h + n + 1 = s + hl + n + 1
    BY <1>2
  <2> QED BY <1>4, <1>11, <2>1
<1>12. ASSUME NEW p \in (e + 1)..o PROVE input[p] = <<i, "u">>
  <2>1. p - s \in (hl + bl + 1)..sz /\ s + (p - s) = p
    BY <1>2, <1>5, <1>6
  <2> QED BY <1>4, <2>1
<1>13. /\ r \in Request /\ a \in Nat /\ l \in Nat /\ n \in Nat /\ s \in Nat /\ o \in Nat
       /\ h = s + a + l + 1 /\ e = h + bl /\ bl \in Nat /\ t \in Nat /\ o = e + t
       /\ \A p \in (s + 1)..(s + a) : input[p] = <<i, "n">>
       /\ \A p \in (s + a + 1)..(s + a + l) : input[p] = <<i, "h">>
       /\ input[h] = <<i, "H">>
       /\ r.kind # "none" => \A p \in (h + 1)..(h + n) : input[p] = <<i, "b">>
       /\ r.kind = "chunked" => input[h + n + 1] \in {<<i, "x">>, <<i, "e">>}
       /\ \A p \in (e + 1)..o : input[p] = <<i, "u">>
  BY <1>1, <1>2, <1>4, <1>5, <1>7, <1>8, <1>9, <1>10, <1>11, <1>12
<1> QED BY <1>13 DEF r, s, o, a, l, n, t, bl, h, e

\* Every unit of a request is tagged with it.
LEMMA Whose ==
    ASSUME Peer, NEW off, Offsets(reqs, off), NEW i \in 1..Len(reqs)
    PROVE  \A p \in (off[i - 1] + 1)..off[i] : input[p][1] = i
<1> DEFINE r == reqs[i]
           s == off[i - 1]
           o == off[i]
           a == r.blank
           l == r.lines
           n == r.len
           bl == BodyLen(r)
           h == HeadEnd(off, i)
           e == BodyEnd(off, i)
<1>1. /\ r \in Request
      /\ \A q \in (s + 1)..(s + a) : input[q] = <<i, "n">>
      /\ \A q \in (s + a + 1)..(s + a + l) : input[q] = <<i, "h">>
      /\ input[h] = <<i, "H">>
      /\ r.kind # "none" => \A q \in (h + 1)..(h + n) : input[q] = <<i, "b">>
      /\ r.kind = "chunked" => input[h + n + 1] \in {<<i, "x">>, <<i, "e">>}
      /\ \A q \in (e + 1)..o : input[q] = <<i, "u">>
  BY Layout
<1>2. /\ a \in Nat /\ l \in Nat /\ n \in Nat /\ bl \in Nat /\ s \in Nat /\ o \in Nat
      /\ h = s + a + l + 1 /\ e = h + bl
  BY Layout
<1>3. \/ r.kind = "none" /\ bl = 0
      \/ r.kind = "length" /\ bl = n
      \/ r.kind = "chunked" /\ bl = n + 1
  <2>1. r.kind = "none" => bl = 0
    BY DEF BodyLen
  <2>2. r.kind = "length" => bl = n
    BY DEF BodyLen
  <2>3. r.kind = "chunked" => bl = n + 1
    BY DEF BodyLen
  <2>4. r.kind \in {"none", "length", "chunked"}
    <3> HIDE DEF r
    <3> QED BY <1>1, RequestSorts
  <2> HIDE DEF r, n, bl
  <2> QED BY <2>1, <2>2, <2>3, <2>4
<1> SUFFICES ASSUME NEW p \in (s + 1)..o PROVE input[p][1] = i
  OBVIOUS
<1> HIDE DEF r, s, o, a, l, n, bl, h, e
<1>4. /\ h \in Nat /\ e \in Nat
      /\ \/ p \in (s + 1)..(s + a)
         \/ p \in (s + a + 1)..(s + a + l)
         \/ p = h
         \/ p \in (h + 1)..(h + bl)
         \/ p \in (e + 1)..o
  BY <1>2
<1>5. CASE p \in (h + 1)..(h + bl)
  <2>1. \/ r.kind # "none" /\ p \in (h + 1)..(h + n)
        \/ r.kind = "chunked" /\ p = h + n + 1
    BY <1>2, <1>3, <1>4, <1>5
  <2> QED BY <1>1, <2>1
<1>6. CASE p \in (s + 1)..(s + a)
  BY <1>1, <1>6
<1>7. CASE p \in (s + a + 1)..(s + a + l)
  BY <1>1, <1>7
<1>8. CASE p = h
  BY <1>1, <1>8
<1>9. CASE p \in (e + 1)..o
  BY <1>1, <1>9
<1> QED BY <1>4, <1>5, <1>6, <1>7, <1>8, <1>9

\* Requests follow one another.
LEMMA Monotone ==
    ASSUME Peer, NEW off, Offsets(reqs, off), NEW i \in 0..Len(reqs), NEW j \in 0..Len(reqs),
           i <= j
    PROVE  off[i] <= off[j]
<1> DEFINE n == Len(reqs)
           S == {m \in Nat : i + m <= n => off[i] <= off[i + m]}
<1>1. n \in Nat /\ \A k \in 0..n : off[k] \in Nat
  BY Ground
<1>2. \A k \in 1..n : off[k - 1] <= off[k]
  <2> TAKE k \in 1..n
  <2>1. reqs[k] \in Request /\ off[k - 1] \in Nat /\ off[k] = off[k - 1] + SizeOf(reqs[k])
    BY Ground
  <2>2. SizeOf(reqs[k]) \in Nat
    <3> DEFINE r == reqs[k]
    <3> HIDE DEF r
    <3>1. r \in Request
      BY <2>1 DEF r
    <3>2. SizeOf(r) \in Nat
      BY <3>1, RequestSorts
    <3> QED BY <3>2 DEF r
  <2> QED BY <2>1, <2>2
<1> HIDE DEF n
<1>3. i \in 0..n /\ j \in 0..n
  BY DEF n
<1>4. 0 \in S
  <2>1. i + 0 = i /\ off[i] \in Nat
    BY <1>1, <1>3
  <2> QED BY <2>1
<1>5. ASSUME NEW m \in Nat, m \in S PROVE m + 1 \in S
  <2> SUFFICES ASSUME i + (m + 1) <= n PROVE off[i] <= off[i + (m + 1)]
    OBVIOUS
  <2>1. i + m <= n /\ i + m \in 0..n /\ i + (m + 1) \in 1..n /\ (i + (m + 1)) - 1 = i + m
        /\ i + (m + 1) \in 0..n
    BY <1>1, <1>3
  <2>2. off[i] <= off[i + m]
    BY <1>5, <2>1
  <2>3. off[i + m] <= off[i + (m + 1)]
    BY <1>2, <2>1
  <2>4. off[i] \in Nat /\ off[i + m] \in Nat /\ off[i + (m + 1)] \in Nat
    BY <1>1, <1>3, <2>1
  <2> QED BY <2>2, <2>3, <2>4
<1>6. j - i \in S
  <2>1. j - i \in Nat
    BY <1>1, <1>3
  <2> HIDE DEF S
  <2> QED BY <1>4, <1>5, <2>1, Induction
<1>7. i + (j - i) = j /\ j <= n
  BY <1>1, <1>3
<1> QED BY <1>6, <1>7

\* Every position belongs to a request.
LEMMA Covered ==
    ASSUME Peer, NEW off, Offsets(reqs, off), NEW p \in 1..Len(input)
    PROVE  \E i \in 1..Len(reqs) : p \in (off[i - 1] + 1)..off[i]
<1> DEFINE n == Len(reqs)
           S == {i \in 0..n : p <= off[i]}
<1>1. /\ n \in Nat /\ Len(input) = off[n] /\ off[0] = 0 /\ Len(input) \in Nat
      /\ \A k \in 0..n : off[k] \in Nat
  BY Ground
<1> HIDE DEF n
<1>2. n \in S /\ S \subseteq Nat
  BY <1>1
<1>3. PICK i \in S : \A m \in S : i <= m
  <2> HIDE DEF S
  <2> QED BY <1>2, Least
<1>4. i \in 0..n /\ p <= off[i] /\ i # 0
  BY <1>1, <1>3
<1>5. i - 1 \in 0..n /\ ~(i <= i - 1) /\ i \in 1..n
  BY <1>1, <1>4
<1>6. ~(p <= off[i - 1])
  BY <1>3, <1>5
<1>7. off[i] \in Nat /\ off[i - 1] \in Nat /\ p \in Nat
  BY <1>1, <1>4, <1>5
<1>8. p \in (off[i - 1] + 1)..off[i]
  BY <1>4, <1>6, <1>7
<1> QED BY <1>5, <1>8 DEF n

\* Where the body of request i ends, nothing of a later one came before, and
\* nothing but the new protocol's bytes are left of it and of earlier ones.
LEMMA Around ==
    ASSUME Peer, NEW off, Offsets(reqs, off), NEW i \in 0..Len(reqs)
    PROVE  /\ off[i] \in Nat /\ BodyEnd(off, i) \in Nat /\ BodyEnd(off, i) <= off[i]
           /\ i < Len(reqs) => BodyEnd(off, i) = off[i]
           /\ off[i] <= Len(input)
           /\ \A p \in 1..Len(input) : p <= BodyEnd(off, i) => input[p][1] <= i
           /\ \A p \in (BodyEnd(off, i) + 1)..off[i] : input[p] = <<i, "u">>
           /\ \A p \in (off[i] + 1)..Len(input) : input[p][1] > i
<1> DEFINE n == Len(reqs)
           e == BodyEnd(off, i)
<1>1. /\ n \in Nat /\ Len(input) = off[n] /\ off[0] = 0 /\ Len(input) \in Nat
      /\ \A k \in 0..n : off[k] \in Nat
  BY Ground
<1>2. e \in Nat /\ e <= off[i] /\ (i < n => e = off[i])
      /\ \A p \in (e + 1)..off[i] : input[p] = <<i, "u">>
  <2>1. CASE i = 0
    <3>1. e = 0 /\ off[i] = 0
      BY <1>1, <2>1 DEF BodyEnd
    <3> HIDE DEF e
    <3> QED BY <3>1
  <2>2. CASE i # 0
    <3>1. i \in 1..n
      BY <1>1, <2>2
    <3>2. /\ HeadEnd(off, i) = off[i - 1] + reqs[i].blank + reqs[i].lines + 1
          /\ off[i - 1] \in Nat /\ reqs[i].blank \in Nat /\ reqs[i].lines \in Nat
          /\ BodyLen(reqs[i]) \in Nat /\ reqs[i].post \in Nat
      BY <3>1, Layout
    <3>3. /\ e = HeadEnd(off, i) + BodyLen(reqs[i])
          /\ off[i] = e + reqs[i].post
          /\ \A p \in (e + 1)..off[i] : input[p] = <<i, "u">>
      BY <3>1, Layout
    <3>4. i < n => reqs[i].post = 0
      <4>1. i < n => i \in 1..(Len(reqs) - 1)
        BY <1>1, <3>1
      <4> QED BY <4>1, LastAssumption DEF Peer
    <3> DEFINE t == reqs[i].post
               h == HeadEnd(off, i)
               bl == BodyLen(reqs[i])
               a == reqs[i].blank
               l == reqs[i].lines
               s == off[i - 1]
               o == off[i]
    <3>5. /\ h = s + a + l + 1 /\ s \in Nat /\ a \in Nat /\ l \in Nat /\ bl \in Nat /\ t \in Nat
          /\ e = h + bl /\ o = e + t /\ (i < n => t = 0)
      BY <3>2, <3>3, <3>4
    <3> HIDE DEF t, h, bl, a, l, s, o, e, n
    <3>6. e \in Nat /\ e <= o /\ (t = 0 => e = o)
      BY <3>5
    <3> QED BY <3>3, <3>5, <3>6 DEF o
  <2> QED BY <2>1, <2>2
<1> HIDE DEF n, e
<1>3. off[i] \in Nat /\ i \in 0..n /\ n \in 0..n
  BY <1>1 DEF n
<1>4. off[i] <= Len(input)
  <2>1. i <= n
    BY <1>1, <1>3
  <2>2. off[i] <= off[n]
    BY <1>3, <2>1, Monotone DEF n
  <2> QED BY <1>1, <2>2
<1>5. ASSUME NEW p \in 1..Len(input)
      PROVE  (p <= e => input[p][1] <= i) /\ (p > off[i] => input[p][1] > i)
  <2>1. PICK j \in 1..n : p \in (off[j - 1] + 1)..off[j]
    BY Covered DEF n
  <2>2. input[p][1] = j
    BY <2>1, Whose DEF n
  <2>3. j \in 0..n /\ j - 1 \in 0..n /\ j \in Nat /\ j - 1 \in Nat /\ i \in Nat
    BY <1>1, <1>3, <2>1
  <2>4. off[j] \in Nat /\ off[j - 1] \in Nat /\ off[j - 1] < p /\ p <= off[j] /\ p \in Nat
    <3>1. off[j] \in Nat /\ off[j - 1] \in Nat
      BY <1>1, <2>3
    <3> QED BY <3>1, <2>1
  <2>5. ASSUME p <= e PROVE j <= i
    <3> SUFFICES ASSUME i <= j - 1 PROVE FALSE
      BY <2>3
    <3>1. off[i] <= off[j - 1]
      BY <1>3, <2>3, Monotone DEF n
    <3> QED BY <1>2, <1>3, <2>4, <2>5, <3>1
  <2>6. ASSUME p > off[i] PROVE j > i
    <3> SUFFICES ASSUME j <= i PROVE FALSE
      BY <2>3
    <3>1. off[j] <= off[i]
      BY <1>3, <2>3, Monotone DEF n
    <3> QED BY <1>3, <2>4, <2>6, <3>1
  <2> QED BY <2>2, <2>5, <2>6
<1>6. \A p \in (off[i] + 1)..Len(input) : p \in 1..Len(input) /\ p > off[i]
  BY <1>1, <1>3
<1> QED BY <1>2, <1>3, <1>4, <1>5, <1>6 DEF n, e

-----------------------------------------------------------------------------
(* Runs of the stream.                                                     *)

\* A run cut in two is two runs.
LEMMA RunCut ==
    ASSUME NEW S, NEW b \in Seq(S), NEW n \in 0..Len(b), NEW p \in Int, Runs(b, p)
    PROVE  /\ Runs(SubSeq(b, n + 1, Len(b)), p)
           /\ Runs(SubSeq(b, 1, n), p - (Len(b) - n))
<1> DEFINE s == SubSeq(b, n + 1, Len(b))
           t == SubSeq(b, 1, n)
           m == Len(b)
<1>1. /\ Len(s) = m - n /\ \A k \in 1..(m - n) : s[k] = b[n + k]
      /\ Len(t) = n /\ \A k \in 1..n : t[k] = b[k]
      /\ m \in Nat
  BY SuffixOf, PrefixOf
<1>2. \A k \in 1..m : b[k] = p - m + k
  BY DEF Runs
<1> HIDE DEF s, t, m
<1>3. n \in 0..m
  BY DEF m
<1>4. ASSUME NEW k \in 1..Len(s) PROVE s[k] = p - Len(s) + k
  <2>1. k \in 1..(m - n) /\ n + k \in 1..m
    BY <1>1, <1>3
  <2>2. s[k] = p - m + (n + k)
    BY <1>1, <1>2, <2>1
  <2>3. Len(s) = m - n
    BY <1>1
  <2> QED BY <1>1, <1>3, <2>1, <2>2, <2>3
<1>5. ASSUME NEW k \in 1..Len(t) PROVE t[k] = p - (m - n) - Len(t) + k
  <2>1. k \in 1..n /\ k \in 1..m
    BY <1>1, <1>3
  <2>2. t[k] = p - m + k
    BY <1>1, <1>2, <2>1
  <2>3. Len(t) = n
    BY <1>1
  <2> QED BY <1>1, <1>3, <2>1, <2>2, <2>3
<1> QED BY <1>4, <1>5 DEF Runs, s, t, m

\* Two adjoining runs are one.
LEMMA RunJoin ==
    ASSUME NEW S, NEW s \in Seq(S), NEW t \in Seq(S), NEW p \in Int,
           Runs(t, p), Runs(s, p - Len(t))
    PROVE  Runs(s \o t, p)
<1> DEFINE b == s \o t
           m == Len(s)
           n == Len(t)
<1>1. /\ Len(b) = m + n /\ m \in Nat /\ n \in Nat
      /\ \A k \in 1..m : b[k] = s[k]
      /\ \A k \in 1..n : b[m + k] = t[k]
  BY ConcatIs
<1>2. /\ \A k \in 1..m : s[k] = (p - n) - m + k
      /\ \A k \in 1..n : t[k] = p - n + k
  BY DEF Runs
<1> HIDE DEF b, m, n
<1>3. ASSUME NEW k \in 1..Len(b) PROVE b[k] = p - Len(b) + k
  <2>0. k \in 1..(m + n) /\ p - Len(b) + k = p - (m + n) + k
    BY <1>1
  <2>1. CASE k <= m
    <3>1. k \in 1..m
      BY <1>1, <2>0, <2>1
    <3>2. b[k] = (p - n) - m + k
      BY <1>1, <1>2, <3>1
    <3> QED BY <1>1, <2>0, <3>1, <3>2
  <2>2. CASE k > m
    <3>1. k - m \in 1..n /\ m + (k - m) = k
      BY <1>1, <2>0, <2>2
    <3>2. b[k] = p - n + (k - m)
      BY <1>1, <1>2, <3>1
    <3> QED BY <1>1, <2>0, <3>1, <3>2
  <2> QED BY <1>1, <2>0, <2>1, <2>2
<1> QED BY <1>3 DEF Runs, b

\* Nothing runs up to anywhere.
LEMMA RunEmpty ==
    ASSUME NEW p
    PROVE  Runs(<<>>, p)
BY DEF Runs

\* What is read from the transport is a run.
LEMMA RunFresh ==
    ASSUME NEW k \in Nat, pos \in Nat, Len(input) \in Nat, pos + k <= Len(input)
    PROVE  Runs(Fresh(k), pos + k)
<1>1. Len(Fresh(k)) = k /\ \A j \in 1..k : Fresh(k)[j] = pos + j
  BY FreshIs
<1> DEFINE f == Fresh(k)
<1> HIDE DEF f
<1>2. Len(f) = k /\ \A j \in 1..k : f[j] = pos + j
  BY <1>1 DEF f
<1>3. \A j \in 1..Len(f) : f[j] = (pos + k) - Len(f) + j
  BY <1>2
<1> QED BY <1>3 DEF Runs, f

\* What StripBlank drops is blank, and what is left runs as far.
LEMMA RunStripped ==
    ASSUME NEW S, NEW b \in Seq(S), NEW p \in Nat, Runs(b, p), NEW e \in Nat,
           e <= p - Len(b), \A q \in (e + 1)..(p - Len(b)) : IsBlank(q)
    PROVE  LET c == StripBlank(b) IN
           /\ Runs(c, p) /\ e <= p - Len(c)
           /\ \A q \in (e + 1)..(p - Len(c)) : IsBlank(q)
<1> DEFINE c == StripBlank(b)
           m == Len(b)
<1>1. PICK n \in 0..m : c = SubSeq(b, n + 1, m) /\ \A j \in 1..n : IsBlank(b[j])
  BY StripIs
<1>2. Runs(c, p)
  BY <1>1, RunCut
<1>3. Len(c) = m - n /\ m \in Nat
  BY <1>1, SuffixOf
<1>4. \A j \in 1..n : b[j] = p - m + j
  BY <1>1, <1>3 DEF Runs
<1>5. e <= p - m /\ \A q \in (e + 1)..(p - m) : IsBlank(q)
  OBVIOUS
<1> HIDE DEF c, m
<1>6. ASSUME NEW q \in (e + 1)..(p - Len(c)) PROVE IsBlank(q)
  <2>1. q \in (e + 1)..(p - (m - n)) /\ q \in Int
    BY <1>3
  <2>2. CASE q <= p - m
    <3>1. q \in (e + 1)..(p - m)
      BY <1>3, <2>1, <2>2
    <3> QED BY <1>5, <3>1
  <2>3. CASE q > p - m
    <3>1. q - (p - m) \in 1..n /\ p - m + (q - (p - m)) = q
      BY <1>1, <1>3, <2>1, <2>3
    <3>2. IsBlank(b[q - (p - m)]) /\ b[q - (p - m)] = p - m + (q - (p - m))
      BY <1>1, <1>4, <3>1
    <3> QED BY <3>1, <3>2
  <2> QED BY <1>3, <2>1, <2>2, <2>3
<1>7. e <= p - Len(c)
  BY <1>1, <1>3, <1>5
<1> QED BY <1>2, <1>6, <1>7 DEF c

-----------------------------------------------------------------------------
(* Steps that leave the bytes where they are.                              *)

\* What was consumed and by whom does not change, and no more is known of it.
Still ==
    /\ UNCHANGED peer
    /\ pos' = pos /\ io'.buf = io.buf
    /\ \A j \in Ids : Undone(j)' =>
           /\ Undone(j) /\ body'[j].kind = body[j].kind
           /\ body'[j].remaining = body[j].remaining
           /\ body'[j].buffered = body[j].buffered
    /\ cur' = io'.body_generation /\ (cur' = 0 \/ conn'.body_read) =>
           cur' = cur /\ cur = io.body_generation /\ (cur = 0 \/ conn.body_read)

\* Such a step keeps Bytes.
LEMMA StillKeeps ==
    ASSUME NEW off, Bytes(off), Still
    PROVE  Bytes(off)'
<1>1. /\ reqs' = reqs /\ input' = input /\ pos' = pos /\ io'.buf = io.buf
  BY DEF Still, peer
<1>2. Runs(io.buf, pos)'
  BY <1>1 DEF Bytes, Runs
<1>3. ASSUME NEW i \in Ids, Undone(i)' PROVE Partial(off, i)'
  <2>1. /\ Partial(off, i) /\ body'[i].kind = body[i].kind
        /\ body'[i].remaining = body[i].remaining
        /\ body'[i].buffered = body[i].buffered
    BY <1>3 DEF Still, Bytes
  <2> QED BY <1>1, <2>1, Zenon DEF Partial, ReadBy, Consumed, HeadEnd, Runs
<1>4. ASSUME cur' = io'.body_generation /\ (cur' = 0 \/ conn'.body_read)
      PROVE  Between(off, cur)'
  <2>1. cur' = cur /\ Between(off, cur)
    BY <1>4 DEF Still, Bytes
  <2> QED BY <1>1, <2>1, Zenon DEF Between, Consumed, BodyEnd, HeadEnd, IsBlank, Part
<1> QED BY <1>2, <1>3, <1>4 DEF Bytes

\* A step that touches no Body and no buffer is one.
LEMMA SameIsStill ==
    ASSUME UNCHANGED peer, pos' = pos, body' = body, io'.buf = io.buf,
           io'.body_generation = io.body_generation, conn'.body_read = conn.body_read,
           cur' = cur \/ (cur \in Nat /\ cur = io.body_generation /\ cur' = cur + 1)
    PROVE  Still
<1>1. \A j \in Ids : Undone(j)' = Undone(j)
  BY DEF Undone, Live
<1>2. cur' = io'.body_generation => cur' = cur
  OBVIOUS
<1> QED BY <1>1, <1>2 DEF Still

\* So is one that drops Bodies.
LEMMA DroppingIsStill ==
    ASSUME UNCHANGED peer, pos' = pos, NEW D, Dropping(D), conn'.body_read = conn.body_read,
           cur' = cur
    PROVE  Still
<1>1. io'.buf = io.buf /\ io'.body_generation = io.body_generation
  BY DEF Dropping, IoKept
<1>2. ASSUME NEW j \in Ids, Undone(j)' PROVE body'[j] = body[j]
  BY <1>2 DEF Dropping, Undone, Live
<1>3. \A j \in Ids : Undone(j)' => Undone(j) /\ body'[j] = body[j]
  BY <1>2 DEF Undone, Live
<1> QED BY <1>1, <1>3 DEF Still

\* And one in which a Body fails.
LEMMA FailingIsStill ==
    ASSUME UNCHANGED peer, pos' = pos, NEW i \in Ids, OfBody(i), Failing(i, io),
           cur' = cur
    PROVE  Still
<1>1. io'.buf = io.buf /\ io'.body_generation = io.body_generation /\ ~conn'.body_read
  BY DEF OfBody, Failing
<1>2. \A j \in Ids : Undone(j)' => body'[j] = body[j]
  BY DEF OfBody, Failing, Undone
<1>3. \A j \in Ids : Undone(j)' => Undone(j) /\ body'[j] = body[j]
  BY <1>2 DEF Undone, Live
<1> QED BY <1>1, <1>3 DEF Still

\* A Body that changes hands.
LEMMA MovedIsStill ==
    ASSUME Typed, NEW i \in Ids, Live(body[i]), NEW o \in Owners,
           body' = [body EXCEPT ![i].owner = o], io' = io, conn' = conn,
           UNCHANGED peer, pos' = pos, cur' = cur
    PROVE  Still
<1> DEFINE c == [body[i] EXCEPT !.owner = o]
<1>1. body[i] \in Bodies
  BY DEF Typed
<1>2. /\ c \in Bodies /\ c.kind = body[i].kind /\ c.remaining = body[i].remaining
      /\ c.buffered = body[i].buffered /\ c.done = body[i].done
  BY <1>1, BodyOwner
<1>3. body' = [body EXCEPT ![i] = c]
  OBVIOUS
<1> HIDE DEF c
<1>4. body'[i] = c /\ \A j \in Ids \ {i} : body'[j] = body[j]
  BY <1>2, <1>3, BodyReplaced DEF Typed
<1>5. ASSUME NEW j \in Ids, Undone(j)'
      PROVE  /\ Undone(j) /\ body'[j].kind = body[j].kind
             /\ body'[j].remaining = body[j].remaining
             /\ body'[j].buffered = body[j].buffered
  <2>1. CASE j = i
    BY <1>2, <1>4, <1>5, <2>1 DEF Undone
  <2>2. CASE j # i
    <3>1. body'[j] = body[j]
      BY <1>4, <2>2
    <3> QED BY <1>5, <3>1 DEF Undone, Live
  <2> QED BY <2>1, <2>2
<1> QED BY <1>5 DEF Still

\* Steps of a Body that reads nothing.
LEMMA BodyStepStill ==
    ASSUME IInv, NEW i \in Ids,
           BodyEof(i) \/ SendContinue(i) \/ SendContinueFails(i) \/ DropBody(i)
    PROVE  Still
<1>1. Typed /\ io \in IoStates
  BY TypedIs DEF Typed, IInv
<1>2. UNCHANGED peer /\ pos' = pos /\ cur' = cur
  BY DEF BodyEof, SendContinue, SendContinueFails, DropBody, bodyUnchanged
<1>3. CASE BodyEof(i)
  <2>1. OfBody(i) /\ Failing(i, io)
    BY <1>1, <1>3, FailEffect DEF BodyEof
  <2> QED BY <1>2, <2>1, FailingIsStill
<1>4. CASE SendContinue(i)
  <2>1. body' = body /\ conn' = conn /\ io' = [io EXCEPT !.pending_continue = @ - 1]
    BY <1>4 DEF SendContinue
  <2>2. io'.buf = io.buf /\ io'.body_generation = io.body_generation
    BY <1>1, <2>1 DEF IoStates
  <2> QED BY <1>2, <2>1, <2>2, SameIsStill
<1>5. CASE SendContinueFails(i)
  <2>1. conn' \in Flags /\ ~conn'.body_read /\ conn'.broken
    BY <1>1, <1>5, FlagFields DEF SendContinueFails, FailRead, Flags, Typed
  <2>2. OfBody(i) /\ Failing(i, io)
    BY <1>1, <1>5, <2>1, FailFails DEF SendContinueFails
  <2> QED BY <1>2, <2>2, FailingIsStill
<1>6. CASE DropBody(i)
  <2>1. Dropping({i}) /\ conn' = conn
    BY <1>1, <1>6, DropsOne DEF DropBody
  <2> QED BY <1>2, <2>1, DroppingIsStill
<1> QED BY <1>3, <1>4, <1>5, <1>6

\* Steps of a handler.
LEMMA HandlerStepStill ==
    ASSUME IInv, HandlerStep
    PROVE  Still
<1>1. Typed /\ io \in IoStates /\ TypeOK /\ Order
  BY TypedIs DEF Typed, IInv
<1>2. pc \in HandlerPhase /\ UNCHANGED peer /\ pos' = pos /\ cur' = cur
  BY DEF HandlerStep, StashBody, FirstPollPending, HandlerReturns, HandlerPanics,
         bodyUnchanged, HandlerPhase
<1>3. cur \in Ids
  BY <1>1, <1>2, Serving DEF HandlerPhase, HeadPhase, Ended
<1>4. CASE StashBody
  BY <1>1, <1>2, <1>3, <1>4, MovedIsStill DEF StashBody, Live, Owners
<1>5. CASE FirstPollPending
  BY <1>2, <1>5, SameIsStill DEF FirstPollPending
<1>6. CASE \E rep \in Replies(reqs), moves \in BOOLEAN : HandlerReturns(rep, moves)
  <2>1. PICK rep \in Replies(reqs), moves \in BOOLEAN : HandlerReturns(rep, moves)
    BY <1>6
  <2>2. conn' = conn
    BY <2>1 DEF HandlerReturns
  <2>3. CASE moves
    <3>1. body[cur].owner = "handler" /\ body' = [body EXCEPT ![cur].owner = "stream"] /\ io' = io
      BY <2>1, <2>3 DEF HandlerReturns
    <3> QED BY <1>1, <1>2, <1>3, <2>2, <3>1, MovedIsStill DEF Live, Owners
  <2>4. CASE ~moves
    <3>1. Dropping(Driven({"handler"}))
      BY <1>1, <1>3, <2>1, <2>4, HandlerGoneDrops DEF HandlerReturns
    <3> QED BY <1>2, <2>2, <3>1, DroppingIsStill
  <2> QED BY <2>3, <2>4
<1>7. CASE \E n \in 0..Len(held) : HandlerPanics(n)
  <2>1. HandlerGone(io, body) /\ conn'.body_read = conn.body_read
    <3>1. PICK n \in 0..Len(held) : HandlerPanics(n)
      BY <1>7
    <3> QED BY <1>1, <3>1 DEF HandlerPanics, Typed, Flags
  <2>2. Dropping(Driven({"handler"}))
    BY <1>1, <1>3, <2>1, HandlerGoneDrops
  <2> QED BY <1>2, <2>1, <2>2, DroppingIsStill
<1> QED BY <1>4, <1>5, <1>6, <1>7 DEF HandlerStep

\* Steps of the loop, and of its deadlines, that touch no Body.
LEMMA LoopStepStill ==
    ASSUME IInv,
           \/ HeadEof \/ HeadTimeout \/ SettleContinue \/ SettleWrite \/ WriteError
           \/ FlushWrite \/ FlushDone \/ Compose \/ StreamChunk \/ StreamPending
           \/ StreamError \/ StreamTimeout \/ Over
    PROVE  Still
<1>1. io \in IoStates /\ TypeOK /\ Order
  BY TypedIs DEF Typed, IInv
<1>2. UNCHANGED peer /\ pos' = pos /\ body' = body /\ conn' = conn
  BY DEF HeadEof, HeadTimeout, SettleContinue, SettleWrite, WriteError, FlushWrite, FlushDone,
         Compose, StreamChunk, StreamPending, StreamError, StreamTimeout, Over, vars, peer
<1>3. io'.buf = io.buf /\ io'.body_generation = io.body_generation
  <2>1. CASE io' = io
    BY <2>1
  <2>2. CASE \E n : io' = [io EXCEPT !.pending_continue = n]
    BY <1>1, <2>2 DEF IoStates
  <2>3. io' = io \/ \E n : io' = [io EXCEPT !.pending_continue = n]
    <3>1. CASE SettleContinue
      BY <3>1 DEF SettleContinue
    <3>2. CASE SettleWrite
      BY <3>2 DEF SettleWrite
    <3> QED BY <3>1, <3>2 DEF HeadEof, HeadTimeout, WriteError, FlushWrite, FlushDone, Compose,
              StreamChunk, StreamPending, StreamError, StreamTimeout, Over, vars
  <2> QED BY <2>1, <2>2, <2>3
<1>4. CASE cur' = cur
  BY <1>2, <1>3, <1>4, SameIsStill
<1>5. CASE cur' # cur
  <2>1. pc = "reading" /\ cur' = cur + 1
    BY <1>5 DEF HeadEof, HeadTimeout, SettleContinue, SettleWrite, WriteError, FlushWrite,
       FlushDone, Compose, StreamChunk, StreamPending, StreamError, StreamTimeout, Over, vars
  <2>2. cur = io.body_generation /\ cur \in Nat
    BY <1>1, <2>1, HeadIsQuiet, Sorts DEF Where, HeadPhase
  <2> QED BY <1>2, <1>3, <2>1, <2>2, SameIsStill
<1> QED BY <1>4, <1>5

\* Steps of the loop that drop the Body it drives.
LEMMA LeavingStepStill ==
    ASSUME IInv,
           \/ BodyTimeout \/ HandlerTimeout \/ SettleFails \/ FlushFails \/ StreamEnds
           \/ StreamPanics \/ Return
    PROVE  Still
<1>1. Typed /\ TypeOK /\ Order
  BY TypedIs DEF IInv
<1>2. /\ UNCHANGED peer /\ pos' = pos /\ cur' = cur
      /\ pc \in {"handler", "settle", "flush", "stream", "streamwait", "return"}
  BY DEF BodyTimeout, HandlerTimeout, SettleFails, FlushFails, StreamEnds, StreamPanics, Return
<1>3. cur \in Ids
  BY <1>1, <1>2, Serving DEF HeadPhase, Ended
<1>4. HandlerGone(io, body) \/ StreamGone \/ LoopGone
  BY DEF BodyTimeout, HandlerTimeout, SettleFails, FlushFails, StreamEnds, StreamPanics, Return
<1>5. \E D : Dropping(D)
  BY <1>1, <1>3, <1>4, HandlerGoneDrops, StreamGoneDrops, LoopGoneDrops
<1>6. conn'.body_read = conn.body_read
  <2>1. conn' = conn \/ conn' = [conn EXCEPT !.broken = TRUE]
    BY DEF BodyTimeout, HandlerTimeout, SettleFails, FlushFails, StreamEnds, StreamPanics, Return
  <2> QED BY <1>1, <2>1 DEF Typed, Flags
<1> QED BY <1>2, <1>5, <1>6, DroppingIsStill

-----------------------------------------------------------------------------
(* Blank lines.                                                            *)

\* Nothing of the current request is left to read.
AllRead ==
    /\ cur = io.body_generation /\ (cur = 0 \/ conn.body_read)
    /\ \A j \in Ids : ~Undone(j)

\* While a head is awaited nothing is.
LEMMA HeadIsAllRead ==
    ASSUME IInv, Where \in HeadPhase
    PROVE  AllRead
<1>1. TypeOK /\ Order
  BY DEF IInv
<1> QED BY <1>1, HeadIsQuiet DEF AllRead, Order, Reading

\* The numbers the arguments below are about.
LEMMA BytesTyped ==
    ASSUME IInv, NEW off, Offsets(reqs, off)
    PROVE  /\ pos \in Nat /\ Len(input) \in Nat /\ pos <= Len(input)
           /\ io.buf \in Seq(1..Len(input)) /\ Len(io.buf) \in Nat
           /\ cur \in Nat /\ Consumed \in Int
           /\ cur = io.body_generation =>
                  cur \in 0..Len(reqs) /\ BodyEnd(off, cur) \in Nat
<1>1. TypeOK /\ Order /\ Peer /\ Typed
  BY TypedIs DEF IInv
<1>2. pos \in Nat /\ Len(input) \in Nat /\ pos <= Len(input)
  BY <1>1, PeerIs DEF TypeOK
<1>3. io.buf \in Seq(1..Len(input))
  BY <1>1, IoFields DEF Typed
<1>4. Len(io.buf) \in Nat
  BY <1>3, LenProperties
<1>5. cur \in Nat /\ Len(reqs) \in Nat
  BY <1>1, Sorts, PeerIs
<1>6. cur = io.body_generation => cur \in 0..Len(reqs)
  BY <1>1, <1>5 DEF Order, Control
<1>7. cur = io.body_generation => BodyEnd(off, cur) \in Nat
  BY <1>1, <1>6, Around
<1> QED BY <1>2, <1>3, <1>4, <1>5, <1>6, <1>7 DEF Consumed

\* Dropping blank lines after a request keeps Bytes.
LEMMA StrippingKeeps ==
    ASSUME IInv, NEW off, Offsets(reqs, off), Bytes(off), AllRead,
           UNCHANGED peer, body' = body, NEW b \in Seq(1..Len(input)), pos' \in Nat,
           Runs(b, pos'), pos' - Len(b) = Consumed, io'.buf = StripBlank(b),
           io'.body_generation = io.body_generation, cur' = cur \/ cur' = cur + 1
    PROVE  Bytes(off)'
<1> DEFINE e == BodyEnd(off, cur)
           p == pos'
           c == StripBlank(b)
<1>1. e \in Nat /\ cur \in Nat
  BY BytesTyped DEF AllRead
<1>2. e <= Consumed /\ \A q \in (e + 1)..Consumed : IsBlank(q)
  BY DEF Bytes, Between, AllRead
<1>3. reqs' = reqs /\ input' = input
  BY DEF peer
<1>5. \A q : IsBlank(q)' = IsBlank(q)
  BY <1>3 DEF IsBlank, Part
<1>6. \A j \in Ids : ~Undone(j)'
  BY DEF AllRead, Undone, Live
<1> HIDE DEF e, p
<1>7. /\ Runs(c, p) /\ e <= p - Len(c)
      /\ \A q \in (e + 1)..(p - Len(c)) : IsBlank(q)
  <2>1. p \in Nat /\ Runs(b, p) /\ p - Len(b) = Consumed
    BY DEF p
  <2> QED BY <1>1, <1>2, <2>1, RunStripped
<1>8. Consumed' = p - Len(c)
  BY DEF Consumed, p
<1> HIDE DEF c
<1>9. Runs(io.buf, pos)'
  BY <1>7 DEF Runs, p, c
<1>10. ASSUME cur' = io'.body_generation PROVE Between(off, cur)'
  <2>1. cur' = cur
    BY <1>1, <1>10 DEF AllRead
  <2>2. BodyEnd(off, cur)' = e
    BY <1>3, <2>1 DEF e, BodyEnd, HeadEnd
  <2> QED BY <1>5, <1>7, <1>8, <2>2, Zenon DEF Between
<1> QED BY <1>6, <1>9, <1>10 DEF Bytes

\* So on entry to the search,
LEMMA ReadUntilHeadBytes ==
    ASSUME IInv, NEW off, Offsets(reqs, off), Bytes(off), ReadUntilHead
    PROVE  Bytes(off)'
<1>1. /\ pc = "head" /\ io' = [io EXCEPT !.buf = StripBlank(io.buf)]
      /\ UNCHANGED <<peer, pos, body, cur>>
  BY DEF ReadUntilHead
<1>2. AllRead
  BY <1>1, HeadIsAllRead DEF Where, HeadPhase
<1>3. io \in IoStates
  BY TypedIs DEF Typed, IInv
<1>4. io'.buf = StripBlank(io.buf) /\ io'.body_generation = io.body_generation
  BY <1>1, <1>3 DEF IoStates
<1>5. pos' = pos /\ pos \in Nat /\ io.buf \in Seq(1..Len(input)) /\ Runs(io.buf, pos')
  BY <1>1, BytesTyped DEF Bytes
<1>6. pos' - Len(io.buf) = Consumed
  BY <1>1 DEF Consumed
<1> QED BY <1>1, <1>2, <1>4, <1>5, <1>6, StrippingKeeps

\* after each read,
LEMMA HeadReadBytes ==
    ASSUME IInv, NEW off, Offsets(reqs, off), Bytes(off), NEW k \in 1..MaxRead, HeadRead(k)
    PROVE  Bytes(off)'
<1> DEFINE b == io.buf \o Fresh(k)
<1>1. /\ pc = "reading" /\ pos + k <= Len(input) /\ pos' = pos + k
      /\ io' = [io EXCEPT !.buf = StripBlank(b)]
      /\ UNCHANGED <<peer, body>> /\ (cur' = cur \/ cur' = cur + 1)
  BY DEF HeadRead
<1>2. AllRead
  BY <1>1, HeadIsAllRead DEF Where, HeadPhase
<1>3. io \in IoStates
  BY TypedIs DEF Typed, IInv
<1>4. io'.buf = StripBlank(b) /\ io'.body_generation = io.body_generation
  BY <1>1, <1>3 DEF IoStates
<1>5. /\ pos \in Nat /\ Len(input) \in Nat /\ io.buf \in Seq(1..Len(input)) /\ k \in Nat
      /\ Runs(io.buf, pos) /\ Len(io.buf) \in Nat
  BY BytesTyped, Constants DEF Bytes
<1>6. /\ Fresh(k) \in Seq(1..Len(input)) /\ Len(Fresh(k)) = k
      /\ Runs(Fresh(k), pos + k)
  BY <1>1, <1>5, FreshIs, RunFresh
<1> DEFINE f == Fresh(k)
           buf == io.buf
<1> HIDE DEF f, buf
<1>7. /\ buf \in Seq(1..Len(input)) /\ f \in Seq(1..Len(input)) /\ pos + k \in Int
      /\ Runs(f, pos + k) /\ Len(f) = k /\ Len(buf) \in Nat
  BY <1>5, <1>6 DEF f, buf
<1>8. Runs(buf, (pos + k) - Len(f))
  <2>1. (pos + k) - Len(f) = pos
    BY <1>5, <1>7
  <2> QED BY <1>5, <2>1 DEF buf
<1>9. Runs(buf \o f, pos + k)
  BY <1>7, <1>8, RunJoin
<1>10. buf \o f \in Seq(1..Len(input)) /\ Len(buf \o f) = Len(buf) + k
  BY <1>7, ConcatIs
<1>11. b = buf \o f
  BY DEF buf, f
<1>12. pos' - Len(b) = Consumed
  <2>1. pos' - Len(b) = pos - Len(buf)
    BY <1>1, <1>5, <1>7, <1>10, <1>11
  <2> QED BY <2>1 DEF Consumed, buf
<1>13. b \in Seq(1..Len(input)) /\ Runs(b, pos') /\ pos' \in Nat
  BY <1>1, <1>5, <1>9, <1>10, <1>11
<1> HIDE DEF b
<1> QED BY <1>1, <1>2, <1>4, <1>12, <1>13, StrippingKeeps

\* and after a response.
LEMMA FinishResponseBytes ==
    ASSUME IInv, NEW off, Offsets(reqs, off), Bytes(off), FinishResponse
    PROVE  Bytes(off)'
<1>1. /\ pc = "finish" /\ UNCHANGED <<peer, pos, body, conn, cur>>
      /\ \/ io' = io
         \/ resp.keep_alive /\ io' = [io EXCEPT !.buf = StripBlank(io.buf)]
  BY DEF FinishResponse
<1>2. CASE io' = io
  BY <1>1, <1>2, SameIsStill, StillKeeps
<1>3. CASE resp.keep_alive /\ io' = [io EXCEPT !.buf = StripBlank(io.buf)]
  <2>1. Where = "finish" /\ Reused
    BY <1>1, <1>3 DEF Where, Reused
  <2>2. cur = io.body_generation /\ conn.body_read
    BY <2>1 DEF IInv, Order, Control, Reading, ResponsePhase
  <2>3. AllRead
    BY <2>2 DEF AllRead, IInv, Order, Reading, Undone
  <2>4. io \in IoStates
    BY TypedIs DEF Typed, IInv
  <2>5. io'.buf = StripBlank(io.buf) /\ io'.body_generation = io.body_generation
    BY <1>3, <2>4 DEF IoStates
  <2>6. pos' = pos /\ pos \in Nat /\ io.buf \in Seq(1..Len(input)) /\ Runs(io.buf, pos')
    BY <1>1, BytesTyped DEF Bytes
  <2>7. pos' - Len(io.buf) = Consumed
    BY <1>1 DEF Consumed
  <2> QED BY <1>1, <2>3, <2>5, <2>6, <2>7, StrippingKeeps
<1> QED BY <1>1, <1>2, <1>3

-----------------------------------------------------------------------------
(* Bodies that read.                                                       *)

\* What is known of a Body that may still read.
LEMMA UndoneIs ==
    ASSUME IInv, NEW off, Offsets(reqs, off), Bytes(off), NEW i \in Ids, Undone(i)
    PROVE  /\ i = cur /\ cur = io.body_generation /\ i \in 1..Len(reqs) /\ i # 0
           /\ ~conn.body_read
           /\ \A j \in Ids \ {i} : ~Undone(j)
           /\ HeadEnd(off, i) \in Nat /\ reqs[i].len \in Nat
           /\ body[i].kind = "length" =>
                  BodyEnd(off, i) = HeadEnd(off, i) + reqs[i].len
           /\ body[i].kind = "chunked" =>
                  /\ BodyEnd(off, i) = HeadEnd(off, i) + reqs[i].len + 1
                  /\ \A p \in (HeadEnd(off, i) + 1)..(HeadEnd(off, i) + reqs[i].len) :
                         Part(p) = "b"
                  /\ Part(HeadEnd(off, i) + reqs[i].len + 1) \in {"x", "e"}
           /\ body[i].kind \in {"length", "chunked"}
           /\ body[i] \in Bodies
<1>1. Order /\ TypeOK /\ Peer /\ Typed
  BY TypedIs DEF IInv
<1>2. i = cur /\ cur = io.body_generation /\ \A j \in Ids \ {i} : ~Undone(j)
  BY <1>1 DEF Order, Reading
<1>3. ~conn.body_read
  BY <1>1, <1>2 DEF Order, Reading, Undone
<1>4. i \in 1..Len(reqs) /\ i # 0
  <2>1. i \in 1..MaxReq /\ MaxReq \in Nat
    BY <1>1, Sorts DEF Ids
  <2>2. i <= Len(reqs) /\ Len(reqs) \in Nat
    BY <1>1, <1>2, PeerIs DEF Order, Control
  <2> QED BY <2>1, <2>2
<1>5. body[i].kind = reqs[i].kind /\ body[i].kind \in {"length", "chunked"}
  BY DEF Bytes, Partial
<1> DEFINE r == reqs[i]
           h == HeadEnd(off, i)
           s == off[i - 1]
<1>6. /\ r.len \in Nat
      /\ h = s + r.blank + r.lines + 1 /\ s \in Nat /\ r.blank \in Nat /\ r.lines \in Nat
      /\ BodyEnd(off, i) = h + BodyLen(r)
      /\ r.kind # "none" => \A p \in (h + 1)..(h + r.len) : input[p] = <<i, "b">>
      /\ r.kind = "chunked" => input[h + r.len + 1] \in {<<i, "x">>, <<i, "e">>}
  BY <1>1, <1>4, Layout
<1>7. h \in Nat
  <2> DEFINE a == r.blank
             l == r.lines
  <2>1. a \in Nat /\ l \in Nat /\ s \in Nat /\ h = s + a + l + 1
    BY <1>6
  <2> HIDE DEF a, l, h, s
  <2> QED BY <2>1
<1>8. body[i].kind = "length" => BodyEnd(off, i) = h + r.len
  <2>1. r.kind = "length" => BodyLen(r) = r.len
    BY DEF BodyLen
  <2> HIDE DEF h, r
  <2> QED BY <1>5, <1>6, <2>1 DEF r
<1>9. body[i].kind = "chunked" => BodyEnd(off, i) = h + r.len + 1
  <2>1. r.kind = "chunked" => BodyLen(r) = r.len + 1
    BY DEF BodyLen
  <2> DEFINE n == r.len
  <2>2. n \in Nat /\ (r.kind = "chunked" => BodyEnd(off, i) = h + (n + 1))
    BY <1>6, <2>1
  <2>3. body[i].kind = r.kind
    BY <1>5
  <2> HIDE DEF h, r, n
  <2>4. h + (n + 1) = h + n + 1
    BY <1>7, <2>2
  <2> QED BY <2>2, <2>3, <2>4 DEF n
<1>10. body[i].kind = "chunked" =>
           /\ \A p \in (h + 1)..(h + r.len) : Part(p) = "b"
           /\ Part(h + r.len + 1) \in {"x", "e"}
  BY <1>5, <1>6 DEF Part
<1>11. body[i] \in Bodies
  BY <1>1 DEF Typed
<1> QED BY <1>2, <1>3, <1>4, <1>5, <1>6, <1>7, <1>8, <1>9, <1>10, <1>11

\* What a poll is handed runs from where the Body is on, and what it leaves in
\* the buffer runs on from there.
Handed(i, got, st) ==
    /\ Runs(got, pos' - Len(st.buf)) /\ Runs(st.buf, pos')
    /\ pos' - Len(st.buf) - Len(got) = ReadBy(body[i])
    /\ body[i].kind = "chunked" => st.buf = <<>>

Consumes(i, got, st) ==
    LET b == body[i] IN
    \/ EndsIt(b, got) /\ Ending(i, LeftOf(b, got), st)
    \/ ~EndsIt(b, got) /\ IsData(b, got) /\ Continuing(i, Due(b, got), LeftOf(b, got), st)
    \/ ~EndsIt(b, got) /\ Failing(i, st)

\* The end of a body is where its framing says.
LEMMA EndingBytes ==
    ASSUME IInv, NEW off, Offsets(reqs, off), Bytes(off), NEW i \in Ids, Undone(i),
           NEW got \in Seq(1..Len(input)), got # <<>>, NEW st \in IoStates, pos' \in Nat,
           Handed(i, got, st), EndsIt(body[i], got), Ending(i, LeftOf(body[i], got), st)
    PROVE  Runs(io'.buf, pos') /\ pos' - Len(io'.buf) = BodyEnd(off, i)
<1> DEFINE b == body[i]
           left == LeftOf(b, got)
           u == UsedOf(b, got)
           R == ReadBy(b)
           h == HeadEnd(off, i)
           n == reqs[i].len
           m == Len(got)
           z == Len(st.buf)
           p == pos'
<1>1. /\ h \in Nat /\ n \in Nat /\ b \in Bodies /\ b.kind \in {"length", "chunked"}
      /\ b.kind = "length" => BodyEnd(off, i) = h + n
      /\ b.kind = "chunked" =>
             /\ BodyEnd(off, i) = h + n + 1
             /\ \A q \in (h + 1)..(h + n) : Part(q) = "b"
  BY UndoneIs
<1>2. st.buf \in Seq(1..Len(input)) /\ z \in Nat /\ m \in Nat /\ m # 0
  <2>1. st.buf \in Seq(1..Len(input))
    BY IoFields
  <2> QED BY <2>1, LenProperties, EmptySeq
<1>3. u \in 0..m /\ left \in Seq(1..Len(input)) /\ b.remaining \in Nat
  BY <1>1, DueIs, BodyFields
<1>4. left = SubSeq(got, u + 1, m)
  BY DEF LeftOf
<1>5. Runs(got, p - z) /\ Runs(st.buf, p) /\ p - z - m = R
  BY DEF Handed
<1>6. Runs(left, p - z) /\ Len(left) = m - u
  <2> HIDE DEF left, u
  <2>1. p - z \in Int
    BY <1>2
  <2> QED BY <1>3, <1>4, <1>5, <2>1, RunCut, SuffixOf
<1>7. io'.buf = left \o st.buf
  BY DEF Ending
<1>8. Runs(left \o st.buf, p) /\ Len(left \o st.buf) = (m - u) + z
  <2> HIDE DEF left, u
  <2>1. p \in Int
    OBVIOUS
  <2>2. Len(left \o st.buf) = Len(left) + Len(st.buf)
    BY <1>2, <1>3, ConcatIs
  <2> QED BY <1>2, <1>3, <1>5, <1>6, <2>1, <2>2, RunJoin
<1>9. R + u = BodyEnd(off, i)
  <2>1. CASE b.kind = "length"
    <3>1. u = b.remaining
      <4>1. u = Due(b, got) /\ Due(b, got) >= b.remaining
        BY <2>1 DEF UsedOf, EndsIt
      <4>2. Due(b, got) \in Nat /\ Due(b, got) <= b.remaining
        BY <1>1, DueIs
      <4> QED BY <1>3, <4>1, <4>2
    <3>2. R = h + n - b.remaining
      BY <2>1 DEF Bytes, Partial
    <3> HIDE DEF R, h, n, u, b
    <3> QED BY <1>1, <1>3, <2>1, <3>1, <3>2, SMTT(30)
  <2>2. CASE b.kind = "chunked"
    <3>1. u = 1 /\ Part(got[1]) = "e"
      BY <2>2 DEF UsedOf, EndsIt
    <3>2. h <= R /\ R <= h + n
      BY <2>2 DEF Bytes, Partial
    <3>3. got[1] = R + 1
      <4>1. 1 \in 1..m
        BY <1>2
      <4>2. got[1] = (p - z) - m + 1
        BY <1>5, <4>1 DEF Runs
      <4> QED BY <1>5, <4>2
    <3>4. R \in Int
      <4> HIDE DEF R, z, m
      <4> QED BY <1>2, <1>5
    <3> HIDE DEF R, h, n, u, b
    <3>5. R + 1 \notin (h + 1)..(h + n)
      BY <1>1, <2>2, <3>1, <3>3
    <3>6. R = h + n
      BY <1>1, <3>2, <3>4, <3>5
    <3> QED BY <1>1, <2>2, <3>1, <3>6
  <2> QED BY <1>1, <2>1, <2>2
<1>10. p - ((m - u) + z) = BodyEnd(off, i)
  <2>1. R = p - z - m
    BY <1>5
  <2> HIDE DEF R, m, u, z
  <2> QED BY <1>2, <1>3, <1>9, <2>1
<1> QED BY <1>7, <1>8, <1>10

\* A body that goes on is as far as it has read.
LEMMA ContinuingBytes ==
    ASSUME IInv, NEW off, Offsets(reqs, off), Bytes(off), NEW i \in Ids, Undone(i),
           NEW got \in Seq(1..Len(input)), got # <<>>, NEW st \in IoStates, pos' \in Nat,
           UNCHANGED peer, body'[i].kind = body[i].kind,
           Handed(i, got, st), ~EndsIt(body[i], got), IsData(body[i], got),
           Continuing(i, Due(body[i], got), LeftOf(body[i], got), st)
    PROVE  Runs(io'.buf, pos') /\ Partial(off, i)'
<1> DEFINE b == body[i]
           c == body'[i]
           left == LeftOf(b, got)
           u == UsedOf(b, got)
           R == ReadBy(b)
           h == HeadEnd(off, i)
           n == reqs[i].len
           m == Len(got)
           z == Len(st.buf)
           p == pos'
<1>1. /\ h \in Nat /\ n \in Nat /\ b \in Bodies /\ b.kind \in {"length", "chunked"}
      /\ b.kind = "chunked" => Part(h + n + 1) \in {"x", "e"}
  BY UndoneIs
<1>2. st.buf \in Seq(1..Len(input)) /\ z \in Nat /\ m \in Nat /\ m # 0
  <2>1. st.buf \in Seq(1..Len(input))
    BY IoFields
  <2> QED BY <2>1, LenProperties, EmptySeq
<1>3. /\ u \in 0..m /\ left \in Seq(1..Len(input)) /\ b.remaining \in Nat
      /\ Due(b, got) \in Nat
  BY <1>1, DueIs, BodyFields
<1>4. left = SubSeq(got, u + 1, m)
  BY DEF LeftOf
<1>5. Runs(got, p - z) /\ Runs(st.buf, p) /\ p - z - m = R
  BY DEF Handed
<1>6. Runs(left, p - z) /\ Len(left) = m - u
  <2> HIDE DEF left, u
  <2>1. p - z \in Int
    BY <1>2
  <2> QED BY <1>3, <1>4, <1>5, <2>1, RunCut, SuffixOf
<1>7. /\ io'.buf = st.buf /\ c.buffered = left /\ c.remaining = b.remaining - Due(b, got)
      /\ c.kind = b.kind
  BY DEF Continuing
<1>8. /\ reqs' = reqs /\ HeadEnd(off, i)' = h /\ ReadBy(b)' = pos' - Len(io'.buf) - Len(c.buffered)
      /\ b.kind = reqs[i].kind
  BY DEF peer, HeadEnd, ReadBy, Consumed, Bytes, Partial
<1>9. R \in Int
  <2> HIDE DEF R, z, m
  <2> QED BY <1>2, <1>5
<1>10. CASE b.kind = "length"
  <2>1. u = Due(b, got) /\ ~(Due(b, got) >= b.remaining)
    BY <1>10 DEF UsedOf, EndsIt
  <2>2. u = m
    BY <1>2, <1>3, <2>1 DEF Due
  <2>3. R = h + n - b.remaining
    BY <1>10 DEF Bytes, Partial
  <2>4. left = <<>>
    <3> HIDE DEF left, m, u
    <3>1. Len(left) = 0
      BY <1>2, <1>6, <2>2
    <3> QED BY <1>3, <3>1, EmptySeq
  <2>5. c.remaining > 0
    <3> DEFINE d == Due(b, got)
               rm == b.remaining
    <3>1. c.remaining = rm - d /\ d \in Nat /\ rm \in Nat /\ ~(d >= rm)
      BY <1>3, <1>7, <2>1
    <3> HIDE DEF d, rm, c
    <3> QED BY <3>1
  <2>6. p - z - 0 = h + n - c.remaining
    <3> DEFINE d == Due(b, got)
               rm == b.remaining
               cr == c.remaining
    <3>1. cr = rm - d /\ d \in Nat /\ rm \in Nat /\ d = m /\ R = h + n - rm /\ p - z - m = R
      BY <1>3, <1>5, <1>7, <2>1, <2>2, <2>3
    <3> HIDE DEF d, rm, cr, R, m, z, h, n, p
    <3>2. p \in Nat
      BY DEF p
    <3> QED BY <1>1, <1>2, <3>1, <3>2 DEF cr
  <2>7. ReadBy(b)' = h + n - c.remaining
    <3>1. Len(c.buffered) = 0
      BY <1>7, <2>4
    <3> QED BY <1>7, <1>8, <2>6, <3>1
  <2>8. c.buffered = <<>>
    BY <1>7, <2>4
  <2> QED BY <1>5, <1>7, <1>8, <1>10, <2>5, <2>7, <2>8 DEF Partial
<1>11. CASE b.kind = "chunked"
  <2>1. u = 1 /\ Part(got[1]) = "b"
    BY <1>11 DEF UsedOf, IsData
  <2>2. h <= R /\ R <= h + n
    BY <1>11 DEF Bytes, Partial
  <2>3. got[1] = R + 1
    <3>1. 1 \in 1..m
      BY <1>2
    <3>2. got[1] = (p - z) - m + 1
      BY <1>5, <3>1 DEF Runs
    <3> QED BY <1>5, <3>2
  <2>4. st.buf = <<>> /\ z = 0
    BY <1>11 DEF Handed
  <2>5. R + 1 <= h + n
    <3>1. R + 1 # h + n + 1
      BY <1>1, <1>11, <2>1, <2>3
    <3> HIDE DEF R, h, n
    <3> QED BY <1>1, <1>9, <2>2, <3>1
  <2>6. ReadBy(b)' = R + 1
    <3>1. ReadBy(b)' = p - z - (m - u)
      BY <1>6, <1>7, <1>8
    <3> HIDE DEF R, p, z, m, u
    <3>2. p \in Nat
      BY DEF p
    <3> QED BY <1>2, <1>5, <2>1, <3>1, <3>2
  <2>7. Runs(left, p)
    <3>1. p - z = p
      <4>1. p \in Nat /\ z = 0
        BY <2>4
      <4> HIDE DEF p, z
      <4> QED BY <4>1
    <3> QED BY <1>6, <3>1
  <2>8. h <= R + 1
    <3> HIDE DEF R, h
    <3> QED BY <1>1, <1>9, <2>2
  <2>9. Runs(c.buffered, p) /\ io'.buf = <<>>
    BY <1>7, <2>4, <2>7
  <2>10. Runs(body[i].buffered, pos)'
    BY <2>9 DEF Runs
  <2>11. h <= ReadBy(b)' /\ ReadBy(b)' <= h + n
    BY <2>5, <2>6, <2>8
  <2> QED BY <1>5, <1>7, <1>8, <1>11, <2>9, <2>10, <2>11 DEF Partial
<1> QED BY <1>1, <1>10, <1>11

\* A poll that is handed bytes keeps Bytes.
LEMMA ConsumeKeeps ==
    ASSUME IInv, NEW off, Offsets(reqs, off), Bytes(off), NEW i \in Ids, Undone(i),
           NEW got \in Seq(1..Len(input)), got # <<>>, NEW st \in IoStates, pos' \in Nat,
           UNCHANGED peer, cur' = cur, OfBody(i), Handed(i, got, st), Consumes(i, got, st)
    PROVE  Bytes(off)'
<1>1. /\ i = cur /\ i # 0 /\ ~conn.body_read /\ \A j \in Ids \ {i} : ~Undone(j)
  BY UndoneIs
<1>2. /\ \A j \in Ids \ {i} : ~Undone(j)' 
      /\ body'[i].kind = body[i].kind
  <2>1. \A j \in Ids \ {i} : body'[j] = body[j]
    BY DEF OfBody
  <2> QED BY <1>1, <2>1 DEF Undone, Live, OfBody
<1>3. CASE EndsIt(body[i], got) /\ Ending(i, LeftOf(body[i], got), st)
  <2>1. Runs(io'.buf, pos') /\ pos' - Len(io'.buf) = BodyEnd(off, i)
    BY <1>3, EndingBytes
  <2>2. Runs(io.buf, pos)'
    BY <2>1 DEF Runs
  <2>3. ~Undone(i)'
    BY <1>3 DEF Ending, Undone
  <2>4. Consumed' = BodyEnd(off, i) /\ BodyEnd(off, cur)' = BodyEnd(off, i)
    BY <1>1, <2>1 DEF Consumed, BodyEnd, HeadEnd, peer
  <2>5. BodyEnd(off, i) \in Int
    <3>1. io'.buf \in Seq(1..Len(input))
      BY IoFields DEF OfBody, IoStates
    <3>2. Len(io'.buf) \in Nat
      BY <3>1, LenProperties
    <3> QED BY <2>1, <3>2
  <2>6. Between(off, cur)'
    <3> DEFINE e == BodyEnd(off, i)
    <3> HIDE DEF e
    <3>1. Consumed' = e /\ BodyEnd(off, cur)' = e /\ e \in Int
      BY <2>4, <2>5 DEF e
    <3>2. e <= e /\ \A q \in (e + 1)..e : FALSE
      BY <3>1
    <3> QED BY <3>1, <3>2 DEF Between
  <2> QED BY <1>2, <2>2, <2>3, <2>6 DEF Bytes
<1>4. CASE /\ ~EndsIt(body[i], got) /\ IsData(body[i], got)
           /\ Continuing(i, Due(body[i], got), LeftOf(body[i], got), st)
  <2>1. Runs(io'.buf, pos') /\ Partial(off, i)'
    BY <1>2, <1>4, ContinuingBytes
  <2>2. Runs(io.buf, pos)'
    BY <2>1 DEF Runs
  <2>3. ~conn'.body_read /\ cur' # 0
    BY <1>1, <1>4 DEF Continuing
  <2> QED BY <1>2, <2>1, <2>2, <2>3 DEF Bytes
<1>5. CASE ~EndsIt(body[i], got) /\ Failing(i, st)
  <2>1. io'.buf = st.buf /\ ~conn'.body_read /\ ~Undone(i)' /\ cur' # 0
    BY <1>1, <1>5 DEF Failing, Undone
  <2>2. Runs(io.buf, pos)'
    BY <2>1 DEF Handed, Runs
  <2> QED BY <1>2, <2>1, <2>2 DEF Bytes
<1> QED BY <1>3, <1>4, <1>5 DEF Consumes

\* From the buffers,
LEMMA BodyChunkBytes ==
    ASSUME IInv, NEW off, Offsets(reqs, off), Bytes(off), NEW i \in Ids, NEW over \in BOOLEAN,
           BodyChunk(i, over)
    PROVE  Bytes(off)'
<1> DEFINE b == body[i]
           got == Taken(b, io)
           rest == LeftInBuf(b, io)
           st == [io EXCEPT !.buf = rest]
<1>1. Typed /\ b \in Bodies /\ io \in IoStates
  BY TypedIs DEF Typed, IInv
<1>2. /\ got \in Seq(1..Len(input)) /\ rest \in Seq(1..Len(input))
      /\ b.buffered # <<>> => got = b.buffered /\ rest = io.buf
      /\ b.buffered = <<>> =>
             \E n \in 0..Len(io.buf) :
                 /\ got = SubSeq(io.buf, 1, n)
                 /\ rest = SubSeq(io.buf, n + 1, Len(io.buf))
                 /\ b.kind # "length" => n = Len(io.buf)
  BY <1>1, TakenIs
<1>3. /\ got # <<>> /\ Consume(i, got, st, over) /\ CanPoll(i) /\ ~b.done
      /\ UNCHANGED peer /\ pos' = pos /\ cur' = cur
  BY DEF BodyChunk, Readable, bodyUnchanged
<1>4. Undone(i)
  BY <1>3, PollsLive DEF Undone
<1> HIDE DEF got, rest
<1>5. /\ st \in IoStates /\ st.buf = rest /\ st.pending_continue = io.pending_continue
      /\ st.body_generation = io.body_generation
  BY <1>1, <1>2, IoBuf
<1> HIDE DEF st
<1>6. OfBody(i) /\ Consumes(i, got, st)
  <2>1. /\ OfBody(i)
        /\ \/ EndsIt(body[i], got) /\ Ending(i, LeftOf(body[i], got), st)
           \/ /\ ~EndsIt(body[i], got) /\ IsData(body[i], got)
              /\ Continuing(i, Due(body[i], got), LeftOf(body[i], got), st)
           \/ ~EndsIt(body[i], got) /\ Failing(i, st) /\ conn'.broken = conn.broken
    BY <1>1, <1>2, <1>3, <1>5, ConsumeEffect
  <2> QED BY <2>1 DEF Consumes
<1>7. /\ pos \in Nat /\ io.buf \in Seq(1..Len(input)) /\ Len(io.buf) \in Nat
      /\ Runs(io.buf, pos) /\ Partial(off, i)
  BY <1>4, BytesTyped DEF Bytes
<1>8. Handed(i, got, st)
  <2> DEFINE buf == io.buf
             m == Len(io.buf)
  <2>1. CASE b.buffered # <<>>
    <3>1. b.kind = "chunked" /\ io.buf = <<>> /\ Runs(b.buffered, pos)
      BY <1>7, <2>1 DEF Partial
    <3>2. got = b.buffered /\ st.buf = <<>>
      BY <1>2, <1>5, <2>1, <3>1
    <3>3. Len(st.buf) = 0 /\ Len(io.buf) = 0
      BY <3>1, <3>2
    <3>4. pos' - Len(st.buf) = pos /\ Consumed = pos
      BY <1>3, <1>7, <3>3 DEF Consumed
    <3>5. Runs(st.buf, pos')
      BY <3>2, RunEmpty
    <3>6. pos' - Len(st.buf) - Len(got) = ReadBy(body[i])
      BY <3>2, <3>4 DEF ReadBy
    <3> QED BY <3>1, <3>2, <3>4, <3>5, <3>6 DEF Handed
  <2>2. CASE b.buffered = <<>>
    <3>1. PICK n \in 0..Len(buf) :
              /\ got = SubSeq(buf, 1, n) /\ rest = SubSeq(buf, n + 1, Len(buf))
              /\ b.kind # "length" => n = Len(buf)
      BY <1>2, <2>2
    <3>2. ReadBy(b) = pos - m
      <4>1. Len(b.buffered) = 0
        BY <2>2
      <4>2. m \in Nat /\ ReadBy(b) = pos - m - 0
        BY <1>7, <4>1 DEF ReadBy, Consumed
      <4> HIDE DEF m
      <4> QED BY <1>7, <4>2
    <3> HIDE DEF buf, m
    <3>3. /\ buf \in Seq(1..Len(input)) /\ Runs(buf, pos) /\ pos \in Nat /\ m = Len(buf)
          /\ m \in Nat /\ n \in 0..m
      BY <1>7 DEF buf, m
    <3>4. /\ Runs(rest, pos) /\ Runs(got, pos - (m - n))
      BY <3>1, <3>3, RunCut
    <3>5. Len(rest) = m - n /\ Len(got) = n
      BY <3>1, <3>3, SuffixOf, PrefixOf
    <3>6. pos - (m - n) - n = pos - m
      BY <3>3
    <3>7. b.kind = "chunked" => rest = <<>>
      <4> SUFFICES ASSUME b.kind = "chunked" PROVE rest = <<>>
        OBVIOUS
      <4>1. n = m
        BY <3>1, <3>3
      <4>2. Len(rest) = 0
        BY <3>3, <3>5, <4>1
      <4> QED BY <1>2, <4>2, EmptySeq
    <3> QED BY <1>3, <1>5, <3>2, <3>4, <3>5, <3>6, <3>7 DEF Handed
  <2> QED BY <2>1, <2>2
<1>9. pos' \in Nat
  BY <1>3, <1>7
<1> QED BY <1>2, <1>3, <1>4, <1>5, <1>6, <1>8, <1>9, ConsumeKeeps

\* and from the transport.
LEMMA BodyFillBytes ==
    ASSUME IInv, NEW off, Offsets(reqs, off), Bytes(off), NEW i \in Ids,
           NEW k \in 1..MaxRead, NEW over \in BOOLEAN, BodyFill(i, k, over)
    PROVE  Bytes(off)'
<1> DEFINE b == body[i]
           got == Fresh(k)
<1>1. Typed /\ b \in Bodies /\ io \in IoStates
  BY TypedIs DEF Typed, IInv
<1>2. /\ Taken(b, io) = <<>> /\ Consume(i, got, io, over) /\ CanPoll(i) /\ ~b.done
      /\ pos + k <= Len(input) /\ pos' = pos + k /\ UNCHANGED peer /\ cur' = cur
  BY DEF BodyFill, Readable, bodyUnchanged
<1>3. Undone(i)
  BY <1>2, PollsLive DEF Undone
<1>4. /\ pos \in Nat /\ io.buf \in Seq(1..Len(input)) /\ Len(io.buf) \in Nat
      /\ Runs(io.buf, pos) /\ Partial(off, i) /\ Len(input) \in Nat /\ k \in Nat /\ k > 0
  BY <1>3, BytesTyped, Constants DEF Bytes
<1>5. got \in Seq(1..Len(input)) /\ Len(got) = k /\ Runs(got, pos + k)
  BY <1>2, <1>4, FreshIs, RunFresh
<1>6. b.buffered = <<>> /\ io.buf = <<>>
  <2>1. b.buffered = <<>>
    BY <1>1, <1>2, TakenIs
  <2>2. PICK n \in 0..Len(io.buf) :
            /\ Taken(b, io) = SubSeq(io.buf, 1, n)
            /\ n = IF b.kind = "length"
                   THEN IF Len(io.buf) < b.remaining THEN Len(io.buf) ELSE b.remaining
                   ELSE Len(io.buf)
    BY <1>1, <2>1, TakenIs
  <2>3. Len(SubSeq(io.buf, 1, n)) = n
    BY <1>4, PrefixOf
  <2>4. n = 0
    BY <1>2, <2>2, <2>3
  <2>5. b.kind = "length" => b.remaining > 0 /\ b.remaining \in Nat
    BY <1>1, <1>4, BodyFields DEF Partial
  <2>6. Len(io.buf) = 0
    BY <1>4, <2>2, <2>4, <2>5
  <2> QED BY <1>4, <2>1, <2>6, EmptySeq
<1> HIDE DEF got
<1>7. got # <<>>
  BY <1>4, <1>5
<1>8. OfBody(i) /\ Consumes(i, got, io)
  <2>1. /\ OfBody(i)
        /\ \/ EndsIt(body[i], got) /\ Ending(i, LeftOf(body[i], got), io)
           \/ /\ ~EndsIt(body[i], got) /\ IsData(body[i], got)
              /\ Continuing(i, Due(body[i], got), LeftOf(body[i], got), io)
           \/ ~EndsIt(body[i], got) /\ Failing(i, io) /\ conn'.broken = conn.broken
    BY <1>1, <1>2, <1>5, <1>7, ConsumeEffect
  <2> QED BY <2>1 DEF Consumes
<1>9. Handed(i, got, io)
  <2>1. Len(io.buf) = 0 /\ Len(b.buffered) = 0
    BY <1>6
  <2>2. ReadBy(b) = pos
    BY <1>4, <2>1 DEF ReadBy, Consumed
  <2>3. pos' - Len(io.buf) = pos + k /\ (pos + k) - Len(got) = pos
    BY <1>2, <1>4, <1>5, <2>1
  <2>4. Runs(io.buf, pos')
    BY <1>6, RunEmpty
  <2> QED BY <1>5, <1>6, <2>2, <2>3, <2>4 DEF Handed
<1>10. pos' \in Nat
  BY <1>2, <1>4
<1> QED BY <1>1, <1>2, <1>3, <1>5, <1>7, <1>8, <1>9, <1>10, ConsumeKeeps

-----------------------------------------------------------------------------
(* Heads.                                                                  *)

\* The head that serve is about to split off: it is the next request's.
LEMMA AtSplit ==
    ASSUME IInv, Found, NEW off, Offsets(reqs, off), Bytes(off), pc = "split"
    PROVE  /\ cur + 1 \in 1..Len(reqs) /\ AllRead
           /\ find_head_end(io.buf) \in 1..Len(io.buf)
           /\ Consumed + find_head_end(io.buf) = HeadEnd(off, cur + 1)
           /\ IsHeadOf(SubSeq(io.buf, 1, find_head_end(io.buf)), cur + 1)
<1> DEFINE b == io.buf
           m == Len(b)
           C == Consumed
           e == BodyEnd(off, cur)
           i == cur + 1
<1>1. AllRead
  BY HeadIsAllRead DEF Where, HeadPhase
<1>2. /\ pos \in Nat /\ pos <= Len(input) /\ Len(input) \in Nat
      /\ b \in Seq(1..Len(input)) /\ m \in Nat /\ cur \in Nat
      /\ cur \in 0..Len(reqs) /\ e \in Nat
  BY <1>1, BytesTyped DEF AllRead
<1>3. /\ \A k \in 1..m : b[k] = C + k
      /\ e <= C /\ \A q \in (e + 1)..C : IsBlank(q)
      /\ C = pos - m
  <2>1. \A k \in 1..m : b[k] = pos - m + k
    BY DEF Bytes, Runs
  <2> QED BY <1>1, <2>1 DEF Bytes, Between, AllRead, Consumed
<1>4. DOMAIN b = 1..m
  BY <1>2, LenProperties
<1>5. HeadEnds(b) # {} /\ ~IsBlank(b[1])
  BY DEF Found
<1> DEFINE HE == HeadEnds(b)
<1>6. HE = {k \in 1..m : Terminates(b[k])}
  BY <1>4 DEF HeadEnds
<1> HIDE DEF HE, b, m, C, e
<1>7. PICK t \in 1..m : Terminates(C + t)
  <2>1. PICK t \in HE : TRUE
    BY <1>5 DEF HE
  <2> QED BY <1>3, <1>6, <2>1
<1>8. ~IsBlank(C + 1) /\ m >= 1
  <2>1. m >= 1 /\ 1 \in 1..m
    BY <1>2, <1>7
  <2> QED BY <1>3, <1>5, <2>1 DEF b
<1>9. Peer /\ Len(reqs) \in Nat
  BY PeerIs DEF IInv
<1>10. cur < Len(reqs)
  <2> SUFFICES ASSUME cur = Len(reqs) PROVE FALSE
    BY <1>2, <1>9
  <2>1. Len(input) = off[Len(reqs)]
    BY <1>9, Ground
  <2>2. \A q \in (e + 1)..off[cur] : input[q] = <<cur, "u">>
    BY <1>2, <1>9, Around DEF e
  <2>3. C + t \in (e + 1)..Len(input)
    BY <1>2, <1>3, <1>7
  <2>4. input[C + t] = <<cur, "u">>
    BY <2>1, <2>2, <2>3
  <2> QED BY <1>7, <2>4 DEF Terminates, Part
<1>11. i \in 1..Len(reqs) /\ i - 1 = cur /\ cur \in 0..Len(reqs)
  BY <1>2, <1>9, <1>10
<1>12. e = off[cur]
  BY <1>2, <1>9, <1>10, Around DEF e
<1> DEFINE r == reqs[i]
           a == r.blank
           l == r.lines
           h == HeadEnd(off, i)
<1>13. /\ a \in Nat /\ l \in Nat /\ h = e + a + l + 1
       /\ \A q \in (e + 1)..(e + a) : input[q] = <<i, "n">>
       /\ \A q \in (e + a + 1)..(e + a + l) : input[q] = <<i, "h">>
       /\ input[h] = <<i, "H">>
  <2> HIDE DEF i
  <2>1. off[i - 1] = e
    BY <1>11, <1>12
  <2> QED BY <1>9, <1>11, <2>1, Layout
<1> HIDE DEF i, r, a, l, h
<1>14. C = e + a
  <2>1. ~(C < e + a)
    <3> SUFFICES ASSUME C < e + a PROVE FALSE
      OBVIOUS
    <3>1. C + 1 \in (e + 1)..(e + a)
      BY <1>2, <1>3, <1>13
    <3>2. input[C + 1] = <<i, "n">>
      BY <1>13, <3>1
    <3> QED BY <1>8, <3>2 DEF IsBlank, Part
  <2>2. ~(C > e + a)
    <3> SUFFICES ASSUME C > e + a PROVE FALSE
      OBVIOUS
    <3>1. e + a + 1 \in (e + 1)..C
      BY <1>2, <1>3, <1>13
    <3>2. IsBlank(e + a + 1)
      BY <1>3, <3>1
    <3>3. CASE l = 0
      <4>1. h = e + a + 1
        BY <1>2, <1>13, <3>3
      <4> QED BY <1>13, <3>2, <4>1 DEF IsBlank, Part
    <3>4. CASE l # 0
      <4>1. e + a + 1 \in (e + a + 1)..(e + a + l)
        BY <1>2, <1>13, <3>4
      <4> QED BY <1>13, <3>2, <4>1 DEF IsBlank, Part
    <3> QED BY <3>3, <3>4
  <2>3. C \in Int /\ e + a \in Int
    BY <1>2, <1>3, <1>13
  <2> QED BY <2>1, <2>2, <2>3
<1>15. /\ C \in Nat /\ h = C + (l + 1)
       /\ \A k \in 1..l : input[C + k] = <<i, "h">>
       /\ input[C + (l + 1)] = <<i, "H">>
  <2>1. C \in Nat /\ h = C + (l + 1)
    BY <1>2, <1>13, <1>14
  <2>2. ASSUME NEW k \in 1..l PROVE C + k \in (e + a + 1)..(e + a + l)
    BY <1>2, <1>13, <1>14
  <2> QED BY <1>13, <2>1, <2>2
<1>16. \A k \in 1..m : Terminates(b[k]) => k >= l + 1
  <2> TAKE k \in 1..m
  <2>1. CASE k \in 1..l
    <3>1. input[b[k]] = <<i, "h">>
      BY <1>3, <1>15, <2>1
    <3> QED BY <3>1 DEF Terminates, Part
  <2>2. CASE k \notin 1..l
    BY <1>13, <2>2
  <2> QED BY <2>1, <2>2
<1>17. l + 1 \in 1..m
  <2>1. b[t] = C + t
    BY <1>3, <1>7
  <2>2. t >= l + 1
    BY <1>7, <1>16, <2>1
  <2> QED BY <1>2, <1>13, <1>7, <2>2
<1>18. l + 1 \in HE /\ \A k \in HE : l + 1 <= k
  <2>1. b[l + 1] = C + (l + 1)
    BY <1>3, <1>17
  <2>2. Terminates(b[l + 1])
    BY <1>15, <2>1 DEF Terminates, Part
  <2>3. \A k \in HE : k \in Nat /\ k >= l + 1
    BY <1>6, <1>16
  <2>4. \A k \in HE : l + 1 <= k
    BY <1>13, <2>3
  <2> QED BY <1>6, <1>17, <2>2, <2>4
<1> DEFINE f == find_head_end(io.buf)
<1>19. f = l + 1
  <2>1. f = CHOOSE k \in HE : \A j \in HE : k <= j
    BY DEF find_head_end, HE, b
  <2>2. f \in HE /\ \A j \in HE : f <= j
    <3> HIDE DEF f
    <3> QED BY <1>18, <2>1
  <2> HIDE DEF f
  <2>3. f <= l + 1 /\ l + 1 <= f /\ f \in Nat
    BY <1>6, <1>18, <2>2
  <2> QED BY <1>13, <2>3
<1> DEFINE hd == SubSeq(io.buf, 1, f)
<1>20. Len(hd) = l + 1 /\ \A k \in 1..(l + 1) : hd[k] = C + k
  <2>1. Len(SubSeq(b, 1, l + 1)) = l + 1 /\ \A k \in 1..(l + 1) : SubSeq(b, 1, l + 1)[k] = b[k]
    <3>1. l + 1 \in 0..Len(b) /\ b \in Seq(1..Len(input))
      BY <1>2, <1>17 DEF m
    <3> QED BY <3>1, PrefixOf
  <2>2. hd = SubSeq(b, 1, l + 1)
    BY <1>19 DEF b
  <2>3. \A k \in 1..(l + 1) : k \in 1..m
    BY <1>2, <1>17
  <2> QED BY <1>3, <2>1, <2>2, <2>3
<1> HIDE DEF f, hd
<1>21. IsHeadOf(hd, i)
  <2>1. i <= Len(reqs)
    BY <1>9, <1>11
  <2>2. Len(hd) = reqs[i].lines + 1
    BY <1>20 DEF l, r
  <2>3. \A k \in 1..(Len(hd) - 1) : input[hd[k]] = <<i, "h">>
    <3>1. Len(hd) - 1 = l
      BY <1>13, <1>20
    <3>2. \A k \in 1..l : k \in 1..(l + 1)
      BY <1>13
    <3> QED BY <1>15, <1>20, <3>1, <3>2
  <2>4. input[hd[Len(hd)]] = <<i, "H">>
    <3>1. l + 1 \in 1..(l + 1)
      BY <1>13
    <3> QED BY <1>15, <1>20, <3>1
  <2> QED BY <2>1, <2>2, <2>3, <2>4 DEF IsHeadOf
<1> QED BY <1>1, <1>11, <1>15, <1>17, <1>19, <1>21 DEF i, f, hd, C, m, b, h

\* The split keeps Bytes: a new Body begins where its head ends.
LEMMA SplitBytes ==
    ASSUME IInv, Found, NEW off, Offsets(reqs, off), Bytes(off), Split
    PROVE  Bytes(off)'
<1>0. PICK i : i = cur + 1
  OBVIOUS
<1> DEFINE r == reqs[i]
           b == NewBody(r, io.body_generation + 1)
           end == find_head_end(io.buf)
           rest == SubSeq(io.buf, end + 1, Len(io.buf))
<1>1. /\ pc = "split" /\ UNCHANGED peer /\ pos' = pos /\ cur' = i
      /\ \/ /\ io' = [buf |-> rest,
                      pending_continue |-> IF b.continue_sent THEN 0 ELSE CLen,
                      body_finished |-> b.done,
                      body_generation |-> b.generation]
            /\ body' = [body EXCEPT ![i] = b]
            /\ conn' = [conn EXCEPT !.body_read = b.done]
         \/ io' = [io EXCEPT !.buf = rest] /\ body' = body
  BY <1>0 DEF Split
<1>2. /\ i \in 1..Len(reqs) /\ AllRead /\ end \in 1..Len(io.buf)
      /\ Consumed + end = HeadEnd(off, i)
  BY <1>0, <1>1, AtSplit
<1>3. /\ pos \in Nat /\ io.buf \in Seq(1..Len(input)) /\ Len(io.buf) \in Nat
      /\ cur \in Nat /\ Runs(io.buf, pos)
  BY BytesTyped DEF Bytes
<1>4. Typed /\ Peer /\ TypeOK /\ Len(reqs) \in Nat /\ Len(reqs) < MaxReq
  BY TypedIs, PeerIs DEF IInv
<1> HIDE DEF end
<1>5. Runs(rest, pos) /\ Len(rest) = Len(io.buf) - end
  <2>1. end \in 0..Len(io.buf)
    BY <1>2, <1>3
  <2> QED BY <1>3, <2>1, RunCut, SuffixOf
<1>6. pos - Len(rest) = HeadEnd(off, i)
  <2> DEFINE m == Len(io.buf)
             n == Len(rest)
             h == HeadEnd(off, i)
  <2>1. n = m - end /\ m \in Nat /\ end \in 1..m /\ (pos - m) + end = h
    BY <1>2, <1>3, <1>5 DEF Consumed
  <2> HIDE DEF m, n, h
  <2>2. pos - n = h
    BY <1>3, <2>1
  <2> QED BY <2>2 DEF n, h
<1> HIDE DEF rest
<1>7. CASE io' = [io EXCEPT !.buf = rest] /\ body' = body
  <2>1. io'.buf = rest /\ io'.body_generation = io.body_generation
    BY <1>4, <1>7 DEF Typed, IoStates
  <2>2. cur' # io'.body_generation
    BY <1>0, <1>1, <1>2, <1>3, <2>1 DEF AllRead
  <2>3. \A j \in Ids : ~Undone(j)'
    BY <1>2, <1>7 DEF AllRead, Undone, Live
  <2>4. Runs(io.buf, pos)'
    BY <1>1, <1>5, <2>1 DEF Runs
  <2> QED BY <2>2, <2>3, <2>4 DEF Bytes
<1>8. CASE /\ io' = [buf |-> rest,
                     pending_continue |-> IF b.continue_sent THEN 0 ELSE CLen,
                     body_finished |-> b.done,
                     body_generation |-> b.generation]
           /\ body' = [body EXCEPT ![i] = b]
           /\ conn' = [conn EXCEPT !.body_read = b.done]
  <2>1. r \in Request /\ i \in Ids /\ i \in 0..MaxReq
    BY <1>2, <1>4, Layout, Sorts DEF Ids
  <2>2. /\ b \in Bodies /\ b.kind = r.kind /\ b.buffered = <<>>
        /\ b.done = (r.kind = "none" \/ (r.kind = "length" /\ r.len = 0))
        /\ b.remaining = (IF r.kind = "length" THEN r.len ELSE 0)
    <3>1. io.body_generation + 1 \in 0..MaxReq
      BY <1>0, <1>2, <2>1 DEF AllRead
    <3> HIDE DEF r
    <3> QED BY <2>1, <3>1, NewBodyIs
  <2> DEFINE h == HeadEnd(off, i)
  <2>3. /\ io'.buf = rest /\ conn'.body_read = b.done /\ b.done \in BOOLEAN
    <3> HIDE DEF b
    <3>1. io'.buf = rest
      BY <1>8
    <3>2. conn \in Flags /\ b.done \in BOOLEAN
      BY <1>4, <2>2, BodyFields DEF Typed
    <3> QED BY <1>8, <3>1, <3>2 DEF Flags
  <2>4. body'[i] = b /\ \A j \in Ids \ {i} : body'[j] = body[j]
    <3> HIDE DEF b
    <3> QED BY <1>4, <1>8, <2>1, <2>2, BodyReplaced DEF Typed
  <2>5. \A j \in Ids \ {i} : ~Undone(j)'
    BY <1>2, <2>4 DEF AllRead, Undone, Live
  <2>6. Runs(io.buf, pos)'
    BY <1>1, <1>5, <2>3 DEF Runs
  <2>7. reqs' = reqs /\ HeadEnd(off, i)' = h
    BY <1>1 DEF peer, HeadEnd
  <2>8. Consumed' = h
    BY <1>1, <1>6, <2>3 DEF Consumed
  <2>9. h \in Nat /\ r.len \in Nat /\ r.kind \in {"none", "length", "chunked"}
        /\ BodyEnd(off, i) = h + BodyLen(r)
    <3> DEFINE s == off[i - 1]
               a == r.blank
               l == r.lines
    <3>1. h = s + a + l + 1 /\ s \in Nat /\ a \in Nat /\ l \in Nat
      BY <1>2, <1>4, Layout
    <3>2. h \in Nat
      <4> HIDE DEF h, s, a, l
      <4> QED BY <3>1
    <3>3. BodyEnd(off, i) = h + BodyLen(r)
      BY <1>2, <1>4, Layout
    <3> HIDE DEF r
    <3>4. r.len \in Nat /\ r.kind \in {"none", "length", "chunked"}
      BY <2>1, RequestSorts
    <3> QED BY <3>2, <3>3, <3>4 DEF r
  <2>10. CASE b.done
    <3>1. BodyLen(r) = 0
      BY <2>2, <2>10 DEF BodyLen
    <3>2. BodyEnd(off, cur)' = h
      <4>1. BodyEnd(off, cur)' = BodyEnd(off, i)
        BY <1>1, <2>7 DEF BodyEnd, HeadEnd
      <4> QED BY <2>9, <3>1, <4>1
    <3>3. Between(off, cur)'
      <4> HIDE DEF h
      <4>1. h <= h /\ \A q \in (h + 1)..h : FALSE
        BY <2>9
      <4> QED BY <2>8, <3>2, <4>1 DEF Between
    <3>4. ~Undone(i)'
      BY <2>4, <2>10 DEF Undone
    <3> QED BY <2>5, <2>6, <3>3, <3>4 DEF Bytes
  <2>11. CASE ~b.done
    <3>1. ~conn'.body_read /\ cur' # 0
      BY <1>0, <1>1, <1>3, <2>3, <2>11
    <3>2. Partial(off, i)'
      <4>1. /\ body'[i].kind = r.kind /\ body'[i].buffered = <<>>
            /\ body'[i].remaining = (IF r.kind = "length" THEN r.len ELSE 0)
            /\ \/ r.kind = "length" /\ r.len # 0
               \/ r.kind = "chunked"
        BY <2>2, <2>4, <2>9, <2>11
      <4>2. Len(body'[i].buffered) = 0
        BY <4>1
      <4>3. ReadBy(body[i])' = h
        <5>1. ReadBy(body[i])' = h - 0
          BY <2>8, <4>2 DEF ReadBy
        <5> HIDE DEF h
        <5> QED BY <2>9, <5>1
      <4> DEFINE n == r.len
      <4>4. h = h + n - n /\ h <= h + n /\ h <= h /\ (n # 0 => n > 0)
        <5>1. n \in Nat /\ h \in Nat
          BY <2>9
        <5> HIDE DEF n, h
        <5> QED BY <5>1
      <4>5. HeadEnd(off, i)' = h /\ reqs'[i] = r
        BY <1>1 DEF HeadEnd, peer
      <4>6. CASE r.kind = "length"
        <5>1. body'[i].remaining = n /\ n > 0
          BY <4>1, <4>4, <4>6
        <5> QED BY <4>1, <4>3, <4>4, <4>5, <4>6, <5>1 DEF Partial
      <4>7. CASE r.kind = "chunked"
        BY <4>1, <4>3, <4>4, <4>5, <4>7 DEF Partial
      <4> QED BY <4>1, <4>6, <4>7
    <3> QED BY <2>5, <2>6, <3>1, <3>2 DEF Bytes
  <2> QED BY <2>10, <2>11
<1> QED BY <1>1, <1>7, <1>8

-----------------------------------------------------------------------------
(* The invariant, and what it shows.                                       *)

\* The peer is the same throughout.
LEMMA PeerFixed ==
    ASSUME [Next]_vars
    PROVE  UNCHANGED peer
<1>1. CASE LoopStep
  BY <1>1 DEF LoopStep, ReadUntilHead, Split, SettleContinue, WriteError, FlushDone, Compose,
              FinishResponse, Return
<1>2. CASE PeerStep \/ WriteFails
  BY <1>2 DEF PeerStep, HeadRead, HeadEof, SettleWrite, FlushWrite, WriteFails, SettleFails,
              FlushFails
<1>3. CASE HeadTimeout \/ BodyTimeout \/ HandlerTimeout \/ StreamTimeout
  BY <1>3 DEF HeadTimeout, BodyTimeout, HandlerTimeout, StreamTimeout
<1>4. CASE HandlerStep
  BY <1>4 DEF HandlerStep, StashBody, FirstPollPending, HandlerReturns, HandlerPanics,
              bodyUnchanged
<1>5. CASE StreamStep
  BY <1>5 DEF StreamStep, StreamChunk, StreamPending, StreamEnds, StreamError, StreamPanics
<1>6. CASE \E i \in Ids : BodyStep(i)
  BY <1>6 DEF BodyStep, BodyChunk, BodyFill, BodyEof, SendContinue, SendContinueFails, DropBody,
              bodyUnchanged
<1>7. CASE Over \/ UNCHANGED vars
  BY <1>7 DEF Over, vars, peer
<1> QED BY <1>1, <1>2, <1>3, <1>4, <1>5, <1>6, <1>7 DEF Next

\* Every step keeps Bytes.
LEMMA BytesStep ==
    ASSUME IInv, Found, NEW off, Offsets(reqs, off), Bytes(off), [Next]_vars
    PROVE  Bytes(off)'
<1>1. CASE LoopStep
  BY <1>1, ReadUntilHeadBytes, SplitBytes, FinishResponseBytes, LoopStepStill,
     LeavingStepStill, StillKeeps DEF LoopStep
<1>2. CASE PeerStep
  BY <1>2, HeadReadBytes, LoopStepStill, StillKeeps DEF PeerStep
<1>3. CASE WriteFails \/ BodyTimeout \/ HandlerTimeout
  BY <1>3, LeavingStepStill, StillKeeps DEF WriteFails
<1>4. CASE HeadTimeout \/ StreamTimeout \/ Over
  BY <1>4, LoopStepStill, StillKeeps
<1>5. CASE HandlerStep
  BY <1>5, HandlerStepStill, StillKeeps
<1>6. CASE StreamStep
  BY <1>6, LoopStepStill, LeavingStepStill, StillKeeps DEF StreamStep
<1>7. CASE \E i \in Ids : BodyStep(i)
  BY <1>7, BodyChunkBytes, BodyFillBytes, BodyStepStill, StillKeeps DEF BodyStep
<1>8. CASE UNCHANGED vars
  BY <1>8, SameIsStill, StillKeeps DEF vars, peer
<1> QED BY <1>1, <1>2, <1>3, <1>4, <1>5, <1>6, <1>7, <1>8 DEF Next

\* Bytes, for the places the requests have in the stream.
Placed == \A off : Offsets(reqs, off) => Bytes(off)

\* Every byte that was read is where Bytes says it is.
THEOREM EveryBytePlaced == Spec => []Placed
<1>1. Init => Placed
  <2> SUFFICES ASSUME Init, NEW off, Offsets(reqs, off) PROVE Bytes(off)
    BY DEF Placed
  <2>1. /\ io.buf = <<>> /\ pos = 0 /\ cur = 0 /\ Len(io.buf) = 0
        /\ \A i \in Ids : ~Undone(i)
    BY DEF Init, Undone, Live, NoBody
  <2>2. Runs(io.buf, pos)
    BY <2>1, RunEmpty
  <2>3. Between(off, cur)
    <3>1. BodyEnd(off, cur) = 0
      BY <2>1 DEF BodyEnd
    <3>2. Consumed = 0
      <4> DEFINE m == Len(io.buf)
      <4>1. Consumed = pos - m /\ pos = 0 /\ m = 0
        BY <2>1 DEF Consumed
      <4> HIDE DEF m
      <4> QED BY <4>1
    <3> QED BY <3>1, <3>2 DEF Between
  <2> QED BY <2>1, <2>2, <2>3 DEF Bytes
<1>2. IInv /\ Found /\ Placed /\ [Next]_vars => Placed'
  <2> SUFFICES ASSUME IInv, Found, Placed, [Next]_vars, NEW off, Offsets(reqs, off)'
               PROVE  Bytes(off)'
    BY DEF Placed
  <2>1. reqs' = reqs
    BY PeerFixed DEF peer
  <2>2. Offsets(reqs, off)
    BY <2>1 DEF Offsets
  <2> QED BY <2>2, BytesStep DEF Placed
<1> QED BY <1>1, <1>2, Inductive, PTL DEF Spec

\* The places exist.
LEMMA PlacedIs ==
    ASSUME IInv, Placed
    PROVE  \E off : Offsets(reqs, off) /\ Bytes(off)
<1>1. reqs \in Seq(Request)
  BY PeerIs DEF IInv
<1> QED BY <1>1, StreamIs DEF Placed

\* A run is the sequence IsRunTo says.
LEMMA RunIs ==
    ASSUME NEW S, NEW b \in Seq(S), NEW p, Runs(b, p)
    PROVE  IsRunTo(b, p)
<1>1. b = [j \in 1..Len(b) |-> b[j]]
  OBVIOUS
<1>2. \A j \in 1..Len(b) : b[j] = p - Len(b) + j
  BY DEF Runs
<1>3. [j \in 1..Len(b) |-> b[j]] = [j \in 1..Len(b) |-> p - Len(b) + j]
  BY <1>2
<1> QED BY <1>1, <1>3 DEF IsRunTo

\* What serve splits off as a head is the next request's head, whole and alone.
THEOREM HeadsAreAlwaysHeads == Spec => []HeadsAreHeads
<1>1. IInv /\ Found /\ Placed => HeadsAreHeads
  <2> SUFFICES ASSUME IInv, Found, Placed, pc = "split"
               PROVE  IsHeadOf(SubSeq(io.buf, 1, find_head_end(io.buf)), cur + 1)
    BY DEF HeadsAreHeads
  <2>1. PICK off : Offsets(reqs, off) /\ Bytes(off)
    BY PlacedIs
  <2> QED BY <2>1, AtSplit
<1> QED BY <1>1, Inductive, EveryBytePlaced, PTL

\* No byte is lost, duplicated or reordered between the transport, the buffer
\* and a Body, and the loop looks for a head exactly where a request ended.
THEOREM NoByteEverLost == Spec => []NoByteLost
<1>1. IInv /\ Found /\ Placed => NoByteLost
  <2> SUFFICES ASSUME IInv, Found, Placed PROVE NoByteLost
    OBVIOUS
  <2>1. PICK off : Offsets(reqs, off) /\ Bytes(off)
    BY PlacedIs
  <2>2. /\ pos \in Nat /\ Len(input) \in Nat /\ io.buf \in Seq(1..Len(input))
        /\ Len(io.buf) \in Nat /\ cur \in Nat /\ pos <= Len(input) /\ Runs(io.buf, pos)
    BY <2>1, BytesTyped DEF Bytes
  <2>3. ASSUME NEW i \in Ids, Undone(i) PROVE IsRunTo(body[i].buffered \o io.buf, pos)
    <3> DEFINE s == body[i].buffered
    <3>1. Partial(off, i) /\ body[i] \in Bodies
      BY <2>1, <2>3, UndoneIs DEF Bytes
    <3>2. s \in Seq(1..Len(input))
      BY <3>1, BodyFields
    <3>3. CASE s = <<>>
      <4>1. s \o io.buf = io.buf
        BY <2>2, <3>3, ConcatEmptySeq
      <4> QED BY <2>2, <4>1, RunIs
    <3>4. CASE s # <<>>
      <4>1. io.buf = <<>> /\ Runs(s, pos)
        BY <3>1, <3>4 DEF Partial
      <4>2. s \o io.buf = s
        BY <3>2, <4>1, ConcatEmptySeq
      <4> QED BY <3>2, <4>1, <4>2, RunIs
    <3> QED BY <3>3, <3>4
  <2>4. ASSUME pc \in {"head", "reading", "split"}
        PROVE  /\ IsRunTo(io.buf, pos)
               /\ \A p \in 1..(NextUnread - 1) : input[p][1] <= cur \/ IsBlank(p)
               /\ \A p \in NextUnread..Len(input) : input[p][1] > cur \/ Part(p) = "u"
    <3>1. AllRead
      BY <2>4, HeadIsAllRead DEF Where, HeadPhase
    <3> DEFINE e == BodyEnd(off, cur)
               C == Consumed
    <3>2. /\ cur \in 0..Len(reqs) /\ e \in Nat /\ e <= C
          /\ \A q \in (e + 1)..C : IsBlank(q)
      BY <2>1, <3>1, BytesTyped DEF AllRead, Bytes, Between
    <3>3. C \in Int /\ C <= Len(input) /\ NextUnread = C + 1
      BY <2>2 DEF Consumed, NextUnread
    <3>4. /\ off[cur] \in Nat
          /\ \A p \in 1..Len(input) : p <= e => input[p][1] <= cur
          /\ \A p \in (e + 1)..off[cur] : input[p] = <<cur, "u">>
          /\ \A p \in (off[cur] + 1)..Len(input) : input[p][1] > cur
      BY <2>1, <3>2, Around DEF IInv
    <3> HIDE DEF e, C
    <3>5. ASSUME NEW p \in 1..C PROVE input[p][1] <= cur \/ IsBlank(p)
      <4>1. p \in 1..Len(input) /\ (p <= e \/ p \in (e + 1)..C)
        BY <2>2, <3>2, <3>3
      <4> QED BY <3>2, <3>4, <4>1
    <3>6. ASSUME NEW p \in (C + 1)..Len(input) PROVE input[p][1] > cur \/ Part(p) = "u"
      <4>1. p \in (e + 1)..off[cur] \/ p \in (off[cur] + 1)..Len(input)
        BY <2>2, <3>2, <3>3, <3>4
      <4> QED BY <3>4, <4>1 DEF Part
    <3>7. (C + 1) - 1 = C
      BY <3>3
    <3> QED BY <2>2, <3>3, <3>5, <3>6, <3>7, RunIs
  <2> QED BY <2>3, <2>4 DEF NoByteLost, Undone
<1> QED BY <1>1, Inductive, EveryBytePlaced, PTL

\* An upgrade's consumer gets the transport with the 101 written in full, no
\* interim response owed, and only the peer's post-upgrade bytes buffered.
THEOREM UpgradeIsAlwaysClean == Spec => []UpgradeIsClean
<1>1. IInv /\ Found /\ Placed => UpgradeIsClean
  <2> SUFFICES ASSUME IInv, Found, Placed, pc = "upgraded"
               PROVE  /\ \A k \in DOMAIN io.buf : input[io.buf[k]] = <<cur, "u">>
                      /\ IsRunTo(io.buf, pos)
                      /\ wire # <<>> /\ Last(wire) = <<cur, "z">>
                      /\ io.pending_continue = 0
    BY DEF UpgradeIsClean
  <2>1. PICK off : Offsets(reqs, off) /\ Bytes(off)
    BY PlacedIs
  <2>2. /\ pos \in Nat /\ Len(input) \in Nat /\ io.buf \in Seq(1..Len(input))
        /\ Len(io.buf) \in Nat /\ cur \in Nat /\ pos <= Len(input) /\ Runs(io.buf, pos)
    BY <2>1, BytesTyped DEF Bytes
  <2>3. cur = io.body_generation /\ cur > 0 /\ conn.body_read /\ reqs[cur].upgrade
    BY DEF IInv, Order, Control, Reading, Where
  <2>4. cur \in 0..Len(reqs) /\ Len(reqs) \in Nat /\ Peer
    BY <2>1, <2>3, BytesTyped, PeerIs DEF IInv
  <2>5. cur = Len(reqs)
    <3>1. cur \notin 1..(Len(reqs) - 1)
      BY <2>3, <2>4, UpgradeAssumption DEF Peer
    <3> QED BY <2>3, <2>4, <3>1
  <2> DEFINE e == BodyEnd(off, cur)
             C == Consumed
             m == Len(io.buf)
  <2>6. m \in Nat /\ e \in Nat /\ e <= C /\ C = pos - m /\ \A k \in 1..m : io.buf[k] = C + k
    <3>1. e \in Nat /\ e <= C
      BY <2>1, <2>3, BytesTyped DEF Bytes, Between
    <3>2. \A k \in 1..m : io.buf[k] = pos - m + k
      BY <2>2 DEF Runs
    <3> QED BY <2>2, <3>1, <3>2 DEF Consumed
  <2>7. Len(input) = off[cur] /\ \A q \in (e + 1)..off[cur] : input[q] = <<cur, "u">>
    BY <2>1, <2>4, <2>5, Ground, Around
  <2> HIDE DEF e, C, m
  <2>8. ASSUME NEW k \in 1..m PROVE input[io.buf[k]] = <<cur, "u">>
    <3>1. C + k \in (e + 1)..Len(input)
      BY <2>2, <2>6
    <3> QED BY <2>6, <2>7, <3>1
  <2>9. DOMAIN io.buf = 1..m
    BY <2>2, LenProperties DEF m
  <2>10. wire # <<>> /\ wire[Len(wire)] = <<cur, "z">>
    <3>1. out = <<>> /\ held = <<>>
      BY DEF IInv, Writes, Waiting, Ended
    <3>2. Output = wire
      BY <3>1, OutputIs DEF IInv
    <3>3. Tip(wire) = <<cur, "z">>
      BY <3>2 DEF IInv, Writes, Tips
    <3> QED BY <2>3, <3>3 DEF Tip
  <2>11. io.pending_continue = 0
    BY NothingOwed DEF IInv
  <2> QED BY <2>2, <2>8, <2>9, <2>10, <2>11, RunIs DEF Last
<1> QED BY <1>1, Inductive, EveryBytePlaced, PTL
=============================================================================
