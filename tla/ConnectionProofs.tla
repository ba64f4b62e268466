-------------------------- MODULE ConnectionProofs --------------------------
(***************************************************************************)
(* The connection's safety, for every peer, every handler and every limit. *)
(*                                                                         *)
(* None of the properties is inductive.  IInv says besides where serve is  *)
(* and for which request (Control), who holds which Body (Custody), which  *)
(* Body may still read and what that forbids (Reading), where output may   *)
(* wait (Waiting), when a 100 Continue is still owed (Owing), what the     *)
(* output ends with at each point of a request (Tips), that each unit of   *)
(* it may follow the one before (Chained), and which responses are whole   *)
(* (Answered, Kept).                                                       *)
(*                                                                         *)
(* A step is a task's (TaskStep: a Body, or its holder, moves, and the     *)
(* loop does not) or the loop's.  The loop's either leave the Bodies alone *)
(* (Calm, Steady) or drop the one the loop drives (Leaving); what each     *)
(* kind keeps is proved once.                                              *)
(*                                                                         *)
(* First come the lemmas about what the operators of Connection compute.   *)
(* Stream, for any sequence of requests: where each request begins and     *)
(* ends in the peer's stream, and which unit is where.  It is defined with *)
(* FlattenSeq, a recursive function, so this is an induction over the      *)
(* requests, for a set S in place of a predicate.  The others are          *)
(* first-order facts: the fields of the records they build, the buffers    *)
(* they cut and join, and what a poll of a Body, a failure of it and a     *)
(* drop of its holder do to the state.  The proofs cite these and do not   *)
(* look into the records again.                                            *)
(***************************************************************************)
EXTENDS Connection, SequenceTheorems, WellFoundedInduction, TLAPS

-----------------------------------------------------------------------------
(* The stream.                                                             *)

\* Every non-empty set of naturals has a least element.
LEMMA Least ==
    ASSUME NEW S, S \subseteq Nat, S # {}
    PROVE  \E n \in S : \A m \in S : n <= m
<1>1. PICK n \in S : \A m \in S : ~(<<m, n>> \in OpToRel(<, Nat))
  BY NatLessThanWellFounded, WFMin
<1>2. \A m \in S : ~(m < n)
  <2> TAKE m \in S
  <2>1. <<m, n>> \in Nat \X Nat
    OBVIOUS
  <2>2. <<m, n>>[1] = m /\ <<m, n>>[2] = n
    OBVIOUS
  <2> QED BY <1>1, <2>1, <2>2 DEF OpToRel
<1> QED BY <1>2

\* Induction over the naturals, for the set S of those that have a property.
LEMMA Induction ==
    ASSUME NEW S, 0 \in S, \A n \in Nat : n \in S => n + 1 \in S
    PROVE  Nat \subseteq S
<1> SUFFICES ASSUME Nat \ S # {} PROVE FALSE
  OBVIOUS
<1>1. PICK n \in Nat \ S : \A m \in Nat \ S : n <= m
  BY Least
<1>2. n # 0 /\ n - 1 \in Nat /\ n - 1 \in S
  BY <1>1
<1> QED BY <1>1, <1>2

-----------------------------------------------------------------------------
(* FlattenSeq.                                                             *)

\* f is what FlattenSeq(ss) has joined after 1, 2, ... of the sequences ss.
JoinsTo(ss, n, f) ==
    f = [i \in 1..n |-> IF i = 1 THEN ss[i] ELSE f[i - 1] \o ss[i]]

\* The partial concatenations FlattenSeq runs through exist.
LEMMA JoinExists ==
    ASSUME NEW ss, NEW n \in Nat
    PROVE  \E f : JoinsTo(ss, n, f)
<1> DEFINE S == {m \in Nat : \E f : JoinsTo(ss, m, f)}
<1>1. 0 \in S
  <2> DEFINE f == [i \in 1..0 |-> ss[i]]
  <2>1. f = [i \in 1..0 |-> IF i = 1 THEN ss[i] ELSE f[i - 1] \o ss[i]]
    OBVIOUS
  <2> QED BY <2>1 DEF JoinsTo
<1>2. ASSUME NEW m \in Nat, m \in S PROVE m + 1 \in S
  <2>1. PICK f : JoinsTo(ss, m, f)
    BY <1>2
  <2> DEFINE g == [i \in 1..(m + 1) |-> IF i <= m THEN f[i]
                                        ELSE IF i = 1 THEN ss[i] ELSE f[i - 1] \o ss[i]]
  <2>2. \A i \in 1..m : f[i] = IF i = 1 THEN ss[i] ELSE f[i - 1] \o ss[i]
    BY <2>1 DEF JoinsTo
  <2>3. ASSUME NEW i \in 1..(m + 1)
        PROVE  g[i] = IF i = 1 THEN ss[i] ELSE g[i - 1] \o ss[i]
    <3>1. CASE i <= m
      <4>1. i \in 1..m /\ (i # 1 => i - 1 \in 1..m /\ i - 1 \in 1..(m + 1))
        BY <3>1
      <4>2. g[i] = f[i] /\ (i # 1 => g[i - 1] = f[i - 1])
        BY <4>1
      <4> QED BY <4>1, <4>2, <2>2
    <3>2. CASE i = m + 1
      <4>1. i # 1 => i - 1 \in 1..(m + 1) /\ i - 1 <= m
        BY <3>2
      <4>2. g[i] = IF i = 1 THEN ss[i] ELSE f[i - 1] \o ss[i]
        BY <3>2
      <4>3. i # 1 => g[i - 1] = f[i - 1]
        BY <4>1
      <4> QED BY <4>2, <4>3
    <3> QED BY <3>1, <3>2
  <2>4. g = [i \in 1..(m + 1) |-> IF i = 1 THEN ss[i] ELSE g[i - 1] \o ss[i]]
    <3> HIDE DEF g
    <3>1. DOMAIN g = 1..(m + 1) /\ g = [i \in 1..(m + 1) |-> g[i]]
      BY DEF g
    <3> QED BY <2>3, <3>1
  <2>5. JoinsTo(ss, m + 1, g)
    <3> HIDE DEF g
    <3> QED BY <2>4 DEF JoinsTo
  <2> QED BY <2>5
<1>3. Nat \subseteq S
  <2> HIDE DEF S
  <2> QED BY <1>1, <1>2, Induction
<1> QED BY <1>3

\* FlattenSeq returns the last of them.
LEMMA FlattenIsJoin ==
    ASSUME NEW ss, Len(ss) \in Nat, Len(ss) # 0
    PROVE  \E f : JoinsTo(ss, Len(ss), f) /\ FlattenSeq(ss) = f[Len(ss)]
<1> DEFINE f == CHOOSE g : JoinsTo(ss, Len(ss), g)
<1>1. FlattenSeq(ss) = f[Len(ss)]
  BY DEF FlattenSeq, JoinsTo
<1>2. JoinsTo(ss, Len(ss), f)
  BY JoinExists
<1> QED BY <1>1, <1>2

-----------------------------------------------------------------------------
(* One request's units.                                                    *)

Units == Nat \X {"n", "h", "H", "b", "e", "x", "u"}

\* Lengths of a request's parts: what precedes the end of its head, that end
\* included; its body; and all of it.
HeadLen(r) == r.blank + r.lines + 1
BodyLen(r) == CASE r.kind = "none" -> 0
                [] r.kind = "length" -> r.len
                [] r.kind = "chunked" -> r.len + 1
SizeOf(r) == HeadLen(r) + BodyLen(r) + r.post

\* f holds the units of request i, laid out as the peer sends r, from `at` on.
LaidOut(f, at, i, r) ==
    /\ \A j \in 1..r.blank : f[at + j] = <<i, "n">>
    /\ \A j \in (r.blank + 1)..(r.blank + r.lines) : f[at + j] = <<i, "h">>
    /\ f[at + HeadLen(r)] = <<i, "H">>
    /\ r.kind # "none" =>
           \A j \in (HeadLen(r) + 1)..(HeadLen(r) + r.len) : f[at + j] = <<i, "b">>
    /\ r.kind = "chunked" =>
           f[at + HeadLen(r) + r.len + 1] = <<i, IF r.malformed THEN "x" ELSE "e">>
    /\ \A j \in (HeadLen(r) + BodyLen(r) + 1)..SizeOf(r) : f[at + j] = <<i, "u">>

\* The fields of a request, and the lengths made of them.
LEMMA RequestSorts ==
    ASSUME NEW r \in Request
    PROVE  /\ r.blank \in Nat /\ r.lines \in Nat /\ r.len \in Nat /\ r.post \in Nat
           /\ r.kind \in {"none", "length", "chunked"} /\ r.malformed \in BOOLEAN
           /\ r.expect \in BOOLEAN /\ r.http10 \in BOOLEAN
           /\ HeadLen(r) \in Nat \ {0} /\ BodyLen(r) \in Nat /\ SizeOf(r) \in Nat \ {0}
<1>1. /\ r.blank \in Nat /\ r.lines \in Nat /\ r.len \in Nat /\ r.post \in Nat
      /\ r.kind \in {"none", "length", "chunked"} /\ r.malformed \in BOOLEAN
      /\ r.expect \in BOOLEAN /\ r.http10 \in BOOLEAN
  BY DEF Request
<1>2. BodyLen(r) \in Nat
  BY <1>1 DEF BodyLen
<1> QED BY <1>1, <1>2 DEF HeadLen, SizeOf

\* What Repeat returns.
LEMMA RepeatIs ==
    ASSUME NEW n \in Nat, NEW i \in Nat, NEW part \in {"n", "h", "H", "b", "e", "x", "u"}
    PROVE  /\ Repeat(n, i, part) \in Seq(Units)
           /\ Len(Repeat(n, i, part)) = n
           /\ \A k \in 1..n : Repeat(n, i, part)[k] = <<i, part>>
<1>1. <<i, part>> \in Units
  BY DEF Units
<1> QED BY <1>1 DEF Repeat

\* Two sequences of units joined.
LEMMA Concatenated ==
    ASSUME NEW s \in Seq(Units), NEW t \in Seq(Units)
    PROVE  /\ s \o t \in Seq(Units)
           /\ Len(s \o t) = Len(s) + Len(t)
           /\ \A k \in 1..Len(s) : (s \o t)[k] = s[k]
           /\ \A k \in 1..Len(t) : (s \o t)[Len(s) + k] = t[k]
OBVIOUS

\* The units of one request are laid out as LaidOut says.
LEMMA UnitsOfIs ==
    ASSUME NEW r \in Request, NEW i \in Nat
    PROVE  /\ UnitsOf(i, r) \in Seq(Units)
           /\ Len(UnitsOf(i, r)) = SizeOf(r)
           /\ LaidOut(UnitsOf(i, r), 0, i, r)
<1> DEFINE a == Repeat(r.blank, i, "n")
           b == Repeat(r.lines, i, "h")
           c == << <<i, "H">> >>
           d == IF r.kind = "none" THEN <<>> ELSE Repeat(r.len, i, "b")
           e == IF r.kind # "chunked" THEN <<>>
                ELSE << <<i, IF r.malformed THEN "x" ELSE "e">> >>
           f == Repeat(r.post, i, "u")
<1>1. UnitsOf(i, r) = ((((a \o b) \o c) \o d) \o e) \o f
  BY DEF UnitsOf
<1>s. /\ r.blank \in Nat /\ r.lines \in Nat /\ r.len \in Nat /\ r.post \in Nat
      /\ r.kind \in {"none", "length", "chunked"} /\ r.malformed \in BOOLEAN
      /\ BodyLen(r) \in Nat /\ HeadLen(r) \in Nat
  BY RequestSorts
<1>a. a \in Seq(Units) /\ Len(a) = r.blank /\ \A k \in 1..r.blank : a[k] = <<i, "n">>
  BY RepeatIs, <1>s
<1>b. b \in Seq(Units) /\ Len(b) = r.lines /\ \A k \in 1..r.lines : b[k] = <<i, "h">>
  BY RepeatIs, <1>s
<1>c. c \in Seq(Units) /\ Len(c) = 1 /\ c[1] = <<i, "H">>
  BY DEF Units
<1>d. /\ d \in Seq(Units) /\ Len(d) = IF r.kind = "none" THEN 0 ELSE r.len
      /\ \A k \in 1..Len(d) : d[k] = <<i, "b">>
  <2>1. /\ Repeat(r.len, i, "b") \in Seq(Units) /\ Len(Repeat(r.len, i, "b")) = r.len
        /\ \A k \in 1..r.len : Repeat(r.len, i, "b")[k] = <<i, "b">>
    BY RepeatIs, <1>s
  <2>2. <<>> \in Seq(Units) /\ Len(<<>>) = 0
    BY EmptySeq
  <2> QED BY <2>1, <2>2
<1>e. /\ e \in Seq(Units) /\ Len(e) = IF r.kind # "chunked" THEN 0 ELSE 1
      /\ r.kind = "chunked" => e[1] = <<i, IF r.malformed THEN "x" ELSE "e">>
  <2>1. <<i, IF r.malformed THEN "x" ELSE "e">> \in Units
    BY <1>s DEF Units
  <2> QED BY <2>1
<1>f. f \in Seq(Units) /\ Len(f) = r.post /\ \A k \in 1..r.post : f[k] = <<i, "u">>
  BY RepeatIs, <1>s
<1> DEFINE ab == a \o b
           abc == ab \o c
           abcd == abc \o d
           abcde == abcd \o e
           all == abcde \o f
<1> HIDE DEF a, b, c, d, e, f, ab, abc, abcd, abcde, all
<1>2. /\ ab \in Seq(Units) /\ Len(ab) = Len(a) + Len(b)
      /\ \A k \in 1..Len(a) : ab[k] = a[k]
      /\ \A k \in 1..Len(b) : ab[Len(a) + k] = b[k]
  BY <1>a, <1>b, Concatenated DEF ab
<1>3. /\ abc \in Seq(Units) /\ Len(abc) = Len(ab) + Len(c)
      /\ \A k \in 1..Len(ab) : abc[k] = ab[k]
      /\ \A k \in 1..Len(c) : abc[Len(ab) + k] = c[k]
  BY <1>2, <1>c, Concatenated DEF abc
<1>4. /\ abcd \in Seq(Units) /\ Len(abcd) = Len(abc) + Len(d)
      /\ \A k \in 1..Len(abc) : abcd[k] = abc[k]
      /\ \A k \in 1..Len(d) : abcd[Len(abc) + k] = d[k]
  BY <1>3, <1>d, Concatenated DEF abcd
<1>5. /\ abcde \in Seq(Units) /\ Len(abcde) = Len(abcd) + Len(e)
      /\ \A k \in 1..Len(abcd) : abcde[k] = abcd[k]
      /\ \A k \in 1..Len(e) : abcde[Len(abcd) + k] = e[k]
  BY <1>4, <1>e, Concatenated DEF abcde
<1>6. /\ all \in Seq(Units) /\ Len(all) = Len(abcde) + Len(f)
      /\ \A k \in 1..Len(abcde) : all[k] = abcde[k]
      /\ \A k \in 1..Len(f) : all[Len(abcde) + k] = f[k]
  BY <1>5, <1>f, Concatenated DEF all
<1>7. UnitsOf(i, r) = all
  BY <1>1 DEF all, abcde, abcd, abc, ab
<1>8. Len(ab) = r.blank + r.lines /\ Len(abc) = HeadLen(r)
  BY <1>a, <1>b, <1>c, <1>2, <1>3, <1>s DEF HeadLen
<1>9. Len(abcd) = HeadLen(r) + Len(d) /\ Len(abcde) = HeadLen(r) + BodyLen(r)
  <2>1. Len(d) + Len(e) = BodyLen(r)
    BY <1>d, <1>e, <1>s DEF BodyLen
  <2>2. Len(d) \in Nat /\ Len(e) \in Nat
    BY <1>d, <1>e, <1>s
  <2> QED BY <2>1, <2>2, <1>4, <1>5, <1>8, <1>s
<1>10. Len(all) = SizeOf(r)
  BY <1>6, <1>9, <1>f, <1>s DEF SizeOf
<1>11. \A k \in 1..Len(abc) : all[k] = abc[k]
  <2> TAKE k \in 1..Len(abc)
  <2>1. k \in 1..Len(abcd) /\ k \in 1..Len(abcde)
    BY <1>8, <1>9, <1>d, <1>e, <1>s, <1>4, <1>5, SMTT(30)
  <2> QED BY <2>1, <1>4, <1>5, <1>6
<1>12. \A j \in 1..r.blank : all[0 + j] = <<i, "n">>
  <2> TAKE j \in 1..r.blank
  <2>1. j \in 1..Len(a) /\ j \in 1..Len(ab) /\ j \in 1..Len(abc) /\ 0 + j = j
    BY <1>a, <1>8, <1>s DEF HeadLen
  <2> QED BY <2>1, <1>a, <1>2, <1>3, <1>11
<1>13. \A j \in (r.blank + 1)..(r.blank + r.lines) : all[0 + j] = <<i, "h">>
  <2> TAKE j \in (r.blank + 1)..(r.blank + r.lines)
  <2>1. /\ j - r.blank \in 1..Len(b) /\ Len(a) + (j - r.blank) = j
        /\ j \in 1..Len(ab) /\ j \in 1..Len(abc) /\ 0 + j = j
    BY <1>a, <1>b, <1>8, <1>s DEF HeadLen
  <2>2. ab[j] = b[j - r.blank]
    BY <2>1, <1>2
  <2> QED BY <2>1, <2>2, <1>a, <1>b, <1>3, <1>11
<1>14. all[0 + HeadLen(r)] = <<i, "H">>
  <2>1. /\ 1 \in 1..Len(c) /\ Len(ab) + 1 = HeadLen(r)
        /\ HeadLen(r) \in 1..Len(abc) /\ 0 + HeadLen(r) = HeadLen(r)
    BY <1>c, <1>8, <1>s DEF HeadLen
  <2> QED BY <2>1, <1>c, <1>3, <1>11
<1>15. ASSUME r.kind # "none", NEW j \in (HeadLen(r) + 1)..(HeadLen(r) + r.len)
       PROVE  all[0 + j] = <<i, "b">>
  <2>1. /\ j - HeadLen(r) \in 1..Len(d) /\ Len(abc) + (j - HeadLen(r)) = j /\ 0 + j = j
        /\ j \in 1..Len(abcd) /\ j \in 1..Len(abcde)
    <3>1. Len(d) = r.len /\ Len(d) <= BodyLen(r)
      BY <1>15, <1>d, <1>s DEF BodyLen
    <3>2. HeadLen(r) \in Nat /\ r.len \in Nat /\ BodyLen(r) \in Nat /\ j \in Int
      BY <1>s
    <3> QED BY <3>1, <3>2, <1>8, <1>9
  <2>2. abcd[j] = d[j - HeadLen(r)]
    BY <2>1, <1>4
  <2> QED BY <2>1, <2>2, <1>d, <1>5, <1>6
<1>16. ASSUME r.kind = "chunked"
       PROVE  all[0 + HeadLen(r) + r.len + 1] = <<i, IF r.malformed THEN "x" ELSE "e">>
  <2>1. /\ 1 \in 1..Len(e) /\ Len(abcd) + 1 = 0 + HeadLen(r) + r.len + 1
        /\ Len(abcd) + 1 \in 1..Len(abcde)
    <3>1. Len(d) = r.len /\ Len(e) = 1 /\ BodyLen(r) = r.len + 1
      BY <1>16, <1>d, <1>e, <1>s DEF BodyLen
    <3> QED BY <3>1, <1>9, <1>s
  <2> QED BY <2>1, <1>16, <1>e, <1>5, <1>6
<1>17. \A j \in (HeadLen(r) + BodyLen(r) + 1)..SizeOf(r) : all[0 + j] = <<i, "u">>
  <2> TAKE j \in (HeadLen(r) + BodyLen(r) + 1)..SizeOf(r)
  <2>1. /\ j - Len(abcde) \in 1..Len(f) /\ Len(abcde) + (j - Len(abcde)) = j /\ 0 + j = j
    <3>1. SizeOf(r) = Len(abcde) + Len(f) /\ Len(abcde) \in Nat /\ Len(f) \in Nat
      BY <1>f, <1>9, <1>s DEF SizeOf
    <3> QED BY <3>1, <1>9
  <2> QED BY <2>1, <1>f, <1>6
<1>18. LaidOut(all, 0, i, r)
  BY <1>12, <1>13, <1>14, <1>15, <1>16, <1>17 DEF LaidOut
<1> QED BY <1>6, <1>7, <1>10, <1>18

-----------------------------------------------------------------------------
(* The stream.                                                             *)

\* Every place LaidOut speaks of is one of the request's.
LEMMA Places ==
    ASSUME NEW r \in Request
    PROVE  /\ \A j \in 1..r.blank : j \in 1..SizeOf(r)
           /\ \A j \in (r.blank + 1)..(r.blank + r.lines) : j \in 1..SizeOf(r)
           /\ HeadLen(r) \in 1..SizeOf(r)
           /\ r.kind # "none" =>
                  \A j \in (HeadLen(r) + 1)..(HeadLen(r) + r.len) : j \in 1..SizeOf(r)
           /\ r.kind = "chunked" => HeadLen(r) + r.len + 1 \in 1..SizeOf(r)
           /\ \A j \in (HeadLen(r) + BodyLen(r) + 1)..SizeOf(r) : j \in 1..SizeOf(r)
<1>1. /\ r.blank \in Nat /\ r.lines \in Nat /\ r.len \in Nat /\ r.post \in Nat
      /\ BodyLen(r) \in Nat /\ HeadLen(r) \in Nat
  BY RequestSorts
<1>2. SizeOf(r) = HeadLen(r) + BodyLen(r) + r.post /\ HeadLen(r) = r.blank + r.lines + 1
  BY DEF SizeOf, HeadLen
<1>3. /\ r.kind # "none" => r.len <= BodyLen(r)
      /\ r.kind = "chunked" => r.len + 1 = BodyLen(r)
  <2>1. r.kind \in {"none", "length", "chunked"}
    BY RequestSorts
  <2> QED BY <2>1, <1>1 DEF BodyLen
<1> DEFINE bl == r.blank
           li == r.lines
           le == r.len
           po == r.post
           H == HeadLen(r)
           B == BodyLen(r)
           Z == SizeOf(r)
<1>4. /\ bl \in Nat /\ li \in Nat /\ le \in Nat /\ po \in Nat /\ B \in Nat
      /\ Z = H + B + po /\ H = bl + li + 1
      /\ r.kind # "none" => le <= B
      /\ r.kind = "chunked" => le + 1 = B
  BY <1>1, <1>2, <1>3
<1> HIDE DEF bl, li, le, po, H, B, Z
<1>5. \A j \in 1..bl : j \in 1..Z
  BY <1>4
<1>6. \A j \in (bl + 1)..(bl + li) : j \in 1..Z
  BY <1>4
<1>7. H \in 1..Z
  BY <1>4
<1>8. r.kind # "none" => \A j \in (H + 1)..(H + le) : j \in 1..Z
  BY <1>4
<1>9. r.kind = "chunked" => H + le + 1 \in 1..Z
  BY <1>4
<1>10. \A j \in (H + B + 1)..Z : j \in 1..Z
  BY <1>4
<1> QED BY <1>5, <1>6, <1>7, <1>8, <1>9, <1>10 DEF bl, li, le, po, H, B, Z

\* A request stays where it is when more follows.
LEMMA LaidOutBefore ==
    ASSUME NEW s \in Seq(Units), NEW t \in Seq(Units), NEW r \in Request, NEW i \in Nat,
           NEW at \in Nat, at + SizeOf(r) <= Len(s), LaidOut(s, at, i, r)
    PROVE  LaidOut(s \o t, at, i, r)
<1>1. /\ r.blank \in Nat /\ r.lines \in Nat /\ r.len \in Nat /\ r.post \in Nat
      /\ r.kind \in {"none", "length", "chunked"}
      /\ BodyLen(r) \in Nat /\ HeadLen(r) \in Nat
  BY RequestSorts
<1>2. \A k \in 1..SizeOf(r) : (s \o t)[at + k] = s[at + k]
  <2> TAKE k \in 1..SizeOf(r)
  <2>1. at + k \in 1..Len(s)
    BY <1>1 DEF SizeOf
  <2> QED BY <2>1, Concatenated
<1>3. r.kind = "chunked" =>
          /\ BodyLen(r) = r.len + 1
          /\ at + HeadLen(r) + r.len + 1 = at + (HeadLen(r) + r.len + 1)
  BY <1>1 DEF BodyLen
<1> QED BY <1>2, <1>3, Places DEF LaidOut

\* A request moves as a whole when appended.
LEMMA LaidOutAfter ==
    ASSUME NEW s \in Seq(Units), NEW t \in Seq(Units), NEW r \in Request, NEW i \in Nat,
           Len(t) = SizeOf(r), LaidOut(t, 0, i, r)
    PROVE  LaidOut(s \o t, Len(s), i, r)
<1>1. /\ r.blank \in Nat /\ r.lines \in Nat /\ r.len \in Nat /\ r.post \in Nat
      /\ r.kind \in {"none", "length", "chunked"}
      /\ BodyLen(r) \in Nat /\ HeadLen(r) \in Nat /\ Len(s) \in Nat
  BY RequestSorts
<1>2. \A k \in 1..SizeOf(r) : (s \o t)[Len(s) + k] = t[0 + k]
  <2> TAKE k \in 1..SizeOf(r)
  <2>1. 0 + k = k
    BY <1>1 DEF SizeOf
  <2> QED BY <2>1, Concatenated
<1>3. r.kind = "chunked" =>
          /\ BodyLen(r) = r.len + 1
          /\ Len(s) + HeadLen(r) + r.len + 1 = Len(s) + (HeadLen(r) + r.len + 1)
          /\ 0 + HeadLen(r) + r.len + 1 = 0 + (HeadLen(r) + r.len + 1)
  BY <1>1 DEF BodyLen
<1> QED BY <1>2, <1>3, Places DEF LaidOut

\* Request i of rs ends at off[i], the last unit of it.
Offsets(rs, off) ==
    /\ off \in [0..Len(rs) -> Nat]
    /\ off[0] = 0
    /\ \A i \in 1..Len(rs) : off[i] = off[i - 1] + SizeOf(rs[i])
    /\ Stream(rs) \in Seq(Units)
    /\ Len(Stream(rs)) = off[Len(rs)]
    /\ \A i \in 1..Len(rs) : LaidOut(Stream(rs), off[i - 1], i, rs[i])

\* Every request has its place in the peer's stream.
LEMMA StreamIs ==
    ASSUME NEW rs \in Seq(Request)
    PROVE  \E off : Offsets(rs, off)
<1> DEFINE n == Len(rs)
           ss == [i \in DOMAIN rs |-> UnitsOf(i, rs[i])]
<1>1. n \in Nat /\ DOMAIN rs = 1..n /\ \A i \in 1..n : rs[i] \in Request
  OBVIOUS
<1>2. Len(ss) = n /\ \A i \in 1..n : ss[i] = UnitsOf(i, rs[i])
  BY <1>1
<1>3. Stream(rs) = FlattenSeq(ss)
  BY DEF Stream
<1>4. \A i \in 1..n : /\ ss[i] \in Seq(Units) /\ Len(ss[i]) = SizeOf(rs[i])
                      /\ LaidOut(ss[i], 0, i, rs[i]) /\ SizeOf(rs[i]) \in Nat
  BY <1>1, <1>2, UnitsOfIs, RequestSorts
<1>5. CASE n = 0
  <2>1. ss = <<>>
    BY <1>1, <1>5
  <2>2. Stream(rs) = <<>>
    BY <1>2, <1>3, <1>5, <2>1 DEF FlattenSeq
  <2> DEFINE off == [i \in 0..n |-> 0]
  <2>3. Offsets(rs, off)
    BY <1>5, <2>2 DEF Offsets
  <2> QED BY <2>3
<1>6. CASE n # 0
  <2> HIDE DEF ss
  <2>1. PICK f : JoinsTo(ss, n, f) /\ Stream(rs) = f[n]
    BY <1>1, <1>2, <1>3, <1>6, FlattenIsJoin
  <2>2. \A k \in 1..n : f[k] = IF k = 1 THEN ss[k] ELSE f[k - 1] \o ss[k]
    BY <2>1 DEF JoinsTo
  <2> DEFINE off == [i \in 0..n |-> IF i = 0 THEN 0 ELSE Len(f[i])]
             P(k) == /\ f[k] \in Seq(Units)
                     /\ off[k] = off[k - 1] + SizeOf(rs[k])
                     /\ \A i \in 1..k : /\ off[i] \in Nat /\ off[i - 1] \in Nat
                                        /\ off[i] = off[i - 1] + SizeOf(rs[i])
                                        /\ off[i] <= Len(f[k])
                                        /\ LaidOut(f[k], off[i - 1], i, rs[i])
             S == {m \in Nat : m + 1 <= n => P(m + 1)}
  <2>o. off[0] = 0 /\ \A k \in 1..n : off[k] = Len(f[k])
    BY <1>1
  <2> HIDE DEF off
  <2>3. 0 \in S
    <3>1. 1 \in 1..n /\ 0 + 1 = 1 /\ 1 - 1 = 0
      BY <1>1, <1>6
    <3>2. f[1] = ss[1] /\ off[1] = SizeOf(rs[1]) /\ off[0] = 0 /\ SizeOf(rs[1]) \in Nat
      BY <3>1, <2>2, <2>o, <1>4
    <3>3. P(1)
      BY <3>1, <3>2, <1>4
    <3> QED BY <3>1, <3>3
  <2>4. ASSUME NEW m \in Nat, m \in S PROVE m + 1 \in S
    <3> SUFFICES ASSUME (m + 1) + 1 <= n PROVE P((m + 1) + 1)
      OBVIOUS
    <3> DEFINE k == m + 1
    <3>1. k \in 1..n /\ k + 1 \in 1..n /\ k + 1 # 1 /\ (k + 1) - 1 = k
      BY <1>1
    <3>2. P(k)
      BY <2>4, <3>1
    <3>3. f[k + 1] = f[k] \o ss[k + 1]
      BY <3>1, <2>2
    <3> HIDE DEF k
    <3>4. rs[k + 1] \in Request /\ k + 1 \in Nat /\ k \in Nat
      BY <3>1, <1>1
    <3>5. /\ f[k + 1] \in Seq(Units)
          /\ Len(f[k + 1]) = Len(f[k]) + SizeOf(rs[k + 1])
      <4>1. f[k] \in Seq(Units)
        BY <3>2
      <4>2. ss[k + 1] \in Seq(Units) /\ Len(ss[k + 1]) = SizeOf(rs[k + 1])
        BY <3>1, <1>4
      <4>3. /\ f[k] \o ss[k + 1] \in Seq(Units)
            /\ Len(f[k] \o ss[k + 1]) = Len(f[k]) + Len(ss[k + 1])
        BY <4>1, <4>2, Concatenated
      <4> QED BY <4>2, <4>3, <3>3
    <3>6. off[k + 1] = off[k] + SizeOf(rs[k + 1]) /\ off[k] \in Nat /\ SizeOf(rs[k + 1]) \in Nat
      <4>1. off[k] = Len(f[k]) /\ off[k + 1] = Len(f[k + 1])
        BY <3>1, <2>o
      <4>2. f[k] \in Seq(Units) /\ Len(ss[k + 1]) = SizeOf(rs[k + 1]) /\ ss[k + 1] \in Seq(Units)
        BY <3>1, <3>2, <1>4
      <4>3. Len(f[k]) \in Nat /\ SizeOf(rs[k + 1]) \in Nat
        BY <4>2
      <4> HIDE DEF P
      <4> QED BY <4>1, <4>3, <3>5
    <3>7. LaidOut(f[k + 1], off[k], k + 1, rs[k + 1])
      BY <3>1, <3>2, <3>3, <3>4, <1>4, <2>o, LaidOutAfter
    <3>8. ASSUME NEW i \in 1..k
          PROVE  /\ off[i] \in Nat /\ off[i - 1] \in Nat
                 /\ off[i] = off[i - 1] + SizeOf(rs[i])
                 /\ off[i] <= Len(f[k + 1])
                 /\ LaidOut(f[k + 1], off[i - 1], i, rs[i])
      <4>1. i \in 1..n /\ i \in Nat /\ rs[i] \in Request
        BY <3>1, <1>1
      <4>2. /\ off[i] \in Nat /\ off[i - 1] \in Nat /\ off[i] = off[i - 1] + SizeOf(rs[i])
            /\ off[i] <= Len(f[k]) /\ LaidOut(f[k], off[i - 1], i, rs[i])
        BY <3>2
      <4>3. off[i] <= Len(f[k + 1])
        BY <4>2, <3>5, <3>6, <3>2
      <4>4. LaidOut(f[k] \o ss[k + 1], off[i - 1], i, rs[i])
        BY <4>1, <4>2, <3>1, <3>2, <1>4, LaidOutBefore
      <4> QED BY <4>2, <4>3, <4>4, <3>3
    <3>9. ASSUME NEW i \in 1..(k + 1)
          PROVE  /\ off[i] \in Nat /\ off[i - 1] \in Nat
                 /\ off[i] = off[i - 1] + SizeOf(rs[i])
                 /\ off[i] <= Len(f[k + 1])
                 /\ LaidOut(f[k + 1], off[i - 1], i, rs[i])
      <4>1. CASE i = k + 1
        BY <4>1, <3>1, <3>5, <3>6, <3>7, <2>o, <3>4
      <4>2. CASE i # k + 1
        <5>1. i \in 1..k
          BY <4>2, <3>4
        <5> QED BY <5>1, <3>8
      <4> QED BY <4>1, <4>2
    <3>10. P(k + 1)
      BY <3>1, <3>5, <3>6, <3>9
    <3> QED BY <3>10 DEF k
  <2>5. Nat \subseteq S
    <3> HIDE DEF S
    <3> QED BY <2>3, <2>4, Induction
  <2>6. P(n)
    <3>1. n - 1 \in Nat /\ (n - 1) + 1 = n /\ (n - 1) + 1 <= n
      BY <1>1, <1>6
    <3>2. n - 1 \in S
      BY <2>5, <3>1
    <3> QED BY <3>1, <3>2
  <2>7. off \in [0..n -> Nat]
    <3>1. \A i \in 0..n : off[i] \in Nat
      BY <2>6, <2>o, <1>1
    <3> QED BY <3>1 DEF off
  <2>8. Offsets(rs, off)
    BY <2>1, <2>6, <2>7, <2>o, <1>1, <1>6 DEF Offsets
  <2> QED BY <2>8
<1> QED BY <1>5, <1>6

-----------------------------------------------------------------------------
(* Records.                                                                *)

\* The fields of the transport state.
LEMMA IoFields ==
    ASSUME NEW st \in IoStates
    PROVE  /\ st.buf \in Seq(1..Len(input))
           /\ st.pending_continue \in 0..2
           /\ st.body_finished \in BOOLEAN
           /\ st.body_generation \in 0..MaxReq
BY DEF IoStates, CLen

\* The transport with another buffer.
LEMMA IoBuf ==
    ASSUME NEW st \in IoStates, NEW b \in Seq(1..Len(input))
    PROVE  LET s == [st EXCEPT !.buf = b] IN
           /\ s \in IoStates /\ s.buf = b
           /\ s.pending_continue = st.pending_continue
           /\ s.body_finished = st.body_finished
           /\ s.body_generation = st.body_generation
BY DEF IoStates

\* The transport with another amount of the 100 Continue owed.
LEMMA IoPending ==
    ASSUME NEW st \in IoStates, NEW n \in 0..CLen
    PROVE  LET s == [st EXCEPT !.pending_continue = n] IN
           /\ s \in IoStates /\ s.pending_continue = n
           /\ s.buf = st.buf
           /\ s.body_finished = st.body_finished
           /\ s.body_generation = st.body_generation
BY DEF IoStates

\* body_finished changes only the signal.
LEMMA IoFinished ==
    ASSUME NEW st \in IoStates, NEW gen
    PROVE  LET s == body_finished(st, gen) IN
           /\ s \in IoStates
           /\ s.buf = st.buf
           /\ s.pending_continue = st.pending_continue
           /\ s.body_generation = st.body_generation
<1>1. [st EXCEPT !.body_finished = TRUE] \in IoStates
  BY DEF IoStates
<1>2. LET s == [st EXCEPT !.body_finished = TRUE] IN
      /\ s.buf = st.buf
      /\ s.pending_continue = st.pending_continue
      /\ s.body_generation = st.body_generation
  BY DEF IoStates
<1> QED BY <1>1, <1>2 DEF body_finished

\* So does the drop of a Body.
LEMMA IoAfterDrop ==
    ASSUME NEW st \in IoStates, NEW b
    PROVE  LET s == AfterDrop(st, b) IN
           /\ s \in IoStates
           /\ s.buf = st.buf
           /\ s.pending_continue = st.pending_continue
           /\ s.body_generation = st.body_generation
BY IoFinished DEF AfterDrop

\* The fields of a Body.
LEMMA BodyFields ==
    ASSUME NEW b \in Bodies
    PROVE  /\ b.owner \in Owners /\ b.kind \in {"none", "length", "chunked"}
           /\ b.remaining \in Nat /\ b.buffered \in Seq(1..Len(input))
           /\ b.done \in BOOLEAN /\ b.continue_sent \in BOOLEAN
           /\ b.generation \in 0..MaxReq
BY DEF Bodies

\* A Body with another holder.
LEMMA BodyOwner ==
    ASSUME NEW b \in Bodies, NEW o \in Owners
    PROVE  LET c == [b EXCEPT !.owner = o] IN
           /\ c \in Bodies /\ c.owner = o /\ c.kind = b.kind
           /\ c.remaining = b.remaining /\ c.buffered = b.buffered
           /\ c.done = b.done /\ c.continue_sent = b.continue_sent
           /\ c.generation = b.generation
BY DEF Bodies

\* A Body that is done.
LEMMA BodyDone ==
    ASSUME NEW b \in Bodies
    PROVE  LET c == [b EXCEPT !.done = TRUE] IN
           /\ c \in Bodies /\ c.owner = b.owner /\ c.kind = b.kind
           /\ c.remaining = b.remaining /\ c.buffered = b.buffered
           /\ c.done = TRUE /\ c.continue_sent = b.continue_sent
           /\ c.generation = b.generation
BY DEF Bodies

\* A Body with another buffer of its own.
LEMMA BodyBuffered ==
    ASSUME NEW b \in Bodies, NEW s \in Seq(1..Len(input))
    PROVE  LET c == [b EXCEPT !.buffered = s] IN
           /\ c \in Bodies /\ c.owner = b.owner /\ c.kind = b.kind
           /\ c.remaining = b.remaining /\ c.buffered = s
           /\ c.done = b.done /\ c.continue_sent = b.continue_sent
           /\ c.generation = b.generation
BY DEF Bodies

\* A Body that has begun to read.
LEMMA BodyBegun ==
    ASSUME NEW b \in Bodies
    PROVE  LET c == Begun(b) IN
           /\ c \in Bodies /\ c.owner = b.owner /\ c.kind = b.kind
           /\ c.remaining = b.remaining /\ c.buffered = b.buffered
           /\ c.done = b.done /\ c.generation = b.generation
BY DEF Bodies, Begun

\* A Body that has read n units of what it is owed.
LEMMA BodyAdvanced ==
    ASSUME NEW b \in Bodies, NEW n \in Nat, n <= b.remaining
    PROVE  LET c == Advanced(b, n) IN
           /\ c \in Bodies /\ c.owner = b.owner /\ c.kind = b.kind
           /\ c.remaining = b.remaining - n /\ c.buffered = b.buffered
           /\ c.done = b.done /\ c.generation = b.generation
<1> DEFINE d == Begun(b)
<1>1. /\ d \in Bodies /\ d.owner = b.owner /\ d.kind = b.kind
      /\ d.remaining = b.remaining /\ d.buffered = b.buffered
      /\ d.done = b.done /\ d.generation = b.generation
  BY BodyBegun
<1>2. b.remaining - n \in Nat
  BY BodyFields
<1> HIDE DEF d
<1>3. LET c == [d EXCEPT !.remaining = d.remaining - n] IN
      /\ c \in Bodies /\ c.owner = d.owner /\ c.kind = d.kind
      /\ c.remaining = d.remaining - n /\ c.buffered = d.buffered
      /\ c.done = d.done /\ c.generation = d.generation
  BY <1>1, <1>2 DEF Bodies
<1>4. Advanced(b, n) = [d EXCEPT !.remaining = d.remaining - n]
  BY DEF Advanced, d
<1> QED BY <1>1, <1>3, <1>4

\* A Body whose own buffer is emptied.
LEMMA BodyEmptied ==
    ASSUME NEW b \in Bodies
    PROVE  LET c == Emptied(b) IN
           /\ c \in Bodies /\ c.owner = b.owner /\ c.kind = b.kind
           /\ c.remaining = b.remaining /\ c.buffered = <<>>
           /\ c.done = b.done /\ c.generation = b.generation
<1>1. <<>> \in Seq(1..Len(input))
  BY EmptySeq
<1> QED BY <1>1, BodyBuffered DEF Emptied

\* A Body that is dropped.
LEMMA BodyDropped ==
    ASSUME NEW b \in Bodies
    PROVE  LET c == Dropped(b) IN
           /\ c \in Bodies /\ c.owner = "dropped" /\ c.kind = b.kind
           /\ c.remaining = b.remaining
           /\ c.done = b.done /\ c.generation = b.generation
<1>1. "dropped" \in Owners
  BY DEF Owners
<1> QED BY <1>1, BodyEmptied, BodyOwner DEF Dropped

-----------------------------------------------------------------------------
(* Buffers.                                                                *)

\* What a prefix dropped from a buffer leaves.
LEMMA SuffixOf ==
    ASSUME NEW S, NEW b \in Seq(S), NEW n \in 0..Len(b)
    PROVE  /\ SubSeq(b, n + 1, Len(b)) \in Seq(S)
           /\ Len(SubSeq(b, n + 1, Len(b))) = Len(b) - n
           /\ \A k \in 1..(Len(b) - n) : SubSeq(b, n + 1, Len(b))[k] = b[n + k]
<1>1. Len(b) \in Nat /\ n \in Nat
  OBVIOUS
<1>2. \A k \in (n + 1)..Len(b) : b[k] \in S
  <2> TAKE k \in (n + 1)..Len(b)
  <2>1. k \in 1..Len(b)
    BY <1>1
  <2> QED BY <2>1, ElementOfSeq
<1>3. n + 1 \in Int /\ Len(b) \in Int /\ Len(b) - (n + 1) + 1 = Len(b) - n
  BY <1>1
<1>4. /\ SubSeq(b, n + 1, Len(b)) \in Seq(S)
      /\ Len(SubSeq(b, n + 1, Len(b))) = IF n + 1 <= Len(b) THEN Len(b) - (n + 1) + 1 ELSE 0
      /\ \A k \in 1..(Len(b) - (n + 1) + 1) : SubSeq(b, n + 1, Len(b))[k] = b[(n + 1) + k - 1]
  BY <1>2, <1>3, SubSeqProperties
<1>5. \A k \in 1..(Len(b) - n) : (n + 1) + k - 1 = n + k
  BY <1>1
<1>6. Len(SubSeq(b, n + 1, Len(b))) = Len(b) - n
  BY <1>1, <1>4
<1> QED BY <1>3, <1>4, <1>5, <1>6

\* What is cut off the front of a buffer.
LEMMA PrefixOf ==
    ASSUME NEW S, NEW b \in Seq(S), NEW n \in 0..Len(b)
    PROVE  /\ SubSeq(b, 1, n) \in Seq(S)
           /\ Len(SubSeq(b, 1, n)) = n
           /\ \A k \in 1..n : SubSeq(b, 1, n)[k] = b[k]
<1>1. Len(b) \in Nat /\ n \in Nat
  OBVIOUS
<1>2. \A k \in 1..n : b[k] \in S
  <2> TAKE k \in 1..n
  <2>1. k \in 1..Len(b)
    BY <1>1
  <2> QED BY <2>1, ElementOfSeq
<1>3. 1 \in Int /\ n \in Int /\ n - 1 + 1 = n
  BY <1>1
<1>4. /\ SubSeq(b, 1, n) \in Seq(S)
      /\ Len(SubSeq(b, 1, n)) = IF 1 <= n THEN n - 1 + 1 ELSE 0
      /\ \A k \in 1..(n - 1 + 1) : SubSeq(b, 1, n)[k] = b[1 + k - 1]
  BY <1>2, <1>3, SubSeqProperties
<1>5. \A k \in 1..n : 1 + k - 1 = k
  BY <1>1
<1> QED BY <1>1, <1>3, <1>4, <1>5

\* What the CHOOSE in StripBlank stands for.
LEMMA StripIs ==
    ASSUME NEW S, NEW b \in Seq(S)
    PROVE  \E n \in 0..Len(b) :
               /\ StripBlank(b) = SubSeq(b, n + 1, Len(b))
               /\ \A j \in 1..n : IsBlank(b[j])
               /\ n = Len(b) \/ ~IsBlank(b[n + 1])
<1> DEFINE Q(n) == /\ \A j \in 1..n : IsBlank(b[j])
                   /\ n = Len(b) \/ ~IsBlank(b[n + 1])
           T == {n \in 0..Len(b) : n = Len(b) \/ ~IsBlank(b[n + 1])}
<1>1. Len(b) \in Nat
  OBVIOUS
<1>2. Len(b) \in T /\ T \subseteq Nat
  BY <1>1
<1>3. PICK n \in T : \A m \in T : n <= m
  <2> HIDE DEF T
  <2> QED BY <1>2, Least
<1>4. \A j \in 1..n : IsBlank(b[j])
  <2> SUFFICES ASSUME NEW j \in 1..n, ~IsBlank(b[j]) PROVE FALSE
    OBVIOUS
  <2>1. j - 1 \in 0..Len(b) /\ (j - 1) + 1 = j /\ ~(n <= j - 1)
    BY <1>1
  <2>2. j - 1 \in T
    BY <2>1
  <2> HIDE DEF T
  <2> QED BY <1>3, <2>1, <2>2
<1>5. n \in 0..Len(b) /\ Q(n)
  BY <1>4
<1> DEFINE c == CHOOSE m \in 0..Len(b) : Q(m)
<1>6. c \in 0..Len(b) /\ Q(c)
  <2> HIDE DEF Q
  <2> QED BY <1>5
<1>7. StripBlank(b) = SubSeq(b, c + 1, Len(b))
  BY DEF StripBlank
<1> HIDE DEF c
<1> QED BY <1>6, <1>7

\* What a read of the transport returns.
LEMMA FreshIs ==
    ASSUME NEW k \in Nat, pos \in Nat, Len(input) \in Nat, pos + k <= Len(input)
    PROVE  /\ Fresh(k) \in Seq(1..Len(input))
           /\ Len(Fresh(k)) = k
           /\ \A j \in 1..k : Fresh(k)[j] = pos + j
<1>1. \A j \in 1..k : pos + j \in 1..Len(input)
  OBVIOUS
<1> QED BY <1>1 DEF Fresh

\* Two buffers joined.
LEMMA ConcatIs ==
    ASSUME NEW S, NEW s \in Seq(S), NEW t \in Seq(S)
    PROVE  /\ s \o t \in Seq(S)
           /\ Len(s \o t) = Len(s) + Len(t)
           /\ \A k \in 1..Len(s) : (s \o t)[k] = s[k]
           /\ \A k \in 1..Len(t) : (s \o t)[Len(s) + k] = t[k]
OBVIOUS

\* StripBlank returns a buffer.
LEMMA StripTyped ==
    ASSUME NEW S, NEW b \in Seq(S)
    PROVE  StripBlank(b) \in Seq(S)
<1>1. PICK n \in 0..Len(b) : StripBlank(b) = SubSeq(b, n + 1, Len(b))
  BY StripIs
<1> QED BY <1>1, SuffixOf

\* What a poll takes from the buffers, and what it leaves.
LEMMA TakenIs ==
    ASSUME NEW b \in Bodies, NEW st \in IoStates
    PROVE  /\ Taken(b, st) \in Seq(1..Len(input))
           /\ LeftInBuf(b, st) \in Seq(1..Len(input))
           /\ b.buffered # <<>> => Taken(b, st) = b.buffered /\ LeftInBuf(b, st) = st.buf
           /\ b.buffered = <<>> =>
                  \E n \in 0..Len(st.buf) :
                      /\ Taken(b, st) = SubSeq(st.buf, 1, n)
                      /\ LeftInBuf(b, st) = SubSeq(st.buf, n + 1, Len(st.buf))
                      /\ n = IF b.kind = "length"
                             THEN IF Len(st.buf) < b.remaining THEN Len(st.buf) ELSE b.remaining
                             ELSE Len(st.buf)
<1>1. /\ b.buffered \in Seq(1..Len(input)) /\ b.remaining \in Nat
      /\ st.buf \in Seq(1..Len(input)) /\ Len(st.buf) \in Nat
  BY BodyFields, IoFields
<1>2. CASE b.buffered # <<>>
  BY <1>1, <1>2 DEF Taken, LeftInBuf
<1>3. CASE b.buffered = <<>>
  <2> DEFINE n == IF b.kind = "length"
                  THEN IF Len(st.buf) < b.remaining THEN Len(st.buf) ELSE b.remaining
                  ELSE Len(st.buf)
  <2>1. n \in 0..Len(st.buf)
    BY <1>1
  <2>2. Taken(b, st) = SubSeq(st.buf, 1, n)
    <3>1. CASE b.kind = "length"
      BY <3>1, <1>3 DEF Taken
    <3>2. CASE b.kind # "length"
      BY <3>2, <1>1, <1>3, SubSeqFull DEF Taken
    <3> QED BY <3>1, <3>2
  <2> HIDE DEF n
  <2>3. SubSeq(st.buf, 1, n) \in Seq(1..Len(input)) /\ Len(SubSeq(st.buf, 1, n)) = n
    BY <1>1, <2>1, PrefixOf
  <2>4. LeftInBuf(b, st) = SubSeq(st.buf, n + 1, Len(st.buf))
    BY <1>3, <2>2, <2>3 DEF LeftInBuf
  <2>5. SubSeq(st.buf, n + 1, Len(st.buf)) \in Seq(1..Len(input))
    BY <1>1, <2>1, SuffixOf
  <2> QED BY <1>3, <2>1, <2>2, <2>3, <2>4, <2>5 DEF n
<1> QED BY <1>2, <1>3

-----------------------------------------------------------------------------
(* What the steps of a Body and of its holders do.                         *)

Typed == io \in IoStates /\ body \in [Ids -> Bodies] /\ conn \in Flags

\* The flags of the loop.
LEMMA FlagFields ==
    ASSUME NEW c \in Flags
    PROVE  c.body_read \in BOOLEAN /\ c.started \in BOOLEAN /\ c.broken \in BOOLEAN
BY DEF Flags

\* Body i replaced by c.
LEMMA BodyReplaced ==
    ASSUME body \in [Ids -> Bodies], NEW i \in Ids, NEW c \in Bodies,
           body' = [body EXCEPT ![i] = c]
    PROVE  /\ body' \in [Ids -> Bodies] /\ body'[i] = c
           /\ \A j \in Ids \ {i} : body'[j] = body[j]
OBVIOUS

\* The transport keeps its bytes and what it owes.
IoKept ==
    /\ io' \in IoStates
    /\ io'.buf = io.buf
    /\ io'.pending_continue = io.pending_continue
    /\ io'.body_generation = io.body_generation

\* The Bodies in D are dropped, and no other changes.
Dropping(D) ==
    /\ IoKept
    /\ body' \in [Ids -> Bodies]
    /\ \A j \in Ids \ D : body'[j] = body[j]
    /\ \A j \in D : /\ body'[j].owner = "dropped"
                    /\ body'[j].done = body[j].done
                    /\ body'[j].generation = body[j].generation

\* The drop of Body i.
LEMMA DropsOne ==
    ASSUME Typed, NEW i \in Ids,
           body' = [body EXCEPT ![i] = Dropped(body[i])], io' = AfterDrop(io, body[i])
    PROVE  Dropping({i})
<1>1. body[i] \in Bodies
  BY DEF Typed
<1>2. /\ Dropped(body[i]) \in Bodies /\ Dropped(body[i]).owner = "dropped"
      /\ Dropped(body[i]).done = body[i].done
      /\ Dropped(body[i]).generation = body[i].generation
  BY <1>1, BodyDropped
<1>3. /\ body' \in [Ids -> Bodies] /\ body'[i] = Dropped(body[i])
      /\ \A j \in Ids \ {i} : body'[j] = body[j]
  BY <1>2, BodyReplaced DEF Typed
<1>4. IoKept
  BY IoAfterDrop DEF Typed, IoKept
<1> QED BY <1>2, <1>3, <1>4 DEF Dropping

\* Nothing dropped.
LEMMA DropsNone ==
    ASSUME Typed, body' = body, io' = io
    PROVE  Dropping({})
BY DEF Typed, Dropping, IoKept

\* The Body the loop drives, if its holder is one of `holders`.
Driven(holders) == {j \in {cur} : body[j].owner \in holders}

\* The handler goes with the Body it holds.
LEMMA HandlerGoneDrops ==
    ASSUME Typed, cur \in Ids, HandlerGone(io, body)
    PROVE  Dropping(Driven({"handler"}))
<1>1. CASE body[cur].owner = "handler"
  <2>1. Driven({"handler"}) = {cur}
    BY <1>1 DEF Driven
  <2>2. body' = [body EXCEPT ![cur] = Dropped(body[cur])] /\ io' = AfterDrop(io, body[cur])
    BY <1>1 DEF HandlerGone
  <2> QED BY <2>1, <2>2, DropsOne
<1>2. CASE body[cur].owner # "handler"
  <2>1. Driven({"handler"}) = {}
    BY <1>2 DEF Driven
  <2>2. body' = body /\ io' = io
    BY <1>2 DEF HandlerGone
  <2> QED BY <2>1, <2>2, DropsNone
<1> QED BY <1>1, <1>2

\* So does a response stream.
LEMMA StreamGoneDrops ==
    ASSUME Typed, cur \in Ids, StreamGone
    PROVE  Dropping(Driven({"stream"}))
<1>1. CASE body[cur].owner = "stream"
  <2>1. Driven({"stream"}) = {cur}
    BY <1>1 DEF Driven
  <2>2. body' = [body EXCEPT ![cur] = Dropped(body[cur])] /\ io' = AfterDrop(io, body[cur])
    BY <1>1 DEF StreamGone
  <2> QED BY <2>1, <2>2, DropsOne
<1>2. CASE body[cur].owner # "stream"
  <2>1. Driven({"stream"}) = {}
    BY <1>2 DEF Driven
  <2>2. body' = body /\ io' = io
    BY <1>2 DEF StreamGone
  <2> QED BY <2>1, <2>2, DropsNone
<1> QED BY <1>1, <1>2

\* And the loop with either.
LEMMA LoopGoneDrops ==
    ASSUME Typed, cur \in Ids, LoopGone
    PROVE  Dropping(Driven({"handler", "stream"}))
<1>1. CASE body[cur].owner \in {"handler", "stream"}
  <2>1. Driven({"handler", "stream"}) = {cur}
    BY <1>1 DEF Driven
  <2>2. body' = [body EXCEPT ![cur] = Dropped(body[cur])] /\ io' = AfterDrop(io, body[cur])
    BY <1>1 DEF LoopGone
  <2> QED BY <2>1, <2>2, DropsOne
<1>2. CASE body[cur].owner \notin {"handler", "stream"}
  <2>1. Driven({"handler", "stream"}) = {}
    BY <1>2 DEF Driven
  <2>2. body' = body /\ io' = io
    BY <1>2 DEF LoopGone
  <2> QED BY <2>1, <2>2, DropsNone
<1> QED BY <1>1, <1>2

\* poll_chunk with `got` at hand: how much it uses, what is left, whether it
\* ends the body, and whether it is data at all.
UsedOf(b, got) == IF b.kind = "length" THEN Due(b, got) ELSE 1
LeftOf(b, got) == SubSeq(got, UsedOf(b, got) + 1, Len(got))
EndsIt(b, got) == \/ b.kind = "length" /\ Due(b, got) >= b.remaining
                  \/ b.kind = "chunked" /\ Part(got[1]) = "e"
IsData(b, got) == b.kind = "length" \/ Part(got[1]) = "b"

\* Only Body i changes, and not who holds it or which request it is of.
OfBody(i) ==
    /\ io' \in IoStates /\ body' \in [Ids -> Bodies] /\ conn' \in Flags
    /\ io'.pending_continue = io.pending_continue
    /\ io'.body_generation = io.body_generation
    /\ \A j \in Ids \ {i} : body'[j] = body[j]
    /\ body'[i].owner = body[i].owner /\ body'[i].generation = body[i].generation
    /\ body'[i].kind = body[i].kind

Ending(i, left, st) ==
    /\ body'[i].done /\ conn'.body_read /\ conn'.broken = conn.broken
    /\ io'.buf = left \o st.buf

Continuing(i, n, left, st) ==
    /\ body'[i].done = body[i].done /\ conn' = conn
    /\ body'[i].remaining = body[i].remaining - n /\ body'[i].buffered = left
    /\ io'.buf = st.buf

Failing(i, st) ==
    /\ body'[i].done /\ ~conn'.body_read /\ (conn.broken => conn'.broken)
    /\ io'.buf = st.buf

\* A Body that fails.
LEMMA FailFails ==
    ASSUME Typed, NEW i \in Ids, NEW st \in IoStates,
           st.pending_continue = io.pending_continue,
           st.body_generation = io.body_generation,
           body' = [body EXCEPT ![i] = [body[i] EXCEPT !.done = TRUE]],
           io' = body_finished(st, body[i].generation),
           conn' \in Flags, ~conn'.body_read, conn.broken => conn'.broken
    PROVE  OfBody(i) /\ Failing(i, st)
<1> DEFINE c == [body[i] EXCEPT !.done = TRUE]
<1>1. body[i] \in Bodies
  BY DEF Typed
<1>2. /\ c \in Bodies /\ c.owner = body[i].owner /\ c.kind = body[i].kind
      /\ c.done = TRUE /\ c.generation = body[i].generation
  BY <1>1, BodyDone
<1> HIDE DEF c
<1>3. /\ body' \in [Ids -> Bodies] /\ body'[i] = c
      /\ \A j \in Ids \ {i} : body'[j] = body[j]
  BY <1>2, BodyReplaced DEF Typed, c
<1>4. /\ io' \in IoStates /\ io'.buf = st.buf
      /\ io'.pending_continue = st.pending_continue
      /\ io'.body_generation = st.body_generation
  BY IoFinished
<1> QED BY <1>2, <1>3, <1>4 DEF OfBody, Failing

\* Body::fail.
LEMMA FailEffect ==
    ASSUME Typed, NEW i \in Ids, NEW st \in IoStates,
           st.pending_continue = io.pending_continue,
           st.body_generation = io.body_generation, Fail(i, st)
    PROVE  OfBody(i) /\ Failing(i, st) /\ conn'.broken = conn.broken
<1>1. conn' = [conn EXCEPT !.body_read = FALSE]
  BY DEF Fail, FailRead
<1>2. conn' \in Flags /\ ~conn'.body_read /\ conn'.broken = conn.broken
  BY <1>1 DEF Typed, Flags
<1>3. /\ body' = [body EXCEPT ![i] = [body[i] EXCEPT !.done = TRUE]]
      /\ io' = body_finished(st, body[i].generation)
  BY DEF Fail
<1> QED BY <1>2, <1>3, FailFails

\* What a poll uses is at hand and owed.
LEMMA DueIs ==
    ASSUME NEW b \in Bodies, NEW got \in Seq(1..Len(input))
    PROVE  /\ Due(b, got) \in Nat /\ Due(b, got) <= b.remaining /\ Due(b, got) <= Len(got)
           /\ got # <<>> => UsedOf(b, got) \in 0..Len(got)
           /\ got # <<>> => LeftOf(b, got) \in Seq(1..Len(input))
<1>1. b.remaining \in Nat /\ Len(got) \in Nat /\ (got # <<>> => Len(got) > 0)
  BY BodyFields, EmptySeq
<1>2. Due(b, got) \in Nat /\ Due(b, got) <= b.remaining /\ Due(b, got) <= Len(got)
  BY <1>1 DEF Due
<1>3. got # <<>> => UsedOf(b, got) \in 0..Len(got)
  BY <1>1, <1>2 DEF UsedOf
<1> QED BY <1>2, <1>3, SuffixOf DEF LeftOf

\* Body::finish.
LEMMA FinishEffect ==
    ASSUME Typed, NEW i \in Ids, NEW c \in Bodies, NEW st \in IoStates,
           st.pending_continue = io.pending_continue,
           st.body_generation = io.body_generation,
           c.owner = body[i].owner, c.generation = body[i].generation, c.kind = body[i].kind,
           Finish(i, c, st)
    PROVE  OfBody(i) /\ body'[i].done /\ conn'.body_read /\ conn'.broken = conn.broken
           /\ io'.buf = st.buf
<1> DEFINE e == Emptied(c)
           d == [e EXCEPT !.done = TRUE]
<1>1. e \in Bodies /\ e.owner = c.owner /\ e.kind = c.kind /\ e.generation = c.generation
  BY BodyEmptied
<1> HIDE DEF e
<1>2. /\ d \in Bodies /\ d.owner = e.owner /\ d.kind = e.kind
      /\ d.done = TRUE /\ d.generation = e.generation
  BY <1>1, BodyDone
<1>3. body' = [body EXCEPT ![i] = d]
  BY DEF Finish, d, e
<1> HIDE DEF d
<1>4. /\ body' \in [Ids -> Bodies] /\ body'[i] = d
      /\ \A j \in Ids \ {i} : body'[j] = body[j]
  BY <1>2, <1>3, BodyReplaced DEF Typed
<1>5. /\ io' \in IoStates /\ io'.buf = st.buf
      /\ io'.pending_continue = st.pending_continue
      /\ io'.body_generation = st.body_generation
  BY IoFinished DEF Finish
<1>6. conn' = [conn EXCEPT !.body_read = TRUE]
  BY DEF Finish
<1>7. conn' \in Flags /\ conn'.body_read /\ conn'.broken = conn.broken
  BY <1>6 DEF Typed, Flags
<1> QED BY <1>1, <1>2, <1>4, <1>5, <1>7 DEF OfBody

\* poll_chunk with bytes at hand: the body ends, goes on, or fails.
LEMMA ConsumeEffect ==
    ASSUME Typed, NEW i \in Ids, NEW got \in Seq(1..Len(input)), got # <<>>,
           NEW st \in IoStates, NEW over \in BOOLEAN,
           st.pending_continue = io.pending_continue,
           st.body_generation = io.body_generation, Consume(i, got, st, over)
    PROVE  LET b == body[i] IN
           /\ OfBody(i)
           /\ \/ EndsIt(b, got) /\ Ending(i, LeftOf(b, got), st)
              \/ /\ ~EndsIt(b, got) /\ IsData(b, got)
                 /\ Continuing(i, Due(b, got), LeftOf(b, got), st)
              \/ ~EndsIt(b, got) /\ Failing(i, st) /\ conn'.broken = conn.broken
<1> DEFINE b == body[i]
           n == Due(b, got)
           left == LeftOf(b, got)
           c == Advanced(b, n)
<1>1. b \in Bodies
  BY DEF Typed
<1>2. n \in Nat /\ n <= b.remaining /\ left \in Seq(1..Len(input))
  BY <1>1, DueIs
<1>3. /\ c \in Bodies /\ c.owner = b.owner /\ c.kind = b.kind
      /\ c.remaining = b.remaining - n /\ c.buffered = b.buffered
      /\ c.done = b.done /\ c.generation = b.generation
  BY <1>1, <1>2, BodyAdvanced
<1>4. CASE EndsIt(b, got)
  <2>1. Finish(i, c, push_back(st, left))
    BY <1>4 DEF Consume, EndsIt, LeftOf, UsedOf
  <2> DEFINE s == push_back(st, left)
  <2>2. st.buf \in Seq(1..Len(input))
    BY IoFields
  <2>3. left \o st.buf \in Seq(1..Len(input))
    BY <1>2, <2>2, ConcatProperties
  <2>4. /\ s \in IoStates /\ s.buf = left \o st.buf
        /\ s.pending_continue = st.pending_continue
        /\ s.body_generation = st.body_generation
    BY <2>3, IoBuf DEF push_back
  <2> HIDE DEF s, c, n, left
  <2>5. Finish(i, c, s)
    BY <2>1 DEF s
  <2>6. OfBody(i) /\ body'[i].done /\ conn'.body_read /\ conn'.broken = conn.broken
        /\ io'.buf = s.buf
    BY <1>3, <2>4, <2>5, FinishEffect
  <2> QED BY <1>4, <2>4, <2>6 DEF Ending, left
<1>5. CASE ~EndsIt(b, got) /\ IsData(b, got) /\ ~over
  <2> DEFINE d == [c EXCEPT !.buffered = left]
  <2>1. body' = [body EXCEPT ![i] = d] /\ io' = st /\ conn' = conn
    BY <1>5 DEF Consume, EndsIt, IsData, LeftOf, UsedOf
  <2> HIDE DEF c, n, left
  <2>2. /\ d \in Bodies /\ d.owner = c.owner /\ d.kind = c.kind
        /\ d.remaining = c.remaining /\ d.buffered = left
        /\ d.done = c.done /\ d.generation = c.generation
    BY <1>2, <1>3, BodyBuffered
  <2> HIDE DEF d
  <2>3. /\ body' \in [Ids -> Bodies] /\ body'[i] = d
        /\ \A j \in Ids \ {i} : body'[j] = body[j]
    BY <2>1, <2>2, BodyReplaced DEF Typed
  <2>4. OfBody(i)
    BY <1>3, <2>1, <2>2, <2>3 DEF OfBody, Typed
  <2>5. Continuing(i, n, left, st)
    BY <1>3, <2>1, <2>2, <2>3 DEF Continuing
  <2> QED BY <1>5, <2>4, <2>5 DEF n, left
<1>6. CASE ~EndsIt(b, got) /\ (~IsData(b, got) \/ over)
  <2>1. Fail(i, st)
    BY <1>6 DEF Consume, EndsIt, IsData
  <2> QED BY <1>6, <2>1, FailEffect
<1> QED BY <1>4, <1>5, <1>6

-----------------------------------------------------------------------------
(* The inductive invariant.                                                *)

\* The label a flush or a settle_continue is on the way to, or pc itself.
Where == IF pc \in {"flush", "settle"} THEN ret ELSE pc

HeadPhase     == {"head", "reading", "split"}
HandlerPhase  == {"poll1", "handler"}
StreamPhase   == {"stream", "streamwait"}
ResponsePhase == StreamPhase \cup {"compose", "finish", "return"}

Undone(i) == Live(body[i]) /\ ~body[i].done
Expects(i) == reqs[i].expect /\ ~reqs[i].http10
Reused == resp.keep_alive \/ resp.upgrading

\* Where serve is, and whose request it serves.
Control ==
    /\ pc = "flush" => ret \in {"head", "handler", "stream", "streamwait", "return", "closed"}
    /\ pc = "settle" => ret \in {"error", "compose"}
    /\ cur \in {io.body_generation, io.body_generation + 1}
    /\ io.body_generation <= Len(reqs)
    /\ cur # io.body_generation => Where \in {"error", "closed"}
    /\ cur = 0 => pc \in HeadPhase \cup Ended
    /\ Where \in ResponsePhase =>
           /\ resp.streams => ~resp.upgrading
           /\ resp.unframed => ~Reused
    /\ Where \in StreamPhase => resp.streams
    /\ Where \in ResponsePhase /\ resp.upgrading => reqs[cur].upgrade
    /\ pc = "upgraded" => reqs[cur].upgrade

\* Who holds which Body.
Custody ==
    \A i \in Ids :
        /\ i > io.body_generation => body[i].owner = "none"
        /\ i <= io.body_generation => body[i].generation = i
        /\ body[i].owner = "handler" => i = cur /\ Where \in HandlerPhase
        /\ body[i].owner = "stream" => i = cur /\ Where \in ResponsePhase

\* Which Body may still read: the current one, until it has published its end,
\* without which the connection is neither reused nor handed off.
Reading ==
    /\ \A i \in Ids : Undone(i) => i = cur /\ cur = io.body_generation
    /\ conn.body_read /\ cur = io.body_generation => cur > 0 /\ body[cur].done
    /\ Where \in HeadPhase => cur = 0 \/ conn.body_read
    /\ Where \in ResponsePhase /\ Reused => conn.body_read
    /\ pc = "upgraded" => cur > 0 /\ conn.body_read

\* All that was composed, in the order it is written.
Output == wire \o held \o out
Tip(w) == IF w = <<>> THEN <<0, "z">> ELSE w[Len(w)]

\* Where output may wait.
Waiting ==
    /\ held # <<>> => pc = "poll1"
    /\ out # <<>> => pc \notin {"reading", "poll1", "handler", "streamwait"} \cup Ended
    /\ pc = "return" /\ (resp.upgrading \/ ~resp.keep_alive) => out = <<>>
    /\ cur = 0 => out = <<>>

\* The 100 Continue still owed.
Owing ==
    io.pending_continue > 0 =>
        /\ cur > 0 /\ cur = io.body_generation /\ Expects(cur)
        /\ \/ pc \in {"handler", "settle", "closed", "panicked"} /\ out = <<>>
           \/ /\ pc = "flush" /\ ret = "handler"
              /\ io.pending_continue = CLen
              /\ body[cur].owner = "handler"

BeforeResponse(n, t) ==
    CASE n = CLen -> t = <<cur - 1, "z">>
      [] n = 1 -> t = <<cur, "c1">>
      [] OTHER -> t \in {<<cur - 1, "z">>, <<cur, "c2">>}

\* What the output ends with.
Tips ==
    LET t == Tip(Output) IN
    /\ Where \in HeadPhase => t = <<cur, "z">>
    /\ pc = "poll1" \/ (pc = "flush" /\ ret = "handler") => t = <<cur - 1, "z">>
    /\ pc \in {"handler", "settle", "compose", "error"} => BeforeResponse(io.pending_continue, t)
    /\ pc \in Ended /\ io.pending_continue > 0 /\ Undone(cur) =>
           BeforeResponse(io.pending_continue, t)
    /\ Where \in StreamPhase => t \in {<<cur, "s">>, <<cur, "b">>}
    /\ Where \in {"finish", "return"} /\ Reused => t = <<cur, "z">>
    /\ pc = "upgraded" => t = <<cur, "z">>

Chained(w) ==
    \A k \in 1..Len(w) :
        /\ Follows(IF k = 1 THEN <<0, "z">> ELSE w[k - 1], w[k])
        /\ w[k][2] = "c1" => Expects(w[k][1])

\* Which responses are complete.
Answered ==
    /\ Where \in HeadPhase => answered = cur
    /\ Where \in HandlerPhase \cup StreamPhase \cup {"compose", "error"} => answered = cur - 1
    /\ Where \in {"finish", "return"} /\ resp.keep_alive => answered = cur

Complete(n, w) == \A i \in 1..n : <<i, "z">> \in Range(w)

Kept ==
    ~conn.broken =>
        /\ Complete(answered, Output)
        /\ pc \in StreamPhase => Complete(answered, wire)


\* The peer's stream is fixed.
Peer == reqs \in Inputs /\ input = Stream(reqs)

Order == Control /\ Custody /\ Reading
Writes == Waiting /\ Owing /\ Tips /\ Chained(Output) /\ Answered /\ Kept
IInv == Peer /\ TypeOK /\ Order /\ Writes

-----------------------------------------------------------------------------
(* Kinds of step.                                                          *)

\* What the assumption says of the bounds.
LEMMA Constants ==
    /\ MaxReq \in Nat /\ MaxRead \in Nat /\ MaxChunks \in Nat
    /\ \A rs \in Inputs : rs \in Seq(Request) /\ Len(rs) \in Nat /\ Len(rs) < MaxReq
BY ConnectionAssumption

\* The requests and the stream they make.
LEMMA PeerIs ==
    ASSUME Peer
    PROVE  /\ reqs \in Seq(Request) /\ Len(reqs) \in Nat /\ Len(reqs) < MaxReq
           /\ input \in Seq(Units) /\ Len(input) \in Nat
<1>1. reqs \in Seq(Request) /\ Len(reqs) \in Nat /\ Len(reqs) < MaxReq
  BY Constants DEF Peer
<1>2. PICK off : Offsets(reqs, off)
  BY <1>1, StreamIs
<1>3. Stream(reqs) \in Seq(Units)
  BY <1>2 DEF Offsets
<1> QED BY <1>1, <1>3 DEF Peer

\* The part of the type invariant that effects need.
LEMMA TypedIs ==
    ASSUME TypeOK
    PROVE  Typed
BY DEF TypeOK, Typed

\* Bodies are only ever held by fewer and read further.
Quiet ==
    /\ io' \in IoStates /\ body' \in [Ids -> Bodies]
    /\ io'.pending_continue = io.pending_continue
    /\ io'.body_generation = io.body_generation
    /\ \A j \in Ids :
           /\ body'[j].generation = body[j].generation
           /\ body[j].done => body'[j].done
           /\ Live(body'[j]) => Live(body[j])
           /\ body[j].owner = "none" => body'[j].owner = "none"
           /\ body'[j].owner = "handler" => body[j].owner = "handler"
           /\ body'[j].owner = "stream" => body[j].owner = "stream"

\* A step of a Body or of its holder, which leaves the loop where it is.
TaskStep ==
    /\ UNCHANGED bodyUnchanged
    /\ UNCHANGED wire
    /\ pos' \in 0..Len(input)
    /\ Quiet
    /\ conn' \in Flags
    /\ conn.broken => conn'.broken
    /\ conn.body_read /\ cur = io.body_generation => conn'.body_read
    /\ conn'.body_read => conn.body_read \/ (cur > 0 /\ body'[cur].done)
    /\ pc \notin HandlerPhase =>
           \A j \in Ids : body[j].owner = "handler" => body'[j].owner = "handler"

\* Who polls a Body holds it.
LEMMA PollsLive ==
    ASSUME NEW i \in Ids, CanPoll(i)
    PROVE  /\ Live(body[i])
           /\ body[i].owner = "handler" => pc \in HandlerPhase
BY DEF CanPoll, Live, HandlerPhase

\* A poll of an unfinished Body is a step of a task: that Body is the current one.
LEMMA OfBodyStep ==
    ASSUME TypeOK, Order, NEW i \in Ids, CanPoll(i), ~body[i].done, OfBody(i),
           conn.broken => conn'.broken,
           conn'.body_read => conn.body_read \/ body'[i].done,
           pos' \in 0..Len(input), UNCHANGED bodyUnchanged, UNCHANGED wire
    PROVE  TaskStep
<1>1. Live(body[i]) /\ (body[i].owner = "handler" => pc \in HandlerPhase)
  BY PollsLive
<1>2. i = cur /\ cur = io.body_generation /\ cur > 0
  BY <1>1 DEF Order, Reading, Undone, Ids
<1>3. ~conn.body_read
  BY <1>2 DEF Order, Reading
<1>4. Quiet
  <2>1. \A j \in Ids \ {i} : body'[j] = body[j]
    BY DEF OfBody
  <2>2. body'[i].owner = body[i].owner /\ body'[i].generation = body[i].generation
    BY DEF OfBody
  <2> QED BY <2>1, <2>2 DEF OfBody, Quiet, Live
<1>5. pc \notin HandlerPhase =>
           \A j \in Ids : body[j].owner = "handler" => body'[j].owner = "handler"
  BY DEF OfBody
<1> QED BY <1>2, <1>3, <1>4, <1>5 DEF TaskStep, OfBody

\* Drops leave every other Body alone.
LEMMA DroppingIsQuiet ==
    ASSUME NEW D \in SUBSET Ids, Dropping(D), \A j \in D : body[j].owner # "none"
    PROVE  Quiet
<1>1. \A j \in Ids \ D : body'[j] = body[j]
  BY DEF Dropping
<1>2. \A j \in D : /\ body'[j].owner = "dropped" /\ body'[j].done = body[j].done
                   /\ body'[j].generation = body[j].generation
  BY DEF Dropping
<1> QED BY <1>1, <1>2 DEF Dropping, IoKept, Quiet, Live

\* So does a step that touches no Body.
LEMMA SameIsQuiet ==
    ASSUME Typed, body' = body, io' \in IoStates,
           io'.pending_continue = io.pending_continue,
           io'.body_generation = io.body_generation
    PROVE  Quiet
BY DEF Typed, Quiet

\* BodyChunk is a step of a task.
LEMMA BodyChunkStep ==
    ASSUME Peer, TypeOK, Order, NEW i \in Ids, NEW over \in BOOLEAN, BodyChunk(i, over)
    PROVE  TaskStep
<1> DEFINE b == body[i]
           got == Taken(b, io)
           rest == LeftInBuf(b, io)
           st == [io EXCEPT !.buf = rest]
<1>1. Typed /\ b \in Bodies /\ io \in IoStates
  BY TypedIs DEF Typed
<1>2. got \in Seq(1..Len(input)) /\ rest \in Seq(1..Len(input))
  BY <1>1, TakenIs
<1>3. got # <<>> /\ Consume(i, got, st, over) /\ CanPoll(i) /\ ~b.done
  BY DEF BodyChunk, Readable
<1> HIDE DEF got, rest
<1>4. st \in IoStates /\ st.pending_continue = io.pending_continue
      /\ st.body_generation = io.body_generation
  BY <1>1, <1>2, IoBuf
<1> HIDE DEF st
<1>5. /\ OfBody(i) /\ (conn.broken => conn'.broken)
      /\ conn'.body_read => conn.body_read \/ body'[i].done
  BY <1>1, <1>2, <1>3, <1>4, ConsumeEffect DEF Ending, Continuing, Failing
<1>6. pos' \in 0..Len(input) /\ UNCHANGED bodyUnchanged /\ UNCHANGED wire
  BY DEF BodyChunk, TypeOK
<1> QED BY <1>3, <1>5, <1>6, OfBodyStep

\* BodyFill is a step of a task.
LEMMA BodyFillStep ==
    ASSUME Peer, TypeOK, Order, NEW i \in Ids, NEW k \in 1..MaxRead, NEW over \in BOOLEAN,
           BodyFill(i, k, over)
    PROVE  TaskStep
<1>1. Typed /\ io \in IoStates
  BY TypedIs DEF Typed
<1>2. k \in Nat /\ k > 0 /\ pos \in Nat /\ Len(input) \in Nat /\ pos + k <= Len(input)
  BY Constants, PeerIs DEF BodyFill, TypeOK
<1>3. Fresh(k) \in Seq(1..Len(input)) /\ Len(Fresh(k)) = k
  BY <1>2, FreshIs
<1>4. Fresh(k) # <<>>
  BY <1>2, <1>3
<1>5. Consume(i, Fresh(k), io, over) /\ CanPoll(i) /\ ~body[i].done
  BY DEF BodyFill, Readable
<1>6. /\ OfBody(i) /\ (conn.broken => conn'.broken)
      /\ conn'.body_read => conn.body_read \/ body'[i].done
  BY <1>1, <1>3, <1>4, <1>5, ConsumeEffect DEF Ending, Continuing, Failing
<1>7. pos' \in 0..Len(input) /\ UNCHANGED bodyUnchanged /\ UNCHANGED wire
  BY <1>2 DEF BodyFill
<1> QED BY <1>5, <1>6, <1>7, OfBodyStep

\* BodyEof is a step of a task.
LEMMA BodyEofStep ==
    ASSUME Peer, TypeOK, Order, NEW i \in Ids, BodyEof(i)
    PROVE  TaskStep
<1>1. Typed /\ io \in IoStates
  BY TypedIs DEF Typed
<1>2. Fail(i, io) /\ CanPoll(i) /\ ~body[i].done
  BY DEF BodyEof, Readable
<1>3. OfBody(i) /\ Failing(i, io)
  BY <1>1, <1>2, FailEffect
<1>4. pos' \in 0..Len(input) /\ UNCHANGED bodyUnchanged /\ UNCHANGED wire
  BY DEF BodyEof, TypeOK
<1> QED BY <1>2, <1>3, <1>4, OfBodyStep DEF Failing

\* SendContinueFails is a step of a task.
LEMMA SendContinueFailsStep ==
    ASSUME Peer, TypeOK, Order, NEW i \in Ids, SendContinueFails(i)
    PROVE  TaskStep
<1>1. Typed /\ io \in IoStates
  BY TypedIs DEF Typed
<1>2. CanPoll(i) /\ ~body[i].done
  BY DEF SendContinueFails
<1>3. conn' \in Flags /\ ~conn'.body_read /\ conn'.broken
  BY <1>1, FlagFields DEF SendContinueFails, FailRead, Flags, Typed
<1>4. OfBody(i) /\ Failing(i, io)
  BY <1>1, <1>3, FailFails DEF SendContinueFails
<1>5. pos' \in 0..Len(input) /\ UNCHANGED bodyUnchanged /\ UNCHANGED wire
  BY DEF SendContinueFails, TypeOK
<1> QED BY <1>2, <1>3, <1>4, <1>5, OfBodyStep

\* DropBody is a step of a task.
LEMMA DropBodyStep ==
    ASSUME Peer, TypeOK, Order, NEW i \in Ids, DropBody(i)
    PROVE  TaskStep
<1>1. Typed
  BY TypedIs
<1>2. Dropping({i})
  BY <1>1, DropsOne DEF DropBody
<1>3. Live(body[i]) /\ (body[i].owner = "handler" => pc \in HandlerPhase)
  BY PollsLive DEF DropBody
<1>4. Quiet
  BY <1>2, <1>3, DroppingIsQuiet DEF Live
<1>5. \A j \in Ids \ {i} : body'[j] = body[j]
  BY <1>2 DEF Dropping
<1>6. conn' = conn /\ conn' \in Flags /\ pos' \in 0..Len(input)
  BY DEF DropBody, TypeOK
<1>7. UNCHANGED bodyUnchanged /\ UNCHANGED wire
  BY DEF DropBody
<1> QED BY <1>3, <1>4, <1>5, <1>6, <1>7 DEF TaskStep

\* StashBody is a step of a task.
LEMMA StashBodyStep ==
    ASSUME Peer, TypeOK, Order, StashBody
    PROVE  TaskStep
<1>1. Typed /\ pc \in HandlerPhase
  BY TypedIs DEF StashBody, HandlerPhase
<1>2. cur \in Ids
  <2>1. cur # 0
    BY <1>1 DEF Order, Control, HandlerPhase, HeadPhase, Ended
  <2> QED BY <2>1, Constants DEF TypeOK, Ids
<1> DEFINE c == [body[cur] EXCEPT !.owner = "stash"]
<1>3. body[cur] \in Bodies /\ "stash" \in Owners /\ body[cur].owner = "handler"
  BY <1>1, <1>2 DEF Typed, Owners, StashBody
<1>4. /\ c \in Bodies /\ c.owner = "stash" /\ c.done = body[cur].done
      /\ c.generation = body[cur].generation
  BY <1>3, BodyOwner
<1>5. body' = [body EXCEPT ![cur] = c]
  BY DEF StashBody
<1> HIDE DEF c
<1>6. /\ body' \in [Ids -> Bodies] /\ body'[cur] = c
      /\ \A j \in Ids \ {cur} : body'[j] = body[j]
  BY <1>1, <1>2, <1>4, <1>5, BodyReplaced DEF Typed
<1>7. io' = io /\ conn' = conn /\ pos' = pos /\ wire' = wire /\ UNCHANGED bodyUnchanged
  BY DEF StashBody
<1>8. Quiet
  BY <1>1, <1>3, <1>4, <1>6, <1>7 DEF Quiet, Typed, Live
<1> QED BY <1>1, <1>7, <1>8 DEF TaskStep, TypeOK

-----------------------------------------------------------------------------
(* Steps of the Bodies preserve the invariant.                             *)

\* The types depend on the stream, which is fixed.
LEMMA TypesKept ==
    ASSUME input' = input
    PROVE  IoStates' = IoStates /\ Bodies' = Bodies
BY DEF IoStates, Bodies

\* The peer does not change.
LEMMA PeerKept ==
    ASSUME Peer, UNCHANGED peer
    PROVE  Peer'
BY DEF Peer, peer

\* The fields of a disposition.
LEMMA RespFields ==
    ASSUME TypeOK
    PROVE  /\ resp.upgrading \in BOOLEAN /\ resp.keep_alive \in BOOLEAN
           /\ resp.streams \in BOOLEAN /\ resp.unframed \in BOOLEAN
BY DEF TypeOK, Dispositions

\* What the arguments below need of the types.
LEMMA Sorts ==
    ASSUME TypeOK
    PROVE  /\ MaxReq \in Nat /\ cur \in 0..MaxReq /\ cur \in Nat /\ answered \in Nat
           /\ io.body_generation \in Nat /\ io.pending_continue \in 0..2
           /\ conn.body_read \in BOOLEAN /\ conn.broken \in BOOLEAN
<1>1. MaxReq \in Nat
  BY Constants
<1>2. io.body_generation \in 0..MaxReq /\ io.pending_continue \in 0..2
  BY IoFields DEF TypeOK
<1>3. conn.body_read \in BOOLEAN /\ conn.broken \in BOOLEAN
  BY FlagFields DEF TypeOK
<1> QED BY <1>1, <1>2, <1>3 DEF TypeOK

\* A task keeps the types.
LEMMA TaskType ==
    ASSUME TypeOK, TaskStep
    PROVE  TypeOK'
<1>1. /\ input' = input /\ out' = out /\ held' = held /\ wire' = wire /\ pc' = pc /\ ret' = ret
      /\ cur' = cur /\ resp' = resp /\ chunks' = chunks /\ answered' = answered
  BY DEF TaskStep, bodyUnchanged, peer
<1>2. IoStates' = IoStates /\ Bodies' = Bodies
  BY <1>1, TypesKept
<1>3. io' \in IoStates /\ body' \in [Ids -> Bodies] /\ conn' \in Flags /\ pos' \in 0..Len(input)
  BY DEF TaskStep, Quiet
<1> QED BY <1>1, <1>2, <1>3 DEF TypeOK

\* A task keeps Control, Custody and Reading.
LEMMA TaskOrder ==
    ASSUME TypeOK, Order, TaskStep
    PROVE  Order'
<1>1. /\ reqs' = reqs /\ pc' = pc /\ ret' = ret /\ cur' = cur /\ resp' = resp
      /\ io'.body_generation = io.body_generation
  BY DEF TaskStep, bodyUnchanged, peer, Quiet
<1>2. Where' = Where /\ Reused' = Reused
  BY <1>1 DEF Where, Reused
<1>3. Control'
  BY <1>1, <1>2 DEF Order, Control
<1>4. Custody'
  BY <1>1, <1>2 DEF Order, Custody, TaskStep, Quiet
<1>5. Reading'
  <2>1. \A j \in Ids : Undone(j)' => Undone(j)
    BY DEF TaskStep, Quiet, Undone
  <2>2. conn'.body_read /\ cur = io.body_generation => cur > 0 /\ body'[cur].done
    <3>1. cur > 0 => cur \in Ids
      BY Sorts DEF Ids
    <3> QED BY <3>1 DEF Order, Reading, TaskStep, Quiet
  <2>3. conn.body_read /\ cur = io.body_generation => conn'.body_read
    BY DEF TaskStep
  <2>4. Where \in HeadPhase \cup ResponsePhase \cup {"upgraded"} => cur = io.body_generation
    BY DEF Order, Control, HeadPhase, ResponsePhase, StreamPhase
  <2>5. pc = "upgraded" => Where = "upgraded"
    BY DEF Where
  <2> QED BY <1>1, <1>2, <2>1, <2>2, <2>3, <2>4, <2>5 DEF Order, Reading
<1> QED BY <1>3, <1>4, <1>5 DEF Order

\* A task keeps what is said of the output.
LEMMA TaskWrites ==
    ASSUME TypeOK, Order, Writes, TaskStep
    PROVE  Writes'
<1>1. /\ reqs' = reqs /\ pc' = pc /\ ret' = ret /\ cur' = cur /\ resp' = resp
      /\ out' = out /\ held' = held /\ wire' = wire /\ answered' = answered
      /\ io'.body_generation = io.body_generation
      /\ io'.pending_continue = io.pending_continue
  BY DEF TaskStep, bodyUnchanged, peer, Quiet
<1>2. Where' = Where /\ Reused' = Reused /\ Output' = Output
  BY <1>1 DEF Where, Reused, Output
<1>3. Waiting'
  BY <1>1 DEF Writes, Waiting
<1>4. Owing'
  <2>1. cur > 0 => cur \in Ids
    BY Sorts DEF Ids
  <2>2. Expects(cur)' = Expects(cur)
    BY <1>1 DEF Expects
  <2>3. pc = "flush" /\ cur > 0 /\ body[cur].owner = "handler" => body'[cur].owner = "handler"
    BY <2>1 DEF TaskStep, HandlerPhase
  <2> QED BY <1>1, <2>2, <2>3 DEF Writes, Owing
<1>5. Tips'
  <2>1. cur > 0 => cur \in Ids
    BY Sorts DEF Ids
  <2>2. io.pending_continue > 0 /\ Undone(cur)' => Undone(cur)
    BY <1>1, <2>1 DEF TaskStep, Quiet, Undone, Writes, Owing
  <2>3. \A n, t : BeforeResponse(n, t)' <=> BeforeResponse(n, t)
    BY <1>1 DEF BeforeResponse
  <2> QED BY <1>1, <1>2, <2>2, <2>3 DEF Writes, Tips
<1>6. Chained(Output)'
  BY <1>1, <1>2 DEF Writes, Chained, Expects
<1>7. Answered'
  BY <1>1, <1>2 DEF Writes, Answered
<1>8. Kept'
  BY <1>1, <1>2 DEF Writes, Kept, Complete, TaskStep
<1> QED BY <1>3, <1>4, <1>5, <1>6, <1>7, <1>8 DEF Writes

-----------------------------------------------------------------------------
(* Output: how it grows, moves and is cut off.                             *)

\* The output is a sequence of response units.
LEMMA OutputIs ==
    ASSUME TypeOK
    PROVE  /\ out \in Seq(RespUnits) /\ held \in Seq(RespUnits) /\ wire \in Seq(RespUnits)
           /\ Output \in Seq(RespUnits)
           /\ held = <<>> => Output = wire \o out
           /\ held = <<>> /\ out = <<>> => Output = wire
<1>1. out \in Seq(RespUnits) /\ held \in Seq(RespUnits) /\ wire \in Seq(RespUnits)
  BY DEF TypeOK
<1>2. wire \o held \in Seq(RespUnits)
  BY <1>1, ConcatIs
<1>3. Output \in Seq(RespUnits)
  BY <1>1, <1>2, ConcatIs DEF Output
<1>4. held = <<>> => wire \o held = wire
  BY <1>1, ConcatEmptySeq
<1>5. held = <<>> => Output = wire \o out
  BY <1>4 DEF Output
<1>6. out = <<>> => wire \o out = wire
  BY <1>1, ConcatEmptySeq
<1> QED BY <1>1, <1>3, <1>5, <1>6

\* A sequence with one unit more.
LEMMA AppendIs ==
    ASSUME NEW S, NEW w \in Seq(S), NEW u \in S
    PROVE  /\ Append(w, u) \in Seq(S)
           /\ Len(Append(w, u)) = Len(w) + 1
           /\ Append(w, u)[Len(w) + 1] = u
           /\ \A k \in 1..Len(w) : Append(w, u)[k] = w[k]
           /\ Append(w, u) # <<>>
OBVIOUS

\* A unit that may follow keeps the output well formed.
LEMMA Grows ==
    ASSUME NEW w \in Seq(RespUnits), NEW u \in RespUnits, Chained(w), Follows(Tip(w), u),
           u[2] = "c1" => Expects(u[1])
    PROVE  Chained(Append(w, u)) /\ Tip(Append(w, u)) = u
<1> DEFINE v == Append(w, u)
<1>1. /\ Len(w) \in Nat /\ Len(v) = Len(w) + 1 /\ v[Len(w) + 1] = u /\ v # <<>>
      /\ \A k \in 1..Len(w) : v[k] = w[k]
  BY AppendIs
<1>e. w = <<>> <=> Len(w) = 0
  BY EmptySeq
<1> HIDE DEF v
<1>2. Tip(v) = u
  BY <1>1 DEF Tip
<1>3. ASSUME NEW k \in 1..Len(v)
      PROVE  /\ Follows(IF k = 1 THEN <<0, "z">> ELSE v[k - 1], v[k])
             /\ v[k][2] = "c1" => Expects(v[k][1])
  <2>1. CASE k = Len(w) + 1
    <3>1. Tip(w) = IF k = 1 THEN <<0, "z">> ELSE v[k - 1]
      <4>1. CASE k = 1
        BY <4>1, <2>1, <1>1, <1>e DEF Tip
      <4>2. CASE k # 1
        <5>1. k - 1 = Len(w) /\ k - 1 \in 1..Len(w) /\ w # <<>>
          BY <4>2, <2>1, <1>1, <1>e
        <5> QED BY <5>1, <1>1, <4>2 DEF Tip
      <4> QED BY <4>1, <4>2
    <3> QED BY <2>1, <3>1, <1>1
  <2>2. CASE k # Len(w) + 1
    <3>1. k \in 1..Len(w) /\ (k # 1 => k - 1 \in 1..Len(w))
      BY <2>2, <1>1
    <3>2. v[k] = w[k] /\ (k # 1 => v[k - 1] = w[k - 1])
      BY <3>1, <1>1
    <3> QED BY <3>1, <3>2 DEF Chained
  <2> QED BY <2>1, <2>2
<1>4. Chained(v)
  BY <1>3 DEF Chained
<1> QED BY <1>2, <1>4 DEF v

\* What is in a sequence.
LEMMA RangeIs ==
    ASSUME NEW S, NEW w \in Seq(S), NEW x
    PROVE  x \in Range(w) <=> \E k \in 1..Len(w) : w[k] = x
BY DEF Range

\* What was complete stays so when the output grows.
LEMMA GrowsRange ==
    ASSUME NEW S, NEW w \in Seq(S), NEW u \in S
    PROVE  /\ \A n : Complete(n, w) => Complete(n, Append(w, u))
           /\ u \in Range(Append(w, u))
<1> DEFINE v == Append(w, u)
<1>1. /\ v \in Seq(S) /\ Len(w) \in Nat /\ Len(v) = Len(w) + 1 /\ v[Len(w) + 1] = u
      /\ \A k \in 1..Len(w) : v[k] = w[k]
  BY AppendIs
<1> HIDE DEF v
<1>2. \A x \in Range(w) : x \in Range(v)
  <2> TAKE x \in Range(w)
  <2>1. PICK k \in 1..Len(w) : w[k] = x
    BY RangeIs
  <2>2. k \in 1..Len(v) /\ v[k] = x
    BY <2>1, <1>1
  <2> QED BY <2>2, <1>1, RangeIs
<1>3. u \in Range(v)
  <2>1. Len(w) + 1 \in 1..Len(v)
    BY <1>1
  <2> QED BY <2>1, <1>1, RangeIs
<1> QED BY <1>2, <1>3 DEF Complete, v

\* A prefix of a well-formed output is one.
LEMMA Cut ==
    ASSUME NEW w \in Seq(RespUnits), NEW v \in Seq(RespUnits), Chained(w), Len(v) <= Len(w),
           \A k \in 1..Len(v) : v[k] = w[k]
    PROVE  Chained(v)
<1>1. Len(v) \in Nat /\ Len(w) \in Nat
  OBVIOUS
<1>2. ASSUME NEW k \in 1..Len(v)
      PROVE  /\ Follows(IF k = 1 THEN <<0, "z">> ELSE v[k - 1], v[k])
             /\ v[k][2] = "c1" => Expects(v[k][1])
  <2>1. k \in 1..Len(w) /\ (k # 1 => k - 1 \in 1..Len(v))
    BY <1>1
  <2>2. v[k] = w[k] /\ (k # 1 => v[k - 1] = w[k - 1])
    BY <2>1
  <2> QED BY <2>1, <2>2 DEF Chained
<1> QED BY <1>2 DEF Chained

\* A write moves the head of `out` onto the transport.
LEMMA WriteMoves ==
    ASSUME NEW S, NEW w \in Seq(S), NEW o \in Seq(S), o # <<>>
    PROVE  /\ Append(w, Head(o)) \o Tail(o) = w \o o
           /\ Append(w, Head(o)) \in Seq(S) /\ Tail(o) \in Seq(S)
<1>1. Head(o) \in S /\ Tail(o) \in Seq(S) /\ Len(Tail(o)) = Len(o) - 1
      /\ Head(o) = o[1] /\ \A k \in 1..(Len(o) - 1) : Tail(o)[k] = o[k + 1]
  OBVIOUS
<1>2. Len(o) \in Nat /\ Len(o) > 0 /\ Len(w) \in Nat
  BY EmptySeq
<1> DEFINE a == Append(w, Head(o))
           tl == Tail(o)
           l == a \o tl
           r == w \o o
<1>3. /\ a \in Seq(S) /\ Len(a) = Len(w) + 1 /\ a[Len(w) + 1] = Head(o)
      /\ \A k \in 1..Len(w) : a[k] = w[k]
  BY <1>1, AppendIs
<1>9. /\ tl \in Seq(S) /\ Len(tl) = Len(o) - 1
      /\ \A k \in 1..(Len(o) - 1) : tl[k] = o[k + 1]
  BY <1>1
<1> HIDE DEF a, tl
<1>10. a \in Seq(S) /\ tl \in Seq(S)
  BY <1>3, <1>9
<1>4. /\ l \in Seq(S) /\ Len(l) = Len(a) + Len(tl)
      /\ \A k \in 1..Len(a) : l[k] = a[k]
      /\ \A k \in 1..Len(tl) : l[Len(a) + k] = tl[k]
  BY <1>10, ConcatIs
<1>5. /\ r \in Seq(S) /\ Len(r) = Len(w) + Len(o)
      /\ \A k \in 1..Len(w) : r[k] = w[k]
      /\ \A k \in 1..Len(o) : r[Len(w) + k] = o[k]
  BY ConcatIs
<1> HIDE DEF l, r
<1>6. Len(l) = Len(r)
  BY <1>9, <1>2, <1>3, <1>4, <1>5
<1>7. ASSUME NEW k \in 1..Len(l) PROVE l[k] = r[k]
  <2>1. CASE k <= Len(w)
    <3>1. k \in 1..Len(w) /\ k \in 1..Len(a)
      BY <2>1, <1>2, <1>3
    <3> QED BY <3>1, <1>3, <1>4, <1>5
  <2>2. CASE k = Len(w) + 1
    <3>1. k \in 1..Len(a) /\ 1 \in 1..Len(o)
      BY <2>2, <1>2, <1>3
    <3> QED BY <2>2, <3>1, <1>1, <1>3, <1>4, <1>5
  <2>3. CASE k > Len(w) + 1
    <3> DEFINE m == k - Len(a)
    <3>1. m \in 1..Len(tl) /\ k = Len(a) + m /\ m + 1 \in 1..Len(o) /\ k = Len(w) + (m + 1)
      BY <2>3, <1>9, <1>2, <1>3, <1>4
    <3> HIDE DEF m
    <3>2. l[k] = tl[m] /\ r[k] = o[m + 1] /\ tl[m] = o[m + 1]
      BY <3>1, <1>9, <1>2, <1>4, <1>5
    <3> QED BY <3>2
  <2> QED BY <2>1, <2>2, <2>3, <1>2, <1>4
<1>8. l = r
  BY <1>4, <1>5, <1>6, <1>7, SeqEqual
<1> QED BY <1>1, <1>3, <1>8 DEF l, r, a, tl

-----------------------------------------------------------------------------
(* Steps of the loop.                                                      *)

\* A step of the loop that leaves the Bodies alone.
Calm ==
    /\ UNCHANGED <<peer, body>>
    /\ pos' \in 0..Len(input)
    /\ io' \in IoStates
    /\ io'.body_generation = io.body_generation
    /\ conn' \in Flags
    /\ conn'.body_read = conn.body_read /\ (conn.broken => conn'.broken)

\* And what is owed.
Steady ==
    /\ Calm
    /\ io'.pending_continue = io.pending_continue
    /\ conn'.broken = conn.broken

\* A step of the loop that drops the Body it drives if one of `holders` has it.
Leaving(holders) ==
    /\ UNCHANGED peer
    /\ pos' = pos
    /\ cur \in Ids
    /\ Dropping(Driven(holders))
    /\ conn' \in Flags
    /\ conn'.body_read = conn.body_read /\ (conn.broken => conn'.broken)

\* A step that touches neither transport nor Bodies.
LEMMA SameIo ==
    ASSUME TypeOK, UNCHANGED <<peer, pos, io, body, conn>>
    PROVE  Steady
<1>1. io \in IoStates /\ conn \in Flags /\ pos \in 0..Len(input)
  BY DEF TypeOK
<1> QED BY <1>1 DEF Steady, Calm

\* The types, variable by variable.
LEMMA LoopType ==
    ASSUME TypeOK, input' = input, pos' \in 0..Len(input),
           io' \in IoStates, body' \in [Ids -> Bodies], conn' \in Flags,
           out' \in Seq(RespUnits), held' \in Seq(RespUnits), wire' \in Seq(RespUnits),
           pc' \in Labels, ret' \in Labels, cur' \in 0..MaxReq, resp' \in Dispositions,
           chunks' \in 0..MaxChunks, answered' \in 0..MaxReq
    PROVE  TypeOK'
BY TypesKept DEF TypeOK

\* The types after a step that leaves the Bodies alone.
LEMMA CalmType ==
    ASSUME TypeOK, Calm,
           out' \in Seq(RespUnits), held' \in Seq(RespUnits), wire' \in Seq(RespUnits),
           pc' \in Labels, ret' \in Labels, cur' \in 0..MaxReq, resp' \in Dispositions,
           chunks' \in 0..MaxChunks, answered' \in 0..MaxReq
    PROVE  TypeOK'
<1>1. input' = input /\ body' = body /\ body \in [Ids -> Bodies]
  BY DEF Calm, peer, TypeOK
<1> QED BY <1>1, LoopType DEF Calm

\* The types after one that drops the Body it drives.
LEMMA LeavingType ==
    ASSUME TypeOK, NEW H, Leaving(H),
           out' \in Seq(RespUnits), held' \in Seq(RespUnits), wire' \in Seq(RespUnits),
           pc' \in Labels, ret' \in Labels, cur' \in 0..MaxReq, resp' \in Dispositions,
           chunks' \in 0..MaxChunks, answered' \in 0..MaxReq
    PROVE  TypeOK'
<1>1. input' = input /\ pos' \in 0..Len(input)
  BY DEF Leaving, peer, TypeOK
<1>2. io' \in IoStates /\ body' \in [Ids -> Bodies]
  BY DEF Leaving, Dropping, IoKept
<1> QED BY <1>1, <1>2, LoopType DEF Leaving

\* The loop moves on without passing a Body from one holder to another.
LEMMA CalmOrder ==
    ASSUME TypeOK, Order, Calm, cur' = cur, Control',
           Where \in HandlerPhase => Where' \in HandlerPhase,
           Where \in ResponsePhase => Where' \in ResponsePhase,
           Where' \in HeadPhase => Where \in HeadPhase,
           Where' \in ResponsePhase /\ Reused' => Where \in ResponsePhase /\ Reused,
           pc' = "upgraded" => pc = "upgraded"
    PROVE  Order'
<1>1. body' = body /\ io'.body_generation = io.body_generation
      /\ conn'.body_read = conn.body_read
  BY DEF Calm
<1>2. Custody'
  BY <1>1 DEF Order, Custody
<1>3. Reading'
  BY <1>1 DEF Order, Reading, Undone
<1> QED BY <1>2, <1>3 DEF Order

\* A holder's Body is dropped where the loop leaves the phase it is held in.
LEMMA LeavingOrder ==
    ASSUME TypeOK, Order, NEW H, Leaving(H), cur' = cur, Control',
           Where \in HandlerPhase => "handler" \in H,
           Where \in ResponsePhase /\ "stream" \notin H => Where' \in ResponsePhase,
           Where' \in HeadPhase => conn.body_read,
           Where' \in ResponsePhase /\ Reused' => conn.body_read,
           pc' = "upgraded" => conn.body_read,
           H \subseteq {"handler", "stream"}
    PROVE  Order'
<1>1. /\ cur \in Ids /\ io'.body_generation = io.body_generation
      /\ conn'.body_read = conn.body_read
  BY DEF Leaving, Dropping, IoKept
<1>2. \A j \in Ids : /\ body'[j].generation = body[j].generation
                     /\ body'[j].done = body[j].done
                     /\ body'[j].owner = IF j = cur /\ body[j].owner \in H THEN "dropped"
                                         ELSE body[j].owner
  BY <1>1 DEF Leaving, Dropping, Driven
<1>3. Custody'
  BY <1>1, <1>2 DEF Order, Custody
<1>4. Reading'
  <2>1. \A j \in Ids : Undone(j)' => Undone(j)
    BY <1>2 DEF Undone, Live
  <2>2. cur > 0
    BY <1>1 DEF Ids
  <2> QED BY <1>1, <1>2, <2>1, <2>2 DEF Order, Reading
<1> QED BY <1>3, <1>4 DEF Order

\* While a head is read no Body can read.
LEMMA HeadIsQuiet ==
    ASSUME TypeOK, Order, Where \in HeadPhase
    PROVE  /\ cur = io.body_generation
           /\ \A i \in Ids : ~Undone(i)
           /\ \A i \in Ids : body[i].owner \notin {"handler", "stream"}
<1>1. cur = io.body_generation
  BY DEF Order, Control, HeadPhase
<1>2. \A i \in Ids : i = cur => cur > 0
  BY DEF Ids
<1> QED BY <1>1, <1>2 DEF Order, Reading, Custody, Undone, HeadPhase, HandlerPhase,
           ResponsePhase, StreamPhase

\* The phases are looked into wherever the loop moves from one to another.
USE DEF HeadPhase, HandlerPhase, StreamPhase, ResponsePhase, Ended

\* Output that only moves stays well formed and complete.
LEMMA SameOutput ==
    ASSUME Writes, UNCHANGED peer, Output' = Output, answered' = answered,
           conn.broken => conn'.broken,
           pc' \in StreamPhase /\ ~conn.broken => Complete(answered, wire')
    PROVE  Chained(Output)' /\ Kept'
<1>1. reqs' = reqs
  BY DEF peer
<1>2. Chained(Output)'
  BY <1>1 DEF Writes, Chained, Expects
<1> QED BY <1>2 DEF Writes, Kept, Complete

\* The labels, listed.
LEMMA InLabels ==
    /\ {"head", "split", "reading", "flush", "settle", "handler", "poll1", "stream",
        "streamwait", "compose", "finish", "return", "error", "closed", "upgraded",
        "panicked"} = Labels
BY DEF Labels, Parked, Ended

\* ReadUntilHead preserves the invariant.
LEMMA ReadUntilHeadStep ==
    ASSUME IInv, ReadUntilHead
    PROVE  IInv'
<1> USE DEF IInv
<1> DEFINE b == StripBlank(io.buf)
<1>1. b \in Seq(1..Len(input)) /\ io \in IoStates /\ conn \in Flags /\ pos \in 0..Len(input)
  BY IoFields, StripTyped DEF TypeOK
<1>2. /\ pc = "head" /\ io' = [io EXCEPT !.buf = b] /\ UNCHANGED <<peer, body>> /\ pos' = pos
      /\ conn' = [conn EXCEPT !.started = begins_request(b)]
      /\ pc' \in {"split", "flush", "reading"} /\ ret' = "head"
      /\ pc' = "flush" => out # <<>>
      /\ pc' = "reading" => out = <<>>
      /\ UNCHANGED <<out, held, wire, cur, resp, chunks, answered>>
  BY DEF ReadUntilHead
<1>3. begins_request(b) \in BOOLEAN
  BY DEF begins_request
<1> HIDE DEF b
<1>4. Steady
  <2>1. io' \in IoStates /\ io'.pending_continue = io.pending_continue
        /\ io'.body_generation = io.body_generation
    BY <1>1, <1>2, IoBuf
  <2>2. conn' \in Flags /\ conn'.body_read = conn.body_read /\ conn'.broken = conn.broken
    BY <1>1, <1>2, <1>3 DEF Flags
  <2> QED BY <1>1, <1>2, <2>1, <2>2 DEF Steady, Calm
<1>5. TypeOK'
  BY <1>2, <1>4, CalmType, InLabels DEF TypeOK, Steady
<1>6. Where = "head" /\ Where' \in HeadPhase /\ Reused' = Reused
  BY <1>2 DEF Where, Reused
<1>7. Control'
  BY <1>2, <1>4, <1>6 DEF Order, Control, Writes, Waiting, Steady, Calm, peer
<1>8. Order'
  BY <1>2, <1>4, <1>6, <1>7, CalmOrder DEF Steady
<1>9. Output' = Output
  BY <1>2 DEF Output
<1>10. Chained(Output)' /\ Kept'
  BY <1>2, <1>4, <1>9, SameOutput DEF Steady, Calm
<1>11. io'.pending_continue = 0
  BY <1>2, <1>4, Sorts DEF Writes, Owing, Steady, Calm
<1>12. Waiting' /\ Owing' /\ Answered'
  BY <1>2, <1>6, <1>11, Sorts DEF Writes, Waiting, Owing, Answered
<1>13. Tips'
  BY <1>2, <1>6, <1>9, <1>11 DEF Writes, Tips
<1> QED BY <1>2, <1>5, <1>8, <1>10, <1>12, <1>13, PeerKept DEF Writes

\* A head that is refused, too long or too late: an error is to be written.
LEMMA RefusalStep ==
    ASSUME IInv, Steady, pc \in {"reading", "split"}, pc' = "settle", ret' = "error",
           cur' = cur + 1, UNCHANGED <<out, held, wire, resp, chunks, answered>>
    PROVE  IInv'
<1> USE DEF IInv
<1>1. Where \in HeadPhase /\ Where' = "error" /\ Reused' = Reused
  BY DEF Where, Reused
<1>2. /\ cur = io.body_generation
      /\ \A i \in Ids : ~Undone(i)
      /\ \A i \in Ids : body[i].owner \notin {"handler", "stream"}
  BY <1>1, HeadIsQuiet
<1>3. /\ body' = body /\ io'.body_generation = io.body_generation
      /\ reqs' = reqs /\ io'.pending_continue = io.pending_continue
      /\ conn'.broken = conn.broken /\ UNCHANGED peer
  BY DEF Steady, Calm, peer
<1>4. cur' \in 0..MaxReq
  BY <1>2, PeerIs, Sorts DEF Order, Control
<1>5. TypeOK'
  BY <1>4, CalmType, InLabels DEF TypeOK, Steady
<1>6. Control'
  BY <1>1, <1>2, <1>3, Sorts DEF Order, Control
<1>7. Custody'
  BY <1>1, <1>2, <1>3 DEF Order, Custody
<1>8. Reading'
  <2>1. \A i \in Ids : ~Undone(i)'
    BY <1>2, <1>3 DEF Undone
  <2> QED BY <1>1, <1>2, <1>3, <2>1, Sorts DEF Order, Reading
<1>9. Output' = Output
  BY DEF Output
<1>10. Chained(Output)' /\ Kept'
  BY <1>3, <1>9, SameOutput
<1>11. io'.pending_continue = 0 /\ io.pending_continue = 0
  BY <1>3, Sorts DEF Writes, Owing
<1>12. Waiting' /\ Owing' /\ Answered'
  BY <1>1, <1>11, Sorts DEF Writes, Waiting, Owing, Answered
<1>13. Tips'
  <2>1. Tip(Output) = <<cur, "z">> /\ cur = cur' - 1
    BY <1>1, Sorts DEF Writes, Tips
  <2>2. BeforeResponse(io.pending_continue, Tip(Output))'
    BY <1>9, <1>11, <2>1 DEF BeforeResponse, CLen
  <2> QED BY <1>1, <1>11, <2>2 DEF Tips
<1> QED BY <1>3, <1>5, <1>6, <1>7, <1>8, <1>10, <1>12, <1>13, PeerKept DEF Writes, Order

\* The connection ends between two requests.
LEMMA IdleEnds ==
    ASSUME IInv, pc = "reading", pc' = "closed",
           UNCHANGED <<peer, pos, io, body, conn, out, held, wire, ret, cur, resp, chunks, answered>>
    PROVE  IInv'
<1> USE DEF IInv
<1>1. Steady /\ UNCHANGED peer
  BY SameIo
<1>2. TypeOK'
  BY <1>1, CalmType, InLabels DEF TypeOK, Steady
<1>3. Where = "reading" /\ Where' = "closed" /\ Reused' = Reused
  BY DEF Where, Reused
<1>4. Control'
  BY <1>3 DEF Order, Control, peer
<1>5. Order'
  BY <1>1, <1>3, <1>4, CalmOrder DEF Steady
<1>6. Output' = Output
  BY DEF Output
<1>7. Chained(Output)' /\ Kept'
  BY <1>1, <1>6, SameOutput
<1>8. io'.pending_continue = 0
  BY Sorts DEF Writes, Owing
<1>9. Waiting' /\ Owing' /\ Answered' /\ Tips'
  BY <1>3, <1>6, <1>8, Sorts DEF Writes, Waiting, Owing, Answered, Tips
<1> QED BY <1>1, <1>2, <1>5, <1>7, <1>9, PeerKept DEF Writes

\* HeadRead preserves the invariant.
LEMMA HeadReadStep ==
    ASSUME IInv, NEW k \in 1..MaxRead, HeadRead(k)
    PROVE  IInv'
<1> USE DEF IInv
<1> DEFINE b == StripBlank(io.buf \o Fresh(k))
<1>1. k \in Nat /\ pos \in Nat /\ Len(input) \in Nat /\ pos + k <= Len(input)
  BY Constants, PeerIs DEF HeadRead, TypeOK
<1>2. b \in Seq(1..Len(input))
  <2>1. Fresh(k) \in Seq(1..Len(input)) /\ io.buf \in Seq(1..Len(input))
    BY <1>1, FreshIs, IoFields DEF TypeOK
  <2>2. io.buf \o Fresh(k) \in Seq(1..Len(input))
    BY <2>1, ConcatIs
  <2> QED BY <2>2, StripTyped
<1>3. /\ pc = "reading" /\ io' = [io EXCEPT !.buf = b] /\ UNCHANGED <<peer, body>>
      /\ pos' = pos + k
      /\ conn' = [conn EXCEPT !.started = conn.started \/ begins_request(Fresh(k))]
      /\ \/ pc' = "settle" /\ ret' = "error" /\ cur' = cur + 1
         \/ pc' \in {"split", "reading"} /\ ret' = ret /\ cur' = cur
      /\ UNCHANGED <<out, held, wire, resp, chunks, answered>>
  BY DEF HeadRead
<1> HIDE DEF b
<1>4. Steady
  <2>1. io' \in IoStates /\ io'.pending_continue = io.pending_continue
        /\ io'.body_generation = io.body_generation
    BY <1>2, <1>3, IoBuf DEF TypeOK
  <2>2. conn' \in Flags /\ conn'.body_read = conn.body_read /\ conn'.broken = conn.broken
    BY <1>3 DEF Flags, TypeOK
  <2>3. pos' \in 0..Len(input)
    BY <1>1, <1>3
  <2> QED BY <1>3, <2>1, <2>2, <2>3 DEF Steady, Calm
<1>5. CASE pc' = "settle" /\ ret' = "error" /\ cur' = cur + 1
  BY <1>3, <1>4, <1>5, RefusalStep
<1>6. CASE pc' \in {"split", "reading"} /\ ret' = ret /\ cur' = cur
  <2>1. TypeOK'
    BY <1>3, <1>4, <1>6, CalmType, InLabels DEF TypeOK, Steady
  <2>2. Where = "reading" /\ Where' \in HeadPhase /\ Reused' = Reused
    BY <1>3, <1>6 DEF Where, Reused
  <2>3. Control'
    BY <1>3, <1>4, <1>6, <2>2 DEF Order, Control, Steady, Calm, peer
  <2>4. Order'
    BY <1>3, <1>4, <1>6, <2>2, <2>3, CalmOrder DEF Steady
  <2>5. Output' = Output
    BY <1>3 DEF Output
  <2>6. Chained(Output)' /\ Kept'
    BY <1>3, <1>4, <1>6, <2>5, SameOutput DEF Steady, Calm
  <2>7. io'.pending_continue = 0
    BY <1>3, <1>4, Sorts DEF Writes, Owing, Steady, Calm
  <2>8. Waiting' /\ Owing' /\ Answered' /\ Tips'
    BY <1>3, <1>6, <2>2, <2>5, <2>7, Sorts DEF Writes, Waiting, Owing, Answered, Tips
  <2> QED BY <1>3, <2>1, <2>4, <2>6, <2>8, PeerKept DEF Writes
<1> QED BY <1>3, <1>5, <1>6

\* HeadEof preserves the invariant.
LEMMA HeadEofStep ==
    ASSUME IInv, HeadEof
    PROVE  IInv'
BY IdleEnds DEF HeadEof

\* HeadTimeout preserves the invariant.
LEMMA HeadTimeoutStep ==
    ASSUME IInv, HeadTimeout
    PROVE  IInv'
<1>1. CASE conn.started
  <2>1. Steady
    BY SameIo DEF HeadTimeout, IInv
  <2> QED BY <1>1, <2>1, RefusalStep DEF HeadTimeout
<1>2. CASE ~conn.started
  BY <1>2, IdleEnds DEF HeadTimeout
<1> QED BY <1>1, <1>2

-----------------------------------------------------------------------------
(* Dispatch, and the handler.                                              *)

\* Body::new.
LEMMA NewBodyIs ==
    ASSUME NEW r \in Request, NEW g \in 0..MaxReq
    PROVE  LET b == NewBody(r, g) IN
           /\ b \in Bodies /\ b.owner = "handler" /\ b.generation = g /\ b.kind = r.kind
           /\ b.continue_sent = ~(r.expect /\ ~r.http10)
           /\ b.done = (r.kind = "none" \/ (r.kind = "length" /\ r.len = 0))
           /\ b.remaining = (IF r.kind = "length" THEN r.len ELSE 0)
           /\ b.buffered = <<>>
<1>1. /\ r.len \in Nat /\ r.kind \in {"none", "length", "chunked"}
      /\ r.expect \in BOOLEAN /\ r.http10 \in BOOLEAN
  BY RequestSorts
<1>2. <<>> \in Seq(1..Len(input)) /\ "handler" \in Owners
  BY EmptySeq DEF Owners
<1> QED BY <1>1, <1>2 DEF NewBody, Bodies

\* A head that is accepted.
LEMMA DispatchStep ==
    ASSUME IInv, Split, cur + 1 <= Len(reqs), NEW rest \in Seq(1..Len(input)),
           LET r == reqs[cur + 1]
               b == NewBody(r, io.body_generation + 1)
           IN  /\ io' = [buf |-> rest,
                         pending_continue |-> IF b.continue_sent THEN 0 ELSE CLen,
                         body_finished |-> b.done,
                         body_generation |-> b.generation]
               /\ body' = [body EXCEPT ![cur + 1] = b]
               /\ conn' = [conn EXCEPT !.body_read = b.done]
               /\ held' = IF HoldsForPoll(r) THEN out ELSE <<>>
               /\ out' = IF HoldsForPoll(r) THEN <<>> ELSE out
               /\ pc' = IF HoldsForPoll(r) THEN "poll1"
                        ELSE IF out # <<>> THEN "flush" ELSE "handler"
               /\ ret' = "handler"
    PROVE  IInv'
<1> USE DEF IInv
<1> DEFINE r == reqs[cur + 1]
           b == NewBody(r, io.body_generation + 1)
           i == cur + 1
<1>1. /\ pc = "split" /\ cur' = cur + 1
      /\ UNCHANGED <<peer, pos, wire, resp, chunks, answered>>
  BY DEF Split
<1>2. Where = "split" /\ Where' \in HandlerPhase /\ Reused' = Reused
  BY <1>1 DEF Where, Reused
<1>3. /\ cur = io.body_generation
      /\ \A j \in Ids : ~Undone(j)
      /\ \A j \in Ids : body[j].owner \notin {"handler", "stream"}
  BY <1>2, HeadIsQuiet
<1>4. /\ i \in Ids /\ i \in 0..MaxReq /\ i \in Nat /\ i > 0 /\ cur = i - 1
      /\ io.body_generation + 1 = i
  BY <1>3, PeerIs, Sorts DEF Ids
<1>5. r \in Request
  BY <1>4, PeerIs, Sorts
<1>6. /\ b \in Bodies /\ b.owner = "handler" /\ b.generation = i
      /\ b.continue_sent = ~Expects(i) /\ b.done \in BOOLEAN /\ Expects(i) \in BOOLEAN
  <2>1. /\ b \in Bodies /\ b.owner = "handler" /\ b.generation = i
        /\ b.continue_sent = ~(r.expect /\ ~r.http10)
    <3> HIDE DEF r
    <3> QED BY <1>4, <1>5, NewBodyIs
  <2>2. r.expect \in BOOLEAN /\ r.http10 \in BOOLEAN /\ b.done \in BOOLEAN
    <3> HIDE DEF r, b
    <3> QED BY <1>5, <2>1, RequestSorts, BodyFields
  <2> QED BY <2>1, <2>2 DEF Expects
<1>7. HoldsForPoll(r) <=> out # <<>> /\ ~Expects(i)
  BY DEF HoldsForPoll, Expects
<1> HIDE DEF r, b
<1>8. /\ io' \in IoStates /\ io'.body_generation = i
      /\ io'.pending_continue = IF Expects(i) THEN CLen ELSE 0
  <2>1. io' = [buf |-> rest,
               pending_continue |-> IF b.continue_sent THEN 0 ELSE CLen,
               body_finished |-> b.done,
               body_generation |-> b.generation]
    BY DEF r, b
  <2> DEFINE n == IF b.continue_sent THEN 0 ELSE CLen
  <2>2. n \in 0..CLen /\ n = IF Expects(i) THEN CLen ELSE 0
    <3>1. CASE Expects(i)
      <4>1. b.continue_sent = FALSE
        BY <1>6, <3>1
      <4> QED BY <3>1, <4>1 DEF CLen
    <3>2. CASE ~Expects(i)
      <4>1. b.continue_sent = TRUE
        BY <1>6, <3>2
      <4> QED BY <3>2, <4>1 DEF CLen
    <3> QED BY <3>1, <3>2
  <2>3. b.generation \in 0..MaxReq /\ b.generation = i
    BY <1>4, <1>6
  <2> HIDE DEF n, i
  <2>4. /\ io'.buf = rest /\ io'.pending_continue = n /\ io'.body_finished = b.done
        /\ io'.body_generation = b.generation
        /\ io' = [buf |-> rest, pending_continue |-> n, body_finished |-> b.done,
                  body_generation |-> b.generation]
    BY <2>1 DEF n
  <2>5. io' \in IoStates
    BY <1>6, <2>2, <2>3, <2>4 DEF IoStates
  <2> QED BY <2>2, <2>3, <2>4, <2>5
<1>9. /\ body' \in [Ids -> Bodies] /\ body'[i] = b
      /\ \A j \in Ids \ {i} : body'[j] = body[j]
  BY <1>4, <1>6, BodyReplaced DEF TypeOK, r, b
<1>10. conn' \in Flags /\ conn'.body_read = b.done /\ conn'.broken = conn.broken
  BY <1>6 DEF Flags, TypeOK, r, b
<1>11. /\ ret' = "handler"
       /\ \/ out # <<>> /\ ~Expects(i) /\ held' = out /\ out' = <<>> /\ pc' = "poll1"
          \/ out # <<>> /\ Expects(i) /\ held' = <<>> /\ out' = out /\ pc' = "flush"
          \/ out = <<>> /\ held' = <<>> /\ out' = out /\ pc' = "handler"
  BY <1>6, <1>7 DEF r, b
<1> HIDE DEF i
<1>t. TypeOK'
  <2>1. out' \in Seq(RespUnits) /\ held' \in Seq(RespUnits) /\ wire' \in Seq(RespUnits)
    BY <1>1, <1>11, OutputIs, EmptySeq
  <2>2. input' = input /\ pos' \in 0..Len(input) /\ cur' \in 0..MaxReq
    BY <1>1, <1>4 DEF TypeOK, peer, i
  <2> QED BY <1>1, <1>8, <1>9, <1>10, <1>11, <2>1, <2>2, LoopType, InLabels DEF TypeOK
<1>12. Control'
  <2>1. i <= Len(reqs)
    BY DEF i
  <2> QED BY <1>1, <1>2, <1>4, <1>8, <1>11, <2>1 DEF Control, peer, i
<1>13. Custody'
  BY <1>1, <1>2, <1>3, <1>4, <1>6, <1>8, <1>9, Sorts DEF Order, Custody, i, Ids
<1>14. Reading'
  <2>1. \A j \in Ids : Undone(j)' => j = i
    BY <1>3, <1>9 DEF Undone
  <2> QED BY <1>1, <1>2, <1>4, <1>8, <1>9, <1>10, <1>11, <2>1 DEF Reading, i
<1>15. Output' = Output /\ held = <<>>
  <2>1. held = <<>>
    BY <1>1 DEF Writes, Waiting
  <2>2. /\ Output = wire \o out
        /\ wire \o <<>> = wire /\ (wire \o out) \o <<>> = wire \o out
    <3>1. wire \o out \in Seq(RespUnits)
      BY OutputIs, ConcatIs
    <3> QED BY <2>1, <3>1, OutputIs, ConcatEmptySeq
  <2> QED BY <2>1, <2>2, <1>1, <1>11 DEF Output
<1>16. Chained(Output)' /\ Kept'
  BY <1>1, <1>10, <1>11, <1>15, SameOutput
<1>17. Waiting' /\ Answered'
  BY <1>1, <1>2, <1>4, <1>11, <1>15, Sorts DEF Writes, Waiting, Answered, i
<1>18. Owing'
  <2>1. Expects(cur)' = Expects(cur + 1) /\ cur' = i
    BY <1>1 DEF Expects, peer, i
  <2>2. Expects(cur + 1) = Expects(i)
    BY DEF i
  <2>3. io'.pending_continue > 0 => Expects(i)
    BY <1>8
  <2> QED BY <1>4, <1>6, <1>8, <1>9, <1>11, <2>1, <2>2, <2>3 DEF Owing, CLen
<1>19. Tips'
  <2>1. Tip(Output) = <<cur, "z">> /\ cur = cur' - 1
    BY <1>1, <1>2, <1>4, Sorts DEF Writes, Tips, i
  <2>2. BeforeResponse(io.pending_continue, Tip(Output))'
    BY <1>8, <1>15, <2>1 DEF BeforeResponse, CLen
  <2> QED BY <1>2, <1>11, <1>15, <2>1, <2>2 DEF Tips
<1> QED BY <1>1, <1>t, <1>12, <1>13, <1>14, <1>16, <1>17, <1>18, <1>19, PeerKept
           DEF Writes, Order

\* Splitting waits for a head to be there.
Found ==
    /\ pc = "split" => HeadEnds(io.buf) # {} /\ ~IsBlank(io.buf[1])
    /\ ret # "split"

\* A head found behind blank lines is in the buffer.
LEMMA HeadFound ==
    ASSUME NEW S, NEW b \in Seq(S), has_complete_head(b)
    PROVE  HeadEnds(b) # {}
<1>1. PICK n \in 0..Len(b) : StripBlank(b) = SubSeq(b, n + 1, Len(b))
  BY StripIs
<1> DEFINE c == SubSeq(b, n + 1, Len(b))
<1>2. /\ c \in Seq(S) /\ Len(c) = Len(b) - n
      /\ \A k \in 1..(Len(b) - n) : c[k] = b[n + k]
  BY SuffixOf
<1>3. PICK k \in DOMAIN c : Terminates(c[k])
  BY <1>1 DEF has_complete_head, HeadEnds
<1> HIDE DEF c
<1>4. k \in 1..(Len(b) - n) /\ n + k \in DOMAIN b
  BY <1>2, <1>3
<1> QED BY <1>2, <1>3, <1>4 DEF HeadEnds

\* StripBlank leaves no blank line in front.
LEMMA StripFirst ==
    ASSUME NEW S, NEW b \in Seq(S), HeadEnds(StripBlank(b)) # {}
    PROVE  ~IsBlank(StripBlank(b)[1])
<1>1. PICK n \in 0..Len(b) : /\ StripBlank(b) = SubSeq(b, n + 1, Len(b))
                             /\ n = Len(b) \/ ~IsBlank(b[n + 1])
  BY StripIs
<1> DEFINE c == SubSeq(b, n + 1, Len(b))
<1>2. /\ c \in Seq(S) /\ Len(c) = Len(b) - n
      /\ \A k \in 1..(Len(b) - n) : c[k] = b[n + k]
  BY SuffixOf
<1>3. c = StripBlank(b)
  BY <1>1
<1> HIDE DEF c
<1>4. PICK k \in DOMAIN c : TRUE
  BY <1>3 DEF HeadEnds
<1>5. 1 \in 1..(Len(b) - n) /\ n # Len(b)
  BY <1>2, <1>4
<1>6. c[1] = b[n + 1]
  BY <1>2, <1>5
<1> QED BY <1>1, <1>3, <1>5, <1>6

\* Split preserves the invariant.
LEMMA SplitStep ==
    ASSUME IInv, Found, Split
    PROVE  IInv'
<1> DEFINE end == find_head_end(io.buf)
           rest == SubSeq(io.buf, end + 1, Len(io.buf))
           good == IsHeadOf(SubSeq(io.buf, 1, end), cur + 1) /\ ~reqs[cur + 1].reject
<1>1. rest \in Seq(1..Len(input))
  <2>1. io.buf \in Seq(1..Len(input)) /\ pc = "split"
    BY IoFields DEF TypeOK, IInv, Split
  <2>2. end \in HeadEnds(io.buf)
    <3>1. HeadEnds(io.buf) # {}
      BY <2>1 DEF Found
    <3>2. HeadEnds(io.buf) \subseteq Nat
      BY <2>1 DEF HeadEnds
    <3>3. \E k \in HeadEnds(io.buf) : \A j \in HeadEnds(io.buf) : k <= j
      BY <3>1, <3>2, Least
    <3> QED BY <3>3 DEF find_head_end
  <2>3. end \in 0..Len(io.buf)
    BY <2>1, <2>2 DEF HeadEnds
  <2> HIDE DEF end
  <2> QED BY <2>1, <2>3, SuffixOf
<1>2. CASE good
  <2>1. cur + 1 <= Len(reqs)
    BY <1>2 DEF IsHeadOf
  <2> QED BY <1>1, <1>2, <2>1, DispatchStep DEF Split
<1>3. CASE ~good
  <2>1. /\ pc = "split" /\ cur' = cur + 1 /\ io' = [io EXCEPT !.buf = rest]
        /\ pc' = "settle" /\ ret' = "error"
        /\ UNCHANGED <<peer, pos, body, conn, held, out, wire, resp, chunks, answered>>
    BY <1>3 DEF Split
  <2> HIDE DEF rest
  <2>2. Steady
    <3>1. io' \in IoStates /\ io'.pending_continue = io.pending_continue
          /\ io'.body_generation = io.body_generation
      BY <1>1, <2>1, IoBuf DEF TypeOK, IInv
    <3> QED BY <2>1, <3>1 DEF Steady, Calm, TypeOK, IInv
  <2> QED BY <2>1, <2>2, RefusalStep
<1> QED BY <1>2, <1>3

\* Outside the head phase a request is being served.
LEMMA Serving ==
    ASSUME TypeOK, Order, pc \notin HeadPhase \cup Ended
    PROVE  cur \in Ids /\ cur > 0
<1>1. cur # 0
  BY DEF Order, Control
<1> QED BY <1>1, Sorts DEF Ids

\* Nothing is owed elsewhere.
LEMMA NothingOwed ==
    ASSUME TypeOK, Writes, pc \notin {"handler", "settle", "closed", "panicked", "flush"}
    PROVE  io.pending_continue = 0
BY Sorts DEF Writes, Owing

\* The handler's Body goes with it.
LEMMA HandlerLeaves ==
    ASSUME TypeOK, Order, pc \in HandlerPhase, HandlerGone(io, body), UNCHANGED <<peer, pos>>,
           conn' \in Flags, conn'.body_read = conn.body_read, conn.broken => conn'.broken
    PROVE  Leaving({"handler"}) /\ cur \in Ids /\ cur > 0
<1>1. cur \in Ids /\ cur > 0
  BY Serving
<1>2. Dropping(Driven({"handler"}))
  BY <1>1, TypedIs, HandlerGoneDrops
<1> QED BY <1>1, <1>2 DEF Leaving

\* What a drop leaves alone.
LEMMA LeavingKeeps ==
    ASSUME NEW H, Leaving(H)
    PROVE  /\ reqs' = reqs /\ UNCHANGED peer
           /\ io'.pending_continue = io.pending_continue
           /\ io'.body_generation = io.body_generation
           /\ conn'.body_read = conn.body_read /\ (conn.broken => conn'.broken)
           /\ \A j \in Ids : Undone(j)' => Undone(j)
<1>1. \A j \in Ids : Undone(j)' => Undone(j)
  <2>1. \A j \in Ids : \/ body'[j] = body[j]
                      \/ body'[j].owner = "dropped"
    BY DEF Leaving, Dropping
  <2> QED BY <2>1 DEF Undone, Live
<1> QED BY <1>1 DEF Leaving, Dropping, IoKept, peer

\* FirstPollPending preserves the invariant.
LEMMA FirstPollPendingStep ==
    ASSUME IInv, FirstPollPending
    PROVE  IInv'
<1> USE DEF IInv
<1>1. /\ pc = "poll1" /\ out' = held \o out /\ held' = <<>> /\ pc' = "flush" /\ ret' = "handler"
      /\ UNCHANGED <<peer, pos, io, body, conn, wire, cur, resp, chunks, answered>>
  BY DEF FirstPollPending, AfterFirstPoll
<1>2. Steady /\ UNCHANGED peer /\ cur \in Ids /\ cur > 0 /\ io.pending_continue = 0
  BY <1>1, SameIo, Serving, NothingOwed
<1>3. out = <<>>
  BY <1>1 DEF Writes, Waiting
<1>4. /\ out' = held /\ held \in Seq(RespUnits) /\ wire \in Seq(RespUnits) /\ Output' = Output
  <2>1. held \in Seq(RespUnits) /\ wire \in Seq(RespUnits)
    BY OutputIs
  <2>2. out' = held
    BY <1>1, <1>3, <2>1, ConcatEmptySeq
  <2>3. wire \o <<>> = wire /\ (wire \o held) \o <<>> = wire \o held
    <3>1. wire \o held \in Seq(RespUnits)
      BY <2>1, ConcatIs
    <3> QED BY <2>1, <3>1, ConcatEmptySeq
  <2> QED BY <1>1, <1>3, <2>1, <2>2, <2>3 DEF Output
<1>5. TypeOK'
  BY <1>1, <1>2, <1>4, EmptySeq, CalmType, InLabels DEF TypeOK, Steady
<1>6. Where = "poll1" /\ Where' = "handler" /\ Reused' = Reused
  BY <1>1 DEF Where, Reused
<1>7. Control'
  BY <1>1, <1>2, <1>6 DEF Order, Control, peer
<1>8. Order'
  BY <1>1, <1>2, <1>6, <1>7, CalmOrder DEF Steady
<1>9. Chained(Output)' /\ Kept'
  BY <1>1, <1>4, SameOutput
<1>10. Waiting' /\ Owing' /\ Answered' /\ Tips'
  BY <1>1, <1>2, <1>4, <1>6 DEF Writes, Waiting, Owing, Answered, Tips
<1> QED BY <1>2, <1>5, <1>8, <1>9, <1>10, PeerKept DEF Writes

\* The handler is given up on, and an error is to be written.
LEMMA HandlerAbandoned ==
    ASSUME IInv, pc = "handler", HandlerGone(io, body), pc' = "settle", ret' = "error",
           UNCHANGED <<peer, pos, conn, out, held, wire, cur, resp, chunks, answered>>
    PROVE  IInv'
<1> USE DEF IInv
<1>1. Leaving({"handler"}) /\ cur \in Ids /\ cur > 0
  BY HandlerLeaves DEF TypeOK
<1>2. TypeOK'
  BY <1>1, LeavingType, InLabels DEF TypeOK
<1>3. Where = "handler" /\ Where' = "error" /\ Reused' = Reused
  BY DEF Where, Reused
<1>4. /\ reqs' = reqs /\ UNCHANGED peer
      /\ io'.pending_continue = io.pending_continue
      /\ io'.body_generation = io.body_generation
  BY <1>1, LeavingKeeps
<1>5. Control'
  BY <1>1, <1>3, <1>4 DEF Order, Control
<1>6. Order'
  BY <1>1, <1>3, <1>5, LeavingOrder
<1>7. Output' = Output
  BY DEF Output
<1>8. Chained(Output)' /\ Kept'
  BY <1>4, <1>7, SameOutput
<1>9. Waiting' /\ Answered'
  BY <1>1, <1>3 DEF Writes, Waiting, Answered
<1>10. Owing'
  <2>1. Expects(cur)' = Expects(cur)
    BY <1>4 DEF Expects
  <2> QED BY <1>4, <2>1 DEF Writes, Owing
<1>11. Tips'
  <2>1. BeforeResponse(io.pending_continue, Tip(Output))'
    BY <1>4, <1>7 DEF Writes, Tips, BeforeResponse
  <2> QED BY <1>3, <2>1 DEF Tips
<1> QED BY <1>2, <1>4, <1>6, <1>8, <1>9, <1>10, <1>11, PeerKept DEF Writes

\* BodyTimeout preserves the invariant.
LEMMA BodyTimeoutStep ==
    ASSUME IInv, BodyTimeout
    PROVE  IInv'
BY HandlerAbandoned DEF BodyTimeout

\* HandlerTimeout preserves the invariant.
LEMMA HandlerTimeoutStep ==
    ASSUME IInv, HandlerTimeout
    PROVE  IInv'
BY HandlerAbandoned DEF HandlerTimeout

\* HandlerPanics preserves the invariant.
LEMMA HandlerPanicsStep ==
    ASSUME IInv, NEW n \in 0..Len(held), HandlerPanics(n)
    PROVE  IInv'
<1> USE DEF IInv
<1> DEFINE h == SubSeq(held, 1, n)
<1>1. /\ pc \in HandlerPhase /\ HandlerGone(io, body)
      /\ wire' = wire \o h /\ held' = <<>> /\ out' = <<>>
      /\ conn' = [conn EXCEPT !.broken = @ \/ n < Len(held)]
      /\ pc' = "panicked"
      /\ UNCHANGED <<peer, pos, ret, cur, resp, chunks, answered>>
  BY DEF HandlerPanics, HeldWritten
<1>2. /\ conn' \in Flags /\ conn'.body_read = conn.body_read /\ (conn.broken => conn'.broken)
      /\ ~conn'.broken => n = Len(held)
  <2>1. conn \in Flags /\ Len(held) \in Nat
    BY OutputIs DEF TypeOK
  <2> DEFINE x == conn.broken \/ n < Len(held)
  <2>2. x \in BOOLEAN /\ (conn.broken => x) /\ (~x => n = Len(held))
    BY <2>1
  <2>3. conn' = [conn EXCEPT !.broken = x]
    BY <1>1
  <2> HIDE DEF x
  <2>4. conn' \in Flags /\ conn'.body_read = conn.body_read /\ conn'.broken = x
    BY <2>1, <2>2, <2>3 DEF Flags
  <2> QED BY <2>2, <2>4
<1>3. Leaving({"handler"}) /\ cur \in Ids /\ cur > 0
  BY <1>1, <1>2, HandlerLeaves
<1>4. /\ reqs' = reqs /\ UNCHANGED peer
      /\ io'.pending_continue = io.pending_continue
      /\ io'.body_generation = io.body_generation
  BY <1>3, LeavingKeeps
<1>5. held \in Seq(RespUnits) /\ wire \in Seq(RespUnits) /\ out = <<>>
      /\ Output \in Seq(RespUnits)
  BY <1>1, OutputIs DEF Writes, Waiting
<1>6. /\ h \in Seq(RespUnits) /\ Len(h) = n /\ \A k \in 1..n : h[k] = held[k]
  BY <1>5, PrefixOf
<1>6a. n = Len(held) => h = held
  BY <1>5, <1>6, SeqEqual
<1> HIDE DEF h
<1>7. /\ wire \o h \in Seq(RespUnits) /\ Len(wire \o h) = Len(wire) + n
      /\ \A k \in 1..Len(wire) : (wire \o h)[k] = wire[k]
      /\ \A k \in 1..n : (wire \o h)[Len(wire) + k] = h[k]
  <2>1. /\ wire \o h \in Seq(RespUnits) /\ Len(wire \o h) = Len(wire) + Len(h)
        /\ \A k \in 1..Len(wire) : (wire \o h)[k] = wire[k]
        /\ \A k \in 1..Len(h) : (wire \o h)[Len(wire) + k] = h[k]
    <3>1. h \in Seq(RespUnits) /\ wire \in Seq(RespUnits)
      BY <1>5, <1>6
    <3> QED BY <3>1, ConcatIs
  <2>2. Len(h) = n
    BY <1>6
  <2> QED BY <2>1, <2>2
<1>8. /\ Output = wire \o held
      /\ Len(wire \o held) = Len(wire) + Len(held)
      /\ \A k \in 1..Len(wire) : (wire \o held)[k] = wire[k]
      /\ \A k \in 1..Len(held) : (wire \o held)[Len(wire) + k] = held[k]
  <2>1. wire \o held \in Seq(RespUnits)
    BY <1>5, ConcatIs
  <2> QED BY <1>5, <2>1, ConcatIs, ConcatEmptySeq DEF Output
<1>9. Output' = wire \o h /\ wire' \in Seq(RespUnits)
  <2>1. wire' \o <<>> = wire' /\ wire' \in Seq(RespUnits)
    BY <1>1, <1>7, ConcatEmptySeq
  <2> QED BY <1>1, <2>1 DEF Output
<1>10. TypeOK'
  BY <1>1, <1>2, <1>3, <1>9, EmptySeq, LeavingType, InLabels DEF TypeOK
<1>11. Where \in HandlerPhase /\ Where' = "panicked" /\ Reused' = Reused
  BY <1>1 DEF Where, Reused
<1>12. Control'
  BY <1>1, <1>3, <1>4, <1>11 DEF Order, Control
<1>13. Order'
  BY <1>1, <1>3, <1>11, <1>12, LeavingOrder
<1>14. Chained(Output)'
  <2>1. \A k \in 1..Len(wire \o h) : (wire \o h)[k] = (wire \o held)[k]
    <3> TAKE k \in 1..Len(wire \o h)
    <3>0. Len(wire) \in Nat /\ Len(held) \in Nat /\ k \in Int
      BY <1>5
    <3>1. CASE k <= Len(wire)
      BY <1>7, <1>8, <3>0, <3>1
    <3>2. CASE k > Len(wire)
      <4>1. k - Len(wire) \in 1..n /\ k - Len(wire) \in 1..Len(held)
            /\ Len(wire) + (k - Len(wire)) = k
        BY <1>7, <3>0, <3>2
      <4> QED BY <1>6, <1>7, <1>8, <4>1
    <3>3. k <= Len(wire) \/ k > Len(wire)
      BY <3>0
    <3> QED BY <3>1, <3>2, <3>3, Zenon
  <2>2. Len(wire \o h) <= Len(wire \o held)
    BY <1>5, <1>7, <1>8
  <2>3. Chained(wire \o held) /\ wire \o held \in Seq(RespUnits)
    BY <1>5, <1>8 DEF Writes
  <2>4. Chained(wire \o h)
    BY <1>7, <2>1, <2>2, <2>3, Cut
  <2> QED BY <1>4, <1>9, <2>4 DEF Chained, Expects
<1>15. Kept'
  <2>1. ~conn'.broken => Output' = Output
    BY <1>2, <1>6a, <1>8, <1>9
  <2> QED BY <1>1, <1>2, <2>1 DEF Writes, Kept, Complete
<1>16. Waiting' /\ Answered'
  BY <1>1, <1>3, <1>11 DEF Writes, Waiting, Answered
<1>17. Owing'
  <2>1. Expects(cur)' = Expects(cur)
    BY <1>1, <1>4 DEF Expects
  <2> QED BY <1>1, <1>4, <2>1 DEF Writes, Owing
<1>18. Tips'
  <2>1. ASSUME io'.pending_continue > 0
        PROVE  BeforeResponse(io.pending_continue, Tip(Output))'
    <3>1. pc = "handler" /\ held = <<>>
      BY <1>1, <1>4, <2>1 DEF Writes, Owing, Waiting
    <3>2. Output' = Output
      <4>1. Len(held) = 0
        BY <3>1
      <4>2. n = Len(held)
        BY <4>1
      <4> QED BY <1>6a, <1>8, <1>9, <4>2
    <3> QED BY <1>1, <1>4, <3>1, <3>2 DEF Writes, Tips, BeforeResponse
  <2> QED BY <1>1, <1>11, <2>1 DEF Tips
<1> QED BY <1>4, <1>10, <1>13, <1>14, <1>15, <1>16, <1>17, <1>18, PeerKept DEF Writes

\* What write_response decides: a handoff or a reuse needs the body read, a
\* streamed reply is no handoff, and one ended by the close is no reuse.
LEMMA DecidedIs ==
    ASSUME TypeOK, NEW rep, NEW r,
           resp' = [upgrading  |-> Upgrading(r, rep, conn.body_read),
                    keep_alive |-> Persists(r, rep, conn.body_read),
                    streams    |-> WritesStream(r, rep),
                    unframed   |-> r.http10 /\ WritesStream(r, rep)]
    PROVE  /\ resp' \in Dispositions
           /\ resp'.upgrading => conn.body_read /\ r.upgrade
           /\ resp'.keep_alive => conn.body_read
           /\ resp'.streams => ~resp'.upgrading
           /\ resp'.unframed => ~resp'.upgrading /\ ~resp'.keep_alive
<1> DEFINE U == Upgrading(r, rep, conn.body_read)
           K == Persists(r, rep, conn.body_read)
           W == WritesStream(r, rep)
           C == r.http10 /\ W
<1>1. U \in BOOLEAN /\ K \in BOOLEAN /\ W \in BOOLEAN /\ C \in BOOLEAN
  BY DEF Upgrading, Persists, WritesStream
<1>2. /\ U => conn.body_read /\ r.upgrade
      /\ K => conn.body_read
      /\ W => ~U
      /\ C => ~U /\ ~K
  BY DEF Upgrading, Persists, WritesStream
<1> HIDE DEF U, K, W, C
<1>3. resp' = [upgrading |-> U, keep_alive |-> K, streams |-> W, unframed |-> C]
  BY DEF U, K, W, C
<1>4. resp'.upgrading = U /\ resp'.keep_alive = K /\ resp'.streams = W /\ resp'.unframed = C
  BY <1>3
<1>5. resp' \in Dispositions
  BY <1>1, <1>3 DEF Dispositions
<1> QED BY <1>1, <1>2, <1>4, <1>5

\* The Body moves into the stream of the reply.
LEMMA MovesOrder ==
    ASSUME TypeOK, Order, pc \in HandlerPhase, Where' = "compose", cur' = cur, Control',
           body[cur].owner = "handler", body' = [body EXCEPT ![cur].owner = "stream"],
           io' = io, conn' = conn, Reused' => conn.body_read, pc' = "settle"
    PROVE  Order' /\ body' \in [Ids -> Bodies]
<1>1. cur \in Ids /\ cur > 0 /\ Where = pc
  BY Serving DEF Where
<1> DEFINE c == [body[cur] EXCEPT !.owner = "stream"]
<1>2. body \in [Ids -> Bodies] /\ body[cur] \in Bodies /\ "stream" \in Owners
  BY <1>1 DEF TypeOK, Owners
<1>3. /\ c \in Bodies /\ c.owner = "stream" /\ c.done = body[cur].done
      /\ c.generation = body[cur].generation
  BY <1>2, BodyOwner
<1>4. body' = [body EXCEPT ![cur] = c]
  OBVIOUS
<1> HIDE DEF c
<1>5. /\ body' \in [Ids -> Bodies] /\ body'[cur] = c
      /\ \A j \in Ids \ {cur} : body'[j] = body[j]
  BY <1>1, <1>2, <1>3, <1>4, BodyReplaced
<1>6. Custody'
  BY <1>1, <1>3, <1>5 DEF Order, Custody
<1>7. Reading'
  <2>1. \A j \in Ids : Undone(j)' => Undone(j)
    BY <1>1, <1>3, <1>5 DEF Undone, Live
  <2> QED BY <1>1, <1>3, <1>5, <2>1 DEF Order, Reading
<1> QED BY <1>5, <1>6, <1>7 DEF Order

\* HandlerReturns preserves the invariant.
LEMMA HandlerReturnsStep ==
    ASSUME IInv, NEW rep, NEW moves \in BOOLEAN, HandlerReturns(rep, moves)
    PROVE  IInv'
<1> USE DEF IInv
<1>1. /\ pc \in HandlerPhase /\ out' = held \o out /\ held' = <<>>
      /\ pc' = "settle" /\ ret' = "compose"
      /\ UNCHANGED <<peer, pos, conn, wire, cur, chunks, answered>>
      /\ resp' = [upgrading  |-> Upgrading(reqs[cur], rep, conn.body_read),
                  keep_alive |-> Persists(reqs[cur], rep, conn.body_read),
                  streams    |-> WritesStream(reqs[cur], rep),
                  unframed   |-> reqs[cur].http10 /\ WritesStream(reqs[cur], rep)]
  BY DEF HandlerReturns
<1>2. cur \in Ids /\ cur > 0 /\ reqs' = reqs /\ input' = input
  BY <1>1, Serving DEF peer
<1>3. /\ resp' \in Dispositions
      /\ resp'.upgrading => conn.body_read /\ reqs[cur].upgrade
      /\ resp'.keep_alive => conn.body_read
      /\ resp'.streams => ~resp'.upgrading
      /\ resp'.unframed => ~resp'.upgrading /\ ~resp'.keep_alive
  BY <1>1, DecidedIs
<1>4. Where \in HandlerPhase /\ Where' = "compose" /\ (Reused' => conn.body_read)
  BY <1>1, <1>3 DEF Where, Reused
<1>5. held \in Seq(RespUnits) /\ wire \in Seq(RespUnits) /\ out \in Seq(RespUnits)
  BY OutputIs
<1>6. out' \in Seq(RespUnits) /\ Output' = Output
  <2>1. held \o out \in Seq(RespUnits) /\ wire \o <<>> = wire
    BY <1>5, ConcatIs, ConcatEmptySeq
  <2>2. wire \o (held \o out) = (wire \o held) \o out
    BY <1>5, ConcatAssociative, SMTT(40)
  <2> QED BY <1>1, <2>1, <2>2 DEF Output
<1>7. Control' /\ io'.pending_continue = io.pending_continue
      /\ Order' /\ body' \in [Ids -> Bodies] /\ io' \in IoStates
      /\ io'.body_generation = io.body_generation
  <2>1. ASSUME io'.body_generation = io.body_generation
        PROVE  Control'
    <3>1. cur = io.body_generation /\ io.body_generation <= Len(reqs)
      BY <1>4 DEF Order, Control
    <3> QED BY <1>1, <1>2, <1>3, <1>4, <2>1, <3>1 DEF Control, Reused
  <2>2. CASE moves
    <3>1. body' = [body EXCEPT ![cur].owner = "stream"] /\ io' = io /\ body[cur].owner = "handler"
      BY <2>2 DEF HandlerReturns
    <3>2. Control' /\ io' \in IoStates
      BY <2>1, <3>1 DEF TypeOK
    <3> QED BY <1>1, <1>4, <3>1, <3>2, MovesOrder
  <2>3. CASE ~moves
    <3>1. HandlerGone(io, body)
      BY <2>3 DEF HandlerReturns
    <3>2. Leaving({"handler"})
      BY <1>1, <3>1, HandlerLeaves DEF TypeOK
    <3>3. /\ io'.pending_continue = io.pending_continue
          /\ io'.body_generation = io.body_generation
      BY <3>2, LeavingKeeps
    <3>4. io' \in IoStates /\ body' \in [Ids -> Bodies]
      BY <3>2 DEF Leaving, Dropping, IoKept
    <3>5. Order'
      BY <1>1, <1>4, <2>1, <3>2, <3>3, LeavingOrder
    <3> QED BY <2>1, <3>3, <3>4, <3>5
  <2> QED BY <2>2, <2>3
<1>8. TypeOK'
  <2>1. pos' \in 0..Len(input) /\ conn' \in Flags /\ <<>> \in Seq(RespUnits)
    BY <1>1, EmptySeq DEF TypeOK
  <2> QED BY <1>1, <1>2, <1>3, <1>5, <1>6, <1>7, <2>1, LoopType, InLabels DEF TypeOK
<1>9. Chained(Output)' /\ Kept'
  BY <1>1, <1>6, SameOutput
<1>10. Waiting' /\ Answered'
  BY <1>1, <1>2, <1>4 DEF Writes, Waiting, Answered
<1>11. io.pending_continue > 0 => pc = "handler" /\ out' = <<>>
  <2>1. io.pending_continue > 0 => pc = "handler" /\ out = <<>> /\ held = <<>>
    BY <1>1 DEF Writes, Owing, Waiting
  <2>2. <<>> \o <<>> = <<>>
    BY ConcatEmptySeq, EmptySeq
  <2> QED BY <1>1, <2>1, <2>2
<1>12. Owing'
  <2>1. Expects(cur)' = Expects(cur)
    BY <1>1, <1>2 DEF Expects
  <2> QED BY <1>1, <1>7, <1>11, <2>1 DEF Writes, Owing
<1>13. Tips'
  <2>1. BeforeResponse(io.pending_continue, Tip(Output))
    <3>1. CASE pc = "poll1"
      BY <3>1, NothingOwed DEF Writes, Tips, BeforeResponse, CLen
    <3> QED BY <1>1, <3>1 DEF Writes, Tips
  <2>2. BeforeResponse(io.pending_continue, Tip(Output))'
    BY <1>1, <1>6, <1>7, <2>1 DEF BeforeResponse
  <2> QED BY <1>1, <1>4, <2>2 DEF Tips
<1> QED BY <1>1, <1>7, <1>8, <1>9, <1>10, <1>12, <1>13, PeerKept DEF Writes

-----------------------------------------------------------------------------
(* settle_continue, and the writes of a 100 Continue.                      *)

\* SettleContinue preserves the invariant.
LEMMA SettleContinueStep ==
    ASSUME IInv, SettleContinue
    PROVE  IInv'
<1> USE DEF IInv
<1>1. /\ pc = "settle" /\ io.pending_continue \in {0, CLen} /\ pc' = ret
      /\ io' = [io EXCEPT !.pending_continue = Settled(io.pending_continue)]
      /\ UNCHANGED <<peer, pos, body, conn, out, held, wire, ret, cur, resp, chunks, answered>>
  BY DEF SettleContinue
<1>2. Settled(io.pending_continue) = 0 /\ 0 \in 0..CLen
  BY <1>1 DEF Settled, CLen
<1>3. io' \in IoStates /\ io'.pending_continue = 0 /\ io'.body_generation = io.body_generation
  BY <1>1, <1>2, IoPending DEF TypeOK
<1>4. Calm /\ ret \in {"error", "compose"} /\ cur \in Ids /\ cur > 0
  BY <1>1, <1>3, Serving DEF Calm, TypeOK, Order, Control
<1>5. TypeOK'
  BY <1>1, <1>4, CalmType DEF TypeOK
<1>6. Where = ret /\ Where' = ret /\ Reused' = Reused
  BY <1>1, <1>4 DEF Where, Reused
<1>7. Control'
  BY <1>1, <1>3, <1>4, <1>6 DEF Order, Control, peer
<1>8. Order'
  BY <1>1, <1>4, <1>6, <1>7, CalmOrder
<1>9. Output' = Output
  BY <1>1 DEF Output
<1>10. Chained(Output)' /\ Kept'
  BY <1>1, <1>4, <1>9, SameOutput
<1>11. Waiting' /\ Owing' /\ Answered'
  BY <1>1, <1>3, <1>4, <1>6 DEF Writes, Waiting, Owing, Answered
<1>12. Tips'
  <2>1. BeforeResponse(0, Tip(Output))'
    BY <1>1, <1>9 DEF Writes, Tips, BeforeResponse, CLen
  <2> QED BY <1>1, <1>3, <1>4, <1>6, <2>1 DEF Tips
<1> QED BY <1>1, <1>5, <1>8, <1>10, <1>11, <1>12, PeerKept DEF Writes

\* The successions a response is made of.
LEMMA FollowsIs ==
    ASSUME NEW c \in Nat
    PROVE  /\ Follows(<<c - 1, "z">>, <<c, "c1">>) /\ Follows(<<c - 1, "z">>, <<c, "s">>)
           /\ Follows(<<c, "c1">>, <<c, "c2">>) /\ Follows(<<c, "c2">>, <<c, "s">>)
           /\ Follows(<<c, "s">>, <<c, "b">>) /\ Follows(<<c, "b">>, <<c, "b">>)
           /\ Follows(<<c, "s">>, <<c, "z">>) /\ Follows(<<c, "b">>, <<c, "z">>)
BY DEF Follows

\* The output gains one unit.
LEMMA Gained ==
    ASSUME TypeOK, Writes, UNCHANGED peer, NEW u \in RespUnits, Output' = Append(Output, u),
           Follows(Tip(Output), u), u[2] = "c1" => Expects(u[1])
    PROVE  /\ Chained(Output)' /\ Tip(Output)' = u
           /\ \A n : Complete(n, Output) => Complete(n, Output)'
           /\ u \in Range(Output')
<1>1. Output \in Seq(RespUnits) /\ Chained(Output) /\ reqs' = reqs
  BY OutputIs DEF Writes, peer
<1>2. Chained(Append(Output, u)) /\ Tip(Append(Output, u)) = u
  BY <1>1, Grows
<1>3. /\ \A n : Complete(n, Output) => Complete(n, Append(Output, u))
      /\ u \in Range(Append(Output, u))
  BY <1>1, GrowsRange
<1> QED BY <1>1, <1>2, <1>3 DEF Chained, Tip, Complete, Expects

\* One more unit of the 100 Continue is written, by the Body that waits for it
\* or by settle_continue.
LEMMA ContinueWritten ==
    ASSUME IInv, io.pending_continue > 0, pc \in {"handler", "settle", "closed", "panicked"},
           out = <<>>, pc \in Ended => Undone(cur),
           wire' = Append(wire, ContinueUnit(cur, io.pending_continue)),
           io' = [io EXCEPT !.pending_continue = @ - 1],
           UNCHANGED <<peer, pos, body, conn, out, held, pc, ret, cur, resp, chunks, answered>>
    PROVE  IInv'
<1> USE DEF IInv
<1> DEFINE p == io.pending_continue
           u == ContinueUnit(cur, p)
<1>1. p \in {1, 2} /\ cur \in Ids /\ cur > 0 /\ cur = io.body_generation /\ Expects(cur)
  BY Sorts DEF Writes, Owing, Ids
<1>2. io' \in IoStates /\ io'.pending_continue = p - 1 /\ io'.body_generation = io.body_generation
  <2>1. p - 1 \in 0..CLen
    BY <1>1 DEF CLen
  <2> QED BY <2>1, IoPending DEF TypeOK
<1>3. Calm /\ reqs' = reqs
  BY <1>2 DEF Calm, TypeOK, peer
<1>4. u \in RespUnits /\ u[1] = cur /\ u[2] = (IF p = 2 THEN "c1" ELSE "c2")
      /\ u = <<cur, IF p = 2 THEN "c1" ELSE "c2">>
  BY <1>1 DEF ContinueUnit, RespUnits, CLen
<1>5. held = <<>>
  BY DEF Writes, Waiting
<1>6. wire \in Seq(RespUnits) /\ Output = wire
  BY <1>5, OutputIs
<1> HIDE DEF u
<1>7. wire' \in Seq(RespUnits) /\ Output' = Append(Output, u)
  <2>1. wire' = Append(wire, u)
    BY DEF u
  <2>2. wire' \in Seq(RespUnits)
    BY <1>4, <1>6, <2>1, AppendIs
  <2>3. wire' \o <<>> = wire'
    BY <2>2, ConcatEmptySeq
  <2> QED BY <1>5, <1>6, <2>1, <2>2, <2>3 DEF Output
<1>8. TypeOK'
  BY <1>3, <1>7, CalmType DEF TypeOK
<1>9. Where' = Where /\ Reused' = Reused
  BY DEF Where, Reused
<1>10. Control'
  BY <1>2, <1>3, <1>9 DEF Order, Control
<1>11. Order'
  BY <1>3, <1>9, <1>10, CalmOrder
<1>12. Tip(Output) = IF p = 2 THEN <<cur - 1, "z">> ELSE <<cur, "c1">>
  BY <1>1 DEF Writes, Tips, BeforeResponse, CLen
<1>13. Follows(Tip(Output), u)
  <2>1. cur \in Nat
    BY Sorts
  <2>2. CASE p = 2
    BY <1>4, <1>12, <2>1, <2>2, FollowsIs
  <2>3. CASE p # 2
    BY <1>4, <1>12, <2>1, <2>3, FollowsIs
  <2> QED BY <2>2, <2>3
<1>14. /\ Chained(Output)' /\ Tip(Output)' = u
       /\ \A n : Complete(n, Output) => Complete(n, Output)'
  BY <1>1, <1>4, <1>7, <1>13, Gained
<1>15. Kept'
  BY <1>14 DEF Writes, Kept, Complete
<1>16. Waiting' /\ Answered'
  BY <1>9 DEF Writes, Waiting, Answered
<1>17. Owing'
  <2>1. Expects(cur)' = Expects(cur)
    BY <1>3 DEF Expects
  <2> QED BY <1>1, <1>2, <2>1 DEF Owing
<1>18. Tips'
  <2>1. BeforeResponse(io.pending_continue, Tip(Output))'
    BY <1>1, <1>2, <1>4, <1>14 DEF BeforeResponse, CLen
  <2>2. Where \notin HeadPhase \cup StreamPhase \cup {"finish", "return"}
    BY DEF Where, Order, Control
  <2> QED BY <1>9, <2>1, <2>2 DEF Tips
<1> QED BY <1>8, <1>11, <1>14, <1>15, <1>16, <1>17, <1>18, PeerKept DEF Writes

\* SettleWrite preserves the invariant.
LEMMA SettleWriteStep ==
    ASSUME IInv, SettleWrite
    PROVE  IInv'
<1>1. io.pending_continue > 0 /\ pc = "settle"
  BY DEF SettleWrite, CLen
<1>2. out = <<>>
  BY <1>1 DEF IInv, Writes, Owing
<1> QED BY <1>1, <1>2, ContinueWritten DEF SettleWrite

\* SendContinue preserves the invariant.
LEMMA SendContinueStep ==
    ASSUME IInv, NEW i \in Ids, SendContinue(i)
    PROVE  IInv'
<1> USE DEF IInv
<1>1. CanPoll(i) /\ ~body[i].done /\ io.pending_continue > 0
  BY DEF SendContinue
<1>2. Live(body[i]) /\ (body[i].owner = "handler" => pc \in HandlerPhase)
  BY <1>1, PollsLive
<1>3. Undone(i) /\ i = cur
  BY <1>1, <1>2 DEF Undone, Order, Reading
<1>4. pc \in {"handler", "settle", "closed", "panicked"} /\ out = <<>>
  BY <1>1, <1>2, <1>3 DEF Writes, Owing
<1> QED BY <1>1, <1>3, <1>4, ContinueWritten DEF SendContinue, bodyUnchanged

-----------------------------------------------------------------------------
(* Flushes, and the writes that fail.                                      *)

\* What a write that fails, or a panic, leaves of the output.
LEMMA CutToWire ==
    ASSUME TypeOK, Writes, UNCHANGED peer, wire' = wire, held' = <<>>, out' = <<>>
    PROVE  /\ Output' = wire /\ Chained(Output)'
           /\ <<>> \in Seq(RespUnits)
<1>1. wire \in Seq(RespUnits) /\ held \in Seq(RespUnits) /\ out \in Seq(RespUnits)
      /\ Output \in Seq(RespUnits) /\ Chained(Output) /\ reqs' = reqs /\ <<>> \in Seq(RespUnits)
  BY OutputIs, EmptySeq DEF Writes, peer
<1>2. Output' = wire
  BY <1>1, ConcatEmptySeq DEF Output
<1> DEFINE a == wire \o held
<1>3. a \in Seq(RespUnits) /\ Len(a) = Len(wire) + Len(held)
      /\ \A k \in 1..Len(wire) : a[k] = wire[k]
  BY <1>1, ConcatIs
<1>4. Output = a \o out
  BY DEF Output
<1> HIDE DEF a
<1>5. Len(Output) = Len(a) + Len(out) /\ \A k \in 1..Len(a) : Output[k] = a[k]
  BY <1>1, <1>3, <1>4, ConcatIs
<1>6. Len(wire) \in Nat /\ Len(held) \in Nat /\ Len(out) \in Nat
  BY <1>1
<1>7. Len(wire) <= Len(Output) /\ \A k \in 1..Len(wire) : wire[k] = Output[k]
  BY <1>3, <1>5, <1>6
<1>8. Chained(wire)
  BY <1>1, <1>7, Cut
<1> QED BY <1>1, <1>2, <1>8 DEF Chained, Expects

\* A write fails: serve returns, and what it drove is dropped.
LEMMA WriteFailsStep ==
    ASSUME IInv, pc \in {"settle", "flush"}, LoopGone, pc' = "closed", out' = <<>>,
           pc = "settle" => out = <<>>,
           conn' = [conn EXCEPT !.broken = TRUE],
           UNCHANGED <<peer, pos, held, wire, ret, cur, resp, chunks, answered>>
    PROVE  IInv'
<1> USE DEF IInv
<1>1. cur \in Ids /\ cur > 0 /\ held = <<>>
  BY Serving DEF Writes, Waiting
<1>2. conn' \in Flags /\ conn'.body_read = conn.body_read /\ conn'.broken
  BY DEF TypeOK, Flags
<1>3. Leaving({"handler", "stream"})
  <2>1. Dropping(Driven({"handler", "stream"}))
    BY <1>1, TypedIs, LoopGoneDrops
  <2> QED BY <1>1, <1>2, <2>1 DEF Leaving
<1>4. /\ reqs' = reqs /\ UNCHANGED peer
      /\ io'.pending_continue = io.pending_continue
      /\ io'.body_generation = io.body_generation
      /\ \A j \in Ids : Undone(j)' => Undone(j)
  BY <1>3, LeavingKeeps
<1>5. /\ Output' = wire /\ Chained(Output)' /\ <<>> \in Seq(RespUnits)
  BY <1>1, CutToWire
<1>6. TypeOK'
  BY <1>3, <1>5, LeavingType, InLabels DEF TypeOK
<1>7. Where' = "closed" /\ Reused' = Reused
  BY DEF Where, Reused
<1>8. Control'
  BY <1>1, <1>4, <1>7 DEF Order, Control
<1>9. Order'
  BY <1>3, <1>7, <1>8, LeavingOrder
<1>10. Kept' /\ Waiting' /\ Answered'
  BY <1>1, <1>2, <1>7 DEF Kept, Waiting, Answered
<1>11. Owing'
  <2>1. Expects(cur)' = Expects(cur)
    BY <1>4 DEF Expects
  <2> QED BY <1>4, <2>1 DEF Writes, Owing
<1>12. Tips'
  <2>1. ASSUME io'.pending_continue > 0, Undone(cur)'
        PROVE  BeforeResponse(io.pending_continue, Tip(Output))'
    <3>1. pc = "settle"
      <4>1. pc # "settle" => body[cur].owner = "handler"
        BY <1>4, <2>1 DEF Writes, Owing
      <4>2. body[cur].owner = "handler" => body'[cur].owner = "dropped"
        BY <1>1, <1>3 DEF Leaving, Dropping, Driven
      <4>3. body'[cur].owner # "dropped"
        BY <2>1 DEF Undone, Live
      <4> QED BY <4>1, <4>2, <4>3
    <3>2. Output = wire
      BY <1>1, <3>1, OutputIs
    <3> QED BY <1>4, <1>5, <3>1, <3>2 DEF Writes, Tips, BeforeResponse
  <2> QED BY <1>7, <2>1 DEF Tips
<1> QED BY <1>4, <1>5, <1>6, <1>9, <1>10, <1>11, <1>12, PeerKept DEF Writes

\* SettleFails preserves the invariant.
LEMMA SettleFailsStep ==
    ASSUME IInv, SettleFails
    PROVE  IInv'
<1>1. io.pending_continue > 0 /\ pc = "settle"
  BY DEF SettleFails, CLen
<1>2. out = <<>>
  BY <1>1 DEF IInv, Writes, Owing
<1> QED BY <1>1, <1>2, WriteFailsStep DEF SettleFails

\* FlushFails preserves the invariant.
LEMMA FlushFailsStep ==
    ASSUME IInv, FlushFails
    PROVE  IInv'
BY WriteFailsStep DEF FlushFails

\* FlushWrite preserves the invariant.
LEMMA FlushWriteStep ==
    ASSUME IInv, FlushWrite
    PROVE  IInv'
<1> USE DEF IInv
<1>1. /\ pc = "flush" /\ out # <<>> /\ wire' = Append(wire, Head(out)) /\ out' = Tail(out)
      /\ UNCHANGED <<peer, pos, io, body, conn, held, pc, ret, cur, resp, chunks, answered>>
  BY DEF FlushWrite
<1>2. Steady /\ UNCHANGED peer /\ cur \in Ids /\ cur > 0
  BY <1>1, SameIo, Serving
<1>3. held = <<>>
  BY <1>1 DEF Writes, Waiting
<1>4. wire \in Seq(RespUnits) /\ out \in Seq(RespUnits) /\ Output = wire \o out
  BY <1>3, OutputIs
<1>5. wire' \o out' = wire \o out /\ wire' \in Seq(RespUnits) /\ out' \in Seq(RespUnits)
  BY <1>1, <1>4, WriteMoves
<1>6. Output' = Output
  <2>1. wire' \o <<>> = wire'
    BY <1>5, ConcatEmptySeq
  <2> QED BY <1>1, <1>3, <1>4, <1>5, <2>1 DEF Output
<1>7. TypeOK'
  BY <1>1, <1>2, <1>5, CalmType DEF TypeOK, Steady
<1>8. Where' = Where /\ Reused' = Reused
  BY <1>1 DEF Where, Reused
<1>9. Control'
  BY <1>1, <1>8 DEF Order, Control, peer
<1>10. Order'
  BY <1>1, <1>2, <1>8, <1>9, CalmOrder DEF Steady
<1>11. Chained(Output)' /\ Kept'
  BY <1>1, <1>2, <1>6, SameOutput
<1>12. Waiting' /\ Answered'
  BY <1>1, <1>2, <1>8 DEF Writes, Waiting, Answered
<1>13. Owing'
  <2>1. Expects(cur)' = Expects(cur)
    BY <1>1 DEF Expects, peer
  <2> QED BY <1>1, <2>1 DEF Writes, Owing
<1>14. Tips'
  BY <1>1, <1>6, <1>8 DEF Writes, Tips
<1> QED BY <1>2, <1>7, <1>10, <1>11, <1>12, <1>13, <1>14, PeerKept DEF Writes

\* FlushDone preserves the invariant.
LEMMA FlushDoneStep ==
    ASSUME IInv, FlushDone
    PROVE  IInv'
<1> USE DEF IInv
<1>1. /\ pc = "flush" /\ out = <<>> /\ pc' = ret
      /\ UNCHANGED <<peer, pos, io, body, conn, out, held, wire, ret, cur, resp, chunks, answered>>
  BY DEF FlushDone
<1>2. Steady /\ UNCHANGED peer /\ cur \in Ids /\ cur > 0
      /\ ret \in {"head", "handler", "stream", "streamwait", "return", "closed"}
  BY <1>1, SameIo, Serving DEF Order, Control
<1>3. held = <<>>
  BY <1>1 DEF Writes, Waiting
<1>4. Output = wire /\ Output' = Output
  BY <1>1, <1>3, OutputIs DEF Output
<1>5. TypeOK'
  BY <1>1, <1>2, CalmType DEF TypeOK, Steady
<1>6. Where = ret /\ Where' = ret /\ Reused' = Reused
  BY <1>1, <1>2 DEF Where, Reused
<1>7. Control'
  BY <1>1, <1>2, <1>6 DEF Order, Control, peer
<1>8. Order'
  BY <1>1, <1>2, <1>6, <1>7, CalmOrder DEF Steady
<1>9. Chained(Output)' /\ Kept'
  <2>1. ~conn.broken => Complete(answered, wire)
    BY <1>4 DEF Writes, Kept
  <2> QED BY <1>1, <1>2, <1>4, <2>1, SameOutput
<1>10. Waiting' /\ Answered'
  BY <1>1, <1>2, <1>3, <1>6 DEF Writes, Waiting, Answered
<1>11. io.pending_continue > 0 => ret = "handler" /\ io.pending_continue = CLen
  BY <1>1 DEF Writes, Owing
<1>12. Owing'
  <2>1. Expects(cur)' = Expects(cur)
    BY <1>1 DEF Expects, peer
  <2> QED BY <1>1, <1>11, <2>1 DEF Writes, Owing
<1>13. Tips'
  <2>1. ret = "handler" => BeforeResponse(io.pending_continue, Tip(Output))
    BY <1>1, <1>11, Sorts DEF Writes, Tips, BeforeResponse, CLen
  <2>2. ret = "handler" => BeforeResponse(io.pending_continue, Tip(Output))'
    BY <1>1, <1>4, <2>1 DEF BeforeResponse
  <2> QED BY <1>1, <1>2, <1>4, <1>6, <1>11, <2>2 DEF Writes, Tips
<1> QED BY <1>2, <1>5, <1>8, <1>9, <1>10, <1>12, <1>13, PeerKept DEF Writes

-----------------------------------------------------------------------------
(* Composing a response.                                                   *)

\* What is appended to `out` is appended to the output.
LEMMA Appends ==
    ASSUME NEW S, NEW w \in Seq(S), NEW o \in Seq(S), NEW u \in S
    PROVE  /\ o \o <<u>> = Append(o, u)
           /\ w \o Append(o, u) = Append(w \o o, u)
           /\ Append(o, u) \in Seq(S)
<1>1. /\ Append(o, u) \in Seq(S) /\ Len(Append(o, u)) = Len(o) + 1
      /\ Append(o, u)[Len(o) + 1] = u
      /\ \A k \in 1..Len(o) : Append(o, u)[k] = o[k]
  BY AppendIs
<1>2. o \o <<u>> = Append(o, u)
  OBVIOUS
<1>3. <<u>> \in Seq(S)
  OBVIOUS
<1>4. w \o (o \o <<u>>) = (w \o o) \o <<u>>
  BY <1>3, ConcatAssociative, SMTT(40)
<1>5. (w \o o) \o <<u>> = Append(w \o o, u)
  <2>1. w \o o \in Seq(S)
    BY ConcatIs
  <2> DEFINE x == w \o o
  <2> HIDE DEF x
  <2>2. x \o <<u>> = Append(x, u)
    BY <2>1 DEF x
  <2> QED BY <2>2 DEF x
<1> QED BY <1>1, <1>2, <1>4, <1>5

\* Two units appended.
LEMMA AppendsTwo ==
    ASSUME NEW S, NEW w \in Seq(S), NEW o \in Seq(S), NEW u \in S, NEW v \in S
    PROVE  /\ o \o <<u, v>> \in Seq(S)
           /\ w \o (o \o <<u, v>>) = Append(Append(w \o o, u), v)
<1>1. o \o <<u, v>> = Append(Append(o, u), v)
  OBVIOUS
<1> DEFINE p == Append(o, u)
<1>2. p \in Seq(S) /\ w \o p = Append(w \o o, u)
  BY Appends
<1> HIDE DEF p
<1>3. Append(p, v) \in Seq(S) /\ w \o Append(p, v) = Append(w \o p, v)
  BY <1>2, Appends, SMTT(30)
<1> QED BY <1>1, <1>2, <1>3 DEF p

\* One unit is composed.
LEMMA Composed ==
    ASSUME TypeOK, Writes, UNCHANGED peer, wire' = wire, held' = held,
           NEW u \in RespUnits, out' = Append(out, u), Follows(Tip(Output), u), u[2] # "c1"
    PROVE  /\ out' \in Seq(RespUnits) /\ Chained(Output)' /\ Tip(Output)' = u
           /\ \A n : Complete(n, Output) => Complete(n, Output)'
           /\ u \in Range(Output')
<1>1. out \in Seq(RespUnits) /\ wire \o held \in Seq(RespUnits)
  BY OutputIs, ConcatIs
<1>2. /\ Append(out, u) \in Seq(RespUnits)
      /\ (wire \o held) \o Append(out, u) = Append((wire \o held) \o out, u)
  BY <1>1, Appends
<1>3. Output' = Append(Output, u)
  BY <1>2 DEF Output
<1> QED BY <1>2, <1>3, Gained

\* Two units appended to `out`.
LEMMA OutputTwo ==
    ASSUME TypeOK, NEW u \in RespUnits, NEW v \in RespUnits
    PROVE  /\ out \o <<u, v>> \in Seq(RespUnits)
           /\ (wire \o held) \o (out \o <<u, v>>) = Append(Append(Output, u), v)
<1> DEFINE a == wire \o held
<1>1. a \in Seq(RespUnits) /\ out \in Seq(RespUnits)
  BY OutputIs, ConcatIs
<1> HIDE DEF a
<1>2. /\ out \o <<u, v>> \in Seq(RespUnits)
      /\ a \o (out \o <<u, v>>) = Append(Append(a \o out, u), v)
  BY <1>1, AppendsTwo
<1> QED BY <1>2 DEF a, Output

\* A whole response is composed.
LEMMA ComposedWhole ==
    ASSUME TypeOK, Writes, UNCHANGED peer, wire' = wire, held' = held, cur \in Ids,
           out' = out \o << <<cur, "s">>, <<cur, "z">> >>,
           Tip(Output) \in {<<cur - 1, "z">>, <<cur, "c2">>}
    PROVE  /\ out' \in Seq(RespUnits) /\ Chained(Output)' /\ Tip(Output)' = <<cur, "z">>
           /\ \A n : Complete(n, Output) => Complete(n, Output)'
           /\ <<cur, "z">> \in Range(Output')
<1> DEFINE u == <<cur, "s">>
           v == <<cur, "z">>
           w == Append(Output, u)
<1>1. /\ out \in Seq(RespUnits) /\ wire \o held \in Seq(RespUnits) /\ Output \in Seq(RespUnits)
      /\ Chained(Output) /\ reqs' = reqs
  BY OutputIs, ConcatIs DEF Writes, peer
<1>2. u \in RespUnits /\ v \in RespUnits /\ u[2] # "c1" /\ v[2] # "c1"
  BY DEF RespUnits
<1>3. Follows(Tip(Output), u) /\ Follows(u, v)
  <2>1. cur \in Nat
    BY Sorts
  <2> QED BY <2>1, FollowsIs
<1> HIDE DEF u, v
<1>4. out' = out \o <<u, v>>
  BY DEF u, v
<1>5. /\ out \o <<u, v>> \in Seq(RespUnits)
      /\ (wire \o held) \o (out \o <<u, v>>) = Append(w, v)
  BY <1>2, OutputTwo
<1>6. out' \in Seq(RespUnits)
  BY <1>4, <1>5
<1>7. Output' = Append(w, v)
  BY <1>4, <1>5 DEF Output
<1>8. Chained(w) /\ Tip(w) = u /\ w \in Seq(RespUnits)
  BY <1>1, <1>2, <1>3, Grows, AppendIs
<1>9. \A n : Complete(n, Output) => Complete(n, w)
  BY <1>1, <1>2, GrowsRange
<1> HIDE DEF w
<1>10. Chained(Append(w, v)) /\ Tip(Append(w, v)) = v
  BY <1>2, <1>3, <1>8, Grows
<1>11. /\ \A n : Complete(n, w) => Complete(n, Append(w, v))
       /\ v \in Range(Append(w, v))
  BY <1>2, <1>8, GrowsRange
<1>12. Chained(Output)' /\ Tip(Output)' = v
  BY <1>1, <1>7, <1>10 DEF Chained, Tip, Expects
<1>13. (\A n : Complete(n, Output) => Complete(n, Output)') /\ v \in Range(Output')
  BY <1>7, <1>9, <1>11 DEF Complete
<1> QED BY <1>6, <1>7, <1>12, <1>13 DEF v

\* What was complete, and one response more.
LEMMA OneMore ==
    ASSUME NEW w, NEW n \in Nat, n > 0, Complete(n - 1, w), <<n, "z">> \in Range(w)
    PROVE  Complete(n, w)
<1>1. \A i \in 1..n : i = n \/ i \in 1..(n - 1)
  OBVIOUS
<1> QED BY <1>1 DEF Complete

\* WriteError preserves the invariant.
LEMMA WriteErrorStep ==
    ASSUME IInv, WriteError
    PROVE  IInv'
<1> USE DEF IInv
<1>1. /\ pc = "error" /\ out' = out \o << <<cur, "s">>, <<cur, "z">> >> /\ answered' = cur
      /\ pc' = "flush" /\ ret' = "closed"
      /\ UNCHANGED <<peer, pos, io, body, conn, held, wire, cur, resp, chunks>>
  BY DEF WriteError, AfterEarlier, Flushing
<1>2. Steady /\ UNCHANGED peer /\ cur \in Ids /\ cur > 0 /\ io.pending_continue = 0
  BY <1>1, SameIo, Serving, NothingOwed
<1>3. Tip(Output) \in {<<cur - 1, "z">>, <<cur, "c2">>} /\ answered = cur - 1
  BY <1>1, <1>2 DEF Writes, Tips, BeforeResponse, CLen, Answered, Where
<1>4. /\ out' \in Seq(RespUnits) /\ Chained(Output)' /\ Tip(Output)' = <<cur, "z">>
      /\ \A n : Complete(n, Output) => Complete(n, Output)'
      /\ <<cur, "z">> \in Range(Output')
  BY <1>1, <1>2, <1>3, ComposedWhole
<1>5. TypeOK'
  BY <1>1, <1>2, <1>4, CalmType, InLabels DEF TypeOK, Steady
<1>6. Where = "error" /\ Where' = "closed" /\ Reused' = Reused
  BY <1>1 DEF Where, Reused
<1>7. Control'
  BY <1>1, <1>2, <1>6 DEF Order, Control, peer
<1>8. Order'
  BY <1>1, <1>2, <1>6, <1>7, CalmOrder DEF Steady
<1>9. Kept'
  <2>1. ~conn.broken => Complete(cur - 1, Output')
    BY <1>3, <1>4 DEF Writes, Kept, Complete
  <2>2. ~conn.broken => Complete(cur, Output')
    BY <1>2, <1>4, <2>1, Sorts, OneMore
  <2> QED BY <1>1, <2>2 DEF Kept, Complete
<1>10. Waiting' /\ Answered' /\ Owing' /\ Tips'
  BY <1>1, <1>2, <1>6 DEF Writes, Waiting, Answered, Owing, Tips
<1> QED BY <1>2, <1>4, <1>5, <1>8, <1>9, <1>10, PeerKept DEF Writes

\* Compose preserves the invariant.
LEMMA ComposeStep ==
    ASSUME IInv, Compose
    PROVE  IInv'
<1> USE DEF IInv
<1>1. /\ pc = "compose" /\ chunks' = 0
      /\ \/ /\ resp.streams /\ out' = out \o << <<cur, "s">> >> /\ answered' = answered
            /\ pc' = "flush" /\ ret' = "stream"
         \/ /\ ~resp.streams /\ out' = out \o << <<cur, "s">>, <<cur, "z">> >>
            /\ answered' = cur /\ pc' = "finish" /\ ret' = ret
      /\ UNCHANGED <<peer, pos, io, body, conn, held, wire, cur, resp>>
  BY DEF Compose, AfterEarlier, Flushing
<1>2. Steady /\ UNCHANGED peer /\ cur \in Ids /\ cur > 0 /\ io.pending_continue = 0
      /\ cur \in Nat /\ 0 \in 0..MaxChunks /\ ~(pc = "settle")
  BY <1>1, SameIo, Serving, NothingOwed, Sorts, Constants
<1>3. Tip(Output) \in {<<cur - 1, "z">>, <<cur, "c2">>} /\ answered = cur - 1
  BY <1>1, <1>2 DEF Writes, Tips, BeforeResponse, CLen, Answered, Where
<1>4. Where = "compose" /\ Where' \in {"stream", "finish"} /\ Reused' = Reused
      /\ (Where' = "stream" => resp.streams)
  BY <1>1 DEF Where, Reused
<1>5. Control'
  BY <1>1, <1>2, <1>4 DEF Order, Control, peer
<1>6. Order'
  BY <1>1, <1>2, <1>4, <1>5, CalmOrder DEF Steady
<1>7. CASE resp.streams
  <2>1. /\ out' = out \o << <<cur, "s">> >> /\ answered' = answered
        /\ pc' = "flush" /\ ret' = "stream"
    BY <1>1, <1>7
  <2> DEFINE u == <<cur, "s">>
  <2>2. u \in RespUnits /\ u[2] # "c1" /\ Follows(Tip(Output), u)
    BY <1>2, <1>3, FollowsIs DEF RespUnits
  <2>3. out' = Append(out, u)
    BY <2>1, <2>2, OutputIs, Appends
  <2>4. /\ out' \in Seq(RespUnits) /\ Chained(Output)' /\ Tip(Output)' = u
        /\ \A n : Complete(n, Output) => Complete(n, Output)'
    BY <1>1, <1>2, <2>2, <2>3, Composed
  <2>5. TypeOK'
    BY <1>1, <1>2, <2>1, <2>4, CalmType, InLabels DEF TypeOK, Steady
  <2>6. Kept'
    BY <1>1, <2>1, <2>4 DEF Writes, Kept, Complete
  <2>7. Where' = "stream"
    BY <2>1 DEF Where
  <2>8. Waiting' /\ Answered' /\ Owing' /\ Tips'
    BY <1>1, <1>2, <1>3, <2>1, <2>4, <2>7 DEF Writes, Waiting, Answered, Owing, Tips
  <2> QED BY <1>2, <1>6, <2>4, <2>5, <2>6, <2>8, PeerKept DEF Writes
<1>8. CASE ~resp.streams
  <2>1. /\ out' = out \o << <<cur, "s">>, <<cur, "z">> >>
        /\ answered' = cur /\ pc' = "finish" /\ ret' = ret
    BY <1>1, <1>8
  <2>2. /\ out' \in Seq(RespUnits) /\ Chained(Output)' /\ Tip(Output)' = <<cur, "z">>
        /\ \A n : Complete(n, Output) => Complete(n, Output)'
        /\ <<cur, "z">> \in Range(Output')
    BY <1>1, <1>2, <1>3, <2>1, ComposedWhole
  <2>3. TypeOK'
    BY <1>1, <1>2, <2>1, <2>2, CalmType, InLabels DEF TypeOK, Steady
  <2>4. Kept'
    <3>1. ~conn.broken => Complete(cur - 1, Output')
      BY <1>3, <2>2 DEF Writes, Kept, Complete
    <3>2. ~conn.broken => Complete(cur, Output')
      BY <1>2, <2>2, <3>1, OneMore
    <3> QED BY <1>1, <2>1, <3>2 DEF Kept, Complete
  <2>5. Where' = "finish"
    BY <2>1 DEF Where
  <2>6. Waiting' /\ Answered' /\ Owing' /\ Tips'
    BY <1>1, <1>2, <2>1, <2>2, <2>5 DEF Writes, Waiting, Answered, Owing, Tips
  <2> QED BY <1>2, <1>6, <2>2, <2>3, <2>4, <2>6, PeerKept DEF Writes
<1> QED BY <1>7, <1>8

-----------------------------------------------------------------------------
(* A streamed response, and the end of every response.                     *)

\* What holds while a stream is polled.
LEMMA Streaming ==
    ASSUME IInv, pc \in StreamPhase
    PROVE  /\ cur \in Ids /\ cur > 0 /\ cur \in Nat /\ io.pending_continue = 0
           /\ Where = pc /\ resp.streams /\ ~resp.upgrading
           /\ Tip(Output) \in {<<cur, "s">>, <<cur, "b">>} /\ answered = cur - 1
           /\ held = <<>> /\ wire \in Seq(RespUnits)
<1> USE DEF IInv
<1>1. cur \in Ids /\ cur > 0 /\ cur \in Nat /\ io.pending_continue = 0 /\ Where = pc
  BY Serving, NothingOwed, Sorts DEF Where
<1> QED BY <1>1, OutputIs DEF Order, Control, Writes, Tips, Answered, Waiting

\* The stream goes with the Body it holds.
LEMMA StreamLeaves ==
    ASSUME TypeOK, cur \in Ids, StreamGone, UNCHANGED <<peer, pos, conn>>
    PROVE  Leaving({"stream"})
<1>1. Dropping(Driven({"stream"})) /\ conn \in Flags
  BY TypedIs, StreamGoneDrops DEF TypeOK
<1> QED BY <1>1 DEF Leaving

\* StreamChunk preserves the invariant.
LEMMA StreamChunkStep ==
    ASSUME IInv, StreamChunk
    PROVE  IInv'
<1> USE DEF IInv
<1> DEFINE u == <<cur, "b">>
<1>1. /\ pc \in StreamPhase /\ chunks < MaxChunks /\ chunks' = chunks + 1
      /\ out' = Append(out, u)
      /\ \/ pc' = "flush" /\ ret' = "stream"
         \/ pc' = "stream" /\ ret' = ret
      /\ UNCHANGED <<peer, pos, io, body, conn, held, wire, cur, resp, answered>>
  BY DEF StreamChunk, Flushing
<1>2. /\ cur \in Ids /\ cur > 0 /\ cur \in Nat /\ io.pending_continue = 0
      /\ Where = pc /\ resp.streams /\ ~resp.upgrading
      /\ Tip(Output) \in {<<cur, "s">>, <<cur, "b">>} /\ answered = cur - 1
      /\ held = <<>>
  BY <1>1, Streaming
<1>3. Steady /\ UNCHANGED peer /\ chunks' \in 0..MaxChunks
  BY <1>1, SameIo, Constants DEF TypeOK
<1>4. u \in RespUnits /\ u[2] # "c1" /\ Follows(Tip(Output), u)
  BY <1>2, FollowsIs DEF RespUnits
<1>5. /\ out' \in Seq(RespUnits) /\ Chained(Output)' /\ Tip(Output)' = u
      /\ \A n : Complete(n, Output) => Complete(n, Output)'
  BY <1>1, <1>3, <1>4, Composed
<1>6. TypeOK'
  BY <1>1, <1>3, <1>5, CalmType, InLabels DEF TypeOK, Steady
<1>7. Where' = "stream" /\ Reused' = Reused
  BY <1>1 DEF Where, Reused
<1>8. Control'
  BY <1>1, <1>2, <1>7 DEF Order, Control, peer
<1>9. Order'
  BY <1>1, <1>2, <1>3, <1>7, <1>8, CalmOrder DEF Steady
<1>10. Kept'
  BY <1>1, <1>5 DEF Writes, Kept, Complete
<1>11. Waiting' /\ Answered' /\ Owing' /\ Tips'
  BY <1>1, <1>2, <1>5, <1>7 DEF Writes, Waiting, Answered, Owing, Tips
<1> QED BY <1>3, <1>5, <1>6, <1>9, <1>10, <1>11, PeerKept DEF Writes

\* StreamPending preserves the invariant.
LEMMA StreamPendingStep ==
    ASSUME IInv, StreamPending
    PROVE  IInv'
<1> USE DEF IInv
<1>1. /\ pc = "stream"
      /\ \/ pc' = "flush" /\ ret' = "streamwait"
         \/ pc' = "streamwait" /\ ret' = ret /\ out = <<>>
      /\ UNCHANGED <<peer, pos, io, body, conn, out, held, wire, cur, resp, chunks, answered>>
  BY DEF StreamPending, Flushing, WaitNeedsFlush
<1>2. /\ cur \in Ids /\ cur > 0 /\ cur \in Nat /\ io.pending_continue = 0
      /\ Where = pc /\ resp.streams /\ ~resp.upgrading
      /\ Tip(Output) \in {<<cur, "s">>, <<cur, "b">>} /\ answered = cur - 1
      /\ held = <<>>
  BY <1>1, Streaming
<1>3. Steady /\ UNCHANGED peer /\ Output' = Output
  BY <1>1, SameIo DEF Output
<1>4. TypeOK'
  BY <1>1, <1>3, CalmType, InLabels DEF TypeOK, Steady
<1>5. Where' = "streamwait" /\ Reused' = Reused
  BY <1>1 DEF Where, Reused
<1>6. Control'
  BY <1>1, <1>2, <1>5 DEF Order, Control, peer
<1>7. Order'
  BY <1>1, <1>2, <1>3, <1>5, <1>6, CalmOrder DEF Steady
<1>8. Chained(Output)' /\ Kept'
  <2>1. ~conn.broken => Complete(answered, wire)
    BY <1>1 DEF Writes, Kept
  <2> QED BY <1>1, <1>3, <2>1, SameOutput
<1>9. Waiting' /\ Answered' /\ Owing' /\ Tips'
  BY <1>1, <1>2, <1>3, <1>5 DEF Writes, Waiting, Answered, Owing, Tips
<1> QED BY <1>3, <1>4, <1>7, <1>8, <1>9, PeerKept DEF Writes

\* StreamEnds preserves the invariant.
LEMMA StreamEndsStep ==
    ASSUME IInv, StreamEnds
    PROVE  IInv'
<1> USE DEF IInv
<1> DEFINE u == <<cur, "z">>
<1>1. /\ pc \in StreamPhase /\ StreamGone /\ pc' = "finish"
      /\ \/ resp.unframed /\ out' = out /\ answered' = answered
         \/ ~resp.unframed /\ out' = Append(out, u) /\ answered' = cur
      /\ UNCHANGED <<peer, pos, conn, held, wire, ret, cur, resp, chunks>>
  BY DEF StreamEnds
<1>2. /\ cur \in Ids /\ cur > 0 /\ cur \in Nat /\ io.pending_continue = 0
      /\ Where = pc /\ resp.streams /\ ~resp.upgrading
      /\ Tip(Output) \in {<<cur, "s">>, <<cur, "b">>} /\ answered = cur - 1
      /\ held = <<>>
  BY <1>1, Streaming
<1>3. Leaving({"stream"})
  BY <1>1, <1>2, StreamLeaves
<1>4. /\ reqs' = reqs /\ UNCHANGED peer
      /\ io'.pending_continue = io.pending_continue
      /\ io'.body_generation = io.body_generation
  BY <1>3, LeavingKeeps
<1>5. u \in RespUnits /\ u[2] # "c1" /\ Follows(Tip(Output), u)
  BY <1>2, FollowsIs DEF RespUnits
<1>6. /\ out' \in Seq(RespUnits) /\ Chained(Output)'
      /\ ~resp.unframed => Tip(Output)' = u
      /\ ~conn.broken => Complete(answered', Output')
      /\ answered' \in 0..MaxReq
  <2>1. CASE resp.unframed
    <3>1. out' = out /\ answered' = answered /\ Output' = Output
      BY <1>1, <2>1 DEF Output
    <3> QED BY <1>4, <2>1, <3>1, OutputIs DEF TypeOK, Writes, Kept, Chained, Expects
  <2>2. CASE ~resp.unframed
    <3>1. out' = Append(out, u) /\ answered' = cur
      BY <1>1, <2>2
    <3>2. /\ out' \in Seq(RespUnits) /\ Chained(Output)' /\ Tip(Output)' = u
          /\ \A n : Complete(n, Output) => Complete(n, Output)'
          /\ u \in Range(Output')
      BY <1>1, <1>4, <1>5, <3>1, Composed
    <3>3. ~conn.broken => Complete(cur - 1, Output')
      BY <1>2, <3>2 DEF Writes, Kept, Complete
    <3>4. ~conn.broken => Complete(cur, Output')
      BY <1>2, <3>2, <3>3, OneMore
    <3> QED BY <1>2, <3>1, <3>2, <3>4 DEF TypeOK
  <2> QED BY <2>1, <2>2
<1>7. TypeOK'
  BY <1>1, <1>3, <1>6, LeavingType, InLabels DEF TypeOK
<1>8. Where' = "finish" /\ Reused' = Reused
  BY <1>1 DEF Where, Reused
<1>9. Control'
  BY <1>1, <1>2, <1>4, <1>8 DEF Order, Control
<1>10. Order'
  BY <1>1, <1>2, <1>3, <1>8, <1>9, LeavingOrder DEF Order, Reading
<1>11. Kept'
  BY <1>1, <1>6 DEF Kept, Complete
<1>12. resp.unframed => ~Reused
  BY <1>1, <1>2 DEF Order, Control
<1>13. Waiting' /\ Answered' /\ Owing' /\ Tips'
  BY <1>1, <1>2, <1>4, <1>6, <1>8, <1>12 DEF Writes, Waiting, Answered, Owing, Tips, Reused
<1> QED BY <1>4, <1>6, <1>7, <1>10, <1>11, <1>13, PeerKept DEF Writes

\* A stream that fails, or waits too long for its Body: no reuse.
LEMMA GivenUp ==
    ASSUME TypeOK, resp' = [resp EXCEPT !.keep_alive = FALSE]
    PROVE  /\ resp' \in Dispositions /\ resp'.upgrading = resp.upgrading
           /\ resp'.streams = resp.streams /\ resp'.unframed = resp.unframed
           /\ resp'.keep_alive = FALSE
BY DEF TypeOK, Dispositions

\* The loop gives up on a stream.
LEMMA StreamGivenUp ==
    ASSUME IInv, pc \in StreamPhase, resp' = [resp EXCEPT !.keep_alive = FALSE],
           \/ pc' = "flush" /\ ret' = "return"
           \/ pc' = "return" /\ ret' = ret /\ out = <<>>,
           UNCHANGED <<peer, pos, io, body, conn, out, held, wire, cur, chunks, answered>>
    PROVE  IInv'
<1> USE DEF IInv
<1>1. /\ cur \in Ids /\ cur > 0 /\ cur \in Nat /\ io.pending_continue = 0
      /\ Where = pc /\ resp.streams /\ ~resp.upgrading /\ held = <<>>
  BY Streaming
<1>2. /\ resp' \in Dispositions /\ ~resp'.upgrading /\ ~resp'.keep_alive
      /\ resp'.streams = resp.streams /\ resp'.unframed = resp.unframed
  BY <1>1, GivenUp
<1>3. Steady /\ UNCHANGED peer /\ Output' = Output
  BY SameIo DEF Output
<1>4. TypeOK'
  BY <1>2, <1>3, CalmType, InLabels DEF TypeOK, Steady
<1>5. Where' = "return" /\ ~Reused'
  BY <1>2 DEF Where, Reused
<1>6. Control'
  BY <1>1, <1>2, <1>5 DEF Order, Control, peer
<1>7. Order'
  BY <1>1, <1>3, <1>5, <1>6, CalmOrder DEF Steady
<1>8. Chained(Output)' /\ Kept'
  BY <1>3, SameOutput
<1>9. Waiting' /\ Answered' /\ Owing' /\ Tips'
  BY <1>1, <1>2, <1>3, <1>5 DEF Writes, Waiting, Answered, Owing, Tips
<1> QED BY <1>3, <1>4, <1>7, <1>8, <1>9, PeerKept DEF Writes

\* StreamError preserves the invariant.
LEMMA StreamErrorStep ==
    ASSUME IInv, StreamError
    PROVE  IInv'
BY StreamGivenUp DEF StreamError, Flushing

\* StreamTimeout preserves the invariant.
LEMMA StreamTimeoutStep ==
    ASSUME IInv, StreamTimeout
    PROVE  IInv'
<1>1. out = <<>> /\ pc \in StreamPhase
  BY DEF StreamTimeout, IInv, Writes, Waiting
<1> QED BY <1>1, StreamGivenUp DEF StreamTimeout

\* StreamPanics preserves the invariant.
LEMMA StreamPanicsStep ==
    ASSUME IInv, StreamPanics
    PROVE  IInv'
<1> USE DEF IInv
<1>1. /\ pc \in StreamPhase /\ StreamGone /\ out' = <<>> /\ pc' = "panicked"
      /\ UNCHANGED <<peer, pos, conn, held, wire, ret, cur, resp, chunks, answered>>
  BY DEF StreamPanics
<1>2. /\ cur \in Ids /\ cur > 0 /\ cur \in Nat /\ io.pending_continue = 0
      /\ Where = pc /\ held = <<>>
  BY <1>1, Streaming
<1>3. Leaving({"stream"})
  BY <1>1, <1>2, StreamLeaves
<1>4. /\ reqs' = reqs /\ UNCHANGED peer
      /\ io'.pending_continue = io.pending_continue
      /\ io'.body_generation = io.body_generation
  BY <1>3, LeavingKeeps
<1>5. /\ Output' = wire /\ Chained(Output)' /\ <<>> \in Seq(RespUnits)
  BY <1>1, <1>2, <1>4, CutToWire
<1>6. TypeOK'
  BY <1>1, <1>3, <1>5, LeavingType, InLabels DEF TypeOK
<1>7. Where' = "panicked" /\ Reused' = Reused
  BY <1>1 DEF Where, Reused
<1>8. Control'
  BY <1>1, <1>2, <1>4, <1>7 DEF Order, Control
<1>9. Order'
  BY <1>1, <1>2, <1>3, <1>7, <1>8, LeavingOrder
<1>10. Kept'
  BY <1>1, <1>5 DEF Writes, Kept, Complete
<1>11. Waiting' /\ Answered' /\ Owing' /\ Tips'
  BY <1>1, <1>2, <1>4, <1>7 DEF Writes, Waiting, Answered, Owing, Tips
<1> QED BY <1>4, <1>5, <1>6, <1>9, <1>10, <1>11, PeerKept DEF Writes

\* FinishResponse preserves the invariant.
LEMMA FinishResponseStep ==
    ASSUME IInv, FinishResponse
    PROVE  IInv'
<1> USE DEF IInv
<1>1. /\ pc = "finish" /\ io' \in {io, [io EXCEPT !.buf = StripBlank(io.buf)]}
      /\ \/ pc' = "return" /\ ret' = ret /\ resp.keep_alive /\ ~resp.upgrading
         \/ pc' = "flush" /\ ret' = "return"
      /\ UNCHANGED <<peer, pos, body, conn, out, held, wire, cur, resp, chunks, answered>>
  BY DEF FinishResponse, Coalesces, Flushing
<1>2. /\ io' \in IoStates /\ io'.pending_continue = io.pending_continue
      /\ io'.body_generation = io.body_generation
  <2>1. io \in IoStates /\ StripBlank(io.buf) \in Seq(1..Len(input))
    BY IoFields, StripTyped DEF TypeOK
  <2>2. CASE io' = io
    BY <2>1, <2>2
  <2>3. CASE io' = [io EXCEPT !.buf = StripBlank(io.buf)]
    <3> DEFINE b == StripBlank(io.buf)
    <3>1. io' = [io EXCEPT !.buf = b] /\ b \in Seq(1..Len(input))
      BY <2>1, <2>3
    <3> HIDE DEF b
    <3> QED BY <2>1, <3>1, IoBuf
  <2> QED BY <1>1, <2>2, <2>3
<1>3. Steady /\ UNCHANGED peer /\ Output' = Output
  BY <1>1, <1>2 DEF Steady, Calm, TypeOK, Output
<1>4. cur \in Ids /\ cur > 0 /\ io.pending_continue = 0 /\ held = <<>>
  BY <1>1, Serving, NothingOwed DEF Writes, Waiting
<1>5. TypeOK'
  BY <1>1, <1>3, CalmType, InLabels DEF TypeOK, Steady
<1>6. Where = "finish" /\ Where' = "return" /\ Reused' = Reused
  BY <1>1 DEF Where, Reused
<1>7. Control'
  BY <1>1, <1>2, <1>4, <1>6 DEF Order, Control, peer
<1>8. Order'
  BY <1>1, <1>3, <1>6, <1>7, CalmOrder DEF Steady
<1>9. Chained(Output)' /\ Kept'
  BY <1>1, <1>3, SameOutput
<1>10. Waiting' /\ Answered' /\ Owing' /\ Tips'
  BY <1>1, <1>2, <1>3, <1>4, <1>6 DEF Writes, Waiting, Answered, Owing, Tips
<1> QED BY <1>3, <1>5, <1>8, <1>9, <1>10, PeerKept DEF Writes

\* Return preserves the invariant.
LEMMA ReturnStep ==
    ASSUME IInv, Return
    PROVE  IInv'
<1> USE DEF IInv
<1>1. /\ pc = "return" /\ StreamGone
      /\ \/ pc' = "upgraded" /\ resp.upgrading
         \/ pc' = "closed" /\ (resp.upgrading \/ ~resp.keep_alive)
         \/ pc' = "head" /\ resp.keep_alive /\ ~resp.upgrading
      /\ UNCHANGED <<peer, pos, conn, out, held, wire, ret, cur, resp, chunks, answered>>
  BY DEF Return
<1>2. cur \in Ids /\ cur > 0 /\ io.pending_continue = 0 /\ held = <<>>
  BY <1>1, Serving, NothingOwed DEF Writes, Waiting
<1>3. Leaving({"stream"})
  BY <1>1, <1>2, StreamLeaves
<1>4. /\ reqs' = reqs /\ UNCHANGED peer
      /\ io'.pending_continue = io.pending_continue
      /\ io'.body_generation = io.body_generation
  BY <1>3, LeavingKeeps
<1>5. TypeOK'
  BY <1>1, <1>3, LeavingType, InLabels DEF TypeOK
<1>6. /\ Where = "return" /\ Where' = pc' /\ Reused' = Reused
      /\ pc' \in {"upgraded", "head"} => Reused
  BY <1>1 DEF Where, Reused
<1>7. Control'
  BY <1>1, <1>2, <1>4, <1>6 DEF Order, Control
<1>8. Order'
  <2>1. pc' \in {"upgraded", "head"} => conn.body_read
    BY <1>6 DEF Order, Reading
  <2> QED BY <1>1, <1>3, <1>6, <1>7, <2>1, LeavingOrder
<1>9. Output' = Output
  BY <1>1 DEF Output
<1>10. Chained(Output)' /\ Kept'
  BY <1>1, <1>4, <1>9, SameOutput
<1>11. Waiting' /\ Owing'
  BY <1>1, <1>2, <1>4 DEF Writes, Waiting, Owing
<1>12. Answered' /\ Tips'
  BY <1>1, <1>2, <1>4, <1>6, <1>9 DEF Writes, Answered, Tips
<1> QED BY <1>4, <1>5, <1>8, <1>10, <1>11, <1>12, PeerKept DEF Writes

-----------------------------------------------------------------------------
(* The invariant, and what it shows.                                       *)

\* A step of a task preserves the invariant.
LEMMA TaskStepKeeps ==
    ASSUME IInv, TaskStep
    PROVE  IInv'
<1>1. UNCHANGED peer
  BY DEF TaskStep, bodyUnchanged
<1> QED BY <1>1, TaskType, TaskOrder, TaskWrites, PeerKept DEF IInv

\* Every step of a Body preserves the invariant.
LEMMA BodyStepKeeps ==
    ASSUME IInv, NEW i \in Ids, BodyStep(i)
    PROVE  IInv'
<1>1. Peer /\ TypeOK /\ Order
  BY DEF IInv
<1>2. CASE SendContinue(i)
  BY <1>2, SendContinueStep
<1>3. CASE ~SendContinue(i)
  <2>1. TaskStep
    BY <1>1, <1>3, BodyChunkStep, BodyFillStep, BodyEofStep, SendContinueFailsStep,
       DropBodyStep DEF BodyStep
  <2> QED BY <2>1, TaskStepKeeps
<1> QED BY <1>2, <1>3

\* Every step of the handler preserves the invariant.
LEMMA HandlerStepKeeps ==
    ASSUME IInv, HandlerStep
    PROVE  IInv'
<1>1. CASE StashBody
  BY <1>1, StashBodyStep, TaskStepKeeps DEF IInv
<1>2. CASE FirstPollPending
  BY <1>2, FirstPollPendingStep
<1>3. CASE \E rep \in Replies(reqs), moves \in BOOLEAN : HandlerReturns(rep, moves)
  BY <1>3, HandlerReturnsStep
<1>4. CASE \E n \in 0..Len(held) : HandlerPanics(n)
  BY <1>4, HandlerPanicsStep
<1> QED BY <1>1, <1>2, <1>3, <1>4 DEF HandlerStep

\* The invariant holds at first.
LEMMA InitStep ==
    ASSUME Init
    PROVE  IInv
<1>1. Peer
  BY DEF Init, Peer
<1>2. TypeOK
  <2>1. MaxReq \in Nat /\ MaxChunks \in Nat /\ Len(input) \in Nat
    BY <1>1, Constants, PeerIs
  <2>2. <<>> \in Seq(1..Len(input)) /\ <<>> \in Seq(RespUnits)
    BY EmptySeq
  <2>3. NoBody \in Bodies
    BY <2>1, <2>2 DEF NoBody, Bodies, Owners
  <2>4. body \in [Ids -> Bodies]
    BY <2>3 DEF Init
  <2>5. io \in IoStates /\ conn \in Flags /\ resp \in Dispositions
    BY <2>1, <2>2 DEF Init, IoStates, Flags, Dispositions, CLen
  <2> QED BY <2>1, <2>2, <2>4, <2>5, InLabels DEF Init, TypeOK
<1>3. /\ pc = "head" /\ Where = "head" /\ cur = 0 /\ answered = 0
      /\ io.body_generation = 0 /\ io.pending_continue = 0 /\ conn.body_read = FALSE
      /\ \A i \in Ids : body[i].owner = "none"
  BY DEF Init, Where, NoBody
<1>4. Order
  <2>1. Len(reqs) \in Nat
    BY <1>1, PeerIs
  <2>2. \A i \in Ids : ~(i <= 0) /\ ~Undone(i)
    BY <1>3 DEF Ids, Undone, Live
  <2>3. Control
    BY <1>3, <2>1 DEF Control
  <2>4. Custody
    BY <1>3, <2>2 DEF Custody
  <2>5. Reading
    BY <1>3, <2>2 DEF Reading
  <2> QED BY <2>3, <2>4, <2>5 DEF Order
<1>5. Output = <<>> /\ Tip(Output) = <<0, "z">> /\ Chained(Output)
  <2>1. Output = <<>>
    BY EmptySeq, ConcatEmptySeq DEF Init, Output
  <2> QED BY <2>1 DEF Tip, Chained
<1>6. Writes
  BY <1>3, <1>5 DEF Init, Writes, Waiting, Owing, Tips, Answered, Kept, Complete
<1> QED BY <1>1, <1>2, <1>4, <1>6 DEF IInv

\* A step that changes nothing preserves it.
LEMMA StutterStep ==
    ASSUME IInv, UNCHANGED vars
    PROVE  IInv'
<1>1. TaskStep
  <2>1. /\ UNCHANGED bodyUnchanged /\ UNCHANGED wire /\ pos' = pos
        /\ io' = io /\ body' = body /\ conn' = conn
    BY DEF vars, bodyUnchanged, peer
  <2>2. Typed /\ pos \in 0..Len(input)
    BY TypedIs DEF IInv, TypeOK
  <2>3. Quiet
    BY <2>1, <2>2, SameIsQuiet DEF Typed
  <2> QED BY <2>1, <2>2, <2>3 DEF TaskStep, Typed
<1> QED BY <1>1, TaskStepKeeps

\* Every step preserves it.
LEMMA NextStep ==
    ASSUME IInv, Found, Next
    PROVE  IInv'
<1>1. CASE LoopStep
  BY <1>1, ReadUntilHeadStep, SplitStep, SettleContinueStep, WriteErrorStep, FlushDoneStep,
     ComposeStep, FinishResponseStep, ReturnStep DEF LoopStep
<1>2. CASE PeerStep
  BY <1>2, HeadReadStep, HeadEofStep, SettleWriteStep, FlushWriteStep DEF PeerStep
<1>3. CASE WriteFails
  BY <1>3, SettleFailsStep, FlushFailsStep DEF WriteFails
<1>4. CASE HeadTimeout \/ BodyTimeout \/ HandlerTimeout \/ StreamTimeout
  BY <1>4, HeadTimeoutStep, BodyTimeoutStep, HandlerTimeoutStep, StreamTimeoutStep
<1>5. CASE HandlerStep
  BY <1>5, HandlerStepKeeps
<1>6. CASE StreamStep
  BY <1>6, StreamChunkStep, StreamPendingStep, StreamEndsStep, StreamErrorStep,
     StreamPanicsStep DEF StreamStep
<1>7. CASE \E i \in Ids : BodyStep(i)
  BY <1>7, BodyStepKeeps
<1>8. CASE Over
  BY <1>8, StutterStep DEF Over
<1> QED BY <1>1, <1>2, <1>3, <1>4, <1>5, <1>6, <1>7, <1>8 DEF Next

\* No Body's step happens between a head found and its split.
LEMMA NotWhileSplitting ==
    ASSUME NEW i \in Ids, BodyStep(i)
    PROVE  pc # "split" /\ pc' = pc /\ ret' = ret
<1>1. CanPoll(i) => pc # "split"
  BY DEF CanPoll, Parked
<1> QED BY <1>1 DEF BodyStep, BodyChunk, BodyFill, BodyEof, SendContinue, SendContinueFails,
             DropBody, Readable, bodyUnchanged

\* What is found stays found.
LEMMA FoundKept ==
    ASSUME Found, UNCHANGED <<peer, io, pc, ret>>
    PROVE  Found'
BY DEF Found, peer, HeadEnds, Terminates, IsBlank, Part

\* serve reaches the split only with a whole head in the buffer.
LEMMA FoundStep ==
    ASSUME IInv, Found, [Next]_vars
    PROVE  Found'
<1> USE DEF Found
<1>0. io \in IoStates /\ io.buf \in Seq(1..Len(input))
  BY IoFields DEF IInv, TypeOK
<1>1. CASE ReadUntilHead
  <2> DEFINE b == StripBlank(io.buf)
  <2>1. /\ io' = [io EXCEPT !.buf = b] /\ ret' = "head" /\ UNCHANGED peer
        /\ pc' = "split" => has_complete_head(b)
    BY <1>1 DEF ReadUntilHead
  <2>0. HeadEnds(b) # {} => ~IsBlank(b[1])
    BY <1>0, StripFirst
  <2>2. b \in Seq(1..Len(input))
    BY <1>0, IoFields, StripTyped
  <2> HIDE DEF b
  <2>3. io'.buf = b
    BY <1>0, <2>1, <2>2, IoBuf
  <2>4. pc' = "split" => HeadEnds(b) # {}
    BY <2>1, <2>2, HeadFound
  <2> QED BY <2>0, <2>1, <2>3, <2>4 DEF peer, HeadEnds, Terminates, IsBlank, Part
<1>2. CASE \E k \in 1..MaxRead : HeadRead(k)
  <2> PICK k \in 1..MaxRead : HeadRead(k)
    BY <1>2
  <2> DEFINE b == StripBlank(io.buf \o Fresh(k))
  <2>1. /\ io' = [io EXCEPT !.buf = b] /\ ret' # "split" /\ UNCHANGED peer
        /\ pc' = "split" => has_complete_head(b)
    BY DEF HeadRead
  <2>2. b \in Seq(1..Len(input)) /\ (HeadEnds(b) # {} => ~IsBlank(b[1]))
    <3>1. k \in Nat /\ pos \in Nat /\ Len(input) \in Nat /\ pos + k <= Len(input)
      BY Constants, PeerIs DEF HeadRead, IInv, TypeOK
    <3>2. Fresh(k) \in Seq(1..Len(input))
      BY <3>1, FreshIs
    <3>3. io.buf \o Fresh(k) \in Seq(1..Len(input))
      BY <1>0, <3>2, ConcatIs
    <3> QED BY <3>3, StripTyped, StripFirst
  <2> HIDE DEF b
  <2>3. io'.buf = b
    BY <1>0, <2>1, <2>2, IoBuf
  <2>4. pc' = "split" => HeadEnds(b) # {}
    BY <2>1, <2>2, HeadFound
  <2> QED BY <2>1, <2>2, <2>3, <2>4 DEF peer, HeadEnds, Terminates, IsBlank, Part
<1>3. CASE Split
  BY <1>3 DEF Split
<1>4. CASE SettleContinue \/ WriteError \/ FlushDone \/ Compose \/ FinishResponse \/ Return
  BY <1>4 DEF SettleContinue, WriteError, FlushDone, Compose, FinishResponse, Return, Flushing
<1>5. CASE HeadEof \/ SettleWrite \/ FlushWrite
  BY <1>5 DEF HeadEof, SettleWrite, FlushWrite
<1>6. CASE WriteFails \/ HeadTimeout \/ BodyTimeout \/ HandlerTimeout \/ StreamTimeout
  BY <1>6 DEF WriteFails, SettleFails, FlushFails, HeadTimeout, BodyTimeout, HandlerTimeout,
              StreamTimeout
<1>7. CASE HandlerStep
  BY <1>7 DEF HandlerStep, StashBody, FirstPollPending, AfterFirstPoll, HandlerReturns,
              HandlerPanics, bodyUnchanged
<1>8. CASE StreamStep
  BY <1>8 DEF StreamStep, StreamChunk, StreamPending, StreamEnds, StreamError, StreamPanics,
              Flushing
<1>9. CASE \E i \in Ids : BodyStep(i)
  BY <1>9, NotWhileSplitting
<1>10. CASE Over \/ UNCHANGED vars
  BY <1>10, FoundKept DEF Over, vars, peer
<1> QED BY <1>1, <1>2, <1>3, <1>4, <1>5, <1>6, <1>7, <1>8, <1>9, <1>10
        DEF Next, LoopStep, PeerStep

\* The inductive invariant of the connection.
THEOREM Inductive == Spec => [](IInv /\ Found)
<1>1. Init => IInv /\ Found
  BY InitStep DEF Init, Found
<1>2. IInv /\ Found /\ [Next]_vars => (IInv /\ Found)'
  <2> SUFFICES ASSUME IInv, Found, [Next]_vars PROVE (IInv /\ Found)'
    OBVIOUS
  <2>1. Found'
    BY FoundStep
  <2>2. IInv'
    BY NextStep, StutterStep
  <2> QED BY <2>1, <2>2
<1> QED BY <1>1, <1>2, PTL DEF Spec

\* Every variable of the connection keeps its type: a buffered position was
\* read from the transport, what a length body is owed never goes below zero,
\* and no more is owed of a 100 Continue than there is of it.
THEOREM ConnectionTyped == Spec => []TypeOK
<1>1. IInv /\ Found => TypeOK
  BY DEF IInv
<1> QED BY <1>1, Inductive, PTL

\* Two readers never share the socket: while serve reads a head, and once the
\* transport is handed off, no Body alive anywhere can still read.
THEOREM OneReaderAlways == Spec => []OneReader
<1>1. IInv /\ Found => OneReader
  <2> SUFFICES ASSUME IInv, pc \in {"head", "reading", "split", "upgraded"}
               PROVE  \A i \in Ids : ~Undone(i)
    BY DEF OneReader, Undone
  <2>1. CASE pc # "upgraded"
    BY <2>1, HeadIsQuiet DEF IInv, Where
  <2>2. CASE pc = "upgraded"
    <3>1. cur = io.body_generation /\ cur > 0 /\ conn.body_read
      BY <2>2 DEF IInv, Order, Control, Reading, Where
    <3> QED BY <3>1 DEF IInv, Order, Reading, Undone
  <2> QED BY <2>1, <2>2
<1> QED BY <1>1, Inductive, PTL

\* Finished responses never wait for the peer, a handler or a stream.
THEOREM NothingHeldBackAlways == Spec => []NothingHeldBack
<1>1. IInv /\ Found => NothingHeldBack
  BY DEF IInv, Writes, Waiting, NothingHeldBack
<1> QED BY <1>1, Inductive, PTL

\* What the peer receives, and what is about to follow, is one response per
\* request in order, each whole before the next, with a 100 Continue only
\* where one was asked for and only ahead of its own response.
THEOREM WireAlwaysWellFormed == Spec => []WireWellFormed
<1>1. IInv /\ Found => WireWellFormed
  <2> SUFFICES ASSUME IInv PROVE WireWellFormed
    OBVIOUS
  <2>1. Output \in Seq(RespUnits) /\ Len(Output) \in Nat
    BY OutputIs DEF IInv
  <2>2. Chained(Output)
    BY DEF IInv, Writes
  <2>3. Output # <<>> => Output[1] \in {<<1, "c1">>, <<1, "s">>}
    <3> SUFFICES ASSUME Output # <<>> PROVE Output[1] \in {<<1, "c1">>, <<1, "s">>}
      OBVIOUS
    <3>1. 1 \in 1..Len(Output) /\ Output[1] \in RespUnits
      BY <2>1
    <3>2. Follows(<<0, "z">>, Output[1])
      BY <2>2, <3>1 DEF Chained
    <3> QED BY <3>1, <3>2 DEF Follows, RespUnits
  <2>4. \A k \in 1..(Len(Output) - 1) : Follows(Output[k], Output[k + 1])
    <3> TAKE k \in 1..(Len(Output) - 1)
    <3>1. k + 1 \in 1..Len(Output) /\ k + 1 # 1 /\ (k + 1) - 1 = k
      BY <2>1
    <3> QED BY <2>2, <3>1 DEF Chained
  <2>5. \A k \in 1..Len(Output) : Output[k][2] = "c1" =>
            reqs[Output[k][1]].expect /\ ~reqs[Output[k][1]].http10
    BY <2>2 DEF Chained, Expects
  <2> QED BY <2>3, <2>4, <2>5 DEF WireWellFormed, Output
<1> QED BY <1>1, Inductive, PTL

\* When the connection ends, every response composed in full is on the wire
\* unless the transport refused bytes.
THEOREM FinishedResponsesAlwaysSurvive == Spec => []FinishedResponsesSurvive
<1>1. IInv /\ Found => FinishedResponsesSurvive
  <2> SUFFICES ASSUME IInv, pc \in Ended, ~conn.broken
               PROVE  /\ out = <<>> /\ held = <<>>
                      /\ \A i \in 1..answered : <<i, "z">> \in Range(wire)
    BY DEF FinishedResponsesSurvive
  <2>1. out = <<>> /\ held = <<>>
    BY DEF IInv, Writes, Waiting
  <2>2. Output = wire
    BY <2>1, OutputIs DEF IInv
  <2> QED BY <2>1, <2>2 DEF IInv, Writes, Kept, Complete
<1> QED BY <1>1, Inductive, PTL
=============================================================================
