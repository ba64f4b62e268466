--------------------------- MODULE FramingProofs ---------------------------
(***************************************************************************)
(* Theorems about a request's head on its way to a handler and about the   *)
(* head of the answer, of modules RequestHead, Framing, ResponseHead and   *)
(* Bridge: for every request, every rewrite of a target, every response    *)
(* and every value of the limits.                                          *)
(*                                                                         *)
(* The invariants are simple (HeadOnItsWay: which head and which verdict   *)
(* there is at each stage; Answered: of what an answer is made).  The work *)
(* is in what the operators compute on byte strings and fields.  They are  *)
(* recursive functions over sequences; each is shown to be a fold          *)
(* (FoldIs), and what it computes follows by induction on the sequence     *)
(* (SeqInduction, for a set in place of a predicate).                      *)
(*                                                                         *)
(* One reading: an element that parse_content_length or IsChunked accepts  *)
(* has nothing to strip, so all readers see the same elements, and to join *)
(* values into a list leaves their elements as they are (AllCombined).     *)
(* One authority: what valid_host and valid_port accept leaves one place   *)
(* at which to cut (ShapeCuts).                                            *)
(* Hyper: http::Uri spells an absolute target anew (Respelled), and leaves *)
(* every part of it that anyone goes by where it was.                      *)
(* Answers: a head is known by what a peer reads in it (Shows), part by    *)
(* part (ShowsBoth); what either backend makes of the handler's fields is  *)
(* computed field by field (MapMap), and a number that is written is read  *)
(* back (DecimalIs).                                                       *)
(***************************************************************************)
EXTENDS Bridge, SequenceTheorems, WellFoundedInduction, TLAPS

-----------------------------------------------------------------------------
(* Slices, and the splits of a target.                                     *)

\* A byte, as module RequestHead writes it: a symbol.  Those that the backends
\* write are named for the provers, which need to be told that they are strings.
Byte == STRING \cup {",", "a", "chunked", "close", "keep-alive", "http", "https"}
        \cup DOMAIN Digit

\* A byte string.
Bytes == Seq(Byte)

\* Every non-empty set of naturals has a least element.
LEMMA Least ==
    ASSUME NEW S, S \subseteq Nat, S # {}
    PROVE  \E n \in S : \A m \in S : n <= m
<1>1. PICK n \in S : \A m \in S : ~(<<m, n>> \in OpToRel(<, Nat))
  BY NatLessThanWellFounded, WFMin
<1>2. \A m \in S : ~(m < n)
  <2> TAKE m \in S
  <2>1. <<m, n>> \in Nat \X Nat
    OBVIOUS
  <2>2. <<m, n>>[1] = m /\ <<m, n>>[2] = n
    OBVIOUS
  <2> QED BY <1>1, <2>1, <2>2 DEF OpToRel
<1> QED BY <1>2

\* The first of the places S of a sequence.
LEMMA FirstOf ==
    ASSUME NEW t, NEW n \in Nat, DOMAIN t = 1..n, NEW S, S \subseteq DOMAIN t, S # {}
    PROVE  \E i \in DOMAIN t : i \in S /\ \A j \in 1..(i - 1) : j \notin S
<1>1. PICK i \in S : \A j \in S : i <= j
  BY Least
<1> QED BY <1>1

\* find_query finds the first question mark.
LEMMA QueryFound ==
    ASSUME NEW t \in Bytes
    PROVE  LET q == find_query(t) IN
           \/ q = None /\ \A i \in DOMAIN t : t[i] # "?"
           \/ /\ q \in 0..(Len(t) - 1) /\ t[q + 1] = "?"
              /\ \A i \in 1..q : t[i] # "?"
<1> DEFINE S == {i \in DOMAIN t : t[i] = "?"}
           Is(i) == t[i] = "?" /\ \A j \in 1..(i - 1) : t[j] # "?"
<1>1. Len(t) \in Nat /\ DOMAIN t = 1..Len(t)
  BY DEF Bytes
<1>2. CASE S = {}
  <2>1. ~ \E i \in DOMAIN t : t[i] = "?"
    BY <1>2
  <2>2. find_query(t) = None
    BY <2>1 DEF find_query, Position
  <2> QED BY <2>1, <2>2
<1>3. CASE S # {}
  <2>1. \E i \in DOMAIN t : Is(i)
    <3>1. PICK i \in DOMAIN t : i \in S /\ \A j \in 1..(i - 1) : j \notin S
      BY <1>1, <1>3, FirstOf
    <3>2. \A j \in 1..(i - 1) : j \in DOMAIN t
      BY <1>1, <3>1
    <3> QED BY <3>1, <3>2
  <2> DEFINE c == CHOOSE i \in DOMAIN t : Is(i)
  <2>2. c \in DOMAIN t /\ Is(c)
    BY <2>1
  <2>3. find_query(t) = c - 1
    BY <1>3 DEF find_query, Position
  <2> HIDE DEF c
  <2> QED BY <1>1, <2>2, <2>3
<1> QED BY <1>2, <1>3

\* A slice, byte by byte.
LEMMA SliceIs ==
    ASSUME NEW t \in Bytes, NEW a \in Nat, NEW b \in Nat, a <= b, b <= Len(t)
    PROVE  /\ Slice(t, a, b) \in Bytes /\ Len(Slice(t, a, b)) = b - a
           /\ DOMAIN Slice(t, a, b) = 1..(b - a)
           /\ \A i \in 1..(b - a) : Slice(t, a, b)[i] = t[a + i]
<1>1. Len(t) \in Nat /\ DOMAIN t = 1..Len(t)
  BY DEF Bytes
<1>2. \A i \in (a + 1)..b : t[i] \in Byte
  BY <1>1 DEF Bytes
<1>3. SubSeq(t, a + 1, b) = [i \in 1..(b - a) |-> t[a + i]]
  BY <1>1, <1>2, SubSeqProperties DEF Bytes
<1>4. \A i \in 1..(b - a) : t[a + i] \in Byte
  BY <1>2
<1> QED BY <1>3, <1>4 DEF Slice, Bytes

\* Slices that meet.
LEMMA SliceJoin ==
    ASSUME NEW t \in Bytes, NEW a \in Nat, NEW b \in Nat, NEW c \in Nat, a <= b, b <= c, c <= Len(t)
    PROVE  Slice(t, a, b) \o Slice(t, b, c) = Slice(t, a, c)
<1> DEFINE u == Slice(t, a, b)
           v == Slice(t, b, c)
           w == Slice(t, a, c)
<1>a. Len(t) \in Nat
  BY DEF Bytes
<1>0. Len(t) \in Nat /\ b <= Len(t) /\ a <= c
  BY <1>a
<1>1. u \in Bytes /\ Len(u) = b - a /\ \A i \in 1..(b - a) : u[i] = t[a + i]
  BY <1>0, SliceIs
<1>2. v \in Bytes /\ Len(v) = c - b /\ \A i \in 1..(c - b) : v[i] = t[b + i]
  BY <1>0, SliceIs
<1>3. w \in Bytes /\ Len(w) = c - a /\ \A i \in 1..(c - a) : w[i] = t[a + i]
  BY <1>0, SliceIs
<1> HIDE DEF u, v, w
<1>4. /\ u \o v \in Bytes /\ Len(u \o v) = Len(u) + Len(v)
      /\ \A i \in 1..(Len(u) + Len(v)) : (u \o v)[i] = IF i <= Len(u) THEN u[i] ELSE v[i - Len(u)]
  BY <1>1, <1>2, ConcatProperties DEF Bytes
<1>5. Len(u \o v) = c - a
  BY <1>1, <1>2, <1>4
<1>6. ASSUME NEW i \in 1..(c - a) PROVE (u \o v)[i] = w[i]
  <2>1. CASE i <= b - a
    BY <1>1, <1>2, <1>3, <1>4, <2>1
  <2>2. CASE ~(i <= b - a)
    <3>1. i - (b - a) \in 1..(c - b)
      BY <2>2
    <3>2. (u \o v)[i] = v[i - (b - a)]
      BY <1>1, <1>2, <1>4, <2>2
    <3>3. b + (i - (b - a)) = a + i
      OBVIOUS
    <3> QED BY <1>2, <1>3, <3>1, <3>2, <3>3
  <2> QED BY <2>1, <2>2
<1>7. u \o v = w
  BY <1>3, <1>4, <1>5, <1>6, SeqEqual DEF Bytes
<1> QED BY <1>7 DEF u, v, w

\* All of it, and none of it.
LEMMA SliceAll ==
    ASSUME NEW t \in Bytes
    PROVE  Slice(t, 0, Len(t)) = t
<1>0. Len(t) \in Nat
  BY DEF Bytes
<1> DEFINE n == Len(t)
           u == Slice(t, 0, n)
<1>1. u \in Bytes /\ Len(u) = n - 0 /\ \A i \in 1..(n - 0) : u[i] = t[0 + i]
  <2> 0 \in Nat /\ n \in Nat /\ 0 <= n /\ n <= Len(t)
    BY <1>0
  <2> HIDE DEF n
  <2> QED BY SliceIs
<1>2. Len(u) = Len(t) /\ \A i \in 1..Len(u) : u[i] = t[i]
  <2> HIDE DEF u
  <2> QED BY <1>0, <1>1
<1> HIDE DEF u
<1>3. u = t
  BY <1>1, <1>2, SeqEqual DEF Bytes
<1> QED BY <1>3 DEF u

\* SchemeEnd is the offset of a "://".
LEMMA SchemeFound ==
    ASSUME NEW t \in Bytes, NEW k, k = SchemeEnd(t), k # None
    PROVE  /\ k \in Nat /\ k + 3 <= Len(t)
           /\ Slice(t, k, k + 3) = <<":", "/", "/">>
           /\ t[k + 1] = ":" /\ t[k + 2] = "/" /\ t[k + 3] = "/"
<1> DEFINE at == {i \in 0..(Len(t) - 3) : Slice(t, i, i + 3) = <<":", "/", "/">>}
           First(i) == \A j \in at : i <= j
<1>1. Len(t) \in Nat
  BY DEF Bytes
<1>2. at # {}
  BY DEF SchemeEnd
<1>3. \E i \in at : First(i)
  <2>1. at \subseteq Nat
    BY <1>1
  <2> HIDE DEF at
  <2> QED BY <1>2, <2>1, Least
<1>4. k = CHOOSE i \in at : First(i)
  BY <1>2 DEF SchemeEnd
<1>5. k \in at
  BY <1>3, <1>4
<1>6. k \in Nat /\ k + 3 \in Nat /\ k <= k + 3 /\ k + 3 <= Len(t) /\ Slice(t, k, k + 3) = <<":", "/", "/">>
  BY <1>1, <1>5
<1> DEFINE c == k + 3
<1> HIDE DEF at
<1>7. \A i \in 1..(c - k) : Slice(t, k, c)[i] = t[k + i]
  <2> c \in Nat /\ k <= c /\ c <= Len(t)
    BY <1>6
  <2> HIDE DEF c
  <2> QED BY <1>6, SliceIs
<1>8. 1 \in 1..(c - k) /\ 2 \in 1..(c - k) /\ 3 \in 1..(c - k)
  BY <1>6
<1>9. Slice(t, k, c) = <<":", "/", "/">>
  BY <1>6
<1>10. t[k + 1] = Slice(t, k, c)[1] /\ t[k + 2] = Slice(t, k, c)[2] /\ t[k + 3] = Slice(t, k, c)[3]
  <2> HIDE DEF c
  <2> QED BY <1>7, <1>8
<1>11. t[k + 1] = ":" /\ t[k + 2] = "/" /\ t[k + 3] = "/"
  <2> HIDE DEF c
  <2> QED BY <1>9, <1>10
<1> QED BY <1>6, <1>11

\* find_absolute_authority: where the authority of an absolute target is.
InAuthority(t, r) ==
    /\ t # <<>> /\ t[1] \notin {"/", "*"} /\ AbsoluteForm(t)
    /\ r.start \in Nat /\ r.start = SchemeEnd(t) + 3 /\ r.end \in Nat
    /\ r.start <= r.end /\ r.end <= Len(t)
    /\ r.end < Len(t) => t[r.end + 1] \in {"/", "?", "#"}
    /\ \A i \in (r.start + 1)..r.end : t[i] \notin {"/", "?", "#"}

\* find_absolute_authority's range has that form.
LEMMA AuthorityFound ==
    ASSUME NEW t \in Bytes, NEW r, r = find_absolute_authority(t), r # NoRange
    PROVE  InAuthority(t, r)
<1> DEFINE k == SchemeEnd(t)
           start == k + 3
           u == Slice(t, start, Len(t))
           Stop(b) == b \in {"/", "?", "#"}
           n == Position(u, Stop)
<1>1. t # <<>> /\ t[1] \notin {"/", "*"} /\ AbsoluteForm(t)
  BY DEF find_absolute_authority
<1>2. r = [start |-> start, end |-> IF n = None THEN Len(t) ELSE start + n]
  BY <1>1 DEF find_absolute_authority
<1>3. Len(t) \in Nat /\ k \in Nat /\ k + 3 <= Len(t)
  BY <1>1, SchemeFound DEF AbsoluteForm, Bytes
<1>4. start \in Nat /\ start <= Len(t)
  BY <1>3
<1> HIDE DEF start
<1>5. /\ u \in Bytes /\ DOMAIN u = 1..(Len(t) - start)
      /\ \A i \in 1..(Len(t) - start) : u[i] = t[start + i]
  <2> DEFINE z == Len(t)
  <2> z \in Nat /\ z <= Len(t) /\ start <= z
    BY <1>3, <1>4
  <2> HIDE DEF z
  <2>1. /\ Slice(t, start, z) \in Bytes /\ DOMAIN Slice(t, start, z) = 1..(z - start)
        /\ \A i \in 1..(z - start) : Slice(t, start, z)[i] = t[start + i]
    BY <1>4, SliceIs
  <2> QED BY <2>1 DEF z
<1> HIDE DEF u
<1> DEFINE Is(i) == Stop(u[i]) /\ \A j \in 1..(i - 1) : ~Stop(u[j])
           S == {i \in DOMAIN u : Stop(u[i])}
<1>6. CASE S = {}
  <2>1. ~ \E i \in DOMAIN u : Stop(u[i])
    BY <1>6
  <2>2. n = None
    BY <2>1 DEF Position
  <2>3. r.start = start /\ r.end = Len(t)
    BY <1>2, <2>2
  <2>4. ASSUME NEW i \in (start + 1)..Len(t) PROVE ~Stop(t[i])
    <3>1. i - start \in 1..(Len(t) - start) /\ start + (i - start) = i
      BY <1>3, <1>4
    <3>2. u[i - start] = t[i]
      BY <1>5, <3>1
    <3> QED BY <1>5, <2>1, <3>1, <3>2
  <2>5. start = SchemeEnd(t) + 3
    BY DEF start
  <2> HIDE DEF n
  <2> QED BY <1>1, <1>3, <1>4, <2>3, <2>4, <2>5 DEF InAuthority
<1>7. CASE S # {}
  <2>1. \E i \in DOMAIN u : Is(i)
    <3>0. Len(t) - start \in Nat
      BY <1>3, <1>4
    <3>1. PICK i \in DOMAIN u : i \in S /\ \A j \in 1..(i - 1) : j \notin S
      BY <1>5, <1>7, <3>0, FirstOf
    <3>2. \A j \in 1..(i - 1) : j \in DOMAIN u
      BY <1>5, <3>0, <3>1
    <3> QED BY <3>1, <3>2
  <2> DEFINE c == CHOOSE i \in DOMAIN u : Is(i)
  <2>2. c \in DOMAIN u /\ Is(c)
    BY <2>1
  <2>3. n = c - 1
    BY <1>7 DEF Position
  <2> HIDE DEF c, n
  <2>4. c \in 1..(Len(t) - start) /\ c - 1 \in Nat /\ n # None
    BY <1>3, <1>4, <1>5, <2>2, <2>3 DEF None
  <2>5. r.start = start /\ r.end = start + (c - 1)
    BY <1>2, <2>3, <2>4
  <2>6. Stop(t[start + c])
    BY <1>5, <2>2, <2>4
  <2>7. ASSUME NEW i \in (start + 1)..(start + (c - 1)) PROVE ~Stop(t[i])
    <3>1. i - start \in 1..(c - 1) /\ i - start \in 1..(Len(t) - start) /\ start + (i - start) = i
      BY <1>3, <1>4, <2>4
    <3>2. u[i - start] = t[i]
      BY <1>5, <3>1
    <3> QED BY <2>2, <3>1, <3>2
  <2>8. start = SchemeEnd(t) + 3
    BY DEF start
  <2>9. start + (c - 1) \in Nat /\ start <= start + (c - 1) /\ start + (c - 1) <= Len(t)
        /\ (start + (c - 1)) + 1 = start + c
    BY <1>3, <1>4, <2>4
  <2> QED BY <1>1, <1>4, <2>5, <2>6, <2>7, <2>8, <2>9 DEF InAuthority
<1> QED BY <1>6, <1>7

\* The bytes of a valid scheme, and of a target that parsed.
LEMMA NotInScheme ==
    ASSUME NEW s, valid_scheme(s)
    PROVE  \A i \in DOMAIN s : s[i] # "?"
<1>1. ~is_ascii_alphanumeric("?")
  BY DEF is_ascii_alphanumeric, is_ascii_alphabetic, is_ascii_digit, Digit, Digits, ToSet
<1> QED BY <1>1 DEF valid_scheme

\* A target that parsed has no fragment.
LEMMA NotInTarget ==
    ASSUME NEW t, validate_target(t)
    PROVE  \A i \in DOMAIN t : t[i] # "#"
<1>1. ~is_ascii_alphanumeric("#")
  BY DEF is_ascii_alphanumeric, is_ascii_alphabetic, is_ascii_digit, Digit, Digits, ToSet
<1>2. "#" \notin TargetBytes
  BY DEF TargetBytes
<1> QED BY <1>1, <1>2 DEF validate_target

\* A query begins after the authority.
LEMMA QueryAfter ==
    ASSUME NEW t \in Bytes, NEW r, InAuthority(t, r)
    PROVE  \A i \in 1..r.end : t[i] # "?"
<1> DEFINE k == SchemeEnd(t)
<1>1. Len(t) \in Nat /\ k \in Nat /\ k + 3 <= Len(t) /\ t[k + 1] = ":" /\ t[k + 2] = "/" /\ t[k + 3] = "/"
  BY SchemeFound DEF InAuthority, AbsoluteForm, Bytes
<1>2. r.start = k + 3 /\ r.end \in Nat /\ r.end <= Len(t) /\ \A i \in (k + 4)..r.end : t[i] # "?"
  <2>1. r.start = k + 3 /\ r.end \in Nat /\ r.end <= Len(t) /\ \A i \in (r.start + 1)..r.end : t[i] # "?"
    BY DEF InAuthority
  <2> HIDE DEF k
  <2>2. r.start + 1 = k + 4
    BY <1>1, <2>1
  <2> QED BY <2>1, <2>2
<1>3. valid_scheme(Slice(t, 0, k))
  BY DEF InAuthority, AbsoluteForm
<1> HIDE DEF k
<1>4. \A i \in 1..k : t[i] # "?"
  <2>0. 0 \in Nat /\ 0 <= k /\ k <= Len(t)
    BY <1>1
  <2>1. DOMAIN Slice(t, 0, k) = 1..(k - 0) /\ \A i \in 1..(k - 0) : Slice(t, 0, k)[i] = t[0 + i]
    BY <1>1, <2>0, SliceIs
  <2>2. \A i \in DOMAIN Slice(t, 0, k) : Slice(t, 0, k)[i] # "?"
    BY <1>3, NotInScheme
  <2> DEFINE u == Slice(t, 0, k)
  <2> HIDE DEF u
  <2>3. \A i \in 1..(k - 0) : u[i] = t[0 + i] /\ u[i] # "?"
    BY <2>1, <2>2 DEF u
  <2> QED BY <1>1, <2>3
<1>5. ASSUME NEW i \in 1..r.end PROVE t[i] # "?"
  <2>1. i \in 1..k \/ i = k + 1 \/ i = k + 2 \/ i = k + 3 \/ i \in (k + 4)..r.end
    BY <1>1, <1>2
  <2> QED BY <1>1, <1>2, <1>4, <2>1
<1> QED BY <1>5

\* One byte, as a slice.
LEMMA SliceOne ==
    ASSUME NEW t \in Bytes, NEW i \in Nat, i < Len(t)
    PROVE  Slice(t, i, i + 1) = <<t[i + 1]>>
<1> DEFINE j == i + 1
           u == Slice(t, i, j)
           w == <<t[j]>>
<1>0. j \in Nat /\ i <= j /\ j <= Len(t) /\ j - i = 1 /\ Len(t) \in Nat
  BY DEF Bytes
<1>1. t[j] \in Byte
  BY <1>0 DEF Bytes
<1> HIDE DEF j
<1>2. u \in Bytes /\ Len(u) = j - i /\ \A n \in 1..(j - i) : u[n] = t[i + n]
  BY <1>0, SliceIs
<1>3. w \in Bytes /\ Len(w) = 1 /\ w[1] = t[j]
  BY <1>1 DEF Bytes
<1>4. Len(u) = 1 /\ u[1] = t[j]
  BY <1>0, <1>2 DEF j
<1> HIDE DEF u, w
<1>5. \A n \in 1..Len(u) : u[n] = w[n]
  BY <1>3, <1>4
<1>6. u = w
  BY <1>2, <1>3, <1>4, <1>5, SeqEqual DEF Bytes
<1> QED BY <1>6 DEF u, w, j

\* An empty slice.
LEMMA SliceNone ==
    ASSUME NEW t \in Bytes, NEW i \in Nat, i <= Len(t)
    PROVE  Slice(t, i, i) = <<>>
<1>1. Slice(t, i, i) \in Bytes /\ Len(Slice(t, i, i)) = i - i
  BY SliceIs
<1> DEFINE u == Slice(t, i, i)
<1> HIDE DEF u
<1>2. u \in Bytes /\ Len(u) = 0
  BY <1>1 DEF u
<1>3. u = <<>>
  BY <1>2 DEF Bytes
<1> QED BY <1>3 DEF u

\* h is what Head::new and set_target make of its target.
Whole(h) ==
    /\ h.target \in Bytes
    /\ h.query_at = find_query(h.target)
    /\ h.authority_at = find_absolute_authority(h.target)

\* SliceJoin for all places of a sequence at once.
LEMMA SlicesJoin ==
    ASSUME NEW t \in Bytes
    PROVE  \A a, b, c \in Nat : a <= b /\ b <= c /\ c <= Len(t) =>
               Slice(t, a, b) \o Slice(t, b, c) = Slice(t, a, c)
BY SliceJoin

\* The path ends in the target, and what follows is the query with its mark.
LEMMA QueryIs ==
    ASSUME NEW h, Whole(h), NEW t, t = h.target, NEW p, p = PathEnd(h)
    PROVE  /\ t \in Bytes /\ Len(t) \in Nat /\ p \in Nat /\ p <= Len(t)
           /\ h.query_at < Len(t)
           /\ (IF h.query_at = None THEN <<>> ELSE <<"?">> \o query(h)) = Slice(t, p, Len(t))
           /\ \A i \in 1..p : t[i] # "?"
           /\ p < Len(t) => t[p + 1] = "?"
<1> DEFINE q == h.query_at
           n == Len(t)
<1>1. t \in Bytes /\ n \in Nat /\ q = find_query(t) /\ DOMAIN t = 1..n
  BY DEF Whole, Bytes
<1>2. \/ q = None /\ \A i \in DOMAIN t : t[i] # "?"
      \/ /\ q \in 0..(n - 1) /\ t[q + 1] = "?"
         /\ \A i \in 1..q : t[i] # "?"
  BY <1>1, QueryFound
<1>3. CASE q = None
  <2>1. p = n
    BY <1>3 DEF PathEnd
  <2>2. Slice(t, n, n) = <<>>
    <3> HIDE DEF n
    <3> n <= Len(t)
      BY <1>1 DEF n
    <3> QED BY <1>1, SliceNone
  <2>3. \A i \in 1..n : t[i] # "?"
    BY <1>1, <1>2, <1>3 DEF None
  <2>4. q < n
    BY <1>1, <1>3 DEF None
  <2> QED BY <1>1, <1>3, <2>1, <2>2, <2>3, <2>4
<1>4. CASE q # None
  <2>1. p = q
    BY <1>4 DEF PathEnd
  <2>2. q \in Nat /\ q < n /\ t[q + 1] = "?" /\ \A i \in 1..q : t[i] # "?"
    BY <1>1, <1>2, <1>4
  <2>3. query(h) = Slice(t, q + 1, n)
    BY <1>4 DEF query
  <2>4. <<"?">> = Slice(t, q, q + 1)
    <3> HIDE DEF q
    <3> QED BY <1>1, <2>2, SliceOne
  <2>5. Slice(t, q, q + 1) \o Slice(t, q + 1, n) = Slice(t, q, n)
    <3> DEFINE m == q + 1
    <3>0. t \in Bytes /\ q \in Nat /\ m \in Nat /\ n \in Nat /\ q <= m /\ m <= n /\ n <= Len(t)
      BY <1>1, <2>2
    <3> HIDE DEF m, n, q
    <3>1. Slice(t, q, m) \o Slice(t, m, n) = Slice(t, q, n)
      BY <3>0, SlicesJoin
    <3> QED BY <3>1 DEF m
  <2> HIDE DEF q, n
  <2>6. q <= n
    BY <1>1, <2>2
  <2> QED BY <1>1, <1>4, <2>1, <2>2, <2>3, <2>4, <2>5, <2>6 DEF q, n
<1> QED BY <1>3, <1>4

\* Scheme, mark and authority.
LEMMA PrefixIs ==
    ASSUME NEW h, Whole(h), NEW t, t = h.target, NEW r, r = h.authority_at, r # NoRange
    PROVE  absolute_scheme(h) \o <<":", "/", "/">> \o authority(h) = Slice(t, 0, r.end)
<1> DEFINE k == SchemeEnd(t)
           s == r.start
           e == r.end
<1>1. t \in Bytes /\ Len(t) \in Nat /\ InAuthority(t, r)
  BY AuthorityFound DEF Whole, Bytes
<1>2. s \in Nat /\ s = k + 3 /\ e \in Nat /\ s <= e /\ e <= Len(t) /\ k # None
  BY <1>1 DEF InAuthority, AbsoluteForm
<1>3. k \in Nat /\ Slice(t, k, k + 3) = <<":", "/", "/">>
  BY <1>1, <1>2, SchemeFound
<1>4. absolute_scheme(h) = Slice(t, 0, s - 3) /\ authority(h) = Slice(t, s, e)
  BY DEF absolute_scheme, authority
<1> HIDE DEF k, s, e
<1>5. s - 3 = k /\ k <= s /\ s <= Len(t) /\ 0 \in Nat /\ 0 <= k /\ 0 <= s
  BY <1>1, <1>2, <1>3
<1>a. t \in Bytes /\ s \in Nat /\ e \in Nat /\ 0 \in Nat /\ 0 <= s /\ s <= e /\ e <= Len(t)
  BY <1>1, <1>2
<1>6. Slice(t, k, s) = <<":", "/", "/">>
  BY <1>2, <1>3
<1>7. Slice(t, 0, k) \o Slice(t, k, s) = Slice(t, 0, s)
  <2>1. t \in Bytes /\ 0 \in Nat /\ k \in Nat /\ s \in Nat /\ 0 <= k /\ k <= s /\ s <= Len(t)
    BY <1>1, <1>2, <1>3, <1>5
  <2> QED BY <2>1, SlicesJoin
<1>8. Slice(t, 0, s) \o Slice(t, s, e) = Slice(t, 0, e)
  BY <1>a, SlicesJoin
<1>9. absolute_scheme(h) = Slice(t, 0, k)
  BY <1>4, <1>5
<1> QED BY <1>4, <1>6, <1>7, <1>8, <1>9 DEF e

\* The splits that Head keeps stay inside the target and put it together again.
LEMMA SplitsAreExact ==
    ASSUME NEW h, Whole(h)
    PROVE  InRange(h) /\ SplitsFit(h)
<1> DEFINE t == h.target
           n == Len(t)
           r == h.authority_at
           e == r.end
           p == PathEnd(h)
           before == IF r = NoRange THEN <<>> ELSE absolute_scheme(h) \o <<":", "/", "/">> \o authority(h)
           after == IF h.query_at = None THEN <<>> ELSE <<"?">> \o query(h)
<1>1. /\ t \in Bytes /\ n \in Nat /\ p \in Nat /\ p <= n /\ h.query_at < n
      /\ after = Slice(t, p, n) /\ (p < n => t[p + 1] = "?")
  <2> HIDE DEF p
  <2> QED BY QueryIs DEF p
<1>2. n <= Len(t) /\ 0 \in Nat /\ 0 <= p /\ 0 <= n
  BY <1>1
<1>3. Slice(t, 0, n) = t
  BY <1>1, SliceAll
<1>4. CASE r = NoRange
  <2>1. path(h) = Slice(t, 0, p) /\ before = <<>>
    BY <1>4 DEF path
  <2>2. Slice(t, 0, p) \o Slice(t, p, n) = Slice(t, 0, n)
    <3> HIDE DEF p, n, t
    <3> QED BY <1>1, <1>2, SliceJoin
  <2>3. <<>> \o Slice(t, 0, p) = Slice(t, 0, p)
    <3> HIDE DEF p, t
    <3>1. 0 \in Nat /\ p <= Len(t)
      BY <1>1, <1>2 DEF n
    <3>2. Slice(t, 0, p) \in Bytes
      BY <1>1, <1>2, <3>1, SliceIs
    <3> DEFINE w == Slice(t, 0, p)
    <3> HIDE DEF w
    <3>3. <<>> \o w = w
      BY <3>2, ConcatEmptySeq DEF w, Bytes
    <3> QED BY <3>3 DEF w
  <2>4. t = before \o path(h) \o after
    <3> HIDE DEF p, t, n, before, after
    <3> QED BY <1>1, <1>3, <2>1, <2>2, <2>3
  <2>5. e = -1
    BY <1>4 DEF NoRange, None
  <2>6. e <= n
    BY <1>1, <2>5
  <2> QED BY <1>1, <2>4, <2>6 DEF InRange, SplitsFit
<1>5. CASE r # NoRange
  <2>1. InAuthority(t, r)
    BY <1>1, <1>5, AuthorityFound DEF Whole
  <2>2. before = Slice(t, 0, e)
    <3>1. absolute_scheme(h) \o <<":", "/", "/">> \o authority(h) = Slice(t, 0, e)
      BY <1>5, PrefixIs
    <3> QED BY <1>5, <3>1
  <2>3. e \in Nat /\ e <= n /\ 0 <= e
    BY <2>1 DEF InAuthority
  <2>4. e <= p
    <3>1. \A i \in 1..e : t[i] # "?"
      BY <1>1, <2>1, QueryAfter
    <3> HIDE DEF p, t, e
    <3> QED BY <1>1, <2>3, <3>1
  <2>5. InRange(h)
    BY <1>1, <2>3 DEF InRange
  <2>6. CASE e < p
    <3>1. path(h) = Slice(t, e, p)
      BY <1>5, <2>6 DEF path
    <3>2. Slice(t, 0, e) \o Slice(t, e, p) = Slice(t, 0, p)
      <4> HIDE DEF p, t, e
      <4> p <= Len(t)
        BY <1>1 DEF n
      <4> QED BY <1>1, <1>2, <2>3, <2>4, SliceJoin
    <3>3. Slice(t, 0, p) \o Slice(t, p, n) = Slice(t, 0, n)
      <4> HIDE DEF p, n, t
      <4> QED BY <1>1, <1>2, SliceJoin
    <3>4. t = before \o path(h) \o after
      <4> HIDE DEF p, t, n, e, before, after
      <4> QED BY <1>1, <1>3, <2>2, <3>1, <3>2, <3>3
    <3> QED BY <2>5, <3>4 DEF SplitsFit
  <2>7. CASE ~(e < p)
    <3>1. e = p
      <4> HIDE DEF e, p
      <4> QED BY <1>1, <2>3, <2>4, <2>7
    <3>2. path(h) = <<"/">>
      BY <1>5, <2>7 DEF path
    <3>3. Slice(t, 0, p) \o Slice(t, p, n) = Slice(t, 0, n)
      <4> HIDE DEF p, n, t
      <4> QED BY <1>1, <1>2, SliceJoin
    <3>4. t = before \o after
      <4> HIDE DEF p, t, n, e, before, after
      <4> QED BY <1>1, <1>3, <2>2, <3>1, <3>3
    <3> QED BY <1>5, <2>5, <3>2, <3>4 DEF SplitsFit
  <2> QED BY <2>6, <2>7
<1> QED BY <1>4, <1>5

\* The first byte.
LEMMA SliceFirst ==
    ASSUME NEW u \in Bytes, 0 < Len(u)
    PROVE  Slice(u, 0, 1) = <<u[1]>>
<1>1. 0 \in Nat /\ 0 + 1 = 1
  OBVIOUS
<1>2. Slice(u, 0, 0 + 1) = <<u[0 + 1]>>
  BY <1>1, SliceOne
<1> QED BY <1>1, <1>2

\* A slice that begins with a slash.
LEMMA SliceRooted ==
    ASSUME NEW t \in Bytes, NEW a \in Nat, NEW b \in Nat, a < b, b <= Len(t), t[a + 1] = "/",
           NEW u, u = Slice(t, a, b)
    PROVE  Slice(u, 0, 1) = <<"/">>
<1>0. a <= b
  OBVIOUS
<1>1. u \in Bytes /\ Len(u) = b - a /\ \A i \in 1..(b - a) : u[i] = t[a + i]
  BY <1>0, SliceIs
<1>2. 0 < Len(u) /\ u[1] = "/"
  BY <1>1
<1> QED BY <1>1, <1>2, SliceFirst

\* The path of a target without one begins with a slash too.
LEMMA SliceSlash == Slice(<<"/">>, 0, 1) = <<"/">>
<1> DEFINE u == <<"/">>
           v == SubSeq(u, 1, 1)
<1>1. u \in Seq({"/"}) /\ Len(u) = 1 /\ u[1] = "/"
  OBVIOUS
<1>2. \A i \in 1..1 : u[i] \in {"/"}
  BY <1>1
<1> HIDE DEF u
<1>3. /\ v \in Seq({"/"}) /\ Len(v) = (IF 1 <= 1 THEN 1 - 1 + 1 ELSE 0)
      /\ \A i \in 1..(1 - 1 + 1) : v[i] = u[1 + i - 1]
  BY <1>2, SubSeqProperties
<1>4. Len(v) = 1 /\ v[1] = "/"
  BY <1>1, <1>3
<1>5. \A i \in 1..Len(v) : v[i] = u[i]
  BY <1>1, <1>4
<1>6. v = u
  BY <1>1, <1>3, <1>4, <1>5, SeqEqual
<1>7. 0 + 1 = 1
  OBVIOUS
<1> QED BY <1>6, <1>7 DEF Slice, v, u

\* The scheme's first byte.
LEMMA AbsoluteFirst ==
    ASSUME NEW t \in Bytes, AbsoluteForm(t)
    PROVE  t[1] # "*"
<1> DEFINE k == SchemeEnd(t)
           u == Slice(t, 0, k)
<1>1. k \in Nat /\ k + 3 <= Len(t) /\ valid_scheme(u)
  BY SchemeFound DEF AbsoluteForm
<1>2. 0 \in Nat /\ 0 <= k /\ k <= Len(t)
  BY <1>1 DEF Bytes
<1> HIDE DEF k
<1>3. u \in Bytes /\ Len(u) = k - 0 /\ \A i \in 1..(k - 0) : u[i] = t[0 + i]
  BY <1>1, <1>2, SliceIs
<1>4. u # <<>> /\ is_ascii_alphabetic(u[1])
  BY <1>1 DEF valid_scheme
<1> HIDE DEF u
<1>5. Len(u) # 0
  BY <1>3, <1>4 DEF Bytes
<1>6. u[1] = t[1]
  BY <1>1, <1>3, <1>5
<1>7. ~is_ascii_alphabetic("*")
  BY DEF is_ascii_alphabetic
<1> QED BY <1>4, <1>6, <1>7

\* A target that parsed has a path that begins with a slash, unless its form has none.
LEMMA ParsedIsRooted ==
    ASSUME NEW h, Whole(h), validate_request_target(h.target, h.method)
    PROVE  Rooted(h)
<1> DEFINE t == h.target
           n == Len(t)
           r == h.authority_at
           e == r.end
           p == PathEnd(h)
<1>1. /\ t \in Bytes /\ n \in Nat /\ p \in Nat /\ p <= n
      /\ (\A i \in 1..p : t[i] # "?") /\ (p < n => t[p + 1] = "?")
  <2> HIDE DEF p
  <2> QED BY QueryIs DEF p
<1>2. validate_target(t) /\ validate_target_form(t, h.method) /\ t # <<>>
  BY DEF validate_request_target, validate_target
<1> SUFFICES ASSUME h.method # "CONNECT", t # <<"*">> PROVE Slice(path(h), 0, 1) = <<"/">>
  BY DEF Rooted
<1>3. t[1] = "/" \/ AbsoluteForm(t)
  BY <1>2 DEF validate_target_form
<1>4. n > 0
  BY <1>1, <1>2 DEF Bytes
<1>5. CASE t[1] = "/"
  <2>1. r = NoRange
    BY <1>5 DEF Whole, find_absolute_authority
  <2>2. path(h) = Slice(t, 0, p)
    BY <2>1 DEF path
  <2> HIDE DEF t, p
  <2>3. 0 < p /\ 0 \in Nat /\ 0 + 1 = 1
    BY <1>1, <1>4, <1>5
  <2>4. t[0 + 1] = "/" /\ p <= Len(t)
    BY <1>1, <1>5, <2>3
  <2> QED BY <1>1, <2>2, <2>3, <2>4, SliceRooted
<1>6. CASE t[1] # "/"
  <2>1. AbsoluteForm(t) /\ t[1] # "*"
    BY <1>1, <1>3, <1>6, AbsoluteFirst
  <2>2. SchemeEnd(t) \in Nat
    BY <1>1, <2>1, SchemeFound DEF AbsoluteForm
  <2>3. r # NoRange
    <3>1. r.start = SchemeEnd(t) + 3
      BY <1>2, <1>6, <2>1 DEF Whole, find_absolute_authority
    <3>2. NoRange.start = -1
      BY DEF NoRange, None
    <3> QED BY <2>2, <3>1, <3>2
  <2>4. InAuthority(t, r)
    BY <1>1, <2>3, AuthorityFound DEF Whole
  <2>5. e \in Nat /\ e <= n /\ (e < n => t[e + 1] \in {"/", "?", "#"})
    BY <2>4 DEF InAuthority
  <2>6. CASE e < p
    <3>1. path(h) = Slice(t, e, p)
      BY <2>3, <2>6 DEF path
    <3>2. DOMAIN t = 1..n
      BY <1>1 DEF Bytes
    <3> HIDE DEF t, p, e
    <3>3. e < n /\ e + 1 \in 1..p /\ e + 1 \in 1..n /\ p <= Len(t)
      BY <1>1, <2>5, <2>6
    <3>4. t[e + 1] # "?" /\ t[e + 1] # "#"
      BY <1>1, <1>2, <3>2, <3>3, NotInTarget
    <3>5. t[e + 1] = "/"
      BY <2>5, <3>3, <3>4
    <3> QED BY <1>1, <2>5, <2>6, <3>1, <3>3, <3>5, SliceRooted
  <2>7. CASE ~(e < p)
    <3>1. path(h) = <<"/">>
      BY <2>3, <2>7 DEF path
    <3>2. Slice(<<"/">>, 0, 1) = <<"/">>
      BY SliceSlash
    <3> QED BY <3>1, <3>2
  <2> QED BY <2>6, <2>7
<1> QED BY <1>5, <1>6

-----------------------------------------------------------------------------
(* Numbers, digit by digit.                                                *)

\* Induction over the naturals, for the set S of those that have a property.
LEMMA Induction ==
    ASSUME NEW S, 0 \in S, \A n \in Nat : n \in S => n + 1 \in S
    PROVE  Nat \subseteq S
<1> SUFFICES ASSUME Nat \ S # {} PROVE FALSE
  OBVIOUS
<1>1. PICK n \in Nat \ S : \A m \in Nat \ S : n <= m
  BY Least
<1>2. n # 0 /\ n - 1 \in Nat /\ n - 1 \in S
  BY <1>1
<1> QED BY <1>1, <1>2

\* f is what base becomes, step by step.
RunOf(T, n, base, step, f) ==
    f \in [0..n -> T] /\ f[0] = base /\ \A i \in 1..n : f[i] = step[i][f[i - 1]]

\* What the first i of n steps make of base, for every i; it stays in the set that the steps stay in.
LEMMA RunExists ==
    ASSUME NEW T, NEW n \in Nat, NEW base \in T, NEW step \in [1..n -> [T -> T]]
    PROVE  \E f : RunOf(T, n, base, step, f)
<1> DEFINE Upto(m, f) == f \in [0..m -> T] /\ f[0] = base /\ \A i \in 1..m : f[i] = step[i][f[i - 1]]
           S == {m \in Nat : m <= n => \E f : Upto(m, f)}
<1>1. 0 \in S
  <2> DEFINE f == [i \in 0..0 |-> base]
  <2>1. Upto(0, f)
    OBVIOUS
  <2> QED BY <2>1
<1>2. ASSUME NEW m \in Nat, m \in S PROVE m + 1 \in S
  <2> SUFFICES ASSUME m + 1 <= n PROVE \E f : Upto(m + 1, f)
    OBVIOUS
  <2>1. PICK f : Upto(m, f)
    BY <1>2
  <2> DEFINE g == [i \in 0..(m + 1) |-> IF i <= m THEN f[i] ELSE step[m + 1][f[m]]]
  <2>2. m + 1 \in 1..n /\ m \in 0..m
    OBVIOUS
  <2>3. f[m] \in T /\ step[m + 1] \in [T -> T]
    BY <2>1, <2>2
  <2>4. step[m + 1][f[m]] \in T
    BY <2>3
  <2>5. \A i \in 0..m : f[i] \in T /\ i <= m
    BY <2>1
  <2>6. g \in [0..(m + 1) -> T]
    BY <2>4, <2>5
  <2>7. ASSUME NEW i \in 0..(m + 1) PROVE g[i] = IF i <= m THEN f[i] ELSE step[m + 1][f[m]]
    OBVIOUS
  <2> HIDE DEF g
  <2>8. g[0] = base
    BY <2>1, <2>7
  <2>9. ASSUME NEW i \in 1..(m + 1) PROVE g[i] = step[i][g[i - 1]]
    <3>1. i \in 0..(m + 1) /\ i - 1 \in 0..(m + 1) /\ i - 1 <= m
      OBVIOUS
    <3>2. g[i - 1] = f[i - 1]
      BY <2>7, <3>1
    <3>3. CASE i <= m
      BY <2>1, <2>7, <3>1, <3>2, <3>3
    <3>4. CASE i = m + 1
      BY <2>7, <3>1, <3>2, <3>4
    <3> QED BY <3>3, <3>4
  <2> QED BY <2>6, <2>8, <2>9
<1>3. Nat \subseteq S
  <2> HIDE DEF S
  <2> QED BY <1>1, <1>2, Induction
<1>4. n <= n
  OBVIOUS
<1>5. PICK f : Upto(n, f)
  BY <1>3, <1>4
<1> QED BY <1>5 DEF RunOf

\* A digit is worth 0 to 9.
LEMMA DigitIs ==
    ASSUME NEW b, is_ascii_digit(b)
    PROVE  Digit[b] \in Nat
<1>1. b \in ToSet(Digits)
  BY DEF is_ascii_digit, Digit
<1>2. \E i \in DOMAIN Digits : Digits[i] = b
  BY <1>1 DEF ToSet
<1>3. DOMAIN Digits = 1..10
  BY DEF Digits
<1>4. (CHOOSE i \in DOMAIN Digits : Digits[i] = b) \in 1..10
  BY <1>2, <1>3
<1>5. Digit[b] = (CHOOSE i \in DOMAIN Digits : Digits[i] = b) - 1
  BY <1>1 DEF Digit
<1> DEFINE c == CHOOSE i \in DOMAIN Digits : Digits[i] = b
<1> HIDE DEF c
<1>6. c \in 1..10 /\ Digit[b] = c - 1
  BY <1>4, <1>5 DEF c
<1> QED BY <1>6

\* Digits, as PortValue adds them up.
Numeral(e) == e \in Bytes /\ \A i \in DOMAIN e : is_ascii_digit(e[i])

\* PortValue, digit by digit.
LEMMA PortValueIs ==
    ASSUME NEW e, Numeral(e)
    PROVE  \E f \in [0..Len(e) -> Nat] :
               /\ f[0] = 0 /\ \A i \in 1..Len(e) : f[i] = f[i - 1] * 10 + Digit[e[i]]
               /\ PortValue(e) = f[Len(e)]
<1> DEFINE n == Len(e)
           Is(f) == f = [i \in 0..n |-> IF i = 0 THEN 0 ELSE f[i - 1] * 10 + Digit[e[i]]]
           step == [i \in 1..n |-> [x \in Nat |-> x * 10 + Digit[e[i]]]]
           c == CHOOSE f : Is(f)
<1>1. n \in Nat /\ DOMAIN e = 1..n
  BY DEF Numeral, Bytes
<1>2. \A i \in 1..n : Digit[e[i]] \in Nat
  BY <1>1, DigitIs DEF Numeral
<1>3. PortValue(e) = c[n]
  BY DEF PortValue
<1> HIDE DEF n
<1>4. step \in [1..n -> [Nat -> Nat]]
  <2>1. \A i \in 1..n : [x \in Nat |-> x * 10 + Digit[e[i]]] \in [Nat -> Nat]
    BY <1>2
  <2> QED BY <2>1
<1>5. \E f : Is(f)
  <2> HIDE DEF step
  <2>1. PICK f \in [0..n -> Nat] : f[0] = 0 /\ \A i \in 1..n : f[i] = step[i][f[i - 1]]
    <3> DEFINE T == Nat
               z == 0
    <3>1. z \in T /\ step \in [1..n -> [T -> T]]
      BY <1>4
    <3> HIDE DEF T, z
    <3>2. \E f : RunOf(T, n, z, step, f)
      BY <1>1, <3>1, RunExists
    <3> QED BY <3>2 DEF T, z, RunOf
  <2>2. ASSUME NEW i \in 0..n PROVE f[i] = IF i = 0 THEN 0 ELSE f[i - 1] * 10 + Digit[e[i]]
    <3>1. CASE i = 0
      BY <2>1, <3>1
    <3>2. CASE i # 0
      <4>1. i \in 1..n /\ i - 1 \in 0..n
        BY <1>1, <3>2
      <4>2. f[i] = step[i][f[i - 1]] /\ f[i - 1] \in Nat
        BY <2>1, <4>1
      <4> QED BY <3>2, <4>1, <4>2 DEF step
    <3> QED BY <3>1, <3>2
  <2>3. f = [i \in 0..n |-> f[i]]
    BY <2>1
  <2>4. Is(f)
    BY <2>2, <2>3
  <2> QED BY <2>4
<1>6. Is(c)
  BY <1>5
<1> HIDE DEF c
<1>7. \A i \in 0..n : c[i] = IF i = 0 THEN 0 ELSE c[i - 1] * 10 + Digit[e[i]]
  BY <1>6
<1>8. DOMAIN c = 0..n /\ c = [i \in 0..n |-> c[i]]
  BY <1>6
<1> HIDE DEF Is
<1> DEFINE S == {i \in Nat : i <= n => c[i] \in Nat}
<1>9. Nat \subseteq S
  <2>1. 0 \in S
    BY <1>1, <1>7
  <2>2. ASSUME NEW i \in Nat, i \in S PROVE i + 1 \in S
    <3> SUFFICES ASSUME i + 1 <= n PROVE c[i + 1] \in Nat
      OBVIOUS
    <3>1. c[i] \in Nat /\ i + 1 \in 0..n /\ i + 1 \in 1..n /\ i + 1 # 0 /\ (i + 1) - 1 = i
      BY <1>1, <2>2
    <3>2. c[i + 1] = c[i] * 10 + Digit[e[i + 1]]
      BY <1>7, <3>1
    <3> QED BY <1>2, <3>1, <3>2
  <2> HIDE DEF S
  <2> QED BY <2>1, <2>2, Induction
<1>10. \A i \in 0..n : c[i] \in Nat
  BY <1>1, <1>9
<1>11. c \in [0..n -> Nat]
  BY <1>8, <1>10
<1>12. c[0] = 0 /\ \A i \in 1..n : c[i] = c[i - 1] * 10 + Digit[e[i]]
  BY <1>1, <1>7
<1> QED BY <1>3, <1>11, <1>12 DEF n

\* parse_content_length's step.
Added(x, b) ==
    IF x = None \/ ~is_ascii_digit(b) \/ x * 10 + Digit[b] > U64Max THEN None ELSE x * 10 + Digit[b]

\* parse_content_length, digit by digit.
LEMMA ParseSteps ==
    ASSUME NEW e \in Bytes, e # <<>>
    PROVE  \E c : /\ c[0] = 0 /\ \A i \in 1..Len(e) : c[i] = Added(c[i - 1], e[i])
                  /\ parse_content_length(e) = c[Len(e)]
<1> DEFINE n == Len(e)
           Is(f) == f = [i \in 0..n |-> IF i = 0 THEN 0 ELSE Added(f[i - 1], e[i])]
           T == Nat \cup {None}
           step == [i \in 1..n |-> [x \in T |-> Added(x, e[i])]]
           c == CHOOSE f : Is(f)
<1>1. n \in Nat /\ DOMAIN e = 1..n
  BY DEF Bytes
<1>2. parse_content_length(e) = c[n]
  BY DEF parse_content_length, Added
<1> HIDE DEF n
<1>3. ASSUME NEW x \in T, NEW b PROVE Added(x, b) \in T
  <2> DEFINE Fits == x # None /\ is_ascii_digit(b) /\ ~(x * 10 + Digit[b] > U64Max)
  <2>1. CASE Fits
    BY <2>1, DigitIs DEF Added
  <2>2. CASE ~Fits
    BY <2>2 DEF Added
  <2> QED BY <2>1, <2>2
<1> HIDE DEF T
<1>5. step \in [1..n -> [T -> T]]
  <2>1. \A i \in 1..n : [x \in T |-> Added(x, e[i])] \in [T -> T]
    BY <1>3
  <2> QED BY <2>1
<1>6. \E f : Is(f)
  <2> HIDE DEF step
  <2>1. PICK f \in [0..n -> T] : f[0] = 0 /\ \A i \in 1..n : f[i] = step[i][f[i - 1]]
    <3> DEFINE z == 0
    <3>1. z \in T
      BY DEF T
    <3> HIDE DEF z
    <3>2. \E f : RunOf(T, n, z, step, f)
      BY <1>1, <1>5, <3>1, RunExists
    <3> QED BY <3>2 DEF z, RunOf
  <2>2. ASSUME NEW i \in 0..n PROVE f[i] = IF i = 0 THEN 0 ELSE Added(f[i - 1], e[i])
    <3>1. CASE i = 0
      BY <2>1, <3>1
    <3>2. CASE i # 0
      <4>1. i \in 1..n /\ i - 1 \in 0..n
        BY <1>1, <3>2
      <4>2. f[i] = step[i][f[i - 1]] /\ f[i - 1] \in T
        BY <2>1, <4>1
      <4> QED BY <3>2, <4>1, <4>2 DEF step
    <3> QED BY <3>1, <3>2
  <2>3. f = [i \in 0..n |-> f[i]]
    BY <2>1
  <2>4. Is(f)
    BY <2>2, <2>3
  <2> QED BY <2>4
<1>7. Is(c)
  BY <1>6
<1> HIDE DEF c
<1>8. c[0] = 0 /\ \A i \in 1..n : c[i] = Added(c[i - 1], e[i])
  BY <1>1, <1>7
<1> QED BY <1>2, <1>8 DEF n

\* What parse_content_length reads is a number, and the one written.
LEMMA ParseIs ==
    ASSUME NEW e \in Bytes, parse_content_length(e) # None
    PROVE  Numeral(e) /\ e # <<>> /\ parse_content_length(e) \in Nat
           /\ parse_content_length(e) = PortValue(e)
<1> DEFINE n == Len(e)
<1>1. n \in Nat /\ DOMAIN e = 1..n
  BY DEF Bytes
<1>2. e # <<>>
  BY DEF parse_content_length
<1>3. PICK c : /\ c[0] = 0 /\ \A i \in 1..n : c[i] = Added(c[i - 1], e[i])
               /\ parse_content_length(e) = c[n]
  BY <1>2, ParseSteps
<1> HIDE DEF n
<1>4. ASSUME NEW x, NEW b, Added(x, b) # None
      PROVE  x # None /\ is_ascii_digit(b) /\ Added(x, b) = x * 10 + Digit[b]
  BY <1>4 DEF Added
<1>8. c[0] = 0 /\ \A i \in 1..n : c[i] = Added(c[i - 1], e[i])
  BY <1>3
<1>9. \A i \in Nat : i + 1 <= n /\ c[i + 1] # None =>
          c[i] # None /\ is_ascii_digit(e[i + 1]) /\ c[i + 1] = c[i] * 10 + Digit[e[i + 1]]
  <2> TAKE i \in Nat
  <2> HAVE i + 1 <= n /\ c[i + 1] # None
  <2>1. i + 1 \in 1..n /\ (i + 1) - 1 = i
    BY <1>1
  <2>2. c[i + 1] = Added(c[i], e[i + 1])
    BY <1>8, <2>1
  <2> QED BY <1>4, <2>2
<1> DEFINE S == {i \in Nat : i <= n /\ c[i] # None => c[i] \in Nat /\ \A j \in 1..i : is_ascii_digit(e[j])}
<1>10. Nat \subseteq S
  <2>1. 0 \in S
    BY <1>8
  <2>2. ASSUME NEW i \in Nat, i \in S PROVE i + 1 \in S
    <3> SUFFICES ASSUME i + 1 <= n, c[i + 1] # None
                 PROVE  c[i + 1] \in Nat /\ \A j \in 1..(i + 1) : is_ascii_digit(e[j])
      OBVIOUS
    <3>1. c[i] # None /\ is_ascii_digit(e[i + 1]) /\ c[i + 1] = c[i] * 10 + Digit[e[i + 1]]
      BY <1>9
    <3>2. i <= n
      BY <1>1
    <3>3. c[i] \in Nat /\ \A j \in 1..i : is_ascii_digit(e[j])
      BY <2>2, <3>1, <3>2
    <3>4. Digit[e[i + 1]] \in Nat
      BY <3>1, DigitIs
    <3>5. c[i + 1] \in Nat
      BY <3>1, <3>3, <3>4
    <3>6. \A j \in 1..(i + 1) : j \in 1..i \/ j = i + 1
      OBVIOUS
    <3> QED BY <3>1, <3>3, <3>5, <3>6
  <2> HIDE DEF S
  <2> QED BY <2>1, <2>2, Induction
<1>11. c[n] # None /\ n \in S /\ n <= n
  BY <1>1, <1>3, <1>10
<1>12. c[n] \in Nat /\ Numeral(e)
  BY <1>1, <1>11 DEF Numeral
<1> HIDE DEF S
<1>13. PICK f \in [0..n -> Nat] :
           /\ f[0] = 0 /\ \A i \in 1..n : f[i] = f[i - 1] * 10 + Digit[e[i]]
           /\ PortValue(e) = f[n]
  BY <1>12, PortValueIs DEF n
<1> DEFINE P == {i \in Nat : i <= n /\ c[i] # None => c[i] = f[i]}
<1>14. Nat \subseteq P
  <2>1. 0 \in P
    BY <1>8, <1>13
  <2>2. ASSUME NEW i \in Nat, i \in P PROVE i + 1 \in P
    <3> SUFFICES ASSUME i + 1 <= n, c[i + 1] # None
                 PROVE  c[i + 1] = f[i + 1]
      OBVIOUS
    <3>1. c[i] # None /\ c[i + 1] = c[i] * 10 + Digit[e[i + 1]]
      BY <1>9
    <3>2. i <= n /\ i + 1 \in 1..n /\ (i + 1) - 1 = i
      BY <1>1
    <3>3. f[i + 1] = f[i] * 10 + Digit[e[i + 1]]
      BY <1>13, <3>2
    <3> QED BY <2>2, <3>1, <3>2, <3>3
  <2> HIDE DEF P
  <2> QED BY <2>1, <2>2, Induction
<1>15. c[n] = f[n]
  BY <1>1, <1>11, <1>14
<1> QED BY <1>2, <1>3, <1>12, <1>13, <1>15

-----------------------------------------------------------------------------
(* Folds over sequences.                                                   *)

\* Induction over sequences, for the set S of those that have a property.
LEMMA SeqInduction ==
    ASSUME NEW D, NEW S, <<>> \in S,
           \A s \in Seq(D), x \in D : s \in S => Append(s, x) \in S
    PROVE  Seq(D) \subseteq S
<1> DEFINE P == {n \in Nat : \A s \in Seq(D) : Len(s) = n => s \in S}
<1>1. 0 \in P
  OBVIOUS
<1>2. ASSUME NEW n \in Nat, n \in P PROVE n + 1 \in P
  <2> SUFFICES ASSUME NEW s \in Seq(D), Len(s) = n + 1 PROVE s \in S
    OBVIOUS
  <2> DEFINE t == SubSeq(s, 1, n)
             x == s[n + 1]
  <2>1. x \in D
    OBVIOUS
  <2>2. t \in Seq(D) /\ Len(t) = n /\ \A i \in 1..n : t[i] = s[i]
    <3>1. \A i \in 1..n : s[i] \in D
      OBVIOUS
    <3>2. /\ t \in Seq(D) /\ Len(t) = (IF 1 <= n THEN n - 1 + 1 ELSE 0)
          /\ \A i \in 1..(n - 1 + 1) : t[i] = s[1 + i - 1]
      BY <3>1, SubSeqProperties
    <3> HIDE DEF t
    <3> QED BY <3>2
  <2> HIDE DEF t, x
  <2>3. Append(t, x) \in Seq(D) /\ Len(Append(t, x)) = n + 1
        /\ \A i \in 1..(n + 1) : Append(t, x)[i] = IF i <= n THEN t[i] ELSE x
    BY <2>1, <2>2, AppendProperties
  <2>4. \A i \in 1..(n + 1) : Append(t, x)[i] = s[i]
    BY <2>2, <2>3 DEF x
  <2>5. Append(t, x) = s
    BY <2>3, <2>4, SeqEqual
  <2> QED BY <1>2, <2>1, <2>2, <2>5
<1>3. Nat \subseteq P
  <2> HIDE DEF P
  <2> QED BY <1>1, <1>2, Induction
<1>4. ASSUME NEW s \in Seq(D) PROVE s \in S
  <2>1. Len(s) \in Nat
    OBVIOUS
  <2>2. Len(s) \in P
    BY <1>3, <2>1
  <2> QED BY <2>2
<1> QED BY <1>4

\* Two functions that agree at 0, and at i when they do at i - 1, agree.
Together(n, c, f) == c[0] = f[0] /\ \A i \in 1..n : c[i - 1] = f[i - 1] => c[i] = f[i]

\* Induction over Together.
LEMMA AgreeUpto ==
    ASSUME NEW n \in Nat, NEW c, NEW f, Together(n, c, f)
    PROVE  \A i \in 0..n : c[i] = f[i]
<1> USE DEF Together
<1> DEFINE S == {i \in Nat : i <= n => c[i] = f[i]}
<1>1. 0 \in S
  OBVIOUS
<1>2. ASSUME NEW i \in Nat, i \in S PROVE i + 1 \in S
  <2> SUFFICES ASSUME i + 1 <= n PROVE c[i + 1] = f[i + 1]
    OBVIOUS
  <2>1. i + 1 \in 1..n /\ (i + 1) - 1 = i /\ i <= n
    OBVIOUS
  <2>2. c[i] = f[i]
    BY <1>2, <2>1
  <2> QED BY <2>1, <2>2
<1>3. Nat \subseteq S
  <2> HIDE DEF S
  <2> QED BY <1>1, <1>2, Induction
<1> QED BY <1>3

\* f runs through what g makes of base and the elements of s, one by one.
FoldRun(T, base, g, s, f) ==
    /\ f \in [0..Len(s) -> T] /\ f[0] = base
    /\ \A i \in 1..Len(s) : f[i] = g[<<f[i - 1], s[i]>>]

\* What g makes of base and all the elements of s.
FoldOf(T, base, g, s) == (CHOOSE f : FoldRun(T, base, g, s, f))[Len(s)]

\* There is such a run.
LEMMA FoldExists ==
    ASSUME NEW T, NEW D, NEW base \in T, NEW g \in [T \X D -> T], NEW s \in Seq(D)
    PROVE  \E f : FoldRun(T, base, g, s, f)
<1> DEFINE n == Len(s)
           step == [i \in 1..n |-> [x \in T |-> g[<<x, s[i]>>]]]
<1>1. n \in Nat
  OBVIOUS
<1>2. \A i \in 1..n : s[i] \in D
  OBVIOUS
<1> HIDE DEF n
<1>3. step \in [1..n -> [T -> T]]
  <2>1. \A i \in 1..n : [x \in T |-> g[<<x, s[i]>>]] \in [T -> T]
    BY <1>2
  <2> QED BY <2>1
<1>4. \A i \in 1..n, x \in T : step[i][x] = g[<<x, s[i]>>]
  OBVIOUS
<1> HIDE DEF step
<1>5. PICK f : RunOf(T, n, base, step, f)
  BY <1>1, <1>3, RunExists
<1>6. f \in [0..n -> T] /\ f[0] = base /\ \A i \in 1..n : f[i] = step[i][f[i - 1]]
  BY <1>5 DEF RunOf
<1>7. \A i \in 1..n : f[i] = g[<<f[i - 1], s[i]>>]
  <2> TAKE i \in 1..n
  <2>1. i - 1 \in 0..n
    BY <1>1
  <2>2. f[i - 1] \in T
    BY <1>6, <2>1
  <2> QED BY <1>4, <1>6, <2>2
<1> QED BY <1>6, <1>7 DEF n, FoldRun

\* There is only one, so a recursive function that is one is the fold.
LEMMA FoldUnique ==
    ASSUME NEW T, NEW base, NEW g, NEW s, Len(s) \in Nat, NEW f, FoldRun(T, base, g, s, f)
    PROVE  FoldOf(T, base, g, s) = f[Len(s)]
<1> DEFINE c == CHOOSE e : FoldRun(T, base, g, s, e)
           n == Len(s)
<1>1. FoldRun(T, base, g, s, c)
  OBVIOUS
<1> HIDE DEF c
<1>2. c[0] = f[0] /\ \A i \in 1..n : c[i - 1] = f[i - 1] => c[i] = f[i]
  BY <1>1 DEF FoldRun
<1>3. n \in Nat /\ n \in 0..n
  OBVIOUS
<1> HIDE DEF n
<1>4. \A i \in 0..n : c[i] = f[i]
  <2>1. Together(n, c, f)
    BY <1>2 DEF Together
  <2>2. n \in Nat
    BY <1>3
  <2> QED BY <2>1, <2>2, AgreeUpto
<1> QED BY <1>3, <1>4 DEF n, c, FoldOf

\* Folding element by element.
OneByOneFold(T, D, base, g) ==
    /\ FoldOf(T, base, g, <<>>) = base
    /\ \A s \in Seq(D) : FoldOf(T, base, g, s) \in T
    /\ \A s \in Seq(D), x \in D :
           FoldOf(T, base, g, Append(s, x)) = g[<<FoldOf(T, base, g, s), x>>]

\* A fold over Append(s, x) is g of the fold over s, and of x.
LEMMA FoldIs ==
    ASSUME NEW T, NEW D, NEW base \in T, NEW g \in [T \X D -> T]
    PROVE  OneByOneFold(T, D, base, g)
<1>1. ASSUME NEW s \in Seq(D)
      PROVE  \E f : FoldRun(T, base, g, s, f) /\ FoldOf(T, base, g, s) = f[Len(s)]
  <2>1. PICK f : FoldRun(T, base, g, s, f)
    BY FoldExists
  <2>2. Len(s) \in Nat
    OBVIOUS
  <2> QED BY <2>1, <2>2, FoldUnique
<1>2. FoldOf(T, base, g, <<>>) = base
  <2>1. <<>> \in Seq(D) /\ Len(<<>>) = 0
    OBVIOUS
  <2>2. PICK f : FoldRun(T, base, g, <<>>, f) /\ FoldOf(T, base, g, <<>>) = f[Len(<<>>)]
    BY <1>1, <2>1
  <2> QED BY <2>1, <2>2 DEF FoldRun
<1>3. ASSUME NEW s \in Seq(D) PROVE FoldOf(T, base, g, s) \in T
  <2>1. PICK f : FoldRun(T, base, g, s, f) /\ FoldOf(T, base, g, s) = f[Len(s)]
    BY <1>1
  <2>2. Len(s) \in 0..Len(s)
    OBVIOUS
  <2> QED BY <2>1, <2>2 DEF FoldRun
<1>4. ASSUME NEW s \in Seq(D), NEW x \in D
      PROVE  FoldOf(T, base, g, Append(s, x)) = g[<<FoldOf(T, base, g, s), x>>]
  <2> DEFINE n == Len(s)
             t == Append(s, x)
  <2>1. n \in Nat /\ t \in Seq(D) /\ Len(t) = n + 1 /\ t[n + 1] = x /\ \A i \in 1..n : t[i] = s[i]
    OBVIOUS
  <2>2. PICK f : FoldRun(T, base, g, s, f) /\ FoldOf(T, base, g, s) = f[n]
    BY <1>1
  <2> HIDE DEF t
  <2>3. PICK e : FoldRun(T, base, g, t, e) /\ FoldOf(T, base, g, t) = e[Len(t)]
    BY <1>1, <2>1
  <2>4. e[0] = base /\ \A i \in 1..(n + 1) : e[i] = g[<<e[i - 1], t[i]>>]
    BY <2>1, <2>3 DEF FoldRun
  <2>5. f[0] = base /\ \A i \in 1..n : f[i] = g[<<f[i - 1], s[i]>>]
    BY <2>2 DEF FoldRun
  <2> HIDE DEF n
  <2>6. \A i \in 1..n : i \in 1..(n + 1)
    BY <2>1
  <2>7. f[0] = e[0] /\ \A i \in 1..n : f[i - 1] = e[i - 1] => f[i] = e[i]
    BY <2>1, <2>4, <2>5, <2>6
  <2>a. n \in Nat
    BY <2>1
  <2>8. \A i \in 0..n : f[i] = e[i]
    <3>1. Together(n, f, e)
      BY <2>7 DEF Together
    <3> QED BY <2>a, <3>1, AgreeUpto
  <2>9. f[n] = e[n] /\ n + 1 \in 1..(n + 1) /\ (n + 1) - 1 = n
    BY <2>1, <2>8
  <2>10. e[n + 1] = g[<<f[n], x>>]
    BY <2>1, <2>4, <2>9
  <2> QED BY <2>1, <2>2, <2>3, <2>10 DEF t
<1> QED BY <1>2, <1>3, <1>4 DEF OneByOneFold

-----------------------------------------------------------------------------
(* Header fields, and the lists in their values.                           *)

\* The names of fields; those that the rules look at are named for the provers.
Name == STRING \cup {"Host", "ContentLength", "TransferEncoding", "Connection", "Date", "Server"}

\* A header field.
Header == [id : Name, value : Bytes]

\* Values adds a field's value, or not.
AddValue(id) == [p \in Seq(Bytes) \X Header |->
                    IF p[2].id = id THEN Append(p[1], p[2].value) ELSE p[1]]

\* Its type.
LEMMA AddValueTyped ==
    ASSUME NEW id
    PROVE  AddValue(id) \in [Seq(Bytes) \X Header -> Seq(Bytes)]
<1>1. \A p \in Seq(Bytes) \X Header : p[2].value \in Bytes /\ p[1] \in Seq(Bytes)
  BY DEF Header
<1>2. \A p \in Seq(Bytes) \X Header : Append(p[1], p[2].value) \in Seq(Bytes)
  BY <1>1
<1> QED BY <1>1, <1>2 DEF AddValue

\* Values is a fold.
LEMMA ValuesFold ==
    ASSUME NEW id, NEW s \in Seq(Header)
    PROVE  Values(s, id) = FoldOf(Seq(Bytes), <<>>, AddValue(id), s)
<1> DEFINE n == Len(s)
           T == Seq(Bytes)
           Add(x, h) == IF h.id = id THEN Append(x, h.value) ELSE x
           Is(f) == f = [i \in 0..n |-> IF i = 0 THEN <<>> ELSE Add(f[i - 1], s[i])]
           c == CHOOSE f : Is(f)
<1>1. Values(s, id) = c[n]
  BY DEF Values
<1>2. n \in Nat /\ \A i \in 1..n : s[i] \in Header
  OBVIOUS
<1>3. PICK f : FoldRun(T, <<>>, AddValue(id), s, f)
  <2> DEFINE D == Header
             b == <<>>
             g == AddValue(id)
  <2>1. b \in T /\ s \in Seq(D)
    OBVIOUS
  <2>2. g \in [T \X D -> T]
    BY AddValueTyped
  <2> HIDE DEF T, D, b, g
  <2>3. \E f : FoldRun(T, b, g, s, f)
    BY <2>1, <2>2, FoldExists
  <2> QED BY <2>3 DEF b, g
<1>4. f \in [0..n -> T] /\ f[0] = <<>> /\ \A i \in 1..n : f[i] = AddValue(id)[<<f[i - 1], s[i]>>]
  BY <1>3 DEF FoldRun
<1>5. FoldOf(T, <<>>, AddValue(id), s) = f[n]
  BY <1>2, <1>3, FoldUnique
<1>6. \A x \in T, h \in Header : AddValue(id)[<<x, h>>] = Add(x, h)
  BY DEF AddValue
<1> HIDE DEF n, T, Add
<1>7. \A i \in 1..n : i - 1 \in 0..n
  BY <1>2
<1>8. \A i \in 1..n : f[i] = Add(f[i - 1], s[i])
  BY <1>2, <1>4, <1>6, <1>7
<1>9. Is(f)
  <2>1. f = [i \in 0..n |-> f[i]]
    BY <1>4
  <2>2. \A i \in 0..n : i = 0 \/ i \in 1..n
    BY <1>2
  <2>3. \A i \in 0..n : f[i] = IF i = 0 THEN <<>> ELSE Add(f[i - 1], s[i])
    BY <1>4, <1>8, <2>2
  <2> QED BY <2>1, <2>3
<1>10. Is(c)
  BY <1>9
<1> HIDE DEF c
<1>11. c[0] = <<>> /\ \A i \in 1..n : c[i] = Add(c[i - 1], s[i])
  BY <1>2, <1>10
<1>12. Together(n, c, f)
  BY <1>4, <1>8, <1>11 DEF Together
<1>13. n \in Nat
  BY <1>2
<1>14. \A i \in 0..n : c[i] = f[i]
  BY <1>12, <1>13, AgreeUpto
<1>15. c[n] = f[n]
  BY <1>13, <1>14
<1> QED BY <1>1, <1>5, <1>15 DEF T

\* The values of the fields called id, field by field.
LEMMA ValuesIs ==
    ASSUME NEW id
    PROVE  /\ Values(<<>>, id) = <<>>
           /\ \A s \in Seq(Header) : Values(s, id) \in Seq(Bytes)
           /\ \A s \in Seq(Header), x \in Header :
                  Values(Append(s, x), id) =
                      IF x.id = id THEN Append(Values(s, id), x.value) ELSE Values(s, id)
<1> DEFINE T == Seq(Bytes)
           D == Header
           b == <<>>
           g == AddValue(id)
           F(s) == FoldOf(T, b, g, s)
<1>a. b \in T
  OBVIOUS
<1>b. g \in [T \X D -> T]
  BY AddValueTyped
<1>2. <<>> \in Seq(D) /\ \A s \in Seq(D), x \in D : Append(s, x) \in Seq(D)
  OBVIOUS
<1>3. \A s \in Seq(D) : Values(s, id) = F(s)
  BY ValuesFold
<1>4. \A x \in T, h \in D : g[<<x, h>>] = IF h.id = id THEN Append(x, h.value) ELSE x
  BY DEF AddValue
<1> HIDE DEF T, D, b, g
<1>5. F(<<>>) = b /\ (\A s \in Seq(D) : F(s) \in T)
      /\ \A s \in Seq(D), x \in D : F(Append(s, x)) = g[<<F(s), x>>]
  <2>1. OneByOneFold(T, D, b, g)
    BY <1>a, <1>b, FoldIs
  <2> QED BY <2>1 DEF OneByOneFold
<1> HIDE DEF F
<1>6. Values(<<>>, id) = b /\ \A s \in Seq(D) : Values(s, id) \in T
  BY <1>2, <1>3, <1>5
<1>7. \A s \in Seq(D), x \in D :
         Values(Append(s, x), id) =
             IF x.id = id THEN Append(Values(s, id), x.value) ELSE Values(s, id)
  <2> TAKE s \in Seq(D), x \in D
  <2>1. Values(Append(s, x), id) = F(Append(s, x)) /\ Values(s, id) = F(s) /\ F(s) \in T
    BY <1>2, <1>3, <1>5
  <2>2. F(Append(s, x)) = g[<<F(s), x>>]
    BY <1>5
  <2> QED BY <1>4, <2>1, <2>2
<1> QED BY <1>6, <1>7 DEF T, D, b

\* The non-empty sequences over S.
NeSeq(S) == Seq(S) \ {<<>>}

\* Parts closes a part, or adds to the last one.
CutAt == [p \in NeSeq(Bytes) \X Byte |->
             IF p[2] = "," THEN Append(p[1], <<>>)
             ELSE [p[1] EXCEPT ![Len(p[1])] = Append(p[1][Len(p[1])], p[2])]]

\* Its type.
LEMMA PartsTyped ==
    << <<>> >> \in NeSeq(Bytes) /\ CutAt \in [NeSeq(Bytes) \X Byte -> NeSeq(Bytes)]
<1>1. << <<>> >> \in NeSeq(Bytes)
  <2>1. <<>> \in Bytes
    BY DEF Bytes
  <2>2. \A e \in Bytes : <<e>> \in Seq(Bytes) /\ <<e>> # <<>>
    OBVIOUS
  <2> QED BY <2>1, <2>2 DEF NeSeq
<1>2. ASSUME NEW x \in NeSeq(Bytes), NEW h \in Byte
      PROVE  /\ Append(x, <<>>) \in NeSeq(Bytes)
             /\ [x EXCEPT ![Len(x)] = Append(x[Len(x)], h)] \in NeSeq(Bytes)
  <2>1. x \in Seq(Bytes) /\ x # <<>> /\ Len(x) \in 1..Len(x) /\ <<>> \in Bytes
    BY DEF NeSeq, Bytes
  <2>2. x[Len(x)] \in Bytes
    BY <2>1
  <2> DEFINE e == Append(x[Len(x)], h)
  <2>3. e \in Bytes
    BY <2>2 DEF Bytes
  <2> HIDE DEF e
  <2> DEFINE y == [x EXCEPT ![Len(x)] = e]
  <2>4. y \in Seq(Bytes) /\ Len(y) = Len(x)
    BY <2>1, <2>3
  <2>5. y # <<>>
    BY <2>1, <2>4
  <2>6. Append(x, <<>>) \in Seq(Bytes) /\ Append(x, <<>>) # <<>>
    BY <2>1
  <2> QED BY <2>4, <2>5, <2>6 DEF NeSeq, e
<1>3. ASSUME NEW p \in NeSeq(Bytes) \X Byte
      PROVE  (IF p[2] = "," THEN Append(p[1], <<>>)
              ELSE [p[1] EXCEPT ![Len(p[1])] = Append(p[1][Len(p[1])], p[2])]) \in NeSeq(Bytes)
  <2>1. p[1] \in NeSeq(Bytes) /\ p[2] \in Byte
    OBVIOUS
  <2> QED BY <1>2, <2>1
<1>4. CutAt \in [NeSeq(Bytes) \X Byte -> NeSeq(Bytes)]
  BY <1>3 DEF CutAt
<1> QED BY <1>1, <1>4

\* Parts is a fold.
LEMMA PartsFold ==
    ASSUME NEW s \in Seq(Byte)
    PROVE  Parts(s) = FoldOf(NeSeq(Bytes), << <<>> >>, CutAt, s)
<1> DEFINE n == Len(s)
           T == NeSeq(Bytes)
           Add(x, h) == IF h = "," THEN Append(x, <<>>) ELSE [x EXCEPT ![Len(x)] = Append(x[Len(x)], h)]
           Is(f) == f = [i \in 0..n |-> IF i = 0 THEN << <<>> >> ELSE Add(f[i - 1], s[i])]
           c == CHOOSE f : Is(f)
<1>1. Parts(s) = c[n]
  BY DEF Parts
<1>2. n \in Nat /\ \A i \in 1..n : s[i] \in Byte
  OBVIOUS
<1>3. PICK f : FoldRun(T, << <<>> >>, CutAt, s, f)
  <2> DEFINE D == Byte
             b == << <<>> >>
             g == CutAt
  <2>1. b \in T
    BY PartsTyped
  <2>2. s \in Seq(D)
    OBVIOUS
  <2>3. g \in [T \X D -> T]
    BY PartsTyped
  <2> HIDE DEF T, D, b, g
  <2>4. \E f : FoldRun(T, b, g, s, f)
    BY <2>1, <2>2, <2>3, FoldExists
  <2> QED BY <2>4 DEF b, g
<1>4. f \in [0..n -> T] /\ f[0] = << <<>> >> /\ \A i \in 1..n : f[i] = CutAt[<<f[i - 1], s[i]>>]
  BY <1>3 DEF FoldRun
<1>5. FoldOf(T, << <<>> >>, CutAt, s) = f[n]
  BY <1>2, <1>3, FoldUnique
<1>6. \A x \in T, h \in Byte : CutAt[<<x, h>>] = Add(x, h)
  BY DEF CutAt
<1> HIDE DEF n, T, Add
<1>7. \A i \in 1..n : i - 1 \in 0..n
  BY <1>2
<1>8. \A i \in 1..n : f[i] = Add(f[i - 1], s[i])
  BY <1>2, <1>4, <1>6, <1>7
<1>9. Is(f)
  <2>1. f = [i \in 0..n |-> f[i]]
    BY <1>4
  <2>2. \A i \in 0..n : i = 0 \/ i \in 1..n
    BY <1>2
  <2>3. \A i \in 0..n : f[i] = IF i = 0 THEN << <<>> >> ELSE Add(f[i - 1], s[i])
    BY <1>4, <1>8, <2>2
  <2> QED BY <2>1, <2>3
<1>10. Is(c)
  BY <1>9
<1> HIDE DEF c
<1>11. c[0] = << <<>> >> /\ \A i \in 1..n : c[i] = Add(c[i - 1], s[i])
  BY <1>2, <1>10
<1>12. Together(n, c, f)
  BY <1>4, <1>8, <1>11 DEF Together
<1>13. n \in Nat
  BY <1>2
<1>14. \A i \in 0..n : c[i] = f[i]
  BY <1>12, <1>13, AgreeUpto
<1>15. c[n] = f[n]
  BY <1>13, <1>14
<1> QED BY <1>1, <1>5, <1>15 DEF T

\* The parts of a list, byte by byte.
LEMMA PartsIs ==
    /\ Parts(<<>>) = << <<>> >>
    /\ \A s \in Seq(Byte) : Parts(s) \in NeSeq(Bytes)
    /\ \A s \in Seq(Byte), h \in Byte :
           \A x : x = Parts(s) =>
                Parts(Append(s, h)) = IF h = "," THEN Append(x, <<>>)
                                      ELSE [x EXCEPT ![Len(x)] = Append(x[Len(x)], h)]
<1> DEFINE T == NeSeq(Bytes)
           D == Byte
           b == << <<>> >>
           g == CutAt
           Add(x, h) == IF h = "," THEN Append(x, <<>>) ELSE [x EXCEPT ![Len(x)] = Append(x[Len(x)], h)]
           F(s) == FoldOf(T, b, g, s)
<1>a. b \in T
  BY PartsTyped
<1>b. g \in [T \X D -> T]
  BY PartsTyped
<1>2. <<>> \in Seq(D) /\ \A s \in Seq(D), x \in D : Append(s, x) \in Seq(D)
  OBVIOUS
<1>3. \A s \in Seq(D) : Parts(s) = F(s)
  BY PartsFold
<1>4. \A x \in T, h \in D : g[<<x, h>>] = Add(x, h)
  BY DEF CutAt
<1> HIDE DEF T, D, b, g, Add
<1>5. F(<<>>) = b /\ (\A s \in Seq(D) : F(s) \in T)
      /\ \A s \in Seq(D), x \in D : F(Append(s, x)) = g[<<F(s), x>>]
  <2>1. OneByOneFold(T, D, b, g)
    BY <1>a, <1>b, FoldIs
  <2> QED BY <2>1 DEF OneByOneFold
<1> HIDE DEF F
<1>6. Parts(<<>>) = b /\ \A s \in Seq(D) : Parts(s) \in T
  BY <1>2, <1>3, <1>5
<1>7. ASSUME NEW s \in Seq(D), NEW h \in D
      PROVE  Parts(Append(s, h)) = Add(Parts(s), h)
  <2>1. Parts(Append(s, h)) = F(Append(s, h)) /\ Parts(s) = F(s) /\ F(s) \in T
    BY <1>2, <1>3, <1>5
  <2>2. F(Append(s, h)) = g[<<F(s), h>>]
    BY <1>5
  <2> QED BY <1>4, <2>1, <2>2
<1> QED BY <1>6, <1>7 DEF T, D, b, Add

\* Loose keeps a byte, or not.
Strip == [p \in Bytes \X Byte |-> IF p[2] \in {"u", "+", " "} THEN p[1] ELSE Append(p[1], p[2])]

\* Its type.
LEMMA LooseTyped == <<>> \in Bytes /\ Strip \in [Bytes \X Byte -> Bytes]
<1>1. <<>> \in Bytes
  BY DEF Bytes
<1>2. \A x \in Bytes, h \in Byte : Append(x, h) \in Bytes
  BY DEF Bytes
<1>3. \A p \in Bytes \X Byte : p[1] \in Bytes /\ p[2] \in Byte
  OBVIOUS
<1>4. Strip \in [Bytes \X Byte -> Bytes]
  BY <1>2, <1>3 DEF Strip
<1> QED BY <1>1, <1>4

\* Loose is a fold.
LEMMA LooseFold ==
    ASSUME NEW s \in Seq(Byte)
    PROVE  Loose(s) = FoldOf(Bytes, <<>>, Strip, s)
<1> DEFINE n == Len(s)
           T == Bytes
           Add(x, h) == IF h \in {"u", "+", " "} THEN x ELSE Append(x, h)
           Is(f) == f = [i \in 0..n |-> IF i = 0 THEN <<>> ELSE Add(f[i - 1], s[i])]
           c == CHOOSE f : Is(f)
<1>1. Loose(s) = c[n]
  BY DEF Loose
<1>2. n \in Nat /\ \A i \in 1..n : s[i] \in Byte
  OBVIOUS
<1>3. PICK f : FoldRun(T, <<>>, Strip, s, f)
  <2> DEFINE D == Byte
             b == <<>>
             g == Strip
  <2>1. b \in T
    BY LooseTyped
  <2>2. s \in Seq(D)
    OBVIOUS
  <2>3. g \in [T \X D -> T]
    BY LooseTyped
  <2> HIDE DEF T, D, b, g
  <2>4. \E f : FoldRun(T, b, g, s, f)
    BY <2>1, <2>2, <2>3, FoldExists
  <2> QED BY <2>4 DEF b, g
<1>4. f \in [0..n -> T] /\ f[0] = <<>> /\ \A i \in 1..n : f[i] = Strip[<<f[i - 1], s[i]>>]
  BY <1>3 DEF FoldRun
<1>5. FoldOf(T, <<>>, Strip, s) = f[n]
  BY <1>2, <1>3, FoldUnique
<1>6. \A x \in T, h \in Byte : Strip[<<x, h>>] = Add(x, h)
  BY DEF Strip
<1> HIDE DEF n, T, Add
<1>7. \A i \in 1..n : i - 1 \in 0..n
  BY <1>2
<1>8. \A i \in 1..n : f[i] = Add(f[i - 1], s[i])
  BY <1>2, <1>4, <1>6, <1>7
<1>9. Is(f)
  <2>1. f = [i \in 0..n |-> f[i]]
    BY <1>4
  <2>2. \A i \in 0..n : i = 0 \/ i \in 1..n
    BY <1>2
  <2>3. \A i \in 0..n : f[i] = IF i = 0 THEN <<>> ELSE Add(f[i - 1], s[i])
    BY <1>4, <1>8, <2>2
  <2> QED BY <2>1, <2>3
<1>10. Is(c)
  BY <1>9
<1> HIDE DEF c
<1>11. c[0] = <<>> /\ \A i \in 1..n : c[i] = Add(c[i - 1], s[i])
  BY <1>2, <1>10
<1>12. Together(n, c, f)
  BY <1>4, <1>8, <1>11 DEF Together
<1>13. n \in Nat
  BY <1>2
<1>14. \A i \in 0..n : c[i] = f[i]
  BY <1>12, <1>13, AgreeUpto
<1>15. c[n] = f[n]
  BY <1>13, <1>14
<1> QED BY <1>1, <1>5, <1>15 DEF T

\* What Loose leaves, byte by byte.
LEMMA LooseIs ==
    /\ Loose(<<>>) = <<>>
    /\ \A s \in Seq(Byte) : Loose(s) \in Bytes
    /\ \A s \in Seq(Byte), h \in Byte :
           \A x : x = Loose(s) =>
                Loose(Append(s, h)) = IF h \in {"u", "+", " "} THEN x ELSE Append(x, h)
<1> DEFINE T == Bytes
           D == Byte
           b == <<>>
           g == Strip
           Add(x, h) == IF h \in {"u", "+", " "} THEN x ELSE Append(x, h)
           F(s) == FoldOf(T, b, g, s)
<1>a. b \in T
  BY LooseTyped
<1>b. g \in [T \X D -> T]
  BY LooseTyped
<1>2. <<>> \in Seq(D) /\ \A s \in Seq(D), x \in D : Append(s, x) \in Seq(D)
  OBVIOUS
<1>3. \A s \in Seq(D) : Loose(s) = F(s)
  BY LooseFold
<1>4. \A x \in T, h \in D : g[<<x, h>>] = Add(x, h)
  BY DEF Strip
<1> HIDE DEF T, D, b, g, Add
<1>5. F(<<>>) = b /\ (\A s \in Seq(D) : F(s) \in T)
      /\ \A s \in Seq(D), x \in D : F(Append(s, x)) = g[<<F(s), x>>]
  <2>1. OneByOneFold(T, D, b, g)
    BY <1>a, <1>b, FoldIs
  <2> QED BY <2>1 DEF OneByOneFold
<1> HIDE DEF F
<1>6. Loose(<<>>) = b /\ \A s \in Seq(D) : Loose(s) \in T
  BY <1>2, <1>3, <1>5
<1>7. ASSUME NEW s \in Seq(D), NEW h \in D
      PROVE  Loose(Append(s, h)) = Add(Loose(s), h)
  <2>1. Loose(Append(s, h)) = F(Append(s, h)) /\ Loose(s) = F(s) /\ F(s) \in T
    BY <1>2, <1>3, <1>5
  <2>2. F(Append(s, h)) = g[<<F(s), h>>]
    BY <1>5
  <2> QED BY <1>4, <2>1, <2>2
<1>8. Loose(<<>>) = <<>> /\ \A s \in Seq(Byte) : Loose(s) \in Bytes
  BY <1>6 DEF T, D, b
<1>9. \A s \in Seq(Byte), h \in Byte :
          \A x : x = Loose(s) => Loose(Append(s, h)) = Add(x, h)
  BY <1>7 DEF D
<1> QED BY <1>8, <1>9 DEF Add

\* FlattenSeq joins.
JoinOn(D) == [p \in Seq(D) \X Seq(D) |-> p[1] \o p[2]]

\* Its type.
LEMMA JoinTyped ==
    ASSUME NEW D
    PROVE  <<>> \in Seq(D) /\ JoinOn(D) \in [Seq(D) \X Seq(D) -> Seq(D)]
<1>1. <<>> \in Seq(D)
  OBVIOUS
<1>2. \A p \in Seq(D) \X Seq(D) : p[1] \o p[2] \in Seq(D)
  <2> TAKE p \in Seq(D) \X Seq(D)
  <2>1. p[1] \in Seq(D) /\ p[2] \in Seq(D)
    OBVIOUS
  <2> QED BY <2>1
<1>3. JoinOn(D) \in [Seq(D) \X Seq(D) -> Seq(D)]
  BY <1>2 DEF JoinOn
<1> QED BY <1>1, <1>3

\* FlattenSeq is a fold.
LEMMA FlattenFold ==
    ASSUME NEW D, NEW s \in Seq(Seq(D))
    PROVE  FlattenSeq(s) = FoldOf(Seq(D), <<>>, JoinOn(D), s)
<1> DEFINE n == Len(s)
           T == Seq(D)
           b == <<>>
           g == JoinOn(D)
           Is(f) == f = [i \in 1..n |-> IF i = 1 THEN s[i] ELSE f[i - 1] \o s[i]]
           c == CHOOSE f : Is(f)
<1>2. n \in Nat /\ \A i \in 1..n : s[i] \in T
  OBVIOUS
<1>3. PICK f : FoldRun(T, b, g, s, f)
  <2>1. b \in T
    OBVIOUS
  <2>2. s \in Seq(T)
    OBVIOUS
  <2>3. g \in [T \X T -> T]
    BY JoinTyped
  <2> HIDE DEF T, b, g
  <2> QED BY <2>1, <2>2, <2>3, FoldExists
<1>4. f \in [0..n -> T] /\ f[0] = <<>> /\ \A i \in 1..n : f[i] = g[<<f[i - 1], s[i]>>]
  BY <1>3 DEF FoldRun
<1>5. FoldOf(T, b, g, s) = f[n]
  BY <1>2, <1>3, FoldUnique
<1>6. \A x \in T, h \in T : g[<<x, h>>] = x \o h
  BY DEF JoinOn
<1>e. \A h \in T : <<>> \o h = h
  OBVIOUS
<1>0. n = 0 => FlattenSeq(s) = <<>>
  BY DEF FlattenSeq
<1>1. n # 0 => FlattenSeq(s) = c[n]
  BY DEF FlattenSeq
<1> HIDE DEF n, T, g
<1>7. \A i \in 1..n : i - 1 \in 0..n
  BY <1>2
<1>8. \A i \in 1..n : f[i] = f[i - 1] \o s[i]
  BY <1>2, <1>4, <1>6, <1>7
<1> DEFINE e == [i \in 1..n |-> f[i]]
<1>9. Is(e)
  <2>1. \A i \in 1..n : e[i] = f[i] /\ (i # 1 => i - 1 \in 1..n)
    BY <1>2
  <2>2. \A i \in 1..n : i # 1 => e[i - 1] = f[i - 1]
    BY <2>1
  <2>3. 1 \in 1..n => f[1] = s[1]
    <3> SUFFICES ASSUME 1 \in 1..n PROVE f[1] = s[1]
      OBVIOUS
    <3>1. f[1] = f[0] \o s[1]
      <4>1. 1 - 1 = 0
        OBVIOUS
      <4>2. f[1] = f[1 - 1] \o s[1]
        BY <1>8
      <4> QED BY <4>1, <4>2
    <3>2. s[1] \in T
      BY <1>2
    <3> QED BY <1>4, <1>e, <3>1, <3>2
  <2>4. \A i \in 1..n : e[i] = IF i = 1 THEN s[i] ELSE e[i - 1] \o s[i]
    BY <1>8, <2>1, <2>2, <2>3
  <2> HIDE DEF e
  <2>5. e = [i \in 1..n |-> e[i]]
    BY DEF e
  <2> QED BY <2>4, <2>5
<1>10. Is(c)
  BY <1>9
<1> HIDE DEF c, e
<1>11. \A i \in 1..n : c[i] = IF i = 1 THEN s[i] ELSE c[i - 1] \o s[i]
  BY <1>2, <1>10
<1> DEFINE d == [i \in 0..n |-> IF i = 0 THEN <<>> ELSE c[i]]
<1>d. d[0] = <<>> /\ \A i \in 1..n : d[i] = c[i]
  BY <1>2
<1> HIDE DEF d
<1>12. Together(n, d, f)
  <2>1. ASSUME NEW i \in 1..n, d[i - 1] = f[i - 1] PROVE d[i] = f[i]
    <3>1. CASE i = 1
      <4>a. 1 - 1 = 0 /\ 1 \in 1..n
        BY <3>1
      <4>b. f[1] = f[1 - 1] \o s[1] /\ s[1] \in T /\ d[1] = s[1]
        BY <1>2, <1>8, <1>11, <1>d, <4>a
      <4>1. f[1] = <<>> \o s[1] /\ s[1] \in T /\ d[1] = s[1]
        BY <1>4, <4>a, <4>b
      <4> QED BY <1>e, <3>1, <4>1
    <3>2. CASE i # 1
      <4>1. i - 1 \in 1..n
        BY <1>2, <3>2
      <4>2. d[i] = c[i - 1] \o s[i] /\ d[i - 1] = c[i - 1]
        BY <1>11, <1>d, <3>2, <4>1
      <4> QED BY <1>8, <2>1, <4>2
    <3> QED BY <3>1, <3>2
  <2> QED BY <1>4, <1>d, <2>1 DEF Together
<1>13. n \in Nat
  BY <1>2
<1>14. \A i \in 0..n : d[i] = f[i]
  BY <1>12, <1>13, AgreeUpto
<1>15. d[n] = f[n]
  BY <1>13, <1>14
<1>16. CASE n = 0
  BY <1>0, <1>4, <1>5, <1>16 DEF T, g
<1>17. CASE n # 0
  <2>1. d[n] = c[n]
    BY <1>13, <1>17, <1>d
  <2> QED BY <1>1, <1>5, <1>15, <1>17, <2>1 DEF T, g
<1> QED BY <1>16, <1>17

\* FlattenSeq, sequence by sequence.
LEMMA FlattenIs ==
    ASSUME NEW D
    PROVE  /\ FlattenSeq(<<>>) = <<>>
           /\ \A s \in Seq(Seq(D)) : FlattenSeq(s) \in Seq(D)
           /\ \A s \in Seq(Seq(D)), h \in Seq(D) : FlattenSeq(Append(s, h)) = FlattenSeq(s) \o h
<1> DEFINE T == Seq(D)
           b == <<>>
           g == JoinOn(D)
           F(s) == FoldOf(T, b, g, s)
<1>a. b \in T
  BY JoinTyped
<1>b. g \in [T \X T -> T]
  BY JoinTyped
<1>2. <<>> \in Seq(T) /\ \A s \in Seq(T), x \in T : Append(s, x) \in Seq(T)
  OBVIOUS
<1>3. \A s \in Seq(T) : FlattenSeq(s) = F(s)
  BY FlattenFold
<1>4. \A x \in T, h \in T : g[<<x, h>>] = x \o h
  BY DEF JoinOn
<1> HIDE DEF T, b, g
<1>5. F(<<>>) = b /\ (\A s \in Seq(T) : F(s) \in T)
      /\ \A s \in Seq(T), x \in T : F(Append(s, x)) = g[<<F(s), x>>]
  <2>1. OneByOneFold(T, T, b, g)
    BY <1>a, <1>b, FoldIs
  <2> QED BY <2>1 DEF OneByOneFold
<1> HIDE DEF F
<1>6. FlattenSeq(<<>>) = b /\ \A s \in Seq(T) : FlattenSeq(s) \in T
  BY <1>2, <1>3, <1>5
<1>7. ASSUME NEW s \in Seq(T), NEW h \in T
      PROVE  FlattenSeq(Append(s, h)) = FlattenSeq(s) \o h
  <2>1. FlattenSeq(Append(s, h)) = F(Append(s, h)) /\ FlattenSeq(s) = F(s) /\ F(s) \in T
    BY <1>2, <1>3, <1>5
  <2>2. F(Append(s, h)) = g[<<F(s), h>>]
    BY <1>5
  <2> QED BY <1>4, <2>1, <2>2
<1> QED BY <1>6, <1>7 DEF T, b

\* Every non-empty set of naturals up to n has a greatest element.
LEMMA Greatest ==
    ASSUME NEW n \in Nat, NEW S, S \subseteq 0..n, S # {}
    PROVE  \E i \in S : \A j \in S : j <= i
<1> DEFINE M == {k \in Nat : \A j \in S : j <= k}
<1>1. n \in M
  OBVIOUS
<1>2. PICK k \in M : \A l \in M : k <= l
  BY <1>1, Least
<1>3. CASE k \in S
  BY <1>2, <1>3
<1>4. CASE k \notin S
  <2>1. PICK j \in S : TRUE
    OBVIOUS
  <2>2. j \in Nat /\ j <= k /\ j # k
    BY <1>2, <1>4, <2>1
  <2>3. k - 1 \in Nat
    BY <2>2
  <2>4. \A i \in S : i <= k - 1
    BY <1>2, <1>4
  <2>5. k - 1 \in M
    BY <2>3, <2>4
  <2> QED BY <1>2, <2>3, <2>5
<1> QED BY <1>3, <1>4

\* Trimming leaves bytes.
LEMMA TrimTyped ==
    ASSUME NEW s \in Bytes
    PROVE  trim_ows(s) \in Bytes
<1> DEFINE kept == {i \in DOMAIN s : s[i] # " "}
           Low(i) == \A j \in kept : i <= j
           High(i) == \A j \in kept : i >= j
<1>1. Len(s) \in Nat /\ DOMAIN s = 1..Len(s) /\ \A i \in DOMAIN s : s[i] \in Byte
  BY DEF Bytes
<1>2. kept \subseteq Nat /\ kept \subseteq 0..Len(s) /\ kept \subseteq 1..Len(s)
  <2>1. \A i \in kept : i \in 1..Len(s)
    BY <1>1
  <2> HIDE DEF kept
  <2> QED BY <1>1, <2>1
<1>3. CASE kept = {}
  <2>1. trim_ows(s) = <<>>
    BY <1>3 DEF trim_ows
  <2>2. <<>> \in Bytes
    BY DEF Bytes
  <2> QED BY <2>1, <2>2
<1>4. CASE kept # {}
  <2> DEFINE a == CHOOSE i \in kept : Low(i)
             z == CHOOSE i \in kept : High(i)
  <2>1. trim_ows(s) = SubSeq(s, a, z)
    BY <1>4 DEF trim_ows
  <2> HIDE DEF kept
  <2>2. \E i \in kept : Low(i)
    BY <1>2, <1>4, Least
  <2>3. \E i \in kept : High(i)
    <3>1. PICK i \in kept : \A j \in kept : j <= i
      BY <1>1, <1>2, <1>4, Greatest
    <3>2. High(i)
      BY <1>2, <3>1
    <3> QED BY <3>2
  <2>4. a \in kept /\ z \in kept
    BY <2>2, <2>3
  <2> HIDE DEF a, z
  <2>5. a \in 1..Len(s) /\ z \in 1..Len(s)
    BY <1>2, <2>4
  <2>6. \A i \in a..z : s[i] \in Byte
    BY <1>1, <2>5
  <2>7. a \in Int /\ z \in Int
    BY <2>5
  <2>8. SubSeq(s, a, z) \in Seq(Byte)
    BY <2>6, <2>7, SubSeqProperties
  <2> QED BY <2>1, <2>8 DEF Bytes
<1> QED BY <1>3, <1>4

\* Parts and Elements have one byte string for each element of the list, at least one.
LEMMA ElementsTyped ==
    ASSUME NEW v \in Bytes
    PROVE  /\ Parts(v) \in Seq(Bytes) /\ Parts(v) # <<>>
           /\ Elements(v) \in Seq(Bytes) /\ Elements(v) # <<>>
           /\ Len(Elements(v)) = Len(Parts(v)) /\ Len(Parts(v)) \in Nat
           /\ \A i \in 1..Len(Parts(v)) : Elements(v)[i] = trim_ows(Parts(v)[i])
<1> DEFINE p == Parts(v)
<1>1. p \in Seq(Bytes) /\ p # <<>>
  BY PartsIs DEF NeSeq, Bytes
<1>2. Elements(v) = [i \in DOMAIN p |-> trim_ows(p[i])]
  BY DEF Elements
<1> HIDE DEF p
<1>3. Len(p) \in Nat /\ DOMAIN p = 1..Len(p) /\ Len(p) # 0 /\ \A i \in DOMAIN p : p[i] \in Bytes
  BY <1>1
<1>4. \A i \in DOMAIN p : trim_ows(p[i]) \in Bytes
  BY <1>3, TrimTyped
<1> DEFINE E == [i \in 1..Len(p) |-> trim_ows(p[i])]
<1>5. E \in Seq(Bytes) /\ Len(E) = Len(p) /\ \A i \in 1..Len(p) : E[i] = trim_ows(p[i])
  BY <1>3, <1>4
<1>6. Elements(v) = E
  BY <1>2, <1>3
<1> HIDE DEF E
<1>7. E # <<>>
  BY <1>3, <1>5
<1> QED BY <1>1, <1>3, <1>5, <1>6, <1>7 DEF p

\* Append, and joining on the left.
LEMMA AppendConcat ==
    ASSUME NEW S, NEW p \in Seq(S), NEW q \in Seq(S), NEW x \in S
    PROVE  /\ p \o Append(q, x) = Append(p \o q, x)
           /\ p \o <<x>> = Append(p, x)
           /\ p \o q \in Seq(S) /\ Append(q, x) \in Seq(S)
<1>1. p \o q \in Seq(S) /\ Append(q, x) \in Seq(S)
  OBVIOUS
<1>2. p \o Append(q, x) = Append(p \o q, x)
  OBVIOUS
<1>3. p \o <<x>> = Append(p, x)
  OBVIOUS
<1> QED BY <1>1, <1>2, <1>3

\* A sequence with its last element replaced.
LEMMA ExceptLast ==
    ASSUME NEW S, NEW r \in Seq(S), NEW x \in S, r # <<>>
    PROVE  /\ [r EXCEPT ![Len(r)] = x] \in Seq(S) /\ Len([r EXCEPT ![Len(r)] = x]) = Len(r)
           /\ \A i \in 1..Len(r) : [r EXCEPT ![Len(r)] = x][i] = IF i = Len(r) THEN x ELSE r[i]
<1>1. Len(r) \in Nat /\ Len(r) \in 1..Len(r) /\ DOMAIN r = 1..Len(r) /\ \A i \in 1..Len(r) : r[i] \in S
  OBVIOUS
<1> DEFINE y == [r EXCEPT ![Len(r)] = x]
<1>2. y \in Seq(S) /\ Len(y) = Len(r)
  BY <1>1
<1>3. \A i \in 1..Len(r) : y[i] = IF i = Len(r) THEN x ELSE r[i]
  BY <1>1
<1> QED BY <1>2, <1>3

\* r is p and then q.
Joins(r, p, q) == r = p \o q

\* To replace the last of r is to replace the last of q.
LastReplaced(p, q, r, x) ==
    /\ r[Len(r)] = q[Len(q)]
    /\ [r EXCEPT ![Len(r)] = x] = p \o [q EXCEPT ![Len(q)] = x]

\* So it is where r joins p and q.
LEMMA ExceptConcat ==
    ASSUME NEW S, NEW p \in Seq(S), NEW q \in Seq(S), q # <<>>, NEW x \in S,
           NEW r, Joins(r, p, q)
    PROVE  LastReplaced(p, q, r, x)
<1> DEFINE m == Len(p)
           n == Len(q)
           a == [r EXCEPT ![Len(r)] = x]
           b == [q EXCEPT ![n] = x]
           c == p \o b
<1>1. m \in Nat /\ n \in Nat /\ n # 0
  OBVIOUS
<1>2. /\ r \in Seq(S) /\ Len(r) = m + n
      /\ \A i \in 1..(m + n) : r[i] = IF i <= m THEN p[i] ELSE q[i - m]
  BY ConcatProperties DEF Joins
<1>3. b \in Seq(S) /\ Len(b) = n /\ \A i \in 1..n : b[i] = IF i = n THEN x ELSE q[i]
  BY <1>1
<1> HIDE DEF b
<1>4. /\ c \in Seq(S) /\ Len(c) = Len(p) + Len(b)
      /\ \A i \in 1..(Len(p) + Len(b)) : c[i] = IF i <= Len(p) THEN p[i] ELSE b[i - Len(p)]
  BY <1>3, ConcatProperties
<1>5. Len(c) = m + n /\ \A i \in 1..(m + n) : c[i] = IF i <= m THEN p[i] ELSE b[i - m]
  BY <1>3, <1>4
<1>6. a \in Seq(S) /\ Len(a) = Len(r) /\ \A i \in 1..Len(r) : a[i] = IF i = Len(r) THEN x ELSE r[i]
  <2>1. r # <<>>
    BY <1>1, <1>2
  <2>2. r \in Seq(S)
    BY <1>2
  <2> QED BY <2>1, <2>2, ExceptLast
<1>7. Len(a) = m + n /\ \A i \in 1..(m + n) : a[i] = IF i = m + n THEN x ELSE r[i]
  BY <1>2, <1>6
<1> HIDE DEF a, c, m, n
<1>8. ASSUME NEW i \in 1..(m + n) PROVE a[i] = c[i]
  <2>1. CASE i <= m
    <3>1. i # m + n
      BY <1>1, <2>1
    <3> QED BY <1>2, <1>5, <1>7, <2>1, <3>1
  <2>2. CASE ~(i <= m)
    <3>1. i - m \in 1..n /\ (i = m + n <=> i - m = n)
      BY <1>1, <2>2
    <3>2. a[i] = IF i - m = n THEN x ELSE q[i - m]
      BY <1>2, <1>7, <2>2, <3>1
    <3>3. c[i] = IF i - m = n THEN x ELSE q[i - m]
      BY <1>3, <1>5, <2>2, <3>1
    <3> QED BY <3>2, <3>3
  <2> QED BY <2>1, <2>2
<1>9. a = c
  BY <1>4, <1>5, <1>6, <1>7, <1>8, SeqEqual
<1>10. r[m + n] = q[n]
  <2>1. m + n \in 1..(m + n) /\ ~(m + n <= m) /\ (m + n) - m = n
    BY <1>1
  <2> QED BY <1>2, <2>1
<1> QED BY <1>2, <1>9, <1>10 DEF a, b, c, m, n, LastReplaced

\* The comma.  Under its own name the provers do not compare it with other strings.
IsComma(b) == b = ","

\* The list v, a comma, and the list w, have the parts of v and the parts of w.
LEMMA PartsJoin ==
    ASSUME NEW v \in Bytes, NEW w \in Bytes, NEW comma \in Byte, IsComma(comma)
    PROVE  Parts(Append(v, comma) \o w) = Parts(v) \o Parts(w)
<1> DEFINE k == Append(v, comma)
           P == Seq(Bytes)
           S == {u \in Bytes : Parts(k \o u) = Parts(v) \o Parts(u)}
<1>0. <<>> \in Bytes
  BY DEF Bytes
<1>1. k \in Bytes /\ k \o <<>> = k
  BY DEF Bytes
<1>2. Parts(<<>>) = << <<>> >> /\ Parts(v) \in P
  BY PartsIs, ElementsTyped
<1>3. <<>> \in S
  <2>1. Parts(k) = Append(Parts(v), <<>>)
    BY PartsIs DEF Bytes, IsComma
  <2>2. Append(Parts(v), <<>>) = Parts(v) \o << <<>> >>
    BY <1>0, <1>2, AppendConcat
  <2> QED BY <1>0, <1>1, <1>2, <2>1, <2>2
<1> HIDE DEF k
<1>4. ASSUME NEW u \in Bytes, NEW h \in Byte, u \in S PROVE Append(u, h) \in S
  <2> DEFINE p == Parts(v)
             q == Parts(u)
             r == Parts(k \o u)
             t == k \o u
  <2>1. p \in P /\ q \in P /\ q # <<>> /\ r = p \o q
    BY <1>2, <1>4, ElementsTyped
  <2>2. t \in Bytes /\ Append(u, h) \in Bytes /\ k \o Append(u, h) = Append(t, h)
    BY <1>1, AppendConcat DEF Bytes
  <2>a. u \in Seq(Byte) /\ t \in Seq(Byte)
    BY <2>2 DEF Bytes
  <2>b. r = Parts(t)
    OBVIOUS
  <2> HIDE DEF t, r
  <2>3. Parts(Append(u, h)) = IF h = "," THEN Append(q, <<>>)
                              ELSE [q EXCEPT ![Len(q)] = Append(q[Len(q)], h)]
    BY <2>a, PartsIs
  <2>4. Parts(Append(t, h)) = IF h = "," THEN Append(r, <<>>)
                              ELSE [r EXCEPT ![Len(r)] = Append(r[Len(r)], h)]
    BY <2>a, <2>b, PartsIs
  <2>5. CASE h = ","
    <3>1. Append(r, <<>>) = p \o Append(q, <<>>)
      <4> DEFINE e == <<>>
      <4>1. e \in Bytes /\ p \in Seq(Bytes) /\ q \in Seq(Bytes)
        BY <1>0, <2>1
      <4> HIDE DEF p, q, e
      <4>2. p \o Append(q, e) = Append(p \o q, e)
        BY <4>1, AppendConcat
      <4> QED BY <2>1, <4>2 DEF e
    <3> QED BY <2>2, <2>3, <2>4, <2>5, <3>1
  <2>6. CASE h # ","
    <3> DEFINE x == Append(q[Len(q)], h)
    <3>1. q[Len(q)] \in Bytes
      <4> HIDE DEF q
      <4> QED BY <2>1
    <3>2. x \in Bytes
      BY <3>1 DEF Bytes
    <3> HIDE DEF x
    <3>3. r[Len(r)] = q[Len(q)] /\ [r EXCEPT ![Len(r)] = x] = p \o [q EXCEPT ![Len(q)] = x]
      <4>1. p \in Seq(Bytes) /\ q \in Seq(Bytes) /\ q # <<>> /\ Joins(r, p, q)
        BY <2>1 DEF Joins
      <4> HIDE DEF p, q
      <4>2. LastReplaced(p, q, r, x)
        BY <3>2, <4>1, ExceptConcat
      <4> QED BY <4>2 DEF LastReplaced
    <3>4. Append(r[Len(r)], h) = x
      BY <3>3 DEF x
    <3>5. Parts(Append(t, h)) = p \o Parts(Append(u, h))
      BY <2>3, <2>4, <2>6, <3>3, <3>4 DEF x
    <3> QED BY <2>2, <3>5
  <2> QED BY <2>5, <2>6
<1>5. Bytes \subseteq S
  <2> HIDE DEF S
  <2>1. <<>> \in S /\ \A u \in Seq(Byte), h \in Byte : u \in S => Append(u, h) \in S
    BY <1>3, <1>4 DEF Bytes
  <2> DEFINE D == Byte
  <2> HIDE DEF D
  <2>2. <<>> \in S /\ \A u \in Seq(D), h \in D : u \in S => Append(u, h) \in S
    BY <2>1 DEF D
  <2>3. Seq(D) \subseteq S
    BY <2>2, SeqInduction
  <2> QED BY <2>3 DEF D, Bytes
<1> QED BY <1>5 DEF k

\* And the elements of v and the elements of w.
LEMMA ElementsJoin ==
    ASSUME NEW v \in Bytes, NEW w \in Bytes, NEW comma \in Byte, IsComma(comma)
    PROVE  Elements(Append(v, comma) \o w) = Elements(v) \o Elements(w)
<1> DEFINE u == Append(v, comma) \o w
           p == Parts(v)
           q == Parts(w)
           r == Parts(u)
           a == Elements(v)
           b == Elements(w)
           c == Elements(u)
           d == a \o b
<1>1. u \in Bytes
  BY DEF Bytes
<1>2. r = p \o q
  BY PartsJoin
<1> HIDE DEF u
<1>3. /\ p \in Seq(Bytes) /\ a \in Seq(Bytes) /\ Len(a) = Len(p) /\ Len(p) \in Nat
      /\ \A i \in 1..Len(p) : a[i] = trim_ows(p[i])
  BY ElementsTyped
<1>4. /\ q \in Seq(Bytes) /\ b \in Seq(Bytes) /\ Len(b) = Len(q) /\ Len(q) \in Nat
      /\ \A i \in 1..Len(q) : b[i] = trim_ows(q[i])
  BY ElementsTyped
<1>5. /\ r \in Seq(Bytes) /\ c \in Seq(Bytes) /\ Len(c) = Len(r) /\ Len(r) \in Nat
      /\ \A i \in 1..Len(r) : c[i] = trim_ows(r[i])
  BY <1>1, ElementsTyped
<1> HIDE DEF p, q, r, a, b, c
<1>6. /\ Len(r) = Len(p) + Len(q)
      /\ \A i \in 1..(Len(p) + Len(q)) : r[i] = IF i <= Len(p) THEN p[i] ELSE q[i - Len(p)]
  BY <1>2, <1>3, <1>4, ConcatProperties
<1>7. /\ d \in Seq(Bytes) /\ Len(d) = Len(a) + Len(b)
      /\ \A i \in 1..(Len(a) + Len(b)) : d[i] = IF i <= Len(a) THEN a[i] ELSE b[i - Len(a)]
  BY <1>3, <1>4, ConcatProperties
<1> HIDE DEF d
<1> DEFINE m == Len(p)
           n == Len(q)
<1>8. /\ m \in Nat /\ n \in Nat /\ Len(c) = m + n /\ Len(d) = m + n
      /\ \A i \in 1..m : a[i] = trim_ows(p[i])
      /\ \A i \in 1..n : b[i] = trim_ows(q[i])
      /\ \A i \in 1..(m + n) : c[i] = trim_ows(r[i])
      /\ \A i \in 1..(m + n) : r[i] = IF i <= m THEN p[i] ELSE q[i - m]
      /\ \A i \in 1..(m + n) : d[i] = IF i <= m THEN a[i] ELSE b[i - m]
  BY <1>3, <1>4, <1>5, <1>6, <1>7
<1> HIDE DEF m, n
<1>9. ASSUME NEW i \in 1..(m + n) PROVE c[i] = d[i]
  <2>1. CASE i <= m
    <3>1. i \in 1..m
      BY <1>8, <2>1
    <3> QED BY <1>8, <2>1, <3>1
  <2>2. CASE ~(i <= m)
    <3>1. i - m \in 1..n
      BY <1>8, <2>2
    <3> QED BY <1>8, <2>2, <3>1
  <2> QED BY <2>1, <2>2
<1>10. c = d
  BY <1>5, <1>7, <1>8, <1>9, SeqEqual
<1> QED BY <1>10 DEF c, d, u, a, b

\* AllElements, value by value.
LEMMA AllElementsIs ==
    /\ AllElements(<<>>) = <<>>
    /\ \A vs \in Seq(Bytes) : AllElements(vs) \in Seq(Bytes)
    /\ \A vs \in Seq(Bytes), v \in Bytes :
           AllElements(Append(vs, v)) = AllElements(vs) \o Elements(v)
<1> DEFINE M(vs) == [i \in DOMAIN vs |-> Elements(vs[i])]
<1>1. ASSUME NEW vs \in Seq(Bytes)
      PROVE  M(vs) \in Seq(Seq(Bytes)) /\ Len(M(vs)) = Len(vs)
             /\ \A i \in 1..Len(vs) : M(vs)[i] = Elements(vs[i])
  <2>1. Len(vs) \in Nat /\ DOMAIN vs = 1..Len(vs) /\ \A i \in 1..Len(vs) : vs[i] \in Bytes
    OBVIOUS
  <2>2. \A i \in 1..Len(vs) : Elements(vs[i]) \in Seq(Bytes)
    BY <2>1, ElementsTyped
  <2>3. M(vs) = [i \in 1..Len(vs) |-> Elements(vs[i])]
    BY <2>1
  <2> DEFINE m == [i \in 1..Len(vs) |-> Elements(vs[i])]
  <2>4. m \in Seq(Seq(Bytes)) /\ Len(m) = Len(vs) /\ \A i \in 1..Len(vs) : m[i] = Elements(vs[i])
    BY <2>1, <2>2
  <2> QED BY <2>3, <2>4
<1>2. \A vs : AllElements(vs) = FlattenSeq(M(vs))
  BY DEF AllElements
<1>3. M(<<>>) = <<>>
  OBVIOUS
<1>4. AllElements(<<>>) = <<>>
  BY <1>2, <1>3, FlattenIs
<1> HIDE DEF M
<1>5. ASSUME NEW vs \in Seq(Bytes) PROVE AllElements(vs) \in Seq(Bytes)
  BY <1>1, <1>2, FlattenIs
<1>6. ASSUME NEW vs \in Seq(Bytes), NEW v \in Bytes
      PROVE  AllElements(Append(vs, v)) = AllElements(vs) \o Elements(v)
  <2> DEFINE e == Elements(v)
             s == M(vs)
             t == M(Append(vs, v))
             n == Len(vs)
             ws == Append(vs, v)
  <2>1. e \in Seq(Bytes)
    BY ElementsTyped
  <2>2. s \in Seq(Seq(Bytes)) /\ Len(s) = n /\ n \in Nat /\ \A i \in 1..n : s[i] = Elements(vs[i])
    BY <1>1
  <2>3. ws \in Seq(Bytes) /\ Len(ws) = n + 1 /\ ws[n + 1] = v /\ \A i \in 1..n : ws[i] = vs[i]
    OBVIOUS
  <2>a. t = M(ws)
    OBVIOUS
  <2> HIDE DEF e, s, t, ws
  <2>4. t \in Seq(Seq(Bytes)) /\ Len(t) = Len(ws) /\ \A i \in 1..Len(ws) : t[i] = Elements(ws[i])
    BY <1>1, <2>3, <2>a
  <2> HIDE DEF n
  <2>5. Len(t) = n + 1 /\ t[n + 1] = e /\ \A i \in 1..n : t[i] = s[i]
    <3>1. n + 1 \in 1..(n + 1) /\ \A i \in 1..n : i \in 1..(n + 1)
      BY <2>2
    <3> QED BY <2>2, <2>3, <2>4, <3>1 DEF e
  <2> DEFINE x == Append(s, e)
  <2>6. x \in Seq(Seq(Bytes)) /\ Len(x) = n + 1 /\ x[n + 1] = e /\ \A i \in 1..n : x[i] = s[i]
    BY <2>1, <2>2
  <2> HIDE DEF x
  <2>7. \A i \in 1..(n + 1) : t[i] = x[i]
    <3>1. \A i \in 1..(n + 1) : i \in 1..n \/ i = n + 1
      BY <2>2
    <3> QED BY <2>5, <2>6, <3>1
  <2>8. t = x
    BY <2>4, <2>5, <2>6, <2>7, SeqEqual
  <2>9. FlattenSeq(Append(s, e)) = FlattenSeq(s) \o e
    BY <2>1, <2>2, FlattenIs
  <2> QED BY <1>2, <2>8, <2>9 DEF x, e, s, t
<1> QED BY <1>4, <1>5, <1>6

\* A list with a value has an element.
LEMMA SomeElement ==
    ASSUME NEW vs \in Seq(Bytes), vs # <<>>
    PROVE  /\ AllElements(vs) \in Seq(Bytes) /\ AllElements(vs) # <<>>
           /\ Len(AllElements(vs)) \in Nat /\ 1 <= Len(AllElements(vs))
           /\ DOMAIN AllElements(vs) = 1..Len(AllElements(vs))
           /\ \A i \in 1..Len(AllElements(vs)) : AllElements(vs)[i] \in Bytes
<1> DEFINE S == {s \in Seq(Bytes) : s # <<>> => AllElements(s) # <<>>}
<1>1. <<>> \in S
  OBVIOUS
<1>2. ASSUME NEW s \in Seq(Bytes), NEW x \in Bytes PROVE Append(s, x) \in S
  <2> DEFINE a == AllElements(s)
             b == Elements(x)
  <2>1. a \in Seq(Bytes)
    BY AllElementsIs
  <2>2. b \in Seq(Bytes) /\ b # <<>>
    BY ElementsTyped
  <2>3. AllElements(Append(s, x)) = a \o b
    BY AllElementsIs
  <2> HIDE DEF a, b
  <2>4. Len(a \o b) = Len(a) + Len(b) /\ Len(a) \in Nat /\ Len(b) \in Nat /\ Len(b) # 0
    BY <2>1, <2>2, ConcatProperties, EmptySeq
  <2>5. Len(a \o b) # 0
    BY <2>4
  <2>6. a \o b # <<>>
    BY <2>5
  <2>7. Append(s, x) \in Seq(Bytes)
    OBVIOUS
  <2> QED BY <2>3, <2>6, <2>7
<1>3. Seq(Bytes) \subseteq S
  <2> HIDE DEF S
  <2> QED BY <1>1, <1>2, SeqInduction
<1> DEFINE e == AllElements(vs)
<1>4. e \in Seq(Bytes) /\ e # <<>>
  BY <1>3, AllElementsIs
<1> HIDE DEF e
<1>5. Len(e) \in Nat /\ 1 <= Len(e) /\ DOMAIN e = 1..Len(e) /\ \A i \in 1..Len(e) : e[i] \in Bytes
  BY <1>4, EmptySeq
<1> QED BY <1>4, <1>5 DEF e

\* A length that stands is a number, the same in every element.
LEMMA LengthIs ==
    ASSUME NEW vs \in Seq(Bytes), vs # <<>>
    PROVE  LET es == AllElements(vs) IN
           \/ ContentLength(vs) \in {Refuse("InvalidContentLength"), Refuse("DuplicateContentLength")}
           \/ \E n \in Nat :
                  /\ ContentLength(vs) = Limited(n)
                  /\ \A i \in DOMAIN es : /\ Numeral(es[i]) /\ es[i] # <<>>
                                          /\ PortValue(es[i]) = n
<1> DEFINE es == AllElements(vs)
           lens == [i \in DOMAIN es |-> parse_content_length(es[i])]
           wrong == {i \in DOMAIN lens : lens[i] = None \/ lens[i] # lens[1]}
<1>1. CASE wrong # {}
  BY <1>1 DEF ContentLength
<1>2. CASE wrong = {}
  <2>1. ContentLength(vs) = Limited(lens[1])
    BY <1>2 DEF ContentLength
  <2>2. 1 \in DOMAIN es /\ \A i \in DOMAIN es : es[i] \in Bytes
    <3>1. /\ Len(es) \in Nat /\ 1 <= Len(es) /\ DOMAIN es = 1..Len(es)
          /\ \A i \in 1..Len(es) : es[i] \in Bytes
      BY SomeElement
    <3> HIDE DEF es
    <3> QED BY <3>1
  <2> HIDE DEF es
  <2>3. \A i \in DOMAIN es : parse_content_length(es[i]) # None
                             /\ parse_content_length(es[i]) = parse_content_length(es[1])
    BY <1>2, <2>2
  <2>4. \A i \in DOMAIN es : /\ Numeral(es[i]) /\ es[i] # <<>>
                             /\ parse_content_length(es[i]) \in Nat
                             /\ parse_content_length(es[i]) = PortValue(es[i])
    BY <2>2, <2>3, ParseIs
  <2>5. lens[1] = parse_content_length(es[1])
    BY <2>2
  <2> DEFINE n == parse_content_length(es[1])
  <2>6. n \in Nat /\ ContentLength(vs) = Limited(n)
    BY <2>1, <2>2, <2>4, <2>5
  <2>7. \A i \in DOMAIN es : Numeral(es[i]) /\ es[i] # <<>> /\ PortValue(es[i]) = n
    BY <2>3, <2>4
  <2> HIDE DEF n, lens, wrong
  <2> QED BY <2>6, <2>7 DEF es
<1> QED BY <1>1, <1>2

\* What decide refuses, and the lengths it lets through.
Bounded(v) ==
    v.error \notin {"TooManyHeaders", "HeadTooLarge"} /\ v.len <= MaxBody

\* decide's verdicts are bounded.
LEMMA DecideBounded ==
    ASSUME NEW h, h.headers \in Seq(Header)
    PROVE  Bounded(decide(h))
<1>0. MaxBody \in Nat
  BY FramingAssumption
<1> DEFINE Fine(e) == e \notin {"TooManyHeaders", "HeadTooLarge"}
<1>1. \A e : Fine(e) => Bounded(Refuse(e))
  BY <1>0 DEF Bounded, Refuse
<1>2. \A k : Bounded(Kind(k, 0))
  BY <1>0 DEF Bounded, Kind
<1>3. \A n \in Nat : Bounded(Limited(n))
  BY <1>0 DEF Bounded, Limited, Refuse, Kind
<1>4. \A t, d : Fine(Reconcile(h, t, d))
  BY DEF Reconcile
<1>5. Fine(check_authority(h))
  <2> HIDE DEF Fine
  <2>1. Fine("InvalidHost") /\ Fine("InvalidAuthority") /\ Fine("none") /\ Fine("UnsupportedScheme")
    BY DEF Fine
  <2> QED BY <1>4, <2>1 DEF check_authority
<1>6. \A vs : Bounded(TransferEncoding(vs))
  <2>1. \A e \in {"ChunkedNotFinal", "UnsupportedTransferEncoding"} : Bounded(Refuse(e))
    BY <1>1
  <2> QED BY <1>2, <2>1 DEF TransferEncoding
<1>7. \A vs \in Seq(Bytes) : vs # <<>> => Bounded(ContentLength(vs))
  <2>1. \A e \in {"InvalidContentLength", "DuplicateContentLength"} : Bounded(Refuse(e))
    BY <1>1
  <2> QED BY <1>3, <2>1, LengthIs
<1>8. all(h, "ContentLength") \in Seq(Bytes)
  BY ValuesIs DEF all
<1>9. \A e \in {"LengthAndTransferEncoding", "TransferEncodingOnHttp10", "MissingHost", "MultipleHost"} :
          Bounded(Refuse(e))
  BY <1>1
<1>10. Bounded(Refuse(check_authority(h)))
  BY <1>1, <1>5
<1>11. \A c : Bounded(BodyKind(h.version, all(h, "ContentLength"), c))
  BY <1>2, <1>6, <1>7, <1>8, <1>9 DEF BodyKind
<1> QED BY <1>9, <1>10, <1>11 DEF decide

-----------------------------------------------------------------------------
(* The inductive invariant.                                                *)

\* The head that Parse makes of a request.
Made(r) == HeadNew(r.method, r.target, r.version, r.headers)

\* Where a head is on its way, and what is known of it there.
HeadOnItsWay ==
    /\ request \in Request
    /\ stage = "received" => head = NoHead /\ verdict = Kind("undecided", 0)
    /\ stage = "refused" =>
           \/ /\ head = NoHead /\ ParseError(request) # "none"
              /\ verdict = Refuse(ParseError(request))
           \/ ParseError(request) = "none" /\ head = Made(request) /\ verdict = decide(head)
    /\ stage \notin {"received", "refused"} => ParseError(request) = "none"
    /\ stage = "parsed" => head = Made(request) /\ verdict = Kind("undecided", 0)
    /\ stage = "accepted" =>
           head = Made(request) /\ verdict = decide(head) /\ verdict.error = "none"
    /\ stage \notin {"received", "parsed", "refused"} => verdict = decide(Made(request))
    /\ Whole(head)

\* Sequences over a larger set.
LEMMA SeqMonotone ==
    ASSUME NEW S, NEW T, S \subseteq T
    PROVE  Seq(S) \subseteq Seq(T)
OBVIOUS

\* A request's target and fields are made of bytes.
LEMMA RequestBytes ==
    ASSUME NEW r \in Request
    PROVE  r.target \in Bytes /\ r.headers \in Seq(Header)
<1>1. STRING \subseteq Byte
  BY DEF Byte
<1>2. r.target \in Seq(STRING) /\ r.headers \in Seq([id : STRING, value : Seq(STRING)])
  BY DEF Request
<1>3. Seq(STRING) \subseteq Bytes
  BY <1>1, SeqMonotone DEF Bytes
<1>4. [id : STRING, value : Seq(STRING)] \subseteq Header
  <2>1. STRING \subseteq Name
    BY DEF Name
  <2> QED BY <1>3, <2>1 DEF Header
<1> DEFINE A == [id : STRING, value : Seq(STRING)]
<1>5. r.headers \in Seq(A) /\ A \subseteq Header
  BY <1>2, <1>4
<1> HIDE DEF A
<1>6. r.headers \in Seq(Header)
  BY <1>5
<1> QED BY <1>2, <1>3, <1>6

\* Head::new's splits are those of its target.
LEMMA MadeIsWhole ==
    ASSUME NEW r \in Request
    PROVE  Whole(Made(r)) /\ Made(r).headers \in Seq(Header)
           /\ Made(r).target = r.target /\ Made(r).method = r.method
<1>1. /\ Made(r).target = r.target /\ Made(r).headers = r.headers /\ Made(r).method = r.method
      /\ Made(r).query_at = find_query(r.target)
      /\ Made(r).authority_at = find_absolute_authority(r.target)
  BY DEF Made, HeadNew
<1> QED BY <1>1, RequestBytes DEF Whole

\* And so are those of the head before there is one.
LEMMA NoHeadIsWhole == Whole(NoHead)
<1>1. /\ NoHead.target = <<>> /\ NoHead.query_at = find_query(<<>>)
      /\ NoHead.authority_at = find_absolute_authority(<<>>)
  BY DEF NoHead, HeadNew
<1>2. <<>> \in Bytes
  BY DEF Bytes
<1> QED BY <1>1, <1>2 DEF Whole

\* set_target splits anew.
LEMMA RewriteIsWhole ==
    ASSUME NEW h, Whole(h), NEW t \in Rewrites,
           \E m, u, v, hs, q, a : h = [method |-> m, target |-> u, version |-> v, headers |-> hs,
                                       query_at |-> q, authority_at |-> a]
    PROVE  Whole(set_target(h, t))
<1>1. t \in Bytes
  <2>1. STRING \subseteq Byte
    BY DEF Byte
  <2>2. t \in Seq(STRING)
    BY RequestsAssumption
  <2>3. Seq(STRING) \subseteq Bytes
    BY <2>1, SeqMonotone DEF Bytes
  <2> QED BY <2>2, <2>3
<1>2. /\ set_target(h, t).target = t
      /\ set_target(h, t).query_at = find_query(t)
      /\ set_target(h, t).authority_at = find_absolute_authority(t)
  BY DEF set_target
<1> QED BY <1>1, <1>2 DEF Whole

\* HeadOnItsWay is inductive: Parse makes the head with Head::new, decide is asked
\* once, and of the handler's operations only set_target touches the splits, all of
\* them.
THEOREM OnItsWay == BridgeSpec => []HeadOnItsWay
<1>1. RespondInit => HeadOnItsWay
  <2>1. ASSUME RespondInit PROVE HeadOnItsWay
    <3>1. request \in Request
      BY <2>1, RequestsAssumption DEF RespondInit, Init
    <3> QED BY <2>1, <3>1, NoHeadIsWhole DEF RespondInit, Init, HeadOnItsWay
  <2> QED BY <2>1
<1>2. HeadOnItsWay /\ [BridgeNext]_responseVars => HeadOnItsWay'
  <2> SUFFICES ASSUME HeadOnItsWay, [BridgeNext]_responseVars PROVE HeadOnItsWay'
    OBVIOUS
  <2>1. CASE Parse
    <3>1. request' = request /\ request \in Request /\ stage = "received"
          /\ head = NoHead /\ verdict = Kind("undecided", 0) /\ Whole(head)
      BY <2>1 DEF Parse, HeadOnItsWay
    <3>2. CASE ParseError(request) # "none"
      <4>1. stage' = "refused" /\ verdict' = Refuse(ParseError(request)) /\ head' = head
        BY <2>1, <3>2 DEF Parse
      <4> QED BY <3>1, <3>2, <4>1 DEF HeadOnItsWay
    <3>3. CASE ParseError(request) = "none"
      <4>1. stage' = "parsed" /\ verdict' = verdict /\ head' = Made(request)
        BY <2>1, <3>3 DEF Parse, Made
      <4>2. Whole(Made(request))
        BY <3>1, MadeIsWhole
      <4> QED BY <3>1, <3>3, <4>1, <4>2 DEF HeadOnItsWay
    <3> QED BY <3>2, <3>3
  <2>2. CASE Decide
    <3>1. /\ request' = request /\ head' = head /\ verdict' = decide(head) /\ stage = "parsed"
          /\ stage' = IF decide(head).error = "none" THEN "accepted" ELSE "refused"
          /\ request \in Request /\ ParseError(request) = "none" /\ head = Made(request) /\ Whole(head)
      BY <2>2 DEF Decide, HeadOnItsWay
    <3> QED BY <3>1 DEF HeadOnItsWay
  <2>3. ASSUME NEW t \in Rewrites, SetTarget(t) PROVE HeadOnItsWay'
    <3>1. /\ request' = request /\ head' = set_target(head, t) /\ verdict' = verdict
          /\ stage' = "rewritten" /\ stage = "accepted"
      BY <2>3 DEF SetTarget
    <3>2. /\ request \in Request /\ ParseError(request) = "none" /\ head = Made(request)
          /\ verdict = decide(Made(request)) /\ Whole(head)
      BY <3>1 DEF HeadOnItsWay
    <3>3. Whole(head')
      <4>1. \E m, u, v, hs, q, a : Made(request) = [method |-> m, target |-> u, version |-> v,
                                       headers |-> hs, query_at |-> q, authority_at |-> a]
        BY DEF Made, HeadNew
      <4> QED BY <3>1, <3>2, <4>1, RewriteIsWhole
    <3> QED BY <3>1, <3>2, <3>3 DEF HeadOnItsWay
  <2>4. CASE Respond \/ BridgeResponds
    <3>1. /\ stage = "accepted" /\ stage' = "answered"
          /\ request' = request /\ head' = head /\ verdict' = verdict
      BY <2>4 DEF Respond, BridgeResponds
    <3> QED BY <3>1 DEF HeadOnItsWay
  <2>5. CASE UNCHANGED vars
    BY <2>5 DEF vars, HeadOnItsWay
  <2>6. \/ Parse \/ Decide \/ (\E t \in Rewrites : SetTarget(t)) \/ Respond \/ BridgeResponds
        \/ UNCHANGED vars
    BY DEF BridgeNext, RespondNext, Next, Finished, responseVars
  <2> QED BY <2>1, <2>2, <2>3, <2>4, <2>5, <2>6
<1> QED BY <1>1, <1>2, PTL DEF BridgeSpec

-----------------------------------------------------------------------------
(* What follows from it.                                                   *)

\* The cached splits of Head::new and Head::set_target (path, query, authority) stay
\* inside the target and put it together again, whatever target a handler sets, and a
\* target that parsed has a path that begins with a slash, unless its form has none.
THEOREM SplitsStayExact == BridgeSpec => []SplitIsExact
<1>1. HeadOnItsWay => SplitIsExact
  <2> SUFFICES ASSUME HeadOnItsWay PROVE SplitIsExact
    OBVIOUS
  <2>1. InRange(head) /\ SplitsFit(head)
    BY SplitsAreExact DEF HeadOnItsWay
  <2>2. ASSUME stage \in {"parsed", "accepted"} PROVE Rooted(head)
    <3>1. request \in Request /\ ParseError(request) = "none" /\ head = Made(request)
      BY <2>2 DEF HeadOnItsWay
    <3>2. Whole(head) /\ head.target = request.target /\ head.method = request.method
      BY <3>1, MadeIsWhole
    <3>3. validate_request_target(request.target, request.method)
      BY <3>1 DEF ParseError
    <3> QED BY <3>2, <3>3, ParsedIsRooted
  <2> QED BY <2>1, <2>2 DEF SplitIsExact
<1> QED BY <1>1, OnItsWay, PTL

\* A head that parse lets through is within max_head and max_headers, and one that it
\* refuses for its size or its fields is not, whichever of the two scratch arrays it
\* was tokenized into; and decide lets no length over max_body through.
THEOREM LimitsStayExact == BridgeSpec => []LimitsExact
<1>1. HeadOnItsWay => LimitsExact
  <2> SUFFICES ASSUME HeadOnItsWay PROVE LimitsExact
    OBVIOUS
  <2>0. MaxBody \in Nat /\ HEADER_SCRATCH_TIER1 \in Nat /\ MAX_HEADERS_CEILING \in Int
        /\ MaxHeaders \in 0..MAX_HEADERS_CEILING /\ HEADER_SCRATCH_TIER1 <= MAX_HEADERS_CEILING
        /\ MaxHead \in Nat
    <3>1. MAX_HEADERS_CEILING \in Int
      BY FramingAssumption
    <3> QED BY <3>1, FramingAssumption
  <2>1. request \in Request /\ Len(request.headers) \in Nat /\ Len(request.region) \in Nat
    <3>1. request \in Request
      BY DEF HeadOnItsWay
    <3>2. request.region \in Seq(STRING)
      BY <3>1 DEF Request
    <3>3. request.headers \in Seq(Header)
      BY <3>1, RequestBytes
    <3> QED BY <3>1, <3>2, <3>3
  <2>2. ParseError(request) = "none" =>
            Len(request.headers) <= MaxHeaders /\ Len(request.region) <= MaxHead
    BY <2>0, <2>1 DEF ParseError
  <2>3. ParseError(request) = "TooManyHeaders" => Len(request.headers) > MaxHeaders
    <3>1. prescan(request.region) # "TooManyHeaders"
      BY DEF prescan
    <3> DEFINE n == Len(request.headers)
    <3>2. ~Tokenized(n) => n > MaxHeaders
      BY <2>0, <2>1 DEF Tokenized
    <3> QED BY <3>1, <3>2 DEF ParseError
  <2>4. ParseError(request) = "HeadTooLarge" => Len(request.region) > MaxHead
    <3>1. prescan(request.region) # "HeadTooLarge"
      BY DEF prescan
    <3> QED BY <3>1 DEF ParseError
  <2>5. Bounded(decide(Made(request)))
    BY <2>1, MadeIsWhole, DecideBounded
  <2>6. \/ verdict = Kind("undecided", 0) \/ verdict = Refuse(ParseError(request))
        \/ verdict = decide(Made(request))
    BY DEF HeadOnItsWay
  <2>7. /\ verdict.error = "TooManyHeaders" => Len(request.headers) > MaxHeaders
        /\ verdict.error = "HeadTooLarge" => Len(request.region) > MaxHead
        /\ verdict.len <= MaxBody
    <3>1. CASE verdict = Kind("undecided", 0)
      BY <2>0, <3>1 DEF Kind
    <3>2. CASE verdict = Refuse(ParseError(request))
      BY <2>0, <2>3, <2>4, <3>2 DEF Refuse
    <3>3. CASE verdict = decide(Made(request))
      BY <2>5, <3>3 DEF Bounded
    <3> QED BY <2>6, <3>1, <3>2, <3>3
  <2> QED BY <2>2, <2>7 DEF LimitsExact, HeadOnItsWay
<1> QED BY <1>1, OnItsWay, PTL

\* Readers that want CRLF, that LF is enough for, and that take CR, LF or both end the
\* lines of a head that prescan lets through in the same places, and unfold none.
THEOREM LinesStayAlike == BridgeSpec => []LinesReadAlike
<1>1. HeadOnItsWay => LinesReadAlike
  <2> SUFFICES ASSUME HeadOnItsWay, stage \notin {"received", "refused"}
               PROVE  LET s == request.region IN
                      /\ StrictEnds(s) = LfEnds(s) /\ LfEnds(s) = AnyEnds(s)
                      /\ \A i \in LfEnds(s) : At(s, i + 1) # " "
    BY DEF LinesReadAlike
  <2> DEFINE s == request.region
  <2>1. s \in Seq(STRING) /\ ParseError(request) = "none"
    BY DEF HeadOnItsWay, Request
  <2>2. prescan(s) = "none"
    BY <2>1 DEF ParseError
  <2> HIDE DEF s
  <2>3. BareCr(s) = {} /\ Folds(s) = {} /\ BareLf(s) = {}
    BY <2>2 DEF prescan
  <2>4. StrictEnds(s) = LfEnds(s)
    BY <2>3 DEF BareLf, StrictEnds, LfEnds
  <2>5. LfEnds(s) = AnyEnds(s)
    BY <2>3 DEF BareCr, CrOf, LfEnds, AnyEnds
  <2>6. ASSUME NEW i \in LfEnds(s) PROVE At(s, i + 1) # " "
    <3>1. i \in DOMAIN s /\ At(s, i - 1) = "r"
      BY <2>4 DEF StrictEnds, LfEnds
    <3>2. i - 1 \in DOMAIN s /\ s[i - 1] = "r"
      BY <3>1 DEF At
    <3>3. i - 1 \in CrOf(s)
      BY <3>2 DEF CrOf
    <3>4. At(s, (i - 1) + 2) # " "
      BY <2>3, <3>3 DEF Folds
    <3>5. i \in Int
      BY <2>1, <3>1
    <3>6. (i - 1) + 2 = i + 1
      BY <3>5
    <3> QED BY <3>4, <3>6
  <2> QED BY <2>4, <2>5, <2>6 DEF s
<1> QED BY <1>1, OnItsWay, PTL

-----------------------------------------------------------------------------
(* One reading of the framing fields.                                      *)

\* A symbol that Loose keeps.
Stays(b) == b \notin {"u", "+", " "}

\* A byte string with no symbol that Loose would strip.
Plain(s) == \A i \in DOMAIN s : Stays(s[i])

\* Plainness, byte by byte.
LEMMA PlainAppend ==
    ASSUME NEW s \in Seq(Byte), NEW x \in Byte, Plain(Append(s, x))
    PROVE  Plain(s) /\ Stays(x)
<1> DEFINE n == Len(s)
           a == Append(s, x)
<1>1. /\ n \in Nat /\ DOMAIN s = 1..n /\ DOMAIN a = 1..(n + 1)
      /\ a[n + 1] = x /\ \A i \in 1..n : a[i] = s[i]
  OBVIOUS
<1>2. \A i \in DOMAIN a : Stays(a[i])
  BY DEF Plain
<1> HIDE DEF n, a
<1>3. n + 1 \in DOMAIN a /\ \A i \in DOMAIN s : i \in DOMAIN a
  BY <1>1
<1> QED BY <1>1, <1>2, <1>3 DEF Plain

\* What nobody strips is left alone.
LEMMA LooseSame ==
    ASSUME NEW e \in Bytes, Plain(e)
    PROVE  Loose(e) = e
<1> DEFINE S == {s \in Bytes : Plain(s) => Loose(s) = s}
<1>1. <<>> \in S
  <2>1. <<>> \in Bytes
    BY DEF Bytes
  <2> QED BY <2>1, LooseIs
<1>2. ASSUME NEW s \in Seq(Byte), NEW x \in Byte PROVE s \in S => Append(s, x) \in S
  <2>1. Append(s, x) \in Bytes
    BY DEF Bytes
  <2>2. ASSUME s \in S, Plain(Append(s, x)) PROVE Loose(Append(s, x)) = Append(s, x)
    <3>1. Plain(s) /\ Stays(x)
      BY <2>2, PlainAppend
    <3>2. s = Loose(s)
      BY <2>2, <3>1
    <3>3. \A y : y = Loose(s) =>
              Loose(Append(s, x)) = IF x \in {"u", "+", " "} THEN y ELSE Append(y, x)
      BY LooseIs
    <3>4. Loose(Append(s, x)) = IF x \in {"u", "+", " "} THEN s ELSE Append(s, x)
      BY <3>2, <3>3
    <3> QED BY <3>1, <3>4 DEF Stays
  <2> QED BY <2>1, <2>2
<1>3. Seq(Byte) \subseteq S
  <2> HIDE DEF S
  <2> QED BY <1>1, <1>2, SeqInduction
<1> QED BY <1>3 DEF Bytes

\* The digits, by name.
DecimalDigits == {"0", "1", "2", "3", "4", "5", "6", "7", "8", "9"}

\* What is_ascii_digit accepts.
LEMMA DigitSymbol ==
    ASSUME NEW b, is_ascii_digit(b)
    PROVE  b \in DecimalDigits
<1>1. b \in ToSet(Digits)
  BY DEF is_ascii_digit, Digit
<1>2. PICK i \in DOMAIN Digits : Digits[i] = b
  BY <1>1 DEF ToSet
<1>3. i \in 1..10
  BY DEF Digits
<1>4. i \in {1, 2, 3, 4, 5, 6, 7, 8, 9, 10}
  BY <1>3
<1>5. Digits[i] \in DecimalDigits
  BY <1>4 DEF Digits, DecimalDigits
<1> QED BY <1>2, <1>5

\* Nothing is stripped from a number.
LEMMA NumeralPlain ==
    ASSUME NEW e, Numeral(e)
    PROVE  Plain(e)
<1>1. \A d \in DecimalDigits : Stays(d)
  BY Zenon DEF DecimalDigits, Stays
<1> QED BY <1>1, DigitSymbol DEF Numeral, Plain

\* A number is the same number to those who strip.
LEMMA NumeralSame ==
    ASSUME NEW e, Numeral(e), e # <<>>
    PROVE  Loose(e) = e /\ IsNumber(e)
<1>1. e \in Bytes /\ \A i \in DOMAIN e : is_ascii_digit(e[i])
  BY DEF Numeral
<1>2. Loose(e) = e
  BY <1>1, NumeralPlain, LooseSame
<1> QED BY <1>1, <1>2 DEF IsNumber

\* `chunked` is the same coding to those who strip.
LEMMA ChunkedSame ==
    ASSUME NEW e \in Bytes, IsChunked(e)
    PROVE  Loose(e) = e /\ to_lower(e) = <<"chunked">>
<1> DEFINE c == <<"chunked">>
<1>1. /\ c = to_lower(c)
  <2>1. "chunked" \notin DOMAIN Lowered
    BY DEF Lowered
  <2>2. DOMAIN c = {1} /\ c[1] = "chunked"
    OBVIOUS
  <2>3. to_lower(c) = [i \in {1} |-> "chunked"]
    BY <2>1, <2>2 DEF to_lower
  <2>4. c = [i \in {1} |-> "chunked"]
    OBVIOUS
  <2> QED BY <2>3, <2>4
<1>2. to_lower(e) = c
  BY <1>1 DEF IsChunked, eq_ignore_ascii_case
<1>3. ASSUME NEW i \in DOMAIN e PROVE e[i] \notin {"u", "+", " "}
  <2>1. DOMAIN to_lower(e) = DOMAIN e
    BY DEF to_lower
  <2>2. i = 1 /\ c[i] = "chunked"
    BY <1>2, <2>1
  <2>3. to_lower(e)[i] = "chunked"
    BY <1>2, <2>2
  <2>4. to_lower(e)[i] = IF e[i] \in DOMAIN Lowered THEN Lowered[e[i]] ELSE e[i]
    BY DEF to_lower
  <2>5. \A b \in {"u", "+", " "} : b \notin DOMAIN Lowered
    BY DEF Lowered
  <2> QED BY <2>3, <2>4, <2>5
<1>4. Loose(e) = e
  BY <1>3, LooseSame DEF Plain, Stays
<1> QED BY <1>2, <1>4

\* A body of that length, for whoever reads the lengths.
LEMMA LengthReadings ==
    ASSUME NEW es, NEW n, \E i \in DOMAIN es : TRUE,
           \A i \in DOMAIN es : Numeral(es[i]) /\ es[i] # <<>> /\ PortValue(es[i]) = n
    PROVE  LET lens == {Loose(e) : e \in ToSet(es)} IN
           /\ lens # {}
           /\ {Kind("Length", PortValue(e)) : e \in {e \in lens : IsNumber(e)}} = {Kind("Length", n)}
<1> DEFINE lens == {Loose(e) : e \in ToSet(es)}
<1>1. \A e \in ToSet(es) : Numeral(e) /\ e # <<>> /\ PortValue(e) = n
  BY DEF ToSet
<1>2. PICK i : i \in DOMAIN es
  OBVIOUS
<1>3. es[i] \in ToSet(es)
  BY <1>2 DEF ToSet
<1>4. \A e \in ToSet(es) : Loose(e) = e /\ IsNumber(e)
  BY <1>1, NumeralSame
<1>5. lens = ToSet(es)
  BY <1>4
<1> DEFINE s == ToSet(es)
           x == es[i]
           K(e) == Kind("Length", PortValue(e))
           k == Kind("Length", n)
<1>6. x \in s /\ \A e \in s : IsNumber(e) /\ K(e) = k
  BY <1>1, <1>3, <1>4
<1> HIDE DEF s, x, K, k
<1>7. {K(e) : e \in {e \in s : IsNumber(e)}} = {k}
  BY <1>6
<1> QED BY <1>3, <1>5, <1>7 DEF s, K, k

\* `chunked` for whoever looks for it, and nothing else to find.
LEMMA ChunkedReadings ==
    ASSUME NEW es, \A i \in DOMAIN es : es[i] \in Bytes /\ (es[i] = <<>> \/ IsChunked(es[i])),
           \E i \in DOMAIN es : IsChunked(es[i])
    PROVE  LET codings == {Loose(e) : e \in ToSet(es)} IN
           /\ codings # {}
           /\ {Kind("Chunked", 0) : e \in {e \in codings : <<"chunked">> = to_lower(e)}}
              = {Kind("Chunked", 0)}
<1> DEFINE codings == {Loose(e) : e \in ToSet(es)}
<1>1. PICK i \in DOMAIN es : IsChunked(es[i])
  OBVIOUS
<1>2. es[i] \in ToSet(es) /\ es[i] \in Bytes
  BY DEF ToSet
<1>3. Loose(es[i]) = es[i] /\ to_lower(es[i]) = <<"chunked">>
  BY <1>1, <1>2, ChunkedSame
<1>4. es[i] \in codings
  <2> DEFINE x == es[i]
             s == ToSet(es)
  <2>1. x \in s /\ Loose(x) = x
    BY <1>2, <1>3
  <2> HIDE DEF x, s
  <2>2. x \in {Loose(e) : e \in s}
    BY <2>1
  <2> QED BY <2>2 DEF x, s
<1> DEFINE k == Kind("Chunked", 0)
           x == es[i]
           P(e) == <<"chunked">> = to_lower(e)
<1>5. x \in codings /\ P(x)
  BY <1>3, <1>4
<1> HIDE DEF k, x, P, codings
<1>6. {k : e \in {e \in codings : P(e)}} = {k}
  BY <1>5
<1> QED BY <1>5, <1>6 DEF k, P, codings

\* Without values there is nothing to read.
LEMMA NothingToRead == {Loose(e) : e \in ToSet(AllElements(<<>>))} = {}
<1>1. ToSet(<<>>) = {}
  BY DEF ToSet
<1> QED BY <1>1, AllElementsIs

\* A coding that stands is `chunked`, once, among empty elements.
LEMMA CodingIs ==
    ASSUME NEW vs \in Seq(Bytes), vs # <<>>
    PROVE  LET es == AllElements(vs) IN
           \/ TransferEncoding(vs).error # "none"
           \/ /\ TransferEncoding(vs) = Kind("Chunked", 0)
              /\ \A i \in DOMAIN es : es[i] \in Bytes /\ (es[i] = <<>> \/ IsChunked(es[i]))
              /\ \E i \in DOMAIN es : IsChunked(es[i])
<1> DEFINE es == AllElements(vs)
           codings == {i \in DOMAIN es : es[i] # <<>>}
           chunked == {i \in codings : IsChunked(es[i])}
<1>1. \A e \in {"ChunkedNotFinal", "UnsupportedTransferEncoding"} : Refuse(e).error # "none"
  BY DEF Refuse
<1>2. \/ TransferEncoding(vs) \in {Refuse("ChunkedNotFinal"), Refuse("UnsupportedTransferEncoding")}
      \/ /\ TransferEncoding(vs) = Kind("Chunked", 0)
         /\ chunked # {} /\ codings = chunked
  BY DEF TransferEncoding
<1>3. \A i \in DOMAIN es : es[i] \in Bytes
  BY SomeElement
<1>4. ASSUME chunked # {}, codings = chunked
      PROVE  /\ \A i \in DOMAIN es : es[i] = <<>> \/ IsChunked(es[i])
             /\ \E i \in DOMAIN es : IsChunked(es[i])
  <2> HIDE DEF es
  <2> QED BY <1>4
<1> HIDE DEF es, codings, chunked
<1>5. CASE TransferEncoding(vs) \in {Refuse("ChunkedNotFinal"), Refuse("UnsupportedTransferEncoding")}
  BY <1>1, <1>5
<1>6. CASE TransferEncoding(vs) = Kind("Chunked", 0) /\ chunked # {} /\ codings = chunked
  BY <1>3, <1>4, <1>6 DEF es
<1> QED BY <1>2, <1>5, <1>6

\* BodyKind's three answers.
LEMMA AcceptedKinds ==
    ASSUME NEW h, h.headers \in Seq(Header), decide(h).error = "none",
           NEW L, L = all(h, "ContentLength"), NEW C, C = all(h, "TransferEncoding")
    PROVE  /\ L \in Seq(Bytes) /\ C \in Seq(Bytes)
           /\ \/ /\ L = <<>> /\ C = <<>> /\ decide(h) = Kind("None", 0)
              \/ /\ L = <<>> /\ C # <<>> /\ h.version # "1.0"
                 /\ decide(h) = TransferEncoding(C) /\ TransferEncoding(C).error = "none"
              \/ /\ L # <<>> /\ C = <<>> /\ decide(h) = ContentLength(L)
                 /\ ContentLength(L).error = "none"
<1>1. L \in Seq(Bytes) /\ C \in Seq(Bytes)
  BY ValuesIs DEF all
<1>2. \A e : Refuse(e).error = e
  BY DEF Refuse
<1>3. decide(h) = BodyKind(h.version, L, C)
  BY <1>2 DEF decide
<1>4. BodyKind(h.version, L, C) # Refuse("LengthAndTransferEncoding")
      /\ BodyKind(h.version, L, C) # Refuse("TransferEncodingOnHttp10")
  BY <1>2, <1>3
<1> QED BY <1>1, <1>3, <1>4 DEF BodyKind

\* Whoever reads a head that decide accepts, in any of the ways, reads what decide read.
LEMMA ReadAlike ==
    ASSUME NEW h, h.headers \in Seq(Header), decide(h).error = "none"
    PROVE  OtherReadings(h) = {decide(h)}
<1> DEFINE L == all(h, "ContentLength")
           C == all(h, "TransferEncoding")
           lens == {Loose(e) : e \in ToSet(AllElements(L))}
           codings == {Loose(e) : e \in ToSet(AllElements(C))}
           d == decide(h)
           kl == {Kind("Length", PortValue(e)) : e \in {e \in lens : IsNumber(e)}}
           kc == {Kind("Chunked", 0) : e \in {e \in codings : <<"chunked">> = to_lower(e)}}
           kn == {Kind("None", 0) : e \in {e \in codings : lens = {} /\ h.version = "1.0"}}
           ke == IF lens \cup codings = {} THEN {Kind("None", 0)} ELSE {}
<1>1. OtherReadings(h) = kl \cup kc \cup kn \cup ke
  BY DEF OtherReadings
<1>2. /\ L \in Seq(Bytes) /\ C \in Seq(Bytes)
      /\ \/ L = <<>> /\ C = <<>> /\ d = Kind("None", 0)
         \/ /\ L = <<>> /\ C # <<>> /\ h.version # "1.0"
            /\ d = TransferEncoding(C) /\ TransferEncoding(C).error = "none"
         \/ /\ L # <<>> /\ C = <<>> /\ d = ContentLength(L) /\ ContentLength(L).error = "none"
  BY AcceptedKinds
<1> HIDE DEF L, C, d
<1>3. (L = <<>> => lens = {}) /\ (C = <<>> => codings = {})
  BY NothingToRead
<1>4. CASE L = <<>> /\ C = <<>> /\ d = Kind("None", 0)
  <2>1. lens = {} /\ codings = {}
    BY <1>3, <1>4
  <2>2. kl = {} /\ kc = {} /\ kn = {} /\ ke = {Kind("None", 0)}
    BY <2>1
  <2> HIDE DEF kl, kc, kn, ke
  <2> QED BY <1>1, <1>4, <2>2 DEF d
<1>5. CASE /\ L = <<>> /\ C # <<>> /\ h.version # "1.0"
           /\ d = TransferEncoding(C) /\ TransferEncoding(C).error = "none"
  <2>1. lens = {}
    BY <1>3, <1>5
  <2> DEFINE es == AllElements(C)
  <2>2. /\ d = Kind("Chunked", 0)
        /\ \A i \in DOMAIN es : es[i] \in Bytes /\ (es[i] = <<>> \/ IsChunked(es[i]))
        /\ \E i \in DOMAIN es : IsChunked(es[i])
    BY <1>2, <1>5, CodingIs
  <2>3. codings # {} /\ kc = {Kind("Chunked", 0)}
    <3> HIDE DEF es
    <3>1. LET cs == {Loose(e) : e \in ToSet(es)} IN
           /\ cs # {}
           /\ {Kind("Chunked", 0) : e \in {e \in cs : <<"chunked">> = to_lower(e)}}
              = {Kind("Chunked", 0)}
      BY <2>2, ChunkedReadings
    <3> QED BY <3>1 DEF es
  <2>4. kl = {} /\ kn = {} /\ ke = {}
    BY <1>5, <2>1, <2>3
  <2> HIDE DEF kl, kc, kn, ke
  <2> QED BY <1>1, <2>2, <2>3, <2>4 DEF d
<1>6. CASE L # <<>> /\ C = <<>> /\ d = ContentLength(L) /\ ContentLength(L).error = "none"
  <2>1. codings = {}
    BY <1>3, <1>6
  <2> DEFINE es == AllElements(L)
  <2>2. PICK n \in Nat : /\ ContentLength(L) = Limited(n)
                         /\ \A i \in DOMAIN es : /\ Numeral(es[i]) /\ es[i] # <<>>
                                                 /\ PortValue(es[i]) = n
    <3>1. \A e \in {"InvalidContentLength", "DuplicateContentLength"} : Refuse(e).error # "none"
      BY DEF Refuse
    <3> HIDE DEF lens, codings, kl, kc, kn, ke
    <3> QED BY <1>2, <1>6, <3>1, LengthIs
  <2>3. d = Kind("Length", n)
    <3>1. Refuse("BodyTooLarge").error # "none"
      BY DEF Refuse
    <3> QED BY <1>6, <2>2, <3>1 DEF Limited
  <2>4. \E i \in DOMAIN es : TRUE
    <3>1. Len(es) \in Nat /\ 1 <= Len(es) /\ DOMAIN es = 1..Len(es)
      BY <1>2, <1>6, SomeElement
    <3> HIDE DEF es
    <3> QED BY <3>1
  <2>5. lens # {} /\ kl = {Kind("Length", n)}
    <3> HIDE DEF es
    <3>1. LET ls == {Loose(e) : e \in ToSet(es)} IN
           /\ ls # {}
           /\ {Kind("Length", PortValue(e)) : e \in {e \in ls : IsNumber(e)}} = {Kind("Length", n)}
      BY <2>2, <2>4, LengthReadings
    <3> QED BY <3>1 DEF es
  <2>6. kc = {} /\ kn = {} /\ ke = {}
    BY <2>1, <2>5
  <2> HIDE DEF kl, kc, kn, ke
  <2> QED BY <1>1, <2>3, <2>5, <2>6 DEF d
<1> QED BY <1>2, <1>4, <1>5, <1>6

-----------------------------------------------------------------------------
(* The fields joined into lists.                                           *)

\* The comma is a byte.
LEMMA SomeComma == \E c \in Byte : IsComma(c)
BY DEF Byte, IsComma

\* Associativity, and a single symbol in front.
LEMMA ConcatAssoc ==
    ASSUME NEW S, NEW p \in Seq(S), NEW q \in Seq(S), NEW r \in Seq(S), NEW c \in S
    PROVE  /\ p \o (q \o r) = (p \o q) \o r
           /\ p \o (<<c>> \o r) = Append(p, c) \o r
           /\ <<c>> \o r \in Seq(S) /\ p \o r \in Seq(S)
<1>1. (p \o q) \o r = p \o (q \o r)
  BY ConcatAssociative, SMTT(40)
<1>2. <<c>> \in Seq(S)
  OBVIOUS
<1> DEFINE u == <<c>>
<1> HIDE DEF u
<1>3. (p \o u) \o r = p \o (u \o r)
  <2> u \in Seq(S)
    BY <1>2 DEF u
  <2> QED BY ConcatAssociative, SMTT(40)
<1>4. p \o u = Append(p, c)
  BY AppendConcat DEF u
<1>5. u \o r \in Seq(S) /\ p \o r \in Seq(S)
  BY <1>2, ConcatProperties DEF u
<1> QED BY <1>1, <1>3, <1>4, <1>5 DEF u

\* The values after the first, each behind a comma.
Behind(c, vs) == [i \in DOMAIN Tail(vs) |-> <<c>> \o Tail(vs)[i]]

\* Comma, with its comma as a parameter.
LEMMA CommaForm ==
    ASSUME NEW c, IsComma(c), NEW vs
    PROVE  Comma(vs) = Head(vs) \o FlattenSeq(Behind(c, vs))
BY DEF Comma, Behind, IsComma

\* Behind, value by value.
LEMMA BehindTyped ==
    ASSUME NEW c \in Byte, NEW vs \in Seq(Bytes), vs # <<>>
    PROVE  /\ Behind(c, vs) \in Seq(Bytes) /\ Len(Behind(c, vs)) = Len(vs) - 1
           /\ \A i \in 1..(Len(vs) - 1) : Behind(c, vs)[i] = <<c>> \o vs[i + 1]
<1> DEFINE n == Len(vs)
           t == Tail(vs)
           b == Behind(c, vs)
<1>1. n \in Nat /\ 1 <= n /\ \A i \in 1..n : vs[i] \in Bytes
  BY EmptySeq
<1>2. t \in Seq(Bytes) /\ Len(t) = n - 1 /\ \A i \in 1..(n - 1) : t[i] = vs[i + 1]
  BY HeadTailProperties
<1>3. DOMAIN t = 1..(n - 1) /\ b = [i \in DOMAIN t |-> <<c>> \o t[i]]
  BY <1>2 DEF Behind
<1> HIDE DEF n, t, b
<1>4. \A x \in Bytes : <<c>> \o x \in Bytes
  BY ConcatAssoc DEF Bytes
<1>5. \A i \in 1..(n - 1) : t[i] \in Bytes
  BY <1>1, <1>2
<1>6. /\ b = [i \in 1..(n - 1) |-> <<c>> \o t[i]] /\ n - 1 \in Nat
      /\ \A i \in 1..(n - 1) : <<c>> \o t[i] \in Bytes
  BY <1>1, <1>3, <1>4, <1>5
<1> DEFINE m == n - 1
           F(i) == <<c>> \o t[i]
<1>7. b = [i \in 1..m |-> F(i)] /\ m \in Nat /\ \A i \in 1..m : F(i) \in Bytes
  BY <1>6
<1> HIDE DEF m, F
<1>8. b \in Seq(Bytes) /\ Len(b) = m /\ \A i \in 1..m : b[i] = F(i)
  BY <1>7
<1>9. \A i \in 1..m : F(i) = <<c>> \o vs[i + 1]
  BY <1>2 DEF m, F
<1> QED BY <1>8, <1>9 DEF m, n, b

\* One value is a list as it is.
LEMMA CommaOne ==
    ASSUME NEW v \in Bytes
    PROVE  Comma(<<v>>) = v
<1>1. PICK c \in Byte : IsComma(c)
  BY SomeComma
<1> DEFINE vs == <<v>>
<1>2. vs \in Seq(Bytes) /\ vs # <<>> /\ Len(vs) = 1 /\ Head(vs) = v
  OBVIOUS
<1>3. Comma(vs) = Head(vs) \o FlattenSeq(Behind(c, vs))
  BY <1>1, CommaForm
<1> HIDE DEF vs
<1> DEFINE b == Behind(c, vs)
<1>4. b \in Seq(Bytes) /\ Len(b) = Len(vs) - 1
  BY <1>2, BehindTyped
<1> HIDE DEF b
<1>5. Len(b) = 0
  BY <1>2, <1>4
<1>6. b = <<>>
  BY <1>4, <1>5, EmptySeq
<1>7. FlattenSeq(b) = <<>>
  BY <1>6, FlattenIs
<1>8. v \o <<>> = v
  BY ConcatEmptySeq DEF Bytes
<1>9. Comma(vs) = v
  BY <1>2, <1>3, <1>7, <1>8 DEF b
<1> QED BY <1>9 DEF vs

\* One more value is put behind one more comma.
LEMMA CommaAppend ==
    ASSUME NEW vs \in Seq(Bytes), vs # <<>>, NEW v \in Bytes, NEW c \in Byte, IsComma(c)
    PROVE  /\ Comma(vs) \in Bytes
           /\ Comma(Append(vs, v)) = Append(Comma(vs), c) \o v
<1> DEFINE n == Len(vs)
           ws == Append(vs, v)
           b == Behind(c, vs)
           d == Behind(c, ws)
           h == Head(vs)
           x == <<c>> \o v
<1>1. n \in Nat /\ 1 <= n /\ h = vs[1] /\ h \in Bytes
  BY EmptySeq
<1>2. /\ ws \in Seq(Bytes) /\ ws # <<>> /\ Len(ws) = n + 1 /\ ws[n + 1] = v
      /\ \A i \in 1..n : ws[i] = vs[i]
  OBVIOUS
<1>3. Head(ws) = h
  <2>1. Head(ws) = ws[1]
    BY <1>2
  <2>2. 1 \in 1..n
    BY <1>1
  <2> QED BY <1>1, <1>2, <2>1, <2>2
<1> HIDE DEF ws
<1>4. /\ b \in Seq(Bytes) /\ Len(b) = n - 1 /\ \A i \in 1..(n - 1) : b[i] = <<c>> \o vs[i + 1]
  BY BehindTyped
<1>5. /\ d \in Seq(Bytes) /\ Len(d) = Len(ws) - 1
      /\ \A i \in 1..(Len(ws) - 1) : d[i] = <<c>> \o ws[i + 1]
  BY <1>2, BehindTyped
<1>6. Comma(vs) = h \o FlattenSeq(b) /\ Comma(ws) = h \o FlattenSeq(d)
  BY <1>3, CommaForm
<1>7. x \in Bytes
  BY ConcatAssoc DEF Bytes
<1> HIDE DEF b, d, h
<1>8. d = Append(b, x)
  <2> DEFINE m == n - 1
             F(y) == <<c>> \o y
             e == Append(b, x)
  <2>1. m \in Nat /\ Len(b) = m /\ Len(d) = m + 1 /\ x = F(v)
    BY <1>1, <1>2, <1>4, <1>5
  <2>2. \A i \in 1..m : b[i] = F(vs[i + 1]) /\ d[i] = F(ws[i + 1]) /\ i + 1 \in 1..n
    <3>1. \A i \in 1..m : i + 1 \in 1..n /\ i \in 1..(Len(ws) - 1)
      BY <1>1, <1>2
    <3>2. \A i \in 1..m : b[i] = <<c>> \o vs[i + 1]
      BY <1>4
    <3>3. \A i \in 1..m : d[i] = <<c>> \o ws[i + 1]
      BY <1>5, <3>1
    <3> QED BY <3>1, <3>2, <3>3
  <2>3. d[m + 1] = F(ws[m + 1 + 1])
    <3>1. m + 1 \in 1..(Len(ws) - 1)
      BY <1>2, <2>1
    <3> QED BY <1>5, <3>1
  <2>4. m + 1 + 1 = n + 1
    BY <1>1
  <2> HIDE DEF x
  <2>5. e \in Seq(Bytes) /\ Len(e) = m + 1 /\ e[m + 1] = x /\ \A i \in 1..m : e[i] = b[i]
    BY <1>4, <1>7, <2>1
  <2> HIDE DEF F, e, m, n
  <2>6. \A i \in 1..m : d[i] = e[i]
    BY <1>2, <2>2, <2>5
  <2>7. d[m + 1] = e[m + 1]
    BY <1>2, <2>1, <2>3, <2>4, <2>5
  <2>8. \A i \in 1..(m + 1) : d[i] = e[i]
    <3>1. \A i \in 1..(m + 1) : i \in 1..m \/ i = m + 1
      BY <2>1
    <3> QED BY <2>6, <2>7, <3>1
  <2>9. d = e
    BY <1>5, <2>1, <2>5, <2>8, SeqEqual
  <2> QED BY <2>9 DEF e
<1> DEFINE f == FlattenSeq(b)
<1>9. f \in Bytes /\ FlattenSeq(d) = f \o x
  BY <1>4, <1>7, <1>8, FlattenIs DEF Bytes
<1> HIDE DEF f
<1>10. h \o f \in Seq(Byte) /\ h \o (f \o x) = (h \o f) \o x
  <2> HIDE DEF x
  <2>1. h \in Seq(Byte) /\ f \in Seq(Byte) /\ x \in Seq(Byte)
    BY <1>1, <1>7, <1>9 DEF Bytes
  <2>2. h \o f \in Seq(Byte)
    BY ONLY <2>1, ConcatProperties
  <2>3. h \o (f \o x) = (h \o f) \o x
    BY ONLY <2>1, ConcatAssociative, SMTT(40)
  <2> QED BY <2>2, <2>3
<1> DEFINE p == h \o f
<1>a. p \in Seq(Byte) /\ v \in Seq(Byte)
  BY <1>10 DEF Bytes
<1> HIDE DEF p
<1>11. p \in Seq(Byte) /\ p \o (<<c>> \o v) = Append(p, c) \o v
  BY <1>a, ConcatAssoc
<1>12. Comma(vs) = p /\ Comma(ws) = p \o (<<c>> \o v)
  BY <1>6, <1>9, <1>10 DEF p, f
<1> QED BY <1>11, <1>12 DEF ws, Bytes

\* A byte string with the symbol of the bytes from 0x80 on.
Wide(s) == Contains(s, "u")

\* A joined list has a wide byte where one of the two has.
LEMMA WideJoin ==
    ASSUME NEW p \in Bytes, NEW q \in Bytes, NEW c \in Byte, IsComma(c)
    PROVE  Append(p, c) \o q \in Bytes /\ (Wide(Append(p, c) \o q) <=> Wide(p) \/ Wide(q))
<1> DEFINE a == Append(p, c)
           r == a \o q
           m == Len(p)
           n == Len(q)
           W(b) == b = "u"
<1>1. /\ a \in Seq(Byte) /\ Len(a) = m + 1 /\ m \in Nat /\ n \in Nat /\ q \in Seq(Byte)
      /\ a[m + 1] = c /\ \A i \in 1..m : a[i] = p[i]
  BY DEF Bytes
<1>2. ~W(c)
  BY DEF IsComma
<1>3. \A s : Wide(s) <=> \E i \in 1..Len(s) : W(s[i])
  BY DEF Wide, Contains
<1> HIDE DEF a, W
<1>4. /\ r \in Seq(Byte) /\ Len(r) = Len(a) + Len(q)
      /\ \A i \in 1..(Len(a) + Len(q)) : r[i] = IF i <= Len(a) THEN a[i] ELSE q[i - Len(a)]
  BY <1>1, ConcatProperties
<1> HIDE DEF r, m, n
<1>5. Len(r) = m + 1 + n /\ \A i \in 1..(m + 1 + n) : r[i] = IF i <= m + 1 THEN a[i] ELSE q[i - (m + 1)]
  BY <1>1, <1>4 DEF n
<1>6. ASSUME NEW i \in 1..m, W(p[i]) PROVE Wide(r)
  <2>1. i \in 1..(m + 1 + n) /\ i <= m + 1
    BY <1>1
  <2>2. r[i] = p[i]
    BY <1>1, <1>5, <2>1
  <2> QED BY <1>3, <1>5, <1>6, <2>1, <2>2
<1>7. ASSUME NEW i \in 1..n, W(q[i]) PROVE Wide(r)
  <2> DEFINE k == m + 1 + i
  <2>1. k \in 1..(m + 1 + n) /\ ~(k <= m + 1) /\ k - (m + 1) = i
    BY <1>1
  <2> HIDE DEF k
  <2>2. r[k] = q[i]
    BY <1>5, <2>1
  <2> QED BY <1>3, <1>5, <1>7, <2>1, <2>2
<1>8. ASSUME NEW i \in 1..(m + 1 + n), W(r[i]) PROVE (\E j \in 1..m : W(p[j])) \/ (\E j \in 1..n : W(q[j]))
  <2>1. CASE i <= m + 1
    <3>1. i \in 1..m \/ i = m + 1
      BY <1>1, <2>1
    <3>2. r[i] = a[i]
      BY <1>5, <2>1
    <3> QED BY <1>1, <1>2, <1>8, <3>1, <3>2
  <2>2. CASE ~(i <= m + 1)
    <3>1. i - (m + 1) \in 1..n
      BY <1>1, <2>2
    <3>2. r[i] = q[i - (m + 1)]
      BY <1>5, <2>2
    <3> QED BY <1>8, <3>1, <3>2
  <2> QED BY <2>1, <2>2
<1>9. Wide(r) <=> Wide(p) \/ Wide(q)
  BY <1>3, <1>5, <1>6, <1>7, <1>8 DEF m, n
<1> QED BY <1>4, <1>9 DEF r, a, Bytes

\* A list made of values has their elements, and a wide byte if one of them has.
Combined(vs) ==
    /\ Comma(vs) \in Bytes
    /\ Elements(Comma(vs)) = AllElements(vs)
    /\ Wide(Comma(vs)) <=> \E i \in DOMAIN vs : Wide(vs[i])

\* The elements of one value.
LEMMA OneElements ==
    ASSUME NEW v \in Bytes
    PROVE  AllElements(<<v>>) = Elements(v)
<1> DEFINE o == <<>>
<1>1. o \in Seq(Bytes) /\ AllElements(o) = <<>>
  BY AllElementsIs
<1>2. Append(o, v) = <<v>>
  OBVIOUS
<1> HIDE DEF o
<1>3. AllElements(Append(o, v)) = AllElements(o) \o Elements(v)
  BY <1>1, AllElementsIs
<1>4. Elements(v) \in Seq(Bytes)
  BY ElementsTyped
<1>5. <<>> \o Elements(v) = Elements(v)
  BY <1>4, ConcatEmptySeq
<1> QED BY <1>1, <1>2, <1>3, <1>5

\* One value.
LEMMA CombinedOne ==
    ASSUME NEW v \in Bytes
    PROVE  Combined(<<v>>)
<1>1. Comma(<<v>>) = v /\ AllElements(<<v>>) = Elements(v)
  BY CommaOne, OneElements
<1>2. DOMAIN <<v>> = {1} /\ <<v>>[1] = v
  OBVIOUS
<1> QED BY <1>1, <1>2 DEF Combined

\* One value more.
LEMMA CombinedMore ==
    ASSUME NEW vs \in Seq(Bytes), vs # <<>>, Combined(vs), NEW v \in Bytes
    PROVE  Combined(Append(vs, v))
<1>1. PICK c \in Byte : IsComma(c)
  BY SomeComma
<1> DEFINE p == Comma(vs)
           r == Append(p, c) \o v
           ws == Append(vs, v)
<1>2. p \in Bytes /\ Elements(p) = AllElements(vs) /\ (Wide(p) <=> \E i \in DOMAIN vs : Wide(vs[i]))
  BY DEF Combined
<1>3. Comma(ws) = r
  BY <1>1, CommaAppend
<1> HIDE DEF p
<1>4. r \in Bytes /\ (Wide(r) <=> Wide(p) \/ Wide(v))
  BY <1>1, <1>2, WideJoin
<1>5. Elements(r) = Elements(p) \o Elements(v)
  BY <1>1, <1>2, ElementsJoin
<1>6. AllElements(ws) = AllElements(vs) \o Elements(v)
  BY AllElementsIs
<1>7. (\E i \in DOMAIN ws : Wide(ws[i])) <=> ((\E i \in DOMAIN vs : Wide(vs[i])) \/ Wide(v))
  <2> DEFINE n == Len(vs)
  <2>1. /\ n \in Nat /\ DOMAIN vs = 1..n /\ DOMAIN ws = 1..(n + 1) /\ ws[n + 1] = v
        /\ \A i \in 1..n : ws[i] = vs[i]
    OBVIOUS
  <2> HIDE DEF n, ws
  <2>2. \A i : i \in 1..(n + 1) <=> i \in 1..n \/ i = n + 1
    BY <2>1
  <2> QED BY <2>1, <2>2
<1> HIDE DEF r, ws
<1>8. Combined(ws)
  BY <1>2, <1>3, <1>4, <1>5, <1>6, <1>7 DEF Combined
<1> QED BY <1>8 DEF ws

\* Any number of values.
LEMMA AllCombined ==
    ASSUME NEW vs \in Seq(Bytes), vs # <<>>
    PROVE  Combined(vs)
<1> DEFINE S == {s \in Seq(Bytes) : s # <<>> => Combined(s)}
<1>1. <<>> \in S
  OBVIOUS
<1>2. ASSUME NEW s \in Seq(Bytes), NEW x \in Bytes PROVE s \in S => Append(s, x) \in S
  <2>1. Append(s, x) \in Seq(Bytes)
    OBVIOUS
  <2>2. CASE s = <<>>
    <3>1. Append(s, x) = <<x>>
      BY <2>2
    <3>2. Combined(<<x>>)
      BY CombinedOne
    <3> QED BY <2>1, <3>1, <3>2
  <2>3. CASE s # <<>>
    <3>1. s \in S => Combined(s)
      BY <2>3
    <3>2. s \in S => Combined(Append(s, x))
      BY <2>3, <3>1, CombinedMore
    <3> QED BY <2>1, <3>2
  <2> QED BY <2>2, <2>3
<1>3. Seq(Bytes) \subseteq S
  <2> HIDE DEF S
  <2> QED BY <1>1, <1>2, SeqInduction
<1> QED BY <1>3

\* So nothing that the framing rules ask of a field changes.
LEMMA CommaReadsAlike ==
    ASSUME NEW vs \in Seq(Bytes), vs # <<>>
    PROVE  /\ <<Comma(vs)>> \in Seq(Bytes) /\ <<Comma(vs)>> # <<>> /\ Comma(vs) \in Bytes
           /\ ContentLength(<<Comma(vs)>>) = ContentLength(vs)
           /\ TransferEncoding(<<Comma(vs)>>) = TransferEncoding(vs)
<1> DEFINE p == Comma(vs)
           one == <<p>>
<1>1. p \in Bytes /\ Elements(p) = AllElements(vs) /\ (Wide(p) <=> \E i \in DOMAIN vs : Wide(vs[i]))
  BY AllCombined DEF Combined
<1> HIDE DEF p
<1>2. AllElements(one) = AllElements(vs)
  BY <1>1, OneElements
<1>3. (\E i \in DOMAIN one : Wide(one[i])) <=> \E i \in DOMAIN vs : Wide(vs[i])
  <2>1. DOMAIN one = {1} /\ one[1] = p
    OBVIOUS
  <2> QED BY <1>1, <2>1
<1>4. one \in Seq(Bytes) /\ one # <<>>
  BY <1>1
<1> HIDE DEF one
<1>5. ContentLength(one) = ContentLength(vs)
  BY <1>2 DEF ContentLength
<1>6. TransferEncoding(one) = TransferEncoding(vs)
  BY <1>2, <1>3 DEF TransferEncoding, Wide
<1> QED BY <1>1, <1>4, <1>5, <1>6 DEF one, p

\* The values of joined fields are the joined values.
LEMMA ValuesConcat ==
    ASSUME NEW id, NEW s \in Seq(Header), NEW t \in Seq(Header)
    PROVE  Values(s \o t, id) = Values(s, id) \o Values(t, id)
<1> DEFINE V(x) == Values(x, id)
           S == {x \in Seq(Header) : V(s \o x) = V(s) \o V(x)}
<1>0. /\ V(<<>>) = <<>> /\ \A x \in Seq(Header) : V(x) \in Seq(Bytes)
      /\ \A x \in Seq(Header), h \in Header :
             V(Append(x, h)) = IF h.id = id THEN Append(V(x), h.value) ELSE V(x)
  BY ValuesIs
<1> HIDE DEF V
<1>1. <<>> \in S
  <2>1. s \o <<>> = s /\ V(s) \o <<>> = V(s)
    BY <1>0, ConcatEmptySeq
  <2> QED BY <1>0, <2>1
<1>2. ASSUME NEW x \in Seq(Header), NEW h \in Header PROVE x \in S => Append(x, h) \in S
  <2> DEFINE a == s \o x
             b == Append(x, h)
  <2>1. a \in Seq(Header) /\ b \in Seq(Header) /\ s \o b = Append(a, h)
    BY AppendConcat
  <2>2. V(Append(a, h)) = IF h.id = id THEN Append(V(a), h.value) ELSE V(a)
    <3> HIDE DEF a
    <3> QED BY <1>0, <2>1
  <2>3. V(b) = IF h.id = id THEN Append(V(x), h.value) ELSE V(x)
    BY <1>0
  <2>4. h.value \in Bytes
    BY DEF Header
  <2>5. V(s) \o Append(V(x), h.value) = Append(V(s) \o V(x), h.value)
    <3> DEFINE p == V(s)
               q == V(x)
               y == h.value
    <3>1. p \in Seq(Bytes) /\ q \in Seq(Bytes) /\ y \in Bytes
      BY <1>0, <2>4
    <3> HIDE DEF p, q, y
    <3>2. p \o Append(q, y) = Append(p \o q, y)
      BY <3>1, AppendConcat
    <3> QED BY <3>2 DEF p, q, y
  <2>6. ASSUME V(a) = V(s) \o V(x) PROVE V(s \o b) = V(s) \o V(b)
    <3>1. CASE h.id = id
      BY <2>1, <2>2, <2>3, <2>5, <2>6, <3>1
    <3>2. CASE h.id # id
      BY <2>1, <2>2, <2>3, <2>6, <3>2
    <3> QED BY <3>1, <3>2
  <2> QED BY <2>1, <2>6
<1>3. Seq(Header) \subseteq S
  <2> HIDE DEF S
  <2> QED BY <1>1, <1>2, SeqInduction
<1> QED BY <1>3 DEF V

\* The values of the fields made of values.
MadeOf(id, vs) ==
    /\ FieldsOf(id, vs) \in Seq(Header)
    /\ Values(FieldsOf(id, vs), id) = vs
    /\ \A o : o # id => Values(FieldsOf(id, vs), o) = <<>>

\* FieldsOf, value by value.
LEMMA FieldsOfAppend ==
    ASSUME NEW id \in Name, NEW vs \in Seq(Bytes), NEW v \in Bytes
    PROVE  /\ [id |-> id, value |-> v] \in Header
           /\ FieldsOf(id, vs) \in Seq(Header)
           /\ FieldsOf(id, Append(vs, v)) = Append(FieldsOf(id, vs), [id |-> id, value |-> v])
<1> DEFINE F(x) == [id |-> id, value |-> x]
           ws == Append(vs, v)
           n == Len(vs)
           a == FieldsOf(id, vs)
           b == FieldsOf(id, ws)
           h == F(v)
           c == Append(a, h)
<1>1. \A x \in Bytes : F(x) \in Header
  BY DEF Header
<1>2. \A us : FieldsOf(id, us) = [i \in DOMAIN us |-> F(us[i])]
  BY DEF FieldsOf
<1> HIDE DEF F
<1>3. ASSUME NEW us \in Seq(Bytes)
      PROVE  /\ FieldsOf(id, us) \in Seq(Header) /\ Len(FieldsOf(id, us)) = Len(us)
             /\ \A i \in 1..Len(us) : FieldsOf(id, us)[i] = F(us[i])
  <2> DEFINE f == FieldsOf(id, us)
             k == Len(us)
             G(i) == F(us[i])
  <2>1. k \in Nat /\ DOMAIN us = 1..k /\ \A i \in 1..k : us[i] \in Bytes
    OBVIOUS
  <2>2. f = [i \in 1..k |-> G(i)] /\ \A i \in 1..k : G(i) \in Header
    BY <1>1, <1>2, <2>1
  <2> HIDE DEF f, k, G
  <2>3. f \in Seq(Header) /\ Len(f) = k /\ \A i \in 1..k : f[i] = G(i)
    BY <2>1, <2>2
  <2> QED BY <2>3 DEF f, k, G
<1>4. n \in Nat /\ ws \in Seq(Bytes) /\ Len(ws) = n + 1 /\ ws[n + 1] = v /\ \A i \in 1..n : ws[i] = vs[i]
  OBVIOUS
<1> HIDE DEF ws
<1>5. a \in Seq(Header) /\ Len(a) = n /\ \A i \in 1..n : a[i] = F(vs[i])
  BY <1>3
<1>6. b \in Seq(Header) /\ Len(b) = n + 1 /\ \A i \in 1..(n + 1) : b[i] = F(ws[i])
  <2>1. b \in Seq(Header) /\ Len(b) = Len(ws) /\ \A i \in 1..Len(ws) : b[i] = F(ws[i])
    BY <1>3, <1>4
  <2> QED BY <1>4, <2>1
<1>7. h \in Header
  BY <1>1
<1> HIDE DEF a, b, h, n
<1>8. c \in Seq(Header) /\ Len(c) = n + 1 /\ c[n + 1] = h /\ \A i \in 1..n : c[i] = a[i]
  BY <1>5, <1>7
<1> HIDE DEF c
<1>9. \A i \in 1..(n + 1) : b[i] = c[i]
  <2>1. \A i \in 1..(n + 1) : i \in 1..n \/ i = n + 1
    BY <1>4
  <2>2. n + 1 \in 1..(n + 1) /\ \A i \in 1..n : i \in 1..(n + 1)
    BY <1>4
  <2>3. ASSUME NEW i \in 1..n PROVE b[i] = c[i]
    <3>1. b[i] = F(ws[i]) /\ ws[i] = vs[i]
      BY <1>4, <1>6, <2>2
    <3>2. c[i] = F(vs[i])
      BY <1>5, <1>8
    <3> QED BY <3>1, <3>2
  <2>4. b[n + 1] = c[n + 1]
    <3>1. b[n + 1] = F(ws[n + 1]) /\ ws[n + 1] = v
      BY <1>4, <1>6, <2>2
    <3>2. c[n + 1] = F(v)
      BY <1>8 DEF h
    <3> QED BY <3>1, <3>2
  <2> QED BY <2>1, <2>3, <2>4
<1>10. b = c
  BY <1>4, <1>6, <1>8, <1>9, SeqEqual
<1> QED BY <1>5, <1>7, <1>10 DEF a, b, c, h, F, ws

\* FieldsOf and Values are inverse, and other names have none of these values.
LEMMA ValuesOfFields ==
    ASSUME NEW id \in Name, NEW vs \in Seq(Bytes)
    PROVE  MadeOf(id, vs)
<1> DEFINE S == {s \in Seq(Bytes) : MadeOf(id, s)}
<1>1. <<>> \in S
  <2>1. FieldsOf(id, <<>>) = <<>>
    BY DEF FieldsOf
  <2>2. \A o : Values(<<>>, o) = <<>>
    BY ValuesIs
  <2>3. <<>> \in Seq(Header) /\ <<>> \in Seq(Bytes)
    OBVIOUS
  <2>4. MadeOf(id, <<>>)
    BY <2>1, <2>2, <2>3 DEF MadeOf
  <2> QED BY <2>3, <2>4
<1>2. ASSUME NEW s \in Seq(Bytes), NEW v \in Bytes PROVE s \in S => Append(s, v) \in S
  <2> DEFINE h == [id |-> id, value |-> v]
             f == FieldsOf(id, s)
             g == FieldsOf(id, Append(s, v))
  <2>1. h \in Header /\ f \in Seq(Header) /\ g = Append(f, h)
    BY FieldsOfAppend
  <2>2. h.id = id /\ h.value = v
    OBVIOUS
  <2> HIDE DEF h, f, g
  <2>3. \A o : Values(Append(f, h), o) = IF h.id = o THEN Append(Values(f, o), h.value) ELSE Values(f, o)
    BY <2>1, ValuesIs
  <2>4. g \in Seq(Header)
    BY <2>1
  <2>5. ASSUME MadeOf(id, s) PROVE MadeOf(id, Append(s, v))
    <3>1. Values(f, id) = s /\ \A o : o # id => Values(f, o) = <<>>
      BY <2>5 DEF MadeOf, f
    <3>2. Values(g, id) = Append(s, v)
      BY <2>1, <2>2, <2>3, <3>1
    <3>3. \A o : o # id => Values(g, o) = <<>>
      BY <2>1, <2>2, <2>3, <3>1
    <3> QED BY <2>4, <3>2, <3>3 DEF MadeOf, g
  <2>6. Append(s, v) \in Seq(Bytes)
    OBVIOUS
  <2> QED BY <2>5, <2>6
<1>3. Seq(Bytes) \subseteq S
  <2> HIDE DEF S
  <2> QED BY <1>1, <1>2, SeqInduction
<1> QED BY <1>3

\* Joined's fields, name by name.
LEMMA JoinedValues ==
    ASSUME NEW h, h.headers \in Seq(Header), NEW hs \in Name, NEW l \in Name, NEW c \in Name,
           hs # l, hs # c, l # c,
           NEW A, A \in Seq(Bytes), NEW B, B \in Seq(Bytes), NEW D, D \in Seq(Bytes)
    PROVE  LET f == FieldsOf(c, A) \o FieldsOf(l, B) \o FieldsOf(hs, D) IN
           Values(f, c) = A /\ Values(f, l) = B /\ Values(f, hs) = D
<1> DEFINE a == FieldsOf(c, A)
           b == FieldsOf(l, B)
           d == FieldsOf(hs, D)
<1>1. MadeOf(c, A) /\ MadeOf(l, B) /\ MadeOf(hs, D)
  BY ValuesOfFields
<1>2. a \in Seq(Header) /\ b \in Seq(Header) /\ d \in Seq(Header)
  BY <1>1 DEF MadeOf
<1>3. /\ Values(a, c) = A /\ Values(a, l) = <<>> /\ Values(a, hs) = <<>>
      /\ Values(b, c) = <<>> /\ Values(b, l) = B /\ Values(b, hs) = <<>>
      /\ Values(d, c) = <<>> /\ Values(d, l) = <<>> /\ Values(d, hs) = D
  BY <1>1 DEF MadeOf
<1> HIDE DEF a, b, d
<1>4. a \o b \in Seq(Header)
  BY <1>2, ConcatProperties
<1> DEFINE e == a \o b
<1>5. \A id : Values(e, id) = Values(a, id) \o Values(b, id)
  BY <1>2, ValuesConcat
<1>6. e \in Seq(Header)
  BY <1>4
<1> HIDE DEF e
<1>7. \A id : Values(e \o d, id) = Values(e, id) \o Values(d, id)
  BY <1>2, <1>6, ValuesConcat
<1>8. /\ A \o <<>> = A /\ <<>> \o B = B /\ B \o <<>> = B /\ <<>> \o D = D
      /\ <<>> \o <<>> = <<>>
  BY ConcatEmptySeq
<1>9. Values(e, c) = A /\ Values(e, l) = B /\ Values(e, hs) = <<>>
  BY <1>3, <1>5, <1>8
<1>10. Values(e \o d, c) = A /\ Values(e \o d, l) = B /\ Values(e \o d, hs) = D
  BY <1>3, <1>7, <1>8, <1>9
<1> QED BY <1>10 DEF a, b, d, e

\* What check_authority looks at.
LEMMA AuthorityDepends ==
    ASSUME NEW h, NEW g, h.method = g.method, h.target = g.target,
           h.authority_at = g.authority_at, all(h, "Host") = all(g, "Host")
    PROVE  check_authority(h) = check_authority(g)
<1>1. absolute_scheme(h) = absolute_scheme(g)
  BY DEF absolute_scheme
<1>2. authority(h) = authority(g)
  BY DEF authority
<1>3. \A t, d : Reconcile(h, t, d) = Reconcile(g, t, d)
  BY DEF Reconcile
<1> QED BY <1>1, <1>2, <1>3 DEF check_authority

\* A head that is a record of Head's fields.
Headed(h) ==
    \E m, u, v, hs, q, a : h = [method |-> m, target |-> u, version |-> v, headers |-> hs,
                                query_at |-> q, authority_at |-> a]

\* The values a forwarded head has in place of vs.
OneOf(vs) == IF vs = <<>> THEN <<>> ELSE <<Comma(vs)>>

\* They say the same.
LEMMA OneOfAlike ==
    ASSUME NEW vs \in Seq(Bytes)
    PROVE  /\ OneOf(vs) \in Seq(Bytes) /\ (OneOf(vs) = <<>> <=> vs = <<>>)
           /\ vs # <<>> => /\ ContentLength(OneOf(vs)) = ContentLength(vs)
                           /\ TransferEncoding(OneOf(vs)) = TransferEncoding(vs)
<1>1. CASE vs = <<>>
  <2>1. OneOf(vs) = <<>>
    BY <1>1 DEF OneOf
  <2>2. <<>> \in Seq(Bytes)
    OBVIOUS
  <2> QED BY <1>1, <2>1, <2>2
<1>2. CASE vs # <<>>
  <2>1. OneOf(vs) = <<Comma(vs)>>
    BY <1>2 DEF OneOf
  <2> QED BY <1>2, <2>1, CommaReadsAlike
<1> QED BY <1>1, <1>2

\* The three names differ.
LEMMA NamesAre ==
    /\ "Host" \in Name /\ "ContentLength" \in Name /\ "TransferEncoding" \in Name
    /\ "Host" # "ContentLength" /\ "Host" # "TransferEncoding" /\ "ContentLength" # "TransferEncoding"
BY Zenon DEF Name

\* Which names are which.
Named3(hs, l, c) == hs = "Host" /\ l = "ContentLength" /\ c = "TransferEncoding"

\* What a forwarded head has under each name.
LEMMA JoinedIs ==
    ASSUME NEW h, Headed(h), h.headers \in Seq(Header), NEW j, j = Joined(h),
           NEW hs \in Name, NEW l \in Name, NEW c \in Name, hs # l, hs # c, l # c, Named3(hs, l, c)
    PROVE  /\ j.method = h.method /\ j.target = h.target /\ j.authority_at = h.authority_at
           /\ j.version = h.version
           /\ all(j, hs) = all(h, hs) /\ all(j, l) = OneOf(all(h, l)) /\ all(j, c) = OneOf(all(h, c))
<1> DEFINE A == all(h, c)
           B == all(h, l)
           D == all(h, hs)
           f == FieldsOf(c, OneOf(A)) \o FieldsOf(l, OneOf(B)) \o FieldsOf(hs, D)
<1>1. A \in Seq(Bytes) /\ B \in Seq(Bytes) /\ D \in Seq(Bytes)
  BY ValuesIs DEF all
<1>2. \A id : FieldsOf(id, <<>>) = <<>>
  BY DEF FieldsOf
<1>3. j = [h EXCEPT !.headers = f]
  <2>1. \A id, vs : (IF vs = <<>> THEN <<>> ELSE FieldsOf(id, <<Comma(vs)>>)) = FieldsOf(id, OneOf(vs))
    BY <1>2 DEF OneOf
  <2>2. j = [h EXCEPT !.headers =
               (IF A = <<>> THEN <<>> ELSE FieldsOf(c, <<Comma(A)>>))
               \o (IF B = <<>> THEN <<>> ELSE FieldsOf(l, <<Comma(B)>>))
               \o FieldsOf(hs, D)]
    BY DEF Joined, Named3
  <2> HIDE DEF A, B, D
  <2> QED BY <2>1, <2>2
<1>4. Values(f, c) = OneOf(A) /\ Values(f, l) = OneOf(B) /\ Values(f, hs) = D
  <2> HIDE DEF A, B, D, f
  <2> DEFINE x == OneOf(A)
             y == OneOf(B)
  <2>1. x \in Seq(Bytes) /\ y \in Seq(Bytes) /\ D \in Seq(Bytes)
    BY <1>1, OneOfAlike
  <2>2. f = FieldsOf(c, x) \o FieldsOf(l, y) \o FieldsOf(hs, D)
    BY DEF f
  <2> HIDE DEF x, y
  <2>3. LET g == FieldsOf(c, x) \o FieldsOf(l, y) \o FieldsOf(hs, D) IN
        Values(g, c) = x /\ Values(g, l) = y /\ Values(g, hs) = D
    BY <2>1, JoinedValues
  <2> QED BY <2>2, <2>3 DEF x, y
<1> HIDE DEF A, B, D, f
<1>5. /\ j.method = h.method /\ j.target = h.target /\ j.authority_at = h.authority_at
      /\ j.version = h.version /\ j.headers = f
  BY <1>3 DEF Headed
<1> QED BY <1>4, <1>5 DEF all, A, B, D

\* decide's verdict on a head with its lists joined is the one on the head.
LEMMA JoinedDecidesAlike ==
    ASSUME NEW h, Headed(h), h.headers \in Seq(Header)
    PROVE  decide(Joined(h)) = decide(h)
<1> DEFINE j == Joined(h)
           A == all(h, "TransferEncoding")
           B == all(h, "ContentLength")
<1>1. /\ j.method = h.method /\ j.target = h.target /\ j.authority_at = h.authority_at
      /\ j.version = h.version
      /\ all(j, "Host") = all(h, "Host") /\ all(j, "ContentLength") = OneOf(B)
      /\ all(j, "TransferEncoding") = OneOf(A)
  <2>1. PICK hs \in Name, l \in Name, c \in Name : hs # l /\ hs # c /\ l # c /\ Named3(hs, l, c)
    BY NamesAre DEF Named3
  <2>2. /\ j.method = h.method /\ j.target = h.target /\ j.authority_at = h.authority_at
        /\ j.version = h.version
        /\ all(j, hs) = all(h, hs) /\ all(j, l) = OneOf(all(h, l)) /\ all(j, c) = OneOf(all(h, c))
    BY <2>1, JoinedIs
  <2> QED BY <2>1, <2>2 DEF Named3
<1>2. A \in Seq(Bytes) /\ B \in Seq(Bytes)
  BY ValuesIs DEF all
<1> HIDE DEF j, A, B
<1>3. check_authority(j) = check_authority(h)
  BY <1>1, AuthorityDepends
<1>4. /\ (OneOf(A) = <<>> <=> A = <<>>) /\ (OneOf(B) = <<>> <=> B = <<>>)
      /\ A # <<>> => TransferEncoding(OneOf(A)) = TransferEncoding(A)
      /\ B # <<>> => ContentLength(OneOf(B)) = ContentLength(B)
  BY <1>2, OneOfAlike
<1>5. BodyKind(j.version, OneOf(B), OneOf(A)) = BodyKind(h.version, B, A)
  BY <1>1, <1>4 DEF BodyKind
<1>6. decide(j) = decide(h)
  BY <1>1, <1>3, <1>5 DEF decide, A, B
<1> QED BY <1>6 DEF j

\* Every hop frames a request that decide accepts as decide did, whichever number it
\* takes, whatever it strips and wherever it looks for `chunked`; and combining the
\* fields into lists, or reordering them, would not have changed decide's verdict.
THEOREM OneReadingOnly == BridgeSpec => []OneReading
<1>1. HeadOnItsWay => OneReading
  <2> SUFFICES ASSUME HeadOnItsWay PROVE OneReading
    OBVIOUS
  <2>1. ASSUME head = Made(request) PROVE Headed(head) /\ head.headers \in Seq(Header)
    <3>1. request \in Request
      BY DEF HeadOnItsWay
    <3>2. head.headers \in Seq(Header)
      BY <2>1, <3>1, MadeIsWhole
    <3>3. Headed(Made(request))
      BY DEF Made, HeadNew, Headed
    <3> QED BY <2>1, <3>2, <3>3
  <2>2. ASSUME stage = "accepted" PROVE OtherReadings(head) = {verdict}
    <3>1. head = Made(request) /\ verdict = decide(head) /\ verdict.error = "none"
      BY <2>2 DEF HeadOnItsWay
    <3>2. head.headers \in Seq(Header) /\ decide(head).error = "none"
      BY <2>1, <3>1
    <3>3. OtherReadings(head) = {decide(head)}
      BY <3>2, ReadAlike
    <3> QED BY <3>1, <3>3
  <2>3. ASSUME head # NoHead, stage \in {"accepted", "refused"} PROVE verdict = decide(Joined(head))
    <3>1. head = Made(request) /\ verdict = decide(head)
      BY <2>3 DEF HeadOnItsWay
    <3>2. decide(Joined(head)) = decide(head)
      BY <2>1, <3>1, JoinedDecidesAlike
    <3> QED BY <3>1, <3>2
  <2> QED BY <2>2, <2>3 DEF OneReading
<1> QED BY <1>1, OnItsWay, PTL

-----------------------------------------------------------------------------
(* One reading of an authority.                                            *)

\* The symbols at which readers of an authority cut.
IsAt(b) == b = "@"

\* Before the port.
IsColon(b) == b = ":"

\* After an address in brackets.
IsClose(b) == b = "]"

\* None of these.
Unmarked(b) == ~IsAt(b) /\ ~IsColon(b) /\ ~IsClose(b)

\* They differ.
LEMMA MarksDiffer ==
    /\ \A b : IsColon(b) => ~IsAt(b) /\ ~IsClose(b)
    /\ \A b : IsClose(b) => ~IsAt(b) /\ ~IsColon(b)
BY Zenon DEF IsAt, IsColon, IsClose

\* No digit is one of them.
LEMMA DigitUnmarked ==
    ASSUME NEW b, is_ascii_digit(b)
    PROVE  Unmarked(b)
<1>1. \A d \in DecimalDigits : Unmarked(d)
  BY Zenon DEF DecimalDigits, Unmarked, IsAt, IsColon, IsClose
<1> QED BY <1>1, DigitSymbol

\* No byte of a registered name is.
LEMMA NameUnmarked ==
    ASSUME NEW b, is_ascii_alphanumeric(b) \/ b \in RegNameBytes \/ b = "%"
    PROVE  Unmarked(b)
<1>1. CASE is_ascii_digit(b)
  BY <1>1, DigitUnmarked
<1>2. CASE is_ascii_alphabetic(b) \/ b \in RegNameBytes \/ b = "%"
  <2>1. \A x \in {"a", "A", "b", "g", "http", "HTTP", "https", "ftp", "chunked", "CHUNKED", "gzip"} :
            x \notin {"@", ":", "]"}
    BY Zenon
  <2>2. \A x \in {"-", ".", "*", "+", ",", ";", "=", "%"} : x \notin {"@", ":", "]"}
    BY Zenon
  <2>3. \/ b \in {"a", "A", "b", "g", "http", "HTTP", "https", "ftp", "chunked", "CHUNKED", "gzip"}
        \/ b \in {"-", ".", "*", "+", ",", ";", "=", "%"}
    BY <1>2 DEF is_ascii_alphabetic, RegNameBytes
  <2>4. b \notin {"@", ":", "]"}
    BY <2>1, <2>2, <2>3
  <2> QED BY <2>4 DEF Unmarked, IsAt, IsColon, IsClose
<1> QED BY <1>1, <1>2 DEF is_ascii_alphanumeric

\* Of the bytes of an address in brackets only the colon is.
LEMMA InBrackets ==
    ASSUME NEW b, is_ascii_hexdigit(b) \/ b \in {":", "."}
    PROVE  ~IsAt(b) /\ ~IsClose(b)
<1>1. CASE is_ascii_digit(b)
  BY <1>1, DigitUnmarked DEF Unmarked
<1>2. CASE b \in {"a", "A", "b", ":", "."}
  <2>1. \A x \in {"a", "A", "b", ":", "."} : x \notin {"@", "]"}
    BY Zenon
  <2> QED BY <1>2, <2>1 DEF IsAt, IsClose
<1> QED BY <1>1, <1>2 DEF is_ascii_hexdigit

\* An authority that ends its host at e: a colon and digits follow, and what
\* comes before has no "@", and colons only inside brackets.
Shape(a, e) ==
    /\ e \in Nat /\ e <= Len(a)
    /\ e < Len(a) => IsColon(a[e + 1])
    /\ \A i \in (e + 2)..Len(a) : is_ascii_digit(a[i])
    /\ \A i \in 1..e : ~IsAt(a[i])
    /\ \A i \in 1..e : IsColon(a[i]) => \E k \in i..e : IsClose(a[k])

\* Whoever looks for the host's end in an authority of that shape finds it at e.
LEMMA ShapeCuts ==
    ASSUME NEW a \in Bytes, NEW e, Shape(a, e)
    PROVE  AfterAt(a) = a /\ Cuts(a) = {e}
<1> DEFINE n == Len(a)
           Closed(i) == Contains(Slice(a, i, n), "]")
           colons == {i \in 0..(n - 1) : IsColon(a[i + 1]) /\ ~Closed(i)}
<1>1. n \in Nat /\ DOMAIN a = 1..n
  BY DEF Bytes
<1>2. /\ e \in Nat /\ e <= n
      /\ e < n => IsColon(a[e + 1])
      /\ \A i \in (e + 2)..n : is_ascii_digit(a[i])
      /\ \A i \in 1..e : ~IsAt(a[i])
      /\ \A i \in 1..e : IsColon(a[i]) => \E k \in i..e : IsClose(a[k])
  BY DEF Shape
<1>3. \A i \in (e + 2)..n : Unmarked(a[i])
  BY <1>2, DigitUnmarked
<1>4. ASSUME NEW i \in 1..n PROVE ~IsAt(a[i])
  <2>1. i \in 1..e \/ (i = e + 1 /\ e < n) \/ i \in (e + 2)..n
    BY <1>1, <1>2
  <2> QED BY <1>2, <1>3, <2>1, MarksDiffer DEF Unmarked
<1>5. AfterAt(a) = a
  <2>1. {i \in DOMAIN a : a[i] = "@"} = {}
    BY <1>1, <1>4 DEF IsAt
  <2> QED BY <2>1 DEF AfterAt
<1>6. Cuts(a) = IF colons = {} THEN {n} ELSE colons
  BY DEF Cuts, IsColon
<1>7. ASSUME NEW i \in 0..(n - 1)
      PROVE  Closed(i) <=> \E k \in (i + 1)..n : IsClose(a[k])
  <2> DEFINE s == Slice(a, i, n)
  <2>1. i \in Nat /\ i <= n
    BY <1>1
  <2>2. Len(s) = n - i /\ \A k \in 1..(n - i) : s[k] = a[i + k]
    <3>1. n <= Len(a)
      BY <1>1
    <3> HIDE DEF n
    <3> QED BY <1>1, <2>1, <3>1, SliceIs
  <2>3. Closed(i) <=> \E k \in 1..Len(s) : IsClose(s[k])
    BY DEF Contains, IsClose
  <2> HIDE DEF s, Closed, n
  <2>4. ASSUME NEW k \in 1..(n - i), IsClose(s[k]) PROVE \E j \in (i + 1)..n : IsClose(a[j])
    <3>1. i + k \in (i + 1)..n
      BY <1>1, <2>1
    <3> QED BY <2>2, <2>4, <3>1
  <2>5. ASSUME NEW j \in (i + 1)..n, IsClose(a[j]) PROVE \E k \in 1..(n - i) : IsClose(s[k])
    <3>1. j - i \in 1..(n - i) /\ i + (j - i) = j
      BY <1>1, <2>1
    <3> QED BY <2>2, <2>5, <3>1
  <2> QED BY <2>2, <2>3, <2>4, <2>5
<1> HIDE DEF Closed, n
<1>8. ASSUME NEW i \in colons PROVE i = e /\ e < n
  <2>1. i \in 0..(n - 1) /\ IsColon(a[i + 1]) /\ ~Closed(i)
    OBVIOUS
  <2> HIDE DEF colons
  <2>2. CASE i + 1 <= e
    <3>1. i + 1 \in 1..e
      BY <1>1, <2>1, <2>2
    <3>2. PICK k \in (i + 1)..e : IsClose(a[k])
      BY <1>2, <2>1, <3>1
    <3>3. k \in (i + 1)..n
      BY <1>1, <1>2, <2>1
    <3> QED BY <1>7, <2>1, <3>2, <3>3
  <2>3. CASE i + 1 >= e + 2
    <3>1. i + 1 \in (e + 2)..n
      BY <1>1, <1>2, <2>1, <2>3
    <3> QED BY <1>3, <2>1, <3>1 DEF Unmarked
  <2>4. CASE i = e
    BY <1>1, <1>2, <2>1, <2>4
  <2> QED BY <1>1, <1>2, <2>1, <2>2, <2>3, <2>4
<1>9. ASSUME e < n PROVE e \in colons
  <2>1. e \in 0..(n - 1)
    BY <1>1, <1>2, <1>9
  <2>2. \A k \in (e + 1)..n : ~IsClose(a[k])
    <3>1. \A k \in (e + 1)..n : k = e + 1 \/ k \in (e + 2)..n
      BY <1>1, <1>2
    <3> QED BY <1>2, <1>3, <1>9, <3>1, MarksDiffer DEF Unmarked
  <2> QED BY <1>2, <1>7, <1>9, <2>1, <2>2
<1>10. Cuts(a) = {e}
  <2> HIDE DEF colons
  <2>1. CASE e < n
    <3>1. colons = {e}
      BY <1>8, <1>9, <2>1
    <3> QED BY <1>6, <3>1
  <2>2. CASE ~(e < n)
    <3>1. colons = {} /\ e = n
      BY <1>1, <1>2, <1>8, <2>2
    <3> QED BY <1>6, <3>1
  <2> QED BY <2>1, <2>2
<1> QED BY <1>5, <1>10

\* Position, of one symbol.
PosOf(a, c) == Position(a, LAMBDA b : b = c)

\* It is the first such place, if there is one.
LEMMA PosIs ==
    ASSUME NEW a \in Bytes, NEW c
    PROVE  \/ PosOf(a, c) = None /\ \A i \in 1..Len(a) : a[i] # c
           \/ /\ PosOf(a, c) \in 0..(Len(a) - 1) /\ a[PosOf(a, c) + 1] = c
              /\ \A i \in 1..PosOf(a, c) : a[i] # c
<1> DEFINE S == {i \in DOMAIN a : a[i] = c}
           Is(i) == a[i] = c /\ \A j \in 1..(i - 1) : a[j] # c
           n == Len(a)
<1>1. n \in Nat /\ DOMAIN a = 1..n
  BY DEF Bytes
<1>2. CASE S = {}
  <2>1. ~ \E i \in DOMAIN a : a[i] = c
    BY <1>2
  <2>2. PosOf(a, c) = None
    BY <2>1 DEF PosOf, Position
  <2> QED BY <1>1, <2>1, <2>2
<1>3. CASE S # {}
  <2>1. \E i \in DOMAIN a : Is(i)
    <3>1. PICK i \in DOMAIN a : i \in S /\ \A j \in 1..(i - 1) : j \notin S
      BY <1>1, <1>3, FirstOf
    <3>2. \A j \in 1..(i - 1) : j \in DOMAIN a
      BY <1>1, <3>1
    <3> QED BY <3>1, <3>2
  <2> DEFINE k == CHOOSE i \in DOMAIN a : Is(i)
  <2>2. k \in DOMAIN a /\ Is(k)
    BY <2>1
  <2>3. PosOf(a, c) = k - 1
    BY <1>3 DEF PosOf, Position
  <2> HIDE DEF k, n
  <2>4. k \in 1..n
    BY <1>1, <2>2
  <2>5. k - 1 \in 0..(n - 1) /\ (k - 1) + 1 = k
    BY <1>1, <2>4
  <2> QED BY <2>2, <2>3, <2>5 DEF n
<1> QED BY <1>2, <1>3

\* Before an address in brackets.
IsOpen(b) == b = "["

\* The authority has its address in brackets.
Bracketed(a) == a # <<>> /\ IsOpen(a[1])

\* Where parse_authority ends the host: after the brackets, or before the first colon.
LEMMA HostEndIs ==
    ASSUME NEW a \in Bytes, NEW e, e = HostEnd(a)
    PROVE  /\ e \in Nat /\ e <= Len(a)
           /\ Bracketed(a) =>
                  \/ e = Len(a) /\ \A i \in 1..Len(a) : ~IsClose(a[i])
                  \/ 1 <= e /\ IsClose(a[e]) /\ \A i \in 1..(e - 1) : ~IsClose(a[i])
           /\ ~Bracketed(a) =>
                  \/ e = Len(a) /\ \A i \in 1..Len(a) : ~IsColon(a[i])
                  \/ e < Len(a) /\ IsColon(a[e + 1]) /\ \A i \in 1..e : ~IsColon(a[i])
<1> DEFINE n == Len(a)
<1>0. n \in Nat
  BY DEF Bytes
<1>1. CASE Bracketed(a)
  <2> DEFINE p == PosOf(a, "]")
  <2>1. e = IF p = None THEN n ELSE p + 1
    <3>1. a # <<>> /\ a[1] = "["
      BY <1>1 DEF Bracketed, IsOpen
    <3> QED BY <3>1 DEF HostEnd, PosOf, Position
  <2>2. \/ p = None /\ \A i \in 1..n : ~IsClose(a[i])
        \/ p \in 0..(n - 1) /\ IsClose(a[p + 1]) /\ \A i \in 1..p : ~IsClose(a[i])
    BY PosIs DEF IsClose
  <2> HIDE DEF p, n
  <2>3. CASE p = None /\ \A i \in 1..n : ~IsClose(a[i])
    <3>1. e = n
      BY <2>1, <2>3
    <3> QED BY <1>0, <1>1, <2>3, <3>1 DEF n
  <2>4. CASE p \in 0..(n - 1) /\ IsClose(a[p + 1]) /\ \A i \in 1..p : ~IsClose(a[i])
    <3>1. p # None
      BY <2>4 DEF None
    <3>2. e = p + 1 /\ e \in Nat /\ e <= n /\ 1 <= e /\ e - 1 = p
      BY <1>0, <2>1, <2>4, <3>1
    <3>3. IsClose(a[e]) /\ \A i \in 1..(e - 1) : ~IsClose(a[i])
      BY <2>4, <3>2
    <3> QED BY <1>1, <3>2, <3>3 DEF n
  <2> QED BY <2>2, <2>3, <2>4
<1>2. CASE ~Bracketed(a)
  <2> DEFINE p == PosOf(a, ":")
  <2>1. e = IF p = None THEN n ELSE p
    <3>1. ~(a # <<>> /\ a[1] = "[")
      BY <1>2 DEF Bracketed, IsOpen
    <3> DEFINE bracketed == a # <<>> /\ a[1] = "["
               c == IF bracketed THEN "]" ELSE ":"
               at == PosOf(a, c)
    <3>2. HostEnd(a) = IF at = None THEN Len(a) ELSE IF bracketed THEN at + 1 ELSE at
      BY DEF HostEnd, PosOf, Position
    <3>3. c = ":" /\ ~bracketed
      BY <3>1
    <3> HIDE DEF c, bracketed
    <3> QED BY <3>2, <3>3
  <2>2. \/ p = None /\ \A i \in 1..n : ~IsColon(a[i])
        \/ p \in 0..(n - 1) /\ IsColon(a[p + 1]) /\ \A i \in 1..p : ~IsColon(a[i])
    BY PosIs DEF IsColon
  <2> HIDE DEF p, n
  <2>3. CASE p = None /\ \A i \in 1..n : ~IsColon(a[i])
    <3>1. e = n
      BY <2>1, <2>3
    <3> QED BY <1>0, <1>2, <2>3, <3>1 DEF n
  <2>4. CASE p \in 0..(n - 1) /\ IsColon(a[p + 1]) /\ \A i \in 1..p : ~IsColon(a[i])
    <3>1. p # None
      BY <2>4 DEF None
    <3>2. e = p /\ e \in Nat /\ e <= n /\ e < n
      BY <1>0, <2>1, <2>4, <3>1
    <3> QED BY <1>2, <2>4, <3>2 DEF n
  <2> QED BY <2>2, <2>3, <2>4
<1> QED BY <1>1, <1>2

\* parse_authority's host and rest, byte by byte.
LEMMA PartsOfAuthority ==
    ASSUME NEW a \in Bytes, parse_authority(a) # NoAuthority, NEW e, e = HostEnd(a)
    PROVE  LET host == Slice(a, 0, e)
               rest == Slice(a, e, Len(a))
           IN /\ valid_host(host) /\ valid_port(rest)
              /\ parse_authority(a) =
                     [host |-> host, port |-> IF Len(rest) < 2 THEN None ELSE PortValue(Tail(rest))]
              /\ e \in Nat /\ e <= Len(a) /\ Len(a) \in Nat
              /\ host \in Bytes /\ Len(host) = e /\ DOMAIN host = 1..e /\ \A i \in 1..e : host[i] = a[i]
              /\ rest \in Bytes /\ Len(rest) = Len(a) - e /\ DOMAIN rest = 1..(Len(a) - e)
              /\ \A i \in 1..(Len(a) - e) : rest[i] = a[e + i]
<1> DEFINE n == Len(a)
           host == Slice(a, 0, e)
           rest == Slice(a, e, n)
<1>1. n \in Nat /\ e \in Nat /\ e <= n
  BY HostEndIs DEF Bytes
<1>2. /\ valid_host(host) /\ valid_port(rest)
      /\ parse_authority(a) =
             [host |-> host, port |-> IF Len(rest) < 2 THEN None ELSE PortValue(Tail(rest))]
  BY DEF parse_authority
<1>3. host \in Bytes /\ Len(host) = e /\ DOMAIN host = 1..e /\ \A i \in 1..e : host[i] = a[i]
  <2> DEFINE z == 0
  <2>0. z \in Nat /\ z <= e /\ e <= Len(a) /\ e - z = e /\ \A i \in 1..e : z + i = i
    BY <1>1
  <2> HIDE DEF z
  <2>1. /\ Slice(a, z, e) \in Bytes /\ Len(Slice(a, z, e)) = e - z /\ DOMAIN Slice(a, z, e) = 1..(e - z)
        /\ \A i \in 1..(e - z) : Slice(a, z, e)[i] = a[z + i]
    BY <1>1, <2>0, SliceIs
  <2> DEFINE x == Slice(a, z, e)
  <2>2. x = host
    BY DEF z
  <2>3. x \in Bytes /\ Len(x) = e - z /\ DOMAIN x = 1..(e - z) /\ \A i \in 1..(e - z) : x[i] = a[z + i]
    BY <2>1
  <2> HIDE DEF x
  <2>4. x \in Bytes /\ Len(x) = e /\ DOMAIN x = 1..e /\ \A i \in 1..e : x[i] = a[i]
    BY <2>0, <2>3
  <2> QED BY <2>2, <2>4
<1>4. rest \in Bytes /\ Len(rest) = n - e /\ DOMAIN rest = 1..(n - e)
      /\ \A i \in 1..(n - e) : rest[i] = a[e + i]
  <2>1. n <= Len(a)
    BY <1>1
  <2> HIDE DEF n
  <2> QED BY <1>1, <2>1, SliceIs
<1> QED BY <1>1, <1>2, <1>3, <1>4

\* What a host that valid_host accepts has in it.
LEMMA HostShape ==
    ASSUME NEW a, NEW host, NEW e, NEW n, n = Len(a), n \in Nat, e \in Nat, e <= n, valid_host(host),
           Len(host) = e, DOMAIN host = 1..e, \A i \in 1..e : host[i] = a[i],
           Bracketed(a) => 1 <= e, a = <<>> <=> n = 0, host = <<>> <=> e = 0
    PROVE  /\ e >= 1
           /\ \A i \in 1..e : ~IsAt(a[i])
           /\ \A i \in 1..e : IsColon(a[i]) => \E k \in i..e : IsClose(a[k])
<1>1. host # <<>> /\ 1 <= e /\ n # 0
  BY DEF valid_host
<1>2. a # <<>> /\ 1 \in 1..e /\ host[1] = a[1]
  BY <1>1
<1>3. CASE Bracketed(a)
  <2>1. IsOpen(host[1])
    BY <1>2, <1>3 DEF Bracketed
  <2>2. /\ e > 2 /\ IsClose(host[e])
        /\ \A i \in 2..(e - 1) : is_ascii_hexdigit(host[i]) \/ host[i] \in {":", "."}
    <3>1. host[1] = "["
      BY <2>1 DEF IsOpen
    <3> QED BY <1>1, <3>1 DEF valid_host, IsClose
  <2>3. \A b : IsOpen(b) => ~IsAt(b) /\ ~IsColon(b)
    BY Zenon DEF IsOpen, IsAt, IsColon
  <2>4. e \in 1..e /\ IsClose(a[e])
    BY <1>1, <2>2
  <2>5. \A i \in 2..(e - 1) : i \in 1..e /\ ~IsAt(host[i])
    <3>1. \A i \in 2..(e - 1) : ~IsAt(host[i])
      BY <2>2, InBrackets
    <3> QED BY <3>1
  <2>6. \A i \in 1..e : i = 1 \/ i = e \/ i \in 2..(e - 1)
    BY <1>1
  <2>7. \A i \in 1..e : ~IsAt(host[i])
    BY <2>1, <2>2, <2>3, <2>5, <2>6, MarksDiffer
  <2>8. \A i \in 1..e : e \in i..e
    BY <1>1
  <2> QED BY <1>1, <2>4, <2>7, <2>8
<1>4. CASE ~Bracketed(a)
  <2>1. ~(host # <<>> /\ host[1] = "[")
    BY <1>2, <1>4 DEF Bracketed, IsOpen
  <2>2. valid_reg_name(host)
    BY <2>1 DEF valid_host
  <2>3. \A i \in 1..e : is_ascii_alphanumeric(host[i]) \/ host[i] \in RegNameBytes \/ host[i] = "%"
    BY <2>2 DEF valid_reg_name
  <2>4. \A i \in 1..e : Unmarked(host[i])
    BY <2>3, NameUnmarked
  <2> QED BY <1>1, <2>4 DEF Unmarked
<1> QED BY <1>3, <1>4

\* What follows it, if valid_port accepts it.
LEMMA RestShape ==
    ASSUME NEW a, NEW rest, NEW e \in Nat, NEW n \in Nat, e <= n, valid_port(rest),
           rest = <<>> <=> n - e = 0, Len(rest) = n - e,
           \A i \in 1..(n - e) : rest[i] = a[e + i]
    PROVE  /\ e < n => IsColon(a[e + 1])
           /\ \A i \in (e + 2)..n : is_ascii_digit(a[i])
<1>1. CASE rest = <<>>
  <2>1. e = n
    BY <1>1
  <2> QED BY <2>1
<1>2. CASE rest # <<>>
  <2>1. /\ IsColon(rest[1]) /\ \A i \in 2..(n - e) : is_ascii_digit(rest[i])
    BY <1>2 DEF valid_port, IsColon
  <2>2. 1 \in 1..(n - e)
    BY <1>2
  <2>3. IsColon(a[e + 1])
    BY <2>1, <2>2
  <2>4. ASSUME NEW i \in (e + 2)..n PROVE is_ascii_digit(a[i])
    <3>1. i - e \in 2..(n - e) /\ i - e \in 1..(n - e) /\ e + (i - e) = i
      OBVIOUS
    <3> QED BY <2>1, <3>1
  <2> QED BY <2>3, <2>4
<1> QED BY <1>1, <1>2

\* How everybody takes an authority apart.
LEMMA Shaped ==
    ASSUME NEW a \in Bytes, parse_authority(a) # NoAuthority
    PROVE  Shape(a, HostEnd(a)) /\ HostEnd(a) >= 1
<1> DEFINE e == HostEnd(a)
           n == Len(a)
           host == Slice(a, 0, e)
           rest == Slice(a, e, n)
<1>1. /\ valid_host(host) /\ valid_port(rest)
      /\ e \in Nat /\ e <= n /\ n \in Nat
      /\ host \in Bytes /\ Len(host) = e /\ DOMAIN host = 1..e /\ \A i \in 1..e : host[i] = a[i]
      /\ rest \in Bytes /\ Len(rest) = n - e /\ \A i \in 1..(n - e) : rest[i] = a[e + i]
  BY PartsOfAuthority
<1>2. /\ e \in Nat /\ e <= n
      /\ Bracketed(a) =>
             \/ e = n /\ \A i \in 1..n : ~IsClose(a[i])
             \/ 1 <= e /\ IsClose(a[e]) /\ \A i \in 1..(e - 1) : ~IsClose(a[i])
  BY HostEndIs
<1> HIDE DEF e, host, rest
<1>3. (a = <<>> <=> n = 0) /\ (host = <<>> <=> e = 0) /\ (rest = <<>> <=> n - e = 0)
  BY <1>1, EmptySeq DEF Bytes
<1>4. Bracketed(a) => 1 <= e
  BY <1>1, <1>2, <1>3 DEF Bracketed
<1>5. /\ e >= 1
      /\ \A i \in 1..e : ~IsAt(a[i])
      /\ \A i \in 1..e : IsColon(a[i]) => \E k \in i..e : IsClose(a[k])
  <2>1. n = Len(a) /\ n \in Nat /\ e \in Nat /\ e <= n
    BY <1>1
  <2>2. valid_host(host) /\ Len(host) = e /\ DOMAIN host = 1..e /\ \A i \in 1..e : host[i] = a[i]
    BY <1>1
  <2>3. (a = <<>> <=> n = 0) /\ (host = <<>> <=> e = 0)
    BY <1>3
  <2> HIDE DEF n
  <2> QED BY <1>4, <2>1, <2>2, <2>3, HostShape
<1> HIDE DEF n
<1>6. /\ e < n => IsColon(a[e + 1])
      /\ \A i \in (e + 2)..n : is_ascii_digit(a[i])
  BY <1>1, <1>3, RestShape
<1> QED BY <1>1, <1>5, <1>6 DEF Shape, e, n

\* No byte follows the last.
LEMMA BeyondTheEnd ==
    ASSUME NEW a \in Bytes, NEW i \in Nat, i >= Len(a)
    PROVE  Slice(a, i, Len(a)) = <<>>
<1> DEFINE n == Len(a)
<1>1. n \in Nat
  BY DEF Bytes
<1>2. i + 1 > n
  BY <1>1
<1>3. SubSeq(a, i + 1, n) = <<>>
  BY <1>1, <1>2 DEF Bytes
<1> QED BY <1>3 DEF Slice

\* The port that everybody reads is the one that parse_authority reads.
LEMMA PortIs ==
    ASSUME NEW a \in Bytes, NEW e, Shape(a, e),
           NEW rest \in Bytes, NEW n, n = Len(a), Len(rest) = n - e, \A i \in 1..(n - e) : rest[i] = a[e + i]
    PROVE  Split(a, e).port = IF Len(rest) < 2 THEN None ELSE PortValue(Tail(rest))
<1> DEFINE port == Slice(a, e + 1, n)
<1>0. Split(a, e).port = IF port = <<>> THEN None ELSE IF IsNumber(port) THEN PortValue(port) ELSE -2
  BY DEF Split
<1>1. n \in Nat /\ e \in Nat /\ e <= n /\ \A i \in (e + 2)..n : is_ascii_digit(a[i])
  BY DEF Shape, Bytes
<1>2. CASE Len(rest) < 2
  <2> DEFINE k == e + 1
  <2>1. k \in Nat /\ k >= n
    BY <1>1, <1>2
  <2> HIDE DEF k
  <2>2. Slice(a, k, Len(a)) = <<>>
    BY <2>1, BeyondTheEnd
  <2>3. port = <<>>
    BY <2>2 DEF k
  <2> QED BY <1>0, <1>2, <2>3
<1>3. CASE ~(Len(rest) < 2)
  <2> DEFINE k == e + 1
             t == Tail(rest)
  <2>1. k \in Nat /\ k <= n /\ n - k >= 1 /\ n <= Len(a)
    BY <1>1, <1>3
  <2>2. port = Slice(a, k, n)
    OBVIOUS
  <2>3. rest # <<>>
    BY <1>3
  <2>4. t \in Seq(Byte) /\ Len(t) = Len(rest) - 1 /\ \A i \in 1..(Len(rest) - 1) : t[i] = rest[i + 1]
    BY <2>3, HeadTailProperties DEF Bytes
  <2> HIDE DEF port, k, t
  <2>5. /\ port \in Bytes /\ Len(port) = n - k /\ DOMAIN port = 1..(n - k)
        /\ \A i \in 1..(n - k) : port[i] = a[k + i]
    <3>1. a \in Bytes /\ k \in Nat /\ n \in Nat /\ k <= n /\ n <= Len(a)
      BY <1>1, <2>1
    <3> DEFINE u == Slice(a, k, n)
    <3>2. u \in Bytes /\ Len(u) = n - k /\ DOMAIN u = 1..(n - k) /\ \A i \in 1..(n - k) : u[i] = a[k + i]
      BY <3>1, SliceIs
    <3> QED BY <2>2, <3>2
  <2>6. Len(rest) - 1 = n - k
    BY <1>1, <2>1 DEF k
  <2>7. ASSUME NEW i \in 1..(n - k) PROVE port[i] = t[i] /\ is_ascii_digit(port[i])
    <3>1. i + 1 \in 1..(n - e) /\ e + (i + 1) = k + i /\ k + i \in (e + 2)..n
      BY <1>1, <2>1 DEF k
    <3>2. t[i] = rest[i + 1]
      BY <2>4, <2>6
    <3>3. rest[i + 1] = a[e + (i + 1)]
      BY <3>1
    <3>4. port[i] = a[k + i]
      BY <2>5
    <3>5. is_ascii_digit(a[k + i])
      BY <1>1, <3>1
    <3>6. a[e + (i + 1)] = a[k + i]
      BY <3>1
    <3> QED BY <3>2, <3>3, <3>4, <3>5, <3>6
  <2>8. port = t
    <3>1. port \in Seq(Byte) /\ Len(port) = n - k /\ Len(t) = n - k /\ \A i \in 1..(n - k) : port[i] = t[i]
      BY <2>4, <2>5, <2>6, <2>7 DEF Bytes
    <3> DEFINE m == n - k
    <3>2. port \in Seq(Byte) /\ Len(port) = m /\ Len(t) = m /\ \A i \in 1..m : port[i] = t[i]
      BY <3>1
    <3> HIDE DEF m
    <3> QED BY <2>4, <3>2, SeqEqual
  <2>9. port # <<>>
    <3>1. Len(port) # 0
      BY <2>1, <2>5
    <3> QED BY <3>1
  <2>10. IsNumber(port)
    BY <2>5, <2>7, <2>9 DEF IsNumber
  <2> QED BY <1>0, <1>3, <2>8, <2>9, <2>10 DEF t
<1> QED BY <1>2, <1>3

\* The one name in an authority that parses.
NameOf(a, default) ==
    LET p == parse_authority(a) IN
    [host |-> to_lower(p.host), port |-> IF p.port = None THEN default ELSE p.port]

\* So there is one name in an authority that parses, however it is read.
LEMMA OneNameIn ==
    ASSUME NEW a \in Bytes, parse_authority(a) # NoAuthority, NEW default
    PROVE  NamesIn(a, default) = {NameOf(a, default)}
<1> DEFINE e == HostEnd(a)
           n == Len(a)
           host == Slice(a, 0, e)
           rest == Slice(a, e, n)
           p == parse_authority(a)
           s == Split(a, e)
<1>1. Shape(a, e) /\ e >= 1
  BY Shaped
<1>2. /\ p = [host |-> host, port |-> IF Len(rest) < 2 THEN None ELSE PortValue(Tail(rest))]
      /\ e \in Nat /\ e <= n /\ n \in Nat
      /\ host \in Bytes /\ DOMAIN host = 1..e
      /\ rest \in Bytes /\ Len(rest) = n - e /\ \A i \in 1..(n - e) : rest[i] = a[e + i]
  BY PartsOfAuthority
<1>3. s = [host |-> to_lower(host), port |-> s.port]
  BY DEF Split
<1>4. s.port = p.port /\ p.host = host
  <2> HIDE DEF e, host, rest, s, p
  <2>1. Split(a, e).port = IF Len(rest) < 2 THEN None ELSE PortValue(Tail(rest))
    BY <1>1, <1>2, PortIs
  <2>2. p.port = IF Len(rest) < 2 THEN None ELSE PortValue(Tail(rest))
    BY <1>2
  <2>3. p.host = host
    BY <1>2
  <2> QED BY <2>1, <2>2, <2>3 DEF s
<1> HIDE DEF e, n, host, rest, s, p
<1>5. to_lower(host) # <<>>
  <2>1. 1 \in DOMAIN to_lower(host)
    <3>1. 1 \in 1..e
      BY <1>1, <1>2
    <3> QED BY <1>2, <3>1 DEF to_lower
  <2> QED BY <2>1
<1>6. s # NoAuthority
  <2>1. s.host = to_lower(host)
    BY <1>3
  <2>2. NoAuthority.host = <<>>
    BY DEF NoAuthority
  <2> QED BY <1>5, <2>1, <2>2
<1>7. WithPort(s, default) = [host |-> to_lower(host), port |-> IF s.port = None THEN default ELSE s.port]
  <2>1. CASE s.port = None
    <3>1. WithPort(s, default) = [s EXCEPT !.port = default]
      BY <1>6, <2>1 DEF WithPort
    <3> DEFINE t == to_lower(host)
               q == s.port
    <3> HIDE DEF t, q
    <3>2. s = [host |-> t, port |-> q]
      BY <1>3 DEF t, q
    <3>3. [s EXCEPT !.port = default] = [host |-> t, port |-> default]
      BY <3>2
    <3> QED BY <2>1, <3>1, <3>3 DEF t
  <2>2. CASE s.port # None
    BY <1>3, <2>2 DEF WithPort
  <2> QED BY <2>1, <2>2
<1>8. WithPort(s, default) = NameOf(a, default)
  BY <1>4, <1>7 DEF NameOf, p
<1>9. AfterAt(a) = a /\ Cuts(a) = {e}
  BY <1>1, ShapeCuts
<1> DEFINE x == NameOf(a, default)
           W(b, i) == WithPort(Split(b, i), default)
<1>10. NamesIn(a, default) = UNION {{W(b, i) : i \in Cuts(b)} : b \in {a, AfterAt(a)}}
  BY DEF NamesIn
<1>11. W(a, e) = x
  BY <1>8 DEF s
<1> HIDE DEF W, x
<1>12. {W(a, i) : i \in Cuts(a)} = {x}
  BY <1>9, <1>11
<1>13. UNION {{W(b, i) : i \in Cuts(b)} : b \in {a}} = {x}
  BY <1>12
<1>14. {a, AfterAt(a)} = {a}
  BY <1>9
<1> QED BY <1>10, <1>13, <1>14 DEF x

-----------------------------------------------------------------------------
(* The target and Host.                                                    *)

\* Everyone who reads a name in S reads the same one.
SameName(S, default) == \E x : \A a \in S : NamesIn(a, default) = {x}

\* What Reconcile lets through.
LEMMA Reconciled ==
    ASSUME NEW h, NEW H, H = all(h, "Host"), NEW target, NEW defaults,
           Reconcile(h, target, defaults) = "none"
    PROVE  /\ target # NoAuthority
           /\ H # <<>> =>
                  /\ H[1] # <<>>
                  /\ to_lower(parse_authority(H[1]).host) = to_lower(target.host)
                  /\ SamePort(parse_authority(H[1]).port, target.port, defaults)
BY DEF Reconcile, eq_ignore_ascii_case

\* Host by itself.
LEMMA HostParses ==
    ASSUME NEW h, NEW H, H = all(h, "Host"), check_authority(h) = "none", H # <<>>, H[1] # <<>>
    PROVE  parse_authority(H[1]) # NoAuthority
BY DEF check_authority

\* Two names that compare equal.
LEMMA TwoNames ==
    ASSUME NEW a \in Bytes, NEW b \in Bytes, NEW default,
           parse_authority(a) # NoAuthority, parse_authority(b) # NoAuthority,
           NEW port, NameOf(a, default).port = port,
           to_lower(parse_authority(b).host) = to_lower(parse_authority(a).host),
           IF parse_authority(b).port = None THEN port = default ELSE parse_authority(b).port = port
    PROVE  NamesIn(a, default) = NamesIn(b, default)
<1> DEFINE p == parse_authority(a)
           q == parse_authority(b)
<1>1. NameOf(a, default) = [host |-> to_lower(p.host), port |-> IF p.port = None THEN default ELSE p.port]
  BY DEF NameOf
<1>2. NameOf(b, default) = [host |-> to_lower(q.host), port |-> IF q.port = None THEN default ELSE q.port]
  BY DEF NameOf
<1>3. (IF p.port = None THEN default ELSE p.port) = port
  BY <1>1
<1>4. NameOf(a, default) = NameOf(b, default)
  BY <1>1, <1>2, <1>3
<1> QED BY <1>4, OneNameIn

\* CONNECT's target is not absolute, so the cached range is empty.
LEMMA ConnectHasNoRange ==
    ASSUME NEW h, Whole(h), h.method = "CONNECT", validate_request_target(h.target, h.method)
    PROVE  h.authority_at = NoRange
<1> DEFINE t == h.target
<1>1. h.authority_at = find_absolute_authority(t)
  BY DEF Whole
<1>2. t = <<"*">> \/ AuthorityForm(t)
  BY DEF validate_request_target, validate_target_form
<1>3. t # <<"*">>
  <2>1. "CONNECT" # "OPTIONS"
    BY Zenon
  <2> QED BY <2>1 DEF validate_request_target, validate_target_form
<1>4. ~AbsoluteForm(t)
  BY <1>2, <1>3 DEF AuthorityForm, AbsoluteForm
<1> QED BY <1>1, <1>4 DEF find_absolute_authority

\* A cached authority is bytes of the target.
LEMMA AuthorityBytes ==
    ASSUME NEW h, Whole(h), h.authority_at # NoRange
    PROVE  authority(h) \in Bytes
<1> DEFINE t == h.target
           r == h.authority_at
<1>1. t \in Bytes /\ InAuthority(t, r)
  BY AuthorityFound DEF Whole
<1>2. authority(h) = Slice(t, r.start, r.end)
  BY DEF authority
<1> DEFINE s == r.start
           e == r.end
<1>3. s \in Nat /\ e \in Nat /\ s <= e /\ e <= Len(t)
  BY <1>1 DEF InAuthority
<1> HIDE DEF s, e, t
<1>4. Slice(t, s, e) \in Bytes
  BY <1>1, <1>3, SliceIs
<1> QED BY <1>2, <1>4 DEF s, e, t

\* The target's name and Host's, when there is one.
LEMMA NamedTwice ==
    ASSUME NEW a \in Bytes, parse_authority(a) # NoAuthority, NEW H \in Seq(Bytes), Len(H) <= 1,
           NEW default,
           H # <<>> => /\ H[1] # <<>> /\ parse_authority(H[1]) # NoAuthority
                       /\ to_lower(parse_authority(H[1]).host) = to_lower(parse_authority(a).host)
                       /\ IF parse_authority(H[1]).port = None
                          THEN NameOf(a, default).port = default
                          ELSE parse_authority(H[1]).port = NameOf(a, default).port
    PROVE  SameName({a} \cup ToSet(H), default)
<1> DEFINE x == NameOf(a, default)
<1>1. NamesIn(a, default) = {x}
  BY OneNameIn
<1> HIDE DEF x
<1>2. CASE H = <<>>
  <2>1. ToSet(H) = {}
    BY <1>2 DEF ToSet
  <2> QED BY <1>1, <2>1 DEF SameName
<1>3. CASE H # <<>>
  <2>1. DOMAIN H = {1}
    <3>1. Len(H) \in Nat /\ Len(H) # 0 /\ DOMAIN H = 1..Len(H)
      BY <1>3, EmptySeq
    <3>2. Len(H) = 1
      BY <3>1
    <3> QED BY <3>1, <3>2
  <2>2. ToSet(H) = {H[1]}
    BY <2>1 DEF ToSet
  <2> DEFINE b == H[1]
             port == NameOf(a, default).port
  <2>3. b \in Bytes
    BY <2>1
  <2>4. /\ parse_authority(b) # NoAuthority
        /\ to_lower(parse_authority(b).host) = to_lower(parse_authority(a).host)
        /\ IF parse_authority(b).port = None THEN port = default ELSE parse_authority(b).port = port
    BY <1>3
  <2>5. NameOf(a, default).port = port
    OBVIOUS
  <2> HIDE DEF b, port
  <2>6. NamesIn(a, default) = NamesIn(b, default)
    BY <2>3, <2>4, <2>5, TwoNames
  <2> QED BY <1>1, <2>2, <2>6 DEF SameName, b
<1> QED BY <1>2, <1>3

\* What check_authority accepts: the target's authority and Host name one server.
LEMMA OneNameEach ==
    ASSUME NEW h, Whole(h), validate_request_target(h.target, h.method),
           NEW H, H = all(h, "Host"), H \in Seq(Bytes), Len(H) <= 1,
           check_authority(h) = "none", authority(h) # <<>>
    PROVE  \E default \in Assumable(h) : SameName({authority(h)} \cup ToSet(H), default)
<1> DEFINE a == authority(h)
<1>0. H # <<>> => /\ H[1] \in Bytes /\ (H[1] # <<>> => parse_authority(H[1]) # NoAuthority)
  <2>1. H # <<>> => H[1] \in Bytes
    BY EmptySeq
  <2> QED BY <2>1, HostParses
<1>1. CASE h.method = "CONNECT"
  <2> DEFINE t == parse_authority(a)
             default == IF t.port \in {80, 443} THEN t.port ELSE 80
  <2>1. h.authority_at = NoRange
    BY <1>1, ConnectHasNoRange
  <2>2. a = h.target /\ a \in Bytes
    BY <1>1, <2>1 DEF authority, Whole
  <2>3. t.port # None /\ Reconcile(h, t, {80, 443}) = "none"
    BY <1>1, <2>2 DEF check_authority
  <2> HIDE DEF a
  <2>4. /\ t # NoAuthority
        /\ H # <<>> => /\ H[1] # <<>>
                       /\ to_lower(parse_authority(H[1]).host) = to_lower(t.host)
                       /\ SamePort(parse_authority(H[1]).port, t.port, {80, 443})
    BY <2>3, Reconciled
  <2>5. default \in Assumable(h)
    BY <2>1 DEF Assumable
  <2>6. NameOf(a, default).port = t.port
    BY <2>3 DEF NameOf
  <2>7. H # <<>> => IF parse_authority(H[1]).port = None
                    THEN NameOf(a, default).port = default
                    ELSE parse_authority(H[1]).port = NameOf(a, default).port
    BY <2>4, <2>6 DEF SamePort
  <2> HIDE DEF default
  <2>8. SameName({a} \cup ToSet(H), default)
    BY <1>0, <2>2, <2>4, <2>7, NamedTwice
  <2> QED BY <2>5, <2>8 DEF a
<1>2. CASE h.method # "CONNECT" /\ h.authority_at # NoRange
  <2> DEFINE scheme == to_lower(absolute_scheme(h))
             dp == DefaultPort[scheme[1]]
             p == parse_authority(a)
             t == WithPort(p, dp)
  <2>1. a \in Bytes
    BY <1>2, AuthorityBytes
  <2>2. Reconcile(h, t, {dp}) = "none"
    BY <1>2 DEF check_authority
  <2>3. Assumable(h) = {dp}
    BY <1>2 DEF Assumable
  <2> HIDE DEF a, dp
  <2>4. /\ t # NoAuthority
        /\ H # <<>> => /\ H[1] # <<>>
                       /\ to_lower(parse_authority(H[1]).host) = to_lower(t.host)
                       /\ SamePort(parse_authority(H[1]).port, t.port, {dp})
    BY <2>2, Reconciled
  <2>5. p # NoAuthority
    BY <2>4 DEF WithPort
  <2>6. \E x, y : p = [host |-> x, port |-> y]
    BY <2>5 DEF parse_authority
  <2>7. t.host = p.host /\ t.port = IF p.port = None THEN dp ELSE p.port
    <3> HIDE DEF p
    <3> QED BY <2>5, <2>6 DEF WithPort
  <2>8. NameOf(a, dp).port = t.port
    BY <2>7 DEF NameOf
  <2>9. H # <<>> => IF parse_authority(H[1]).port = None
                    THEN NameOf(a, dp).port = dp
                    ELSE parse_authority(H[1]).port = NameOf(a, dp).port
    BY <2>4, <2>8 DEF SamePort
  <2>10. H # <<>> => to_lower(parse_authority(H[1]).host) = to_lower(p.host)
    BY <2>4, <2>7
  <2>11. SameName({a} \cup ToSet(H), dp)
    <3> HIDE DEF t
    <3> QED BY <1>0, <2>1, <2>4, <2>5, <2>9, <2>10, NamedTwice
  <2> QED BY <2>3, <2>11 DEF a
<1>3. CASE h.method # "CONNECT" /\ h.authority_at = NoRange
  <2>1. H # <<>> /\ a = H[1]
    BY <1>3 DEF authority
  <2>2. a \in Bytes /\ parse_authority(a) # NoAuthority
    BY <1>0, <2>1
  <2>3. Assumable(h) = {80, 443}
    BY <1>3 DEF Assumable
  <2> HIDE DEF a
  <2>4. NameOf(a, 80).port = IF parse_authority(a).port = None THEN 80 ELSE parse_authority(a).port
    BY DEF NameOf
  <2> DEFINE default == 80
  <2>5. IF parse_authority(a).port = None THEN NameOf(a, default).port = default
        ELSE parse_authority(a).port = NameOf(a, default).port
    BY <2>4
  <2>6. default \in Assumable(h)
    BY <2>3
  <2> HIDE DEF default
  <2>7. SameName({a} \cup ToSet(H), default)
    BY <2>1, <2>2, <2>5, NamedTwice DEF a
  <2> QED BY <2>6, <2>7 DEF a
<1> QED BY <1>1, <1>2, <1>3

\* Whoever routes a request that check_authority accepts by Host or by
\* Head::authority, and however it takes either apart, reaches the same host and port.
THEOREM OneAuthorityOnly == BridgeSpec => []OneAuthority
<1>1. HeadOnItsWay => OneAuthority
  <2> SUFFICES ASSUME HeadOnItsWay, stage = "accepted", authority(head) # <<>>
               PROVE  \E default \in Assumable(head) :
                          LET names == [a \in {authority(head)} \cup ToSet(all(head, "Host")) |->
                                            NamesIn(a, default)]
                          IN \A a, b \in DOMAIN names : \A m \in names[a], n \in names[b] : m = n
    BY DEF OneAuthority
  <2> DEFINE h == head
             H == all(h, "Host")
             S == {authority(h)} \cup ToSet(H)
  <2>1. /\ request \in Request /\ h = Made(request) /\ decide(h).error = "none" /\ Whole(h)
        /\ ParseError(request) = "none"
    BY DEF HeadOnItsWay
  <2>2. h.headers \in Seq(Header) /\ h.target = request.target /\ h.method = request.method
    BY <2>1, MadeIsWhole
  <2>3. validate_request_target(h.target, h.method)
    BY <2>1, <2>2 DEF ParseError
  <2>4. H \in Seq(Bytes)
    BY <2>2, ValuesIs DEF all
  <2>5. ~(Len(H) > 1) /\ check_authority(h) = "none"
    <3>1. \A e : Refuse(e).error = e
      BY DEF Refuse
    <3>2. "MissingHost" # "none" /\ "MultipleHost" # "none"
      BY Zenon
    <3> QED BY <2>1, <3>1, <3>2 DEF decide
  <2>6. Len(H) <= 1
    <3>1. Len(H) \in Nat
      BY <2>4
    <3> QED BY <2>5, <3>1
  <2>7. PICK default \in Assumable(h) : SameName(S, default)
    <3> HIDE DEF h
    <3>1. H = all(h, "Host")
      OBVIOUS
    <3>2. authority(h) # <<>>
      BY DEF h
    <3> HIDE DEF H
    <3> QED BY <2>1, <2>3, <2>4, <2>5, <2>6, <3>1, <3>2, OneNameEach
  <2>8. PICK x : \A a \in S : NamesIn(a, default) = {x}
    BY <2>7 DEF SameName
  <2> HIDE DEF S
  <2>9. LET names == [a \in S |-> NamesIn(a, default)]
        IN \A a, b \in DOMAIN names : \A m \in names[a], n \in names[b] : m = n
    BY <2>8
  <2> QED BY <2>7, <2>9 DEF S, h, H
<1> QED BY <1>1, OnItsWay, PTL

-----------------------------------------------------------------------------
(* Every spelling is understood.                                           *)

\* A number that fits is read as what it says.
LEMMA ParseNumeral ==
    ASSUME NEW e, Numeral(e), e # <<>>, PortValue(e) <= U64Max
    PROVE  parse_content_length(e) = PortValue(e)
<1> DEFINE n == Len(e)
<1>1. n \in Nat /\ DOMAIN e = 1..n /\ e \in Bytes /\ U64Max \in Nat
  BY FramingAssumption DEF Numeral, Bytes
<1>2. \A i \in 1..n : is_ascii_digit(e[i])
  BY <1>1 DEF Numeral
<1>3. PICK c : /\ c[0] = 0 /\ \A i \in 1..n : c[i] = Added(c[i - 1], e[i])
               /\ parse_content_length(e) = c[n]
  BY <1>1, ParseSteps
<1>4. PICK f \in [0..n -> Nat] :
           /\ f[0] = 0 /\ \A i \in 1..n : f[i] = f[i - 1] * 10 + Digit[e[i]]
           /\ PortValue(e) = f[n]
  BY PortValueIs
<1> HIDE DEF n
<1>5. \A i \in 1..n : Digit[e[i]] \in Nat
  BY <1>2, DigitIs
<1> DEFINE S == {k \in Nat : k <= n => f[n - k] <= f[n]}
<1>6. Nat \subseteq S
  <2>0. \A i \in 0..n : f[i] \in Nat
    BY <1>4
  <2>1. 0 \in S
    <3>1. n - 0 = n /\ f[n] \in Nat
      BY <1>1, <2>0
    <3> QED BY <3>1
  <2>2. ASSUME NEW k \in Nat, k \in S PROVE k + 1 \in S
    <3> SUFFICES ASSUME k + 1 <= n PROVE f[n - (k + 1)] <= f[n]
      OBVIOUS
    <3> DEFINE i == n - k
    <3>1. k <= n /\ i \in 1..n /\ i \in 0..n /\ i - 1 \in 0..n /\ n - (k + 1) = i - 1 /\ n \in 0..n
      BY <1>1
    <3>2. f[i] <= f[n]
      BY <2>2, <3>1
    <3> HIDE DEF i
    <3>3. f[i] = f[i - 1] * 10 + Digit[e[i]] /\ Digit[e[i]] \in Nat
      BY <1>4, <1>5, <3>1
    <3>4. f[i] \in Nat /\ f[i - 1] \in Nat /\ f[n] \in Nat
      BY <2>0, <3>1
    <3>5. f[i - 1] <= f[n]
      BY <3>2, <3>3, <3>4
    <3> QED BY <3>1, <3>5
  <2> HIDE DEF S
  <2> QED BY <2>1, <2>2, Induction
<1>7. ASSUME NEW i \in 0..n PROVE f[i] \in Nat /\ f[i] <= U64Max
  <2>1. n - i \in Nat /\ n - i <= n /\ n - (n - i) = i
    BY <1>1
  <2>2. f[i] <= f[n]
    BY <1>6, <2>1
  <2>3. f[i] \in Nat /\ f[n] \in Nat
    BY <1>1, <1>4
  <2> QED BY <1>1, <1>4, <2>2, <2>3
<1>8. ASSUME NEW i \in 1..n, c[i - 1] = f[i - 1] PROVE c[i] = f[i]
  <2>1. i - 1 \in 0..n /\ i \in 0..n
    BY <1>1
  <2> DEFINE x == f[i - 1]
             b == e[i]
             y == x * 10 + Digit[b]
  <2>2. c[i] = Added(x, b) /\ f[i] = y
    BY <1>3, <1>4, <1>8
  <2>3. x # None
    BY <1>7, <2>1 DEF None
  <2>4. y \in Nat /\ y <= U64Max
    BY <1>7, <2>1, <2>2
  <2>5. ~(y > U64Max)
    <3> HIDE DEF y
    <3> QED BY <1>1, <2>4
  <2>6. is_ascii_digit(b)
    BY <1>2
  <2>7. Added(x, b) = y
    BY <2>3, <2>5, <2>6 DEF Added
  <2> QED BY <2>2, <2>7
<1>9. Together(n, c, f)
  BY <1>3, <1>4, <1>8 DEF Together
<1>10. n \in 0..n
  BY <1>1
<1>11. c[n] = f[n]
  BY <1>1, <1>9, <1>10, AgreeUpto
<1> QED BY <1>3, <1>4, <1>11

\* A number that fits, however often it is written, is the length.
LEMMA SpelledLength ==
    ASSUME NEW vs \in Seq(Bytes), vs # <<>>, NEW n \in Nat, n <= MaxBody, n <= U64Max,
           \A e \in ToSet(AllElements(vs)) : IsNumber(e) /\ PortValue(e) = n
    PROVE  ContentLength(vs) = Kind("Length", n)
<1> DEFINE es == AllElements(vs)
           lens == [i \in DOMAIN es |-> parse_content_length(es[i])]
           wrong == {i \in DOMAIN lens : lens[i] = None \/ lens[i] # lens[1]}
<1>1. 1 \in DOMAIN es /\ \A i \in DOMAIN es : es[i] \in Bytes
  <2>1. /\ Len(es) \in Nat /\ 1 <= Len(es) /\ DOMAIN es = 1..Len(es)
        /\ \A i \in 1..Len(es) : es[i] \in Bytes
    BY SomeElement
  <2> HIDE DEF es
  <2> QED BY <2>1
<1>2. \A i \in DOMAIN es : IsNumber(es[i]) /\ PortValue(es[i]) = n
  BY DEF ToSet
<1>a. ContentLength(vs) =
          IF wrong = {} THEN Limited(lens[1])
          ELSE IF lens[CHOOSE i \in wrong : \A j \in wrong : i <= j] = None
          THEN Refuse("InvalidContentLength") ELSE Refuse("DuplicateContentLength")
  BY DEF ContentLength
<1> HIDE DEF es
<1>3. ASSUME NEW i \in DOMAIN es PROVE parse_content_length(es[i]) = n
  <2>1. Numeral(es[i]) /\ es[i] # <<>>
    BY <1>1, <1>2 DEF Numeral, IsNumber
  <2> QED BY <1>2, <2>1, ParseNumeral
<1>4. n # None
  BY DEF None
<1>5. lens[1] = n /\ \A i \in DOMAIN es : lens[i] = n
  BY <1>1, <1>3
<1>6. wrong = {}
  BY <1>4, <1>5
<1>7. ContentLength(vs) = Limited(n)
  BY <1>a, <1>5, <1>6
<1>8. ~(n > MaxBody)
  BY FramingAssumption
<1> QED BY <1>7, <1>8 DEF Limited

\* `chunked`, in whatever case and among empty elements, is the coding.
LEMMA SpelledChunked ==
    ASSUME NEW vs \in Seq(Bytes), vs # <<>>, \A i \in DOMAIN vs : ~Contains(vs[i], "u"),
           NEW k \in DOMAIN AllElements(vs), to_lower(AllElements(vs)[k]) = <<"chunked">>,
           \A j \in DOMAIN AllElements(vs) \ {k} : AllElements(vs)[j] = <<>>
    PROVE  TransferEncoding(vs) = Kind("Chunked", 0)
<1> DEFINE es == AllElements(vs)
           codings == {i \in DOMAIN es : es[i] # <<>>}
           chunked == {i \in codings : IsChunked(es[i])}
           final == CHOOSE i \in codings : \A j \in codings : j <= i
<1>1. TransferEncoding(vs) =
          IF \E i \in DOMAIN vs : Contains(vs[i], "u") THEN Refuse("ChunkedNotFinal")
          ELSE IF chunked = {} THEN Refuse("UnsupportedTransferEncoding")
          ELSE IF chunked # {final} THEN Refuse("ChunkedNotFinal")
          ELSE IF codings = chunked THEN Kind("Chunked", 0)
          ELSE Refuse("UnsupportedTransferEncoding")
  BY DEF TransferEncoding
<1>2. k \in Nat
  BY SomeElement
<1>3. to_lower(<<"chunked">>) = <<"chunked">>
  <2> DEFINE c == <<"chunked">>
  <2>1. "chunked" \notin DOMAIN Lowered
    BY DEF Lowered
  <2>2. DOMAIN c = {1} /\ c[1] = "chunked"
    OBVIOUS
  <2>3. to_lower(c) = [i \in {1} |-> "chunked"]
    BY <2>1, <2>2 DEF to_lower
  <2>4. c = [i \in {1} |-> "chunked"]
    OBVIOUS
  <2> QED BY <2>3, <2>4
<1>4. k \in DOMAIN es /\ IsChunked(es[k]) /\ \A j \in DOMAIN es : j # k => es[j] = <<>>
  BY <1>3 DEF IsChunked, eq_ignore_ascii_case
<1>5. es[k] # <<>>
  <2>1. to_lower(<<>>) # <<"chunked">>
    BY DEF to_lower
  <2> QED BY <2>1
<1> HIDE DEF es
<1>6. codings = {k}
  BY <1>4, <1>5
<1>7. chunked = {k}
  BY <1>4, <1>6
<1>8. final = k
  <2> HIDE DEF codings
  <2>1. \E i \in codings : \A j \in codings : j <= i
    BY <1>2, <1>6
  <2> QED BY <1>6, <2>1
<1> HIDE DEF codings, chunked, final
<1>9. chunked # {} /\ chunked = {final} /\ codings = chunked
  BY <1>6, <1>7, <1>8
<1> QED BY <1>1, <1>9

\* parse and decide make of a request that spells v the verdict v.
LEMMA DecidedAsSpelled ==
    ASSUME NEW r \in Request, NEW v, Spells(r, v)
    PROVE  ParseError(r) = "none" /\ decide(Made(r)) = v /\ v.error = "none"
<1> DEFINE h == Made(r)
           L == all(h, "ContentLength")
           C == all(h, "TransferEncoding")
           es == AllElements(C)
<1>1. /\ Len(r.region) <= MaxHead /\ Len(r.headers) <= MaxHeaders
      /\ prescan(r.region) = "none" /\ validate_request_target(r.target, r.method)
      /\ Len(all(h, "Host")) = 1 /\ check_authority(h) = "none"
      /\ \/ v = Kind("None", 0) /\ L = <<>> /\ C = <<>>
         \/ /\ L # <<>> /\ C = <<>>
            /\ \E n \in 0..MaxBody :
                   /\ n <= U64Max /\ v = Kind("Length", n)
                   /\ \A e \in ToSet(AllElements(L)) : IsNumber(e) /\ PortValue(e) = n
         \/ /\ v = Kind("Chunked", 0) /\ L = <<>> /\ C # <<>> /\ r.version # "1.0"
            /\ \A i \in DOMAIN C : ~Contains(C[i], "u")
            /\ \E i \in DOMAIN es : /\ to_lower(es[i]) = <<"chunked">>
                                    /\ \A j \in DOMAIN es \ {i} : es[j] = <<>>
  BY DEF Spells, Made
<1>2. h.headers \in Seq(Header) /\ h.version = r.version
  BY MadeIsWhole DEF Made, HeadNew
<1>3. L \in Seq(Bytes) /\ C \in Seq(Bytes)
  BY <1>2, ValuesIs DEF all
<1>4. ParseError(r) = "none"
  <2> DEFINE n == Len(r.headers)
  <2>1. n \in Nat /\ Len(r.region) \in Nat
    <3>1. r.headers \in Seq(Header) /\ r.region \in Seq(STRING)
      BY RequestBytes DEF Request
    <3> QED BY <3>1
  <2>2. /\ MaxHead \in Nat /\ MaxHeaders \in 0..MAX_HEADERS_CEILING /\ MAX_HEADERS_CEILING \in Nat
        /\ HEADER_SCRATCH_TIER1 \in Nat
    BY FramingAssumption
  <2>3. ~(n > MaxHeaders) /\ ~(Len(r.region) > MaxHead)
    BY <1>1, <2>1, <2>2
  <2>4. Tokenized(n)
    BY <1>1, <2>1, <2>2 DEF Tokenized
  <2> QED BY <1>1, <2>3, <2>4 DEF ParseError
<1> HIDE DEF h, L, C
<1>5. decide(h) = BodyKind(r.version, L, C)
  <2>1. Len(all(h, "Host")) # 0 /\ ~(Len(all(h, "Host")) > 1)
    <3> DEFINE k == Len(all(h, "Host"))
    <3>1. k = 1
      BY <1>1
    <3> HIDE DEF k
    <3>2. k # 0 /\ ~(k > 1)
      BY <3>1
    <3> QED BY <3>2 DEF k
  <2> QED BY <1>1, <1>2, <2>1 DEF decide, L, C
<1>6. CASE v = Kind("None", 0) /\ L = <<>> /\ C = <<>>
  BY <1>4, <1>5, <1>6 DEF BodyKind, Kind, h
<1>7. ASSUME NEW n \in 0..MaxBody, L # <<>>, C = <<>>, n <= U64Max, v = Kind("Length", n),
             \A e \in ToSet(AllElements(L)) : IsNumber(e) /\ PortValue(e) = n
      PROVE  ParseError(r) = "none" /\ decide(Made(r)) = v /\ v.error = "none"
  <2>1. n \in Nat /\ n <= MaxBody
    BY FramingAssumption
  <2>2. ContentLength(L) = v
    BY <1>3, <1>7, <2>1, SpelledLength
  <2>3. v.error = "none"
    BY <1>7 DEF Kind
  <2>4. BodyKind(r.version, L, C) = ContentLength(L)
    BY <1>7 DEF BodyKind
  <2> QED BY <1>4, <1>5, <2>2, <2>3, <2>4 DEF h
<1>8. CASE /\ v = Kind("Chunked", 0) /\ L = <<>> /\ C # <<>> /\ r.version # "1.0"
           /\ \A i \in DOMAIN C : ~Contains(C[i], "u")
           /\ \E i \in DOMAIN es : /\ to_lower(es[i]) = <<"chunked">>
                                   /\ \A j \in DOMAIN es \ {i} : es[j] = <<>>
  <2>1. TransferEncoding(C) = v
    BY <1>3, <1>8, SpelledChunked
  <2>2. v.error = "none"
    BY <1>8 DEF Kind
  <2>3. BodyKind(r.version, L, C) = TransferEncoding(C)
    BY <1>8 DEF BodyKind
  <2> QED BY <1>4, <1>5, <2>1, <2>2, <2>3 DEF h
<1> QED BY <1>1, <1>6, <1>7, <1>8

\* The requests that a test means something by spell what it means.
WellSpelled == \A r \in DOMAIN Meant : Spells(r, Meant[r])

\* Every way to spell a body's length or `chunked` that Spells admits is accepted and
\* decided as it is meant.
THEOREM SpellingsUnderstood == WellSpelled => (BridgeSpec => []UnderstoodAsMeant)
<1> SUFFICES ASSUME WellSpelled PROVE BridgeSpec => []UnderstoodAsMeant
  OBVIOUS
<1>1. HeadOnItsWay => UnderstoodAsMeant
  <2> SUFFICES ASSUME HeadOnItsWay, stage \in {"accepted", "refused"}, request \in DOMAIN Meant
               PROVE  verdict = Meant[request]
    BY DEF UnderstoodAsMeant
  <2>1. request \in Request
    BY DEF HeadOnItsWay
  <2>2. ParseError(request) = "none" /\ decide(Made(request)) = Meant[request]
    BY <2>1, DecidedAsSpelled DEF WellSpelled
  <2>3. verdict = decide(Made(request))
    BY <2>2 DEF HeadOnItsWay
  <2> QED BY <2>2, <2>3
<1> QED BY <1>1, OnItsWay, PTL

-----------------------------------------------------------------------------
(* The two backends.                                                       *)

\* A value that is no list.
NoComma(s) == \A i \in DOMAIN s : ~IsComma(s[i])

\* Byte by byte.
LEMMA NoCommaAppend ==
    ASSUME NEW s \in Seq(Byte), NEW x \in Byte, NoComma(Append(s, x))
    PROVE  NoComma(s) /\ ~IsComma(x)
<1> DEFINE n == Len(s)
           a == Append(s, x)
<1>1. /\ n \in Nat /\ DOMAIN s = 1..n /\ DOMAIN a = 1..(n + 1)
      /\ a[n + 1] = x /\ \A i \in 1..n : a[i] = s[i]
  OBVIOUS
<1>2. \A i \in DOMAIN a : ~IsComma(a[i])
  BY DEF NoComma
<1> HIDE DEF n, a
<1>3. n + 1 \in DOMAIN a /\ \A i \in DOMAIN s : i \in DOMAIN a
  BY <1>1
<1> QED BY <1>1, <1>2, <1>3 DEF NoComma

\* Without a comma there is one part.
LEMMA OnePart ==
    ASSUME NEW v \in Bytes, NoComma(v)
    PROVE  Parts(v) = <<v>> /\ Elements(v) = <<trim_ows(v)>>
<1> DEFINE S == {s \in Bytes : NoComma(s) => Parts(s) = <<s>>}
<1>1. <<>> \in S
  <2>1. <<>> \in Bytes
    BY DEF Bytes
  <2> QED BY <2>1, PartsIs
<1>2. ASSUME NEW s \in Seq(Byte), NEW x \in Byte PROVE s \in S => Append(s, x) \in S
  <2>1. Append(s, x) \in Bytes
    BY DEF Bytes
  <2>2. ASSUME s \in S, NoComma(Append(s, x)) PROVE Parts(Append(s, x)) = <<Append(s, x)>>
    <3>1. NoComma(s) /\ ~IsComma(x)
      BY <2>2, NoCommaAppend
    <3>2. <<s>> = Parts(s)
      BY <2>2, <3>1
    <3>3. \A y : y = Parts(s) => Parts(Append(s, x)) =
              IF x = "," THEN Append(y, <<>>) ELSE [y EXCEPT ![Len(y)] = Append(y[Len(y)], x)]
      BY PartsIs
    <3> DEFINE y == <<s>>
               z == Append(s, x)
    <3>4. Parts(Append(s, x)) =
              IF x = "," THEN Append(y, <<>>) ELSE [y EXCEPT ![Len(y)] = Append(y[Len(y)], x)]
      BY <3>2, <3>3
    <3>5. Parts(Append(s, x)) = [y EXCEPT ![Len(y)] = Append(y[Len(y)], x)]
      BY <3>1, <3>4 DEF IsComma
    <3>6. Len(y) = 1 /\ y[1] = s
      OBVIOUS
    <3>7. Parts(Append(s, x)) = [y EXCEPT ![1] = z]
      BY <3>5, <3>6
    <3> HIDE DEF z
    <3>8. [y EXCEPT ![1] = z] = <<z>>
      OBVIOUS
    <3> QED BY <3>7, <3>8 DEF z
  <2> QED BY <2>1, <2>2
<1>3. Seq(Byte) \subseteq S
  <2> HIDE DEF S
  <2> QED BY <1>1, <1>2, SeqInduction
<1>4. Parts(v) = <<v>>
  BY <1>3 DEF Bytes
<1>5. Elements(v) = [i \in DOMAIN <<v>> |-> trim_ows(<<v>>[i])]
  BY <1>4 DEF Elements
<1> DEFINE t == trim_ows(v)
<1> HIDE DEF t
<1>6. DOMAIN <<v>> = {1} /\ <<v>>[1] = v
  OBVIOUS
<1>7. Elements(v) = [i \in {1} |-> t]
  BY <1>5, <1>6 DEF t
<1>8. [i \in {1} |-> t] = <<t>>
  OBVIOUS
<1> QED BY <1>4, <1>7, <1>8 DEF t

\* The blank.
IsBlank(b) == b = " "

\* Trimming loses only blanks.
LEMMA TrimKeeps ==
    ASSUME NEW v \in Bytes, NEW i \in DOMAIN v, ~IsBlank(v[i])
    PROVE  \E j \in DOMAIN trim_ows(v) : trim_ows(v)[j] = v[i]
<1> DEFINE kept == {k \in DOMAIN v : ~IsBlank(v[k])}
           lo == CHOOSE k \in kept : \A j \in kept : k <= j
           hi == CHOOSE k \in kept : \A j \in kept : k >= j
           n == Len(v)
<1>1. n \in Nat /\ DOMAIN v = 1..n
  BY DEF Bytes
<1>2. kept # {} /\ i \in kept /\ kept \subseteq 1..n
  BY <1>1
<1>3. trim_ows(v) = SubSeq(v, lo, hi)
  BY <1>2 DEF trim_ows, IsBlank
<1> HIDE DEF kept, n
<1>4. lo \in kept /\ \A j \in kept : lo <= j
  <2>1. kept \subseteq Nat
    BY <1>1, <1>2
  <2>2. \E k \in kept : \A j \in kept : k <= j
    BY <1>2, <2>1, Least
  <2> QED BY <2>2
<1>5. hi \in kept /\ \A j \in kept : hi >= j
  <2>1. kept \subseteq 0..n
    BY <1>1, <1>2
  <2>2. \E k \in kept : \A j \in kept : j <= k
    BY <1>1, <1>2, <2>1, Greatest
  <2>3. \E k \in kept : \A j \in kept : k >= j
    BY <2>1, <2>2
  <2> QED BY <2>3
<1> HIDE DEF lo, hi
<1>6. lo \in 1..n /\ hi \in 1..n /\ lo <= i /\ i <= hi /\ i \in 1..n
  BY <1>2, <1>4, <1>5
<1>7. SubSeq(v, lo, hi) = [k \in 1..(hi - lo + 1) |-> v[lo + k - 1]]
  BY <1>6 DEF n, Bytes
<1> DEFINE j == i - lo + 1
<1>8. j \in 1..(hi - lo + 1) /\ lo + j - 1 = i
  BY <1>1, <1>6
<1> HIDE DEF j
<1>9. SubSeq(v, lo, hi)[j] = v[i] /\ j \in DOMAIN SubSeq(v, lo, hi)
  BY <1>7, <1>8
<1> QED BY <1>3, <1>9

\* A value that Rust parses, where every element is a number.
LEMMA BareParses ==
    ASSUME NEW v \in Bytes, parse_content_length(Bare(v)) # None, NEW n,
           \A i \in DOMAIN Elements(v) : Numeral(Elements(v)[i]) /\ Elements(v)[i] # <<>>
                                         /\ PortValue(Elements(v)[i]) = n
    PROVE  parse_content_length(Bare(v)) = n
<1> DEFINE t == trim_ows(v)
           b == Bare(v)
<1>1. t \in Bytes
  BY TrimTyped
<1>2. b \in Bytes /\ \A j \in DOMAIN t : (\E k \in DOMAIN b : t[j] = b[k]) \/ t[j] = "+"
  <2>1. CASE t # <<>> /\ t[1] = "+"
    <3>1. b = Tail(t)
      BY <2>1 DEF Bare
    <3>2. /\ Tail(t) \in Seq(Byte) /\ Len(Tail(t)) = Len(t) - 1
          /\ \A k \in 1..(Len(t) - 1) : Tail(t)[k] = t[k + 1]
      <4>1. t \in Seq(Byte) /\ t # <<>>
        BY <1>1, <2>1 DEF Bytes
      <4> HIDE DEF t
      <4> QED BY <4>1, HeadTailProperties
    <3>3. t[1] = "+"
      BY <2>1
    <3> HIDE DEF t, b
    <3>4. Len(t) \in Nat /\ DOMAIN t = 1..Len(t)
      BY <1>1 DEF Bytes
    <3>5. b \in Bytes /\ DOMAIN b = 1..(Len(t) - 1)
      BY <3>1, <3>2 DEF Bytes
    <3>6. ASSUME NEW j \in DOMAIN t, j # 1 PROVE \E k \in DOMAIN b : t[j] = b[k]
      <4>1. j - 1 \in 1..(Len(t) - 1) /\ (j - 1) + 1 = j
        BY <3>4, <3>6
      <4>2. b[j - 1] = t[j]
        BY <3>1, <3>2, <4>1
      <4> QED BY <3>5, <4>1, <4>2
    <3> QED BY <3>3, <3>5, <3>6
  <2>2. CASE ~(t # <<>> /\ t[1] = "+")
    <3>1. b = t
      BY <2>2 DEF Bare
    <3> QED BY <1>1, <3>1
  <2> QED BY <2>1, <2>2
<1> HIDE DEF t, b
<1>3. Numeral(b)
  BY <1>2, ParseIs DEF b
<1>4. \A k \in DOMAIN b : ~IsComma(b[k])
  <2>1. \A d \in DecimalDigits : ~IsComma(d)
    BY Zenon DEF DecimalDigits, IsComma
  <2> QED BY <1>3, <2>1, DigitSymbol DEF Numeral
<1>5. \A j \in DOMAIN t : ~IsComma(t[j])
  <2>1. ~IsComma("+")
    BY Zenon DEF IsComma
  <2> QED BY <1>2, <1>4, <2>1
<1>6. NoComma(v)
  <2>1. ASSUME NEW i \in DOMAIN v, IsComma(v[i]) PROVE FALSE
    <3>1. ~IsBlank(v[i])
      <4>1. \A x : IsComma(x) => ~IsBlank(x)
        BY Zenon DEF IsComma, IsBlank
      <4> QED BY <2>1, <4>1
    <3>2. PICK j \in DOMAIN t : t[j] = v[i]
      BY <3>1, TrimKeeps DEF t
    <3> QED BY <1>5, <2>1, <3>2
  <2> QED BY <2>1 DEF NoComma
<1>7. Elements(v) = <<t>>
  BY <1>6, OnePart DEF t
<1>8. Numeral(t) /\ t # <<>> /\ PortValue(t) = n
  <2>1. DOMAIN <<t>> = {1} /\ <<t>>[1] = t
    OBVIOUS
  <2> QED BY <1>7, <2>1
<1>9. t[1] # "+"
  <2>1. 1 \in DOMAIN t
    BY <1>1, <1>8 DEF Bytes
  <2>2. Plain(t)
    BY <1>8, NumeralPlain
  <2>3. Stays(t[1])
    BY <2>1, <2>2 DEF Plain
  <2> QED BY <2>3 DEF Stays
<1>10. b = t
  BY <1>9 DEF b, Bare, t
<1> QED BY <1>1, <1>8, <1>10, ParseIs DEF b

\* Every field's value is among the values of its name.
LEMMA ValueOfField ==
    ASSUME NEW id, NEW hs \in Seq(Header), NEW i \in DOMAIN hs, hs[i].id = id
    PROVE  \E k \in DOMAIN Values(hs, id) : Values(hs, id)[k] = hs[i].value
<1> DEFINE V(s) == Values(s, id)
           Has(s, v) == \E k \in DOMAIN V(s) : V(s)[k] = v
           S == {s \in Seq(Header) : \A j \in DOMAIN s : s[j].id = id => Has(s, s[j].value)}
<1>0. /\ \A x \in Seq(Header) : V(x) \in Seq(Bytes)
      /\ \A x \in Seq(Header), h \in Header :
             V(Append(x, h)) = IF h.id = id THEN Append(V(x), h.value) ELSE V(x)
  BY ValuesIs
<1> HIDE DEF V
<1>1. <<>> \in S
  OBVIOUS
<1>2. ASSUME NEW s \in Seq(Header), NEW h \in Header PROVE s \in S => Append(s, h) \in S
  <2> DEFINE n == Len(s)
             a == Append(s, h)
  <2>1. /\ n \in Nat /\ DOMAIN s = 1..n /\ DOMAIN a = 1..(n + 1) /\ a \in Seq(Header)
        /\ a[n + 1] = h /\ \A j \in 1..n : a[j] = s[j]
    OBVIOUS
  <2>2. h.value \in Bytes /\ V(s) \in Seq(Bytes)
    BY <1>0 DEF Header
  <2>3. V(a) = IF h.id = id THEN Append(V(s), h.value) ELSE V(s)
    BY <1>0
  <2> HIDE DEF a, n
  <2>4. ASSUME NEW v, Has(s, v) PROVE Has(a, v)
    <3>1. PICK k \in DOMAIN V(s) : V(s)[k] = v
      BY <2>4
    <3>2. CASE h.id = id
      <4> DEFINE p == V(s)
                 y == h.value
                 q == Append(p, y)
      <4>1. p \in Seq(Bytes) /\ y \in Bytes /\ k \in DOMAIN p
        BY <2>2
      <4> HIDE DEF p, y
      <4>2. k \in DOMAIN q /\ q[k] = p[k]
        BY <4>1
      <4> QED BY <2>3, <3>1, <3>2, <4>2 DEF p, y
    <3>3. CASE h.id # id
      BY <2>3, <3>1, <3>3
    <3> QED BY <3>2, <3>3
  <2>5. ASSUME h.id = id PROVE Has(a, h.value)
    <3> DEFINE p == V(s)
               y == h.value
               q == Append(p, y)
    <3>1. p \in Seq(Bytes) /\ y \in Bytes
      BY <2>2
    <3> HIDE DEF p, y
    <3>2. Len(p) + 1 \in DOMAIN q /\ q[Len(p) + 1] = y
      BY <3>1
    <3> QED BY <2>3, <2>5, <3>2 DEF p, y
  <2> HIDE DEF Has
  <2>6. ASSUME s \in S, NEW j \in DOMAIN a, a[j].id = id PROVE Has(a, a[j].value)
    <3>1. CASE j = n + 1
      BY <2>1, <2>5, <2>6, <3>1
    <3>2. CASE j # n + 1
      <4>1. j \in DOMAIN s /\ a[j] = s[j]
        BY <2>1, <3>2
      <4>2. Has(s, s[j].value)
        BY <2>6, <4>1
      <4> QED BY <2>4, <4>1, <4>2
    <3> QED BY <3>1, <3>2
  <2> QED BY <2>1, <2>6 DEF a
<1>3. Seq(Header) \subseteq S
  <2> HIDE DEF S
  <2> QED BY <1>1, <1>2, SeqInduction
<1> QED BY <1>3 DEF V

\* Every element of a value is among all the elements.
LEMMA ElementOfValue ==
    ASSUME NEW vs \in Seq(Bytes), NEW k \in DOMAIN vs, NEW i \in DOMAIN Elements(vs[k])
    PROVE  \E j \in DOMAIN AllElements(vs) : AllElements(vs)[j] = Elements(vs[k])[i]
<1> DEFINE Has(s, e) == \E j \in DOMAIN AllElements(s) : AllElements(s)[j] = e
           S == {s \in Seq(Bytes) : \A j \in DOMAIN s : \A l \in DOMAIN Elements(s[j]) :
                                        Has(s, Elements(s[j])[l])}
<1>1. <<>> \in S
  OBVIOUS
<1>2. ASSUME NEW s \in Seq(Bytes), NEW v \in Bytes PROVE s \in S => Append(s, v) \in S
  <2> DEFINE n == Len(s)
             a == Append(s, v)
             p == AllElements(s)
             q == Elements(v)
             r == AllElements(a)
  <2>1. /\ n \in Nat /\ DOMAIN s = 1..n /\ DOMAIN a = 1..(n + 1) /\ a \in Seq(Bytes)
        /\ a[n + 1] = v /\ \A j \in 1..n : a[j] = s[j]
    OBVIOUS
  <2>2. p \in Seq(Bytes) /\ q \in Seq(Bytes) /\ r = p \o q
    BY AllElementsIs, ElementsTyped
  <2> HIDE DEF a, n
  <2>3. /\ \A j \in DOMAIN p : j \in DOMAIN r /\ r[j] = p[j]
        /\ \A j \in DOMAIN q : Len(p) + j \in DOMAIN r /\ r[Len(p) + j] = q[j]
    <3> HIDE DEF p, q, r
    <3>1. /\ Len(p) \in Nat /\ Len(q) \in Nat /\ DOMAIN p = 1..Len(p) /\ DOMAIN q = 1..Len(q)
      BY <2>2
    <3>2. /\ r \in Seq(Bytes) /\ Len(r) = Len(p) + Len(q)
          /\ \A j \in 1..(Len(p) + Len(q)) : r[j] = IF j <= Len(p) THEN p[j] ELSE q[j - Len(p)]
      BY <2>2, ConcatProperties
    <3>3. DOMAIN r = 1..(Len(p) + Len(q))
      BY <3>2
    <3> DEFINE x == Len(p)
               y == Len(q)
    <3>4. /\ x \in Nat /\ y \in Nat /\ DOMAIN p = 1..x /\ DOMAIN q = 1..y /\ DOMAIN r = 1..(x + y)
          /\ \A j \in 1..(x + y) : r[j] = IF j <= x THEN p[j] ELSE q[j - x]
      BY <3>1, <3>2, <3>3
    <3> HIDE DEF x, y
    <3>5. \A j \in 1..x : j \in 1..(x + y) /\ j <= x
      BY <3>4
    <3>6. \A j \in 1..y : x + j \in 1..(x + y) /\ ~(x + j <= x) /\ (x + j) - x = j
      BY <3>4
    <3>7. \A j \in 1..y : r[x + j] = q[(x + j) - x]
      BY <3>4, <3>6
    <3>8. \A j \in 1..y : r[x + j] = q[j]
      BY <3>6, <3>7
    <3> QED BY <3>4, <3>5, <3>6, <3>8 DEF x
  <2>4. \A e : Has(s, e) => Has(a, e)
    BY <2>3
  <2>5. \A l \in DOMAIN q : Has(a, q[l])
    BY <2>3
  <2> HIDE DEF Has, p, r
  <2>6. ASSUME s \in S, NEW j \in DOMAIN a, NEW l \in DOMAIN Elements(a[j])
        PROVE  Has(a, Elements(a[j])[l])
    <3>1. CASE j = n + 1
      BY <2>1, <2>5, <2>6, <3>1
    <3>2. CASE j # n + 1
      <4>1. j \in DOMAIN s /\ a[j] = s[j]
        BY <2>1, <3>2
      <4>2. Has(s, Elements(s[j])[l])
        BY <2>6, <4>1
      <4> QED BY <2>4, <4>1, <4>2
    <3> QED BY <3>1, <3>2
  <2> QED BY <2>1, <2>6 DEF a
<1>3. Seq(Bytes) \subseteq S
  <2> HIDE DEF S
  <2> QED BY <1>1, <1>2, SeqInduction
<1> QED BY <1>3

\* What Rust would make of a Content-Length of a request that decide accepts
\* is no more than the limit.
LEMMA DeclaredFits ==
    ASSUME NEW h, h.headers \in Seq(Header), decide(h).error = "none"
    PROVE  ~(DeclaredLen(h.headers) > MaxBody)
<1> DEFINE hs == h.headers
           L == all(h, "ContentLength")
           C == all(h, "TransferEncoding")
           lens == {i \in DOMAIN hs : /\ hs[i].id = "ContentLength"
                                      /\ parse_content_length(Bare(hs[i].value)) # None}
           last == CHOOSE i \in lens : \A j \in lens : j <= i
<1>0. MaxBody \in Nat
  BY FramingAssumption
<1>1. DeclaredLen(hs) = IF lens = {} THEN None ELSE parse_content_length(Bare(hs[last].value))
  BY DEF DeclaredLen
<1>2. CASE lens = {}
  BY <1>0, <1>1, <1>2 DEF None
<1>3. CASE lens # {}
  <2>1. last \in lens
    <3>1. lens \subseteq 0..Len(hs) /\ Len(hs) \in Nat
      OBVIOUS
    <3> HIDE DEF lens
    <3>2. \E i \in lens : \A j \in lens : j <= i
      BY <1>3, <3>1, Greatest
    <3> QED BY <3>2
  <2> DEFINE v == hs[last].value
  <2> HIDE DEF last
  <2>2. last \in DOMAIN hs /\ hs[last].id = "ContentLength" /\ parse_content_length(Bare(v)) # None
    BY <2>1
  <2>3. v \in Bytes
    <3>1. hs[last] \in Header
      BY <2>2
    <3> QED BY <3>1 DEF Header
  <2>4. PICK k \in DOMAIN L : L[k] = v
    BY <2>2, ValueOfField DEF all
  <2>5. L \in Seq(Bytes) /\ L # <<>> /\ decide(h) = ContentLength(L) /\ ContentLength(L).error = "none"
    <3>1. /\ L \in Seq(Bytes) /\ C \in Seq(Bytes)
          /\ \/ L = <<>> /\ C = <<>> /\ decide(h) = Kind("None", 0)
             \/ /\ L = <<>> /\ C # <<>> /\ h.version # "1.0"
                /\ decide(h) = TransferEncoding(C) /\ TransferEncoding(C).error = "none"
             \/ /\ L # <<>> /\ C = <<>> /\ decide(h) = ContentLength(L)
                /\ ContentLength(L).error = "none"
      BY AcceptedKinds
    <3>2. L # <<>>
      BY <2>4
    <3> QED BY <3>1, <3>2
  <2> HIDE DEF L, C, v, hs
  <2> DEFINE es == AllElements(L)
  <2>6. PICK n \in Nat : /\ ContentLength(L) = Limited(n)
                         /\ \A i \in DOMAIN es : /\ Numeral(es[i]) /\ es[i] # <<>>
                                                 /\ PortValue(es[i]) = n
    <3>1. \A e \in {"InvalidContentLength", "DuplicateContentLength"} : Refuse(e).error # "none"
      BY DEF Refuse
    <3> QED BY <2>5, <3>1, LengthIs
  <2>7. n <= MaxBody
    <3>1. Refuse("BodyTooLarge").error # "none"
      BY DEF Refuse
    <3>2. ~(n > MaxBody)
      BY <2>5, <2>6, <3>1 DEF Limited
    <3> QED BY <1>0, <3>2
  <2>8. \A i \in DOMAIN Elements(v) : /\ Numeral(Elements(v)[i]) /\ Elements(v)[i] # <<>>
                                      /\ PortValue(Elements(v)[i]) = n
    <3>1. ASSUME NEW i \in DOMAIN Elements(v)
          PROVE  \E j \in DOMAIN es : es[j] = Elements(v)[i]
      BY <2>4, <2>5, ElementOfValue
    <3> QED BY <2>6, <3>1
  <2>9. parse_content_length(Bare(v)) = n
    BY <2>2, <2>3, <2>8, BareParses
  <2>10. DeclaredLen(hs) = n
    BY <1>1, <1>3, <2>9 DEF v
  <2> QED BY <1>0, <2>7, <2>10 DEF hs
<1> QED BY <1>2, <1>3

-----------------------------------------------------------------------------
(* Sequences, mapped element by element.                                   *)

\* What f makes of each element of s, one after another.
FlatMap(s, f) == FlattenSeq([i \in DOMAIN s |-> f[s[i]]])

\* FlatMap, element by element.
OneByOneMap(X, Y, f) ==
    /\ FlatMap(<<>>, f) = <<>>
    /\ \A s \in Seq(X) : FlatMap(s, f) \in Seq(Y)
    /\ \A s \in Seq(X), x \in X : FlatMap(Append(s, x), f) = FlatMap(s, f) \o f[x]

\* So it is made.
LEMMA MapIs ==
    ASSUME NEW X, NEW Y, NEW f \in [X -> Seq(Y)]
    PROVE  OneByOneMap(X, Y, f)
<1> DEFINE M(s) == [i \in DOMAIN s |-> f[s[i]]]
           Z == Seq(Y)
<1>0. \A x \in X : f[x] \in Z
  OBVIOUS
<1> HIDE DEF Z
<1>1. ASSUME NEW s \in Seq(X)
      PROVE  M(s) \in Seq(Z) /\ Len(M(s)) = Len(s) /\ \A i \in 1..Len(s) : M(s)[i] = f[s[i]]
  <2>1. Len(s) \in Nat /\ DOMAIN s = 1..Len(s) /\ \A i \in 1..Len(s) : s[i] \in X
    OBVIOUS
  <2>2. \A i \in 1..Len(s) : f[s[i]] \in Z
    BY <1>0, <2>1
  <2> DEFINE m == [i \in 1..Len(s) |-> f[s[i]]]
  <2>3. M(s) = m
    BY <2>1
  <2>4. m \in Seq(Z) /\ Len(m) = Len(s) /\ \A i \in 1..Len(s) : m[i] = f[s[i]]
    BY <2>1, <2>2
  <2> QED BY <2>3, <2>4
<1>2. \A s : FlatMap(s, f) = FlattenSeq(M(s))
  BY DEF FlatMap
<1>3. M(<<>>) = <<>>
  OBVIOUS
<1>4. FlatMap(<<>>, f) = <<>>
  <2>1. FlattenSeq(<<>>) = <<>>
    BY DEF FlattenSeq
  <2> HIDE DEF M
  <2> QED BY ONLY <1>2, <1>3, <2>1
<1> HIDE DEF M
<1>5. ASSUME NEW s \in Seq(X) PROVE FlatMap(s, f) \in Seq(Y)
  BY <1>1, <1>2, FlattenIs DEF Z
<1>6. ASSUME NEW s \in Seq(X), NEW x \in X PROVE FlatMap(Append(s, x), f) = FlatMap(s, f) \o f[x]
  <2> DEFINE e == f[x]
             u == M(s)
             t == M(Append(s, x))
             n == Len(s)
             w == Append(s, x)
  <2>1. e \in Z
    BY <1>0
  <2>2. u \in Seq(Z) /\ Len(u) = n /\ n \in Nat /\ \A i \in 1..n : u[i] = f[s[i]]
    BY <1>1
  <2>3. w \in Seq(X) /\ Len(w) = n + 1 /\ w[n + 1] = x /\ \A i \in 1..n : w[i] = s[i]
    OBVIOUS
  <2>a. t = M(w)
    OBVIOUS
  <2>b. e = f[x]
    OBVIOUS
  <2> HIDE DEF e, u, t, w
  <2>4. t \in Seq(Z) /\ Len(t) = Len(w) /\ \A i \in 1..Len(w) : t[i] = f[w[i]]
    BY <1>1, <2>3, <2>a
  <2> HIDE DEF n
  <2>5. Len(t) = n + 1 /\ t[n + 1] = e /\ \A i \in 1..n : t[i] = u[i]
    <3>1. n + 1 \in 1..(n + 1) /\ \A i \in 1..n : i \in 1..(n + 1)
      BY <2>2
    <3>2. Len(t) = n + 1 /\ \A i \in 1..(n + 1) : t[i] = f[w[i]]
      BY <2>3, <2>4
    <3>3. t[n + 1] = e
      BY <2>3, <2>b, <3>1, <3>2
    <3>4. ASSUME NEW i \in 1..n PROVE t[i] = u[i]
      <4>1. t[i] = f[w[i]] /\ w[i] = s[i] /\ u[i] = f[s[i]]
        BY <2>2, <2>3, <3>1, <3>2
      <4> QED BY <4>1
    <3> QED BY <3>2, <3>3, <3>4
  <2> DEFINE v == Append(u, e)
  <2>6. v \in Seq(Z) /\ Len(v) = n + 1 /\ v[n + 1] = e /\ \A i \in 1..n : v[i] = u[i]
    BY <2>1, <2>2
  <2> HIDE DEF v
  <2>7. \A i \in 1..(n + 1) : t[i] = v[i]
    <3>1. \A i \in 1..(n + 1) : i \in 1..n \/ i = n + 1
      BY <2>2
    <3> QED BY <2>5, <2>6, <3>1
  <2>8. t = v
    BY <2>4, <2>5, <2>6, <2>7, SeqEqual
  <2>9. FlattenSeq(Append(u, e)) = FlattenSeq(u) \o e
    BY <2>1, <2>2, FlattenIs DEF Z
  <2> QED BY <1>2, <2>8, <2>9, <2>b DEF u, t, v
<1> QED BY <1>4, <1>5, <1>6 DEF OneByOneMap

\* Of two sequences joined.
LEMMA MapConcat ==
    ASSUME NEW X, NEW Y, NEW f \in [X -> Seq(Y)], NEW s \in Seq(X), NEW t \in Seq(X)
    PROVE  FlatMap(s \o t, f) = FlatMap(s, f) \o FlatMap(t, f)
<1> DEFINE F(r) == FlatMap(r, f)
           S == {r \in Seq(X) : F(s \o r) = F(s) \o F(r)}
<1>0. OneByOneMap(X, Y, f)
  BY MapIs
<1>1. <<>> \in S
  <2>1. F(<<>>) = <<>> /\ F(s) \in Seq(Y)
    BY <1>0 DEF OneByOneMap
  <2>2. s \o <<>> = s
    OBVIOUS
  <2> HIDE DEF F
  <2>3. F(s) \o <<>> = F(s)
    BY <2>1
  <2> QED BY <2>1, <2>2, <2>3
<1>2. ASSUME NEW r \in Seq(X), NEW x \in X PROVE r \in S => Append(r, x) \in S
  <2> SUFFICES ASSUME F(s \o r) = F(s) \o F(r) PROVE F(s \o Append(r, x)) = F(s) \o F(Append(r, x))
    OBVIOUS
  <2>1. s \o Append(r, x) = Append(s \o r, x) /\ s \o r \in Seq(X)
    BY AppendConcat, SMTT(30)
  <2>2. F(Append(s \o r, x)) = F(s \o r) \o f[x] /\ F(Append(r, x)) = F(r) \o f[x]
    BY <1>0, <2>1 DEF OneByOneMap
  <2>3. F(s) \in Seq(Y) /\ F(r) \in Seq(Y) /\ f[x] \in Seq(Y)
    BY <1>0 DEF OneByOneMap
  <2> HIDE DEF F
  <2> DEFINE p == F(s)
             q == F(r)
             e == f[x]
  <2>4. (p \o q) \o e = p \o (q \o e)
    <3>1. p \in Seq(Y) /\ q \in Seq(Y) /\ e \in Seq(Y)
      BY <2>3
    <3> HIDE DEF p, q, e
    <3> QED BY ONLY <3>1, ConcatAssociative, SMTT(40)
  <2> QED BY <2>1, <2>2, <2>4
<1>3. Seq(X) \subseteq S
  <2> HIDE DEF S
  <2> QED BY <1>1, <1>2, SeqInduction
<1> QED BY <1>3

\* h does what f and then g do.
Both(X, f, g, h) == \A x \in X : h[x] = FlatMap(f[x], g)

\* f makes a sequence over Y of each element of X.
Maps(X, Y, f) == f \in [X -> Seq(Y)]

\* One after the other is one of both.
LEMMA MapMap ==
    ASSUME NEW X, NEW Y, NEW Z, NEW f, NEW g, NEW h, NEW s \in Seq(X),
           Maps(X, Y, f), Maps(Y, Z, g), Maps(X, Z, h), Both(X, f, g, h)
    PROVE  FlatMap(FlatMap(s, f), g) = FlatMap(s, h)
<1> DEFINE S == {r \in Seq(X) : FlatMap(FlatMap(r, f), g) = FlatMap(r, h)}
<1>a. f \in [X -> Seq(Y)] /\ g \in [Y -> Seq(Z)] /\ h \in [X -> Seq(Z)]
  BY DEF Maps
<1>0. OneByOneMap(X, Y, f) /\ OneByOneMap(Y, Z, g) /\ OneByOneMap(X, Z, h)
  BY <1>a, MapIs
<1>1. <<>> \in S
  BY <1>0 DEF OneByOneMap
<1>2. ASSUME NEW r \in Seq(X), NEW x \in X PROVE r \in S => Append(r, x) \in S
  <2> SUFFICES ASSUME FlatMap(FlatMap(r, f), g) = FlatMap(r, h)
               PROVE  FlatMap(FlatMap(Append(r, x), f), g) = FlatMap(Append(r, x), h)
    OBVIOUS
  <2> DEFINE p == FlatMap(r, f)
             e == f[x]
  <2>1. p \in Seq(Y) /\ e \in Seq(Y) /\ FlatMap(Append(r, x), f) = p \o e
    BY <1>a, <1>0 DEF OneByOneMap
  <2>2. FlatMap(p \o e, g) = FlatMap(p, g) \o FlatMap(e, g)
    <3> HIDE DEF p, e
    <3> QED BY <1>a, <2>1, MapConcat, ZenonT(60)
  <2>3. FlatMap(Append(r, x), h) = FlatMap(r, h) \o h[x]
    BY <1>0 DEF OneByOneMap
  <2> QED BY <2>1, <2>2, <2>3 DEF Both
<1>3. Seq(X) \subseteq S
  <2> HIDE DEF S
  <2> QED BY <1>1, <1>2, SeqInduction
<1> QED BY <1>3

\* One element.
LEMMA MapUnit ==
    ASSUME NEW X, NEW Y, NEW f \in [X -> Seq(Y)], NEW x \in X
    PROVE  FlatMap(<<x>>, f) = f[x]
<1>1. <<>> \in Seq(X) /\ Append(<<>>, x) = <<x>> /\ f[x] \in Seq(Y)
  OBVIOUS
<1>2. FlatMap(Append(<<>>, x), f) = FlatMap(<<>>, f) \o f[x] /\ FlatMap(<<>>, f) = <<>>
  <2>1. OneByOneMap(X, Y, f)
    BY MapIs
  <2> QED BY <1>1, <2>1 DEF OneByOneMap
<1> DEFINE e == f[x]
<1> HIDE DEF e
<1>3. <<>> \o e = e
  BY <1>1 DEF e
<1> QED BY <1>1, <1>2, <1>3 DEF e

\* What is in sequences put together.
LEMMA SetConcat ==
    ASSUME NEW X, NEW s \in Seq(X), NEW t \in Seq(X)
    PROVE  ToSet(s \o t) = ToSet(s) \cup ToSet(t)
<1> DEFINE u == s \o t
           m == Len(s)
           n == Len(t)
<1>1. /\ m \in Nat /\ n \in Nat /\ DOMAIN s = 1..m /\ DOMAIN t = 1..n /\ DOMAIN u = 1..(m + n)
      /\ \A i \in 1..(m + n) : u[i] = IF i <= m THEN s[i] ELSE t[i - m]
  BY ConcatProperties
<1> HIDE DEF u, m, n
<1>2. ASSUME NEW i \in DOMAIN u PROVE u[i] \in ToSet(s) \cup ToSet(t)
  <2>1. i \in 1..m \/ i - m \in 1..n
    BY <1>1
  <2>2. CASE i <= m
    <3>1. i \in DOMAIN s /\ u[i] = s[i]
      BY <1>1, <2>2
    <3> QED BY <3>1 DEF ToSet
  <2>3. CASE ~(i <= m)
    <3>1. i - m \in DOMAIN t /\ u[i] = t[i - m]
      BY <1>1, <2>3
    <3> QED BY <3>1 DEF ToSet
  <2> QED BY <2>2, <2>3
<1>3. ASSUME NEW i \in DOMAIN s PROVE s[i] \in ToSet(u)
  <2>1. i \in DOMAIN u /\ u[i] = s[i]
    BY <1>1
  <2> QED BY <2>1 DEF ToSet
<1>4. ASSUME NEW i \in DOMAIN t PROVE t[i] \in ToSet(u)
  <2>1. m + i \in 1..(m + n) /\ ~(m + i <= m) /\ (m + i) - m = i
    BY <1>1
  <2>2. m + i \in DOMAIN u /\ u[m + i] = t[(m + i) - m]
    BY <1>1, <2>1
  <2>3. u[m + i] = t[i]
    BY <2>1, <2>2
  <2> QED BY <2>2, <2>3 DEF ToSet
<1>5. ToSet(u) \subseteq ToSet(s) \cup ToSet(t)
  BY <1>2 DEF ToSet
<1>6. ToSet(s) \subseteq ToSet(u) /\ ToSet(t) \subseteq ToSet(u)
  BY <1>3, <1>4 DEF ToSet
<1> QED BY <1>5, <1>6 DEF u

\* What is in small sequences, and what a sequence is of.
LEMMA SetSmall ==
    /\ ToSet(<<>>) = {}
    /\ \A x : ToSet(<<x>>) = {x}
<1>1. ToSet(<<>>) = {}
  BY DEF ToSet
<1>2. ASSUME NEW x PROVE ToSet(<<x>>) = {x}
  <2>1. DOMAIN <<x>> = {1} /\ <<x>>[1] = x
    OBVIOUS
  <2> QED BY <2>1 DEF ToSet
<1> QED BY <1>1, <1>2

\* What is in a sequence, and what makes it empty.
LEMMA SetIs ==
    ASSUME NEW X, NEW s \in Seq(X)
    PROVE  /\ ToSet(s) \subseteq X
           /\ s = <<>> <=> ToSet(s) = {}
<1>1. /\ Len(s) \in Nat /\ DOMAIN s = 1..Len(s) /\ \A i \in 1..Len(s) : s[i] \in X
      /\ s = <<>> <=> Len(s) = 0
  OBVIOUS
<1>2. ToSet(s) \subseteq X
  BY <1>1 DEF ToSet
<1>3. Len(s) # 0 => s[1] \in ToSet(s)
  BY <1>1 DEF ToSet
<1>4. s = <<>> => ToSet(s) = {}
  BY SetSmall
<1> QED BY <1>1, <1>2, <1>3, <1>4

\* With one more.
LEMMA SetAppend ==
    ASSUME NEW X, NEW s \in Seq(X), NEW x \in X
    PROVE  ToSet(Append(s, x)) = ToSet(s) \cup {x}
<1>1. Append(s, x) = s \o <<x>> /\ <<x>> \in Seq(X)
  BY AppendConcat
<1> DEFINE u == <<x>>
<1>2. ToSet(u) = {x}
  BY SetSmall
<1> HIDE DEF u
<1>3. ToSet(s \o u) = ToSet(s) \cup ToSet(u)
  BY <1>1, SetConcat DEF u
<1> QED BY <1>1, <1>2, <1>3 DEF u

\* What is in what f makes of s.
LEMMA MapSet ==
    ASSUME NEW X, NEW Y, NEW f \in [X -> Seq(Y)], NEW s \in Seq(X)
    PROVE  ToSet(FlatMap(s, f)) = UNION {ToSet(f[x]) : x \in ToSet(s)}
<1> DEFINE U(r) == UNION {ToSet(f[x]) : x \in ToSet(r)}
           S == {r \in Seq(X) : ToSet(FlatMap(r, f)) = U(r)}
<1>0. OneByOneMap(X, Y, f)
  BY MapIs
<1>1. <<>> \in S
  <2>1. FlatMap(<<>>, f) = <<>>
    BY <1>0 DEF OneByOneMap
  <2> QED BY <2>1, SetSmall
<1>2. ASSUME NEW r \in Seq(X), NEW x \in X PROVE r \in S => Append(r, x) \in S
  <2> SUFFICES ASSUME ToSet(FlatMap(r, f)) = U(r) PROVE ToSet(FlatMap(Append(r, x), f)) = U(Append(r, x))
    OBVIOUS
  <2> DEFINE p == FlatMap(r, f)
             e == f[x]
  <2>1. FlatMap(Append(r, x), f) = p \o e /\ p \in Seq(Y) /\ e \in Seq(Y)
    BY <1>0 DEF OneByOneMap
  <2>2. ToSet(p \o e) = ToSet(p) \cup ToSet(e)
    <3> HIDE DEF p, e
    <3> QED BY <2>1, SetConcat
  <2>3. ToSet(Append(r, x)) = ToSet(r) \cup {x}
    BY SetAppend
  <2>4. U(Append(r, x)) = U(r) \cup ToSet(f[x])
    BY <2>3
  <2> QED BY <2>1, <2>2, <2>4
<1>3. Seq(X) \subseteq S
  <2> HIDE DEF S
  <2> QED BY <1>1, <1>2, SeqInduction
<1> QED BY <1>3

\* Where f makes nothing of any element.
LEMMA MapNone ==
    ASSUME NEW X, NEW Y, NEW f \in [X -> Seq(Y)], NEW s \in Seq(X)
    PROVE  FlatMap(s, f) = <<>> <=> \A x \in ToSet(s) : f[x] = <<>>
<1>1. FlatMap(s, f) \in Seq(Y)
  <2>1. OneByOneMap(X, Y, f)
    BY MapIs
  <2> QED BY <2>1 DEF OneByOneMap
<1>2. FlatMap(s, f) = <<>> <=> ToSet(FlatMap(s, f)) = {}
  BY <1>1, SetIs
<1>3. ToSet(s) \subseteq X
  BY SetIs
<1>4. \A x \in ToSet(s) : f[x] \in Seq(Y)
  BY <1>3
<1>5. \A x \in ToSet(s) : f[x] = <<>> <=> ToSet(f[x]) = {}
  BY <1>4, SetIs
<1>6. ToSet(FlatMap(s, f)) = UNION {ToSet(f[x]) : x \in ToSet(s)}
  BY MapSet
<1>7. ToSet(FlatMap(s, f)) = {} <=> \A x \in ToSet(s) : ToSet(f[x]) = {}
  <2>1. ASSUME NEW x \in ToSet(s) PROVE ToSet(f[x]) \subseteq ToSet(FlatMap(s, f))
    BY <1>6
  <2>2. ASSUME NEW y \in ToSet(FlatMap(s, f)) PROVE \E x \in ToSet(s) : y \in ToSet(f[x])
    BY <1>6
  <2> QED BY <2>1, <2>2
<1> QED BY <1>2, <1>5, <1>7

-----------------------------------------------------------------------------
(* The head that hyper hands over.                                         *)

\* Equal bytes, equal slices.
LEMMA SliceMoved ==
    ASSUME NEW t \in Bytes, NEW u \in Bytes, NEW a \in Nat, NEW b \in Nat, NEW k \in Nat,
           a <= b, b <= Len(t), b + k <= Len(u), \A i \in (a + 1)..b : u[i + k] = t[i]
    PROVE  Slice(u, a + k, b + k) = Slice(t, a, b)
<1> DEFINE c == a + k
           d == b + k
           v == Slice(u, c, d)
           w == Slice(t, a, b)
<1>0. c \in Nat /\ d \in Nat /\ c <= d /\ d <= Len(u) /\ d - c = b - a
  OBVIOUS
<1>1. w \in Bytes /\ Len(w) = b - a /\ \A i \in 1..(b - a) : w[i] = t[a + i]
  BY SliceIs
<1>2. v \in Bytes /\ Len(v) = d - c /\ \A i \in 1..(d - c) : v[i] = u[c + i]
  <2> HIDE DEF c, d
  <2> QED BY <1>0, SliceIs
<1> HIDE DEF v, w
<1>3. ASSUME NEW i \in 1..(b - a) PROVE v[i] = w[i]
  <2>1. a + i \in (a + 1)..b /\ (a + i) + k = c + i
    OBVIOUS
  <2>2. u[c + i] = t[a + i]
    <3>1. u[(a + i) + k] = t[a + i]
      BY <2>1
    <3> QED BY <2>1, <3>1
  <2> QED BY <1>0, <1>1, <1>2, <2>2
<1>4. v = w
  BY <1>0, <1>1, <1>2, <1>3, SeqEqual DEF Bytes
<1> QED BY <1>4 DEF v, w, c, d

\* A scheme's bytes.
Schemed(b) == is_ascii_alphanumeric(b) \/ b \in {"+", "-", "."}

\* They are none of the bytes at which a target is split.
LEMMA SchemedBytes ==
    ASSUME NEW b, Schemed(b)
    PROVE  b \notin {":", "/", "?", "#", "*", "%"}
BY DEF Schemed, is_ascii_alphanumeric, is_ascii_alphabetic, is_ascii_digit, Digit, Digits, ToSet

\* The first "://" of a target whose scheme is valid ends the scheme.
LEMMA SchemeIs ==
    ASSUME NEW t \in Bytes, NEW k \in Nat, k + 3 <= Len(t),
           t[k + 1] = ":", t[k + 2] = "/", t[k + 3] = "/", \A i \in 1..k : t[i] # ":"
    PROVE  SchemeEnd(t) = k
<1> DEFINE at == {i \in 0..(Len(t) - 3) : Slice(t, i, i + 3) = <<":", "/", "/">>}
           First(i) == \A j \in at : i <= j
<1>0. Len(t) \in Nat
  BY DEF Bytes
<1>1. k \in at
  <2> DEFINE c == k + 3
             v == Slice(t, k, c)
             w == <<":", "/", "/">>
  <2>0. c \in Nat /\ k <= c /\ c <= Len(t) /\ c - k = 3
    OBVIOUS
  <2>1. v \in Bytes /\ Len(v) = c - k /\ \A i \in 1..(c - k) : v[i] = t[k + i]
    <3> HIDE DEF c
    <3> QED BY <2>0, SliceIs
  <2> HIDE DEF v
  <2>2. Len(v) = 3 /\ v[1] = ":" /\ v[2] = "/" /\ v[3] = "/"
    BY <2>0, <2>1
  <2>3. Len(w) = 3 /\ w[1] = ":" /\ w[2] = "/" /\ w[3] = "/" /\ w \in Seq({":", "/"})
    OBVIOUS
  <2> HIDE DEF w
  <2>4. \A i \in 1..Len(v) : v[i] = w[i]
    BY <2>2, <2>3
  <2>5. v = w
    BY <2>1, <2>2, <2>3, <2>4, SeqEqual DEF Bytes
  <2> QED BY <1>0, <2>5 DEF v, w, c
<1>2. ASSUME NEW j \in at PROVE k <= j
  <2>1. j \in Nat /\ j + 3 <= Len(t) /\ Slice(t, j, j + 3) = <<":", "/", "/">>
    BY <1>0
  <2> DEFINE c == j + 3
  <2>2. t[j + 1] = ":"
    <3>0. c \in Nat /\ j <= c /\ c <= Len(t) /\ c - j = 3
      BY <2>1
    <3>1. \A i \in 1..(c - j) : Slice(t, j, c)[i] = t[j + i]
      <4> HIDE DEF c
      <4> QED BY <2>1, <3>0, SliceIs
    <3>2. Slice(t, j, c)[1] = ":"
      BY <2>1
    <3> HIDE DEF c
    <3> QED BY <3>0, <3>1, <3>2
  <2> QED BY <2>1, <2>2
<1>3. at # {} /\ First(k)
  BY <1>1, <1>2
<1> DEFINE c == CHOOSE i \in at : First(i)
<1>4. c \in at /\ First(c)
  BY <1>1, <1>3
<1>5. at \subseteq Nat
  BY <1>0
<1>6. SchemeEnd(t) = c
  BY <1>3 DEF SchemeEnd
<1> HIDE DEF c
<1>7. c <= k /\ k <= c /\ c \in Nat
  BY <1>1, <1>2, <1>4, <1>5
<1> QED BY <1>6, <1>7

\* UriScheme changes the case of known schemes and nothing else.
LEMMA UriSchemeIs ==
    ASSUME NEW s \in Bytes, valid_scheme(s), NEW v, v = UriScheme(s)
    PROVE  v \in Bytes /\ Len(v) = Len(s) /\ valid_scheme(v) /\ to_lower(v) = to_lower(s)
<1>0. Len(s) \in Nat /\ DOMAIN s = 1..Len(s)
  BY DEF Bytes
<1>1. CASE to_lower(s) \notin {<<"http">>, <<"https">>}
  <2>1. v = s
    BY <1>1 DEF UriScheme
  <2> QED BY <2>1
<1>2. ASSUME NEW c \in {"http", "https"}, to_lower(s) = <<c>>
      PROVE  v \in Bytes /\ Len(v) = Len(s) /\ valid_scheme(v) /\ to_lower(v) = to_lower(s)
  <2> DEFINE w == <<c>>
  <2>1. v = w
    BY <1>2 DEF UriScheme
  <2>2. DOMAIN w = {1} /\ w[1] = c /\ Len(w) = 1 /\ w # <<>> /\ c \in Byte
    <3>1. c \in Byte
      BY DEF Byte
    <3> QED BY <3>1
  <2>3. w \in Bytes
    BY <2>2 DEF Bytes
  <2>4. Len(w) = Len(s)
    <3>1. DOMAIN to_lower(s) = DOMAIN s
      BY DEF to_lower
    <3>2. DOMAIN w = 1..Len(s)
      BY <1>0, <1>2, <3>1
    <3>3. 1..Len(s) = {1}
      BY <2>2, <3>2
    <3>4. 1 <= Len(s) /\ Len(s) \in 1..Len(s)
      BY <1>0, <3>3
    <3> QED BY <2>2, <3>3, <3>4
  <2>5. valid_scheme(w)
    <3>1. is_ascii_alphabetic(c)
      BY DEF is_ascii_alphabetic
    <3> HIDE DEF w
    <3> QED BY <2>2, <3>1 DEF valid_scheme, is_ascii_alphanumeric
  <2>6. to_lower(w) = w
    <3>1. c \notin DOMAIN Lowered
      BY DEF Lowered
    <3>2. w = [i \in {1} |-> c]
      OBVIOUS
    <3> HIDE DEF w
    <3>3. to_lower(w) = [i \in {1} |-> c]
      BY <2>2, <3>1 DEF to_lower
    <3> QED BY <3>2, <3>3
  <2> HIDE DEF w
  <2>7. to_lower(v) = to_lower(s)
    BY <1>2, <2>1, <2>6 DEF w
  <2> QED BY <2>1, <2>3, <2>4, <2>5, <2>7
<1>3. to_lower(s) \in {<<"http">>, <<"https">>} => \E c \in {"http", "https"} : to_lower(s) = <<c>>
  OBVIOUS
<1> QED BY <1>1, <1>2, <1>3

\* u is the absolute target t, whose authority ends at x, with its scheme spelled as
\* UriScheme does and, with k = 1, a slash for a path that is not there.
Respelled(t, u, e, x, k) ==
    /\ t \in Bytes /\ u \in Bytes /\ e \in Nat /\ x \in Nat /\ k \in {0, 1}
    /\ e + 3 <= x /\ x <= Len(t) /\ Len(u) = Len(t) + k
    /\ valid_scheme(Slice(t, 0, e)) /\ valid_scheme(Slice(u, 0, e))
    /\ to_lower(Slice(u, 0, e)) = to_lower(Slice(t, 0, e))
    /\ t[e + 1] = ":" /\ t[e + 2] = "/" /\ t[e + 3] = "/"
    /\ \A i \in (e + 4)..x : t[i] \notin {"/", "?", "#"}
    /\ \A i \in (e + 1)..x : u[i] = t[i]
    /\ \A i \in (x + 1)..Len(t) : u[i + k] = t[i]
    /\ IF k = 1 THEN u[x + 1] = "/" /\ (x < Len(t) => t[x + 1] = "?")
       ELSE x < Len(t) /\ t[x + 1] = "/"

\* So UriTarget spells an absolute target without a fragment.
LEMMA UriIs ==
    ASSUME NEW t \in Bytes, NEW r, InAuthority(t, r), NEW e, e = SchemeEnd(t), NEW x, x = r.end,
           \A i \in 1..Len(t) : t[i] # "#",
           NEW f, f = IF At(t, x + 1) = "/" THEN <<>> ELSE <<"/">>,
           NEW u, u = UriScheme(Slice(t, 0, e)) \o Slice(t, e, x) \o f \o Slice(t, x, Len(t))
    PROVE  \E k \in {0, 1} : Respelled(t, u, e, x, k)
<1> DEFINE n == Len(t)
           s == Slice(t, 0, e)
           a == UriScheme(s)
           b == Slice(t, e, x)
           d == Slice(t, x, n)
           k == Len(f)
<1>1. n \in Nat /\ DOMAIN t = 1..n
  BY DEF Bytes
<1>2. e \in Nat /\ t[e + 1] = ":" /\ t[e + 2] = "/" /\ t[e + 3] = "/"
  BY SchemeFound DEF InAuthority, AbsoluteForm
<1>3. x \in Nat /\ e + 3 <= x /\ x <= n /\ (x < n => t[x + 1] \in {"/", "?", "#"})
      /\ \A i \in (e + 4)..x : t[i] \notin {"/", "?", "#"}
  <2>1. r.start = e + 3 /\ r.start <= x /\ x \in Nat /\ x <= n /\ (x < n => t[x + 1] \in {"/", "?", "#"})
        /\ \A i \in (r.start + 1)..x : t[i] \notin {"/", "?", "#"}
    BY DEF InAuthority
  <2>2. r.start + 1 = e + 4
    BY <1>2, <2>1
  <2> QED BY <2>1, <2>2
<1>4. 0 \in Nat /\ 0 <= e /\ e <= n /\ e <= x /\ n <= Len(t)
  BY <1>1, <1>2, <1>3
<1>5. valid_scheme(s)
  BY DEF InAuthority, AbsoluteForm
<1>6. s \in Bytes /\ Len(s) = e - 0
  <2> HIDE DEF n
  <2>1. e <= Len(t)
    BY <1>4 DEF n
  <2> QED BY <1>2, <1>4, <2>1, SliceIs
<1>7. a \in Bytes /\ Len(a) = e /\ valid_scheme(a) /\ to_lower(a) = to_lower(s)
  <2>1. Len(s) = e
    BY <1>2, <1>6
  <2> HIDE DEF s
  <2> QED BY <1>5, <1>6, <2>1, UriSchemeIs
<1>8. b \in Bytes /\ Len(b) = x - e /\ \A i \in 1..(x - e) : b[i] = t[e + i]
  <2>1. x <= Len(t)
    BY <1>3
  <2> QED BY <1>2, <1>3, <1>4, <2>1, SliceIs
<1>9. d \in Bytes /\ Len(d) = n - x /\ \A i \in 1..(n - x) : d[i] = t[x + i]
  <2> HIDE DEF n
  <2> QED BY <1>1, <1>3, <1>4, SliceIs
<1>10. /\ f \in Bytes /\ k \in {0, 1}
       /\ IF k = 1 THEN f[1] = "/" /\ (x < n => t[x + 1] = "?") ELSE x < n /\ t[x + 1] = "/"
  <2>1. CASE At(t, x + 1) = "/"
    <3>1. f = <<>> /\ k = 0
      BY <2>1
    <3>2. x + 1 \in DOMAIN t /\ t[x + 1] = "/"
      <4>1. "none" # "/"
        OBVIOUS
      <4> QED BY <2>1, <4>1 DEF At
    <3>3. x < n
      BY <1>1, <1>3, <3>2
    <3> QED BY <3>1, <3>2, <3>3 DEF Bytes
  <2>2. CASE At(t, x + 1) # "/"
    <3>1. f = <<"/">>
      BY <2>2
    <3>2. Len(f) = 1 /\ f[1] = "/"
      BY ONLY <3>1
    <3>3. "/" \in Byte
      <4>1. e + 2 \in DOMAIN t
        BY <1>1, <1>2, <1>3
      <4> QED BY <1>2, <4>1 DEF Bytes
    <3>4. f \in Bytes
      BY <3>1, <3>3 DEF Bytes
    <3>5. x < n => t[x + 1] = "?"
      <4>1. x < n => x + 1 \in 1..n
        BY <1>1, <1>3
      <4>2. x < n => t[x + 1] # "/" /\ t[x + 1] # "#"
        BY <1>1, <2>2, <4>1 DEF At
      <4> QED BY <1>3, <4>2
    <3> QED BY <3>2, <3>4, <3>5
  <2> QED BY <2>1, <2>2
<1>a. k \in Nat /\ n \in Nat /\ e \in Nat /\ x \in Nat /\ e + 3 <= x /\ x <= n
  BY <1>1, <1>2, <1>3, <1>10
<1> HIDE DEF n, s, a, b, d, k
<1> DEFINE ab == a \o b
           abf == ab \o f
<1>11. /\ ab \in Bytes /\ Len(ab) = x
       /\ \A i \in 1..x : ab[i] = IF i <= e THEN a[i] ELSE b[i - e]
  <2>1. Len(a) + Len(b) = x
    BY <1>2, <1>3, <1>7, <1>8
  <2>2. /\ ab \in Bytes /\ Len(ab) = Len(a) + Len(b)
        /\ \A i \in 1..(Len(a) + Len(b)) : ab[i] = IF i <= Len(a) THEN a[i] ELSE b[i - Len(a)]
    BY <1>7, <1>8, ConcatProperties DEF Bytes
  <2> QED BY <1>7, <2>1, <2>2
<1> HIDE DEF ab
<1>12. /\ abf \in Bytes /\ Len(abf) = x + k
       /\ \A i \in 1..(x + k) : abf[i] = IF i <= x THEN ab[i] ELSE f[i - x]
  BY <1>10, <1>11, ConcatProperties DEF Bytes, k
<1> HIDE DEF abf
<1>13. /\ u \in Bytes /\ Len(u) = n + k
       /\ \A i \in 1..(n + k) : u[i] = IF i <= x + k THEN abf[i] ELSE d[i - (x + k)]
  <2>0. u = abf \o d
    BY DEF abf, ab, a, b, d, s, n
  <2>1. Len(abf) + Len(d) = n + k
    BY <1>1, <1>3, <1>9, <1>10, <1>12
  <2>2. /\ u \in Bytes /\ Len(u) = Len(abf) + Len(d)
        /\ \A i \in 1..(Len(abf) + Len(d)) : u[i] = IF i <= Len(abf) THEN abf[i] ELSE d[i - Len(abf)]
    BY ONLY <1>9, <1>12, <2>0, ConcatProperties DEF Bytes
  <2> QED BY <1>12, <2>1, <2>2
<1>14. \A i \in 1..e : u[i] = a[i]
  BY ONLY <1>a, <1>11, <1>12, <1>13
<1>15. ASSUME NEW i \in (e + 1)..x PROVE u[i] = t[i]
  <2>1. i \in 1..(n + k) /\ i <= x + k /\ i \in 1..(x + k) /\ i \in 1..x /\ ~(i <= e) /\ i <= x
        /\ i - e \in 1..(x - e) /\ e + (i - e) = i
    BY ONLY <1>a, i \in (e + 1)..x
  <2>2. u[i] = b[i - e]
    BY ONLY <1>11, <1>12, <1>13, <2>1
  <2>3. b[i - e] = t[e + (i - e)]
    BY <1>8, <2>1
  <2> QED BY <2>1, <2>2, <2>3
<1>16. ASSUME NEW i \in (x + 1)..n PROVE u[i + k] = t[i]
  <2>1. i + k \in 1..(n + k) /\ ~(i + k <= x + k) /\ (i + k) - (x + k) = i - x
        /\ i - x \in 1..(n - x) /\ x + (i - x) = i
    BY ONLY <1>a, i \in (x + 1)..n
  <2>2. u[i + k] = d[(i + k) - (x + k)]
    BY <1>13, <2>1
  <2>3. d[i - x] = t[x + (i - x)]
    BY <1>9, <2>1
  <2> QED BY <2>1, <2>2, <2>3
<1>17. k = 1 => u[x + 1] = "/"
  <2>1. ASSUME k = 1 PROVE u[x + 1] = "/"
    <3>1. x + 1 \in 1..(n + k) /\ x + 1 <= x + k /\ x + 1 \in 1..(x + k) /\ ~(x + 1 <= x) /\ (x + 1) - x = 1
      BY <1>1, <1>3, <2>1
    <3>2. u[x + 1] = f[(x + 1) - x]
      BY <1>12, <1>13, <3>1
    <3> QED BY <1>10, <2>1, <3>1, <3>2
  <2> QED BY <2>1
<1>18. Slice(u, 0, e) = a
  <2>0. e <= Len(u)
    BY ONLY <1>a, <1>13
  <2>1. Slice(u, 0, e) \in Bytes /\ Len(Slice(u, 0, e)) = e - 0
        /\ \A i \in 1..(e - 0) : Slice(u, 0, e)[i] = u[0 + i]
    BY ONLY <1>2, <1>4, <1>13, <2>0, SliceIs
  <2> DEFINE w == Slice(u, 0, e)
  <2> HIDE DEF w
  <2>2. w \in Bytes /\ Len(w) = e /\ \A i \in 1..e : w[i] = a[i]
    BY ONLY <1>2, <1>14, <2>1 DEF w
  <2>3. w = a
    BY <1>7, <2>2, SeqEqual DEF Bytes
  <2> QED BY <2>3 DEF w
<1>19. Respelled(t, u, e, x, k)
  <2>1. s = Slice(t, 0, e) /\ n = Len(t)
    BY DEF s, n
  <2>2. valid_scheme(Slice(t, 0, e)) /\ valid_scheme(Slice(u, 0, e))
        /\ to_lower(Slice(u, 0, e)) = to_lower(Slice(t, 0, e))
    BY <1>5, <1>7, <1>18, <2>1
  <2>3. x <= Len(t) /\ Len(u) = Len(t) + k /\ \A i \in (x + 1)..Len(t) : u[i + k] = t[i]
    BY <1>3, <1>13, <1>16, <2>1
  <2>4. IF k = 1 THEN u[x + 1] = "/" /\ (x < Len(t) => t[x + 1] = "?")
        ELSE x < Len(t) /\ t[x + 1] = "/"
    BY <1>10, <1>17, <2>1
  <2>5. \A i \in (e + 1)..x : u[i] = t[i]
    BY <1>15
  <2>6. t \in Bytes /\ u \in Bytes /\ e \in Nat /\ x \in Nat /\ k \in {0, 1} /\ e + 3 <= x
        /\ t[e + 1] = ":" /\ t[e + 2] = "/" /\ t[e + 3] = "/"
        /\ \A i \in (e + 4)..x : t[i] \notin {"/", "?", "#"}
    BY <1>2, <1>3, <1>10, <1>13
  <2> QED BY ONLY <2>2, <2>3, <2>4, <2>5, <2>6 DEF Respelled
<1> QED BY <1>10, <1>19

\* A target with a valid scheme before its first "://" is in absolute form.
LEMMA AbsoluteIs ==
    ASSUME NEW t \in Bytes, NEW e \in Nat, e + 3 <= Len(t), valid_scheme(Slice(t, 0, e)),
           t[e + 1] = ":", t[e + 2] = "/", t[e + 3] = "/"
    PROVE  /\ SchemeEnd(t) = e /\ AbsoluteForm(t) /\ t # <<>> /\ t[1] \notin {"/", "*"}
           /\ \A i \in 1..e : Schemed(t[i])
<1> DEFINE s == Slice(t, 0, e)
<1>0. Len(t) \in Nat /\ 0 \in Nat /\ 0 <= e /\ e <= Len(t)
  BY DEF Bytes
<1>1. s \in Bytes /\ DOMAIN s = 1..(e - 0) /\ Len(s) = e - 0 /\ \A i \in 1..(e - 0) : s[i] = t[0 + i]
  BY <1>0, SliceIs
<1>2. s # <<>> /\ \A i \in DOMAIN s : Schemed(s[i])
  BY DEF valid_scheme, Schemed
<1> HIDE DEF s
<1>3. \A i \in 1..e : Schemed(t[i])
  BY <1>1, <1>2
<1>4. Len(s) # 0
  BY <1>1, <1>2 DEF Bytes
<1>5. 1 \in 1..e
  BY <1>1, <1>4
<1>6. t[1] \notin {"/", "*"} /\ \A i \in 1..e : t[i] # ":"
  BY <1>3, <1>5, SchemedBytes
<1>7. SchemeEnd(t) = e
  BY <1>6, SchemeIs
<1>8. AbsoluteForm(t)
  BY <1>7 DEF AbsoluteForm, None
<1>9. t # <<>>
  BY <1>0
<1> QED BY <1>3, <1>6, <1>7, <1>8, <1>9

\* find_absolute_authority finds it, up to the first byte that ends it.
LEMMA AuthorityIs ==
    ASSUME NEW t \in Bytes, NEW e \in Nat, NEW x \in Nat, e + 3 <= x, x <= Len(t),
           SchemeEnd(t) = e, AbsoluteForm(t), t # <<>>, t[1] \notin {"/", "*"},
           \A i \in (e + 4)..x : t[i] \notin {"/", "?", "#"},
           x < Len(t) => t[x + 1] \in {"/", "?", "#"}
    PROVE  find_absolute_authority(t) = [start |-> e + 3, end |-> x]
<1> DEFINE r == find_absolute_authority(t)
<1>0. Len(t) \in Nat
  BY DEF Bytes
<1>1. PICK y : r = [start |-> e + 3, end |-> y]
  BY DEF find_absolute_authority
<1>2. r # NoRange
  <2>1. r.start = e + 3
    BY <1>1
  <2>2. NoRange.start = -1
    BY DEF NoRange, None
  <2> HIDE DEF r
  <2> QED BY <2>1, <2>2
<1>3. InAuthority(t, r)
  BY <1>2, AuthorityFound
<1>4. r.start = e + 3 /\ r.end = y
  BY <1>1
<1>5. /\ y \in Nat /\ e + 3 <= y /\ y <= Len(t) /\ (y < Len(t) => t[y + 1] \in {"/", "?", "#"})
      /\ \A i \in (e + 4)..y : t[i] \notin {"/", "?", "#"}
  <2> HIDE DEF r
  <2>1. /\ y \in Nat /\ r.start <= y /\ y <= Len(t) /\ (y < Len(t) => t[y + 1] \in {"/", "?", "#"})
        /\ \A i \in (r.start + 1)..y : t[i] \notin {"/", "?", "#"}
    BY <1>3, <1>4 DEF InAuthority
  <2>2. r.start + 1 = e + 4
    BY <1>4
  <2> QED BY <1>4, <2>1, <2>2
<1>6. y = x
  <2>1. CASE y < x
    <3>1. y + 1 \in (e + 4)..x /\ y < Len(t)
      BY <1>0, <1>5, <2>1
    <3> QED BY <1>5, <3>1
  <2>2. CASE x < y
    <3>1. x + 1 \in (e + 4)..y /\ x < Len(t)
      BY <1>0, <1>5, <2>2
    <3> QED BY <1>5, <3>1
  <2> QED BY <1>5, <2>1, <2>2
<1> QED BY <1>1, <1>6

\* Where t and u are cut.
CutAlike(t, u, e, x) ==
    \A v \in {t, u} :
        /\ SchemeEnd(v) = e /\ AbsoluteForm(v) /\ v # <<>> /\ v[1] \notin {"/", "*"}
        /\ find_absolute_authority(v) = [start |-> e + 3, end |-> x]
        /\ \A i \in 1..e : Schemed(v[i])

\* At the same places, up to the end of the authority.
LEMMA RespelledCuts ==
    ASSUME NEW t, NEW u, NEW e, NEW x, NEW k, Respelled(t, u, e, x, k)
    PROVE  CutAlike(t, u, e, x)
<1>0. /\ t \in Bytes /\ u \in Bytes /\ e \in Nat /\ x \in Nat /\ k \in {0, 1} /\ Len(t) \in Nat
      /\ e + 3 <= x /\ x <= Len(t) /\ Len(u) = Len(t) + k
      /\ t[e + 1] = ":" /\ t[e + 2] = "/" /\ t[e + 3] = "/"
      /\ \A i \in (e + 1)..x : u[i] = t[i]
      /\ \A i \in (e + 4)..x : t[i] \notin {"/", "?", "#"}
  BY DEF Respelled, Bytes
<1>1. /\ SchemeEnd(t) = e /\ AbsoluteForm(t) /\ t # <<>> /\ t[1] \notin {"/", "*"}
      /\ \A i \in 1..e : Schemed(t[i])
  <2>1. valid_scheme(Slice(t, 0, e)) /\ e + 3 <= Len(t)
    BY <1>0 DEF Respelled
  <2> QED BY <1>0, <2>1, AbsoluteIs
<1>2. /\ SchemeEnd(u) = e /\ AbsoluteForm(u) /\ u # <<>> /\ u[1] \notin {"/", "*"}
      /\ \A i \in 1..e : Schemed(u[i])
  <2>1. valid_scheme(Slice(u, 0, e))
    BY DEF Respelled
  <2>2. e + 3 <= Len(u) /\ u[e + 1] = ":" /\ u[e + 2] = "/" /\ u[e + 3] = "/"
    BY <1>0
  <2> QED BY <1>0, <2>1, <2>2, AbsoluteIs
<1>3. find_absolute_authority(t) = [start |-> e + 3, end |-> x]
  <2>1. x < Len(t) => t[x + 1] \in {"/", "?", "#"}
    BY DEF Respelled
  <2> QED BY <1>0, <1>1, <2>1, AuthorityIs
<1>4. find_absolute_authority(u) = [start |-> e + 3, end |-> x]
  <2>1. x < Len(u) => u[x + 1] \in {"/", "?", "#"}
    <3>1. CASE k = 1
      BY <3>1 DEF Respelled
    <3>2. CASE k = 0
      <4>1. x < Len(t) /\ t[x + 1] = "/" /\ \A i \in (x + 1)..Len(t) : u[i + k] = t[i]
        BY <3>2 DEF Respelled
      <4>2. x + 1 \in (x + 1)..Len(t) /\ (x + 1) + k = x + 1
        BY <1>0, <3>2, <4>1
      <4>3. u[(x + 1) + k] = "/"
        BY <4>1, <4>2
      <4> QED BY <4>2, <4>3
    <3> QED BY <1>0, <3>1, <3>2
  <2>2. \A i \in (e + 4)..x : u[i] \notin {"/", "?", "#"}
    <3>1. \A i \in (e + 4)..x : i \in (e + 1)..x
      BY <1>0
    <3> QED BY <1>0, <3>1
  <2>3. x <= Len(u)
    BY <1>0
  <2> QED BY <1>0, <1>2, <2>1, <2>2, <2>3, AuthorityIs
<1> QED BY <1>1, <1>2, <1>3, <1>4 DEF CutAlike

\* The query, past the slash.
LEMMA RespelledQuery ==
    ASSUME NEW t, NEW u, NEW e, NEW x, NEW k, Respelled(t, u, e, x, k)
    PROVE  /\ find_query(u) = IF find_query(t) = None THEN None ELSE find_query(t) + k
           /\ find_query(t) = None \/ find_query(t) \in x..(Len(t) - 1)
           /\ k = 1 => find_query(t) = IF x < Len(t) THEN x ELSE None
           /\ k = 0 => find_query(t) # x
<1> DEFINE q == find_query(t)
           p == find_query(u)
<1>0. /\ t \in Bytes /\ u \in Bytes /\ e \in Nat /\ x \in Nat /\ k \in {0, 1} /\ Len(t) \in Nat
      /\ DOMAIN t = 1..Len(t) /\ DOMAIN u = 1..Len(u)
      /\ e + 3 <= x /\ x <= Len(t) /\ Len(u) = Len(t) + k
      /\ \A i \in (x + 1)..Len(t) : u[i + k] = t[i]
  BY DEF Respelled, Bytes
<1>1. \A v \in {t, u} : \A i \in 1..x : v[i] # "?"
  <2> TAKE v \in {t, u}
  <2>1. CutAlike(t, u, e, x)
    BY RespelledCuts
  <2> DEFINE r == [start |-> e + 3, end |-> x]
  <2>2. find_absolute_authority(v) = r /\ v \in Bytes /\ r.start = e + 3 /\ r.end = x
    BY <1>0, <2>1 DEF CutAlike
  <2>3. r # NoRange
    <3>1. NoRange.start = -1
      BY DEF NoRange, None
    <3> HIDE DEF r
    <3> QED BY <1>0, <2>2, <3>1
  <2> HIDE DEF r
  <2>4. \A i \in 1..r.end : v[i] # "?"
    BY <2>2, <2>3, AuthorityFound, QueryAfter
  <2> QED BY <2>2, <2>4
<1>2. \/ q = None /\ \A i \in 1..Len(t) : t[i] # "?"
      \/ q \in 0..(Len(t) - 1) /\ t[q + 1] = "?" /\ \A i \in 1..q : t[i] # "?"
  BY <1>0, QueryFound
<1>3. \/ p = None /\ \A i \in 1..Len(u) : u[i] # "?"
      \/ p \in 0..(Len(u) - 1) /\ u[p + 1] = "?" /\ \A i \in 1..p : u[i] # "?"
  BY <1>0, QueryFound
<1>4. k = 1 => u[x + 1] = "/" /\ (x < Len(t) => t[x + 1] = "?")
  BY DEF Respelled
<1>5. k = 0 => x < Len(t) /\ t[x + 1] = "/"
  BY <1>0 DEF Respelled
<1> HIDE DEF q, p
<1>6. q = None \/ q \in x..(Len(t) - 1)
  <2>1. ASSUME q # None PROVE q \in x..(Len(t) - 1)
    <3>1. q \in 0..(Len(t) - 1) /\ t[q + 1] = "?"
      BY <1>2, <2>1
    <3>2. ~(q + 1 <= x)
      BY <1>0, <1>1, <3>1
    <3> QED BY <1>0, <3>1, <3>2
  <2> QED BY <2>1
<1>7. ASSUME NEW i \in 1..Len(u), u[i] = "?"
      PROVE  i - k \in (x + 1)..Len(t) /\ t[i - k] = "?"
  <2>1. ~(i <= x)
    BY <1>0, <1>1, <1>7
  <2>2. k = 1 => i # x + 1
    <3>1. "/" # "?"
      OBVIOUS
    <3> QED BY <1>4, <1>7, <3>1
  <2>3. i - k \in (x + 1)..Len(t) /\ (i - k) + k = i
    BY <1>0, <2>1, <2>2
  <2>4. u[(i - k) + k] = t[i - k]
    BY <1>0, <2>3
  <2> QED BY <1>7, <2>3, <2>4
<1>8. CASE q = None
  <2>1. p = None
    <3>1. ASSUME p # None PROVE FALSE
      <4>1. p \in 0..(Len(u) - 1) /\ u[p + 1] = "?"
        BY <1>3, <3>1
      <4>2. p + 1 \in 1..Len(u)
        BY <1>0, <4>1
      <4>3. (p + 1) - k \in (x + 1)..Len(t) /\ t[(p + 1) - k] = "?"
        BY <1>7, <4>1, <4>2
      <4>4. (p + 1) - k \in 1..Len(t)
        BY <1>0, <4>3
      <4> QED BY <1>2, <1>8, <4>3, <4>4 DEF None
    <3> QED BY <3>1
  <2>2. k = 1 => ~(x < Len(t))
    <3>1. x < Len(t) => x + 1 \in 1..Len(t)
      BY <1>0
    <3>2. q \notin 0..(Len(t) - 1)
      BY <1>0, <1>8 DEF None
    <3> QED BY <1>2, <1>4, <3>1, <3>2
  <2>3. None \notin Nat
    BY DEF None
  <2> QED BY <1>0, <1>8, <2>1, <2>2, <2>3 DEF q, p
<1>9. CASE q # None
  <2>1. q \in x..(Len(t) - 1) /\ t[q + 1] = "?" /\ \A i \in 1..q : t[i] # "?"
    BY <1>2, <1>6, <1>9
  <2>2. q + 1 \in (x + 1)..Len(t) /\ (q + 1) + k \in 1..Len(u) /\ (q + 1) + k = (q + k) + 1
    BY <1>0, <2>1
  <2>3. u[(q + k) + 1] = "?"
    <3>1. u[(q + 1) + k] = t[q + 1]
      BY <1>0, <2>2
    <3> QED BY <2>1, <2>2, <3>1
  <2>4. p # None
    BY <1>3, <2>2, <2>3 DEF None
  <2>5. p \in 0..(Len(u) - 1) /\ u[p + 1] = "?" /\ \A i \in 1..p : u[i] # "?"
    BY <1>3, <2>4
  <2>6. p = q + k
    <3>1. ~(q + k < p)
      <4>1. ASSUME q + k < p PROVE FALSE
        <5>1. (q + k) + 1 \in 1..p
          BY <1>0, <2>1, <2>5, <4>1
        <5> QED BY <2>3, <2>5, <5>1
      <4> QED BY <4>1
    <3>2. ~(p < q + k)
      <4>1. ASSUME p < q + k PROVE FALSE
        <5>1. p + 1 \in 1..Len(u)
          BY <1>0, <2>5
        <5>2. (p + 1) - k \in (x + 1)..Len(t) /\ t[(p + 1) - k] = "?"
          BY <1>7, <2>5, <5>1
        <5>3. (p + 1) - k \in 1..q
          BY <1>0, <2>1, <2>5, <4>1, <5>2
        <5> QED BY <2>1, <5>2, <5>3
      <4> QED BY <4>1
    <3> QED BY <1>0, <2>1, <2>5, <3>1, <3>2
  <2>7. k = 1 => x < Len(t) /\ q = x
    <3>1. ASSUME k = 1 PROVE x < Len(t) /\ q = x
      <4>1. x < Len(t) /\ t[x + 1] = "?"
        BY <1>0, <1>4, <2>1, <3>1
      <4>2. ~(x + 1 <= q)
        BY <1>0, <2>1, <4>1
      <4> QED BY <1>0, <2>1, <4>1, <4>2
    <3> QED BY <3>1
  <2>8. k = 0 => q # x
    <3>1. "/" # "?"
      OBVIOUS
    <3> QED BY <1>5, <2>1, <3>1
  <2> QED BY <1>9, <2>1, <2>6, <2>7, <2>8 DEF q, p
<1> QED BY <1>8, <1>9

\* What of a target a head, a router or decide goes by.
PartsAlike(t, u) ==
    /\ find_absolute_authority(u) = find_absolute_authority(t)
    /\ LET r == find_absolute_authority(t) IN
       \/ r = NoRange /\ u = t
       \/ /\ r # NoRange
          /\ Slice(u, r.start, r.end) = Slice(t, r.start, r.end)
          /\ to_lower(Slice(u, 0, r.start - 3)) = to_lower(Slice(t, 0, r.start - 3))
    /\ \A m, v, f, g : LET h == HeadNew(m, t, v, f)
                           j == HeadNew(m, u, v, g)
                       IN path(h) = path(j) /\ query(h) = query(j)

\* It is all the same in u.
LEMMA RespelledParts ==
    ASSUME NEW t, NEW u, NEW e, NEW x, NEW k, Respelled(t, u, e, x, k)
    PROVE  PartsAlike(t, u)
<1> DEFINE r == [start |-> e + 3, end |-> x]
           n == Len(t)
           q == find_query(t)
           p == IF q = None THEN n ELSE q
<1>0. /\ t \in Bytes /\ u \in Bytes /\ e \in Nat /\ x \in Nat /\ k \in {0, 1} /\ n \in Nat
      /\ e + 3 <= x /\ x <= n /\ Len(u) = n + k
      /\ \A i \in (e + 1)..x : u[i] = t[i]
      /\ \A i \in (x + 1)..n : u[i + k] = t[i]
      /\ to_lower(Slice(u, 0, e)) = to_lower(Slice(t, 0, e))
      /\ k = 1 => u[x + 1] = "/"
  BY DEF Respelled, Bytes
<1>1. /\ find_absolute_authority(t) = r /\ find_absolute_authority(u) = r
      /\ r.start = e + 3 /\ r.end = x
  BY RespelledCuts DEF CutAlike
<1>2. r # NoRange /\ e + 3 \in Nat /\ (e + 3) - 3 = e
  <2>1. NoRange.start = -1
    BY DEF NoRange, None
  <2> HIDE DEF r
  <2> QED BY <1>0, <1>1, <2>1
<1>3. /\ find_query(u) = IF q = None THEN None ELSE q + k
      /\ q = None \/ q \in x..(n - 1)
      /\ k = 1 => q = IF x < n THEN x ELSE None
      /\ k = 0 => q # x
  BY RespelledQuery
<1> HIDE DEF r, n, q
<1>4. p \in Nat /\ x <= p /\ p <= n /\ (k = 1 => p = x)
  BY <1>0, <1>3 DEF None
<1>5. Slice(u, r.start, r.end) = Slice(t, r.start, r.end)
  <2> DEFINE s == e + 3
             z == 0
  <2>1. s \in Nat /\ z \in Nat /\ s <= x /\ x <= Len(t) /\ x + z <= Len(u) /\ s + z = s /\ x + z = x
    BY <1>0 DEF n
  <2>2. \A i \in (s + 1)..x : u[i + z] = t[i]
    <3>1. \A i \in (s + 1)..x : i \in (e + 1)..x /\ i + z = i
      BY <1>0
    <3> QED BY <1>0, <3>1
  <2> HIDE DEF s, z
  <2>3. Slice(u, s + z, x + z) = Slice(t, s, x)
    <3>1. t \in Bytes /\ u \in Bytes /\ x \in Nat
      BY <1>0
    <3> QED BY ONLY <2>1, <2>2, <3>1, SliceMoved
  <2> QED BY <1>1, <2>1, <2>3 DEF s
<1>6. to_lower(Slice(u, 0, r.start - 3)) = to_lower(Slice(t, 0, r.start - 3))
  BY <1>0, <1>1, <1>2
<1>7. ASSUME NEW a \in Nat, x <= a, a <= n
      PROVE  Slice(u, a + k, n + k) = Slice(t, a, n)
  <2>1. \A i \in (a + 1)..n : u[i + k] = t[i]
    <3>1. \A i \in (a + 1)..n : i \in (x + 1)..n
      BY <1>0, <1>7
    <3> QED BY <1>0, <3>1
  <2>2. n <= Len(t) /\ n + k <= Len(u) /\ k \in Nat
    BY <1>0 DEF n
  <2>3. t \in Bytes /\ u \in Bytes /\ n \in Nat /\ a \in Nat /\ a <= n
    BY <1>0, <1>7
  <2> QED BY ONLY <2>1, <2>2, <2>3, SliceMoved
<1>8. IF x < p + k THEN \/ k = 0 /\ x < p /\ Slice(u, x, p + k) = Slice(t, x, p)
                        \/ k = 1 /\ ~(x < p) /\ Slice(u, x, p + k) = <<"/">>
      ELSE ~(x < p)
  <2>1. CASE k = 0
    <3> DEFINE z == 0
    <3>1. z \in Nat /\ x + z = x /\ p + z = p /\ p + k = p /\ p <= Len(t) /\ p + z <= Len(u)
      BY <1>0, <1>4, <2>1 DEF n
    <3>2. \A i \in (x + 1)..p : u[i + z] = t[i]
      <4>1. \A i \in (x + 1)..p : i \in (x + 1)..n /\ i + k = i + z
        BY <1>0, <1>4, <2>1
      <4> QED BY <1>0, <4>1
    <3> HIDE DEF z, p
    <3>3. Slice(u, x + z, p + z) = Slice(t, x, p)
      <4>1. /\ t \in Bytes /\ u \in Bytes /\ x \in Nat /\ p \in Nat /\ x <= p
            /\ z \in Nat /\ p <= Len(t) /\ p + z <= Len(u)
        BY <1>0, <1>4, <3>1 DEF p
      <4> QED BY ONLY <3>2, <4>1, SliceMoved
    <3>4. Slice(u, x, p + k) = Slice(t, x, p)
      BY <3>1, <3>3
    <3>5. x < p + k <=> x < p
      BY <3>1
    <3> QED BY ONLY <2>1, <3>4, <3>5
  <2>2. CASE k = 1
    <3>1. p = x /\ p + k = x + 1
      BY <1>0, <1>4, <2>2
    <3>2. x < Len(u)
      BY <1>0, <2>2
    <3>3. Slice(u, x, x + 1) = <<u[x + 1]>>
      BY <1>0, <3>2, SliceOne
    <3> HIDE DEF p
    <3> QED BY <1>0, <2>2, <3>1, <3>3
  <2> QED BY <1>0, <2>1, <2>2
<1>9. ASSUME NEW m, NEW v, NEW f, NEW g,
             NEW h, h = HeadNew(m, t, v, f), NEW j, j = HeadNew(m, u, v, g)
      PROVE  path(h) = path(j) /\ query(h) = query(j)
  <2>1. /\ h.target = t /\ h.query_at = q /\ h.authority_at = r
        /\ j.target = u /\ j.query_at = find_query(u) /\ j.authority_at = r
    BY <1>1, <1>9 DEF HeadNew, q
  <2>2. PathEnd(h) = p /\ PathEnd(j) = p + k
    <3>1. PathEnd(h) = p
      BY <2>1 DEF PathEnd, n
    <3>2. q # None => q + k # None
      BY <1>0, <1>3 DEF None
    <3>3. PathEnd(j) = p + k
      BY <1>0, <1>3, <2>1, <3>2 DEF PathEnd
    <3> QED BY <3>1, <3>3
  <2> HIDE DEF p
  <2>3. path(h) = path(j)
    <3>1. path(h) = IF x < p THEN Slice(t, x, p) ELSE <<"/">>
      BY <1>1, <1>2, <2>1, <2>2 DEF path
    <3>2. path(j) = IF x < p + k THEN Slice(u, x, p + k) ELSE <<"/">>
      BY <1>1, <1>2, <2>1, <2>2 DEF path
    <3> QED BY <1>8, <3>1, <3>2
  <2>4. query(h) = query(j)
    <3>1. CASE q = None
      BY <1>3, <2>1, <3>1 DEF query
    <3>2. CASE q # None
      <4>1. q + 1 \in Nat /\ x <= q + 1 /\ q + 1 <= n /\ (q + 1) + k = (q + k) + 1 /\ q + k # None
        <5>1. q \in x..(n - 1) /\ x \in Nat /\ n \in Nat /\ k \in {0, 1}
          BY <1>0, <1>3, <3>2
        <5> QED BY ONLY <5>1 DEF None
      <4>2. Slice(u, (q + 1) + k, n + k) = Slice(t, q + 1, n)
        BY <1>7, <4>1
      <4>3. query(h) = Slice(t, q + 1, n)
        BY <2>1, <3>2 DEF query, n
      <4>4. query(j) = Slice(u, (q + k) + 1, n + k)
        BY <1>0, <1>3, <2>1, <3>2, <4>1 DEF query
      <4> QED BY <4>1, <4>2, <4>3, <4>4
    <3> QED BY <3>1, <3>2
  <2> QED BY <2>3, <2>4
<1>10. \A m, v, f, g : LET h == HeadNew(m, t, v, f)
                           j == HeadNew(m, u, v, g)
                       IN path(h) = path(j) /\ query(h) = query(j)
  BY <1>9
<1> QED BY <1>1, <1>2, <1>5, <1>6, <1>10 DEF PartsAlike

\* Every byte of t is one of u's, and the other way round, at a place that a
\* percent sign finds the same bytes behind.
LEMMA RespelledValid ==
    ASSUME NEW t, NEW u, NEW e, NEW x, NEW k, Respelled(t, u, e, x, k)
    PROVE  validate_target(u) <=> validate_target(t)
<1> DEFINE Good(b) == is_ascii_alphanumeric(b) \/ b \in TargetBytes
           n == Len(t)
<1>0. /\ t \in Bytes /\ u \in Bytes /\ e \in Nat /\ x \in Nat /\ k \in {0, 1} /\ n \in Nat
      /\ DOMAIN t = 1..n /\ DOMAIN u = 1..(n + k) /\ Len(u) = n + k
      /\ e + 3 <= x /\ x <= n
      /\ \A i \in (e + 1)..x : u[i] = t[i]
      /\ \A i \in (x + 1)..n : u[i + k] = t[i]
  BY DEF Respelled, Bytes
<1>1. k = 1 => u[x + 1] = "/" /\ (x < n => t[x + 1] = "?")
  BY DEF Respelled
<1>2. k = 0 => x < n /\ t[x + 1] = "/"
  BY <1>0 DEF Respelled
<1>3. /\ t # <<>> /\ u # <<>>
      /\ \A i \in 1..e : Schemed(t[i]) /\ Schemed(u[i])
  BY RespelledCuts DEF CutAlike
<1>4. \A b : Schemed(b) => Good(b) /\ b # "%"
  <2> TAKE b
  <2>1. Schemed(b) => b # "%"
    BY SchemedBytes
  <2>2. Schemed(b) => Good(b)
    BY DEF Schemed, TargetBytes
  <2> QED BY <2>1, <2>2
<1>5. Good("/") /\ "/" # "%" /\ ~is_ascii_hexdigit("/") /\ ~is_ascii_hexdigit("?")
  BY DEF TargetBytes, is_ascii_hexdigit, is_ascii_digit, Digit, Digits, ToSet
<1>6. ASSUME NEW i \in (e + 1)..x
      PROVE  PercentOk(u, i) <=> PercentOk(t, i)
  <2>1. i + 1 <= x => u[i + 1] = t[i + 1]
    BY <1>0
  <2>2. i + 2 <= x => u[i + 2] = t[i + 2]
    BY <1>0
  <2>3. CASE i + 2 <= x
    <3>1. i + 2 <= Len(u) /\ i + 2 <= Len(t) /\ i + 1 <= x
      BY <1>0, <2>3 DEF n
    <3> QED BY <2>1, <2>2, <2>3, <3>1 DEF PercentOk
  <2>4. CASE x < i + 2
    <3>1. x + 1 = i + 1 \/ x + 1 = i + 2
      BY <1>0, <2>4
    <3>2. x < n => t[x + 1] \in {"/", "?"}
      BY <1>0, <1>1, <1>2
    <3>3. x < n + k => u[x + 1] \in {"/", "?"}
      <4>1. CASE k = 1
        BY <1>1, <4>1
      <4>2. CASE k = 0
        <5>1. x < n /\ t[x + 1] = "/" /\ x + 1 \in (x + 1)..n /\ (x + 1) + k = x + 1
          BY <1>0, <1>2, <4>2
        <5>2. u[(x + 1) + k] = t[x + 1]
          BY <1>0, <5>1
        <5> QED BY <5>1, <5>2
      <4> QED BY <1>0, <4>1, <4>2
    <3>4. ~PercentOk(t, i)
      <4>1. ASSUME PercentOk(t, i) PROVE FALSE
        <5>1. i + 2 <= n /\ is_ascii_hexdigit(t[i + 1]) /\ is_ascii_hexdigit(t[i + 2])
          BY <4>1 DEF PercentOk, n
        <5>2. x < n
          BY <1>0, <3>1, <5>1
        <5> QED BY <1>5, <3>1, <3>2, <5>1, <5>2
      <4> QED BY <4>1
    <3>5. ~PercentOk(u, i)
      <4>1. ASSUME PercentOk(u, i) PROVE FALSE
        <5>1. i + 2 <= n + k /\ is_ascii_hexdigit(u[i + 1]) /\ is_ascii_hexdigit(u[i + 2])
          BY <1>0, <4>1 DEF PercentOk
        <5>2. x < n + k
          BY <1>0, <3>1, <5>1
        <5> QED BY <1>5, <3>1, <3>3, <5>1, <5>2
      <4> QED BY <4>1
    <3> QED BY <3>4, <3>5
  <2> QED BY <1>0, <2>3, <2>4
<1>7. ASSUME NEW i \in (x + 1)..n
      PROVE  PercentOk(u, i + k) <=> PercentOk(t, i)
  <2>1. /\ (i + k) + 2 <= Len(u) <=> i + 2 <= Len(t)
        /\ (i + k) + 1 = (i + 1) + k /\ (i + k) + 2 = (i + 2) + k
    BY <1>0 DEF n
  <2>2. i + 2 <= n => u[(i + 1) + k] = t[i + 1] /\ u[(i + 2) + k] = t[i + 2]
    <3>1. i + 2 <= n => i + 1 \in (x + 1)..n /\ i + 2 \in (x + 1)..n
      BY <1>0
    <3> QED BY <1>0, <3>1
  <2> QED BY <2>1, <2>2 DEF PercentOk, n
<1> DEFINE Fine(w, i) == Good(w[i]) /\ (w[i] = "%" => PercentOk(w, i))
<1>8. \A i \in 1..e : Fine(t, i) /\ Fine(u, i)
  <2> HIDE DEF Good
  <2> QED BY <1>3, <1>4
<1>9. \A i \in (e + 1)..x : Fine(u, i) <=> Fine(t, i)
  <2> HIDE DEF Good
  <2> QED BY <1>0, <1>6
<1>10. \A i \in (x + 1)..n : Fine(u, i + k) <=> Fine(t, i)
  <2> HIDE DEF Good
  <2> QED BY <1>0, <1>7
<1>11. k = 1 => Fine(u, x + 1)
  <2> HIDE DEF Good
  <2> QED BY <1>1, <1>5
<1>12. validate_target(t) <=> \A i \in 1..n : Fine(t, i)
  BY <1>0, <1>3 DEF validate_target
<1>13. validate_target(u) <=> \A i \in 1..(n + k) : Fine(u, i)
  BY <1>0, <1>3 DEF validate_target
<1> HIDE DEF Fine, Good, n
<1>14. ASSUME \A i \in 1..n : Fine(t, i), NEW i \in 1..(n + k) PROVE Fine(u, i)
  <2>1. CASE i <= e
    BY <1>8, <2>1
  <2>2. CASE e < i /\ i <= x
    <3>1. i \in (e + 1)..x /\ i \in 1..n
      BY <1>0, <2>2
    <3> QED BY <1>9, <1>14, <3>1
  <2>3. CASE x < i /\ ~(k = 1 /\ i = x + 1)
    <3>1. i - k \in (x + 1)..n /\ i - k \in 1..n /\ (i - k) + k = i
      BY <1>0, <2>3
    <3>2. Fine(u, (i - k) + k)
      BY <1>10, <1>14, <3>1
    <3> QED BY <3>1, <3>2
  <2>4. CASE k = 1 /\ i = x + 1
    BY <1>11, <2>4
  <2> QED BY <1>0, <2>1, <2>2, <2>3, <2>4
<1>15. ASSUME \A i \in 1..(n + k) : Fine(u, i), NEW i \in 1..n PROVE Fine(t, i)
  <2>1. CASE i <= e
    BY <1>8, <2>1
  <2>2. CASE e < i /\ i <= x
    <3>1. i \in (e + 1)..x /\ i \in 1..(n + k)
      BY <1>0, <2>2
    <3> QED BY <1>9, <1>15, <3>1
  <2>3. CASE x < i
    <3>1. i \in (x + 1)..n /\ i + k \in 1..(n + k)
      BY <1>0, <2>3
    <3> QED BY <1>10, <1>15, <3>1
  <2> QED BY <1>0, <2>1, <2>2, <2>3
<1> QED BY <1>12, <1>13, <1>14, <1>15

\* http::Uri leaves a target without a fragment what it is for everyone behind it.
LEMMA UriKeeps ==
    ASSUME NEW t \in Bytes, \A i \in 1..Len(t) : t[i] # "#", NEW u, u = UriTarget(t)
    PROVE  /\ u \in Bytes /\ Len(t) <= Len(u) /\ PartsAlike(t, u)
           /\ \A m : validate_request_target(u, m) <=> validate_request_target(t, m)
<1>0. Len(t) \in Nat
  BY DEF Bytes
<1>1. UpTo(t, "#") = t
  <2>1. PosOf(t, "#") = None
    <3>1. ASSUME PosOf(t, "#") \in 0..(Len(t) - 1) PROVE PosOf(t, "#") + 1 \in 1..Len(t)
      BY <1>0, <3>1
    <3> QED BY <3>1, PosIs
  <2> QED BY <2>1 DEF UpTo, PosOf
<1>2. CASE u = t
  <2>1. PartsAlike(t, t)
    <3>1. \A m, v, f, g : LET h == HeadNew(m, t, v, f)
                              j == HeadNew(m, t, v, g)
                          IN path(h) = path(j) /\ query(h) = query(j)
      BY DEF HeadNew, path, query, PathEnd
    <3> QED BY <3>1 DEF PartsAlike
  <2> QED BY <1>0, <1>2, <2>1
<1>3. CASE u # t
  <2> DEFINE a == find_absolute_authority(t)
             e == SchemeEnd(t)
             x == a.end
             f == IF At(t, x + 1) = "/" THEN <<>> ELSE <<"/">>
  <2>1. AbsoluteForm(t)
    BY <1>1, <1>3 DEF UriTarget
  <2>2. u = UriScheme(Slice(t, 0, a.start - 3)) \o Slice(t, a.start - 3, a.end) \o f \o Slice(t, a.end, Len(t))
    BY <1>1, <1>3, <2>1 DEF UriTarget
  <2>3. e \in Nat /\ e + 3 <= Len(t)
    BY <2>1, SchemeFound DEF AbsoluteForm
  <2>4. t # <<>> /\ t[1] \notin {"/", "*"}
    <3>1. t # <<>>
      BY <1>0, <2>3
    <3>2. 1 \in DOMAIN t
      BY <1>0, <2>3 DEF Bytes
    <3>3. t[1] # "/"
      BY <1>1, <1>3, <3>2 DEF UriTarget, At
    <3> QED BY <2>1, <3>1, <3>3, AbsoluteFirst
  <2>5. a.start = e + 3
    BY <2>1, <2>4 DEF find_absolute_authority
  <2>6. a # NoRange
    <3>1. NoRange.start = -1
      BY DEF NoRange, None
    <3> HIDE DEF a, e
    <3> QED BY <2>3, <2>5, <3>1
  <2>7. InAuthority(t, a)
    BY <2>6, AuthorityFound
  <2>8. u = UriScheme(Slice(t, 0, e)) \o Slice(t, e, x) \o f \o Slice(t, x, Len(t))
    <3>1. a.start - 3 = e
      BY <2>3, <2>5
    <3> QED BY <2>2, <3>1
  <2>9. PICK k \in {0, 1} : Respelled(t, u, e, x, k)
    <3> HIDE DEF a
    <3> QED BY <2>7, <2>8, UriIs
  <2> HIDE DEF a, e, x, f
  <2>10. u \in Bytes /\ Len(t) <= Len(u)
    <3>1. u \in Bytes /\ Len(u) = Len(t) + k
      BY <2>9 DEF Respelled
    <3> QED BY ONLY <1>0, <3>1, k \in {0, 1}
  <2>11. CutAlike(t, u, e, x) /\ PartsAlike(t, u) /\ (validate_target(u) <=> validate_target(t))
    BY <2>9, RespelledCuts, RespelledParts, RespelledValid
  <2>12. ASSUME NEW v \in {t, u}, NEW m
         PROVE  validate_target_form(v, m) <=> m # "CONNECT"
    <3>1. SchemeEnd(v) = e /\ AbsoluteForm(v) /\ v[1] # "*"
      BY <2>11 DEF CutAlike
    <3>2. v # <<"*">>
      BY <3>1
    <3>3. ~AuthorityForm(v)
      BY <2>3, <3>1 DEF AuthorityForm, None
    <3> QED BY <3>1, <3>2, <3>3 DEF validate_target_form
  <2> QED BY <2>10, <2>11, <2>12 DEF validate_request_target
<1> QED BY <1>2, <1>3

\* Heads that differ in the spelling of their targets name the same authority, and
\* check_authority takes them the same.
LEMMA AuthorityAlike ==
    ASSUME NEW t \in Bytes, NEW u, PartsAlike(t, u), NEW m, validate_request_target(t, m),
           NEW v, NEW f, NEW h, h = HeadNew(m, t, v, f), NEW g, g = HeadNew(m, u, v, f)
    PROVE  check_authority(g) = check_authority(h) /\ SameRequest(h, g)
<1> DEFINE r == find_absolute_authority(t)
<1>1. /\ h.target = t /\ h.method = m /\ h.headers = f /\ h.authority_at = r
      /\ h.query_at = find_query(t)
      /\ g.target = u /\ g.method = m /\ g.headers = f /\ g.authority_at = r
  BY DEF HeadNew, PartsAlike
<1>2. path(h) = path(g) /\ query(h) = query(g)
  BY DEF PartsAlike
<1>3. CASE u = t
  <2>1. g = h
    BY <1>3
  <2> QED BY <2>1 DEF SameRequest
<1>4. CASE r # NoRange
  <2>1. /\ Slice(u, r.start, r.end) = Slice(t, r.start, r.end)
        /\ to_lower(Slice(u, 0, r.start - 3)) = to_lower(Slice(t, 0, r.start - 3))
    BY <1>4 DEF PartsAlike
  <2> HIDE DEF r
  <2>2. m # "CONNECT"
    <3>1. Whole(h)
      BY <1>1 DEF Whole, r
    <3> QED BY <1>1, <1>4, <3>1, ConnectHasNoRange
  <2>3. authority(h) = authority(g)
    BY <1>1, <1>4, <2>1 DEF authority
  <2>4. to_lower(absolute_scheme(h)) = to_lower(absolute_scheme(g))
    BY <1>1, <2>1 DEF absolute_scheme
  <2>5. all(h, "Host") = all(g, "Host")
    BY <1>1 DEF all
  <2>6. \A a, d : Reconcile(h, a, d) = Reconcile(g, a, d)
    BY <2>5 DEF Reconcile
  <2>7. check_authority(g) = check_authority(h)
    BY <1>1, <2>2, <2>3, <2>4, <2>5, <2>6 DEF check_authority
  <2> QED BY <1>2, <2>3, <2>7 DEF SameRequest
<1>5. u = t \/ r # NoRange
  BY DEF PartsAlike
<1> QED BY <1>3, <1>4, <1>5

\* And so does decide.
LEMMA DecidedAlike ==
    ASSUME NEW t \in Bytes, NEW u, PartsAlike(t, u), NEW m, validate_request_target(t, m),
           NEW v, NEW f, NEW h, h = HeadNew(m, t, v, f), NEW g, g = HeadNew(m, u, v, f)
    PROVE  decide(g) = decide(h)
<1>1. check_authority(g) = check_authority(h)
  BY AuthorityAlike
<1>2. g.version = h.version /\ g.headers = h.headers
  BY DEF HeadNew
<1>3. \A id : all(g, id) = all(h, id)
  BY <1>2 DEF all
<1> QED BY <1>1, <1>2, <1>3 DEF decide

\* What of a field is left when the lengths are dropped.
Unmeasured == [f \in Header |-> IF f.id # "ContentLength" THEN <<f>> ELSE <<>>]

\* The codings, and none of the lengths.
LEMMA LengthsDropped ==
    ASSUME NEW hs \in Seq(Header), NEW gs, gs = Only(hs, LAMBDA f : f.id # "ContentLength")
    PROVE  /\ gs \in Seq(Header) /\ Values(gs, "ContentLength") = <<>>
           /\ Values(gs, "TransferEncoding") = Values(hs, "TransferEncoding")
<1> DEFINE F(s) == FlatMap(s, Unmeasured)
           S == {s \in Seq(Header) :
                     /\ Values(F(s), "ContentLength") = <<>>
                     /\ Values(F(s), "TransferEncoding") = Values(s, "TransferEncoding")}
<1>1. Unmeasured \in [Header -> Seq(Header)]
  BY DEF Unmeasured
<1>2. /\ F(<<>>) = <<>> /\ \A s \in Seq(Header) : F(s) \in Seq(Header)
      /\ \A s \in Seq(Header), x \in Header : F(Append(s, x)) = F(s) \o Unmeasured[x]
  BY <1>1, MapIs DEF OneByOneMap
<1>3. gs = F(hs)
  <2>1. \A i \in DOMAIN hs : hs[i] \in Header
    OBVIOUS
  <2>2. [i \in DOMAIN hs |-> IF hs[i].id # "ContentLength" THEN <<hs[i]>> ELSE <<>>]
        = [i \in DOMAIN hs |-> Unmeasured[hs[i]]]
    BY <2>1 DEF Unmeasured
  <2> QED BY <2>2 DEF FlatMap, Only
<1> HIDE DEF F
<1>4. <<>> \in S
  BY <1>2, ValuesIs
<1>5. ASSUME NEW s \in Seq(Header), NEW x \in Header, s \in S PROVE Append(s, x) \in S
  <2>1. Append(s, x) \in Seq(Header) /\ F(s) \in Seq(Header)
    BY <1>2
  <2>2. Unmeasured[x] = IF x.id # "ContentLength" THEN <<x>> ELSE <<>>
    BY DEF Unmeasured
  <2>3. F(Append(s, x)) = IF x.id # "ContentLength" THEN Append(F(s), x) ELSE F(s)
    <3>1. F(s) \o <<x>> = Append(F(s), x) /\ F(s) \o <<>> = F(s)
      BY <2>1
    <3> QED BY <1>2, <2>2, <3>1
  <2>4. \A id : /\ Values(Append(s, x), id) =
                       IF x.id = id THEN Append(Values(s, id), x.value) ELSE Values(s, id)
                /\ Values(Append(F(s), x), id) =
                       IF x.id = id THEN Append(Values(F(s), id), x.value) ELSE Values(F(s), id)
    BY <2>1, ValuesIs
  <2>5. "ContentLength" # "TransferEncoding"
    OBVIOUS
  <2>6. CASE x.id = "ContentLength"
    BY <1>5, <2>1, <2>3, <2>4, <2>5, <2>6
  <2>7. CASE x.id # "ContentLength"
    BY <1>5, <2>1, <2>3, <2>4, <2>7
  <2> QED BY <2>6, <2>7
<1>6. hs \in S
  <2> HIDE DEF S
  <2>1. Seq(Header) \subseteq S
    BY <1>4, <1>5, SeqInduction
  <2> QED BY <2>1
<1> QED BY <1>2, <1>3, <1>6

\* No coding, no `chunked`.
LEMMA NoCodingNoChunks == ~EndsChunked(AllElements(<<>>))
<1>1. AllElements(<<>>) = <<>>
  BY AllElementsIs
<1>2. ~EndsChunked(<<>>)
  BY DEF EndsChunked
<1> QED BY <1>1, <1>2

\* A head that decide accepts was not sent with both framings.
LEMMA AcceptedOnceFramed ==
    ASSUME NEW h, h.headers \in Seq(Header), decide(h).error = "none"
    PROVE  ~TwiceFramed(h.headers)
<1>1. all(h, "ContentLength") = <<>> \/ all(h, "TransferEncoding") = <<>>
  BY AcceptedKinds
<1> QED BY <1>1, NoCodingNoChunks DEF TwiceFramed, all

\* One that was, and that decide accepts after hyper, is chunked.
LEMMA TwiceFramedIsChunked ==
    ASSUME NEW h, NEW hs \in Seq(Header), TwiceFramed(hs), h.headers = HyperFields(hs),
           decide(h).error = "none"
    PROVE  decide(h) = Kind("Chunked", 0)
<1> DEFINE L == all(h, "ContentLength")
           C == all(h, "TransferEncoding")
<1>1. h.headers = Only(hs, LAMBDA f : f.id # "ContentLength")
  BY DEF HyperFields
<1>2. h.headers \in Seq(Header) /\ L = <<>> /\ C = Values(hs, "TransferEncoding")
  BY <1>1, LengthsDropped DEF all
<1>3. C # <<>>
  BY <1>2, NoCodingNoChunks DEF TwiceFramed
<1>4. C \in Seq(Bytes) /\ decide(h) = TransferEncoding(C) /\ TransferEncoding(C).error = "none"
  BY <1>2, <1>3, AcceptedKinds
<1> HIDE DEF C
<1> QED BY <1>3, <1>4, CodingIs

\* The native backend accepts it: the bridge does, unless the head has grown too large.
LEMMA BridgeAccepts ==
    ASSUME NEW r \in Request, ParseError(r) = "none", decide(Made(r)).error = "none",
           ~(Counted(r) > MaxHead)
    PROVE  BridgeVerdict(r) = decide(Made(r)) /\ SameRequest(Made(r), HyperHead(r))
<1> DEFINE h == Made(r)
           g == HyperHead(r)
           t == r.target
           m == r.method
           u == UriTarget(t)
<1>1. t \in Bytes /\ h.headers = r.headers /\ r.headers \in Seq(Header) /\ DOMAIN t = 1..Len(t)
  BY RequestBytes DEF Made, HeadNew, Bytes
<1>2. HyperFields(r.headers) = r.headers
  BY <1>1, AcceptedOnceFramed DEF HyperFields
<1>3. h = HeadNew(m, t, r.version, r.headers) /\ g = HeadNew(m, u, r.version, r.headers)
  BY <1>2 DEF Made, HyperHead
<1>4. validate_request_target(t, m) /\ ~(Len(r.headers) > MaxHeaders)
  BY DEF ParseError
<1>5. \A i \in 1..Len(t) : t[i] # "#"
  BY <1>1, <1>4, NotInTarget DEF validate_request_target
<1>6. PartsAlike(t, u) /\ validate_request_target(u, m)
  BY <1>1, <1>4, <1>5, UriKeeps
<1>7. g.headers = r.headers /\ g.target = u /\ g.method = m
  BY <1>3 DEF HeadNew
<1> HIDE DEF h, g, t, m, u
<1>8. decide(g) = decide(h) /\ SameRequest(h, g)
  BY <1>1, <1>3, <1>4, <1>6, DecidedAlike, AuthorityAlike
<1>9. ~(DeclaredLen(g.headers) > MaxBody)
  <2>1. decide(g).error = "none"
    BY <1>8 DEF h
  <2> QED BY <1>1, <1>7, <2>1, DeclaredFits
<1>10. convert_head(r) = "none"
  BY <1>4, <1>6, <1>7, <1>9 DEF convert_head, g
<1> QED BY <1>8, <1>10 DEF BridgeVerdict, g, h

\* The bridge accepts it: the native backend does, unless it had a fragment or was
\* framed twice.
LEMMA BridgeAcceptsNoMore ==
    ASSUME NEW r \in Request, prescan(r.region) = "none", BridgeVerdict(r).error = "none",
           ~Contains(r.target, "#"), ~TwiceFramed(r.headers)
    PROVE  ParseError(r) = "none" /\ decide(Made(r)).error = "none"
<1> DEFINE h == Made(r)
           g == HyperHead(r)
           t == r.target
           m == r.method
           u == UriTarget(t)
<1>0. \A e : Refuse(e).error = e
  BY DEF Refuse
<1>1. t \in Bytes /\ r.headers \in Seq(Header) /\ Len(t) \in Nat /\ Len(r.headers) \in Nat
      /\ Len(r.region) \in Nat
  <2>1. r.region \in Seq(STRING)
    BY DEF Request
  <2> QED BY <2>1, RequestBytes DEF Bytes
<1>2. convert_head(r) = "none" /\ decide(g).error = "none"
  BY <1>0 DEF BridgeVerdict
<1>3. h = HeadNew(m, t, r.version, r.headers) /\ g = HeadNew(m, u, r.version, r.headers)
  BY DEF Made, HyperHead, HyperFields
<1>4. g.headers = r.headers /\ g.target = u /\ g.method = m
  BY <1>3 DEF HeadNew
<1>5. ~(Len(r.headers) > MaxHeaders) /\ ~(Counted(r) > MaxHead) /\ validate_request_target(u, m)
  <2>1. /\ ~(Len(g.headers) > MaxHeaders) /\ ~(Counted(r) > MaxHead)
        /\ validate_request_target(g.target, g.method)
    BY <1>2 DEF convert_head
  <2> QED BY <1>4, <2>1
<1>6. \A i \in 1..Len(t) : t[i] # "#"
  BY DEF Contains
<1>7. Counted(r) = Len(r.region) - Len(t) + Len(u)
  BY DEF Counted
<1> HIDE DEF h, g, t, m, u
<1>8. u \in Bytes /\ Len(t) <= Len(u) /\ PartsAlike(t, u) /\ validate_request_target(t, m)
  <2>1. u = UriTarget(t)
    BY DEF u
  <2> QED BY <1>1, <1>5, <1>6, <2>1, UriKeeps
<1>9. decide(g) = decide(h)
  BY <1>1, <1>3, <1>8, DecidedAlike
<1>10. ~(Len(r.region) > MaxHead)
  <2>1. Len(u) \in Nat
    BY <1>8 DEF Bytes
  <2>2. MaxHead \in Nat
    BY FramingAssumption
  <2> QED BY <1>1, <1>5, <1>7, <1>8, <2>1, <2>2
<1>11. Tokenized(Len(r.headers))
  <2>1. /\ MaxHeaders \in 0..MAX_HEADERS_CEILING /\ MAX_HEADERS_CEILING \in Nat
        /\ HEADER_SCRATCH_TIER1 \in Nat /\ HEADER_SCRATCH_TIER1 <= MAX_HEADERS_CEILING
    BY FramingAssumption
  <2> QED BY <1>1, <1>5, <2>1 DEF Tokenized
<1>12. ParseError(r) = "none"
  BY <1>5, <1>8, <1>10, <1>11 DEF ParseError, t, m
<1> QED BY <1>2, <1>9, <1>12 DEF h

\* The hyper backend and the native one accept the same requests, frame them the same
\* and show a handler the same path, query and authority, but for what http::Uri and
\* hyper do before convert_head: targets with a fragment and a length beside chunked
\* are accepted by the hyper backend alone, the latter as chunked, and a head that
\* http::Uri's slash makes larger than max_head_bytes by the native one alone.
THEOREM BackendsAcceptAlike == BridgeSpec => []RequestsAgree
<1>1. HeadOnItsWay => RequestsAgree
  <2> SUFFICES ASSUME HeadOnItsWay, stage \in {"accepted", "refused"},
                      prescan(request.region) = "none",
                      NEW bridged, bridged = BridgeVerdict(request)
               PROVE  /\ verdict.error = "none" /\ Counted(request) <= MaxHead =>
                             bridged = verdict /\ SameRequest(head, HyperHead(request))
                      /\ bridged.error = "none" =>
                             \/ verdict.error = "none"
                             \/ Contains(request.target, "#")
                             \/ TwiceFramed(request.headers) /\ bridged = Kind("Chunked", 0)
    BY DEF RequestsAgree
  <2>0. \A e : Refuse(e).error = e
    BY DEF Refuse
  <2>1. request \in Request /\ request.headers \in Seq(Header)
    BY RequestBytes DEF HeadOnItsWay
  <2>2. IF ParseError(request) = "none"
        THEN head = Made(request) /\ verdict = decide(Made(request))
        ELSE verdict.error # "none"
    BY <2>0 DEF HeadOnItsWay
  <2>3. ASSUME verdict.error = "none", Counted(request) <= MaxHead
        PROVE  bridged = verdict /\ SameRequest(head, HyperHead(request))
    <3>1. ParseError(request) = "none" /\ decide(Made(request)).error = "none"
      BY <2>2, <2>3
    <3>2. ~(Counted(request) > MaxHead)
      <4>1. Counted(request) \in Int /\ MaxHead \in Nat
        <5>1. Len(request.region) \in Nat /\ Len(request.target) \in Nat
          BY <2>1 DEF Request
        <5>2. UriTarget(request.target) \in Bytes
          <6>1. validate_target(request.target)
            BY <3>1 DEF ParseError, validate_request_target
          <6>2. request.target \in Bytes
            BY <2>1, RequestBytes
          <6>3. \A i \in 1..Len(request.target) : request.target[i] # "#"
            BY <6>1, <6>2, NotInTarget DEF Bytes
          <6> QED BY <6>2, <6>3, UriKeeps
        <5>3. Len(UriTarget(request.target)) \in Nat
          BY <5>2 DEF Bytes
        <5> QED BY <5>1, <5>3, FramingAssumption DEF Counted
      <4> QED BY <2>3, <4>1
    <3> QED BY <2>1, <2>2, <3>1, <3>2, BridgeAccepts
  <2>4. ASSUME bridged.error = "none", ~Contains(request.target, "#"), ~TwiceFramed(request.headers)
        PROVE  verdict.error = "none"
    BY <2>1, <2>2, <2>4, BridgeAcceptsNoMore
  <2>5. ASSUME bridged.error = "none", TwiceFramed(request.headers)
        PROVE  bridged = Kind("Chunked", 0)
    <3>1. bridged = decide(HyperHead(request))
      BY <2>0, <2>5 DEF BridgeVerdict
    <3>2. HyperHead(request).headers = HyperFields(request.headers)
      BY DEF HyperHead, HeadNew
    <3> QED BY <2>1, <2>5, <3>1, <3>2, TwiceFramedIsChunked
  <2> QED BY <2>3, <2>4, <2>5
<1> QED BY <1>1, OnItsWay, PTL

-----------------------------------------------------------------------------
(* Fields, and the lists of tokens in them.                                *)

\* The names that the server decides on.
Decided == {"ContentLength", "TransferEncoding", "Connection", "Date", "Server"}

\* A name's canonical spelling is spelled so.
LEMMA CanonicalIs ==
    ASSUME NEW id \in Name
    PROVE  canonical(id) \in Name /\ canonical(canonical(id)) = canonical(id)
<1>1. canonical(id) = id \/ canonical(id) \in Decided
  BY DEF canonical, Decided
<1>2. \A c \in Decided : canonical(c) = c
  BY DEF canonical, Decided
<1>3. Decided \subseteq Name
  BY Zenon DEF Name, Decided
<1> QED BY <1>1, <1>2, <1>3

\* The field's value, if it is that field.
ValueOf(id) == [f \in Header |-> IF canonical(f.id) = id THEN <<f.value>> ELSE <<>>]

\* The field, if it is that one and can be written.
Pick(id) == [f \in Header |-> IF writable(f) /\ canonical(f.id) = id THEN <<f>> ELSE <<>>]

\* The token, if it is one to pass on.
Keep == [t \in Bytes |-> IF Passed(t) THEN <<t>> ELSE <<>>]

\* A value's elements.
ElementsOf == [v \in Bytes |-> Elements(v)]

\* The tokens that a field adds.
TokensOf == [f \in Header |-> IF canonical(f.id) = "Connection" THEN connection_tokens(f.value) ELSE <<>>]

\* Named reads field by field.
LEMMA NamedIs ==
    ASSUME NEW id, NEW a, a.fields \in Seq(Header)
    PROVE  /\ ValueOf(id) \in [Header -> Seq(Bytes)]
           /\ Named(a, id) = FlatMap(a.fields, ValueOf(id))
<1> DEFINE s == a.fields
<1>1. DOMAIN s = 1..Len(s) /\ \A i \in DOMAIN s : s[i] \in Header
  OBVIOUS
<1>2. \A f \in Header : ValueOf(id)[f] = IF canonical(f.id) = id THEN <<f.value>> ELSE <<>>
  BY DEF ValueOf
<1>3. ValueOf(id) \in [Header -> Seq(Bytes)]
  <2>1. \A f \in Header : f.value \in Bytes
    BY DEF Header
  <2> QED BY <2>1 DEF ValueOf
<1>4. Named(a, id) =
          FlattenSeq([i \in DOMAIN s |-> IF canonical(s[i].id) = id THEN <<s[i].value>> ELSE <<>>])
  BY DEF Named
<1> HIDE DEF s
<1>5. \A i \in DOMAIN s :
          ValueOf(id)[s[i]] = IF canonical(s[i].id) = id THEN <<s[i].value>> ELSE <<>>
  BY <1>1, <1>2
<1>6. [i \in DOMAIN s |-> IF canonical(s[i].id) = id THEN <<s[i].value>> ELSE <<>>]
      = [i \in DOMAIN s |-> ValueOf(id)[s[i]]]
  BY <1>5
<1> QED BY <1>3, <1>4, <1>6 DEF FlatMap, s

\* Emitted picks field by field.
LEMMA EmittedIs ==
    ASSUME NEW id, NEW s \in Seq(Header)
    PROVE  /\ Pick(id) \in [Header -> Seq(Header)]
           /\ Emitted(s, id) = FlatMap(s, Pick(id)) /\ Emitted(s, id) \in Seq(Header)
<1>1. DOMAIN s = 1..Len(s) /\ \A i \in DOMAIN s : s[i] \in Header
  OBVIOUS
<1>2. \A f \in Header : Pick(id)[f] = IF writable(f) /\ canonical(f.id) = id THEN <<f>> ELSE <<>>
  BY DEF Pick
<1>3. Pick(id) \in [Header -> Seq(Header)]
  BY DEF Pick
<1>4. Emitted(s, id) =
          FlattenSeq([i \in DOMAIN s |->
                          IF writable(s[i]) /\ canonical(s[i].id) = id THEN <<s[i]>> ELSE <<>>])
  BY DEF Emitted, Only
<1>5. \A i \in DOMAIN s :
          Pick(id)[s[i]] = IF writable(s[i]) /\ canonical(s[i].id) = id THEN <<s[i]>> ELSE <<>>
  BY <1>1, <1>2
<1>6. [i \in DOMAIN s |-> IF writable(s[i]) /\ canonical(s[i].id) = id THEN <<s[i]>> ELSE <<>>]
      = [i \in DOMAIN s |-> Pick(id)[s[i]]]
  BY <1>5
<1>7. Emitted(s, id) = FlatMap(s, Pick(id))
  BY <1>4, <1>6 DEF FlatMap
<1>8. OneByOneMap(Header, Header, Pick(id))
  BY <1>3, MapIs
<1> QED BY <1>3, <1>7, <1>8 DEF OneByOneMap

\* All elements are the elements of each.
LEMMA ElementsMap ==
    /\ ElementsOf \in [Bytes -> Seq(Bytes)]
    /\ \A vs \in Seq(Bytes) : AllElements(vs) = FlatMap(vs, ElementsOf)
<1>1. ElementsOf \in [Bytes -> Seq(Bytes)]
  BY ElementsTyped DEF ElementsOf
<1>2. ASSUME NEW vs \in Seq(Bytes) PROVE AllElements(vs) = FlatMap(vs, ElementsOf)
  <2>1. \A i \in DOMAIN vs : vs[i] \in Bytes
    OBVIOUS
  <2>2. \A i \in DOMAIN vs : ElementsOf[vs[i]] = Elements(vs[i])
    BY <2>1 DEF ElementsOf
  <2>3. [i \in DOMAIN vs |-> Elements(vs[i])] = [i \in DOMAIN vs |-> ElementsOf[vs[i]]]
    BY <2>2
  <2> QED BY <2>3 DEF AllElements, FlatMap
<1> QED BY <1>1, <1>2

\* connection_tokens lets through what Passed allows.
LEMMA TokensPassed ==
    ASSUME NEW v \in Bytes
    PROVE  connection_tokens(v) \in Seq(Bytes) /\ \A t \in ToSet(connection_tokens(v)) : Passed(t)
<1> DEFINE s == Elements(v)
<1>1. s \in Seq(Bytes)
  BY ElementsTyped
<1>2. connection_tokens(v) = FlattenSeq([i \in DOMAIN s |-> IF Passed(s[i]) THEN <<s[i]>> ELSE <<>>])
  BY DEF connection_tokens, Only
<1> HIDE DEF s
<1>3. \A i \in DOMAIN s : s[i] \in Bytes
  BY <1>1
<1>4. \A t \in Bytes : Keep[t] = IF Passed(t) THEN <<t>> ELSE <<>>
  BY DEF Keep
<1>5. [i \in DOMAIN s |-> IF Passed(s[i]) THEN <<s[i]>> ELSE <<>>] = [i \in DOMAIN s |-> Keep[s[i]]]
  BY <1>3, <1>4
<1>6. Keep \in [Bytes -> Seq(Bytes)]
  BY DEF Keep
<1>7. connection_tokens(v) = FlatMap(s, Keep)
  BY <1>2, <1>5 DEF FlatMap
<1>8. connection_tokens(v) \in Seq(Bytes)
  <2>1. OneByOneMap(Bytes, Bytes, Keep)
    BY <1>6, MapIs
  <2> QED BY <1>1, <1>7, <2>1 DEF OneByOneMap
<1>9. ToSet(connection_tokens(v)) = UNION {ToSet(Keep[t]) : t \in ToSet(s)}
  BY <1>1, <1>6, <1>7, MapSet
<1>10. ToSet(s) \subseteq Bytes
  BY <1>1, SetIs
<1>11. ASSUME NEW t \in ToSet(connection_tokens(v)) PROVE Passed(t)
  <2>1. PICK u \in ToSet(s) : t \in ToSet(Keep[u])
    BY <1>9
  <2>2. CASE Passed(u)
    <3>1. ToSet(Keep[u]) = {u}
      BY <1>4, <1>10, <2>2, SetSmall
    <3> QED BY <2>1, <2>2, <3>1
  <2>3. CASE ~Passed(u)
    <3>1. ToSet(Keep[u]) = {}
      BY <1>4, <1>10, <2>3, SetSmall
    <3> QED BY <2>1, <3>1
  <2> QED BY <2>2, <2>3
<1> QED BY <1>8, <1>11

\* A symbol that ends a field.
Ends(b) == b = "crlf"

\* A value with nothing in it that lists are split at, or fields.
Solid(t) == t \in Bytes /\ t # <<>> /\ \A i \in DOMAIN t : ~IsComma(t[i]) /\ ~IsBlank(t[i]) /\ ~Ends(t[i])

\* A token is such a value.
LEMMA PassedWhole ==
    ASSUME NEW t \in Bytes, Passed(t)
    PROVE  Solid(t)
<1>1. ASSUME NEW b, is_tchar(b) PROVE ~IsComma(b) /\ ~IsBlank(b) /\ ~Ends(b)
  <2>1. CASE is_ascii_digit(b)
    <3>1. b \in DecimalDigits
      BY <2>1, DigitSymbol
    <3> QED BY <3>1 DEF DecimalDigits, IsComma, IsBlank, Ends
  <2>2. CASE is_ascii_alphabetic(b)
    BY <2>2 DEF is_ascii_alphabetic, IsComma, IsBlank, Ends
  <2>3. CASE b \in Words \cup {"+", "-", ".", "*", "%"}
    BY <2>3 DEF Words, IsComma, IsBlank, Ends
  <2> QED BY <1>1, <2>1, <2>2, <2>3 DEF is_tchar, is_ascii_alphanumeric
<1> QED BY <1>1 DEF Passed, Solid

\* There is nothing to trim from it, and it is the one element of itself.
LEMMA WholeElement ==
    ASSUME NEW t, Solid(t)
    PROVE  Elements(t) = <<t>>
<1>1. t \in Bytes /\ NoComma(t) /\ t # <<>> /\ \A i \in DOMAIN t : ~IsBlank(t[i])
  BY DEF Solid, NoComma
<1>2. Elements(t) = <<trim_ows(t)>>
  BY <1>1, OnePart
<1> DEFINE n == Len(t)
           kept == {i \in DOMAIN t : t[i] # " "}
           lo == CHOOSE i \in kept : \A j \in kept : i <= j
           hi == CHOOSE i \in kept : \A j \in kept : i >= j
<1>3. n \in Nat /\ n >= 1 /\ DOMAIN t = 1..n
  BY <1>1 DEF Bytes
<1>4. kept = 1..n
  BY <1>1, <1>3 DEF IsBlank
<1>5. trim_ows(t) = IF kept = {} THEN <<>> ELSE SubSeq(t, lo, hi)
  BY DEF trim_ows
<1> HIDE DEF kept, n
<1>6. kept # {} /\ 1 \in kept /\ n \in kept
  BY <1>3, <1>4
<1>7. lo \in kept /\ \A j \in kept : lo <= j
  <2>1. \E i \in kept : \A j \in kept : i <= j
    BY <1>3, <1>4, <1>6
  <2> QED BY <2>1
<1>8. hi \in kept /\ \A j \in kept : hi >= j
  <2>1. \E i \in kept : \A j \in kept : i >= j
    BY <1>3, <1>4, <1>6
  <2> QED BY <2>1
<1> HIDE DEF lo, hi
<1>9. lo = 1 /\ hi = n
  BY <1>3, <1>4, <1>6, <1>7, <1>8
<1>10. SubSeq(t, 1, n) = t
  BY <1>1 DEF n, Bytes
<1> QED BY <1>2, <1>5, <1>6, <1>9, <1>10

\* Tokens are the elements of themselves.
LEMMA WholeElements ==
    ASSUME NEW ts \in Seq(Bytes), \A t \in ToSet(ts) : Solid(t)
    PROVE  AllElements(ts) = ts
<1> DEFINE S == {r \in Seq(Bytes) : (\A t \in ToSet(r) : Solid(t)) => AllElements(r) = r}
<1>1. <<>> \in S
  BY AllElementsIs
<1>2. ASSUME NEW r \in Seq(Bytes), NEW v \in Bytes PROVE r \in S => Append(r, v) \in S
  <2> SUFFICES ASSUME r \in S, \A t \in ToSet(Append(r, v)) : Solid(t)
               PROVE  AllElements(Append(r, v)) = Append(r, v)
    OBVIOUS
  <2>1. ToSet(Append(r, v)) = ToSet(r) \cup {v}
    BY SetAppend
  <2>2. AllElements(r) = r /\ Elements(v) = <<v>>
    BY <2>1, WholeElement
  <2>3. AllElements(Append(r, v)) = AllElements(r) \o Elements(v)
    BY AllElementsIs
  <2>4. r \o <<v>> = Append(r, v)
    BY AppendConcat
  <2> QED BY <2>2, <2>3, <2>4
<1>3. Seq(Bytes) \subseteq S
  <2> HIDE DEF S
  <2> QED BY <1>1, <1>2, SeqInduction
<1> QED BY <1>3

-----------------------------------------------------------------------------
(* What a peer reads in the fields that are written.                       *)

\* The values of a name's fields among fs.
In(fs, id) == FlatMap(fs, ValueOf(id))

\* In, part by part.
LEMMA InIs ==
    ASSUME NEW id
    PROVE  /\ In(<<>>, id) = <<>>
           /\ \A p \in Seq(Header) : In(p, id) \in Seq(Bytes)
           /\ \A p \in Seq(Header), q \in Seq(Header) : In(p \o q, id) = In(p, id) \o In(q, id)
           /\ \A f \in Header : In(<<f>>, id) = IF canonical(f.id) = id THEN <<f.value>> ELSE <<>>
<1>1. ValueOf(id) \in [Header -> Seq(Bytes)]
  <2>1. \A f \in Header : f.value \in Bytes
    BY DEF Header
  <2> QED BY <2>1 DEF ValueOf
<1>2. OneByOneMap(Header, Bytes, ValueOf(id))
  BY <1>1, MapIs
<1>3. \A f \in Header : ValueOf(id)[f] = IF canonical(f.id) = id THEN <<f.value>> ELSE <<>>
  BY DEF ValueOf
<1>4. ASSUME NEW p \in Seq(Header), NEW q \in Seq(Header)
      PROVE  FlatMap(p \o q, ValueOf(id)) = FlatMap(p, ValueOf(id)) \o FlatMap(q, ValueOf(id))
  BY <1>1, MapConcat
<1>5. ASSUME NEW f \in Header PROVE FlatMap(<<f>>, ValueOf(id)) = ValueOf(id)[f]
  BY <1>1, MapUnit
<1> QED BY <1>2, <1>3, <1>4, <1>5 DEF In, OneByOneMap

\* No value of fs ends its field.
Unbroken(fs) == \A f \in ToSet(fs) : \A i \in DOMAIN f.value : ~Ends(f.value[i])

\* Values that have no end of a field in them still have none when they are joined.
LEMMA CommaUnbroken ==
    ASSUME NEW ts \in Seq(Bytes), ts # <<>>, \A t \in ToSet(ts) : Solid(t)
    PROVE  Comma(ts) \in Bytes /\ \A i \in DOMAIN Comma(ts) : ~Ends(Comma(ts)[i])
<1> DEFINE Sound(v) == v \in Bytes /\ \A b \in ToSet(v) : ~Ends(b)
           S == {r \in Seq(Bytes) : r # <<>> /\ (\A t \in ToSet(r) : Solid(t)) => Sound(Comma(r))}
<1>1. <<>> \in S
  OBVIOUS
<1>2. ASSUME NEW r \in Seq(Bytes), NEW v \in Bytes PROVE r \in S => Append(r, v) \in S
  <2> SUFFICES ASSUME r \in S, \A t \in ToSet(Append(r, v)) : Solid(t)
               PROVE  Sound(Comma(Append(r, v)))
    OBVIOUS
  <2>1. ToSet(Append(r, v)) = ToSet(r) \cup {v}
    BY SetAppend
  <2>2. Sound(v)
    BY <2>1 DEF Solid, ToSet
  <2>3. CASE r = <<>>
    <3>1. Append(r, v) = <<v>>
      BY <2>3
    <3> QED BY <2>2, <3>1, CommaOne
  <2>4. CASE r # <<>>
    <3>1. PICK c \in Byte : IsComma(c)
      BY SomeComma
    <3>2. Comma(r) \in Bytes /\ Comma(Append(r, v)) = Append(Comma(r), c) \o v
      BY <2>4, <3>1, CommaAppend
    <3>3. Sound(Comma(r))
      BY <2>1, <2>4
    <3> DEFINE p == Comma(r)
    <3> HIDE DEF p
    <3>4. Append(p, c) \in Seq(Byte) /\ ToSet(Append(p, c)) = ToSet(p) \cup {c}
      BY <3>2, SetAppend DEF p, Bytes
    <3> DEFINE q == Append(p, c)
    <3> HIDE DEF q
    <3>5. q \o v \in Bytes /\ ToSet(q \o v) = ToSet(q) \cup ToSet(v)
      <4>1. q \in Seq(Byte) /\ v \in Seq(Byte)
        BY <3>4 DEF q, Bytes
      <4>2. q \o v \in Seq(Byte)
        BY <4>1
      <4> QED BY <4>1, <4>2, SetConcat DEF Bytes
    <3>6. ~Ends(c)
      BY <3>1 DEF IsComma, Ends
    <3>7. \A b \in ToSet(q \o v) : ~Ends(b)
      BY <2>2, <3>3, <3>4, <3>5, <3>6 DEF p, q
    <3> QED BY <3>2, <3>5, <3>7 DEF p, q
  <2> QED BY <2>3, <2>4
<1>3. Seq(Bytes) \subseteq S
  <2> HIDE DEF S
  <2> QED BY <1>1, <1>2, SeqInduction
<1>4. Sound(Comma(ts))
  BY <1>3
<1> QED BY <1>4 DEF ToSet

\* The one field that lists tokens is read back as those tokens.
LEMMA ListedIs ==
    ASSUME NEW ts \in Seq(Bytes), \A t \in ToSet(ts) : Solid(t), NEW fs, fs = Listed(ts)
    PROVE  /\ fs \in Seq(Header) /\ Unbroken(fs)
           /\ \A f \in ToSet(fs) : f.id = "Connection"
           /\ \A id : id # "Connection" => In(fs, id) = <<>>
           /\ AllElements(In(fs, "Connection")) = ts
<1>1. CASE ts = <<>>
  <2>1. fs = <<>> /\ ToSet(fs) = {} /\ fs \in Seq(Header)
    BY <1>1, SetSmall DEF Listed
  <2>2. \A id : In(<<>>, id) = <<>>
    BY InIs
  <2> QED BY <1>1, <2>1, <2>2, AllElementsIs DEF Unbroken
<1>2. CASE ts # <<>>
  <2> DEFINE v == Comma(ts)
             f == [id |-> "Connection", value |-> v]
  <2>1. v \in Bytes /\ \A i \in DOMAIN v : ~Ends(v[i])
    BY <1>2, CommaUnbroken
  <2>2. Elements(v) = ts
    <3>1. Elements(v) = AllElements(ts)
      BY <1>2, AllCombined DEF Combined
    <3> QED BY <3>1, WholeElements
  <2>3. fs = <<f>>
    BY <1>2 DEF Listed
  <2> HIDE DEF v
  <2>4. f \in Header /\ f.id = "Connection" /\ f.value = v /\ canonical(f.id) = "Connection"
    <3>1. "Connection" \in Name
      BY Zenon DEF Name
    <3>2. canonical("Connection") = "Connection"
      BY DEF canonical
    <3> QED BY <2>1, <3>1, <3>2 DEF Header
  <2> HIDE DEF f
  <2>5. ToSet(fs) = {f} /\ fs \in Seq(Header)
    BY <2>3, <2>4, SetSmall
  <2>6. \A id : In(fs, id) = IF canonical(f.id) = id THEN <<f.value>> ELSE <<>>
    BY <2>3, <2>4, InIs
  <2>7. AllElements(In(fs, "Connection")) = Elements(v)
    BY <2>1, <2>4, <2>6, OneElements
  <2> QED BY <2>1, <2>2, <2>4, <2>5, <2>6, <2>7 DEF Unbroken
<1> QED BY <1>1, <1>2

\* What Emit makes of a field.
EmitAs(sl, sc) == [f \in Header |-> Emit(f, sl, sc)]

\* Emit, case by case.
LEMMA EmitIs ==
    ASSUME NEW sl, NEW sc, NEW f \in Header, NEW c, c = canonical(f.id), NEW e, e = Emit(f, sl, sc)
    PROVE  /\ e \in Seq(Header) /\ Unbroken(e)
           /\ EmitAs(sl, sc)[f] = e
           /\ c = "Connection" => e = Listed(connection_tokens(f.value))
           /\ c # "Connection" =>
                  e = IF (c = "ContentLength" /\ sl) \/ (c = "TransferEncoding" /\ sc) \/ ~writable(f)
                      THEN <<>> ELSE <<[id |-> c, value |-> f.value]>>
<1>1. f.id \in Name /\ f.value \in Bytes
  BY DEF Header
<1>2. EmitAs(sl, sc)[f] = e
  BY DEF EmitAs
<1>3. c = "Connection" => e = Listed(connection_tokens(f.value))
  BY DEF Emit
<1>4. c # "Connection" =>
          e = IF (c = "ContentLength" /\ sl) \/ (c = "TransferEncoding" /\ sc) \/ ~writable(f)
              THEN <<>> ELSE <<[id |-> c, value |-> f.value]>>
  BY DEF Emit
<1>5. CASE c = "Connection"
  <2>1. connection_tokens(f.value) \in Seq(Bytes)
        /\ \A t \in ToSet(connection_tokens(f.value)) : Passed(t)
    BY <1>1, TokensPassed
  <2>2. \A t \in ToSet(connection_tokens(f.value)) : t \in Bytes
    BY <2>1, SetIs
  <2>3. \A t \in ToSet(connection_tokens(f.value)) : Solid(t)
    BY <2>1, <2>2, PassedWhole
  <2>4. e \in Seq(Header) /\ Unbroken(e)
    BY <1>3, <1>5, <2>1, <2>3, ListedIs
  <2> QED BY <1>2, <1>3, <1>4, <2>4
<1>6. CASE c # "Connection"
  <2> DEFINE g == [id |-> c, value |-> f.value]
  <2>1. g \in Header /\ g.value = f.value
    BY <1>1, CanonicalIs DEF Header
  <2>2. e = <<>> \/ (e = <<g>> /\ writable(f))
    BY <1>4, <1>6
  <2> HIDE DEF g
  <2>3. ToSet(<<>>) = {} /\ ToSet(<<g>>) = {g}
    BY SetSmall
  <2>4. writable(f) => \A i \in DOMAIN f.value : ~Ends(f.value[i])
    BY <1>1 DEF writable, valid_field_value, Contains, Ends, Bytes
  <2>5. e \in Seq(Header) /\ Unbroken(e)
    <3>1. CASE e = <<>>
      BY <2>3, <3>1 DEF Unbroken
    <3>2. CASE e = <<g>> /\ writable(f)
      <4>1. ToSet(e) = {g} /\ e \in Seq(Header)
        BY <2>1, <2>3, <3>2
      <4>2. \A i \in DOMAIN g.value : ~Ends(g.value[i])
        BY <2>1, <2>4, <3>2
      <4> QED BY <4>1, <4>2 DEF Unbroken
    <3> QED BY <2>2, <3>1, <3>2
  <2> QED BY <1>2, <1>3, <1>4, <2>5
<1> QED BY <1>5, <1>6

\* A field's value.
Val == [f \in Header |-> <<f.value>>]

\* The values among fields that e makes of the handler's, where e leaves a field of
\* that name as it is, or drops it where none can be written or is wanted.
LEMMA ValuesKept ==
    ASSUME NEW s \in Seq(Header), NEW e \in [Header -> Seq(Header)], NEW id, NEW drop \in BOOLEAN,
           \A f \in Header : In(e[f], id) = IF canonical(f.id) = id /\ writable(f) /\ ~drop
                                            THEN <<f.value>> ELSE <<>>
    PROVE  In(FlatMap(s, e), id) = IF drop THEN <<>> ELSE FlatMap(Emitted(s, id), Val)
<1> DEFINE h == [f \in Header |-> IF canonical(f.id) = id /\ writable(f) /\ ~drop
                                  THEN <<f.value>> ELSE <<>>]
<1>1. \A f \in Header : f.value \in Bytes
  BY DEF Header
<1>2. h \in [Header -> Seq(Bytes)] /\ ValueOf(id) \in [Header -> Seq(Bytes)]
      /\ Val \in [Header -> Seq(Bytes)] /\ Pick(id) \in [Header -> Seq(Header)]
  BY <1>1 DEF ValueOf, Val, Pick
<1>3. \A f \in Header : h[f] = IF canonical(f.id) = id /\ writable(f) /\ ~drop
                               THEN <<f.value>> ELSE <<>>
  OBVIOUS
<1> HIDE DEF h
<1>4. \A f \in Header : h[f] = FlatMap(e[f], ValueOf(id))
  BY <1>3 DEF In
<1>5. In(FlatMap(s, e), id) = FlatMap(s, h)
  <2>1. Both(Header, e, ValueOf(id), h)
    BY <1>4 DEF Both
  <2>2. Maps(Header, Header, e) /\ Maps(Header, Bytes, ValueOf(id)) /\ Maps(Header, Bytes, h)
    BY <1>2 DEF Maps
  <2> QED BY <2>1, <2>2, MapMap DEF In
<1>6. CASE drop
  <2>1. ToSet(s) \subseteq Header
    BY SetIs
  <2>2. \A f \in ToSet(s) : h[f] = <<>>
    BY <1>3, <1>6, <2>1
  <2>3. FlatMap(s, h) = <<>>
    BY <1>2, <2>2, MapNone
  <2> QED BY <1>5, <1>6, <2>3
<1>7. CASE ~drop
  <2>1. ASSUME NEW f \in Header PROVE h[f] = FlatMap(Pick(id)[f], Val)
    <3>1. CASE writable(f) /\ canonical(f.id) = id
      <4>1. Pick(id)[f] = <<f>> /\ h[f] = <<f.value>> /\ Val[f] = <<f.value>>
        BY <1>3, <1>7, <3>1 DEF Pick, Val
      <4>2. FlatMap(<<f>>, Val) = Val[f]
        BY <1>2, MapUnit
      <4> QED BY <4>1, <4>2
    <3>2. CASE ~(writable(f) /\ canonical(f.id) = id)
      <4>1. Pick(id)[f] = <<>> /\ h[f] = <<>>
        BY <1>3, <3>2 DEF Pick
      <4>2. FlatMap(<<>>, Val) = <<>>
        <5>1. OneByOneMap(Header, Bytes, Val)
          BY <1>2, MapIs
        <5> QED BY <5>1 DEF OneByOneMap
      <4> QED BY <4>1, <4>2
    <3> QED BY <3>1, <3>2
  <2>2. FlatMap(FlatMap(s, Pick(id)), Val) = FlatMap(s, h)
    <3>1. Both(Header, Pick(id), Val, h)
      BY <2>1 DEF Both
    <3>2. Maps(Header, Header, Pick(id)) /\ Maps(Header, Bytes, Val) /\ Maps(Header, Bytes, h)
      BY <1>2 DEF Maps
    <3> QED BY <3>1, <3>2, MapMap
  <2>3. Emitted(s, id) = FlatMap(s, Pick(id))
    BY EmittedIs
  <2> QED BY <1>5, <1>7, <2>2, <2>3
<1> QED BY <1>6, <1>7

\* The tokens that a field adds are tokens.
LEMMA TokensOfIs ==
    /\ TokensOf \in [Header -> Seq(Bytes)]
    /\ \A f \in Header : \A t \in ToSet(TokensOf[f]) : Passed(t) /\ Solid(t)
<1>1. ASSUME NEW f \in Header
      PROVE  TokensOf[f] \in Seq(Bytes) /\ \A t \in ToSet(TokensOf[f]) : Passed(t)
  <2>1. TokensOf[f] = IF canonical(f.id) = "Connection" THEN connection_tokens(f.value) ELSE <<>>
    BY DEF TokensOf
  <2>2. f.value \in Bytes
    BY DEF Header
  <2>3. CASE canonical(f.id) = "Connection"
    BY <2>1, <2>2, <2>3, TokensPassed
  <2>4. CASE canonical(f.id) # "Connection"
    BY <2>1, <2>4, SetSmall
  <2> QED BY <2>3, <2>4
<1>2. TokensOf = [f \in Header |-> TokensOf[f]]
  BY DEF TokensOf
<1>3. TokensOf \in [Header -> Seq(Bytes)]
  BY <1>1, <1>2
<1>4. ASSUME NEW f \in Header, NEW t \in ToSet(TokensOf[f]) PROVE Passed(t) /\ Solid(t)
  <2>1. t \in Bytes
    BY <1>1, <1>4, SetIs
  <2> QED BY <1>1, <1>4, <2>1, PassedWhole
<1> QED BY <1>3, <1>4

\* The tokens of all of a handler's fields.
Theirs(s) == FlatMap(s, TokensOf)

\* They are tokens.
LEMMA TheirsIs ==
    ASSUME NEW s \in Seq(Header)
    PROVE  Theirs(s) \in Seq(Bytes) /\ \A t \in ToSet(Theirs(s)) : Passed(t) /\ Solid(t)
<1>1. OneByOneMap(Header, Bytes, TokensOf)
  BY TokensOfIs, MapIs
<1>2. Theirs(s) \in Seq(Bytes)
  BY <1>1 DEF OneByOneMap, Theirs
<1>3. ToSet(Theirs(s)) = UNION {ToSet(TokensOf[f]) : f \in ToSet(s)}
  BY TokensOfIs, MapSet DEF Theirs
<1>4. ToSet(s) \subseteq Header
  BY SetIs
<1>5. ASSUME NEW t \in ToSet(Theirs(s)) PROVE Passed(t) /\ Solid(t)
  <2>1. PICK f \in ToSet(s) : t \in ToSet(TokensOf[f])
    BY <1>3
  <2> QED BY <1>4, <2>1, TokensOfIs
<1> QED BY <1>2, <1>5

\* Fields that e makes of the handler's have their tokens, if each has.
LEMMA TokensKept ==
    ASSUME NEW s \in Seq(Header), NEW e \in [Header -> Seq(Header)],
           \A f \in Header : AllElements(In(e[f], "Connection")) = TokensOf[f]
    PROVE  AllElements(In(FlatMap(s, e), "Connection")) = Theirs(s)
<1> DEFINE c == "Connection"
           h == [f \in Header |-> In(e[f], c)]
<1>1. ValueOf(c) \in [Header -> Seq(Bytes)]
  <2>1. \A f \in Header : f.value \in Bytes
    BY DEF Header
  <2> QED BY <2>1 DEF ValueOf
<1>2. \A f \in Header : In(e[f], c) \in Seq(Bytes)
  BY InIs
<1>3. h \in [Header -> Seq(Bytes)] /\ \A f \in Header : h[f] = In(e[f], c)
  BY <1>2
<1> HIDE DEF h, c
<1>4. \A f \in Header : h[f] = FlatMap(e[f], ValueOf(c))
  BY <1>3 DEF In
<1>5. In(FlatMap(s, e), c) = FlatMap(s, h)
  <2>1. Both(Header, e, ValueOf(c), h)
    BY <1>4 DEF Both
  <2>2. Maps(Header, Header, e) /\ Maps(Header, Bytes, ValueOf(c)) /\ Maps(Header, Bytes, h)
    BY <1>1, <1>3 DEF Maps
  <2> QED BY <2>1, <2>2, MapMap DEF In
<1>6. FlatMap(s, h) \in Seq(Bytes)
  <2>1. OneByOneMap(Header, Bytes, h)
    BY <1>3, MapIs
  <2> QED BY <2>1 DEF OneByOneMap
<1>7. AllElements(FlatMap(s, h)) = FlatMap(FlatMap(s, h), ElementsOf)
  BY <1>6, ElementsMap
<1>8. ASSUME NEW f \in Header PROVE TokensOf[f] = FlatMap(h[f], ElementsOf)
  <2>1. h[f] \in Seq(Bytes)
    BY <1>3
  <2>2. AllElements(h[f]) = FlatMap(h[f], ElementsOf)
    BY <2>1, ElementsMap
  <2>3. AllElements(h[f]) = TokensOf[f]
    BY <1>3 DEF c
  <2> QED BY <2>2, <2>3
<1>9. FlatMap(FlatMap(s, h), ElementsOf) = FlatMap(s, TokensOf)
  <2>1. Both(Header, h, ElementsOf, TokensOf)
    BY <1>8 DEF Both
  <2>2. Maps(Header, Bytes, h) /\ Maps(Bytes, Bytes, ElementsOf) /\ Maps(Header, Bytes, TokensOf)
    BY <1>3, ElementsMap, TokensOfIs DEF Maps
  <2> QED BY <2>1, <2>2, MapMap
<1> QED BY <1>5, <1>7, <1>9 DEF Theirs, c

\* A list's elements, part by part.
LEMMA ElementsConcat ==
    ASSUME NEW p \in Seq(Bytes), NEW q \in Seq(Bytes)
    PROVE  AllElements(p \o q) = AllElements(p) \o AllElements(q)
<1>1. p \o q \in Seq(Bytes)
  BY ConcatProperties
<1>2. FlatMap(p \o q, ElementsOf) = FlatMap(p, ElementsOf) \o FlatMap(q, ElementsOf)
  BY ElementsMap, MapConcat
<1>3. /\ AllElements(p \o q) = FlatMap(p \o q, ElementsOf)
      /\ AllElements(p) = FlatMap(p, ElementsOf) /\ AllElements(q) = FlatMap(q, ElementsOf)
  BY <1>1, ElementsMap
<1> QED BY <1>2, <1>3

\* No value ends its field among fields that e makes of the handler's, if in none.
LEMMA UnbrokenKept ==
    ASSUME NEW s \in Seq(Header), NEW e \in [Header -> Seq(Header)], \A f \in Header : Unbroken(e[f])
    PROVE  FlatMap(s, e) \in Seq(Header) /\ Unbroken(FlatMap(s, e))
<1>1. OneByOneMap(Header, Header, e)
  BY MapIs
<1>2. FlatMap(s, e) \in Seq(Header)
  BY <1>1 DEF OneByOneMap
<1>3. ToSet(FlatMap(s, e)) = UNION {ToSet(e[f]) : f \in ToSet(s)}
  BY MapSet
<1>4. ToSet(s) \subseteq Header
  BY SetIs
<1>5. ASSUME NEW g \in ToSet(FlatMap(s, e)) PROVE \A i \in DOMAIN g.value : ~Ends(g.value[i])
  <2>1. PICK f \in ToSet(s) : g \in ToSet(e[f])
    BY <1>3
  <2>2. Unbroken(e[f])
    BY <1>4, <2>1
  <2> QED BY <2>1, <2>2 DEF Unbroken
<1> QED BY <1>2, <1>5 DEF Unbroken

-----------------------------------------------------------------------------
(* A head, by what a peer reads in it.                                     *)

\* The field, if it is another one that both backends write.
OtherOf == [f \in Header |-> IF f.id \notin Decided /\ HeaderValue(f.value) THEN <<f>> ELSE <<>>]

\* Those among fs.
OthersIn(fs) == FlatMap(fs, OtherOf)

\* OthersIn, part by part.
LEMMA OthersInIs ==
    /\ OtherOf \in [Header -> Seq(Header)]
    /\ OthersIn(<<>>) = <<>>
    /\ \A p \in Seq(Header) : OthersIn(p) \in Seq(Header)
    /\ \A p \in Seq(Header), q \in Seq(Header) : OthersIn(p \o q) = OthersIn(p) \o OthersIn(q)
    /\ \A f \in Header : OthersIn(<<f>>) = OtherOf[f]
<1>1. OtherOf \in [Header -> Seq(Header)]
  BY DEF OtherOf
<1>2. OneByOneMap(Header, Header, OtherOf)
  BY <1>1, MapIs
<1>3. ASSUME NEW p \in Seq(Header), NEW q \in Seq(Header)
      PROVE  FlatMap(p \o q, OtherOf) = FlatMap(p, OtherOf) \o FlatMap(q, OtherOf)
  BY <1>1, MapConcat
<1>4. ASSUME NEW f \in Header PROVE FlatMap(<<f>>, OtherOf) = OtherOf[f]
  BY <1>1, MapUnit
<1> QED BY <1>1, <1>2, <1>3, <1>4 DEF OthersIn, OneByOneMap

\* Others picks field by field.
LEMMA OthersIs ==
    ASSUME NEW a, a.fields \in Seq(Header)
    PROVE  Others(a) = OthersIn(a.fields)
<1> DEFINE s == a.fields
<1>1. \A i \in DOMAIN s : s[i] \in Header
  OBVIOUS
<1>2. \A f \in Header : OtherOf[f] = IF f.id \notin Decided /\ HeaderValue(f.value) THEN <<f>> ELSE <<>>
  BY DEF OtherOf
<1>3. Others(a) = FlattenSeq([i \in DOMAIN s |->
                      IF s[i].id \notin Decided /\ HeaderValue(s[i].value) THEN <<s[i]>> ELSE <<>>])
  BY DEF Others, Only, Decided
<1> HIDE DEF s
<1>4. [i \in DOMAIN s |-> IF s[i].id \notin Decided /\ HeaderValue(s[i].value) THEN <<s[i]>> ELSE <<>>]
      = [i \in DOMAIN s |-> OtherOf[s[i]]]
  BY <1>1, <1>2
<1> QED BY <1>3, <1>4 DEF FlatMap, OthersIn, s

\* The fields fs are sound, and have these lengths, codings, tokens and others.
Shows(fs, lens, codings, tokens, others) ==
    /\ fs \in Seq(Header) /\ Unbroken(fs)
    /\ In(fs, "ContentLength") = lens /\ In(fs, "TransferEncoding") = codings
    /\ AllElements(In(fs, "Connection")) = tokens
    /\ OthersIn(fs) = others

\* Part by part.
LEMMA ShowsBoth ==
    ASSUME NEW p, NEW q, NEW lp, NEW lq, NEW cp, NEW cq, NEW tp, NEW tq, NEW op, NEW oq,
           Shows(p, lp, cp, tp, op), Shows(q, lq, cq, tq, oq)
    PROVE  Shows(p \o q, lp \o lq, cp \o cq, tp \o tq, op \o oq)
<1>1. p \in Seq(Header) /\ q \in Seq(Header) /\ Unbroken(p) /\ Unbroken(q)
  BY DEF Shows
<1>2. p \o q \in Seq(Header) /\ ToSet(p \o q) = ToSet(p) \cup ToSet(q)
  <2>1. p \o q \in Seq(Header)
    BY <1>1, ConcatProperties
  <2> QED BY <1>1, <2>1, SetConcat
<1>3. Unbroken(p \o q)
  BY <1>1, <1>2 DEF Unbroken
<1>4. \A id : In(p \o q, id) = In(p, id) \o In(q, id)
  BY <1>1, InIs
<1>5. In(p, "Connection") \in Seq(Bytes) /\ In(q, "Connection") \in Seq(Bytes)
  BY <1>1, InIs
<1>6. AllElements(In(p \o q, "Connection"))
      = AllElements(In(p, "Connection")) \o AllElements(In(q, "Connection"))
  BY <1>4, <1>5, ElementsConcat
<1>7. OthersIn(p \o q) = OthersIn(p) \o OthersIn(q)
  BY <1>1, OthersInIs
<1> QED BY <1>2, <1>3, <1>4, <1>6, <1>7 DEF Shows

\* No fields show nothing.
LEMMA ShowsNone == Shows(<<>>, <<>>, <<>>, <<>>, <<>>)
<1>1. <<>> \in Seq(Header) /\ ToSet(<<>>) = {}
  BY SetSmall
<1>2. \A id : In(<<>>, id) = <<>>
  BY InIs
<1> QED BY <1>1, <1>2, AllElementsIs, OthersInIs DEF Shows, Unbroken

\* One of the server's own fields.
LEMMA ShowsOne ==
    ASSUME NEW id, id \in Decided, NEW v \in Bytes, \A i \in DOMAIN v : ~Ends(v[i])
    PROVE  Shows(<<[id |-> id, value |-> v]>>,
                 IF id = "ContentLength" THEN <<v>> ELSE <<>>,
                 IF id = "TransferEncoding" THEN <<v>> ELSE <<>>,
                 IF id = "Connection" THEN Elements(v) ELSE <<>>, <<>>)
<1> DEFINE f == [id |-> id, value |-> v]
<1>1. id \in Name
  BY Zenon DEF Decided, Name
<1>2. f \in Header /\ f.id = id /\ f.value = v
  BY <1>1 DEF Header
<1>3. canonical(id) = id
  BY DEF canonical, Decided
<1> HIDE DEF f
<1>4. <<f>> \in Seq(Header) /\ ToSet(<<f>>) = {f}
  BY <1>2, SetSmall
<1>5. Unbroken(<<f>>)
  BY <1>2, <1>4 DEF Unbroken
<1>6. \A d : In(<<f>>, d) = IF id = d THEN <<v>> ELSE <<>>
  BY <1>2, <1>3, InIs
<1>7. AllElements(<<v>>) = Elements(v) /\ AllElements(<<>>) = <<>>
  BY OneElements, AllElementsIs
<1>8. OthersIn(<<f>>) = <<>>
  BY <1>2, OthersInIs DEF OtherOf
<1>9. AllElements(In(<<f>>, "Connection")) = IF id = "Connection" THEN Elements(v) ELSE <<>>
  BY <1>6, <1>7
<1> QED BY <1>4, <1>5, <1>6, <1>8, <1>9 DEF Shows, f

\* The values of the fields of a name that can be written.
Given(hs, id) == FlatMap(Emitted(hs, id), Val)

\* None, or the one.
LEMMA GivenIs ==
    ASSUME NEW hs \in Seq(Header), NEW id
    PROVE  /\ Given(hs, id) \in Seq(Bytes)
           /\ Emitted(hs, id) = <<>> => Given(hs, id) = <<>>
           /\ Len(Emitted(hs, id)) = 1 => /\ Given(hs, id) = <<Emitted(hs, id)[1].value>>
                                          /\ Emitted(hs, id)[1].value \in Bytes
<1> DEFINE s == Emitted(hs, id)
<1>1. s \in Seq(Header)
  BY EmittedIs
<1>2. \A f \in Header : f.value \in Bytes
  BY DEF Header
<1>3. Val \in [Header -> Seq(Bytes)] /\ \A f \in Header : Val[f] = <<f.value>>
  BY <1>2 DEF Val
<1> HIDE DEF s
<1>4. OneByOneMap(Header, Bytes, Val)
  BY <1>3, MapIs
<1>5. ASSUME Len(s) = 1 PROVE FlatMap(s, Val) = <<s[1].value>> /\ s[1].value \in Bytes
  <2>1. s = <<s[1]>> /\ s[1] \in Header
    BY <1>1, <1>5
  <2> DEFINE f == s[1]
  <2>2. FlatMap(<<f>>, Val) = Val[f]
    <3> HIDE DEF f
    <3> QED BY <1>3, <2>1, MapUnit, SMTT(30) DEF f
  <2>3. FlatMap(s, Val) = FlatMap(<<f>>, Val)
    BY <2>1, Zenon
  <2>4. Val[f] = <<f.value>> /\ f.value \in Bytes
    BY <1>2, <1>3, <2>1
  <2> QED BY <2>2, <2>3, <2>4, Zenon
<1> QED BY <1>1, <1>4, <1>5 DEF Given, s, OneByOneMap

\* What both backends make of a field that the server does not decide on.
OtherAs == [f \in Header |->
               IF canonical(f.id) \notin Decided /\ valid_field_name(f.id) /\ HeaderValue(f.value)
               THEN <<[id |-> canonical(f.id), value |-> f.value]>> ELSE <<>>]

\* Fields that e makes of the handler's have its other fields, if each has.
LEMMA OthersKept ==
    ASSUME NEW s \in Seq(Header), NEW e \in [Header -> Seq(Header)],
           \A f \in Header : OthersIn(e[f]) = OtherAs[f]
    PROVE  OthersIn(FlatMap(s, e)) = FlatMap(s, OtherAs)
<1>1. OtherOf \in [Header -> Seq(Header)]
  BY OthersInIs
<1>2. \A f \in Header : OtherAs[f] \in Seq(Header)
  BY OthersInIs
<1>3. OtherAs = [f \in Header |-> OtherAs[f]]
  BY DEF OtherAs
<1>4. OtherAs \in [Header -> Seq(Header)]
  BY <1>2, <1>3
<1>5. Both(Header, e, OtherOf, OtherAs)
  BY DEF Both, OthersIn
<1>6. Maps(Header, Header, e) /\ Maps(Header, Header, OtherOf) /\ Maps(Header, Header, OtherAs)
  BY <1>1, <1>4 DEF Maps
<1> QED BY <1>5, <1>6, MapMap DEF OthersIn

\* What is read in what Emit makes of one field.
LEMMA EmitShows ==
    ASSUME NEW sl \in BOOLEAN, NEW sc \in BOOLEAN, NEW f \in Header, NEW e, e = EmitAs(sl, sc)[f]
    PROVE  /\ e \in Seq(Header) /\ Unbroken(e)
           /\ In(e, "ContentLength") =
                  IF canonical(f.id) = "ContentLength" /\ writable(f) /\ ~sl THEN <<f.value>> ELSE <<>>
           /\ In(e, "TransferEncoding") =
                  IF canonical(f.id) = "TransferEncoding" /\ writable(f) /\ ~sc THEN <<f.value>> ELSE <<>>
           /\ AllElements(In(e, "Connection")) = TokensOf[f]
           /\ OthersIn(e) = OtherAs[f]
<1> DEFINE c == canonical(f.id)
<1>0. f.id \in Name /\ f.value \in Bytes
  BY DEF Header
<1>1. /\ e \in Seq(Header) /\ Unbroken(e)
      /\ c = "Connection" => e = Listed(connection_tokens(f.value))
      /\ c # "Connection" =>
             e = IF (c = "ContentLength" /\ sl) \/ (c = "TransferEncoding" /\ sc) \/ ~writable(f)
                 THEN <<>> ELSE <<[id |-> c, value |-> f.value]>>
  BY EmitIs
<1>2. TokensOf[f] = IF c = "Connection" THEN connection_tokens(f.value) ELSE <<>>
  BY DEF TokensOf
<1>3. OtherAs[f] = IF c \notin Decided /\ valid_field_name(f.id) /\ HeaderValue(f.value)
                   THEN <<[id |-> c, value |-> f.value]>> ELSE <<>>
  BY DEF OtherAs
<1>4. CASE c = "Connection"
  <2> DEFINE ts == connection_tokens(f.value)
  <2>1. ts \in Seq(Bytes) /\ \A t \in ToSet(ts) : Solid(t)
    <3>1. ts = TokensOf[f]
      BY <1>2, <1>4
    <3>2. ToSet(ts) = ToSet(TokensOf[f])
      BY <3>1
    <3> HIDE DEF ts
    <3> QED BY <3>1, <3>2, TokensOfIs
  <2>2. e = Listed(ts)
    BY <1>1, <1>4
  <2> HIDE DEF ts
  <2>3. /\ \A g \in ToSet(e) : g.id = "Connection"
        /\ \A id : id # "Connection" => In(e, id) = <<>>
        /\ AllElements(In(e, "Connection")) = ts
    BY <2>1, <2>2, ListedIs
  <2>4. \A g \in ToSet(e) : OtherOf[g] = <<>>
    <3>1. ToSet(e) \subseteq Header
      BY <1>1, SetIs
    <3> QED BY <2>3, <3>1 DEF OtherOf, Decided
  <2>5. OthersIn(e) = <<>>
    BY <1>1, <2>4, OthersInIs, MapNone DEF OthersIn
  <2>6. OtherAs[f] = <<>>
    BY <1>3, <1>4 DEF Decided
  <2>7. TokensOf[f] = ts
    BY <1>2, <1>4 DEF ts
  <2>8. In(e, "ContentLength") = <<>> /\ In(e, "TransferEncoding") = <<>>
    BY <2>3
  <2> QED BY <1>1, <1>4, <2>3, <2>5, <2>6, <2>7, <2>8
<1>5. CASE c # "Connection"
  <2> DEFINE g == [id |-> c, value |-> f.value]
  <2>1. g \in Header /\ g.id = c /\ g.value = f.value /\ canonical(c) = c
    BY <1>0, CanonicalIs DEF Header
  <2>2. TokensOf[f] = <<>>
    BY <1>2, <1>5
  <2>a. e = IF (c = "ContentLength" /\ sl) \/ (c = "TransferEncoding" /\ sc) \/ ~writable(f)
            THEN <<>> ELSE <<g>>
    BY <1>1, <1>5
  <2>b. OtherAs[f] = IF c \notin Decided /\ valid_field_name(f.id) /\ HeaderValue(f.value) THEN <<g>> ELSE <<>>
    BY <1>3
  <2> HIDE DEF g, c
  <2>3. \A id : In(<<g>>, id) = IF c = id THEN <<f.value>> ELSE <<>>
    BY <2>1, InIs
  <2>4. (\A id : In(<<>>, id) = <<>>) /\ AllElements(<<>>) = <<>> /\ OthersIn(<<>>) = <<>>
    BY InIs, AllElementsIs, OthersInIs
  <2>5. OthersIn(<<g>>) = IF c \notin Decided /\ HeaderValue(f.value) THEN <<g>> ELSE <<>>
    BY <2>1, OthersInIs DEF OtherOf
  <2>6. CASE e = <<>>
    <3>1. (c = "ContentLength" /\ sl) \/ (c = "TransferEncoding" /\ sc) \/ ~writable(f)
      BY <2>a, <2>6
    <3>2. OtherAs[f] = <<>>
      BY <2>b, <3>1 DEF Decided, writable, HeaderValue
    <3> QED BY <1>1, <2>2, <2>4, <2>6, <3>1, <3>2 DEF c
  <2>7. CASE e = <<g>> /\ ~((c = "ContentLength" /\ sl) \/ (c = "TransferEncoding" /\ sc) \/ ~writable(f))
    <3>1. OthersIn(e) = OtherAs[f]
      BY <2>b, <2>5, <2>7 DEF writable
    <3>2. In(e, "Connection") = <<>>
      BY <1>5, <2>3, <2>7
    <3> QED BY <1>1, <2>2, <2>3, <2>4, <2>7, <3>1, <3>2 DEF c
  <2> QED BY <2>a, <2>6, <2>7
<1> QED BY <1>4, <1>5

\* What is read in what Emit makes of the handler's fields.
LEMMA WrittenShows ==
    ASSUME NEW sl \in BOOLEAN, NEW sc \in BOOLEAN, NEW hs \in Seq(Header)
    PROVE  Shows(FlatMap(hs, EmitAs(sl, sc)),
                 IF sl THEN <<>> ELSE Given(hs, "ContentLength"),
                 IF sc THEN <<>> ELSE Given(hs, "TransferEncoding"),
                 Theirs(hs), FlatMap(hs, OtherAs))
<1> DEFINE e == EmitAs(sl, sc)
<1>1. \A f \in Header :
          /\ e[f] \in Seq(Header) /\ Unbroken(e[f])
          /\ In(e[f], "ContentLength") =
                 IF canonical(f.id) = "ContentLength" /\ writable(f) /\ ~sl THEN <<f.value>> ELSE <<>>
          /\ In(e[f], "TransferEncoding") =
                 IF canonical(f.id) = "TransferEncoding" /\ writable(f) /\ ~sc THEN <<f.value>> ELSE <<>>
          /\ AllElements(In(e[f], "Connection")) = TokensOf[f]
          /\ OthersIn(e[f]) = OtherAs[f]
  BY EmitShows
<1>2. e = [f \in Header |-> e[f]]
  BY DEF EmitAs
<1> HIDE DEF e
<1>3. e \in [Header -> Seq(Header)]
  BY <1>1, <1>2
<1>4. FlatMap(hs, e) \in Seq(Header) /\ Unbroken(FlatMap(hs, e))
  BY <1>1, <1>3, UnbrokenKept
<1>5. In(FlatMap(hs, e), "ContentLength") = IF sl THEN <<>> ELSE Given(hs, "ContentLength")
  BY <1>1, <1>3, ValuesKept DEF Given
<1>6. In(FlatMap(hs, e), "TransferEncoding") = IF sc THEN <<>> ELSE Given(hs, "TransferEncoding")
  BY <1>1, <1>3, ValuesKept DEF Given
<1>7. AllElements(In(FlatMap(hs, e), "Connection")) = Theirs(hs)
  BY <1>1, <1>3, TokensKept
<1>8. OthersIn(FlatMap(hs, e)) = FlatMap(hs, OtherAs)
  BY <1>1, <1>3, OthersKept
<1> QED BY <1>4, <1>5, <1>6, <1>7, <1>8 DEF Shows, e

-----------------------------------------------------------------------------
(* A number, as it is written.                                             *)

\* The digits are worth what they are.
LEMMA DigitsAre ==
    ASSUME NEW m \in 0..9
    PROVE  is_ascii_digit(Digits[m + 1]) /\ Digit[Digits[m + 1]] = m
<1> DEFINE k == m + 1
           b == Digits[k]
<1>1. k \in 1..10 /\ DOMAIN Digits = 1..10
  BY DEF Digits
<1>2. ASSUME NEW i \in 1..10, Digits[i] = b PROVE i = k
  BY <1>1, <1>2 DEF Digits
<1> HIDE DEF k
<1>3. b \in ToSet(Digits)
  BY <1>1 DEF ToSet
<1>4. Digit[b] = (CHOOSE i \in DOMAIN Digits : Digits[i] = b) - 1
  BY <1>3 DEF Digit
<1>5. (CHOOSE i \in DOMAIN Digits : Digits[i] = b) = k
  BY <1>1, <1>2
<1>6. is_ascii_digit(b)
  BY <1>3 DEF is_ascii_digit, Digit
<1>7. Digit[b] = k - 1
  BY <1>4, <1>5
<1>8. k - 1 = m
  BY DEF k
<1> QED BY <1>6, <1>7, <1>8 DEF k

\* One more digit.
LEMMA PortValueAppend ==
    ASSUME NEW e, Numeral(e), NEW b, is_ascii_digit(b), b \in Byte
    PROVE  Numeral(Append(e, b)) /\ PortValue(Append(e, b)) = PortValue(e) * 10 + Digit[b]
<1> DEFINE n == Len(e)
           d == Append(e, b)
<1>1. n \in Nat /\ DOMAIN e = 1..n /\ e \in Seq(Byte)
  BY DEF Numeral, Bytes
<1>2. d \in Seq(Byte) /\ Len(d) = n + 1 /\ d[n + 1] = b /\ \A i \in 1..n : d[i] = e[i]
  BY <1>1
<1>3. Numeral(d)
  <2>1. DOMAIN d = 1..(n + 1)
    BY <1>1, <1>2
  <2>2. ASSUME NEW i \in DOMAIN d PROVE is_ascii_digit(d[i])
    <3>1. i \in 1..n \/ i = n + 1
      BY <1>1, <2>1
    <3> QED BY <1>1, <1>2, <3>1 DEF Numeral
  <2> QED BY <1>2, <2>2 DEF Numeral, Bytes
<1> HIDE DEF d
<1>4. PICK f \in [0..n -> Nat] :
           /\ f[0] = 0 /\ \A i \in 1..n : f[i] = f[i - 1] * 10 + Digit[e[i]]
           /\ PortValue(e) = f[n]
  BY PortValueIs
<1>5. PICK g \in [0..(n + 1) -> Nat] :
           /\ g[0] = 0 /\ \A i \in 1..(n + 1) : g[i] = g[i - 1] * 10 + Digit[d[i]]
           /\ PortValue(d) = g[n + 1]
  BY <1>2, <1>3, PortValueIs
<1> HIDE DEF n
<1>6. Together(n, g, f)
  <2>1. ASSUME NEW i \in 1..n, g[i - 1] = f[i - 1] PROVE g[i] = f[i]
    <3>1. i \in 1..(n + 1)
      BY <1>1
    <3>2. g[i] = g[i - 1] * 10 + Digit[d[i]] /\ f[i] = f[i - 1] * 10 + Digit[e[i]] /\ d[i] = e[i]
      BY <1>2, <1>4, <1>5, <3>1
    <3> QED BY <2>1, <3>2
  <2> QED BY <1>4, <1>5, <2>1 DEF Together
<1>7. g[n] = f[n]
  BY <1>1, <1>6, AgreeUpto
<1>8. n + 1 \in 1..(n + 1) /\ (n + 1) - 1 = n
  BY <1>1
<1>9. g[n + 1] = g[n] * 10 + Digit[b]
  <2>1. g[n + 1] = g[(n + 1) - 1] * 10 + Digit[d[n + 1]]
    BY <1>5, <1>8
  <2> QED BY <1>2, <1>8, <2>1
<1>10. PortValue(d) = PortValue(e) * 10 + Digit[b]
  BY <1>4, <1>5, <1>7, <1>9
<1> QED BY <1>3, <1>10 DEF d

\* A numeral of no digits.
LEMMA PortValueNone == Numeral(<<>>) /\ PortValue(<<>>) = 0
<1>1. Numeral(<<>>) /\ Len(<<>>) = 0
  BY DEF Numeral, Bytes
<1>2. PICK f \in [0..0 -> Nat] : f[0] = 0 /\ PortValue(<<>>) = f[0]
  BY <1>1, PortValueIs
<1> QED BY <1>1, <1>2

\* What write_u64 writes for the numbers up to n.
Decimals(n, f) ==
    f = [m \in 0..n |-> IF m < 10 THEN <<Digits[m + 1]>> ELSE Append(f[m \div 10], Digits[(m % 10) + 1])]

\* There is that much.
LEMMA DecimalsExist ==
    ASSUME NEW n \in Nat
    PROVE  \E f : Decimals(n, f)
<1> DEFINE S == {k \in Nat : \E f : Decimals(k, f)}
<1>1. 0 \in S
  <2> DEFINE f == [m \in 0..0 |-> <<Digits[m + 1]>>]
  <2>1. Decimals(0, f)
    BY DEF Decimals
  <2> QED BY <2>1
<1>2. ASSUME NEW k \in Nat, k \in S PROVE k + 1 \in S
  <2>1. PICK f : Decimals(k, f)
    BY <1>2
  <2>2. \A m \in 0..k : f[m] = IF m < 10 THEN <<Digits[m + 1]>>
                               ELSE Append(f[m \div 10], Digits[(m % 10) + 1])
    BY <2>1 DEF Decimals
  <2> DEFINE Of(h, m) == IF m < 10 THEN <<Digits[m + 1]>> ELSE Append(h[m \div 10], Digits[(m % 10) + 1])
             g == [m \in 0..(k + 1) |-> IF m <= k THEN f[m] ELSE Of(f, k + 1)]
  <2>3. \A m \in 0..(k + 1) : m >= 10 => m \div 10 \in 0..k
    OBVIOUS
  <2>4. \A m \in 0..(k + 1) : g[m] = IF m <= k THEN f[m] ELSE Of(f, k + 1)
    OBVIOUS
  <2>5. DOMAIN g = 0..(k + 1) /\ g = [m \in 0..(k + 1) |-> g[m]]
    OBVIOUS
  <2> HIDE DEF g
  <2>6. \A m \in 0..k : g[m] = f[m]
    BY <2>4
  <2>7. ASSUME NEW m \in 0..(k + 1) PROVE g[m] = Of(g, m)
    <3>1. m >= 10 => g[m \div 10] = f[m \div 10]
      BY <2>3, <2>6
    <3>2. Of(g, m) = Of(f, m)
      BY <3>1
    <3>3. m <= k => g[m] = Of(f, m)
      BY <2>2, <2>6
    <3>4. ~(m <= k) => m = k + 1
      OBVIOUS
    <3> QED BY <2>4, <3>2, <3>3, <3>4
  <2>8. Decimals(k + 1, g)
    BY <2>5, <2>7 DEF Decimals
  <2> QED BY <2>8
<1>3. Nat \subseteq S
  <2> HIDE DEF S
  <2> QED BY <1>1, <1>2, Induction
<1> QED BY <1>3

\* A number is read back as itself.
LEMMA DecimalIs ==
    ASSUME NEW n \in Nat
    PROVE  Numeral(Decimal(n)) /\ Decimal(n) # <<>> /\ PortValue(Decimal(n)) = n
<1> DEFINE c == CHOOSE f : Decimals(n, f)
           Says(e, m) == Numeral(e) /\ e # <<>> /\ PortValue(e) = m
           S == {k \in Nat : \A m \in 0..k : m <= n => Says(c[m], m)}
<1>1. Decimal(n) = c[n]
  BY DEF Decimal, Decimals
<1>2. Decimals(n, c)
  BY DecimalsExist
<1> HIDE DEF c
<1>3. \A m \in 0..n : c[m] = IF m < 10 THEN <<Digits[m + 1]>>
                             ELSE Append(c[m \div 10], Digits[(m % 10) + 1])
  BY <1>2 DEF Decimals
<1>4. ASSUME NEW e, Numeral(e), NEW m \in 0..9
      PROVE  Says(Append(e, Digits[m + 1]), PortValue(e) * 10 + m)
  <2> DEFINE b == Digits[m + 1]
  <2>1. is_ascii_digit(b) /\ Digit[b] = m
    BY DigitsAre
  <2>2. b \in Byte
    BY <2>1 DEF is_ascii_digit, Byte
  <2> HIDE DEF b
  <2>3. Numeral(Append(e, b)) /\ PortValue(Append(e, b)) = PortValue(e) * 10 + Digit[b]
    BY <1>4, <2>1, <2>2, PortValueAppend
  <2>4. Append(e, b) # <<>>
    <3>1. e \in Seq(Byte)
      BY <1>4 DEF Numeral, Bytes
    <3> QED BY <2>2, <3>1, AppendProperties
  <2> QED BY <2>1, <2>3, <2>4 DEF b
<1>5. ASSUME NEW m \in 0..9 PROVE Says(<<Digits[m + 1]>>, m)
  <2> DEFINE b == Digits[m + 1]
  <2>1. Append(<<>>, b) = <<b>>
    OBVIOUS
  <2>2. Says(Append(<<>>, b), 0 * 10 + m)
    <3> HIDE DEF Says
    <3> QED BY <1>4, PortValueNone
  <2>3. 0 * 10 + m = m
    OBVIOUS
  <2> QED BY <2>1, <2>2, <2>3
<1> HIDE DEF Says
<1>6. 0 \in S
  <2>1. \A m \in 0..0 : m = 0 /\ m < 10 /\ m \in 0..9 /\ m \in 0..n
    OBVIOUS
  <2> QED BY <1>3, <1>5, <2>1
<1>7. ASSUME NEW k \in Nat, k \in S PROVE k + 1 \in S
  <2> SUFFICES ASSUME NEW m \in 0..(k + 1), m <= n PROVE Says(c[m], m)
    OBVIOUS
  <2>1. CASE m < 10
    <3>1. m \in 0..9 /\ m \in 0..n
      BY <2>1
    <3> QED BY <1>3, <1>5, <2>1, <3>1
  <2>2. CASE ~(m < 10)
    <3> DEFINE q == m \div 10
               r == m % 10
    <3>1. q \in 0..k /\ q <= n /\ r \in 0..9 /\ q * 10 + r = m /\ m \in 0..n
      BY <2>2
    <3>2. c[m] = Append(c[q], Digits[r + 1])
      BY <1>3, <2>2, <3>1
    <3> HIDE DEF q, r
    <3>3. Says(c[q], q)
      BY <1>7, <3>1
    <3>4. Says(Append(c[q], Digits[r + 1]), PortValue(c[q]) * 10 + r)
      <4>1. Numeral(c[q])
        BY <3>3 DEF Says
      <4> QED BY <1>4, <3>1, <4>1
    <3>5. PortValue(c[q]) = q
      BY <3>3 DEF Says
    <3> QED BY <3>1, <3>2, <3>4, <3>5
  <2> QED BY <2>1, <2>2
<1>8. Nat \subseteq S
  <2> HIDE DEF S
  <2> QED BY <1>6, <1>7, Induction
<1>9. n \in 0..n /\ n <= n
  OBVIOUS
<1>10. Says(c[n], n)
  BY <1>8, <1>9
<1> QED BY <1>1, <1>10 DEF Says

-----------------------------------------------------------------------------
(* The head that is written.                                               *)

\* What shows is made of bytes and fields.
LEMMA ShowsTyped ==
    ASSUME NEW fs, NEW lens, NEW codings, NEW tokens, NEW others,
           Shows(fs, lens, codings, tokens, others)
    PROVE  /\ lens \in Seq(Bytes) /\ codings \in Seq(Bytes) /\ tokens \in Seq(Bytes)
           /\ others \in Seq(Header)
<1>1. fs \in Seq(Header)
  BY DEF Shows
<1>2. \A id : In(fs, id) \in Seq(Bytes)
  BY <1>1, InIs
<1>3. OthersIn(fs) \in Seq(Header)
  BY <1>1, OthersInIs
<1>4. \A vs \in Seq(Bytes) : AllElements(vs) \in Seq(Bytes)
  BY AllElementsIs
<1> QED BY <1>2, <1>3, <1>4 DEF Shows

\* Nothing added.
LEMMA NothingAdded ==
    ASSUME NEW X, NEW s \in Seq(X)
    PROVE  s \o <<>> = s /\ <<>> \o s = s
  OBVIOUS

\* Fields of the server's own behind the handler's: its framing, then its tokens.
LEMMA Assembled ==
    ASSUME NEW p, NEW d, NEW o, NEW t, NEW lens, NEW codings, NEW tokens, NEW others,
           NEW ol, NEW oc, NEW ot,
           Shows(p, lens, codings, tokens, others), Shows(d, <<>>, <<>>, <<>>, <<>>),
           Shows(o, ol, oc, <<>>, <<>>), Shows(t, <<>>, <<>>, ot, <<>>)
    PROVE  Shows(p \o d \o o \o t, lens \o ol, codings \o oc, tokens \o ot, others)
<1>1. lens \in Seq(Bytes) /\ codings \in Seq(Bytes) /\ tokens \in Seq(Bytes) /\ others \in Seq(Header)
  BY ShowsTyped
<1>2. ol \in Seq(Bytes) /\ oc \in Seq(Bytes)
  BY ShowsTyped
<1>3. /\ lens \o <<>> = lens /\ codings \o <<>> = codings /\ tokens \o <<>> = tokens
      /\ others \o <<>> = others
  BY <1>1, NothingAdded
<1>4. Shows(p \o d, lens, codings, tokens, others)
  <2>1. Shows(p \o d, lens \o <<>>, codings \o <<>>, tokens \o <<>>, others \o <<>>)
    BY ShowsBoth
  <2> QED BY <1>3, <2>1
<1>5. Shows(p \o d \o o, lens \o ol, codings \o oc, tokens, others)
  <2>1. Shows(p \o d \o o, lens \o ol, codings \o oc, tokens \o <<>>, others \o <<>>)
    BY <1>4, ShowsBoth
  <2> QED BY <1>3, <2>1
<1>6. lens \o ol \in Seq(Bytes) /\ codings \o oc \in Seq(Bytes)
  BY <1>5, ShowsTyped
<1>7. (lens \o ol) \o <<>> = lens \o ol /\ (codings \o oc) \o <<>> = codings \o oc
  BY <1>6, NothingAdded
<1>8. Shows(p \o d \o o \o t, (lens \o ol) \o <<>>, (codings \o oc) \o <<>>, tokens \o ot, others \o <<>>)
  BY <1>5, ShowsBoth
<1> QED BY <1>3, <1>7, <1>8

\* A body of a response.
Body == [kind : {"Empty", "Full", "Stream"}, len : Nat]

\* The server's framing field.
LEMMA FramingShows ==
    ASSUME NEW version, NEW body \in Body
    PROVE  Shows(FramingField(version, body),
                 IF body.kind # "Stream" THEN <<Decimal(body.len)>> ELSE <<>>,
                 IF body.kind = "Stream" /\ version # "1.0" THEN << <<"chunked">> >> ELSE <<>>,
                 <<>>, <<>>)
<1>1. CASE body.kind # "Stream"
  <2> DEFINE v == Decimal(body.len)
  <2>1. Numeral(v)
    BY DecimalIs DEF Body
  <2>2. FramingField(version, body) = <<[id |-> "ContentLength", value |-> v]>>
    BY <1>1 DEF FramingField
  <2> HIDE DEF v
  <2>3. v \in Bytes /\ \A i \in DOMAIN v : ~Ends(v[i])
    <3>1. \A b \in DecimalDigits : ~Ends(b)
      BY Zenon DEF DecimalDigits, Ends
    <3> QED BY <2>1, <3>1, DigitSymbol DEF Numeral
  <2> DEFINE id == "ContentLength"
  <2>4. id \in Decided
    BY Zenon DEF Decided
  <2>5. Shows(<<[id |-> id, value |-> v]>>,
              IF id = "ContentLength" THEN <<v>> ELSE <<>>,
              IF id = "TransferEncoding" THEN <<v>> ELSE <<>>,
              IF id = "Connection" THEN Elements(v) ELSE <<>>, <<>>)
    <3> HIDE DEF id
    <3> QED BY <2>3, <2>4, ShowsOne
  <2>6. Shows(<<[id |-> id, value |-> v]>>, <<v>>, <<>>, <<>>, <<>>)
    BY <2>5
  <2> QED BY <1>1, <2>2, <2>6 DEF v
<1>2. CASE body.kind = "Stream" /\ version = "1.0"
  <2>1. FramingField(version, body) = <<>>
    BY <1>2 DEF FramingField
  <2> QED BY <1>2, <2>1, ShowsNone
<1>3. CASE body.kind = "Stream" /\ version # "1.0"
  <2> DEFINE v == <<"chunked">>
             id == "TransferEncoding"
  <2>1. FramingField(version, body) = <<[id |-> id, value |-> v]>>
    BY <1>3 DEF FramingField
  <2>2. v \in Bytes /\ \A i \in DOMAIN v : ~Ends(v[i])
    <3>1. "chunked" \in Byte
      BY Zenon DEF Byte
    <3> QED BY <3>1 DEF Bytes, Ends
  <2>3. id \in Decided
    BY Zenon DEF Decided
  <2> HIDE DEF v
  <2>4. Shows(<<[id |-> id, value |-> v]>>,
              IF id = "ContentLength" THEN <<v>> ELSE <<>>,
              IF id = "TransferEncoding" THEN <<v>> ELSE <<>>,
              IF id = "Connection" THEN Elements(v) ELSE <<>>, <<>>)
    <3> HIDE DEF id
    <3> QED BY <2>2, <2>3, ShowsOne
  <2>5. Shows(<<[id |-> id, value |-> v]>>, <<>>, <<v>>, <<>>, <<>>)
    BY <2>4
  <2> QED BY <1>3, <2>1, <2>5 DEF v
<1> QED BY <1>1, <1>2, <1>3

\* The server's own tokens.
LEMMA OwnTokens ==
    ASSUME NEW version, NEW keeps, NEW cf, cf = connection_field(version, keeps) \/ cf = <<>>
    PROVE  /\ cf \in Seq(Bytes) /\ \A t \in ToSet(cf) : Solid(t)
           /\ Shows(FieldsOf("Connection", cf), <<>>, <<>>, cf, <<>>)
<1>1. cf = <<>> \/ cf = << <<"close">> >> \/ cf = << <<"keep-alive">> >>
  BY DEF connection_field
<1>2. CASE cf = <<>>
  <2>1. FieldsOf("Connection", cf) = <<>>
    BY <1>2 DEF FieldsOf
  <2> QED BY <1>2, <2>1, SetSmall, ShowsNone
<1>3. ASSUME NEW w, w = "close" \/ w = "keep-alive", cf = << <<w>> >>
      PROVE  /\ cf \in Seq(Bytes) /\ \A t \in ToSet(cf) : Solid(t)
             /\ Shows(FieldsOf("Connection", cf), <<>>, <<>>, cf, <<>>)
  <2> DEFINE v == <<w>>
             id == "Connection"
  <2>1. w \in Byte
    BY <1>3, Zenon DEF Byte
  <2>2. Solid(v)
    <3>1. v \in Bytes /\ v # <<>> /\ DOMAIN v = {1} /\ v[1] = w
      BY <2>1 DEF Bytes
    <3>2. ~IsComma(w) /\ ~IsBlank(w) /\ ~Ends(w)
      BY <1>3 DEF IsComma, IsBlank, Ends
    <3> HIDE DEF v
    <3> QED BY <3>1, <3>2 DEF Solid
  <2>3. v \in Bytes /\ \A i \in DOMAIN v : ~Ends(v[i])
    BY <2>2 DEF Solid
  <2> HIDE DEF v
  <2>4. Elements(v) = <<v>>
    BY <2>2, WholeElement
  <2>5. FieldsOf("Connection", <<v>>) = <<[id |-> "Connection", value |-> v]>>
    BY DEF FieldsOf
  <2>6. id \in Decided
    BY Zenon DEF Decided
  <2>7. Shows(<<[id |-> id, value |-> v]>>,
              IF id = "ContentLength" THEN <<v>> ELSE <<>>,
              IF id = "TransferEncoding" THEN <<v>> ELSE <<>>,
              IF id = "Connection" THEN Elements(v) ELSE <<>>, <<>>)
    <3> HIDE DEF id
    <3> QED BY <2>3, <2>6, ShowsOne
  <2>8. Shows(<<[id |-> id, value |-> v]>>, <<>>, <<>>, <<v>>, <<>>)
    BY <2>4, <2>7
  <2>9. cf = <<v>> /\ ToSet(<<v>>) = {v}
    BY <1>3, SetSmall DEF v
  <2> QED BY <2>2, <2>3, <2>5, <2>8, <2>9
<1>4. CASE cf = << <<"close">> >>
  BY <1>3, <1>4
<1>5. CASE cf = << <<"keep-alive">> >>
  BY <1>3, <1>5
<1> QED BY <1>1, <1>2, <1>4, <1>5

\* A field that nobody looks for.
LEMMA PlainShows ==
    ASSUME NEW id, id = "Date" \/ id = "Server"
    PROVE  /\ [id |-> id, value |-> <<"a">>] \in Header
           /\ Shows(<<[id |-> id, value |-> <<"a">>]>>, <<>>, <<>>, <<>>, <<>>)
<1> DEFINE v == <<"a">>
<1>1. v \in Bytes /\ \A i \in DOMAIN v : ~Ends(v[i])
  <2>1. "a" \in Byte
    BY Zenon DEF Byte
  <2> QED BY <2>1 DEF Bytes, Ends
<1>2. id \in Decided /\ id \in Name
  BY Zenon DEF Decided, Name
<1> HIDE DEF v
<1>3. Shows(<<[id |-> id, value |-> v]>>,
            IF id = "ContentLength" THEN <<v>> ELSE <<>>,
            IF id = "TransferEncoding" THEN <<v>> ELSE <<>>,
            IF id = "Connection" THEN Elements(v) ELSE <<>>, <<>>)
  BY <1>1, <1>2, ShowsOne
<1>4. id # "ContentLength" /\ id # "TransferEncoding" /\ id # "Connection"
  OBVIOUS
<1>5. Shows(<<[id |-> id, value |-> v]>>, <<>>, <<>>, <<>>, <<>>)
  BY <1>3, <1>4
<1>6. [id |-> id, value |-> v] \in Header
  BY <1>1, <1>2 DEF Header
<1> QED BY <1>5, <1>6 DEF v

\* The server's name changes nothing else.
LEMMA ServerAdds ==
    ASSUME NEW hs \in Seq(Header)
    PROVE  /\ WithServer(hs) \in Seq(Header)
           /\ \A Y : \A f \in [Header -> Seq(Y)] :
                  f[[id |-> "Server", value |-> <<"a">>]] = <<>> =>
                      FlatMap(WithServer(hs), f) = FlatMap(hs, f)
<1> DEFINE x == [id |-> "Server", value |-> <<"a">>]
<1>1. x \in Header
  BY PlainShows
<1>2. WithServer(hs) = hs \/ WithServer(hs) = Append(hs, x)
  BY DEF WithServer
<1> HIDE DEF x
<1>3. WithServer(hs) \in Seq(Header)
  BY <1>1, <1>2
<1>4. ASSUME NEW Y, NEW f \in [Header -> Seq(Y)], f[x] = <<>>
      PROVE  FlatMap(WithServer(hs), f) = FlatMap(hs, f)
  <2>1. OneByOneMap(Header, Y, f)
    BY MapIs
  <2>2. FlatMap(Append(hs, x), f) = FlatMap(hs, f) \o f[x] /\ FlatMap(hs, f) \in Seq(Y)
    BY <1>1, <2>1 DEF OneByOneMap
  <2>3. FlatMap(hs, f) \o <<>> = FlatMap(hs, f)
    BY <2>2, NothingAdded
  <2> QED BY <1>2, <1>4, <2>2, <2>3
<1> QED BY <1>3, <1>4 DEF x

\* The server's framing of a body, where nothing else frames it.
OwnLens(body, framed) == IF ~framed /\ body.kind # "Stream" THEN <<Decimal(body.len)>> ELSE <<>>
OwnCodings(version, body, framed) ==
    IF ~framed /\ body.kind = "Stream" /\ version # "1.0" THEN << <<"chunked">> >> ELSE <<>>

\* They are values.
LEMMA OwnTyped ==
    ASSUME NEW version, NEW body \in Body, NEW framed
    PROVE  OwnLens(body, framed) \in Seq(Bytes) /\ OwnCodings(version, body, framed) \in Seq(Bytes)
<1>1. Decimal(body.len) \in Bytes
  <2>1. body.len \in Nat
    BY DEF Body
  <2> QED BY <2>1, DecimalIs DEF Numeral
<1>2. <<"chunked">> \in Bytes
  <2>1. "chunked" \in Byte
    BY Zenon DEF Byte
  <2> QED BY <2>1 DEF Bytes
<1> DEFINE d == Decimal(body.len)
           c == <<"chunked">>
<1> HIDE DEF d, c
<1>3. <<>> \in Seq(Bytes) /\ <<d>> \in Seq(Bytes) /\ <<c>> \in Seq(Bytes)
  BY <1>1, <1>2 DEF d, c
<1> QED BY <1>3 DEF OwnLens, OwnCodings, d, c

\* What write_head_for finds: whether a coding frames the body (cd), a length (sl) or a coding
\* (sc) is stale and the body is framed, and the lengths and codings that it keeps.
NativeParts(version, status, hs, body, hr, cd, sl, sc, framed, kl, kc) ==
    /\ version \in {"1.0", "1.1"} /\ hs \in Seq(Header) /\ body \in Body /\ hr \in BOOLEAN
    /\ cd \in BOOLEAN /\ cd = coded(version, status, hs, body)
    /\ sl \in BOOLEAN /\ sl = stale_content_length(version, status, hs, body, hr)
    /\ sc \in BOOLEAN /\ sc = stale_transfer_encoding(version, status, hs, body)
    /\ framed \in BOOLEAN
    /\ framed <=> (cd \/ (Emitted(hs, "ContentLength") # <<>> /\ ~sl) \/ forbids_body_framing(status))
    /\ kl = IF sl THEN <<>> ELSE Given(hs, "ContentLength")
    /\ kc = IF sc THEN <<>> ELSE Given(hs, "TransferEncoding")

\* In the head that write_head_for makes, one reads the handler's lengths and codings but
\* for stale ones, then the server's; and the handler's tokens, then the server's.
LEMMA NativeShows ==
    ASSUME NEW version, NEW status, NEW hs, NEW body, NEW hr, NEW cd, NEW sl, NEW sc, NEW framed,
           NEW kl, NEW kc, NativeParts(version, status, hs, body, hr, cd, sl, sc, framed, kl, kc),
           NEW keeps, NEW cf, cf = IF status = 101 THEN <<>> ELSE connection_field(version, keeps)
    PROVE  Shows(write_head_for(version, status, hs, body, keeps, hr), kl \o OwnLens(body, framed),
                 kc \o OwnCodings(version, body, framed), Theirs(hs) \o cf, FlatMap(hs, OtherAs))
<1> USE DEF NativeParts
<1> DEFINE p == FlatMap(hs, EmitAs(sl, sc))
           d == IF Emitted(hs, "Date") # <<>> THEN <<>> ELSE <<[id |-> "Date", value |-> <<"a">>]>>
           o == IF framed THEN <<>> ELSE FramingField(version, body)
           t == FieldsOf("Connection", cf)
<1>1. write_head_for(version, status, hs, body, keeps, hr) = p \o d \o o \o t
  <2>1. \A i \in DOMAIN hs : Emit(hs[i], sl, sc) = EmitAs(sl, sc)[hs[i]]
    BY DEF EmitAs
  <2>2. [i \in DOMAIN hs |-> Emit(hs[i], sl, sc)] = [i \in DOMAIN hs |-> EmitAs(sl, sc)[hs[i]]]
    BY <2>1
  <2>3. p = FlattenSeq([i \in DOMAIN hs |-> Emit(hs[i], sl, sc)])
    BY <2>2 DEF FlatMap
  <2> HIDE DEF p
  <2> QED BY <2>3 DEF write_head_for
<1>2. Shows(p, kl, kc, Theirs(hs), FlatMap(hs, OtherAs))
  BY WrittenShows
<1>3. Shows(d, <<>>, <<>>, <<>>, <<>>)
  <2> DEFINE x == <<[id |-> "Date", value |-> <<"a">>]>>
  <2>1. Shows(x, <<>>, <<>>, <<>>, <<>>)
    BY PlainShows
  <2>2. d = <<>> \/ d = x
    OBVIOUS
  <2> HIDE DEF d, x
  <2> QED BY <2>1, <2>2, ShowsNone
<1>4. Shows(o, OwnLens(body, framed), OwnCodings(version, body, framed), <<>>, <<>>)
  <2>1. CASE framed
    <3>1. o = <<>> /\ OwnLens(body, framed) = <<>> /\ OwnCodings(version, body, framed) = <<>>
      BY <2>1 DEF OwnLens, OwnCodings
    <3> QED BY <3>1, ShowsNone
  <2>2. CASE ~framed
    <3>1. o = FramingField(version, body)
      BY <2>2
    <3> HIDE DEF o
    <3> QED BY <2>2, <3>1, FramingShows DEF OwnLens, OwnCodings
  <2> QED BY <2>1, <2>2
<1>5. Shows(t, <<>>, <<>>, cf, <<>>)
  BY OwnTokens
<1> HIDE DEF p, d, o, t
<1> QED BY <1>1, <1>2, <1>3, <1>4, <1>5, Assembled

\* The lengths and codings delimit the body, as far as version can.
Delimits(version, body, lens, codings) ==
    \/ /\ version = "1.1" /\ body.kind = "Stream" /\ lens = <<>>
       /\ \E v \in Bytes : codings = <<v>> /\ EndsChunked(Elements(v))
    \/ /\ body.kind # "Stream" /\ codings = <<>>
       /\ \E v \in Bytes : lens = <<v>> /\ IsNumber(v) /\ PortValue(v) = body.len
    \/ version = "1.0" /\ body.kind = "Stream" /\ lens = <<>> /\ codings = <<>>

\* The server's own do.
LEMMA OwnDelimits ==
    ASSUME NEW version \in {"1.0", "1.1"}, NEW body \in Body
    PROVE  /\ Delimits(version, body, OwnLens(body, FALSE), OwnCodings(version, body, FALSE))
           /\ OwnLens(body, TRUE) = <<>> /\ OwnCodings(version, body, TRUE) = <<>>
           /\ body.kind = "Stream" => OwnLens(body, FALSE) = <<>>
           /\ \/ OwnLens(body, FALSE) = <<>> /\ OwnCodings(version, body, FALSE) = <<>>
              \/ /\ OwnLens(body, FALSE) = <<>>
                 /\ OwnCodings(version, body, FALSE) = << <<"chunked">> >>
              \/ /\ OwnLens(body, FALSE) = <<Decimal(body.len)>>
                 /\ OwnCodings(version, body, FALSE) = <<>>
<1>1. CASE body.kind # "Stream"
  <2>1. Numeral(Decimal(body.len)) /\ Decimal(body.len) # <<>> /\ PortValue(Decimal(body.len)) = body.len
    BY DecimalIs DEF Body
  <2> QED BY <1>1, <2>1 DEF OwnLens, OwnCodings, Delimits, Numeral, IsNumber
<1>2. CASE body.kind = "Stream" /\ version = "1.0"
  BY <1>2 DEF OwnLens, OwnCodings, Delimits
<1>3. CASE body.kind = "Stream" /\ version = "1.1"
  <2> DEFINE v == <<"chunked">>
  <2>1. v \in Bytes /\ Solid(v)
    <3>1. "chunked" \in Byte
      BY Zenon DEF Byte
    <3>2. v \in Bytes /\ v # <<>> /\ DOMAIN v = {1} /\ v[1] = "chunked"
      BY <3>1 DEF Bytes
    <3>3. ~IsComma("chunked") /\ ~IsBlank("chunked") /\ ~Ends("chunked")
      BY DEF IsComma, IsBlank, Ends
    <3> HIDE DEF v
    <3> QED BY <3>2, <3>3 DEF Solid
  <2>2. IsChunked(v)
    BY DEF IsChunked, eq_ignore_ascii_case
  <2>3. OwnLens(body, FALSE) = <<>> /\ OwnCodings(version, body, FALSE) = <<v>>
        /\ OwnLens(body, TRUE) = <<>> /\ OwnCodings(version, body, TRUE) = <<>>
    BY <1>3 DEF OwnLens, OwnCodings
  <2>4. << <<"chunked">> >> = <<v>>
    OBVIOUS
  <2> HIDE DEF v
  <2>5. Elements(v) = <<v>>
    BY <2>1, WholeElement
  <2>6. EndsChunked(<<v>>)
    <3>1. DOMAIN <<v>> = {1} /\ <<v>>[1] = v
      OBVIOUS
    <3> QED BY <2>2, <3>1 DEF EndsChunked
  <2> QED BY <1>3, <2>1, <2>3, <2>4, <2>5, <2>6 DEF Delimits
<1> QED BY <1>1, <1>2, <1>3

\* The handler's lengths are stale.
StaleLens(lens, status, hr, body, cd) ==
    lens # <<>> /\ handler_length_is_stale(lens[1].value, Len(lens), status, hr, BodyLen(body), cd)

\* A status that has neither a body nor a length.
Bodiless(status) == status \in {204} \cup 100..199

\* What is left of them is nothing, or the one that is not stale.
KeepsLength(kept, lens, sl, status, hr, body, cd) ==
    /\ kept = <<>> \/ \E v \in Bytes : kept = <<v>>
    /\ (kept # <<>>) <=> (lens # <<>> /\ ~sl)
    /\ Bodiless(status) => kept = <<>>
    /\ cd /\ status # 304 /\ (hr \/ body.kind = "Stream") => kept = <<>>
    /\ kept # <<>> /\ ~hr /\ ~forbids_body_framing(status) =>
           /\ body.kind # "Stream"
           /\ \E v \in Bytes : kept = <<v>> /\ IsNumber(v) /\ PortValue(v) = body.len

\* So it is.
LEMMA LengthKept ==
    ASSUME NEW hs \in Seq(Header), NEW status, NEW hr \in BOOLEAN, NEW body \in Body, NEW cd \in BOOLEAN,
           NEW lens, lens = Emitted(hs, "ContentLength"), NEW sl \in BOOLEAN,
           sl <=> StaleLens(lens, status, hr, body, cd),
           NEW kept, kept = IF sl THEN <<>> ELSE Given(hs, "ContentLength")
    PROVE  KeepsLength(kept, lens, sl, status, hr, body, cd)
<1> USE DEF KeepsLength, StaleLens, Bodiless
<1> DEFINE v == lens[1].value
           n == Len(lens)
<1>1. lens \in Seq(Header) /\ n \in Nat
  BY EmittedIs
<1>2. CASE lens = <<>>
  <2>1. kept = <<>> /\ ~sl
    BY <1>2, GivenIs
  <2> QED BY <1>2, <2>1
<1>3. CASE sl
  <2>1. kept = <<>>
    BY <1>3
  <2> QED BY <1>3, <2>1
<1>4. CASE lens # <<>> /\ ~sl
  <2>1. ~handler_length_is_stale(v, n, status, hr, BodyLen(body), cd)
    BY <1>4
  <2>2. n = 1
    <3>1. ~(n > 1)
      BY <2>1 DEF handler_length_is_stale
    <3>2. n # 0
      BY <1>1, <1>4
    <3>3. n \in Nat
      BY <1>1
    <3> HIDE DEF n
    <3> QED BY <3>1, <3>2, <3>3
  <2>3. kept = <<v>> /\ v \in Bytes
    BY <1>4, <2>2, GivenIs
  <2> HIDE DEF v, n
  <2>4. status \notin {204} \cup 100..199
    <3> SUFFICES ASSUME status \in {204} \cup 100..199 PROVE FALSE
      OBVIOUS
    <3>1. forbids_body_framing(status)
      BY DEF forbids_body_framing
    <3>2. ~content_length_is_descriptive(status)
      BY DEF content_length_is_descriptive
    <3> QED BY <2>1, <3>1, <3>2 DEF handler_length_is_stale
  <2>5. ~(cd /\ status # 304 /\ (hr \/ body.kind = "Stream"))
    <3> SUFFICES ASSUME cd, status # 304, hr \/ body.kind = "Stream" PROVE FALSE
      OBVIOUS
    <3>1. ~forbids_body_framing(status) /\ ~content_length_is_descriptive(status)
      BY <2>4 DEF forbids_body_framing, content_length_is_descriptive
    <3>2. body.kind = "Stream" => BodyLen(body) = None
      BY DEF BodyLen
    <3> QED BY <2>1, <3>1, <3>2 DEF handler_length_is_stale
  <2>6. ASSUME ~hr, ~forbids_body_framing(status)
        PROVE  body.kind # "Stream" /\ IsNumber(v) /\ PortValue(v) = body.len
    <3>1. ~content_length_is_descriptive(status)
      BY <2>6 DEF forbids_body_framing, content_length_is_descriptive
    <3>2. BodyLen(body) # None /\ parse_len(v) = BodyLen(body)
      BY <2>1, <2>6, <3>1 DEF handler_length_is_stale
    <3>3. body.kind # "Stream" /\ BodyLen(body) = body.len
      BY <3>2 DEF BodyLen
    <3>4. parse_content_length(v) # None /\ parse_content_length(v) = body.len
      BY <3>2, <3>3 DEF parse_len
    <3>5. Numeral(v) /\ v # <<>> /\ parse_content_length(v) = PortValue(v)
      BY <2>3, <3>4, ParseIs
    <3> QED BY <3>3, <3>4, <3>5 DEF Numeral, IsNumber
  <2>7. <<v>> # <<>>
    OBVIOUS
  <2> QED BY <1>4, <2>3, <2>4, <2>5, <2>6, <2>7
<1> QED BY <1>2, <1>3, <1>4

\* What is left of the handler's codings is nothing, or the one that frames the body.
KeepsCoding(kept, version, status, body, cd) ==
    /\ ~cd => kept = <<>>
    /\ cd => /\ body.kind = "Stream" /\ version # "1.0" /\ ~forbids_body_framing(status)
             /\ \E v \in Bytes : kept = <<v>> /\ EndsChunked(Elements(v))

\* So it is.
LEMMA CodingKept ==
    ASSUME NEW hs \in Seq(Header), NEW version, NEW status, NEW body \in Body,
           NEW sc \in BOOLEAN, sc <=> stale_transfer_encoding(version, status, hs, body),
           NEW cd \in BOOLEAN, cd <=> coded(version, status, hs, body),
           NEW kept, kept = IF sc THEN <<>> ELSE Given(hs, "TransferEncoding")
    PROVE  KeepsCoding(kept, version, status, body, cd)
<1> USE DEF KeepsCoding
<1> DEFINE codings == Emitted(hs, "TransferEncoding")
           v == codings[1].value
           n == Len(codings)
<1>1. codings \in Seq(Header) /\ n \in Nat
  BY EmittedIs
<1>2. cd <=> codings # <<>> /\ ~sc
  BY DEF coded
<1>3. sc <=> /\ codings # <<>>
             /\ \/ n > 1 \/ body.kind # "Stream" \/ version = "1.0"
                \/ forbids_body_framing(status) \/ ~te_frames_chunked(v)
  BY DEF stale_transfer_encoding
<1>4. codings = <<>> => Given(hs, "TransferEncoding") = <<>>
  BY GivenIs
<1>5. n = 1 => Given(hs, "TransferEncoding") = <<v>> /\ v \in Bytes
  BY GivenIs
<1>6. codings # <<>> => n # 0
  BY <1>1
<1> HIDE DEF codings, v, n
<1>7. ~cd => kept = <<>>
  BY <1>2, <1>4
<1>8. ASSUME cd
      PROVE  /\ body.kind = "Stream" /\ version # "1.0" /\ ~forbids_body_framing(status)
             /\ kept = <<v>> /\ v \in Bytes /\ EndsChunked(Elements(v))
  <2>1. codings # <<>> /\ ~sc
    BY <1>2, <1>8
  <2>2. ~(n > 1) /\ body.kind = "Stream" /\ version # "1.0" /\ ~forbids_body_framing(status)
        /\ te_frames_chunked(v)
    BY <1>3, <2>1
  <2>3. n = 1
    BY <1>1, <1>6, <2>1, <2>2
  <2> QED BY <1>5, <2>1, <2>2, <2>3 DEF te_frames_chunked
<1> QED BY <1>7, <1>8

\* The framing of a head: at most one field, none where there is no body, and else the body's.
Frames(version, status, body, hr, lens, codings) ==
    /\ Len(lens) + Len(codings) <= 1
    /\ Bodiless(status) => lens = <<>> /\ codings = <<>>
    /\ ~hr /\ ~forbids_body_framing(status) => Delimits(version, body, lens, codings)

\* No field frames no body.
LEMMA FramesNone ==
    ASSUME NEW version, NEW status, NEW body, NEW hr, hr \/ forbids_body_framing(status)
    PROVE  Frames(version, status, body, hr, <<>>, <<>>)
<1>1. Len(<<>>) + Len(<<>>) <= 1
  OBVIOUS
<1> QED BY <1>1 DEF Frames

\* A field frames one.
LEMMA FramesOne ==
    ASSUME NEW version, NEW status, NEW body, NEW hr, NEW lens, NEW codings, NEW v,
           (lens = <<v>> /\ codings = <<>>) \/ (lens = <<>> /\ codings = <<v>>),
           ~Bodiless(status), ~hr /\ ~forbids_body_framing(status) => Delimits(version, body, lens, codings)
    PROVE  Frames(version, status, body, hr, lens, codings)
<1>1. Len(<<>>) + Len(<<v>>) <= 1 /\ Len(<<v>>) + Len(<<>>) <= 1
  OBVIOUS
<1>2. Len(lens) + Len(codings) <= 1
  BY <1>1
<1> QED BY <1>2 DEF Frames

\* Where the handler's fields frame nothing, the server's own do.
LEMMA FramesOwn ==
    ASSUME NEW version \in {"1.0", "1.1"}, NEW status, NEW body \in Body, NEW hr, ~forbids_body_framing(status),
           NEW lens, lens = OwnLens(body, FALSE), NEW codings, codings = OwnCodings(version, body, FALSE)
    PROVE  Frames(version, status, body, hr, lens, codings)
<1>1. Delimits(version, body, lens, codings)
  BY OwnDelimits
<1>2. \/ lens = <<>> /\ codings = <<>>
      \/ lens = <<>> /\ codings = << <<"chunked">> >>
      \/ lens = <<Decimal(body.len)>> /\ codings = <<>>
  BY OwnDelimits
<1>3. ~Bodiless(status)
  BY DEF Bodiless, forbids_body_framing
<1>4. CASE lens = <<>> /\ codings = <<>>
  <2>1. Len(<<>>) + Len(<<>>) <= 1
    OBVIOUS
  <2> QED BY <1>1, <1>3, <1>4, <2>1 DEF Frames
<1>5. ASSUME NEW v, (lens = <<v>> /\ codings = <<>>) \/ (lens = <<>> /\ codings = <<v>>)
      PROVE  Frames(version, status, body, hr, lens, codings)
  BY <1>1, <1>3, <1>5, FramesOne
<1> QED BY <1>2, <1>4, <1>5

\* So it is in the head that write_head_for makes.
LEMMA NativeFrames ==
    ASSUME NEW version, NEW status, NEW hs, NEW body, NEW hr, NEW cd, NEW sl, NEW sc, NEW framed,
           NEW kl, NEW kc, NativeParts(version, status, hs, body, hr, cd, sl, sc, framed, kl, kc)
    PROVE  Frames(version, status, body, hr,
                  kl \o OwnLens(body, framed), kc \o OwnCodings(version, body, framed))
<1> USE DEF NativeParts
<1> DEFINE lens == Emitted(hs, "ContentLength")
           ol == OwnLens(body, framed)
           oc == OwnCodings(version, body, framed)
<1>1. sl <=> StaleLens(lens, status, hr, body, cd)
  <2>1. cd = coded(version, status, hs, body)
    BY DEF coded
  <2>2. StaleLens(lens, status, hr, body, coded(version, status, hs, body))
          <=> stale_content_length(version, status, hs, body, hr)
    BY DEF StaleLens, stale_content_length
  <2> HIDE DEF lens
  <2> QED BY <2>1, <2>2
<1>2. KeepsLength(kl, lens, sl, status, hr, body, cd)
  <2>1. lens = Emitted(hs, "ContentLength")
    OBVIOUS
  <2> HIDE DEF lens
  <2> QED BY <1>1, <2>1, LengthKept
<1>3. KeepsCoding(kc, version, status, body, cd)
  BY CodingKept
<1>4. framed <=> cd \/ kl # <<>> \/ forbids_body_framing(status)
  BY <1>2 DEF KeepsLength, lens
<1>5. /\ framed => ol = <<>> /\ oc = <<>>
      /\ ~framed => ol = OwnLens(body, FALSE) /\ oc = OwnCodings(version, body, FALSE)
  BY OwnDelimits
<1>6. \A x : <<x>> \o <<>> = <<x>>
  OBVIOUS
<1>7. <<>> \o <<>> = <<>>
  OBVIOUS
<1>f. Bodiless(status) => forbids_body_framing(status)
  BY DEF Bodiless, forbids_body_framing
<1> HIDE DEF ol, oc
<1>8. CASE cd
  <2>1. kl = <<>>
    <3>1. status # 304
      BY <1>3, <1>8 DEF KeepsCoding, forbids_body_framing
    <3> QED BY <1>2, <1>3, <1>8, <3>1 DEF KeepsLength, KeepsCoding
  <2>2. PICK v \in Bytes : kc = <<v>> /\ EndsChunked(Elements(v))
    BY <1>3, <1>8 DEF KeepsCoding
  <2>3. kl \o ol = <<>> /\ kc \o oc = <<v>>
    BY <1>4, <1>5, <1>6, <1>7, <1>8, <2>1, <2>2
  <2>4. version = "1.1" /\ body.kind = "Stream" /\ ~forbids_body_framing(status)
    BY <1>3, <1>8 DEF KeepsCoding
  <2>5. Delimits(version, body, <<>>, <<v>>)
    BY <2>2, <2>4 DEF Delimits
  <2>6. Frames(version, status, body, hr, <<>>, <<v>>)
    BY <1>f, <2>4, <2>5, FramesOne
  <2> QED BY <2>3, <2>6 DEF ol, oc
<1>9. CASE ~cd /\ kl # <<>>
  <2>1. PICK v \in Bytes : kl = <<v>>
    BY <1>2, <1>9 DEF KeepsLength
  <2>2. kl \o ol = kl /\ kc \o oc = <<>>
    BY <1>3, <1>4, <1>5, <1>6, <1>7, <1>9, <2>1 DEF KeepsCoding
  <2>3. ~hr /\ ~forbids_body_framing(status) => Delimits(version, body, kl, <<>>)
    BY <1>2, <1>9 DEF Delimits, KeepsLength
  <2>4. ~Bodiless(status)
    BY <1>2, <1>9 DEF KeepsLength
  <2>5. Frames(version, status, body, hr, kl, <<>>)
    BY <2>1, <2>3, <2>4, FramesOne
  <2> QED BY <2>2, <2>5 DEF ol, oc
<1>10. CASE ~cd /\ kl = <<>> /\ forbids_body_framing(status)
  <2>1. kl \o ol = <<>> /\ kc \o oc = <<>>
    BY <1>3, <1>4, <1>5, <1>7, <1>10 DEF KeepsCoding
  <2>2. Frames(version, status, body, hr, <<>>, <<>>)
    BY <1>10, FramesNone
  <2> QED BY <2>1, <2>2 DEF ol, oc
<1>11. CASE ~framed
  <2>1. kl = <<>> /\ kc = <<>>
    BY <1>3, <1>4, <1>11 DEF KeepsCoding
  <2>2. ~forbids_body_framing(status)
    BY <1>4, <1>11
  <2>3. Frames(version, status, body, hr, ol, oc)
    BY <1>5, <1>11, <2>2, FramesOwn
  <2>4. ol \in Seq(Bytes) /\ oc \in Seq(Bytes)
    BY OwnTyped DEF ol, oc
  <2>5. kl \o ol = ol /\ kc \o oc = oc
    BY <2>1, <2>4, NothingAdded
  <2> QED BY <2>3, <2>5 DEF ol, oc
<1> QED BY <1>4, <1>8, <1>9, <1>10, <1>11

-----------------------------------------------------------------------------
(* What the peer makes of it.                                              *)

\* The body is delimited by what follows the head.
LEMMA ReadsBody ==
    ASSUME NEW h, h.version \in {"1.0", "1.1"}, h.method # "HEAD", NEW a, a.fields \in Seq(Header),
           ~forbids_body_framing(a.status), NEW body \in Body,
           Delimits(h.version, body, In(a.fields, "ContentLength"), In(a.fields, "TransferEncoding"))
    PROVE  Reads(h, a) = Framed(h.version, body)
<1> DEFINE lens == In(a.fields, "ContentLength")
           values == In(a.fields, "TransferEncoding")
           codings == AllElements(values)
<1>1. Named(a, "ContentLength") = lens /\ Named(a, "TransferEncoding") = values
  BY NamedIs DEF In
<1>2. Reads(h, a) =
          CASE h.version = "1.1" /\ EndsChunked(codings) -> Kind("Chunked", 0)
            [] codings = <<>> /\ Len(lens) = 1 /\ IsNumber(lens[1]) -> Kind("Length", PortValue(lens[1]))
            [] OTHER -> Kind("Close", 0)
  <2>1. Reads(h, a) =
            IF h.method = "HEAD" \/ a.status \in {204, 304} \cup 100..199 THEN Kind("None", 0)
            ELSE CASE h.version = "1.1" /\ EndsChunked(codings) -> Kind("Chunked", 0)
                   [] codings = <<>> /\ Len(lens) = 1 /\ IsNumber(lens[1]) -> Kind("Length", PortValue(lens[1]))
                   [] OTHER -> Kind("Close", 0)
    <3> HIDE DEF lens, values
    <3> QED BY ONLY <1>1 DEF Reads
  <2>2. ~(h.method = "HEAD" \/ a.status \in {204, 304} \cup 100..199)
    BY DEF forbids_body_framing
  <2> HIDE DEF lens, codings
  <2> QED BY ONLY <2>1, <2>2
<1>3. Delimits(h.version, body, lens, values)
  OBVIOUS
<1>4. ~EndsChunked(<<>>)
  BY DEF EndsChunked
<1>5. AllElements(<<>>) = <<>> /\ \A v \in Bytes : AllElements(<<v>>) = Elements(v)
  BY AllElementsIs, OneElements
<1> HIDE DEF lens, values, codings
<1>6. CASE h.version = "1.1" /\ body.kind = "Stream" /\ lens = <<>>
           /\ \E v \in Bytes : values = <<v>> /\ EndsChunked(Elements(v))
  <2>1. EndsChunked(codings)
    BY <1>5, <1>6 DEF codings
  <2>2. codings # <<>>
    BY <1>4, <2>1
  <2> QED BY <1>2, <1>6, <2>1, <2>2 DEF Framed
<1>7. CASE body.kind # "Stream" /\ values = <<>>
           /\ \E v \in Bytes : lens = <<v>> /\ IsNumber(v) /\ PortValue(v) = body.len
  <2>1. PICK v \in Bytes : lens = <<v>> /\ IsNumber(v) /\ PortValue(v) = body.len
    BY <1>7
  <2>2. codings = <<>> /\ ~EndsChunked(codings)
    BY <1>4, <1>5, <1>7 DEF codings
  <2>3. Len(lens) = 1 /\ lens[1] = v
    BY <2>1
  <2> QED BY <1>2, <1>7, <2>1, <2>2, <2>3 DEF Framed
<1>8. CASE h.version = "1.0" /\ body.kind = "Stream" /\ lens = <<>> /\ values = <<>>
  <2>1. h.version # "1.1" /\ Len(lens) # 1
    BY <1>8
  <2> QED BY <1>2, <1>8, <2>1 DEF Framed
<1> QED BY <1>3, <1>6, <1>7, <1>8 DEF Delimits

\* The peer's tokens are those that show.
LEMMA TokensRead ==
    ASSUME NEW a, a.fields \in Seq(Header), NEW ts, ts = AllElements(In(a.fields, "Connection"))
    PROVE  /\ Tokens(a) = [i \in DOMAIN ts |-> to_lower(ts[i])]
           /\ ts \in Seq(Bytes)
<1>1. Named(a, "Connection") = In(a.fields, "Connection") /\ In(a.fields, "Connection") \in Seq(Bytes)
  BY NamedIs, InIs DEF In
<1>2. ts \in Seq(Bytes)
  BY <1>1, AllElementsIs
<1> QED BY <1>1, <1>2 DEF Tokens

\* Of the handler's tokens and the server's, only the server's say what becomes of the
\* connection, and none names a framing field.
SayOnly(low, cf, version, keeps) ==
    /\ \A i \in DOMAIN low : low[i] \notin {<<"content-length">>, <<"transfer-encoding">>}
    /\ cf = connection_field(version, keeps) =>
           /\ Contains(low, <<"close">>) <=> ~keeps
           /\ Contains(low, <<"keep-alive">>) <=> (keeps /\ version = "1.0")

\* So they do.
LEMMA TokensSay ==
    ASSUME NEW hs \in Seq(Header), NEW version \in {"1.0", "1.1"}, NEW keeps \in BOOLEAN,
           NEW cf, cf = <<>> \/ cf = connection_field(version, keeps),
           NEW ts, ts = Theirs(hs) \o cf, NEW low, low = [i \in DOMAIN ts |-> to_lower(ts[i])]
    PROVE  SayOnly(low, cf, version, keeps)
<1>1. Theirs(hs) \in Seq(Bytes) /\ \A t \in ToSet(Theirs(hs)) : Passed(t)
  BY TheirsIs
<1>2. cf \in Seq(Bytes)
  BY OwnTokens
<1>3. ts \in Seq(Bytes) /\ ToSet(ts) = ToSet(Theirs(hs)) \cup ToSet(cf)
  <2> DEFINE p == Theirs(hs)
  <2> HIDE DEF p
  <2>1. p \o cf \in Seq(Bytes) /\ ToSet(p \o cf) = ToSet(p) \cup ToSet(cf)
    <3>1. p \in Seq(Bytes)
      BY <1>1 DEF p
    <3>2. p \o cf \in Seq(Bytes)
      BY <1>2, <3>1, ConcatProperties
    <3> QED BY <1>2, <3>1, <3>2, SetConcat
  <2> QED BY <2>1 DEF p
<1>4. Len(ts) \in Nat /\ DOMAIN ts = 1..Len(ts) /\ DOMAIN low = 1..Len(ts)
  BY <1>3
<1>5. \A i \in DOMAIN ts : low[i] = to_lower(ts[i])
  OBVIOUS
<1>6. Len(low) = Len(ts)
  BY <1>3
<1>7. ASSUME NEW w PROVE Contains(low, w) <=> \E t \in ToSet(ts) : to_lower(t) = w
  BY <1>4, <1>5, <1>6 DEF Contains, ToSet
<1>8. ASSUME NEW w, w = "close" \/ w = "keep-alive" PROVE to_lower(<<w>>) = <<w>>
  <2>1. w \notin DOMAIN Lowered
    BY <1>8 DEF Lowered
  <2>2. DOMAIN <<w>> = {1} /\ <<w>>[1] = w
    OBVIOUS
  <2>3. to_lower(<<w>>) = [i \in {1} |-> w]
    BY <2>1, <2>2 DEF to_lower
  <2>4. <<w>> = [i \in {1} |-> w]
    OBVIOUS
  <2> QED BY <2>3, <2>4
<1>9. ASSUME NEW t \in ToSet(Theirs(hs))
      PROVE  to_lower(t) \notin {<<"close">>, <<"keep-alive">>, <<"content-length">>, <<"transfer-encoding">>}
  BY <1>1 DEF Passed
<1>10. \/ cf = <<>> /\ ToSet(cf) = {}
       \/ cf = << <<"close">> >> /\ ToSet(cf) = {<<"close">>}
       \/ cf = << <<"keep-alive">> >> /\ ToSet(cf) = {<<"keep-alive">>}
  BY SetSmall DEF connection_field
<1>11. ASSUME NEW t \in ToSet(ts) PROVE to_lower(t) \notin {<<"content-length">>, <<"transfer-encoding">>}
  <2>1. CASE t \in ToSet(Theirs(hs))
    BY <1>9, <2>1
  <2>2. CASE t \in ToSet(cf)
    <3>1. t = <<"close">> \/ t = <<"keep-alive">>
      BY <1>10, <2>2
    <3>2. to_lower(t) = <<"close">> \/ to_lower(t) = <<"keep-alive">>
      BY <1>8, <3>1
    <3> QED BY <3>2
  <2> QED BY <1>3, <2>1, <2>2
<1>12. ASSUME NEW i \in DOMAIN low PROVE low[i] \notin {<<"content-length">>, <<"transfer-encoding">>}
  <2>1. i \in DOMAIN ts /\ ts[i] \in ToSet(ts)
    BY <1>4 DEF ToSet
  <2> QED BY <1>5, <1>11, <2>1
<1>13. ASSUME NEW w, w = "close" \/ w = "keep-alive"
       PROVE  Contains(low, <<w>>) <=> \E t \in ToSet(cf) : to_lower(t) = <<w>>
  <2>1. \A t \in ToSet(Theirs(hs)) : to_lower(t) # <<w>>
    BY <1>9, <1>13
  <2> QED BY <1>3, <1>7, <2>1
<1>14. ASSUME cf = connection_field(version, keeps)
       PROVE  /\ Contains(low, <<"close">>) <=> ~keeps
              /\ Contains(low, <<"keep-alive">>) <=> (keeps /\ version = "1.0")
  <2>1. cf = IF ~keeps THEN << <<"close">> >> ELSE IF version = "1.0" THEN << <<"keep-alive">> >> ELSE <<>>
    BY <1>14 DEF connection_field
  <2>2. to_lower(<<"close">>) = <<"close">> /\ to_lower(<<"keep-alive">>) = <<"keep-alive">>
        /\ <<"close">> # <<"keep-alive">>
    BY <1>8
  <2>3. CASE ~keeps
    <3>1. ToSet(cf) = {<<"close">>}
      BY <2>1, <2>3, SetSmall
    <3> QED BY <1>13, <2>2, <2>3, <3>1
  <2>4. CASE keeps /\ version = "1.0"
    <3>1. ToSet(cf) = {<<"keep-alive">>}
      BY <2>1, <2>4, SetSmall
    <3> QED BY <1>13, <2>2, <2>4, <3>1
  <2>5. CASE keeps /\ version = "1.1"
    <3>1. ToSet(cf) = {}
      BY <2>1, <2>5, SetSmall
    <3> QED BY <1>13, <2>5, <3>1
  <2> QED BY <2>3, <2>4, <2>5
<1> QED BY <1>12, <1>14 DEF SayOnly

\* ReadAsSent, of one answer.
SentAs(h, a) ==
    /\ Reads(h, a) = a.sends
    /\ a.sends.kind = "Close" => a.after = "close"
    /\ Len(Named(a, "ContentLength")) + Len(Named(a, "TransferEncoding")) <= 1
    /\ a.status \in {204} \cup 100..199 =>
           Named(a, "ContentLength") \o Named(a, "TransferEncoding") = <<>>
    /\ \A i \in DOMAIN Tokens(a) :
           Tokens(a)[i] \notin {<<"content-length">>, <<"transfer-encoding">>}
    /\ a.status # 101 => (ReadsPersistence(h, a) <=> a.after = "keep")
    /\ \A i \in DOMAIN a.fields : ~Contains(a.fields[i].value, "crlf")

\* A head that is sound, frames the body and ends in the server's tokens, and what follows it.
Sound(h, a, hs, body, lens, codings, others, keeps, up, cf, hr) ==
    /\ h.version \in {"1.0", "1.1"} /\ hs \in Seq(Header) /\ body \in Body
    /\ keeps \in BOOLEAN /\ up \in BOOLEAN /\ hr \in BOOLEAN /\ (hr <=> h.method = "HEAD")
    /\ cf = IF a.status = 101 THEN <<>> ELSE connection_field(h.version, keeps)
    /\ Shows(a.fields, lens, codings, Theirs(hs) \o cf, others)
    /\ Frames(h.version, a.status, body, hr, lens, codings)
    /\ a.sends = IF hr \/ forbids_body_framing(a.status) THEN Kind("None", 0) ELSE Framed(h.version, body)
    /\ up => a.status = 101
    /\ a.after = IF up THEN "upgrade" ELSE IF keeps THEN "keep" ELSE "close"
    /\ keeps => ~(h.version = "1.0" /\ body.kind = "Stream" /\ ~hr /\ ~forbids_body_framing(a.status))

\* It is read as it was sent.
LEMMA ReadSo ==
    ASSUME NEW h, NEW a, NEW hs, NEW body, NEW lens, NEW codings, NEW others, NEW keeps, NEW up, NEW cf,
           NEW hr, Sound(h, a, hs, body, lens, codings, others, keeps, up, cf, hr)
    PROVE  SentAs(h, a)
<1> USE DEF Sound
<1> DEFINE ts == Theirs(hs) \o cf
           low == [i \in DOMAIN ts |-> to_lower(ts[i])]
<1>1. /\ a.fields \in Seq(Header) /\ Unbroken(a.fields)
      /\ In(a.fields, "ContentLength") = lens /\ In(a.fields, "TransferEncoding") = codings
      /\ AllElements(In(a.fields, "Connection")) = ts
  BY DEF Shows
<1>2. Named(a, "ContentLength") = lens /\ Named(a, "TransferEncoding") = codings
  BY <1>1, NamedIs DEF In
<1>3. Tokens(a) = low
  <2> HIDE DEF ts
  <2> QED BY <1>1, TokensRead
<1>4. SayOnly(low, cf, h.version, keeps)
  <2>1. cf = <<>> \/ cf = connection_field(h.version, keeps)
    OBVIOUS
  <2>2. ts = Theirs(hs) \o cf /\ low = [i \in DOMAIN ts |-> to_lower(ts[i])]
    OBVIOUS
  <2>3. h.version \in {"1.0", "1.1"} /\ hs \in Seq(Header) /\ keeps \in BOOLEAN
    OBVIOUS
  <2> HIDE DEF ts, low
  <2> QED BY ONLY <2>1, <2>2, <2>3, TokensSay
<1> HIDE DEF ts, low
<1>5. Reads(h, a) = a.sends
  <2>1. CASE hr \/ forbids_body_framing(a.status)
    BY <2>1 DEF Reads, forbids_body_framing
  <2>2. CASE ~hr /\ ~forbids_body_framing(a.status)
    <3>1. Delimits(h.version, body, In(a.fields, "ContentLength"), In(a.fields, "TransferEncoding"))
      BY <1>1, <2>2 DEF Frames
    <3>2. h.method # "HEAD"
      BY <2>2
    <3>3. h.version \in {"1.0", "1.1"} /\ a.fields \in Seq(Header) /\ body \in Body
      BY <1>1
    <3>4. Reads(h, a) = Framed(h.version, body)
      BY ONLY <2>2, <3>1, <3>2, <3>3, ReadsBody
    <3> QED BY <2>2, <3>4
  <2> QED BY <2>1, <2>2
<1>6. ASSUME a.sends.kind = "Close" PROVE a.after = "close"
  <2>1. /\ h.version = "1.0" /\ body.kind = "Stream" /\ ~hr /\ ~forbids_body_framing(a.status)
    <3>1. ~(hr \/ forbids_body_framing(a.status))
      BY <1>6 DEF Kind
    <3>2. a.sends = Framed(h.version, body)
      BY <3>1
    <3> QED BY <1>6, <3>1, <3>2 DEF Framed, Kind
  <2>2. ~keeps
    BY <2>1
  <2>3. ~up
    BY <2>1 DEF forbids_body_framing
  <2> QED BY <2>2, <2>3
<1>7. Len(Named(a, "ContentLength")) + Len(Named(a, "TransferEncoding")) <= 1
  BY <1>2 DEF Frames
<1>8. a.status \in {204} \cup 100..199 => Named(a, "ContentLength") \o Named(a, "TransferEncoding") = <<>>
  <2>1. <<>> \o <<>> = <<>>
    OBVIOUS
  <2>2. Bodiless(a.status) => lens = <<>> /\ codings = <<>>
    BY DEF Frames
  <2> QED BY <1>2, <2>1, <2>2 DEF Bodiless
<1>9. ASSUME a.status # 101 PROVE ReadsPersistence(h, a) <=> a.after = "keep"
  <2>1. cf = connection_field(h.version, keeps) /\ ~up
    BY <1>9
  <2>2. a.after = "keep" <=> keeps
    BY <2>1
  <2> QED BY <1>3, <1>4, <2>1, <2>2 DEF ReadsPersistence, SayOnly
<1>10. \A i \in DOMAIN a.fields : ~Contains(a.fields[i].value, "crlf")
  <2>1. ASSUME NEW i \in DOMAIN a.fields PROVE ~Contains(a.fields[i].value, "crlf")
    <3> DEFINE v == a.fields[i].value
    <3>1. a.fields[i] \in Header /\ a.fields[i] \in ToSet(a.fields)
      BY <1>1 DEF ToSet
    <3>2. v \in Bytes
      BY <3>1 DEF Header
    <3>3. \A j \in DOMAIN v : ~Ends(v[j])
      BY <1>1, <3>1 DEF Unbroken
    <3> HIDE DEF v
    <3>4. ~Contains(v, "crlf")
      BY <3>2, <3>3 DEF Contains, Ends, Bytes
    <3> QED BY <3>4 DEF v
  <2> QED BY <2>1
<1>11. \A i \in DOMAIN Tokens(a) : Tokens(a)[i] \notin {<<"content-length">>, <<"transfer-encoding">>}
  BY <1>3, <1>4 DEF SayOnly
<1> QED BY <1>5, <1>6, <1>7, <1>8, <1>9, <1>10, <1>11 DEF SentAs

\* A response, for what the writers need of it.
LEMMA ResponseIs ==
    ASSUME NEW given, given \in Response
    PROVE  given.headers \in Seq(Header) /\ given.body \in Body /\ given.fully_read \in BOOLEAN
<1>1. [id : STRING, value : Seq(STRING)] \subseteq Header
  <2>1. STRING \subseteq Name /\ STRING \subseteq Byte
    BY DEF Name, Byte
  <2>2. Seq(STRING) \subseteq Bytes
    BY <2>1, SeqMonotone DEF Bytes
  <2> QED BY <2>1, <2>2 DEF Header
<1> DEFINE F == [id : STRING, value : Seq(STRING)]
<1>2. given.headers \in Seq(F) /\ given.body \in Body /\ given.fully_read \in BOOLEAN
  BY DEF Response, Body
<1> HIDE DEF F
<1>3. Seq(F) \subseteq Seq(Header)
  BY <1>1, SeqMonotone DEF F
<1> QED BY <1>2, <1>3

\* What is answered for it.
LEMMA PossibleIs ==
    ASSUME NEW h, NEW given, given \in Response, NEW r, r = Possible(h, given)
    PROVE  /\ r.headers \in Seq(Header) /\ r.body \in Body
           /\ is_final_status(given.status, wants_upgrade(h)) => r = given
<1>1. given.headers \in Seq(Header) /\ given.body \in Body
  BY ResponseIs
<1>2. CASE is_final_status(given.status, wants_upgrade(h))
  BY <1>1, <1>2 DEF Possible
<1>3. CASE ~is_final_status(given.status, wants_upgrade(h))
  <2>1. r = [given EXCEPT !.status = 500, !.headers = <<>>, !.body = NoReply.body]
    BY <1>3 DEF Possible
  <2>2. NoReply.body \in Body
    BY DEF NoReply, Body
  <2>3. r.headers = <<>> /\ r.body = NoReply.body
    BY <2>1 DEF Response
  <2> QED BY <1>3, <2>2, <2>3
<1> QED BY <1>2, <1>3

\* OtherAs makes fields of fields.
LEMMA OtherAsTyped == OtherAs \in [Header -> Seq(Header)]
<1>1. \A f \in Header : canonical(f.id) \in Name /\ f.value \in Bytes
  BY CanonicalIs DEF Header
<1>2. \A f \in Header : [id |-> canonical(f.id), value |-> f.value] \in Header
  BY <1>1 DEF Header
<1> QED BY <1>2 DEF OtherAs

\* With the server's name, a response has the same framing, tokens and other fields.
LEMMA ServerSame ==
    ASSUME NEW hs \in Seq(Header), NEW ws, ws = WithServer(hs)
    PROVE  /\ ws \in Seq(Header)
           /\ Emitted(ws, "ContentLength") = Emitted(hs, "ContentLength")
           /\ Emitted(ws, "TransferEncoding") = Emitted(hs, "TransferEncoding")
           /\ Theirs(ws) = Theirs(hs) /\ FlatMap(ws, OtherAs) = FlatMap(hs, OtherAs)
<1> DEFINE x == [id |-> "Server", value |-> <<"a">>]
<1>1. x \in Header /\ x.id = "Server"
  BY PlainShows
<1>2. canonical("Server") = "Server"
  BY DEF canonical
<1>3. ws \in Seq(Header)
  BY ServerAdds
<1>4. ASSUME NEW Y, NEW f \in [Header -> Seq(Y)], f[x] = <<>> PROVE FlatMap(ws, f) = FlatMap(hs, f)
  BY <1>4, ServerAdds
<1> HIDE DEF x
<1>5. ASSUME NEW id, id # "Server" PROVE Emitted(ws, id) = Emitted(hs, id)
  <2>1. Pick(id)[x] = <<>>
    BY <1>1, <1>2, <1>5 DEF Pick
  <2>2. Pick(id) \in [Header -> Seq(Header)]
    BY DEF Pick
  <2>3. FlatMap(ws, Pick(id)) = FlatMap(hs, Pick(id))
    BY <1>4, <2>1, <2>2
  <2> QED BY <1>3, <2>3, EmittedIs
<1>6. Theirs(ws) = Theirs(hs)
  <2>1. TokensOf[x] = <<>>
    BY <1>1, <1>2 DEF TokensOf
  <2> QED BY <1>4, <2>1, TokensOfIs DEF Theirs
<1>7. FlatMap(ws, OtherAs) = FlatMap(hs, OtherAs)
  <2>1. OtherAs[x] = <<>>
    BY <1>1, <1>2 DEF OtherAs, Decided
  <2> QED BY <1>4, <2>1, OtherAsTyped
<1> QED BY <1>3, <1>5, <1>6, <1>7

\* What of a response is stale is so or not.
LEMMA StaleIs ==
    ASSUME NEW version, NEW status, NEW hs, NEW body, NEW hr
    PROVE  /\ stale_content_length(version, status, hs, body, hr) \in BOOLEAN
           /\ stale_transfer_encoding(version, status, hs, body) \in BOOLEAN
           /\ coded(version, status, hs, body) \in BOOLEAN
<1> QED BY DEF stale_content_length, stale_transfer_encoding, coded

\* The native answer's parts.
NativeOf(h, given, version, r, hr, up, keeps, hs, cd, sl, sc, framed, kl, kc, cf) ==
    /\ version = h.version /\ given \in Response /\ r = Possible(h, given) /\ hs = r.headers
    /\ hr <=> h.method = "HEAD"
    /\ up \in BOOLEAN /\ (up <=> upgrading(h, given))
    /\ keeps \in BOOLEAN /\ (keeps <=> keep_alive(h, given, r) /\ ~up)
    /\ NativeParts(version, r.status, hs, r.body, hr, cd, sl, sc, framed, kl, kc)
    /\ cf = IF r.status = 101 THEN <<>> ELSE connection_field(version, keeps)

\* What shows in it, and that it is read as it was sent.
LEMMA NativeAnswer ==
    ASSUME NEW h, NEW given, NEW version, NEW r, NEW hr, NEW up, NEW keeps, NEW hs, NEW cd, NEW sl,
           NEW sc, NEW framed, NEW kl, NEW kc, NEW cf,
           NativeOf(h, given, version, r, hr, up, keeps, hs, cd, sl, sc, framed, kl, kc, cf)
    PROVE  /\ SentAs(h, write_response(h, given))
           /\ Shows(write_response(h, given).fields, kl \o OwnLens(r.body, framed),
                    kc \o OwnCodings(version, r.body, framed), Theirs(hs) \o cf, FlatMap(hs, OtherAs))
           /\ write_response(h, given).sends =
                  IF hr \/ forbids_body_framing(r.status) THEN Kind("None", 0) ELSE Framed(version, r.body)
<1> DEFINE a == write_response(h, given)
           ws == WithServer(hs)
           body == r.body
           status == r.status
<1>0. NativeParts(version, status, hs, body, hr, cd, sl, sc, framed, kl, kc)
  BY DEF NativeOf
<1> USE DEF NativeOf
<1>1. hs \in Seq(Header) /\ body \in Body
  BY <1>0 DEF NativeParts
<1>2. /\ ws \in Seq(Header)
      /\ Emitted(ws, "ContentLength") = Emitted(hs, "ContentLength")
      /\ Emitted(ws, "TransferEncoding") = Emitted(hs, "TransferEncoding")
      /\ Theirs(ws) = Theirs(hs) /\ FlatMap(ws, OtherAs) = FlatMap(hs, OtherAs)
  BY <1>1, ServerSame
<1>3. up => status = 101 /\ forbids_body_framing(status)
  <2>1. up => given.status = 101 /\ is_final_status(given.status, wants_upgrade(h))
    BY DEF upgrading, is_final_status
  <2>2. up => status = 101
    BY <2>1, PossibleIs
  <2> QED BY <2>2 DEF forbids_body_framing
<1>4. /\ a.status = status
      /\ a.fields = write_head_for(version, status, ws, body, keeps, hr)
      /\ a.sends = IF hr \/ forbids_body_framing(status) THEN Kind("None", 0) ELSE Framed(version, body)
      /\ a.after = IF up THEN "upgrade" ELSE IF keeps THEN "keep" ELSE "close"
  <2>1. up = upgrading(h, given) /\ keeps = (keep_alive(h, given, r) /\ ~up) /\ hr = (h.method = "HEAD")
    BY <1>0 DEF NativeParts, upgrading
  <2> QED BY <1>3, <2>1 DEF write_response
<1>5. keeps => ~(/\ version = "1.0" /\ body.kind = "Stream" /\ ~hr /\ ~forbids_body_framing(status))
  BY DEF keep_alive, close_delimited
<1>6. NativeParts(version, status, ws, body, hr, cd, sl, sc, framed, kl, kc)
  <2>1. stale_transfer_encoding(version, status, ws, body) = stale_transfer_encoding(version, status, hs, body)
    BY <1>2 DEF stale_transfer_encoding
  <2>2. coded(version, status, ws, body) = coded(version, status, hs, body)
    BY <1>2, <2>1 DEF coded
  <2>3. stale_content_length(version, status, ws, body, hr) = stale_content_length(version, status, hs, body, hr)
    BY <1>2, <2>2 DEF stale_content_length
  <2>4. Given(ws, "ContentLength") = Given(hs, "ContentLength")
        /\ Given(ws, "TransferEncoding") = Given(hs, "TransferEncoding")
    BY <1>2 DEF Given
  <2> HIDE DEF ws, body, status, NativeOf
  <2> QED BY <1>0, <1>2, <2>1, <2>2, <2>3, <2>4 DEF NativeParts
<1>7. cf = IF status = 101 THEN <<>> ELSE connection_field(version, keeps)
  OBVIOUS
<1> HIDE DEF a, ws, body, status
<1>8. Shows(a.fields, kl \o OwnLens(body, framed), kc \o OwnCodings(version, body, framed),
            Theirs(hs) \o cf, FlatMap(hs, OtherAs))
  <2>1. Shows(write_head_for(version, status, ws, body, keeps, hr), kl \o OwnLens(body, framed),
              kc \o OwnCodings(version, body, framed), Theirs(ws) \o cf, FlatMap(ws, OtherAs))
    BY ONLY <1>6, <1>7, NativeShows
  <2> QED BY <1>2, <1>4, <2>1
<1>9. Frames(version, status, body, hr, kl \o OwnLens(body, framed), kc \o OwnCodings(version, body, framed))
  BY ONLY <1>0, NativeFrames
<1>10. SentAs(h, a)
  <2> DEFINE lens == kl \o OwnLens(body, framed)
             codings == kc \o OwnCodings(version, body, framed)
             others == FlatMap(hs, OtherAs)
  <2>1. cf = IF a.status = 101 THEN <<>> ELSE connection_field(h.version, keeps)
    BY <1>4, <1>7
  <2>2. Frames(h.version, a.status, body, hr, lens, codings)
    BY <1>4, <1>9
  <2>3. a.sends = IF hr \/ forbids_body_framing(a.status) THEN Kind("None", 0) ELSE Framed(h.version, body)
    BY <1>4
  <2>4. keeps => ~(/\ h.version = "1.0" /\ body.kind = "Stream" /\ ~hr /\ ~forbids_body_framing(a.status))
    BY <1>4, <1>5
  <2>5. up => a.status = 101
    BY <1>3, <1>4
  <2>6. /\ h.version \in {"1.0", "1.1"} /\ hs \in Seq(Header) /\ body \in Body /\ hr \in BOOLEAN
        /\ keeps \in BOOLEAN /\ up \in BOOLEAN /\ (hr <=> h.method = "HEAD")
    BY <1>0 DEF NativeParts
  <2>7. a.after = IF up THEN "upgrade" ELSE IF keeps THEN "keep" ELSE "close"
    BY <1>4
  <2>8. Shows(a.fields, lens, codings, Theirs(hs) \o cf, others)
    BY <1>8
  <2> HIDE DEF lens, codings, others
  <2>9. Sound(h, a, hs, body, lens, codings, others, keeps, up, cf, hr)
    BY ONLY <2>1, <2>2, <2>3, <2>4, <2>5, <2>6, <2>7, <2>8 DEF Sound
  <2> QED BY ONLY <2>9, ReadSo
<1> QED BY <1>4, <1>8, <1>10 DEF a, body, status

-----------------------------------------------------------------------------
(* The bridged answer.                                                     *)

\* A length that cannot be written cannot be read, and is stale.
LEMMA UnreadStale ==
    ASSUME NEW v \in Bytes, ~valid_field_value(v), NEW body \in Body, NEW n, NEW status, NEW hr
    PROVE  handler_length_is_stale(v, n, status, hr, BodyLen(body), FALSE)
<1>1. parse_content_length(v) = None
  <2> SUFFICES ASSUME parse_content_length(v) # None PROVE FALSE
    OBVIOUS
  <2>1. Numeral(v)
    BY ParseIs
  <2>2. PICK i \in DOMAIN v : v[i] = "crlf"
    BY DEF valid_field_value, Contains, Bytes
  <2>3. v[i] \in DecimalDigits
    BY <2>1, DigitSymbol DEF Numeral
  <2>4. "crlf" \notin DecimalDigits
    BY Zenon DEF DecimalDigits
  <2> QED BY <2>2, <2>3, <2>4
<1>2. BodyLen(body) = None \/ None # BodyLen(body)
  OBVIOUS
<1> QED BY <1>1, <1>2 DEF handler_length_is_stale, parse_len

\* The lengths that convert_response counts are those that can be written.
LEMMA CountedIs ==
    ASSUME NEW hs \in Seq(Header)
    PROVE  Only(hs, LAMBDA f : canonical(f.id) = "ContentLength" /\ valid_field_value(f.value))
           = Emitted(hs, "ContentLength")
<1>1. \A f \in Header : (canonical(f.id) = "ContentLength" /\ valid_field_value(f.value))
                        <=> (writable(f) /\ canonical(f.id) = "ContentLength")
  BY DEF writable, valid_field_name, canonical
<1>2. \A i \in DOMAIN hs : hs[i] \in Header
  OBVIOUS
<1>3. [i \in DOMAIN hs |-> IF canonical(hs[i].id) = "ContentLength" /\ valid_field_value(hs[i].value)
                           THEN <<hs[i]>> ELSE <<>>]
      = [i \in DOMAIN hs |-> IF writable(hs[i]) /\ canonical(hs[i].id) = "ContentLength"
                             THEN <<hs[i]>> ELSE <<>>]
  BY <1>1, <1>2
<1> QED BY <1>3 DEF Only, Emitted

\* What convert_response makes of a field, its lengths judged together.
ConvertAs(sl) == [f \in Header |->
    IF \/ canonical(f.id) = "ContentLength" /\ writable(f) /\ ~sl
       \/ /\ canonical(f.id) \notin {"ContentLength", "TransferEncoding", "Connection"}
          /\ valid_field_name(f.id) /\ HeaderValue(f.value)
    THEN <<[id |-> canonical(f.id), value |-> f.value]>> ELSE <<>>]

\* The response r has the fields hs, whose lengths are lens, and sl says whether they are stale.
Measures(r, hs, hr, lens, sl) ==
    /\ hs \in Seq(Header) /\ r.headers = hs /\ r.body \in Body
    /\ lens = Emitted(hs, "ContentLength")
    /\ sl \in BOOLEAN /\ (sl <=> StaleLens(lens, r.status, hr, r.body, FALSE))

\* That is what it makes of each.
LEMMA ConvertedIs ==
    ASSUME NEW r, NEW hs, NEW hr, NEW lens, NEW sl, Measures(r, hs, hr, lens, sl), NEW f \in ToSet(hs)
    PROVE  (IF Kept(f, r, hr, Len(lens)) THEN <<[id |-> canonical(f.id), value |-> f.value]>> ELSE <<>>)
           = ConvertAs(sl)[f]
<1> USE DEF Measures, StaleLens
<1> DEFINE g == <<[id |-> canonical(f.id), value |-> f.value]>>
           c == canonical(f.id)
           Stale(v) == handler_length_is_stale(v, Len(lens), r.status, hr, BodyLen(r.body), FALSE)
<1>1. f \in Header /\ f.value \in Bytes
  <2>1. ToSet(hs) \subseteq Header
    BY SetIs
  <2> QED BY <2>1 DEF Header
<1>2. ConvertAs(sl)[f] =
          IF \/ c = "ContentLength" /\ writable(f) /\ ~sl
             \/ /\ c \notin {"ContentLength", "TransferEncoding", "Connection"}
                /\ valid_field_name(f.id) /\ HeaderValue(f.value)
          THEN g ELSE <<>>
  BY <1>1 DEF ConvertAs
<1>3. CASE c # "ContentLength"
  <2>1. Kept(f, r, hr, Len(lens)) <=>
            /\ c \notin {"ContentLength", "TransferEncoding", "Connection"}
            /\ valid_field_name(f.id) /\ HeaderValue(f.value)
    BY <1>3 DEF Kept
  <2> HIDE DEF g, c
  <2> QED BY <1>2, <1>3, <2>1 DEF g
<1>4. CASE c = "ContentLength"
  <2>1. Kept(f, r, hr, Len(lens)) <=> ~Stale(f.value)
    BY <1>4 DEF Kept
  <2>2. valid_field_name(f.id)
    BY <1>4 DEF valid_field_name, canonical
  <2>3. lens \in Seq(Header) /\ lens = FlatMap(hs, Pick("ContentLength"))
        /\ Pick("ContentLength") \in [Header -> Seq(Header)]
    BY EmittedIs
  <2>4. CASE ~writable(f)
    <3>1. Stale(f.value)
      BY <1>1, <2>2, <2>4, UnreadStale DEF writable
    <3> QED BY <1>2, <1>4, <2>1, <2>4, <3>1
  <2>5. CASE writable(f)
    <3>1. f \in ToSet(lens)
      <4>1. Pick("ContentLength")[f] = <<f>>
        BY <1>1, <1>4, <2>5 DEF Pick
      <4>2. f \in ToSet(Pick("ContentLength")[f])
        BY <4>1, SetSmall
      <4>3. ToSet(lens) = UNION {ToSet(Pick("ContentLength")[x]) : x \in ToSet(hs)}
        BY <2>3, MapSet
      <4> QED BY <4>2, <4>3
    <3>2. lens # <<>> /\ Len(lens) \in Nat /\ Len(lens) # 0 /\ DOMAIN lens = 1..Len(lens)
      BY <2>3, <3>1, SetIs
    <3>3. CASE Len(lens) > 1
      <4>1. Stale(f.value) /\ Stale(lens[1].value)
        BY <3>3 DEF handler_length_is_stale
      <4> QED BY <1>2, <1>4, <2>1, <3>2, <4>1
    <3>4. CASE Len(lens) = 1
      <4>1. f = lens[1]
        BY <3>1, <3>2, <3>4 DEF ToSet
      <4>2. sl <=> Stale(f.value)
        BY <3>2, <4>1
      <4> QED BY <1>2, <1>4, <2>1, <2>5, <4>2
    <3>5. Len(lens) > 1 \/ Len(lens) = 1
      <4> DEFINE n == Len(lens)
      <4>1. n \in Nat /\ n # 0
        BY <3>2
      <4> HIDE DEF n
      <4>2. n > 1 \/ n = 1
        BY ONLY <4>1
      <4> QED BY <4>2 DEF n
    <3> QED BY ONLY <3>3, <3>4, <3>5
  <2> QED BY ONLY <2>4, <2>5
<1> QED BY <1>3, <1>4

\* What is read in what convert_response makes of one field.
LEMMA ConvertShows ==
    ASSUME NEW sl \in BOOLEAN, NEW f \in Header, NEW e, e = ConvertAs(sl)[f]
    PROVE  /\ e \in Seq(Header) /\ Unbroken(e)
           /\ In(e, "ContentLength") =
                  IF canonical(f.id) = "ContentLength" /\ writable(f) /\ ~sl THEN <<f.value>> ELSE <<>>
           /\ In(e, "TransferEncoding") = <<>> /\ In(e, "Connection") = <<>>
           /\ OthersIn(e) = OtherAs[f]
<1> DEFINE c == canonical(f.id)
           g == [id |-> c, value |-> f.value]
           Goes == \/ c = "ContentLength" /\ writable(f) /\ ~sl
                   \/ /\ c \notin {"ContentLength", "TransferEncoding", "Connection"}
                      /\ valid_field_name(f.id) /\ HeaderValue(f.value)
<1>1. e = IF Goes THEN <<g>> ELSE <<>>
  BY DEF ConvertAs
<1>2. g \in Header /\ g.id = c /\ g.value = f.value /\ canonical(c) = c /\ f.value \in Bytes
  BY CanonicalIs DEF Header
<1>3. OtherAs[f] = IF c \notin Decided /\ valid_field_name(f.id) /\ HeaderValue(f.value) THEN <<g>> ELSE <<>>
  BY DEF OtherAs
<1>4. Goes => \A i \in DOMAIN f.value : ~Ends(f.value[i])
  <2>1. Goes => valid_field_value(f.value)
    BY DEF writable, HeaderValue
  <2> QED BY <1>2, <2>1 DEF valid_field_value, Contains, Ends, Bytes
<1> HIDE DEF g, c
<1>5. \A id : In(<<g>>, id) = IF c = id THEN <<f.value>> ELSE <<>>
  BY <1>2, InIs
<1>6. (\A id : In(<<>>, id) = <<>>) /\ OthersIn(<<>>) = <<>>
  BY InIs, OthersInIs
<1>7. OthersIn(<<g>>) = IF c \notin Decided /\ HeaderValue(f.value) THEN <<g>> ELSE <<>>
  BY <1>2, OthersInIs DEF OtherOf
<1>8. ToSet(<<>>) = {} /\ ToSet(<<g>>) = {g}
  BY SetSmall
<1>9. CASE Goes
  <2>1. e = <<g>>
    BY <1>1, <1>9
  <2>2. e \in Seq(Header) /\ Unbroken(e)
    BY <1>2, <1>4, <1>8, <1>9, <2>1 DEF Unbroken
  <2>3. OthersIn(e) = OtherAs[f]
    BY <1>3, <1>7, <1>9, <2>1 DEF Decided
  <2>4. c # "TransferEncoding" /\ c # "Connection"
    BY <1>9
  <2>5. In(e, "TransferEncoding") = <<>> /\ In(e, "Connection") = <<>>
    BY <1>5, <2>1, <2>4
  <2>6. In(e, "ContentLength") = IF c = "ContentLength" /\ writable(f) /\ ~sl THEN <<f.value>> ELSE <<>>
    BY <1>5, <1>9, <2>1
  <2> QED BY <2>2, <2>3, <2>5, <2>6 DEF c
<1>10. CASE ~Goes
  <2>1. e = <<>>
    BY <1>1, <1>10
  <2>2. e \in Seq(Header) /\ Unbroken(e)
    BY <1>8, <2>1 DEF Unbroken
  <2>3. OtherAs[f] = <<>>
    BY <1>3, <1>10 DEF Decided
  <2>4. ~(c = "ContentLength" /\ writable(f) /\ ~sl)
    BY <1>10
  <2> QED BY <1>6, <2>1, <2>2, <2>3, <2>4 DEF c
<1> QED BY <1>9, <1>10

\* What is read in what it makes of the handler's fields.
LEMMA ConvertedShows ==
    ASSUME NEW sl \in BOOLEAN, NEW hs \in Seq(Header)
    PROVE  Shows(FlatMap(hs, ConvertAs(sl)), IF sl THEN <<>> ELSE Given(hs, "ContentLength"),
                 <<>>, <<>>, FlatMap(hs, OtherAs))
<1> DEFINE e == ConvertAs(sl)
<1>1. \A f \in Header :
          /\ e[f] \in Seq(Header) /\ Unbroken(e[f])
          /\ In(e[f], "ContentLength") =
                 IF canonical(f.id) = "ContentLength" /\ writable(f) /\ ~sl THEN <<f.value>> ELSE <<>>
          /\ In(e[f], "TransferEncoding") = <<>> /\ In(e[f], "Connection") = <<>>
          /\ OthersIn(e[f]) = OtherAs[f]
  BY ConvertShows
<1>2. e = [f \in Header |-> e[f]]
  BY DEF ConvertAs
<1> HIDE DEF e
<1>3. e \in [Header -> Seq(Header)]
  BY <1>1, <1>2
<1>4. FlatMap(hs, e) \in Seq(Header) /\ Unbroken(FlatMap(hs, e))
  BY <1>1, <1>3, UnbrokenKept
<1>5. In(FlatMap(hs, e), "ContentLength") = IF sl THEN <<>> ELSE Given(hs, "ContentLength")
  BY <1>1, <1>3, ValuesKept DEF Given
<1>6. ASSUME NEW id, id = "TransferEncoding" \/ id = "Connection"
      PROVE  In(FlatMap(hs, e), id) = <<>>
  <2> DEFINE drop == TRUE
  <2>1. \A f \in Header : In(e[f], id) = IF canonical(f.id) = id /\ writable(f) /\ ~drop
                                         THEN <<f.value>> ELSE <<>>
    BY <1>1, <1>6
  <2>2. drop \in BOOLEAN /\ drop
    OBVIOUS
  <2> HIDE DEF drop
  <2>3. In(FlatMap(hs, e), id) = IF drop THEN <<>> ELSE FlatMap(Emitted(hs, id), Val)
    BY <1>3, <2>1, <2>2, ValuesKept
  <2> QED BY <2>2, <2>3
<1>7. OthersIn(FlatMap(hs, e)) = FlatMap(hs, OtherAs)
  BY <1>1, <1>3, OthersKept
<1>8. In(FlatMap(hs, e), "TransferEncoding") = <<>> /\ In(FlatMap(hs, e), "Connection") = <<>>
  BY <1>6
<1> QED BY <1>4, <1>5, <1>7, <1>8, AllElementsIs DEF Shows, e

\* What is read in the field that lists tokens.
LEMMA ListedShows ==
    ASSUME NEW ts \in Seq(Bytes), \A t \in ToSet(ts) : Solid(t)
    PROVE  Shows(Listed(ts), <<>>, <<>>, ts, <<>>)
<1> DEFINE fs == Listed(ts)
<1>1. /\ fs \in Seq(Header) /\ Unbroken(fs)
      /\ \A f \in ToSet(fs) : f.id = "Connection"
      /\ \A id : id # "Connection" => In(fs, id) = <<>>
      /\ AllElements(In(fs, "Connection")) = ts
  BY ListedIs
<1> HIDE DEF fs
<1>2. \A g \in ToSet(fs) : OtherOf[g] = <<>>
  <2>1. ToSet(fs) \subseteq Header
    BY <1>1, SetIs
  <2> QED BY <1>1, <2>1 DEF OtherOf, Decided
<1>3. OthersIn(fs) = <<>>
  BY <1>1, <1>2, OthersInIs, MapNone DEF OthersIn
<1>4. In(fs, "ContentLength") = <<>> /\ In(fs, "TransferEncoding") = <<>>
  BY <1>1
<1> QED BY <1>1, <1>3, <1>4 DEF Shows, fs

\* The server's name shows nothing.
LEMMA ServerShows ==
    ASSUME NEW p, NEW lens, NEW codings, NEW tokens, NEW others, Shows(p, lens, codings, tokens, others)
    PROVE  Shows(WithServer(p), lens, codings, tokens, others)
<1> DEFINE x == [id |-> "Server", value |-> <<"a">>]
           q == <<x>>
<1>1. Shows(q, <<>>, <<>>, <<>>, <<>>) /\ x \in Header
  BY PlainShows
<1>2. WithServer(p) = p \/ WithServer(p) = Append(p, x)
  BY DEF WithServer
<1>3. p \in Seq(Header)
  BY DEF Shows
<1>4. Append(p, x) = p \o q
  <2> HIDE DEF x
  <2> QED BY <1>1, <1>3, AppendConcat
<1> HIDE DEF x, q
<1>5. lens \in Seq(Bytes) /\ codings \in Seq(Bytes) /\ tokens \in Seq(Bytes) /\ others \in Seq(Header)
  BY ShowsTyped
<1>6. /\ lens \o <<>> = lens /\ codings \o <<>> = codings /\ tokens \o <<>> = tokens
      /\ others \o <<>> = others
  BY <1>5, NothingAdded
<1>7. Shows(p \o q, lens \o <<>>, codings \o <<>>, tokens \o <<>>, others \o <<>>)
  BY <1>1, ShowsBoth
<1> QED BY <1>2, <1>4, <1>6, <1>7

\* Joint lists the handler's tokens and the server's.
LEMMA JointShows ==
    ASSUME NEW hs \in Seq(Header), NEW version, NEW keeps,
           NEW own, own = connection_field(version, keeps) \/ own = <<>>
    PROVE  Shows(Joint(hs, own), <<>>, <<>>, Theirs(hs) \o own, <<>>)
<1> DEFINE p == Theirs(hs)
           ts == p \o own
<1>1. Joint(hs, own) = Listed(ts)
  <2>1. \A i \in DOMAIN hs : hs[i] \in Header
    OBVIOUS
  <2>2. \A i \in DOMAIN hs :
            TokensOf[hs[i]] = IF canonical(hs[i].id) = "Connection" THEN connection_tokens(hs[i].value) ELSE <<>>
    BY <2>1 DEF TokensOf
  <2>3. [i \in DOMAIN hs |-> IF canonical(hs[i].id) = "Connection" THEN connection_tokens(hs[i].value) ELSE <<>>]
        = [i \in DOMAIN hs |-> TokensOf[hs[i]]]
    BY <2>2
  <2>4. p = FlattenSeq([i \in DOMAIN hs |->
                IF canonical(hs[i].id) = "Connection" THEN connection_tokens(hs[i].value) ELSE <<>>])
    BY <2>3 DEF Theirs, FlatMap
  <2> HIDE DEF p
  <2> QED BY <2>4 DEF Joint
<1>2. p \in Seq(Bytes) /\ \A t \in ToSet(p) : Solid(t)
  BY TheirsIs
<1>3. own \in Seq(Bytes) /\ \A t \in ToSet(own) : Solid(t)
  BY OwnTokens
<1> HIDE DEF p
<1>4. ts \in Seq(Bytes) /\ ToSet(ts) = ToSet(p) \cup ToSet(own)
  <2>1. p \o own \in Seq(Bytes)
    BY <1>2, <1>3, ConcatProperties
  <2> QED BY <1>2, <1>3, <2>1, SetConcat
<1> HIDE DEF ts
<1>5. \A t \in ToSet(ts) : Solid(t)
  BY <1>2, <1>3, <1>4
<1>6. Shows(Listed(ts), <<>>, <<>>, ts, <<>>)
  BY <1>4, <1>5, ListedShows
<1> QED BY <1>1, <1>6 DEF ts, p

\* What the bridge and hyper find: whether the lengths are stale (sl) and the body is framed,
\* and the length that is kept.
HyperParts(r, hs, body, status, hr, lens, sl, kl, framed) ==
    /\ Measures(r, hs, hr, lens, sl)
    /\ body = r.body /\ status = r.status /\ hr \in BOOLEAN
    /\ kl = IF sl THEN <<>> ELSE Given(hs, "ContentLength")
    /\ framed \in BOOLEAN /\ (framed <=> kl # <<>> \/ forbids_body_framing(status) \/ hr)

\* In the head that hyper writes, one reads the handler's length, if it is not stale, or the
\* server's framing; and the handler's tokens, then the server's.
LEMMA HyperShows ==
    ASSUME NEW r, NEW hs, NEW body, NEW status, NEW hr, NEW lens, NEW sl, NEW kl, NEW framed,
           HyperParts(r, hs, body, status, hr, lens, sl, kl, framed), NEW version, NEW keeps,
           NEW cf, cf = IF status = 101 THEN <<>> ELSE connection_field(version, keeps),
           NEW fields, fields = convert_response(r, version, keeps, hr)
    PROVE  Shows(fields \o HyperFraming(version, status, fields, body, hr, FALSE),
                 kl \o OwnLens(body, framed), OwnCodings(version, body, framed),
                 Theirs(hs) \o cf, FlatMap(hs, OtherAs))
<1>m. Measures(r, hs, hr, lens, sl)
  BY DEF HyperParts
<1> USE DEF HyperParts, Measures
<1> DEFINE p == FlatMap(hs, ConvertAs(sl))
           w == WithServer(p)
           j == Joint(hs, cf)
           o == HyperFraming(version, status, fields, body, hr, FALSE)
           others == FlatMap(hs, OtherAs)
           ts == Theirs(hs) \o cf
<1>1. fields = w \o j
  <2> DEFINE Conv(f) == IF Kept(f, r, hr, Len(lens)) THEN <<[id |-> canonical(f.id), value |-> f.value]>> ELSE <<>>
  <2>1. \A f \in ToSet(hs) : Conv(f) = ConvertAs(sl)[f]
    <3>1. ASSUME NEW f \in ToSet(hs) PROVE Conv(f) = ConvertAs(sl)[f]
      <4> HIDE DEF Measures
      <4> QED BY ONLY <1>m, <3>1, ConvertedIs
    <3> HIDE DEF Conv
    <3> QED BY ONLY <3>1
  <2>2. \A i \in DOMAIN hs : hs[i] \in ToSet(hs)
    BY DEF ToSet
  <2> HIDE DEF Conv
  <2>3. [i \in DOMAIN hs |-> Conv(hs[i])] = [i \in DOMAIN hs |-> ConvertAs(sl)[hs[i]]]
    BY <2>1, <2>2
  <2>4. p = FlattenSeq([i \in DOMAIN hs |-> Conv(hs[i])])
    BY <2>3 DEF FlatMap
  <2>5. lens = Only(hs, LAMBDA f : canonical(f.id) = "ContentLength" /\ valid_field_value(f.value))
    BY CountedIs
  <2> HIDE DEF p
  <2> QED BY <2>4, <2>5 DEF convert_response, Conv
<1>2. Shows(w, kl, <<>>, <<>>, others)
  <2>1. Shows(p, kl, <<>>, <<>>, others)
    BY ConvertedShows
  <2> HIDE DEF p, others
  <2> QED BY <2>1, ServerShows
<1>3. Shows(j, <<>>, <<>>, ts, <<>>)
  BY JointShows
<1> HIDE DEF w, j, ts, others
<1>4. kl \in Seq(Bytes) /\ others \in Seq(Header) /\ ts \in Seq(Bytes)
  BY <1>2, <1>3, ShowsTyped
<1>5. kl \o <<>> = kl /\ others \o <<>> = others /\ <<>> \o ts = ts /\ ts \o <<>> = ts /\ <<>> \o <<>> = <<>>
  BY <1>4, NothingAdded
<1>6. Shows(fields, kl, <<>>, ts, others)
  <2>1. Shows(w \o j, kl \o <<>>, <<>> \o <<>>, <<>> \o ts, others \o <<>>)
    BY <1>2, <1>3, ShowsBoth
  <2> QED BY <1>1, <1>5, <2>1
<1>7. (\E i \in DOMAIN fields : canonical(fields[i].id) = "ContentLength") <=> kl # <<>>
  <2>1. fields \in Seq(Header) /\ FlatMap(fields, ValueOf("ContentLength")) = kl
    BY <1>6 DEF Shows, In
  <2>2. ValueOf("ContentLength") \in [Header -> Seq(Bytes)]
    <3>1. \A f \in Header : f.value \in Bytes
      BY DEF Header
    <3> QED BY <3>1 DEF ValueOf
  <2>3. kl = <<>> <=> \A f \in ToSet(fields) : ValueOf("ContentLength")[f] = <<>>
    BY <2>1, <2>2, MapNone
  <2>4. \A f \in ToSet(fields) : ValueOf("ContentLength")[f] = <<>> <=> canonical(f.id) # "ContentLength"
    <3>1. ToSet(fields) \subseteq Header
      BY <2>1, SetIs
    <3> QED BY <3>1 DEF ValueOf
  <2> QED BY <2>3, <2>4 DEF ToSet
<1>8. Shows(o, OwnLens(body, framed), OwnCodings(version, body, framed), <<>>, <<>>)
  <2>1. o = IF framed THEN <<>> ELSE FramingField(version, body)
    BY <1>7 DEF HyperFraming
  <2> HIDE DEF o
  <2>2. CASE framed
    <3>1. o = <<>> /\ OwnLens(body, framed) = <<>> /\ OwnCodings(version, body, framed) = <<>>
      BY <2>1, <2>2 DEF OwnLens, OwnCodings
    <3> QED BY <3>1, ShowsNone
  <2>3. CASE ~framed
    BY <2>1, <2>3, FramingShows DEF OwnLens, OwnCodings
  <2> QED BY <2>2, <2>3
<1> HIDE DEF o
<1>9. Shows(fields \o o, kl \o OwnLens(body, framed), <<>> \o OwnCodings(version, body, framed),
            ts \o <<>>, others \o <<>>)
  BY <1>6, <1>8, ShowsBoth
<1>10. <<>> \o OwnCodings(version, body, framed) = OwnCodings(version, body, framed)
  <2>1. OwnCodings(version, body, framed) \in Seq(Bytes)
    BY <1>8, ShowsTyped
  <2> QED BY <2>1, NothingAdded
<1> QED BY <1>5, <1>9, <1>10 DEF o, ts, others

\* It frames the body.
LEMMA HyperFrames ==
    ASSUME NEW r, NEW hs, NEW body, NEW status, NEW hr, NEW lens, NEW sl, NEW kl, NEW framed,
           HyperParts(r, hs, body, status, hr, lens, sl, kl, framed), NEW version \in {"1.0", "1.1"}
    PROVE  Frames(version, status, body, hr, kl \o OwnLens(body, framed), OwnCodings(version, body, framed))
<1> USE DEF HyperParts, Measures
<1> DEFINE ol == OwnLens(body, framed)
           oc == OwnCodings(version, body, framed)
<1>2. KeepsLength(kl, lens, sl, status, hr, body, FALSE)
  BY LengthKept
<1>5. /\ framed => ol = <<>> /\ oc = <<>>
      /\ ~framed => ol = OwnLens(body, FALSE) /\ oc = OwnCodings(version, body, FALSE)
  BY OwnDelimits
<1>6. \A x : <<x>> \o <<>> = <<x>>
  OBVIOUS
<1>7. <<>> \o <<>> = <<>>
  OBVIOUS
<1> HIDE DEF ol, oc
<1>9. CASE kl # <<>>
  <2>1. PICK v \in Bytes : kl = <<v>>
    BY <1>2, <1>9 DEF KeepsLength
  <2>2. kl \o ol = kl /\ oc = <<>>
    BY <1>5, <1>6, <1>9, <2>1
  <2>3. ~hr /\ ~forbids_body_framing(status) => Delimits(version, body, kl, <<>>)
    BY <1>2, <1>9 DEF Delimits, KeepsLength
  <2>4. ~Bodiless(status)
    BY <1>2, <1>9 DEF KeepsLength
  <2>5. Frames(version, status, body, hr, kl, <<>>)
    BY <2>1, <2>3, <2>4, FramesOne
  <2> QED BY <2>2, <2>5 DEF ol, oc
<1>10. CASE kl = <<>> /\ framed
  <2>1. kl \o ol = <<>> /\ oc = <<>>
    BY <1>5, <1>7, <1>10
  <2>2. hr \/ forbids_body_framing(status)
    BY <1>10
  <2>3. Frames(version, status, body, hr, <<>>, <<>>)
    BY <2>2, FramesNone
  <2> QED BY <2>1, <2>3 DEF ol, oc
<1>11. CASE ~framed
  <2>1. kl = <<>> /\ ~forbids_body_framing(status)
    BY <1>11
  <2>3. Frames(version, status, body, hr, ol, oc)
    BY <1>5, <1>11, <2>1, FramesOwn
  <2>4. ol \in Seq(Bytes)
    BY OwnTyped DEF ol
  <2>5. kl \o ol = ol
    BY <2>1, <2>4, NothingAdded
  <2> QED BY <2>3, <2>5 DEF ol, oc
<1> QED BY <1>9, <1>10, <1>11

\* A response without the body that its status forbids.
LEMMA AllowedIs ==
    ASSUME NEW q, q \in Response, NEW r, r = Allowed(q)
    PROVE  /\ r.headers = q.headers /\ r.status = q.status /\ r.body \in Body
           /\ ~forbids_body_framing(q.status) => r = q
<1>1. q.body \in Body
  BY ResponseIs
<1>2. NoReply.body \in Body
  BY DEF NoReply, Body
<1>3. CASE forbids_body_framing(q.status)
  <2>1. r = [q EXCEPT !.body = NoReply.body]
    BY <1>3 DEF Allowed
  <2> QED BY <1>2, <1>3, <2>1 DEF Response
<1>4. CASE ~forbids_body_framing(q.status)
  BY <1>1, <1>4 DEF Allowed
<1> QED BY <1>3, <1>4

\* What is answered for a response is one.
LEMMA PossibleTyped ==
    ASSUME NEW h, NEW given, given \in Response
    PROVE  Possible(h, given) \in Response
<1>1. CASE is_final_status(given.status, wants_upgrade(h))
  BY <1>1 DEF Possible
<1>2. CASE ~is_final_status(given.status, wants_upgrade(h))
  <2> DEFINE F == [id : STRING, value : Seq(STRING)]
  <2>1. <<>> \in Seq(F)
    OBVIOUS
  <2>2. NoReply.body \in [kind : {"Empty", "Full", "Stream"}, len : Nat]
    BY DEF NoReply
  <2>3. Response = [status : Nat, headers : Seq(F),
                    body : [kind : {"Empty", "Full", "Stream"}, len : Nat], fully_read : BOOLEAN]
    BY DEF Response
  <2>4. Possible(h, given) = [given EXCEPT !.status = 500, !.headers = <<>>, !.body = NoReply.body]
    BY <1>2 DEF Possible
  <2> DEFINE b == NoReply.body
             B == [kind : {"Empty", "Full", "Stream"}, len : Nat]
             S == Seq(F)
             e == <<>>
             R == [status : Nat, headers : S, body : B, fully_read : BOOLEAN]
             failed == [given EXCEPT !.status = 500]
             bare == [failed EXCEPT !.headers = e]
  <2>5. given \in R /\ b \in B /\ e \in S
    BY <2>1, <2>2, <2>3
  <2> HIDE DEF F, b, B, S, e
  <2>6. failed \in R
    BY ONLY <2>5
  <2>7. [given EXCEPT !.status = 500, !.headers = e, !.body = b] = [bare EXCEPT !.body = b]
    OBVIOUS
  <2> HIDE DEF failed
  <2>8. bare \in R
    BY ONLY <2>5, <2>6
  <2> HIDE DEF bare
  <2>9. [bare EXCEPT !.body = b] \in R
    BY ONLY <2>5, <2>8
  <2> HIDE DEF R
  <2>10. Possible(h, given) \in R
    BY <2>4, <2>7, <2>9 DEF b, e, bare, failed
  <2> QED BY <2>3, <2>10 DEF R, S, B
<1> QED BY <1>1, <1>2

\* The bridged answer's parts.
BridgeOf(h, given, version, q, r, hr, up, keeps, hs, body, status, lens, sl, kl, framed, cf) ==
    /\ version \in {"1.0", "1.1"} /\ version = h.version /\ given \in Response
    /\ q = Possible(h, given) /\ r = Allowed(q) /\ hs = q.headers /\ status = q.status
    /\ ~Tunnel(h, status)
    /\ hr <=> h.method = "HEAD"
    /\ up \in BOOLEAN /\ (up <=> upgrading(h, given))
    /\ keeps \in BOOLEAN
    /\ keeps <=> /\ is_keep_alive(h)
                 /\ ~(~up /\ (~given.fully_read \/ ~is_final_status(given.status, wants_upgrade(h))))
                 /\ ~close_delimited(h, r) /\ ~SaysClose(r.headers)
    /\ HyperParts(r, hs, body, status, hr, lens, sl, kl, framed)
    /\ cf = IF status = 101 THEN <<>> ELSE connection_field(version, keeps)

\* What shows in it, and that it is read as it was sent.
LEMMA BridgeAnswer ==
    ASSUME NEW h, NEW given, NEW version, NEW q, NEW r, NEW hr, NEW up, NEW keeps, NEW hs, NEW body,
           NEW status, NEW lens, NEW sl, NEW kl, NEW framed, NEW cf,
           BridgeOf(h, given, version, q, r, hr, up, keeps, hs, body, status, lens, sl, kl, framed, cf)
    PROVE  /\ SentAs(h, bridge_response(h, given))
           /\ Shows(bridge_response(h, given).fields, kl \o OwnLens(body, framed),
                    OwnCodings(version, body, framed), Theirs(hs) \o cf, FlatMap(hs, OtherAs))
           /\ bridge_response(h, given).sends =
                  IF hr \/ forbids_body_framing(status) THEN Kind("None", 0) ELSE Framed(version, body)
           /\ bridge_response(h, given).status = status
           /\ bridge_response(h, given).after = IF up THEN "upgrade" ELSE IF keeps THEN "keep" ELSE "close"
<1> DEFINE a == bridge_response(h, given)
           fields == convert_response(r, version, keeps, hr)
<1>0. HyperParts(r, hs, body, status, hr, lens, sl, kl, framed)
  BY DEF BridgeOf
<1> USE DEF BridgeOf
<1>1. /\ hs \in Seq(Header) /\ body \in Body /\ r.headers = hs /\ r.status = status /\ body = r.body
      /\ hr \in BOOLEAN
  BY <1>0 DEF HyperParts, Measures
<1>3. up => status = 101
  <2>1. up => given.status = 101 /\ is_final_status(given.status, wants_upgrade(h))
    BY DEF upgrading, is_final_status
  <2> QED BY <2>1, PossibleIs
<1>4. /\ a.status = status
      /\ a.fields = fields \o HyperFraming(version, status, fields, body, hr, FALSE)
      /\ a.sends = IF hr \/ forbids_body_framing(status) THEN Kind("None", 0) ELSE Framed(version, body)
      /\ a.after = IF up THEN "upgrade" ELSE IF keeps THEN "keep" ELSE "close"
  <2>1. /\ up = upgrading(h, given) /\ hr = (h.method = "HEAD")
        /\ keeps = (/\ is_keep_alive(h)
                    /\ ~(~up /\ (~given.fully_read \/ ~is_final_status(given.status, wants_upgrade(h))))
                    /\ ~close_delimited(h, r) /\ ~SaysClose(r.headers))
    BY <1>1 DEF upgrading
  <2>2. Tunnel(h, r.status) = FALSE
    BY <1>1 DEF Tunnel
  <2> QED BY <1>1, <2>1, <2>2 DEF bridge_response
<1>5. keeps => ~(/\ version = "1.0" /\ body.kind = "Stream" /\ ~hr /\ ~forbids_body_framing(status))
  BY <1>1 DEF close_delimited
<1>7. cf = IF status = 101 THEN <<>> ELSE connection_field(version, keeps)
  OBVIOUS
<1> HIDE DEF a
<1>8. Shows(a.fields, kl \o OwnLens(body, framed), OwnCodings(version, body, framed),
            Theirs(hs) \o cf, FlatMap(hs, OtherAs))
  <2> DEFINE fs == fields
  <2>1. fs = convert_response(r, version, keeps, hr)
    OBVIOUS
  <2>2. a.fields = fs \o HyperFraming(version, status, fs, body, hr, FALSE)
    BY <1>4
  <2> HIDE DEF fs, fields
  <2>3. Shows(fs \o HyperFraming(version, status, fs, body, hr, FALSE),
              kl \o OwnLens(body, framed), OwnCodings(version, body, framed),
              Theirs(hs) \o cf, FlatMap(hs, OtherAs))
    BY ONLY <1>0, <1>7, <2>1, HyperShows
  <2> QED BY <2>2, <2>3
<1> HIDE DEF fields
<1>9. Frames(version, status, body, hr, kl \o OwnLens(body, framed), OwnCodings(version, body, framed))
  <2>1. version \in {"1.0", "1.1"}
    OBVIOUS
  <2> QED BY ONLY <1>0, <2>1, HyperFrames
<1>10. SentAs(h, a)
  <2> DEFINE ls == kl \o OwnLens(body, framed)
             codings == OwnCodings(version, body, framed)
             others == FlatMap(hs, OtherAs)
  <2>1. cf = IF a.status = 101 THEN <<>> ELSE connection_field(h.version, keeps)
    BY <1>4
  <2>2. Frames(h.version, a.status, body, hr, ls, codings)
    BY <1>4, <1>9
  <2>3. a.sends = IF hr \/ forbids_body_framing(a.status) THEN Kind("None", 0) ELSE Framed(h.version, body)
    BY <1>4
  <2>4. keeps => ~(/\ h.version = "1.0" /\ body.kind = "Stream" /\ ~hr /\ ~forbids_body_framing(a.status))
    BY <1>4, <1>5
  <2>5. up => a.status = 101
    BY <1>3, <1>4
  <2>6. /\ h.version \in {"1.0", "1.1"} /\ hs \in Seq(Header) /\ body \in Body /\ hr \in BOOLEAN
        /\ keeps \in BOOLEAN /\ up \in BOOLEAN /\ (hr <=> h.method = "HEAD")
    BY <1>1
  <2>7. a.after = IF up THEN "upgrade" ELSE IF keeps THEN "keep" ELSE "close"
    BY <1>4
  <2>8. Shows(a.fields, ls, codings, Theirs(hs) \o cf, others)
    BY <1>8
  <2> HIDE DEF ls, codings, others
  <2>9. Sound(h, a, hs, body, ls, codings, others, keeps, up, cf, hr)
    BY ONLY <2>1, <2>2, <2>3, <2>4, <2>5, <2>6, <2>7, <2>8 DEF Sound
  <2> QED BY ONLY <2>9, ReadSo
<1> QED BY <1>4, <1>8, <1>10 DEF a

\* Where the status forbids a body, nothing of the body makes a length stale; elsewhere, but
\* for a HEAD, no coding does.
LEMMA StaleAlike ==
    ASSUME NEW v, NEW n, NEW status, NEW b, NEW c, NEW d \in BOOLEAN,
           forbids_body_framing(status) => ~d, ~forbids_body_framing(status) => b = c
    PROVE  handler_length_is_stale(v, n, status, FALSE, BodyLen(b), d)
           <=> handler_length_is_stale(v, n, status, FALSE, BodyLen(c), FALSE)
<1>1. CASE status = 304
  <2>1. forbids_body_framing(status) /\ content_length_is_descriptive(status)
    BY <1>1 DEF forbids_body_framing, content_length_is_descriptive
  <2> QED BY <2>1 DEF handler_length_is_stale
<1>2. CASE status # 304 /\ forbids_body_framing(status)
  <2>1. ~content_length_is_descriptive(status)
    BY <1>2 DEF content_length_is_descriptive
  <2> QED BY <1>2, <2>1 DEF handler_length_is_stale
<1>3. CASE ~forbids_body_framing(status)
  <2>1. ~content_length_is_descriptive(status)
    BY <1>3 DEF forbids_body_framing, content_length_is_descriptive
  <2> QED BY <1>3, <2>1 DEF handler_length_is_stale
<1> QED BY <1>1, <1>2, <1>3

\* ResponsesAgree, of two answers.
Alike(h, x, y) ==
    /\ x.status = y.status
    /\ x.after = y.after
    /\ Reads(h, x) = Reads(h, y)
    /\ h.method # "HEAD" => Named(x, "ContentLength") = Named(y, "ContentLength")
    /\ Tokens(x) = Tokens(y)
    /\ Others(x) = Others(y)

\* The backends' answers to one response that opens no tunnel are each read as they were
\* sent, and alike.
LEMMA AnswersAgree ==
    ASSUME NEW h, h.version \in {"1.0", "1.1"}, NEW given, given \in Response,
           ~Tunnel(h, Possible(h, given).status)
    PROVE  /\ SentAs(h, write_response(h, given)) /\ SentAs(h, bridge_response(h, given))
           /\ Alike(h, write_response(h, given), bridge_response(h, given))
<1> DEFINE x == write_response(h, given)
           y == bridge_response(h, given)
           version == h.version
           q == Possible(h, given)
           r == Allowed(q)
           hr == h.method = "HEAD"
           up == upgrading(h, given)
           hs == q.headers
           status == q.status
           lens == Emitted(hs, "ContentLength")
           kn == keep_alive(h, given, q) /\ ~up
           kb == /\ is_keep_alive(h)
                 /\ ~(~up /\ (~given.fully_read \/ ~is_final_status(given.status, wants_upgrade(h))))
                 /\ ~close_delimited(h, r) /\ ~SaysClose(r.headers)
           cd == coded(version, status, hs, q.body)
           sc == stale_transfer_encoding(version, status, hs, q.body)
           sn == stale_content_length(version, status, hs, q.body, hr)
           sb == StaleLens(lens, status, hr, r.body, FALSE)
           ln == IF sn THEN <<>> ELSE Given(hs, "ContentLength")
           lb == IF sb THEN <<>> ELSE Given(hs, "ContentLength")
           kc == IF sc THEN <<>> ELSE Given(hs, "TransferEncoding")
           fn == cd \/ (lens # <<>> /\ ~sn) \/ forbids_body_framing(status)
           fb == lb # <<>> \/ forbids_body_framing(status) \/ hr
           cn == IF status = 101 THEN <<>> ELSE connection_field(version, kn)
           cb == IF status = 101 THEN <<>> ELSE connection_field(version, kb)
<1>1. /\ q \in Response /\ hs \in Seq(Header) /\ q.body \in Body
      /\ r.headers = hs /\ r.status = status /\ r.body \in Body
      /\ ~forbids_body_framing(status) => r = q
  BY PossibleTyped, ResponseIs, AllowedIs
<1>2. up => status = 101
  <2>1. up => given.status = 101 /\ is_final_status(given.status, wants_upgrade(h))
    BY DEF upgrading, is_final_status
  <2> QED BY <2>1, PossibleIs
<1>3. ~up => (kn <=> kb)
  <2>1. close_delimited(h, r) <=> close_delimited(h, q)
    BY <1>1 DEF close_delimited
  <2>2. SaysClose(r.headers) <=> SaysClose(q.headers)
    BY <1>1
  <2> QED BY <2>1, <2>2 DEF keep_alive
<1>4. cd => q.body.kind = "Stream" /\ ~forbids_body_framing(status)
  BY DEF coded, stale_transfer_encoding
<1>5. sn <=> StaleLens(lens, status, hr, q.body, cd)
  BY DEF stale_content_length, StaleLens
<1>6. ~hr => (sn <=> sb)
  <2> DEFINE v == lens[1].value
             n == Len(lens)
             b == q.body
             c == r.body
             d == cd
  <2>1. ~forbids_body_framing(status) => b = c
    BY <1>1
  <2>2. d \in BOOLEAN /\ (forbids_body_framing(status) => ~d)
    BY <1>4, StaleIs
  <2>3. handler_length_is_stale(v, n, status, FALSE, BodyLen(b), d)
        <=> handler_length_is_stale(v, n, status, FALSE, BodyLen(c), FALSE)
    <3> HIDE DEF v, n, b, c, d, status
    <3> QED BY <2>1, <2>2, StaleAlike
  <2>4. ~hr => hr = FALSE
    OBVIOUS
  <2> HIDE DEF hr
  <2> QED BY <1>5, <2>3, <2>4 DEF StaleLens
<1>7. /\ hr \in BOOLEAN /\ up \in BOOLEAN /\ kn \in BOOLEAN /\ kb \in BOOLEAN /\ cd \in BOOLEAN
      /\ sc \in BOOLEAN /\ sn \in BOOLEAN /\ sb \in BOOLEAN /\ fn \in BOOLEAN /\ fb \in BOOLEAN
  <2>1. up \in BOOLEAN
    BY ResponseIs DEF upgrading
  <2>2. cd \in BOOLEAN /\ sc \in BOOLEAN /\ sn \in BOOLEAN
    BY StaleIs
  <2>3. kn \in BOOLEAN /\ kb \in BOOLEAN
    OBVIOUS
  <2>4. hr \in BOOLEAN /\ sb \in BOOLEAN /\ fn \in BOOLEAN /\ fb \in BOOLEAN
    BY DEF StaleLens
  <2> QED BY <2>1, <2>2, <2>3, <2>4
<1>8. /\ x.status = status
      /\ x.after = IF up THEN "upgrade" ELSE IF kn THEN "keep" ELSE "close"
  BY DEF write_response
<1>9. /\ SentAs(h, x)
      /\ Shows(x.fields, ln \o OwnLens(q.body, fn), kc \o OwnCodings(version, q.body, fn),
               Theirs(hs) \o cn, FlatMap(hs, OtherAs))
      /\ x.sends = IF hr \/ forbids_body_framing(status) THEN Kind("None", 0) ELSE Framed(version, q.body)
  <2> HIDE DEF version, q, hr, up, hs, kn, cd, sc, sn, fn, ln, kc, cn, x
  <2>1. /\ version \in {"1.0", "1.1"} /\ version = h.version /\ q = Possible(h, given)
        /\ (hr <=> h.method = "HEAD") /\ (up <=> upgrading(h, given)) /\ hs = q.headers
        /\ given \in Response /\ hs \in Seq(Header) /\ q.body \in Body
    BY <1>1 DEF version, q, hr, up, hs
  <2>2. /\ kn <=> keep_alive(h, given, q) /\ ~up
        /\ cd = coded(version, q.status, hs, q.body)
        /\ sn = stale_content_length(version, q.status, hs, q.body, hr)
        /\ sc = stale_transfer_encoding(version, q.status, hs, q.body)
    BY DEF kn, cd, sn, sc
  <2>3. /\ fn <=> (cd \/ (Emitted(hs, "ContentLength") # <<>> /\ ~sn) \/ forbids_body_framing(q.status))
        /\ ln = IF sn THEN <<>> ELSE Given(hs, "ContentLength")
        /\ kc = IF sc THEN <<>> ELSE Given(hs, "TransferEncoding")
        /\ cn = IF q.status = 101 THEN <<>> ELSE connection_field(version, kn)
    BY DEF fn, ln, kc, cn
  <2>4. NativeParts(version, q.status, hs, q.body, hr, cd, sn, sc, fn, ln, kc)
    BY ONLY <1>7, <2>1, <2>2, <2>3 DEF NativeParts
  <2>5. NativeOf(h, given, version, q, hr, up, kn, hs, cd, sn, sc, fn, ln, kc, cn)
    BY ONLY <1>7, <2>1, <2>2, <2>3, <2>4 DEF NativeOf
  <2> QED BY ONLY <2>5, NativeAnswer DEF x, status
<1>10. /\ SentAs(h, y)
       /\ Shows(y.fields, lb \o OwnLens(r.body, fb), OwnCodings(version, r.body, fb),
                Theirs(hs) \o cb, FlatMap(hs, OtherAs))
       /\ y.sends = IF hr \/ forbids_body_framing(status) THEN Kind("None", 0) ELSE Framed(version, r.body)
       /\ y.status = status
       /\ y.after = IF up THEN "upgrade" ELSE IF kb THEN "keep" ELSE "close"
  <2> DEFINE body == r.body
  <2> HIDE DEF version, q, r, hr, up, hs, status, kb, lens, sb, lb, fb, cb, body
  <2>1. /\ version \in {"1.0", "1.1"} /\ version = h.version /\ q = Possible(h, given) /\ r = Allowed(q)
        /\ (hr <=> h.method = "HEAD") /\ (up <=> upgrading(h, given)) /\ hs = q.headers
        /\ status = q.status /\ body = r.body /\ lens = Emitted(hs, "ContentLength")
        /\ given \in Response /\ ~Tunnel(h, status)
    BY DEF version, q, r, hr, up, hs, status, body, lens
  <2>2. /\ kb <=> /\ is_keep_alive(h)
                  /\ ~(~up /\ (~given.fully_read \/ ~is_final_status(given.status, wants_upgrade(h))))
                  /\ ~close_delimited(h, r) /\ ~SaysClose(r.headers)
        /\ sb <=> StaleLens(lens, status, hr, r.body, FALSE)
    BY DEF kb, sb
  <2>3. /\ lb = IF sb THEN <<>> ELSE Given(hs, "ContentLength")
        /\ fb <=> (lb # <<>> \/ forbids_body_framing(status) \/ hr)
        /\ cb = IF status = 101 THEN <<>> ELSE connection_field(version, kb)
    BY DEF lb, fb, cb
  <2>5. HyperParts(r, hs, body, status, hr, lens, sb, lb, fb)
    BY ONLY <1>1, <1>7, <2>1, <2>2, <2>3 DEF HyperParts, Measures
  <2>6. BridgeOf(h, given, version, q, r, hr, up, kb, hs, body, status, lens, sb, lb, fb, cb)
    BY ONLY <1>7, <2>1, <2>2, <2>3, <2>5 DEF BridgeOf
  <2>4. /\ SentAs(h, bridge_response(h, given))
        /\ Shows(bridge_response(h, given).fields, lb \o OwnLens(body, fb),
                 OwnCodings(version, body, fb), Theirs(hs) \o cb, FlatMap(hs, OtherAs))
        /\ bridge_response(h, given).sends =
               IF hr \/ forbids_body_framing(status) THEN Kind("None", 0) ELSE Framed(version, body)
        /\ bridge_response(h, given).status = status
        /\ bridge_response(h, given).after = IF up THEN "upgrade" ELSE IF kb THEN "keep" ELSE "close"
    BY ONLY <2>6, BridgeAnswer
  <2> QED BY <2>4 DEF body
<1>11. cn = cb
  <2>1. status # 101 => kn = kb
    BY <1>2, <1>3, <1>7
  <2> HIDE DEF kn, kb, status
  <2> QED BY <2>1
<1>12. x.after = y.after
  <2> HIDE DEF x, y, kn, kb, up
  <2> QED BY <1>3, <1>8, <1>10
<1>13. Reads(h, x) = Reads(h, y)
  <2>1. ~forbids_body_framing(status) => r.body = q.body
    BY <1>1
  <2>2. x.sends = y.sends
    <3> HIDE DEF x, y, status, hr, version, r, q
    <3> QED BY <1>9, <1>10, <2>1
  <2> QED BY <1>9, <1>10, <2>2 DEF SentAs
<1>14. ASSUME ~hr PROVE Named(x, "ContentLength") = Named(y, "ContentLength")
  <2>1. ln = lb
    <3>1. sn <=> sb
      BY <1>6, <1>14
    <3> HIDE DEF sn, sb
    <3> QED BY <3>1
  <2>2. fn <=> (cd \/ ln # <<>> \/ forbids_body_framing(status))
    <3>1. (ln # <<>>) <=> (lens # <<>> /\ ~sn)
      <4> DEFINE body == q.body
      <4> HIDE DEF sn, ln, cd, body, lens, hs, status, hr
      <4>1. body \in Body /\ hs \in Seq(Header) /\ lens = Emitted(hs, "ContentLength")
            /\ ln = IF sn THEN <<>> ELSE Given(hs, "ContentLength")
        BY <1>1 DEF body, lens, ln
      <4>2. sn <=> StaleLens(lens, status, hr, body, cd)
        BY <1>5 DEF body
      <4>3. KeepsLength(ln, lens, sn, status, hr, body, cd)
        BY ONLY <1>7, <4>1, <4>2, LengthKept
      <4> QED BY <4>3 DEF KeepsLength
    <3> HIDE DEF sn, ln, cd, lens, status
    <3> QED BY <3>1
  <2>3. OwnLens(q.body, fn) = OwnLens(r.body, fb)
    <3>1. CASE forbids_body_framing(status)
      <4>1. fn /\ fb
        BY <3>1
      <4> HIDE DEF fn, fb, q, r
      <4> QED BY <4>1 DEF OwnLens
    <3>2. CASE ~forbids_body_framing(status) /\ cd
      <4>1. q.body.kind = "Stream" /\ r.body = q.body
        BY <1>1, <1>4, <3>2
      <4> HIDE DEF fn, fb, q, r
      <4> QED BY <4>1 DEF OwnLens
    <3>3. CASE ~forbids_body_framing(status) /\ ~cd
      <4>1. r.body = q.body
        BY <1>1, <3>3
      <4>2. fn = fb
        <5> HIDE DEF ln, lb, cd, status, hr, fn
        <5> QED BY <1>7, <1>14, <2>1, <2>2, <3>3
      <4> HIDE DEF fn, fb, q, r
      <4> QED BY <4>1, <4>2
    <3> QED BY <3>1, <3>2, <3>3
  <2> HIDE DEF x, y, ln, lb, fn, fb, q, r, kc, hs, cn, cb
  <2>4. /\ x.fields \in Seq(Header) /\ In(x.fields, "ContentLength") = ln \o OwnLens(q.body, fn)
        /\ y.fields \in Seq(Header) /\ In(y.fields, "ContentLength") = lb \o OwnLens(r.body, fb)
    BY <1>9, <1>10 DEF Shows
  <2>5. Named(x, "ContentLength") = In(x.fields, "ContentLength")
        /\ Named(y, "ContentLength") = In(y.fields, "ContentLength")
    BY <2>4, NamedIs DEF In
  <2> QED BY <2>1, <2>3, <2>4, <2>5
<1> HIDE DEF x, y, ln, lb, fn, fb, q, r, kc, hs, cn, cb
<1>15. /\ x.fields \in Seq(Header) /\ y.fields \in Seq(Header)
       /\ AllElements(In(x.fields, "Connection")) = AllElements(In(y.fields, "Connection"))
       /\ OthersIn(x.fields) = OthersIn(y.fields)
  BY <1>9, <1>10, <1>11 DEF Shows
<1>16. Tokens(x) = Tokens(y)
  BY <1>15, TokensRead
<1>17. Others(x) = Others(y)
  BY <1>15, OthersIs
<1>18. Alike(h, x, y)
  BY <1>8, <1>10, <1>12, <1>13, <1>14, <1>16, <1>17 DEF Alike
<1> QED BY <1>9, <1>10, <1>18 DEF x, y

\* An answer is one of the two that the backends make of a response.
Answered ==
    stage = "answered" =>
        /\ head.version \in {"1.0", "1.1"} /\ reply \in Response
        /\ answer = write_response(head, reply) \/ answer = bridge_response(head, reply)

\* Answered is inductive: write_response and Bridge::call make the whole of an answer from the
\* head that was parsed and the response that was returned, and nothing touches it afterwards.
THEOREM AnswersAreMade == BridgeSpec => []Answered
<1>1. RespondInit => Answered
  BY DEF RespondInit, Init, Answered
<1>2. HeadOnItsWay /\ Answered /\ [BridgeNext]_responseVars => Answered'
  <2> SUFFICES ASSUME HeadOnItsWay, Answered, [BridgeNext]_responseVars PROVE Answered'
    OBVIOUS
  <2>1. CASE Respond \/ BridgeResponds
    <3>1. stage = "accepted" /\ head' = head
      BY <2>1 DEF Respond, BridgeResponds
    <3>2. PICK from \in Answers : \E r \in from :
              reply' = r /\ (answer' = write_response(head, r) \/ answer' = bridge_response(head, r))
      BY <2>1 DEF Respond, BridgeResponds
    <3>3. reply' \in Response
      BY <3>2, AnswersAssumption
    <3>4. answer' = write_response(head, reply') \/ answer' = bridge_response(head, reply')
      BY <3>2
    <3>5. head.version \in {"1.0", "1.1"}
      <4>1. head = Made(request) /\ request \in Request
        BY <3>1 DEF HeadOnItsWay
      <4>2. request.version \in {"1.0", "1.1"}
        BY <4>1 DEF Request
      <4>3. Made(request).version = request.version
        BY DEF Made, HeadNew
      <4> QED BY <4>1, <4>2, <4>3
    <3> QED BY <3>1, <3>3, <3>4, <3>5 DEF Answered
  <2>2. CASE stage' # "answered"
    BY <2>2 DEF Answered
  <2>3. CASE UNCHANGED responseVars
    BY <2>3 DEF responseVars, vars, Answered
  <2>4. stage' # "answered" \/ Respond \/ BridgeResponds \/ UNCHANGED responseVars
    <3>1. Parse => stage' # "answered"
      BY DEF Parse
    <3>2. Decide => stage' # "answered"
      BY DEF Decide
    <3>3. (\E t \in Rewrites : SetTarget(t)) => stage' # "answered"
      BY DEF SetTarget
    <3> QED BY <3>1, <3>2, <3>3 DEF BridgeNext, RespondNext, Next, Finished, responseVars
  <2> QED BY <2>1, <2>2, <2>3, <2>4
<1> QED BY <1>1, <1>2, OnItsWay, PTL DEF BridgeSpec

\* Either has the status of the response, as far as that is possible.
LEMMA StatusIs ==
    ASSUME NEW h, NEW given, given \in Response
    PROVE  /\ write_response(h, given).status = Possible(h, given).status
           /\ bridge_response(h, given).status = Possible(h, given).status
<1>1. Allowed(Possible(h, given)).status = Possible(h, given).status
  BY PossibleTyped, ResponseIs, AllowedIs
<1> QED BY <1>1 DEF write_response, bridge_response

\* Whatever a handler put into its response (stale or repeated lengths, codings, framing
\* fields listed as hop-by-hop, tokens of its own, values that would end a field), the head
\* that write_head_for makes of it, and the one that convert_response and hyper make, delimit
\* exactly the body that follows, by at most one framing field, and tell the peer what the
\* server will do with the connection; but for a 2xx to CONNECT, which opens a tunnel.
THEOREM AnswersReadAsSent == BridgeSpec => []ReadAsSent
<1>1. Answered => ReadAsSent
  <2> SUFFICES ASSUME Answered, stage = "answered", ~Tunnel(head, answer.status)
               PROVE  SentAs(head, answer)
    BY DEF ReadAsSent, SentAs
  <2>1. /\ head.version \in {"1.0", "1.1"} /\ reply \in Response
        /\ answer = write_response(head, reply) \/ answer = bridge_response(head, reply)
    BY DEF Answered
  <2>2. ~Tunnel(head, Possible(head, reply).status)
    BY <2>1, StatusIs
  <2>3. SentAs(head, write_response(head, reply)) /\ SentAs(head, bridge_response(head, reply))
    BY <2>1, <2>2, AnswersAgree
  <2> QED BY <2>1, <2>3
<1> QED BY <1>1, AnswersAreMade, PTL

\* The two backends are one server, but for what hyper does before and after the bridge: they
\* accept the same requests for the same framing (BackendsAcceptAlike), and of one response,
\* unless it opens a tunnel, make heads that a peer reads alike, up to what hyper adds to a
\* HEAD.
THEOREM BackendsAreOneServer == BridgeSpec => []BackendsAgree
<1>1. Answered => ResponsesAgree
  <2> SUFFICES ASSUME Answered, stage = "answered", ~Tunnel(head, answer.status)
               PROVE  Alike(head, write_response(head, reply), bridge_response(head, reply))
    BY DEF ResponsesAgree, Alike
  <2>1. /\ head.version \in {"1.0", "1.1"} /\ reply \in Response
        /\ answer = write_response(head, reply) \/ answer = bridge_response(head, reply)
    BY DEF Answered
  <2>2. ~Tunnel(head, Possible(head, reply).status)
    BY <2>1, StatusIs
  <2> QED BY <2>1, <2>2, AnswersAgree
<1>2. RequestsAgree /\ ResponsesAgree => BackendsAgree
  BY DEF BackendsAgree
<1> QED BY <1>1, <1>2, AnswersAreMade, BackendsAcceptAlike, PTL
=============================================================================
