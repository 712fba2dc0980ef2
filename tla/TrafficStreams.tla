--------------------------- MODULE TrafficStreams ---------------------------
(***************************************************************************)
(* The two streams of Traffic, as sequences of units: the requests, from   *)
(* the client's socket to the backend, and the responses, from there to    *)
(* the client.  A read or a write moves units within a stream, a reply of  *)
(* the backend takes the first request from one and adds to the end of the *)
(* other, and an answer of GatewayD's own does so in the middle.  These    *)
(* lemmas say what each of the three does to the order of the streams;     *)
(* TrafficProofs applies them to the steps of the goroutines.              *)
(***************************************************************************)
EXTENDS Traffic, SequenceTheorems, TLAPS

\* A leaf is left to Zenon unless it names SMT, which arithmetic needs; the
\* numbers are time limits in seconds.
USE ZenonT(60)

\* The units of one message.
LEMMA UnitsType ==
  ASSUME NEW r \in Request, NEW n \in Nat
  PROVE  /\ Units(r, n) \in Seq(Unit) /\ Len(Units(r, n)) = n
         /\ \A k \in 1..n : /\ Units(r, n)[k].of = r /\ Units(r, n)[k].seq = k
                            /\ Units(r, n)[k].last = (k = n)
<1>1. \A k \in 1..n : [of |-> r, seq |-> k, last |-> k = n] \in Unit
  BY SMTT(30) DEF Unit
<1>2. Units(r, n) \in [1..n -> Unit] BY <1>1 DEF Units
<1>3. Units(r, n) \in Seq(Unit) /\ Len(Units(r, n)) = n BY SMTT(30), <1>2
<1> QED BY <1>3 DEF Units

\* What a Read returns and what it leaves.
LEMMA ReadType ==
  ASSUME NEW s \in Seq(Unit), NEW k \in Readable(s)
  PROVE  /\ k \in 1..Len(s)
         /\ Taken(s, k) \in Seq(Unit) /\ Len(Taken(s, k)) = k
         /\ Rest(s, k) \in Seq(Unit) /\ Len(Rest(s, k)) = Len(s) - k
         /\ Taken(s, k) \o Rest(s, k) = s
<1>1. Len(s) \in Nat /\ k \in 1..Len(s) BY SMTT(30), TrafficAssumption DEF Readable
<1>2. \A i \in 1..Len(s) : s[i] \in Unit BY ElementOfSeq
<1>3. Taken(s, k) \in Seq(Unit) /\ Len(Taken(s, k)) = k
  BY SMTT(30), <1>1, <1>2, SubSeqProperties DEF Taken
<1>4. Rest(s, k) \in Seq(Unit) /\ Len(Rest(s, k)) = Len(s) - k
  BY SMTT(30), <1>1, <1>2, SubSeqProperties DEF Rest
<1>5. Taken(s, k) \o Rest(s, k) = SubSeq(s, 1, Len(s))
  <2>1. 1 \in 1..(Len(s) + 1) /\ k \in (1 - 1)..Len(s) /\ Len(s) \in k..Len(s) BY SMTT(30), <1>1
  <2> QED BY <2>1, ConcatAdjacentSubSeq DEF Taken, Rest
<1>6. SubSeq(s, 1, Len(s)) = s BY SubSeqFull
<1> QED BY <1>1, <1>3, <1>4, <1>5, <1>6

\* The requests in a buffer, and the answer to one of them.
LEMMA InType ==
  ASSUME NEW s \in Seq(Unit)
  PROVE  In(s) \subseteq Request /\ \A k \in Ends(s) : k \in 1..Len(s) /\ s[k].of \in Request
<1>1. DOMAIN s = 1..Len(s) /\ \A k \in 1..Len(s) : s[k] \in Unit BY SMTT(30), ElementOfSeq
<1>2. \A k \in 1..Len(s) : s[k].of \in Request BY <1>1 DEF Unit
<1> QED BY <1>1, <1>2 DEF In, Ends

\* Concatenating sequences of units.
LEMMA CatType ==
  ASSUME NEW s \in Seq(Unit), NEW t \in Seq(Unit)
  PROVE  s \o t \in Seq(Unit)
  BY ConcatProperties

-----------------------------------------------------------------------------
(* Streams of units.                                                       *)

\* Where the units of three streams are in their concatenation.
LEMMA Cat3 ==
  ASSUME NEW a \in Seq(Unit), NEW b \in Seq(Unit), NEW c \in Seq(Unit)
  PROVE  /\ a \o b \o c \in Seq(Unit)
         /\ Len(a) \in Nat /\ Len(b) \in Nat /\ Len(c) \in Nat
         /\ Len(a \o b \o c) = Len(a) + Len(b) + Len(c)
         /\ \A i \in 1..(Len(a) + Len(b) + Len(c)) :
              (a \o b \o c)[i] = IF i <= Len(a) THEN a[i]
                                 ELSE IF i <= Len(a) + Len(b) THEN b[i - Len(a)]
                                 ELSE c[i - Len(a) - Len(b)]
<1>1. Len(a) \in Nat /\ Len(b) \in Nat /\ Len(c) \in Nat BY LenProperties
<1>2. /\ a \o b \in Seq(Unit) /\ Len(a \o b) = Len(a) + Len(b)
      /\ \A i \in 1..(Len(a) + Len(b)) : (a \o b)[i] = IF i <= Len(a) THEN a[i] ELSE b[i - Len(a)]
  BY ConcatProperties
<1> DEFINE d == a \o b
<1> HIDE DEF d
<1>3. /\ d \o c \in Seq(Unit) /\ Len(d \o c) = Len(d) + Len(c)
      /\ \A i \in 1..(Len(d) + Len(c)) : (d \o c)[i] = IF i <= Len(d) THEN d[i] ELSE c[i - Len(d)]
  BY SMTT(30), <1>2, ConcatProperties DEF d
<1>4. d \in Seq(Unit) /\ Len(d) = Len(a) + Len(b)
      /\ \A i \in 1..(Len(a) + Len(b)) : d[i] = IF i <= Len(a) THEN a[i] ELSE b[i - Len(a)]
  BY <1>2 DEF d
<1> DEFINE s == d \o c
<1>5. s \in Seq(Unit) /\ Len(s) = Len(a) + Len(b) + Len(c) BY <1>3, <1>4
<1>6. ASSUME NEW i \in 1..(Len(a) + Len(b) + Len(c))
      PROVE  s[i] = IF i <= Len(a) THEN a[i]
                    ELSE IF i <= Len(a) + Len(b) THEN b[i - Len(a)]
                    ELSE c[i - Len(a) - Len(b)]
  <2>1. s[i] = IF i <= Len(d) THEN d[i] ELSE c[i - Len(d)] BY <1>1, <1>3, <1>4
  <2> HIDE DEF s
  <2>2. CASE i <= Len(a) + Len(b) BY SMTT(30), <1>1, <1>4, <2>1, <2>2
  <2>3. CASE ~(i <= Len(a) + Len(b))
    <3>1. i - Len(d) = i - Len(a) - Len(b) BY SMTT(30), <1>1, <1>4
    <3>2. ~(i <= Len(a)) BY SMTT(30), <1>1, <2>3
    <3> QED BY <1>4, <2>1, <2>3, <3>1, <3>2
  <2> QED BY <2>2, <2>3
<1> QED BY <1>1, <1>5, <1>6 DEF d, s

\* The units of t are units of s, in the same order.
Sub(t, s) ==
  \E g \in [1..Len(t) -> 1..Len(s)] :
    /\ \A i \in 1..Len(t) : t[i] = s[g[i]]
    /\ \A i, k \in 1..Len(t) : i < k => g[i] < g[k]

\* What is left of a sorted stream is sorted.
LEMMA SubSorted ==
  ASSUME NEW s \in Seq(Unit), NEW t \in Seq(Unit), Sub(t, s), Sorted(s)
  PROVE  Sorted(t) /\ \A i \in DOMAIN t : \E k \in DOMAIN s : t[i] = s[k]
<1>1. PICK g \in [1..Len(t) -> 1..Len(s)] :
        /\ \A i \in 1..Len(t) : t[i] = s[g[i]]
        /\ \A i, k \in 1..Len(t) : i < k => g[i] < g[k]
  BY DEF Sub
<1>2. DOMAIN s = 1..Len(s) /\ DOMAIN t = 1..Len(t) BY LenProperties
<1>3. \A i \in 1..Len(t) : g[i] \in 1..Len(s) BY <1>1
<1> QED BY SMTT(30), <1>1, <1>2, <1>3 DEF Sorted

\* A stream without its middle part.
LEMMA DropMiddle ==
  ASSUME NEW a \in Seq(Unit), NEW b \in Seq(Unit), NEW c \in Seq(Unit)
  PROVE  Sub(a \o <<>> \o c, a \o b \o c)
<1>0. <<>> \in Seq(Unit) /\ Len(<<>>) = 0 BY EmptySeq
<1> DEFINE s == a \o b \o c
           t == a \o <<>> \o c
           g == [i \in 1..(Len(a) + Len(c)) |-> IF i <= Len(a) THEN i ELSE i + Len(b)]
<1>1. /\ Len(a) \in Nat /\ Len(b) \in Nat /\ Len(c) \in Nat
      /\ Len(s) = Len(a) + Len(b) + Len(c)
      /\ \A i \in 1..(Len(a) + Len(b) + Len(c)) :
           s[i] = IF i <= Len(a) THEN a[i]
                  ELSE IF i <= Len(a) + Len(b) THEN b[i - Len(a)]
                  ELSE c[i - Len(a) - Len(b)]
  BY Cat3
<1>2. /\ Len(t) = Len(a) + Len(c)
      /\ \A i \in 1..(Len(a) + Len(c)) : t[i] = IF i <= Len(a) THEN a[i] ELSE c[i - Len(a)]
  <2> DEFINE e == <<>>
  <2>1. e \in Seq(Unit) /\ Len(e) = 0 BY <1>0
  <2> HIDE DEF e
  <2>2. /\ Len(a \o e \o c) = Len(a) + Len(e) + Len(c)
        /\ \A i \in 1..(Len(a) + Len(e) + Len(c)) :
             (a \o e \o c)[i] = IF i <= Len(a) THEN a[i]
                    ELSE IF i <= Len(a) + Len(e) THEN e[i - Len(a)]
                    ELSE c[i - Len(a) - Len(e)]
    BY SMTT(30), <2>1, Cat3
  <2>3. t = a \o e \o c BY DEF e
  <2> HIDE DEF t
  <2>4. Len(t) = Len(a) + Len(c) BY SMTT(30), <1>1, <2>1, <2>2, <2>3
  <2>5. ASSUME NEW i \in 1..(Len(a) + Len(c))
        PROVE  t[i] = IF i <= Len(a) THEN a[i] ELSE c[i - Len(a)]
    <3>1. t[i] = IF i <= Len(a) THEN a[i]
                    ELSE IF i <= Len(a) + Len(e) THEN e[i - Len(a)]
                    ELSE c[i - Len(a) - Len(e)]
      BY SMTT(30), <1>1, <2>1, <2>2, <2>3
    <3>2. Len(a) + Len(e) = Len(a) /\ i - Len(a) - Len(e) = i - Len(a) BY SMTT(30), <1>1, <2>1
    <3> QED BY <3>1, <3>2
  <2> QED BY <2>4, <2>5
<1> HIDE DEF s, t
<1>3. g \in [1..Len(t) -> 1..Len(s)] BY SMTT(30), <1>1, <1>2
<1>4. \A i \in 1..Len(t) : t[i] = s[g[i]]
  <2>1. ASSUME NEW i \in 1..(Len(a) + Len(c)), i <= Len(a) PROVE t[i] = s[g[i]]
    BY SMTT(30), <1>1, <1>2, <2>1
  <2>2. ASSUME NEW i \in 1..(Len(a) + Len(c)), ~(i <= Len(a)) PROVE t[i] = s[g[i]]
    <3>1. g[i] = i + Len(b) BY <2>2
    <3>2. /\ i + Len(b) \in 1..(Len(a) + Len(b) + Len(c)) /\ ~(i + Len(b) <= Len(a))
          /\ ~(i + Len(b) <= Len(a) + Len(b)) /\ (i + Len(b)) - Len(a) - Len(b) = i - Len(a)
      BY SMTT(30), <1>1, <2>2
    <3>3. s[i + Len(b)] = c[i - Len(a)] BY <1>1, <3>2
    <3> QED BY <1>2, <2>2, <3>1, <3>3
  <2> QED BY <1>2, <2>1, <2>2
<1>5. \A i, k \in 1..Len(t) : i < k => g[i] < g[k] BY SMTT(30), <1>1, <1>2
<1> QED BY <1>3, <1>4, <1>5 DEF Sub, s, t

\* A stream without the part before and including unit k of its first part.
LEMMA DropFirst ==
  ASSUME NEW a \in Seq(Unit), NEW b \in Seq(Unit), NEW c \in Seq(Unit), NEW k \in 1..Len(a)
  PROVE  LET r == SubSeq(a, k + 1, Len(a)) IN
         /\ r \in Seq(Unit) /\ Len(r) = Len(a) - k
         /\ \A i \in 1..(Len(a) - k) : r[i] = a[i + k]
         /\ Sub(r \o b \o c, a \o b \o c)
         /\ Len(r \o b \o c) = Len(a) - k + Len(b) + Len(c)
         /\ \A i \in 1..(Len(a) - k + Len(b) + Len(c)) :
              (r \o b \o c)[i] = (a \o b \o c)[i + k]
<1> DEFINE r == SubSeq(a, k + 1, Len(a))
           s == a \o b \o c
           t == r \o b \o c
           n == Len(a) - k + Len(b) + Len(c)
           g == [i \in 1..n |-> i + k]
<1>1. /\ Len(a) \in Nat /\ Len(b) \in Nat /\ Len(c) \in Nat
      /\ Len(s) = Len(a) + Len(b) + Len(c)
      /\ \A i \in 1..(Len(a) + Len(b) + Len(c)) :
           s[i] = IF i <= Len(a) THEN a[i]
                  ELSE IF i <= Len(a) + Len(b) THEN b[i - Len(a)]
                  ELSE c[i - Len(a) - Len(b)]
  BY Cat3
<1>2. r \in Seq(Unit) /\ Len(r) = Len(a) - k /\ \A i \in 1..(Len(a) - k) : r[i] = a[i + k]
  <2>1. \A i \in (k + 1)..Len(a) : a[i] \in Unit BY SMTT(30), <1>1, ElementOfSeq
  <2>2. /\ r \in Seq(Unit)
        /\ Len(r) = IF k + 1 <= Len(a) THEN Len(a) - (k + 1) + 1 ELSE 0
        /\ \A i \in 1..(Len(a) - (k + 1) + 1) : r[i] = a[(k + 1) + i - 1]
    BY SMTT(30), <1>1, <2>1, SubSeqProperties
  <2> HIDE DEF r
  <2>3. Len(r) = Len(a) - k BY SMTT(30), <1>1, <2>2
  <2>4. \A i \in 1..(Len(a) - k) : i \in 1..(Len(a) - (k + 1) + 1) /\ (k + 1) + i - 1 = i + k
    BY SMTT(30), <1>1
  <2> QED BY <2>2, <2>3, <2>4
<1> HIDE DEF r
<1>3. /\ Len(t) = Len(r) + Len(b) + Len(c)
      /\ \A i \in 1..(Len(r) + Len(b) + Len(c)) :
           t[i] = IF i <= Len(r) THEN r[i]
                  ELSE IF i <= Len(r) + Len(b) THEN b[i - Len(r)]
                  ELSE c[i - Len(r) - Len(b)]
  BY <1>2, Cat3
<1> HIDE DEF s, t
<1>4. Len(t) = n BY <1>2, <1>3
<1>5. ASSUME NEW i \in 1..n PROVE t[i] = s[i + k] /\ i + k \in 1..Len(s)
  <2>1. i \in 1..(Len(r) + Len(b) + Len(c)) /\ i + k \in 1..(Len(a) + Len(b) + Len(c))
    BY SMTT(30), <1>1, <1>2
  <2>2. CASE i <= Len(r)
    <3>1. i + k <= Len(a) /\ i \in 1..(Len(a) - k) BY SMTT(30), <1>1, <1>2, <2>2
    <3> QED BY <1>1, <1>2, <1>3, <2>1, <2>2, <3>1
  <2>3. CASE ~(i <= Len(r)) /\ i <= Len(r) + Len(b)
    <3>1. ~(i + k <= Len(a)) /\ i + k <= Len(a) + Len(b) /\ i + k - Len(a) = i - Len(r)
      BY SMTT(30), <1>1, <1>2, <2>3
    <3>2. s[i + k] = b[i + k - Len(a)] BY SMTT(30), <1>1, <2>1, <3>1
    <3>3. t[i] = b[i - Len(r)] BY <1>3, <2>1, <2>3
    <3> QED BY <1>1, <2>1, <3>1, <3>2, <3>3
  <2>4. CASE ~(i <= Len(r)) /\ ~(i <= Len(r) + Len(b))
    <3>1. /\ ~(i + k <= Len(a)) /\ ~(i + k <= Len(a) + Len(b))
          /\ i + k - Len(a) - Len(b) = i - Len(r) - Len(b)
      BY SMTT(30), <1>1, <1>2, <2>4
    <3>2. s[i + k] = c[i + k - Len(a) - Len(b)] BY SMTT(30), <1>1, <2>1, <3>1
    <3>3. t[i] = c[i - Len(r) - Len(b)] BY <1>3, <2>1, <2>4
    <3> QED BY <1>1, <2>1, <3>1, <3>2, <3>3
  <2> QED BY <2>2, <2>3, <2>4
<1>6. Sub(t, s)
  <2>1. g \in [1..Len(t) -> 1..Len(s)] BY <1>4, <1>5
  <2>2. \A i \in 1..Len(t) : t[i] = s[g[i]] BY <1>4, <1>5
  <2>3. \A i, j \in 1..Len(t) : i < j => g[i] < g[j] BY SMTT(30), <1>1, <1>4
  <2> QED BY <2>1, <2>2, <2>3 DEF Sub
<1> QED BY <1>2, <1>4, <1>5, <1>6 DEF r, s, t

\* Concatenation is associative.
LEMMA Assoc == \A s, t, u \in Seq(Unit) : (s \o t) \o u = s \o (t \o u)
  BY SMTT(30), ConcatAssociative

\* What a concatenation is.
LEMMA Cat ==
  \A s, u \in Seq(Unit) :
    /\ s \o u \in Seq(Unit) /\ Len(s \o u) = Len(s) + Len(u)
    /\ \A i \in 1..(Len(s) + Len(u)) : (s \o u)[i] = IF i <= Len(s) THEN s[i] ELSE u[i - Len(s)]
  BY ConcatProperties

\* A unit that is read moves from one buffer to the next, and stays where it is
\* in the stream.
LEMMA MovedRead ==
  \A a, b, c \in Seq(Unit) : \A k \in Readable(c) :
    a \o (b \o Taken(c, k)) \o Rest(c, k) = a \o b \o c
<1>0. SUFFICES ASSUME NEW a \in Seq(Unit), NEW b \in Seq(Unit), NEW c \in Seq(Unit),
                      NEW k \in Readable(c)
               PROVE  a \o (b \o Taken(c, k)) \o Rest(c, k) = a \o b \o c
  OBVIOUS
<1>1. Taken(c, k) \in Seq(Unit) /\ Rest(c, k) \in Seq(Unit) /\ Taken(c, k) \o Rest(c, k) = c
  BY ReadType
<1>2. PICK x, y : x = Taken(c, k) /\ y = Rest(c, k) OBVIOUS
<1>3. x \in Seq(Unit) BY <1>1, <1>2
<1>4. y \in Seq(Unit) BY <1>1, <1>2
<1>5. a \o b \in Seq(Unit) BY CatType
<1>6. (a \o b) \o x = a \o (b \o x) BY <1>3, Assoc
<1>7. ((a \o b) \o x) \o y = (a \o b) \o (x \o y) BY <1>3, <1>4, <1>5, Assoc
<1>8. x \o y = c BY <1>1, <1>2
<1>9. a \o (b \o x) \o y = a \o b \o c BY <1>6, <1>7, <1>8
<1> QED BY <1>2, <1>9

\* The same for a buffer that is passed on whole.
LEMMA MovedAll ==
  \A a, b, c \in Seq(Unit) : (a \o b) \o <<>> \o c = a \o b \o c
<1>0. SUFFICES ASSUME NEW a \in Seq(Unit), NEW b \in Seq(Unit), NEW c \in Seq(Unit)
               PROVE  (a \o b) \o <<>> \o c = a \o b \o c
  OBVIOUS
<1>1. a \o b \in Seq(Unit) BY CatType
<1>2. (a \o b) \o <<>> = a \o b BY <1>1, ConcatEmptySeq
<1> QED BY <1>2

\* What is added to the last buffer is added to the stream.
LEMMA MovedTail ==
  \A a, b, c, d \in Seq(Unit) : a \o b \o (c \o d) = (a \o b \o c) \o d
<1>0. SUFFICES ASSUME NEW a \in Seq(Unit), NEW b \in Seq(Unit), NEW c \in Seq(Unit),
                      NEW d \in Seq(Unit)
               PROVE  a \o b \o (c \o d) = (a \o b \o c) \o d
  OBVIOUS
<1>1. a \o b \in Seq(Unit) BY CatType
<1> QED BY <1>1, Assoc

\* t is the stream s to which a response or request r of z units is added.
Extends(t, s, r, z) ==
  /\ t \in Seq(Unit) /\ Len(t) = Len(s) + z /\ Len(s) \in Nat
  /\ DOMAIN t = 1..(Len(s) + z) /\ DOMAIN s = 1..Len(s)
  /\ \A i \in 1..Len(s) : t[i] = s[i]
  /\ \A i \in (Len(s) + 1)..(Len(s) + z) :
       t[i].of = r /\ t[i].seq = i - Len(s) /\ (i # Len(s) + z => ~t[i].last)
  /\ t[Len(s) + z].last

\* A concatenation with the units of a message extends a stream.
LEMMA Extended ==
  ASSUME NEW s \in Seq(Unit), NEW r \in Request, NEW z \in Nat \ {0}
  PROVE  Extends(s \o Units(r, z), s, r, z)
<1>0. PICK t : t = s \o Units(r, z) OBVIOUS
<1>1. Units(r, z) \in Seq(Unit) /\ Len(Units(r, z)) = z BY UnitsType
<1>2. PICK u \in Seq(Unit) : u = Units(r, z) /\ Len(u) = z BY <1>1
<1>3. /\ t \in Seq(Unit) /\ Len(t) = Len(s) + z
      /\ \A i \in 1..(Len(s) + z) : t[i] = IF i <= Len(s) THEN s[i] ELSE u[i - Len(s)]
  <2>1. /\ s \o u \in Seq(Unit) /\ Len(s \o u) = Len(s) + Len(u)
        /\ \A i \in 1..(Len(s) + Len(u)) :
             (s \o u)[i] = IF i <= Len(s) THEN s[i] ELSE u[i - Len(s)]
    BY Cat
  <2> QED BY <1>0, <1>2, <2>1
<1>4. Len(s) \in Nat /\ DOMAIN s = 1..Len(s) /\ DOMAIN t = 1..(Len(s) + z)
  BY <1>3, LenProperties
<1>5. /\ \A k \in 1..z : u[k].of = r /\ u[k].seq = k
      /\ \A k \in 1..z : k # z => ~u[k].last
      /\ u[z].last
  <2>1. \A k \in 1..z : u[k].of = r /\ u[k].seq = k BY <1>2 DEF Units
  <2>2. \A k \in 1..z : k # z => ~u[k].last BY <1>2 DEF Units
  <2>3. u[z].last
    <3>1. \A k \in 1..z : k = z => u[k].last BY <1>2 DEF Units
    <3> QED BY SMTT(30), <3>1
  <2> QED BY <2>1, <2>2, <2>3
<1>6. ASSUME NEW i \in (Len(s) + 1)..(Len(s) + z)
      PROVE  t[i].of = r /\ t[i].seq = i - Len(s) /\ (i # Len(s) + z => ~t[i].last)
  <2>1. i - Len(s) \in 1..z /\ i \in 1..(Len(s) + z) /\ ~(i <= Len(s)) BY SMTT(30), <1>4
  <2>2. t[i] = u[i - Len(s)] BY <1>3, <2>1
  <2>3. (i - Len(s) = z) => (i = Len(s) + z) BY SMTT(30), <1>4
  <2> QED BY <1>5, <2>1, <2>2, <2>3
<1>7. \A i \in 1..Len(s) : t[i] = s[i] BY SMTT(30), <1>3, <1>4
<1>8. t[Len(s) + z].last
  <2>1. Len(s) + z \in 1..(Len(s) + z) /\ ~(Len(s) + z <= Len(s)) /\ Len(s) + z - Len(s) = z
    BY SMTT(30), <1>4
  <2>2. t[Len(s) + z] = u[Len(s) + z - Len(s)] BY SMTT(30), <1>3, <2>1
  <2> QED BY <1>5, <2>1, <2>2
<1>9. Extends(t, s, r, z) BY <1>3, <1>4, <1>6, <1>7, <1>8 DEF Extends
<1> QED BY <1>0, <1>9

\* Units that are all before a message stay sorted when it is added.
LEMMA ExtendedSorted ==
  ASSUME NEW s \in Seq(Unit), NEW r \in Request, NEW z \in Nat \ {0},
         Sorted(s), \A k \in DOMAIN s : s[k].of < r
  PROVE  Sorted(s \o Units(r, z))
<1>0. PICK t : t = s \o Units(r, z) OBVIOUS
<1>1. /\ Len(s) \in Nat /\ DOMAIN t = 1..(Len(s) + z) /\ DOMAIN s = 1..Len(s)
      /\ \A i \in 1..Len(s) : t[i] = s[i]
      /\ \A i \in (Len(s) + 1)..(Len(s) + z) :
           t[i].of = r /\ (i # Len(s) + z => ~t[i].last)
  <2>1. Extends(t, s, r, z) BY <1>0, Extended
  <2> QED BY <2>1 DEF Extends
<1>2. r \in Nat BY SMTT(30), TrafficAssumption DEF Request
<1>3. ASSUME NEW i \in 1..(Len(s) + z), NEW k \in 1..(Len(s) + z), i < k
      PROVE  t[i].of <= t[k].of /\ (t[i].last => t[i].of < t[k].of)
  <2>1. CASE k <= Len(s)
    <3>1. i \in DOMAIN s /\ k \in DOMAIN s BY SMTT(30), <1>1, <1>3, <2>1
    <3> QED BY <1>1, <1>3, <3>1 DEF Sorted
  <2>2. CASE ~(k <= Len(s)) /\ i <= Len(s)
    <3>1. i \in DOMAIN s /\ k \in (Len(s) + 1)..(Len(s) + z) BY SMTT(30), <1>1, <2>2
    <3>2. t[i] = s[i] /\ t[k].of = r /\ s[i].of < r /\ s[i] \in Unit
      BY <1>1, <3>1, ElementOfSeq
    <3>3. s[i].of \in Nat BY SMTT(30), <3>2, TrafficAssumption DEF Unit, Request
    <3> QED BY SMTT(30), <1>2, <3>2, <3>3
  <2>3. CASE ~(k <= Len(s)) /\ ~(i <= Len(s))
    <3>1. i \in (Len(s) + 1)..(Len(s) + z) /\ k \in (Len(s) + 1)..(Len(s) + z) /\ i # Len(s) + z
      BY SMTT(30), <1>1, <1>3, <2>3
    <3> QED BY SMTT(30), <1>1, <1>2, <3>1
  <2> QED BY <2>1, <2>2, <2>3
<1> QED BY <1>0, <1>1, <1>3 DEF Sorted

\* The request that is next after the responses so far.
NextOf(s, r) == \/ s = <<>> /\ r = 1
                \/ s # <<>> /\ s[Len(s)].last /\ r = s[Len(s)].of + 1

\* The next response added to responses in order.
LEMMA ExtendedInOrder ==
  ASSUME NEW s \in Seq(Unit), NEW r \in Request, NEW z \in Nat \ {0},
         InOrder(s), NextOf(s, r)
  PROVE  InOrder(s \o Units(r, z))
<1>0. PICK t : t = s \o Units(r, z) OBVIOUS
<1>1. /\ Len(s) \in Nat /\ DOMAIN t = 1..(Len(s) + z) /\ DOMAIN s = 1..Len(s)
      /\ \A i \in 1..Len(s) : t[i] = s[i]
      /\ \A i \in (Len(s) + 1)..(Len(s) + z) :
           t[i].of = r /\ t[i].seq = i - Len(s) /\ (i # Len(s) + z => ~t[i].last)
  <2>1. Extends(t, s, r, z) BY <1>0, Extended
  <2> QED BY <2>1 DEF Extends
<1>2. r \in Nat BY SMTT(30), TrafficAssumption DEF Request
<1>3. ASSUME NEW k \in 1..(Len(s) + z)
      PROVE  IF k = 1 \/ t[k - 1].last
               THEN /\ t[k].seq = 1
                    /\ t[k].of = 1 + (IF k = 1 THEN 0 ELSE t[k - 1].of)
               ELSE /\ t[k].seq = t[k - 1].seq + 1
                    /\ t[k].of = t[k - 1].of
  <2>1. CASE k <= Len(s)
    <3>1. k \in 1..Len(s) /\ (k # 1 => k - 1 \in 1..Len(s)) BY SMTT(30), <1>1, <2>1
    <3>2. t[k] = s[k] /\ (k # 1 => t[k - 1] = s[k - 1]) BY <1>1, <3>1
    <3>3. IF k = 1 \/ s[k - 1].last
            THEN /\ s[k].seq = 1
                 /\ s[k].of = 1 + (IF k = 1 THEN 0 ELSE s[k - 1].of)
            ELSE /\ s[k].seq = s[k - 1].seq + 1
                 /\ s[k].of = s[k - 1].of
      BY <1>1, <3>1 DEF InOrder
    <3> QED BY <3>2, <3>3
  <2>2. CASE k = Len(s) + 1
    <3>1. t[k].of = r /\ t[k].seq = 1 BY SMTT(30), <1>1, <2>2
    <3>2. CASE s = <<>>
      <4>1. k = 1 /\ r = 1 BY SMTT(30), <2>2, <3>2 DEF NextOf
      <4> QED BY SMTT(30), <3>1, <4>1
    <3>3. CASE s # <<>>
      <4>1. Len(s) \in 1..Len(s) BY SMTT(30), <3>3, EmptySeq
      <4>2. k # 1 /\ k - 1 = Len(s) /\ t[k - 1] = s[Len(s)] BY SMTT(30), <1>1, <2>2, <4>1
      <4>3. s[Len(s)].last /\ r = s[Len(s)].of + 1 BY <3>3 DEF NextOf
      <4>4. s[Len(s)].of \in Nat
        <5>1. s[Len(s)] \in Unit BY <4>1, ElementOfSeq
        <5> QED BY SMTT(30), <5>1, TrafficAssumption DEF Unit, Request
      <4> QED BY SMTT(30), <3>1, <4>2, <4>3, <4>4
    <3> QED BY <3>2, <3>3
  <2>3. CASE k > Len(s) + 1
    <3>1. /\ k \in (Len(s) + 1)..(Len(s) + z) /\ k - 1 \in (Len(s) + 1)..(Len(s) + z)
          /\ k - 1 # Len(s) + z /\ k # 1 /\ k - Len(s) = ((k - 1) - Len(s)) + 1
      BY SMTT(30), <1>1, <2>3
    <3> QED BY <1>1, <3>1
  <2>4. k <= Len(s) \/ k = Len(s) + 1 \/ k > Len(s) + 1 BY SMTT(30), <1>1
  <2> QED BY <2>1, <2>2, <2>3, <2>4
<1> QED BY <1>0, <1>1, <1>3 DEF InOrder

-----------------------------------------------------------------------------
(* The invariant of the relay, as predicates on the streams: R of responses, *)
(* Q of requests, T the part of Q that has reached the backend, n the number *)
(* of requests the client has sent.                                          *)

Above(m, R) == \A k \in DOMAIN R : R[k].of < m

Base(R, Q, n) ==
  /\ InOrder(R) /\ Sorted(R) /\ Sorted(Q)
  /\ \A k \in DOMAIN R : R[k].of <= n
  /\ \A k \in DOMAIN Q : Q[k].of <= n /\ (Q[k].last => Above(Q[k].of, R))

Complete(R) == R # <<>> => R[Len(R)].last

Chain(R, T) ==
  \A k \in DOMAIN T, m \in Request : m < T[k].of /\ Above(m, R) =>
    \E j \in 1..(k - 1) : T[j].last /\ T[j].of = m

Whole(R, Q, n) ==
  \A m \in 1..n : Above(m, R) => \E j \in Ends(Q) : Q[j].of = m

\* OrderInv in these terms.
LEMMA OrderParts ==
  OrderInv <=>
    /\ Base(Responses, Requests, sent)
    /\ ~Pipelining /\ sent > 1 => Answered(sent - 1)
    /\ Relaying => Complete(Responses) /\ Chain(Responses, toBackend)
                   /\ (Forwarding => Whole(Responses, Requests, sent))
  BY DEF OrderInv, Base, Complete, Chain, Whole, Fresh, Above

\* q is a, b and c one after the other.
IsCat3(q, a, b, c) ==
  /\ q \in Seq(Unit) /\ Len(a) \in Nat /\ Len(b) \in Nat /\ Len(c) \in Nat
  /\ DOMAIN a = 1..Len(a) /\ DOMAIN b = 1..Len(b) /\ DOMAIN c = 1..Len(c)
  /\ Len(q) = Len(a) + Len(b) + Len(c) /\ DOMAIN q = 1..(Len(a) + Len(b) + Len(c))
  /\ \A i \in 1..Len(a) : q[i] = a[i]
  /\ \A i \in 1..Len(b) : q[Len(a) + i] = b[i]
  /\ \A i \in 1..Len(c) : q[Len(a) + Len(b) + i] = c[i]

\* A concatenation of three streams is that.
LEMMA Cat3Parts ==
  ASSUME NEW a \in Seq(Unit), NEW b \in Seq(Unit), NEW c \in Seq(Unit)
  PROVE  IsCat3(a \o b \o c, a, b, c)
<1>0. PICK q : q = a \o b \o c OBVIOUS
<1>1. /\ Len(a) \in Nat /\ Len(b) \in Nat /\ Len(c) \in Nat
      /\ Len(q) = Len(a) + Len(b) + Len(c)
      /\ \A i \in 1..(Len(a) + Len(b) + Len(c)) :
           q[i] = IF i <= Len(a) THEN a[i]
                  ELSE IF i <= Len(a) + Len(b) THEN b[i - Len(a)]
                  ELSE c[i - Len(a) - Len(b)]
  BY SMTT(30), <1>0, Cat3
<1>2. q \in Seq(Unit) BY <1>0, CatType
<1>3. DOMAIN a = 1..Len(a) /\ DOMAIN b = 1..Len(b) /\ DOMAIN c = 1..Len(c) /\ DOMAIN q = 1..Len(q)
  BY <1>2, LenProperties
<1>4. ASSUME NEW i \in 1..Len(a) PROVE q[i] = a[i] BY SMTT(30), <1>1
<1>5. ASSUME NEW i \in 1..Len(b) PROVE q[Len(a) + i] = b[i]
  <2>1. /\ Len(a) + i \in 1..(Len(a) + Len(b) + Len(c)) /\ ~(Len(a) + i <= Len(a))
        /\ Len(a) + i <= Len(a) + Len(b) /\ Len(a) + i - Len(a) = i
    BY SMTT(30), <1>1
  <2>2. q[Len(a) + i] = b[Len(a) + i - Len(a)] BY SMTT(30), <1>1, <2>1
  <2> QED BY <2>1, <2>2
<1>6. ASSUME NEW i \in 1..Len(c) PROVE q[Len(a) + Len(b) + i] = c[i]
  <2> DEFINE x == Len(a) + Len(b) + i
  <2>1. /\ x \in 1..(Len(a) + Len(b) + Len(c)) /\ ~(x <= Len(a))
        /\ ~(x <= Len(a) + Len(b)) /\ x - Len(a) - Len(b) = i
    BY SMTT(30), <1>1
  <2> HIDE DEF x
  <2>2. q[x] = c[x - Len(a) - Len(b)] BY <1>1, <2>1
  <2>3. q[x] = c[i] BY <2>1, <2>2
  <2> QED BY <2>3 DEF x
<1>7. IsCat3(q, a, b, c) BY <1>1, <1>2, <1>3, <1>4, <1>5, <1>6 DEF IsCat3
<1> QED BY <1>0, <1>7

\* Numbers of requests.
LEMMA OfNat ==
  \A s \in Seq(Unit) : \A k \in DOMAIN s : s[k].of \in Request /\ s[k].of \in Nat /\ s[k].of >= 1
<1> SUFFICES ASSUME NEW s \in Seq(Unit), NEW k \in DOMAIN s
             PROVE  s[k].of \in Request /\ s[k].of \in Nat /\ s[k].of >= 1
  OBVIOUS
<1>1. s[k] \in Unit BY LenProperties, ElementOfSeq
<1>2. s[k].of \in Request BY <1>1 DEF Unit
<1> QED BY SMTT(30), <1>2, TrafficAssumption DEF Request

\* Requests that are dropped.
LEMMA BaseSub ==
  ASSUME NEW R \in Seq(Unit), NEW Q \in Seq(Unit), NEW P \in Seq(Unit), NEW n,
         Base(R, Q, n), Sub(P, Q)
  PROVE  Base(R, P, n)
<1>1. Sorted(P) /\ \A i \in DOMAIN P : \E k \in DOMAIN Q : P[i] = Q[k]
  BY SubSorted DEF Base
<1> QED BY <1>1 DEF Base

\* Responses that are dropped, or not relayed any more.
LEMMA BasePrefix ==
  ASSUME NEW R \in Seq(Unit), NEW x \in Seq(Unit), NEW Q \in Seq(Unit), NEW n,
         Base(R \o x, Q, n)
  PROVE  Base(R, Q, n)
<1>0. PICK S : S = R \o x OBVIOUS
<1>1. /\ Len(R) \in Nat /\ DOMAIN R = 1..Len(R) /\ DOMAIN R \subseteq DOMAIN S
      /\ \A i \in DOMAIN R : S[i] = R[i]
  <2>1. /\ S \in Seq(Unit) /\ Len(S) = Len(R) + Len(x)
        /\ \A i \in 1..(Len(R) + Len(x)) : S[i] = IF i <= Len(R) THEN R[i] ELSE x[i - Len(R)]
    BY <1>0, Cat
  <2>2. Len(R) \in Nat /\ Len(x) \in Nat /\ DOMAIN R = 1..Len(R) /\ DOMAIN S = 1..(Len(R) + Len(x))
    BY <2>1, LenProperties
  <2> QED BY SMTT(30), <2>1, <2>2
<1>2. Base(S, Q, n) BY <1>0
<1>3. InOrder(R)
  <2>1. InOrder(S) BY <1>2 DEF Base
  <2>2. ASSUME NEW k \in DOMAIN R
        PROVE  IF k = 1 \/ R[k - 1].last
                 THEN /\ R[k].seq = 1
                      /\ R[k].of = 1 + (IF k = 1 THEN 0 ELSE R[k - 1].of)
                 ELSE /\ R[k].seq = R[k - 1].seq + 1
                      /\ R[k].of = R[k - 1].of
    <3>1. k \in DOMAIN S /\ S[k] = R[k] /\ (k # 1 => S[k - 1] = R[k - 1]) BY SMTT(30), <1>1
    <3>2. IF k = 1 \/ S[k - 1].last
            THEN /\ S[k].seq = 1
                 /\ S[k].of = 1 + (IF k = 1 THEN 0 ELSE S[k - 1].of)
            ELSE /\ S[k].seq = S[k - 1].seq + 1
                 /\ S[k].of = S[k - 1].of
      BY <2>1, <3>1 DEF InOrder
    <3> QED BY <3>1, <3>2
  <2> QED BY <2>2 DEF InOrder
<1>4. Sorted(R) BY <1>1, <1>2 DEF Base, Sorted
<1>5. \A k \in DOMAIN R : R[k].of <= n BY <1>1, <1>2 DEF Base
<1>6. \A m : Above(m, S) => Above(m, R) BY <1>1 DEF Above
<1> QED BY <1>2, <1>3, <1>4, <1>5, <1>6 DEF Base

\* A request the client sends.
LEMMA BaseClient ==
  ASSUME NEW R \in Seq(Unit), NEW Q \in Seq(Unit), NEW n \in Nat, n + 1 \in Request,
         NEW z \in Nat \ {0}, Base(R, Q, n)
  PROVE  /\ Base(R, Q \o Units(n + 1, z), n + 1)
         /\ Whole(R, Q, n) => Whole(R, Q \o Units(n + 1, z), n + 1)
<1>0. PICK P : P = Q \o Units(n + 1, z) OBVIOUS
<1>1. Extends(P, Q, n + 1, z) BY <1>0, Extended
<1>2. \A k \in DOMAIN Q : Q[k].of < n + 1 BY SMTT(30), OfNat DEF Base
<1>3. Sorted(P) BY <1>0, <1>2, ExtendedSorted DEF Base
<1>4. \A k \in DOMAIN R : R[k].of <= n + 1 BY SMTT(30), OfNat DEF Base
<1>5. Above(n + 1, R) BY SMTT(30), OfNat DEF Base, Above
<1>6. ASSUME NEW k \in DOMAIN P
      PROVE  P[k].of <= n + 1 /\ (P[k].last => Above(P[k].of, R))
  <2>1. CASE k \in 1..Len(Q)
    <3>1. k \in DOMAIN Q /\ P[k] = Q[k] BY <1>1, <2>1 DEF Extends
    <3> QED BY SMTT(30), <1>2, <3>1, OfNat DEF Base
  <2>2. CASE k \in (Len(Q) + 1)..(Len(Q) + z)
    <3>1. P[k].of = n + 1 BY <1>1, <2>2 DEF Extends
    <3> QED BY SMTT(30), <1>5, <3>1
  <2>3. k \in 1..Len(Q) \/ k \in (Len(Q) + 1)..(Len(Q) + z) BY SMTT(30), <1>1 DEF Extends
  <2> QED BY <2>1, <2>2, <2>3
<1>7. Base(R, P, n + 1) BY <1>3, <1>4, <1>6 DEF Base
<1>8. ASSUME Whole(R, Q, n), NEW m \in 1..(n + 1), Above(m, R)
      PROVE  \E j \in Ends(P) : P[j].of = m
  <2>1. CASE m \in 1..n
    <3>1. PICK j \in Ends(Q) : Q[j].of = m BY <1>8, <2>1 DEF Whole
    <3>2. j \in DOMAIN P /\ P[j] = Q[j] BY SMTT(30), <1>1, <3>1 DEF Extends, Ends
    <3> QED BY <3>1, <3>2 DEF Ends
  <2>2. CASE m = n + 1
    <3>1. /\ Len(Q) + z \in DOMAIN P /\ P[Len(Q) + z].last
          /\ Len(Q) + z \in (Len(Q) + 1)..(Len(Q) + z)
      BY SMTT(30), <1>1 DEF Extends
    <3>2. P[Len(Q) + z].of = n + 1 BY <1>1, <3>1 DEF Extends
    <3> QED BY <2>2, <3>1, <3>2 DEF Ends
  <2> QED BY SMTT(30), <2>1, <2>2
<1>9. Whole(R, Q, n) => Whole(R, P, n + 1) BY <1>8 DEF Whole
<1> QED BY <1>0, <1>7, <1>9

\* All that is before the last unit of sorted responses is below a later one.
LEMMA AboveLast ==
  ASSUME NEW R \in Seq(Unit), Sorted(R), R # <<>>
  PROVE  /\ Len(R) \in DOMAIN R /\ R[Len(R)].of \in Nat
         /\ \A m \in Nat : R[Len(R)].of < m => Above(m, R)
<1>1. Len(R) \in Nat /\ Len(R) \in 1..Len(R) /\ DOMAIN R = 1..Len(R) BY SMTT(30), EmptySeq, LenProperties
<1>2. \A k \in DOMAIN R : R[k].of \in Nat BY OfNat
<1>3. \A k \in DOMAIN R : R[k].of <= R[Len(R)].of
  <2>1. ASSUME NEW k \in DOMAIN R PROVE R[k].of <= R[Len(R)].of
    <3>1. k = Len(R) \/ k < Len(R) BY SMTT(30), <1>1
    <3> QED BY SMTT(30), <1>1, <1>2, <3>1 DEF Sorted
  <2> QED BY <2>1
<1> QED BY SMTT(30), <1>1, <1>2, <1>3 DEF Above

\* The oldest request that waits for a response is the next one.
LEMMA NextReply ==
  ASSUME NEW R \in Seq(Unit), NEW T \in Seq(Unit), Sorted(R), Complete(R), Chain(R, T),
         NEW k \in DOMAIN T, Above(T[k].of, R), \A j \in 1..(k - 1) : ~T[j].last
  PROVE  NextOf(R, T[k].of)
<1>1. T[k].of \in Request /\ T[k].of \in Nat /\ T[k].of >= 1 BY OfNat
<1>2. \A m \in Request : m < T[k].of => ~Above(m, R) BY DEF Chain
<1>3. CASE R = <<>>
  <2>1. Above(1, R) BY SMTT(30), <1>3 DEF Above
  <2>2. 1 \in Request BY SMTT(30), <1>1, TrafficAssumption DEF Request
  <2>3. ~(1 < T[k].of) BY <1>2, <2>1, <2>2
  <2> QED BY SMTT(30), <1>1, <1>3, <2>3 DEF NextOf
<1>4. CASE R # <<>>
  <2>1. /\ Len(R) \in DOMAIN R /\ R[Len(R)].of \in Nat
        /\ \A m \in Nat : R[Len(R)].of < m => Above(m, R)
    BY <1>4, AboveLast
  <2>2. R[Len(R)].of < T[k].of BY <2>1 DEF Above
  <2>3. Above(R[Len(R)].of + 1, R) BY SMTT(30), <2>1
  <2>4. R[Len(R)].of + 1 \in Request BY SMTT(30), <1>1, <2>1, <2>2, TrafficAssumption DEF Request
  <2>5. ~(R[Len(R)].of + 1 < T[k].of) BY <1>2, <2>3, <2>4
  <2>6. T[k].of = R[Len(R)].of + 1 BY SMTT(30), <1>1, <2>1, <2>2, <2>5
  <2> QED BY <1>4, <2>6 DEF NextOf, Complete
<1> QED BY <1>3, <1>4

\* A response to the next request is added: what is above it.
LEMMA Above_Extended ==
  ASSUME NEW R \in Seq(Unit), NEW r \in Request, NEW z \in Nat \ {0}, Sorted(R), Above(r, R),
         NEW m \in Nat
  PROVE  Above(m, R \o Units(r, z)) <=> r < m
<1>0. PICK S : S = R \o Units(r, z) OBVIOUS
<1>1. Extends(S, R, r, z) BY <1>0, Extended
<1>2. r \in Nat BY SMTT(30), TrafficAssumption DEF Request
<1>3. \A k \in DOMAIN R : R[k].of \in Nat /\ R[k].of < r BY OfNat DEF Above
<1>4. ASSUME Above(m, S) PROVE r < m
  <2>1. Len(R) + z \in DOMAIN S /\ Len(R) + z \in (Len(R) + 1)..(Len(R) + z) BY SMTT(30), <1>1 DEF Extends
  <2>2. S[Len(R) + z].of = r BY <1>1, <2>1 DEF Extends
  <2> QED BY <1>4, <2>1, <2>2 DEF Above
<1>5. ASSUME r < m, NEW k \in DOMAIN S PROVE S[k].of < m
  <2>1. CASE k \in 1..Len(R)
    <3>1. k \in DOMAIN R /\ S[k] = R[k] BY <1>1, <2>1 DEF Extends
    <3> QED BY SMTT(30), <1>2, <1>3, <1>5, <3>1
  <2>2. CASE k \in (Len(R) + 1)..(Len(R) + z) BY <1>1, <1>5, <2>2 DEF Extends
  <2>3. k \in 1..Len(R) \/ k \in (Len(R) + 1)..(Len(R) + z) BY SMTT(30), <1>1 DEF Extends
  <2> QED BY <2>1, <2>2, <2>3
<1> QED BY <1>0, <1>4, <1>5 DEF Above

\* A response to the next request is added to the responses.
LEMMA Responded ==
  ASSUME NEW R \in Seq(Unit), NEW Q \in Seq(Unit), NEW P \in Seq(Unit), NEW n \in Nat,
         NEW r \in Request, NEW z \in Nat \ {0},
         Base(R, Q, n), NextOf(R, r), Above(r, R), r <= n,
         Sorted(P), \A i \in DOMAIN P : P[i].of <= n /\ (P[i].last => r < P[i].of)
  PROVE  Base(R \o Units(r, z), P, n) /\ Complete(R \o Units(r, z))
<1>0. PICK S : S = R \o Units(r, z) OBVIOUS
<1>1. Extends(S, R, r, z) BY <1>0, Extended
<1>2. InOrder(S) BY <1>0, ExtendedInOrder DEF Base
<1>3. \A k \in DOMAIN R : R[k].of < r BY DEF Above
<1>4. Sorted(S) BY <1>0, <1>3, ExtendedSorted DEF Base
<1>5. ASSUME NEW k \in DOMAIN S PROVE S[k].of <= n
  <2>1. CASE k \in 1..Len(R) BY <1>1, <2>1 DEF Base, Extends
  <2>2. CASE k \in (Len(R) + 1)..(Len(R) + z) BY <1>1, <2>2 DEF Extends
  <2>3. k \in 1..Len(R) \/ k \in (Len(R) + 1)..(Len(R) + z) BY SMTT(30), <1>1 DEF Extends
  <2> QED BY <2>1, <2>2, <2>3
<1>6. ASSUME NEW i \in DOMAIN P, P[i].last PROVE Above(P[i].of, S)
  <2>1. P[i].of \in Nat /\ r < P[i].of BY <1>6, OfNat
  <2> QED BY <1>0, <2>1, Above_Extended DEF Base
<1>7. Base(S, P, n) BY <1>2, <1>4, <1>5, <1>6 DEF Base
<1>8. Complete(S) BY <1>1 DEF Complete, Extends
<1> QED BY <1>0, <1>7, <1>8

\* What is left of the requests when the backend has read the first k units.
Dropped(P, Q, U, T, k) ==
  /\ U \in Seq(Unit) /\ P \in Seq(Unit) /\ Sub(P, Q)
  /\ Len(T) \in Nat /\ k \in 1..Len(T) /\ Len(Q) \in Nat /\ Len(T) <= Len(Q)
  /\ DOMAIN U = 1..(Len(T) - k) /\ DOMAIN P = 1..(Len(Q) - k) /\ DOMAIN Q = 1..Len(Q)
  /\ \A i \in 1..(Len(T) - k) : U[i] = T[i + k]
  /\ \A i \in 1..(Len(Q) - k) : P[i] = Q[i + k]

\* The part after unit k is that.
LEMMA DropFirstParts ==
  ASSUME NEW a \in Seq(Unit), NEW b \in Seq(Unit), NEW c \in Seq(Unit), NEW k \in 1..Len(a)
  PROVE  Dropped(SubSeq(a, k + 1, Len(a)) \o b \o c, a \o b \o c,
                 SubSeq(a, k + 1, Len(a)), a, k)
<1> DEFINE r == SubSeq(a, k + 1, Len(a))
           q == a \o b \o c
           p == r \o b \o c
<1>1. /\ r \in Seq(Unit) /\ Len(r) = Len(a) - k
      /\ \A i \in 1..(Len(a) - k) : r[i] = a[i + k]
      /\ Sub(p, q)
      /\ Len(p) = Len(a) - k + Len(b) + Len(c)
      /\ \A i \in 1..(Len(a) - k + Len(b) + Len(c)) : p[i] = q[i + k]
  BY DropFirst
<1>2. IsCat3(q, a, b, c) BY Cat3Parts
<1>3. IsCat3(p, r, b, c)
  <2>1. r \in Seq(Unit) BY <1>1
  <2> HIDE DEF r
  <2> QED BY <2>1, Cat3Parts
<1> HIDE DEF r, q, p
<1>4. Len(q) - k = Len(a) - k + Len(b) + Len(c) /\ Len(q) \in Nat /\ Len(a) <= Len(q)
      /\ Len(a) \in Nat
  BY SMTT(30), <1>2 DEF IsCat3
<1>5. DOMAIN r = 1..(Len(a) - k) /\ DOMAIN p = 1..(Len(q) - k) /\ DOMAIN q = 1..Len(q)
  BY <1>1, <1>2, <1>3, <1>4 DEF IsCat3
<1>6. p \in Seq(Unit) BY <1>3 DEF IsCat3
<1>7. Dropped(p, q, r, a, k) BY <1>1, <1>4, <1>5, <1>6 DEF Dropped
<1> QED BY <1>7 DEF p, q, r

\* The backend answers the oldest request.
LEMMA Reply ==
  ASSUME NEW R \in Seq(Unit), NEW T \in Seq(Unit), NEW b \in Seq(Unit), NEW c \in Seq(Unit),
         NEW n \in Nat, NEW z \in Nat \ {0},
         NEW k \in DOMAIN T, T[k].last, \A j \in 1..(k - 1) : ~T[j].last,
         Base(R, T \o b \o c, n), Complete(R), Chain(R, T)
  PROVE  /\ Base(R \o Units(T[k].of, z), SubSeq(T, k + 1, Len(T)) \o b \o c, n)
         /\ Complete(R \o Units(T[k].of, z))
         /\ Chain(R \o Units(T[k].of, z), SubSeq(T, k + 1, Len(T)))
         /\ Whole(R, T \o b \o c, n)
              => Whole(R \o Units(T[k].of, z), SubSeq(T, k + 1, Len(T)) \o b \o c, n)
<1>0. PICK Q, U, P, S, r :
        /\ Q = T \o b \o c /\ U = SubSeq(T, k + 1, Len(T))
        /\ P = U \o b \o c /\ S = R \o Units(r, z) /\ r = T[k].of
  OBVIOUS
<1>1. k \in 1..Len(T) /\ DOMAIN T = 1..Len(T) /\ Len(T) \in Nat BY LenProperties
<1>2. Dropped(P, Q, U, T, k) BY <1>0, <1>1, DropFirstParts
<1>3. IsCat3(Q, T, b, c) BY <1>0, Cat3Parts
<1>4. Q \in Seq(Unit) /\ \A i \in 1..Len(T) : i \in DOMAIN Q /\ Q[i] = T[i] BY SMTT(30), <1>3 DEF IsCat3
<1>5. Base(R, Q, n) BY <1>0
<1>6. r \in Request /\ r \in Nat /\ r >= 1 BY <1>0, OfNat
<1>7. Above(r, R) /\ r <= n BY <1>0, <1>1, <1>4, <1>5 DEF Base
<1>8. NextOf(R, r) BY <1>0, <1>7, NextReply DEF Base
<1>9. Sorted(P) /\ \A i \in DOMAIN P : \E j \in DOMAIN Q : P[i] = Q[j]
  BY <1>2, <1>4, SubSorted, <1>5 DEF Base, Dropped
<1>10. ASSUME NEW i \in DOMAIN P PROVE r < P[i].of /\ P[i].of <= n
  <2>0. i \in 1..(Len(Q) - k) /\ Len(Q) \in Nat /\ Len(T) <= Len(Q) /\ DOMAIN Q = 1..Len(Q)
    BY <1>2 DEF Dropped
  <2>1. k \in DOMAIN Q /\ i + k \in DOMAIN Q /\ k < i + k /\ P[i] = Q[i + k]
    <3>1. P[i] = Q[i + k] BY <1>2, <2>0 DEF Dropped
    <3> QED BY SMTT(30), <1>1, <2>0, <3>1
  <2>2. Q[k] = T[k] BY <1>1, <1>4
  <2>3. Q[k].of < Q[i + k].of BY <1>5, <2>1, <2>2 DEF Base, Sorted
  <2> QED BY <1>0, <1>5, <2>1, <2>2, <2>3 DEF Base
<1>11. Base(S, P, n) /\ Complete(S)
  <2>1. P \in Seq(Unit) BY <1>2 DEF Dropped
  <2> QED BY <1>0, <1>4, <1>5, <1>6, <1>7, <1>8, <1>9, <1>10, <2>1, Responded
<1>12. \A m \in Nat : Above(m, S) <=> r < m BY <1>0, <1>5, <1>6, <1>7, Above_Extended DEF Base
<1>13. \A m \in Nat : Above(m, S) => Above(m, R)
  <2>1. \A i \in DOMAIN R : R[i].of \in Nat /\ R[i].of < r BY <1>7, OfNat DEF Above
  <2>2. ASSUME NEW m \in Nat, Above(m, S) PROVE Above(m, R)
    <3>1. r < m BY <1>12, <2>2
    <3>2. \A i \in DOMAIN R : R[i].of < m BY SMTT(30), <1>6, <2>1, <3>1
    <3> QED BY <3>2 DEF Above
  <2> QED BY <2>2
<1>14. ASSUME NEW i \in DOMAIN U, NEW m \in Request, m < U[i].of, Above(m, S)
       PROVE  \E j \in 1..(i - 1) : U[j].last /\ U[j].of = m
  <2>1. m \in Nat BY SMTT(30), TrafficAssumption DEF Request
  <2>2. i + k \in DOMAIN T /\ U[i] = T[i + k] /\ i \in 1..(Len(T) - k) BY SMTT(30), <1>1, <1>2 DEF Dropped
  <2>a. Above(m, R) /\ m < T[i + k].of BY <1>13, <1>14, <2>1, <2>2
  <2>3. PICK j \in 1..(i + k - 1) : T[j].last /\ T[j].of = m
    <3>1. \A q \in DOMAIN T : m < T[q].of /\ Above(m, R) =>
            \E j \in 1..(q - 1) : T[j].last /\ T[j].of = m
      BY DEF Chain
    <3> QED BY SMTT(30), <2>2, <2>a, <3>1
  <2>4. r < m /\ T[k].of = r BY <1>0, <1>12, <1>14, <2>1
  <2>5. j # k BY SMTT(30), <1>6, <2>1, <2>3, <2>4
  <2>6. ~(j \in 1..(k - 1)) BY <2>3
  <2>7. j - k \in 1..(i - 1) /\ j - k \in 1..(Len(T) - k) /\ (j - k) + k = j
    BY SMTT(30), <1>1, <2>2, <2>5, <2>6
  <2>8. U[j - k] = T[j] BY <1>2, <2>7 DEF Dropped
  <2> QED BY <2>3, <2>7, <2>8
<1>15. Chain(S, U) BY <1>14 DEF Chain
<1>16. ASSUME Whole(R, Q, n), NEW m \in 1..n, Above(m, S)
       PROVE  \E j \in Ends(P) : P[j].of = m
  <2>1. Above(m, R) /\ r < m BY SMTT(30), <1>12, <1>13, <1>16
  <2>2. PICK j \in Ends(Q) : Q[j].of = m BY <1>16, <2>1 DEF Whole
  <2>3. j \in DOMAIN Q /\ Q[j].last /\ k \in DOMAIN Q /\ Q[k].of = r
    BY <1>0, <1>1, <1>4, <2>2 DEF Ends
  <2>4. j \in Nat /\ ~(j < k) /\ j # k
    <3>1. j < k => Q[j].of <= Q[k].of BY <1>5, <2>3 DEF Base, Sorted
    <3>2. ~(m <= r) BY SMTT(30), <1>6, <2>1
    <3>3. j \in Nat BY SMTT(30), <1>2, <2>3 DEF Dropped
    <3> QED BY SMTT(30), <2>2, <2>3, <3>1, <3>2, <3>3, <1>6, <2>1
  <2>5. j - k \in DOMAIN P /\ P[j - k] = Q[j]
    <3>1. j - k \in 1..(Len(Q) - k) /\ (j - k) + k = j BY SMTT(30), <1>1, <1>2, <2>3, <2>4 DEF Dropped
    <3> QED BY <1>2, <3>1 DEF Dropped
  <2> QED BY <2>2, <2>3, <2>5 DEF Ends
<1>17. Whole(R, Q, n) => Whole(S, P, n) BY <1>16 DEF Whole
<1> QED BY <1>0, <1>11, <1>15, <1>17

\* PassThroughToServer passes on what it has read.
LEMMA Forwarded ==
  ASSUME NEW R \in Seq(Unit), NEW T \in Seq(Unit), NEW b \in Seq(Unit), NEW c \in Seq(Unit),
         NEW n \in Nat, Base(R, T \o b \o c, n), Chain(R, T), Whole(R, T \o b \o c, n)
  PROVE  Chain(R, T \o b)
<1>0. PICK Q, U : Q = T \o b \o c /\ U = T \o b OBVIOUS
<1>1. IsCat3(Q, T, b, c) /\ Base(R, Q, n) /\ Whole(R, Q, n) BY <1>0, Cat3Parts
<1>2. /\ Len(T) \in Nat /\ Len(b) \in Nat /\ DOMAIN U = 1..(Len(T) + Len(b))
      /\ \A i \in DOMAIN U : i \in DOMAIN Q /\ U[i] = Q[i]
  <2>1. U \in Seq(Unit) /\ Q = U \o c BY <1>0, CatType
  <2>2. Len(U) = Len(T) + Len(b) BY <1>0, Cat
  <2>3. \A i \in 1..(Len(U) + Len(c)) : Q[i] = IF i <= Len(U) THEN U[i] ELSE c[i - Len(U)]
    BY <2>1, Cat
  <2>4. DOMAIN U = 1..Len(U) BY <2>1, LenProperties
  <2> QED BY SMTT(30), <1>1, <2>2, <2>3, <2>4 DEF IsCat3
<1>3. ASSUME NEW k \in DOMAIN U, NEW m \in Request, m < U[k].of, Above(m, R)
      PROVE  \E j \in 1..(k - 1) : U[j].last /\ U[j].of = m
  <2>1. m \in Nat /\ m >= 1 BY SMTT(30), TrafficAssumption DEF Request
  <2>2. k \in DOMAIN Q /\ U[k] = Q[k] /\ Q[k].of <= n BY <1>1, <1>2 DEF Base
  <2>3. Q \in Seq(Unit) BY <1>1 DEF IsCat3
  <2>4. Q[k].of \in Nat BY <2>2, <2>3, OfNat
  <2>5. m \in 1..n BY SMTT(30), <1>3, <2>1, <2>2, <2>4
  <2>6. PICK j \in Ends(Q) : Q[j].of = m BY <1>1, <1>3, <2>5 DEF Whole
  <2>7. j \in DOMAIN Q /\ Q[j].last BY <2>6 DEF Ends
  <2>8. j \in Nat /\ j >= 1 /\ j < k
    <3>1. k < j => Q[k].of <= Q[j].of BY <1>1, <2>2, <2>7 DEF Base, Sorted
    <3>2. ~(Q[k].of <= m) BY SMTT(30), <1>3, <2>1, <2>2, <2>4
    <3>3. j \in Nat /\ j >= 1 /\ k \in Nat BY SMTT(30), <1>1, <2>2, <2>7 DEF IsCat3
    <3>4. j # k BY SMTT(30), <1>3, <2>1, <2>2, <2>6
    <3> QED BY SMTT(30), <2>6, <3>1, <3>2, <3>3, <3>4
  <2>9. j \in DOMAIN U /\ j \in 1..(k - 1) BY SMTT(30), <1>2, <2>8
  <2> QED BY <1>2, <2>6, <2>7, <2>9
<1>4. Chain(R, U) BY <1>3 DEF Chain
<1> QED BY <1>0, <1>4

\* The client has the end of the response before the one to r.
Due(g, r) == r = 1 \/ \E i \in DOMAIN g : g[i].last /\ g[i].of = r - 1

\* If it has, and r has no response yet, then nothing is on its way.
LEMMA DueNext ==
  ASSUME NEW g \in Seq(Unit), NEW x \in Seq(Unit), NEW r \in Request,
         Sorted(g \o x), Above(r, g \o x), Due(g, r)
  PROVE  x = <<>> /\ NextOf(g, r)
<1>0. PICK R : R = g \o x OBVIOUS
<1>1. /\ R \in Seq(Unit) /\ Len(g) \in Nat /\ Len(x) \in Nat /\ DOMAIN R = 1..(Len(g) + Len(x))
      /\ DOMAIN g = 1..Len(g) /\ \A i \in 1..Len(g) : R[i] = g[i]
  <2>1. /\ R \in Seq(Unit) /\ Len(R) = Len(g) + Len(x)
        /\ \A i \in 1..(Len(g) + Len(x)) : R[i] = IF i <= Len(g) THEN g[i] ELSE x[i - Len(g)]
    BY <1>0, Cat
  <2>2. Len(g) \in Nat /\ Len(x) \in Nat /\ DOMAIN g = 1..Len(g) /\ DOMAIN R = 1..(Len(g) + Len(x))
    BY <2>1, LenProperties
  <2> QED BY SMTT(30), <2>1, <2>2
<1>2. \A k \in DOMAIN R : R[k].of \in Nat /\ R[k].of >= 1 BY <1>1, OfNat
<1>3. r \in Nat /\ r >= 1 BY SMTT(30), TrafficAssumption DEF Request
<1>4. Sorted(R) /\ Above(r, R) BY <1>0
<1>5. Len(x) = 0 => x = <<>> BY EmptySeq
<1>6. Len(g) = 0 => g = <<>> BY EmptySeq
<1>7. CASE r = 1
  <2>0. \A k \in DOMAIN R : R[k].of < 1 BY <1>4, <1>7 DEF Above
  <2>1. ~(1 \in DOMAIN R) BY SMTT(30), <1>2, <2>0
  <2>2. Len(g) + Len(x) = 0 BY SMTT(30), <1>1, <2>1
  <2> QED BY SMTT(30), <1>1, <1>5, <1>6, <1>7, <2>2 DEF NextOf
<1>8. ASSUME NEW i \in DOMAIN g, g[i].last, g[i].of = r - 1
      PROVE  x = <<>> /\ NextOf(g, r)
  <2>1. i \in DOMAIN R /\ R[i] = g[i] BY SMTT(30), <1>1
  <2>2. ~(i < Len(g) + Len(x))
    <3>1. SUFFICES ASSUME i < Len(g) + Len(x) PROVE FALSE OBVIOUS
    <3>2. i + 1 \in DOMAIN R /\ i < i + 1 BY SMTT(30), <1>1, <3>1
    <3>3. R[i].of < R[i + 1].of BY <1>4, <1>8, <2>1, <3>2 DEF Sorted
    <3>4. R[i + 1].of < r BY <1>4, <3>2 DEF Above
    <3> QED BY SMTT(30), <1>2, <1>3, <1>8, <2>1, <3>2, <3>3, <3>4
  <2>3. i = Len(g) /\ Len(x) = 0 BY SMTT(30), <1>1, <2>2
  <2>4. g # <<>> BY SMTT(30), <1>1, <2>3
  <2>5. g[Len(g)].of \in Nat BY <1>2, <2>1, <2>3
  <2> QED BY SMTT(30), <1>3, <1>5, <1>8, <2>3, <2>4, <2>5 DEF NextOf
<1> QED BY <1>7, <1>8 DEF Due

\* A read that has no end of a request in it is dropped.
LEMMA DropNoEnd ==
  ASSUME NEW R, NEW T \in Seq(Unit), NEW b \in Seq(Unit), NEW c \in Seq(Unit), NEW n,
         Ends(b) = {}, Whole(R, T \o b \o c, n)
  PROVE  Whole(R, T \o <<>> \o c, n)
<1>0. PICK Q, P, e : Q = T \o b \o c /\ P = T \o e \o c /\ e = <<>> OBVIOUS
<1>1. e \in Seq(Unit) /\ Len(e) = 0 BY <1>0, EmptySeq
<1>2. IsCat3(Q, T, b, c) /\ IsCat3(P, T, e, c) /\ Whole(R, Q, n) BY <1>0, <1>1, Cat3Parts
<1>3. ASSUME NEW j \in Ends(Q) PROVE \E i \in Ends(P) : P[i] = Q[j]
  <2>1. j \in DOMAIN Q /\ Q[j].last BY DEF Ends
  <2>2. CASE j \in 1..Len(T)
    <3>1. j \in DOMAIN P /\ P[j] = Q[j] BY SMTT(30), <1>1, <1>2, <2>2 DEF IsCat3
    <3> QED BY <2>1, <3>1 DEF Ends
  <2>3. CASE j - Len(T) \in 1..Len(b)
    <3>1. j - Len(T) \in DOMAIN b /\ Len(T) + (j - Len(T)) = j BY SMTT(30), <1>2, <2>1, <2>3 DEF IsCat3
    <3>2. Q[j] = b[j - Len(T)]
      <4>1. Q[Len(T) + (j - Len(T))] = b[j - Len(T)] BY <1>2, <2>3 DEF IsCat3
      <4> QED BY <3>1, <4>1
    <3>3. j - Len(T) \in Ends(b) BY <2>1, <3>1, <3>2 DEF Ends
    <3> QED BY <3>3
  <2>4. CASE j - Len(T) - Len(b) \in 1..Len(c)
    <3> DEFINE i == j - Len(T) - Len(b)
    <3>1. i \in 1..Len(c) /\ Len(T) + Len(b) + i = j BY SMTT(30), <1>2, <2>1, <2>4 DEF IsCat3
    <3> HIDE DEF i
    <3>2. Q[j] = c[i]
      <4>1. Q[Len(T) + Len(b) + i] = c[i] BY <1>2, <3>1 DEF IsCat3
      <4> QED BY <3>1, <4>1
    <3>3. P[Len(T) + Len(e) + i] = c[i] /\ Len(T) + Len(e) + i \in DOMAIN P
      BY SMTT(30), <1>1, <1>2, <3>1 DEF IsCat3
    <3> QED BY <2>1, <3>2, <3>3 DEF Ends
  <2>5. \/ j \in 1..Len(T) \/ j - Len(T) \in 1..Len(b) \/ j - Len(T) - Len(b) \in 1..Len(c)
    BY SMTT(30), <1>2, <2>1 DEF IsCat3
  <2> QED BY <2>2, <2>3, <2>4, <2>5
<1>4. Whole(R, P, n) BY SMTT(30), <1>2, <1>3 DEF Whole
<1> QED BY <1>0, <1>4

\* PassThroughToServer answers the last request it has read itself.
LEMMA OwnAnswer ==
  ASSUME NEW R \in Seq(Unit), NEW T \in Seq(Unit), NEW b \in Seq(Unit), NEW c \in Seq(Unit),
         NEW n \in Nat, NEW k \in Ends(b), \A j \in Ends(b) : j <= k,
         Base(R, T \o b \o c, n), NextOf(R, b[k].of)
  PROVE  /\ Base(R \o Units(b[k].of, 1), T \o <<>> \o c, n)
         /\ Complete(R \o Units(b[k].of, 1))
         /\ Chain(R \o Units(b[k].of, 1), T)
         /\ Whole(R, T \o b \o c, n)
              => Whole(R \o Units(b[k].of, 1), T \o <<>> \o c, n)
<1>0. PICK Q, P, S, r, e :
        /\ Q = T \o b \o c /\ P = T \o e \o c /\ e = <<>>
        /\ S = R \o Units(r, 1) /\ r = b[k].of
  OBVIOUS
<1>1. e \in Seq(Unit) /\ Len(e) = 0 BY <1>0, EmptySeq
<1>2. IsCat3(Q, T, b, c) /\ IsCat3(P, T, e, c) /\ Base(R, Q, n) BY <1>0, <1>1, Cat3Parts
<1>3. Sub(P, Q) BY <1>0, DropMiddle
<1>4. Q \in Seq(Unit) /\ P \in Seq(Unit) BY <1>2 DEF IsCat3
<1>5. \A i \in DOMAIN Q : Q[i].of \in Nat /\ Q[i].of >= 1 BY <1>4, OfNat
<1>a. /\ Len(T) \in Nat /\ Len(b) \in Nat /\ Len(c) \in Nat
      /\ DOMAIN Q = 1..(Len(T) + Len(b) + Len(c)) /\ DOMAIN T = 1..Len(T)
  BY <1>2 DEF IsCat3
<1>b. DOMAIN P = 1..(Len(T) + Len(c)) BY SMTT(30), <1>1, <1>2, <1>a DEF IsCat3
<1>c. Sorted(Q) /\ Sorted(R) /\ InOrder(R) BY <1>2 DEF Base
<1>6. PICK q : /\ q = Len(T) + k /\ q \in DOMAIN Q /\ Q[q].last /\ Q[q].of = r /\ k \in 1..Len(b)
  <2>1. k \in 1..Len(b) /\ b[k].last BY <1>2 DEF Ends, IsCat3
  <2>2. Len(T) + k \in DOMAIN Q /\ Q[Len(T) + k] = b[k] BY SMTT(30), <1>2, <2>1 DEF IsCat3
  <2> QED BY <1>0, <2>1, <2>2
<1>7. r \in Nat /\ r >= 1 /\ r <= n /\ Above(r, R) /\ r \in Request
  <2>1. r \in Nat /\ r >= 1 BY <1>5, <1>6
  <2>2. r \in Request BY <1>4, <1>6, OfNat
  <2> QED BY <1>2, <1>6, <2>1, <2>2 DEF Base
<1>8. ASSUME NEW i \in DOMAIN Q, Q[i].last, i # q PROVE q < i /\ r < Q[i].of
  <2>1. i \in Nat /\ q \in Nat BY SMTT(30), <1>6, <1>a
  <2>2. ~(i < q)
    <3>1. SUFFICES ASSUME i < q PROVE FALSE OBVIOUS
    <3>2. Q[i].of < r BY <1>6, <1>8, <1>c, <3>1 DEF Sorted
    <3>3. Above(Q[i].of, R) BY <1>2, <1>8 DEF Base
    <3>4. CASE R = <<>> /\ r = 1 BY SMTT(30), <1>5, <3>2, <3>4
    <3>5. CASE R # <<>> /\ r = R[Len(R)].of + 1
      <4>1. Len(R) \in DOMAIN R /\ R[Len(R)].of \in Nat BY <1>2, <3>5, AboveLast DEF Base
      <4>2. R[Len(R)].of < Q[i].of BY <3>3, <4>1 DEF Above
      <4> QED BY SMTT(30), <1>5, <3>2, <3>5, <4>1, <4>2
    <3> QED BY <1>0, <3>4, <3>5 DEF NextOf
  <2>3. q < i BY SMTT(30), <1>8, <2>1, <2>2
  <2>4. r < Q[i].of BY <1>6, <1>c, <2>3 DEF Sorted
  <2> QED BY <2>3, <2>4
<1>9. \A i \in 1..Len(T) : i \in DOMAIN P /\ i \in DOMAIN Q /\ P[i] = Q[i] /\ T[i] = Q[i] /\ i < q
  <2>1. ASSUME NEW i \in 1..Len(T)
        PROVE  i \in DOMAIN P /\ i \in DOMAIN Q /\ P[i] = Q[i] /\ T[i] = Q[i] /\ i < q
    <3>1. P[i] = T[i] /\ Q[i] = T[i] BY <1>2 DEF IsCat3
    <3>2. i \in DOMAIN P /\ i \in DOMAIN Q BY SMTT(30), <1>a, <1>b
    <3>3. i < q BY SMTT(30), <1>6, <1>a
    <3> QED BY <3>1, <3>2, <3>3
  <2> QED BY <2>1
<1>10. \A i \in 1..Len(c) : /\ Len(T) + i \in DOMAIN P /\ Len(T) + Len(b) + i \in DOMAIN Q
                           /\ P[Len(T) + i] = Q[Len(T) + Len(b) + i]
                           /\ q < Len(T) + Len(b) + i
  <2>1. \A i \in 1..Len(c) : P[Len(T) + Len(e) + i] = c[i] BY <1>2 DEF IsCat3
  <2>2. Len(T) \in Nat /\ \A i \in 1..Len(c) : Len(T) + Len(e) + i = Len(T) + i
    BY SMTT(30), <1>1, <1>a
  <2>3. \A i \in 1..Len(c) : Q[Len(T) + Len(b) + i] = c[i] BY <1>2 DEF IsCat3
  <2>4. \A i \in 1..Len(c) : /\ Len(T) + i \in DOMAIN P /\ Len(T) + Len(b) + i \in DOMAIN Q
                             /\ q < Len(T) + Len(b) + i
    BY SMTT(30), <1>6, <1>a, <1>b
  <2> QED BY <2>1, <2>2, <2>3, <2>4
<1>11. \A i \in DOMAIN P : i \in 1..Len(T) \/ \E j \in 1..Len(c) : i = Len(T) + j
  <2>1. ASSUME NEW i \in DOMAIN P, ~(i \in 1..Len(T)) PROVE \E j \in 1..Len(c) : i = Len(T) + j
    <3>1. i - Len(T) \in 1..Len(c) /\ i = Len(T) + (i - Len(T)) BY SMTT(30), <1>a, <1>b, <2>1
    <3> QED BY <3>1
  <2> QED BY <2>1
<1>12. Sorted(P) BY <1>3, <1>4, <1>c, SubSorted
<1>13. ASSUME NEW i \in DOMAIN P PROVE P[i].of <= n /\ (P[i].last => r < P[i].of)
  <2>1. CASE i \in 1..Len(T)
    <3>1. i \in DOMAIN Q /\ P[i] = Q[i] /\ i < q BY <1>9, <2>1
    <3>2. i \in Nat /\ q \in Nat BY SMTT(30), <1>6, <1>a, <3>1
    <3>3. ~Q[i].last
      <4>1. i # q /\ ~(q < i) BY SMTT(30), <3>1, <3>2
      <4> QED BY <1>8, <3>1, <4>1
    <3> QED BY <1>2, <3>1, <3>3 DEF Base
  <2>2. ASSUME NEW j \in 1..Len(c), i = Len(T) + j PROVE P[i].of <= n /\ (P[i].last => r < P[i].of)
    <3>1. PICK x \in DOMAIN Q : P[i] = Q[x] /\ q < x BY <1>10, <2>2
    <3>2. x # q BY SMTT(30), <1>6, <1>a, <3>1
    <3> QED BY <1>2, <1>8, <3>1, <3>2 DEF Base
  <2> QED BY <1>11, <2>1, <2>2
<1>14. Base(S, P, n) /\ Complete(S)
  <2>1. 1 \in Nat \ {0} BY SMTT(30)
  <2>2. NextOf(R, r) BY <1>0
  <2> QED BY <1>0, <1>2, <1>4, <1>7, <1>12, <1>13, <2>1, <2>2, Responded
<1>15. \A m \in Nat : Above(m, S) <=> r < m BY SMTT(30), <1>0, <1>7, <1>c, Above_Extended
<1>16. Chain(S, T)
  <2>1. ASSUME NEW i \in DOMAIN T, NEW m \in Request, m < T[i].of PROVE ~Above(m, S)
    <3>1. i \in 1..Len(T) BY <1>a
    <3>2. i \in DOMAIN Q /\ T[i] = Q[i] /\ i < q BY <1>9, <3>1
    <3>3. Q[i].of <= r BY <1>6, <1>c, <3>2 DEF Sorted
    <3>4. m \in Nat BY SMTT(30), TrafficAssumption DEF Request
    <3>5. ~(r < m) BY SMTT(30), <1>5, <1>7, <2>1, <3>2, <3>3, <3>4
    <3> QED BY <1>15, <3>4, <3>5
  <2> QED BY <2>1 DEF Chain
<1>17. ASSUME Whole(R, Q, n), NEW m \in 1..n, Above(m, S)
       PROVE  \E j \in Ends(P) : P[j].of = m
  <2>1. r < m BY SMTT(30), <1>15, <1>17
  <2>2. Above(m, R)
    <3>1. \A i \in DOMAIN R : R[i].of \in Nat /\ R[i].of < r BY <1>7, OfNat DEF Above
    <3> QED BY SMTT(30), <1>7, <2>1, <3>1 DEF Above
  <2>3. PICK j \in Ends(Q) : Q[j].of = m BY <1>17, <2>2 DEF Whole
  <2>4. j \in DOMAIN Q /\ Q[j].last /\ j # q
    <3>1. Q[q].of # m BY SMTT(30), <1>6, <1>7, <2>1
    <3> QED BY <2>3, <3>1 DEF Ends
  <2>5. q < j BY <1>8, <2>4
  <2>6. ~(j - Len(T) \in 1..Len(b))
    <3>1. SUFFICES ASSUME j - Len(T) \in 1..Len(b) PROVE FALSE OBVIOUS
    <3> DEFINE i == j - Len(T)
    <3>2. i \in 1..Len(b) /\ Len(T) + i = j /\ k < i
      BY SMTT(30), <1>6, <1>a, <2>4, <2>5, <3>1
    <3> HIDE DEF i
    <3>3. Q[j] = b[i] /\ i \in DOMAIN b
      <4>1. Q[Len(T) + i] = b[i] /\ i \in DOMAIN b BY <1>2, <3>2 DEF IsCat3
      <4> QED BY <3>2, <4>1
    <3>4. i \in Ends(b) BY <2>4, <3>3 DEF Ends
    <3>5. i <= k /\ i \in Nat /\ k \in Nat BY SMTT(30), <1>6, <1>a, <3>2, <3>4
    <3> QED BY SMTT(30), <3>2, <3>5
  <2>7. j - Len(T) - Len(b) \in 1..Len(c) /\ j = Len(T) + Len(b) + (j - Len(T) - Len(b))
    <3>1. /\ Len(T) \in Nat /\ Len(b) \in Nat /\ Len(c) \in Nat /\ k \in 1..Len(b)
          /\ j \in 1..(Len(T) + Len(b) + Len(c)) /\ Len(T) + k < j
      BY <1>6, <1>a, <2>4, <2>5
    <3> QED BY SMTT(30), <2>6, <3>1
  <2>8. PICK i \in 1..Len(c) : j = Len(T) + Len(b) + i BY <2>7
  <2>9. Len(T) + i \in DOMAIN P /\ P[Len(T) + i] = Q[j] BY <1>10, <2>8
  <2> QED BY <2>3, <2>4, <2>9 DEF Ends
<1>18. Whole(R, Q, n) => Whole(S, P, n) BY <1>17 DEF Whole
<1> QED BY <1>0, <1>14, <1>16, <1>18
=============================================================================
