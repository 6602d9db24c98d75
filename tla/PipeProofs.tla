---------------------------- MODULE PipeProofs ----------------------------
(***************************************************************************)
(* A connection (Conn) implements the pipe of Pipe, for any calls of its   *)
(* users, any number of failures and frames of any lengths: whatever the   *)
(* network does it invents no frame and confirms those that arrived, and   *)
(* as long as no datagram overtakes another it keeps their order, although *)
(* the reader may fill a frame with bytes of several others.               *)
(***************************************************************************)
EXTENDS ConnProofs

-----------------------------------------------------------------------------
(* What is under way to one end, as an invariant beside those of           *)
(* ConnProofs.  It is stated of values, so that its lemmas are about       *)
(* sequences: q is the inbox, s the frames seen, g the bytes returned, b   *)
(* the chunk left over, t the last number the peer has taken and l the     *)
(* last frame returned.                                                    *)

Numbered == {"DATAGRAM", "payload"}
FrameOf(d) == IF d.kind = "payload" THEN d.n ELSE 0

\* l is the number of the last byte of g that is of a frame.
LastIn(g, l) ==
    \/ l = 0 /\ \A i \in DOMAIN g : g[i][1] = 0
    \/ \E i \in DOMAIN g : /\ g[i][1] = l /\ l > 0
                           /\ \A j \in DOMAIN g : g[j][1] > 0 => j <= i

\* Nobody has bytes of a frame that was not sent.
Within(b, t) == \A i \in 1 .. Len(b) : b[i][1] \in 0 .. t
Known(g, b, t, l) == LastIn(g, l) /\ l \in 0 .. t /\ Within(b, t)

Sorted(q) ==
    \A i, j \in 1 .. Len(q) :
        i < j /\ q[i].kind = q[j].kind /\ q[i].kind \in Numbered => q[i].n <= q[j].n
Rising(b) ==
    \A i, j \in 1 .. Len(b) : i < j /\ b[i][1] > 0 /\ b[j][1] > 0 => b[i][1] <= b[j][1]

\* What the user has, and will have, is not newer than what is still to come.
Order(q, s, b, l) ==
    /\ Sorted(q) /\ Rising(b) /\ \A i \in 1 .. Len(b) : b[i][1] = 0 \/ l <= b[i][1]
    /\ \A i \in 1 .. Len(q) :
        /\ q[i].kind = "DATAGRAM" => \A k \in s : k <= q[i].n
        /\ q[i].kind = "payload" => l <= q[i].n /\ \A j \in 1 .. Len(b) : b[j][1] <= q[i].n

\* A datagram with a number carries the newest one: it goes to the end.
LEMMA OrderSent ==
    ASSUME NEW q \in Seq(Datagrams), NEW t \in Nat, NEW s \in SUBSET (1 .. t), NEW b,
           NEW l \in 0 .. t, Within(b, t), Order(q, s, b, l),
           \A i \in 1 .. Len(q) : q[i].kind \in Numbered => q[i].n \in 1 .. t,
           NEW d \in Datagrams, NEW k \in {1, 2}, d.kind \in Numbered => d.n = t
    PROVE  Order(q \o [i \in 1 .. k |-> d], s, b, l)
<1> DEFINE new == [i \in 1 .. k |-> d]
           r == q \o new
<1>1. new \in Seq(Datagrams) /\ Len(new) = k /\ k \in Nat /\ \A i \in 1 .. k : new[i] = d
    OBVIOUS
<1>2. r \in Seq(Datagrams) /\ Len(r) = Len(q) + k /\ Len(q) \in Nat
      /\ \A i \in 1 .. Len(q) + k : r[i] = IF i <= Len(q) THEN q[i] ELSE new[i - Len(q)]
    BY <1>1
<1>3. /\ \A i \in 1 .. Len(r) : i \in 1 .. Len(q) \/ i \in Len(q) + 1 .. Len(q) + k
      /\ \A i \in 1 .. Len(q) : r[i] = q[i]
      /\ \A i \in Len(q) + 1 .. Len(q) + k : r[i] = d
  <2>1. \A i \in 1 .. Len(q) : i \in 1 .. Len(q) + k /\ i <= Len(q)
      BY <1>1, <1>2
  <2>2. \A i \in Len(q) + 1 .. Len(q) + k :
            i \in 1 .. Len(q) + k /\ ~(i <= Len(q)) /\ i - Len(q) \in 1 .. k
      BY <1>1, <1>2
  <2>3. \A i \in 1 .. Len(r) : i \in 1 .. Len(q) \/ i \in Len(q) + 1 .. Len(q) + k
      BY <1>1, <1>2
  <2> HIDE DEF new, r
  <2>4. \A i \in 1 .. Len(q) : r[i] = q[i]
      BY <1>2, <2>1
  <2>5. \A i \in Len(q) + 1 .. Len(q) + k : r[i] = d
      BY <1>1, <1>2, <2>2
  <2> QED BY <2>3, <2>4, <2>5
<1> HIDE DEF new, r
<1>4. Sorted(r)
  <2> SUFFICES ASSUME NEW i \in 1 .. Len(r), NEW j \in 1 .. Len(r), i < j,
                      r[i].kind = r[j].kind, r[i].kind \in Numbered
               PROVE  r[i].n <= r[j].n
      BY DEF Sorted
  <2>1. CASE i \in 1 .. Len(q) /\ j \in 1 .. Len(q)
      BY <1>3, <2>1 DEF Order, Sorted
  <2>2. CASE i \in 1 .. Len(q) /\ j \in Len(q) + 1 .. Len(q) + k
      BY <1>3, <2>2
  <2>3. CASE i \in Len(q) + 1 .. Len(q) + k
    <3>1. j \in Len(q) + 1 .. Len(q) + k
        BY <1>1, <1>2, <2>3
    <3> QED BY <1>3, <2>3, <3>1 DEF Datagrams
  <2> QED BY <1>3, <2>1, <2>2, <2>3
<1>5. ASSUME NEW i \in 1 .. Len(r)
      PROVE  /\ r[i].kind = "DATAGRAM" => \A m \in s : m <= r[i].n
             /\ r[i].kind = "payload" => l <= r[i].n /\ \A j \in 1 .. Len(b) : b[j][1] <= r[i].n
  <2>1. CASE i \in 1 .. Len(q)
      BY <1>3, <2>1 DEF Order
  <2>2. CASE i \in Len(q) + 1 .. Len(q) + k
    <3>1. r[i] = d
        BY <1>3, <2>2
    <3> QED BY <3>1 DEF Numbered, Within
  <2> QED BY <1>3, <2>1, <2>2
<1> QED BY <1>4, <1>5 DEF Order, r, new

\* Datagrams are taken out at the head.
LEMMA OrderDropped ==
    ASSUME NEW q \in Seq(Datagrams), NEW s, NEW b, NEW l, Order(q, s, b, l), NEW k \in 0 .. Len(q)
    PROVE  Order(SubSeq(q, k + 1, Len(q)), s, b, l)
<1> DEFINE r == SubSeq(q, k + 1, Len(q))
<1>1. r \in Seq(Datagrams) /\ Len(r) = Len(q) - k /\ Len(q) \in Nat
      /\ \A i \in 1 .. Len(q) - k : r[i] = q[k + i] /\ k + i \in 1 .. Len(q)
    BY SuffixFacts
<1> HIDE DEF r
<1>2. Sorted(r)
  <2>1. \A i, j \in 1 .. Len(r) : i < j => k + i < k + j
      BY <1>1
  <2> QED BY <1>1, <2>1 DEF Order, Sorted
<1> QED BY <1>1, <1>2 DEF Order, r

\* A header is parsed: it is newer than those before it, or one of them again.
LEMMA OrderParsed ==
    ASSUME NEW q \in Seq(Datagrams), q # <<>>, NEW s, NEW b, NEW l, Order(q, s, b, l),
           q[1].kind = "DATAGRAM"
    PROVE  /\ Order(SubSeq(q, 2, Len(q)), s \cup {q[1].n}, b, l)
           /\ \A k \in s : k <= q[1].n
<1> DEFINE r == SubSeq(q, 1 + 1, Len(q))
<1>1. Len(q) \in Nat /\ 1 \in 0 .. Len(q) /\ 1 \in 1 .. Len(q)
    OBVIOUS
<1>2. r \in Seq(Datagrams) /\ Len(r) = Len(q) - 1
      /\ \A i \in 1 .. Len(q) - 1 : r[i] = q[1 + i] /\ 1 + i \in 1 .. Len(q)
    BY <1>1, SuffixFacts
<1>3. Order(r, s, b, l)
    BY <1>1, OrderDropped
<1>4. \A k \in s : k <= q[1].n
    BY <1>1 DEF Order
<1> HIDE DEF r
<1>5. ASSUME NEW i \in 1 .. Len(r), r[i].kind = "DATAGRAM" PROVE q[1].n <= r[i].n
  <2>1. r[i] = q[1 + i] /\ 1 + i \in 1 .. Len(q) /\ 1 < 1 + i
      BY <1>1, <1>2
  <2> QED BY <1>1, <1>5, <2>1 DEF Order, Sorted, Numbered
<1>6. Order(r, s \cup {q[1].n}, b, l)
    BY <1>3, <1>5 DEF Order
<1> QED BY <1>4, <1>6 DEF r

-----------------------------------------------------------------------------
(* The last frame of what Read has returned.                               *)

LEMMA LastIndex ==
    ASSUME NEW n \in Nat, NEW S \in SUBSET (1 .. n), S # {}
    PROVE  \E i \in S : \A j \in S : j <= i
<1> DEFINE C == {n - i : i \in S}
<1>1. C \subseteq Nat /\ C # {} /\ (\A j \in S : n - j \in C)
      /\ \A c \in C : \E i \in S : c = n - i
  <2>1. \A i \in S : i \in 1 .. n /\ n - i \in Nat
      OBVIOUS
  <2>2. PICK i \in S : TRUE
      OBVIOUS
  <2>3. C \subseteq Nat
      BY <2>1
  <2>4. (\A j \in S : n - j \in C) /\ \A c \in C : \E j \in S : c = n - j
      OBVIOUS
  <2> QED BY <2>2, <2>3, <2>4
<1> HIDE DEF C
<1>2. PICK c \in C : \A x \in C : <<x, c>> \notin OpToRel(<, Nat)
    BY <1>1, NatLessThanWellFounded, WFMin
<1>3. \A x \in C : ~(x < c)
    BY <1>1, <1>2 DEF OpToRel
<1>4. PICK i \in S : c = n - i
    BY <1>1
<1>5. ASSUME NEW j \in S PROVE j <= i
  <2>1. ~(n - j < n - i) /\ j \in 1 .. n /\ i \in 1 .. n
      BY <1>1, <1>3, <1>4
  <2> QED BY <2>1
<1> QED BY <1>5

LEMMA LastAppend ==
    ASSUME NEW g \in Seq(Bytes), NEW u \in Seq(Bytes), NEW l \in Nat, LastIn(g, l)
    PROVE  \E m : /\ LastIn(g \o u, m)
                  /\ m = l \/ \E i \in 1 .. Len(u) : m = u[i][1] /\ m > 0
<1> DEFINE h == g \o u
           k == Len(g)
           m == Len(u)
           S == {i \in 1 .. m : u[i][1] > 0}
<1>1. h \in Seq(Bytes) /\ Len(h) = k + m /\ k \in Nat /\ m \in Nat
      /\ DOMAIN h = 1 .. k + m /\ DOMAIN g = 1 .. k
      /\ (\A i \in 1 .. m : u[i][1] \in Nat)
      /\ \A i \in 1 .. k + m : h[i] = IF i <= k THEN g[i] ELSE u[i - k]
    BY DEF Bytes
<1> HIDE DEF h, k, m
<1>2. /\ \A i \in 1 .. k : i \in 1 .. k + m /\ h[i] = g[i]
      /\ \A i \in 1 .. m : k + i \in 1 .. k + m /\ h[k + i] = u[i]
      /\ \A i \in 1 .. k + m : i \in 1 .. k \/ (i - k \in 1 .. m /\ h[i] = u[i - k])
  <2>1. \A i \in 1 .. k : i \in 1 .. k + m /\ i <= k
      BY <1>1
  <2>2. \A i \in 1 .. m : k + i \in 1 .. k + m /\ ~(k + i <= k) /\ k + i - k = i
      BY <1>1
  <2>3. \A i \in 1 .. k + m : i \in 1 .. k \/ (i - k \in 1 .. m /\ ~(i <= k))
      BY <1>1
  <2> QED BY <1>1, <2>1, <2>2, <2>3
<1>3. CASE S = {}
  <2>1. \A i \in 1 .. m : u[i][1] = 0
      BY <1>1, <1>3
  <2>2. LastIn(h, l)
    <3>1. CASE l = 0 /\ \A i \in DOMAIN g : g[i][1] = 0
      <4>1. \A i \in DOMAIN h : h[i][1] = 0
          BY <1>1, <1>2, <2>1, <3>1
      <4> QED BY <3>1, <4>1 DEF LastIn
    <3>2. ASSUME NEW i \in DOMAIN g, g[i][1] = l, l > 0,
                 \A j \in DOMAIN g : g[j][1] > 0 => j <= i
          PROVE  LastIn(h, l)
      <4>1. i \in DOMAIN h /\ h[i][1] = l
          BY <1>1, <1>2, <3>2
      <4>2. ASSUME NEW j \in DOMAIN h, h[j][1] > 0 PROVE j <= i
          BY <1>1, <1>2, <2>1, <3>2, <4>2
      <4> QED BY <3>2, <4>1, <4>2 DEF LastIn
    <3> QED BY <3>1, <3>2 DEF LastIn
  <2> QED BY <2>2 DEF h
<1>4. CASE S # {}
  <2>1. PICK i \in S : \A j \in S : j <= i
      BY <1>1, <1>4, LastIndex
  <2>2. i \in 1 .. m /\ u[i][1] > 0
      BY <2>1
  <2>3. k + i \in DOMAIN h /\ h[k + i][1] = u[i][1]
      BY <1>1, <1>2, <2>2
  <2>4. ASSUME NEW j \in DOMAIN h, h[j][1] > 0 PROVE j <= k + i
    <3>1. CASE j \in 1 .. k
        BY <1>1, <2>2, <3>1
    <3>2. CASE j - k \in 1 .. m /\ h[j] = u[j - k]
      <4>1. j - k \in S
          BY <2>4, <3>2
      <4>2. j - k <= i /\ j \in Int
          BY <1>1, <2>1, <4>1
      <4> QED BY <1>1, <2>2, <4>2
    <3> QED BY <1>1, <1>2, <3>1, <3>2
  <2>5. LastIn(h, u[i][1])
      BY <2>2, <2>3, <2>4 DEF LastIn
  <2> QED BY <2>2, <2>5 DEF h, m
<1> QED BY <1>3, <1>4

LEMMA KnownAppend ==
    ASSUME NEW g \in Seq(Bytes), NEW u \in Seq(Bytes), NEW t \in Nat, NEW l, NEW b, NEW c,
           Known(g, b, t, l), Within(u, t), Within(c, t)
    PROVE  \E m : /\ Known(g \o u, c, t, m)
                  /\ m = l \/ (m \in 1 .. t /\ \E i \in 1 .. Len(u) : m = u[i][1])
<1>1. l \in Nat /\ LastIn(g, l) /\ l \in 0 .. t
    BY DEF Known
<1>2. PICK m : /\ LastIn(g \o u, m)
               /\ m = l \/ \E i \in 1 .. Len(u) : m = u[i][1] /\ m > 0
    BY <1>1, LastAppend
<1>3. m = l \/ (m \in 1 .. t /\ \E i \in 1 .. Len(u) : m = u[i][1])
    BY <1>2 DEF Within
<1> QED BY <1>1, <1>2, <1>3 DEF Known

-----------------------------------------------------------------------------
(* A Read that is answered from the chunk.                                 *)

LEMMA CopiedFacts ==
    ASSUME NEW b \in Seq(Bytes), NEW size \in Nat, size > 0
    PROVE  /\ Copied(b, size) \in Seq(Bytes) /\ Kept(b, size) \in Seq(Bytes)
           /\ \A i \in 1 .. Len(Copied(b, size)) : i \in 1 .. Len(b) /\ Copied(b, size)[i] = b[i]
           /\ \E c \in Nat : \A i \in 1 .. Len(Kept(b, size)) :
                /\ c + i \in 1 .. Len(b) /\ Kept(b, size)[i] = b[c + i]
                /\ \A h \in 1 .. Len(Copied(b, size)) : h <= c + i
<1>1. CASE size >= Len(b)
  <2>1. Copied(b, size) = b /\ Kept(b, size) = <<>>
      BY <1>1 DEF Copied, Kept
  <2>2. <<>> \in Seq(Bytes) /\ \A i \in 1 .. Len(<<>>) : FALSE
      OBVIOUS
  <2> QED BY <2>1, <2>2
<1>2. CASE ~(size >= Len(b))
  <2> DEFINE u == SubSeq(b, 1, size)
             r == SubSeq(b, size, Len(b))
             c == size - 1
  <2>1. u = Copied(b, size) /\ r = Kept(b, size) /\ size < Len(b) /\ Len(b) \in Nat /\ c \in Nat
      BY <1>2 DEF Copied, Kept
  <2>2. u \in Seq(Bytes) /\ Len(u) = size /\ \A i \in 1 .. size : u[i] = b[i]
      BY <2>1
  <2>3. c \in 0 .. Len(b) /\ c + 1 = size
      BY <2>1
  <2>4. r \in Seq(Bytes) /\ Len(r) = Len(b) - c
        /\ \A i \in 1 .. Len(b) - c : r[i] = b[c + i] /\ c + i \in 1 .. Len(b)
    <3> HIDE DEF c
    <3>1. r = SubSeq(b, c + 1, Len(b))
        BY <2>3
    <3> QED BY <2>3, <3>1, SuffixFacts
  <2> HIDE DEF u, r
  <2>5. \A i \in 1 .. Len(r) : /\ c + i \in 1 .. Len(b) /\ r[i] = b[c + i]
                               /\ \A h \in 1 .. Len(u) : h <= c + i
    <3>1. ASSUME NEW i \in 1 .. Len(r), NEW h \in 1 .. Len(u)
          PROVE  h <= c + i
        BY <2>1, <2>2, <2>4
    <3> QED BY <2>4, <3>1
  <2>6. \A i \in 1 .. Len(u) : i \in 1 .. Len(b) /\ u[i] = b[i]
      BY <2>1, <2>2
  <2> QED BY <2>1, <2>2, <2>4, <2>5, <2>6
<1> QED BY <1>1, <1>2

LEMMA OrderCopied ==
    ASSUME NEW q, NEW s, NEW b \in Seq(Bytes), NEW l \in Nat, NEW size \in Nat, size > 0,
           Order(q, s, b, l), NEW m \in Nat,
           m = l \/ (m > 0 /\ \E i \in 1 .. Len(Copied(b, size)) : m = Copied(b, size)[i][1])
    PROVE  Order(q, s, Kept(b, size), m) /\ l <= m
<1> DEFINE u == Copied(b, size)
           r == Kept(b, size)
<1>1. /\ r \in Seq(Bytes) /\ \A i \in 1 .. Len(u) : i \in 1 .. Len(b) /\ u[i] = b[i]
      /\ \A i \in 1 .. Len(b) : b[i][1] \in Nat
    BY CopiedFacts DEF Bytes
<1>2. PICK c \in Nat : \A i \in 1 .. Len(r) :
        c + i \in 1 .. Len(b) /\ r[i] = b[c + i] /\ \A h \in 1 .. Len(u) : h <= c + i
    BY CopiedFacts
<1>3. m = l \/ (m > 0 /\ \E i \in 1 .. Len(u) : m = u[i][1])
    OBVIOUS
<1> HIDE DEF u, r
<1>4. m = l \/ (m > 0 /\ \E h \in 1 .. Len(b) : /\ m = b[h][1]
                                               /\ \A i \in 1 .. Len(r) : h <= c + i)
    BY <1>1, <1>2, <1>3
<1>5. l <= m
    BY <1>4 DEF Order
<1>6. Rising(r)
  <2>1. \A i, j \in 1 .. Len(r) : i < j => c + i < c + j
      BY <1>1
  <2> QED BY <1>2, <2>1 DEF Order, Rising
<1>7. ASSUME NEW i \in 1 .. Len(r), r[i][1] # 0 PROVE m <= r[i][1]
  <2>1. r[i] = b[c + i] /\ c + i \in 1 .. Len(b) /\ b[c + i][1] > 0 /\ b[c + i][1] \in Nat
    <3>1. r[i] = b[c + i] /\ c + i \in 1 .. Len(b) /\ b[c + i][1] \in Nat
        BY <1>1, <1>2
    <3> QED BY <1>7, <3>1
  <2>2. CASE m = l
      BY <2>1, <2>2 DEF Order
  <2>3. ASSUME NEW h \in 1 .. Len(b), m = b[h][1], h <= c + i, m > 0 PROVE m <= b[c + i][1]
    <3>1. h = c + i \/ h < c + i
        BY <2>1, <2>3
    <3> QED BY <1>1, <2>1, <2>3, <3>1 DEF Order, Rising
  <2> QED BY <1>4, <2>1, <2>2, <2>3
<1>8. ASSUME NEW i \in 1 .. Len(q), q[i].kind = "payload"
      PROVE  m <= q[i].n /\ \A j \in 1 .. Len(r) : r[j][1] <= q[i].n
    BY <1>2, <1>4, <1>8 DEF Order
<1> QED BY <1>5, <1>6, <1>7, <1>8 DEF Order, r

-----------------------------------------------------------------------------
(* A Read that is answered from the socket: what it returns is of the      *)
(* first datagram, what it keeps of that one and of later ones.            *)

\* The bytes of b come from the first j datagrams of q, in their order.
Gathered(q, j, b) ==
    \E src \in [1 .. Len(b) -> 1 .. j] :
        /\ \A p \in 1 .. Len(b) : b[p][1] = FrameOf(q[src[p]])
        /\ \A p, r \in 1 .. Len(b) : p < r => src[p] <= src[r]

LEMMA OrderFresh ==
    ASSUME NEW q \in Seq(Datagrams), NEW j \in 1 .. Len(q), NEW s, NEW l \in Nat,
           Order(q, s, <<>>, l), NEW m \in Nat, m = l \/ (m > 0 /\ m = FrameOf(q[1])),
           NEW b \in Seq(Bytes), Gathered(q, j, b)
    PROVE  Order(SubSeq(q, j + 1, Len(q)), s, b, m) /\ l <= m
<1> DEFINE rest == SubSeq(q, j + 1, Len(q))
<1> PICK src \in [1 .. Len(b) -> 1 .. j] :
        /\ \A p \in 1 .. Len(b) : b[p][1] = FrameOf(q[src[p]])
        /\ \A p, r \in 1 .. Len(b) : p < r => src[p] <= src[r]
    BY DEF Gathered
<1>1. /\ j \in 0 .. Len(q) /\ 1 \in 1 .. Len(q) /\ Len(q) \in Nat
      /\ \A i \in 1 .. Len(q) : q[i] \in Datagrams /\ q[i].n \in Nat
  <2>1. \A i \in 1 .. Len(q) : q[i] \in Datagrams
      OBVIOUS
  <2>2. \A d \in Datagrams : d.n \in Nat
      BY DEF Datagrams
  <2>3. j \in 0 .. Len(q) /\ 1 \in 1 .. Len(q) /\ Len(q) \in Nat
      OBVIOUS
  <2> QED BY <2>1, <2>2, <2>3
<1>2. /\ rest \in Seq(Datagrams) /\ Len(rest) = Len(q) - j
      /\ \A i \in 1 .. Len(q) - j : rest[i] = q[j + i] /\ j + i \in 1 .. Len(q)
    BY <1>1, SuffixFacts
<1>3. Order(rest, s, <<>>, l)
    BY <1>1, OrderDropped
<1> HIDE DEF rest
<1>4. \A i \in 1 .. Len(rest) : rest[i] = q[j + i] /\ j + i \in 1 .. Len(q)
    BY <1>2
<1>5. \A i, h \in 1 .. Len(q) : i <= h /\ q[i].kind = "payload" /\ q[h].kind = "payload"
        => q[i].n <= q[h].n
  <2>1. \A i, h \in 1 .. Len(q) : i <= h => i = h \/ i < h
      OBVIOUS
  <2> QED BY <1>1, <2>1 DEF Order, Sorted, Numbered
<1>6. m = l \/ (m > 0 /\ q[1].kind = "payload" /\ m = q[1].n)
    BY DEF FrameOf
<1>7. \A i \in 1 .. Len(q) : q[i].kind = "payload" => l <= q[i].n /\ m <= q[i].n
  <2>1. \A i \in 1 .. Len(q) : 1 <= i
      OBVIOUS
  <2> QED BY <1>1, <1>5, <1>6, <2>1 DEF Order
<1>8. l <= m
    BY <1>1, <1>6, <1>7
<1>9. \A p \in 1 .. Len(b) :
        /\ src[p] \in 1 .. Len(q) /\ src[p] \in 1 .. j
        /\ b[p][1] # 0 => q[src[p]].kind = "payload" /\ b[p][1] = q[src[p]].n
  <2>1. \A p \in 1 .. Len(b) : src[p] \in 1 .. j
      OBVIOUS
  <2>2. \A i \in 1 .. j : i \in 1 .. Len(q)
      BY <1>1
  <2> QED BY <2>1, <2>2 DEF FrameOf
<1>10. Rising(b)
  <2> SUFFICES ASSUME NEW p \in 1 .. Len(b), NEW r \in 1 .. Len(b), p < r,
                      b[p][1] > 0, b[r][1] > 0
               PROVE  b[p][1] <= b[r][1]
      BY DEF Rising
  <2>1. src[p] <= src[r] /\ b[p][1] # 0 /\ b[r][1] # 0
      OBVIOUS
  <2> QED BY <1>5, <1>9, <2>1
<1>11. \A p \in 1 .. Len(b) : b[p][1] = 0 \/ m <= b[p][1]
    BY <1>7, <1>9
<1>12. ASSUME NEW i \in 1 .. Len(rest), rest[i].kind = "payload"
       PROVE  m <= rest[i].n /\ \A p \in 1 .. Len(b) : b[p][1] <= rest[i].n
  <2>1. rest[i] = q[j + i] /\ j + i \in 1 .. Len(q) /\ q[j + i].n \in Nat
      BY <1>1, <1>4
  <2>2. ASSUME NEW p \in 1 .. Len(b) PROVE b[p][1] <= q[j + i].n
    <3>1. src[p] <= j + i
        BY <1>9, <2>1
    <3>2. CASE b[p][1] = 0
        BY <2>1, <3>2
    <3>3. CASE b[p][1] # 0
        BY <1>5, <1>9, <1>12, <2>1, <3>1, <3>3
    <3> QED BY <3>2, <3>3
  <2> QED BY <1>7, <1>12, <2>1, <2>2
<1>13. Sorted(rest) /\ \A i \in 1 .. Len(rest) :
          rest[i].kind = "DATAGRAM" => \A k \in s : k <= rest[i].n
    BY <1>3 DEF Order
<1> QED BY <1>8, <1>10, <1>11, <1>12, <1>13 DEF Order, rest

LEMMA FirstFrames ==
    ASSUME NEW d \in Datagrams, NEW k \in Nat
    PROVE  First(d, k) \in Seq(Bytes) /\ \A i \in 1 .. Len(First(d, k)) : First(d, k)[i][1] = FrameOf(d)
<1>1. /\ First(d, k) \in Seq(Bytes) /\ Len(First(d, k)) = k
      /\ \A i \in 1 .. k : First(d, k)[i] = Byte(d, i)
    BY FirstFacts
<1>2. \A i : Byte(d, i)[1] = FrameOf(d)
    BY DEF Byte, FrameOf
<1> QED BY <1>1, <1>2

\* What is kept of the bytes read1 has joined comes from datagrams in their order.
LEMMA JoinedFrames ==
    ASSUME NEW e \in Ends, NEW q \in Seq(Datagrams), NEW j \in 1 .. Len(q), NEW k \in Nat \ {0},
           NEW at \in Fills(e, q, j, k), NEW m \in 1 .. k - 1
    PROVE  LET b == SubSeq(Joined(q, at, j, k), m + 1, k) IN
           b \in Seq(Bytes) /\ Gathered(q, j, b)
<1> DEFINE joined == Joined(q, at, j, k)
           b == SubSeq(joined, m + 1, k)
           src == [p \in 1 .. Len(b) |-> Source(at, j, m + p)]
<1>1. at \in Offsets(e, q, j, k) /\ k \in Nat /\ m \in Nat /\ m \in 0 .. k
    BY DEF Fills
<1>2. /\ joined \in Seq(Bytes) /\ Len(joined) = k
      /\ \A p \in 1 .. k :
            /\ Source(at, j, p) \in 1 .. j /\ at[Source(at, j, p)] < p
            /\ joined[p] = Byte(q[Source(at, j, p)], p - at[Source(at, j, p)])
    BY <1>1, JoinedFacts
<1> HIDE DEF joined
<1>3. b \in Seq(Bytes) /\ Len(b) = k - m
      /\ \A i \in 1 .. k - m : b[i] = joined[m + i] /\ m + i \in 1 .. k
    BY <1>1, <1>2, SuffixFacts
<1> HIDE DEF b
<1>4. \A d, i : Byte(d, i)[1] = FrameOf(d)
    BY DEF Byte, FrameOf
<1>5. \A p \in 1 .. Len(b) : Source(at, j, m + p) \in 1 .. j
    BY <1>2, <1>3
<1>6. src \in [1 .. Len(b) -> 1 .. j] /\ \A p \in 1 .. Len(b) : src[p] = Source(at, j, m + p)
    BY <1>5
<1> HIDE DEF src
<1>7. ASSUME NEW p \in 1 .. Len(b) PROVE b[p][1] = FrameOf(q[src[p]])
  <2>1. b[p] = joined[m + p] /\ m + p \in 1 .. k
      BY <1>3
  <2>2. joined[m + p] = Byte(q[Source(at, j, m + p)], (m + p) - at[Source(at, j, m + p)])
      BY <1>2, <2>1
  <2>3. src[p] = Source(at, j, m + p)
      BY <1>6
  <2>4. b[p] = Byte(q[src[p]], (m + p) - at[src[p]])
      BY <2>1, <2>2, <2>3
  <2> QED BY <1>4, <2>4
<1>8. ASSUME NEW p \in 1 .. Len(b), NEW r \in 1 .. Len(b), p < r PROVE src[p] <= src[r]
  <2>1. /\ j \in Nat \ {0} /\ at \in [1 .. j -> Nat] /\ at[1] = 0
        /\ m + p \in 1 .. k /\ m + r \in Nat \ {0} /\ m + p < m + r
      BY <1>1, <1>3, <1>8 DEF Offsets
  <2>2. src[p] \in 1 .. j /\ src[p] = Source(at, j, m + p) /\ at[src[p]] < m + p
      BY <1>2, <1>6, <2>1
  <2>3. at[src[p]] < m + r
      BY <2>1, <2>2
  <2>4. src[p] <= Source(at, j, m + r)
      BY <2>1, <2>2, <2>3, SourceFacts
  <2> QED BY <1>6, <2>4
<1>9. Gathered(q, j, b)
    BY <1>6, <1>7, <1>8 DEF Gathered
<1> QED BY <1>3, <1>9 DEF b, joined

LEMMA LastUnique ==
    ASSUME NEW g \in Seq(Bytes), NEW l, LastIn(g, l)
    PROVE  LET of == {i \in DOMAIN g : g[i][1] > 0} IN
           l = IF of = {} THEN 0 ELSE g[CHOOSE i \in of : \A j \in of : j <= i][1]
<1> DEFINE of == {i \in DOMAIN g : g[i][1] > 0}
           Top(i) == \A j \in of : j <= i
<1>1. DOMAIN g \subseteq Nat
    OBVIOUS
<1>2. CASE l = 0 /\ \A i \in DOMAIN g : g[i][1] = 0
  <2>1. of = {}
      BY <1>2
  <2> QED BY <1>2, <2>1
<1>3. ASSUME NEW i \in DOMAIN g, g[i][1] = l, l > 0, \A j \in DOMAIN g : g[j][1] > 0 => j <= i
      PROVE  of # {} /\ g[CHOOSE k \in of : Top(k)][1] = l
  <2>1. i \in of /\ Top(i)
      BY <1>3
  <2>2. \A k \in of : Top(k) => k = i
      BY <1>1, <2>1
  <2> HIDE DEF of, Top
  <2>3. (CHOOSE k \in of : Top(k)) = i
      BY <2>1, <2>2
  <2> QED BY <1>3, <2>1, <2>3
<1> QED BY <1>2, <1>3 DEF LastIn

-----------------------------------------------------------------------------
(* The invariant of the connection.                                        *)

\* The writer is at the number that was taken last: putFrame sends the event on to
\* the slot that it has just emptied, and takes the next number after that frame.
CurrentAt(e) ==
    /\ Asked(e, "WRITE2") => Number(e) = taken[e]
    /\ writer[e].pc \in {"header", "payload"} => writer[e].n = taken[e]

InTurn == faults["overtaken"] = 0

QueueAt(e, l) ==
    /\ Known(got[e], buffer[e], taken[Peer(e)], l)
    /\ InTurn => Order(inbox[e], seen[e], buffer[e], l)
OrderAt(e) == CurrentAt(e) /\ \E l : QueueAt(e, l)
Ordered == \A e \in Ends : OrderAt(e)

LEMMA LastKnown ==
    ASSUME NEW e \in Ends, NEW l, got[e] \in Seq(Bytes), QueueAt(e, l)
    PROVE  LastFrame(e) = l
BY LastUnique DEF QueueAt, Known, LastFrame, OfFrames

LEMMA LastKnownNext ==
    ASSUME NEW e \in Ends, NEW l, got'[e] \in Seq(Bytes), QueueAt(e, l)'
    PROVE  LastFrame(e)' = l
<1>1. LastIn(got'[e], l)
    BY DEF QueueAt, Known
<1> QED BY <1>1, LastUnique DEF LastFrame, OfFrames

\* Only a datagram that overtakes another counts as one.
LEMMA TurnStays ==
    ASSUME IInv, NEW e \in Ends,
           \/ UserNext(e) \/ ReaderNext(e) \/ WriterNext(e) \/ AckerNext(e)
           \/ \E m \in Directions : Expire(e, m)
    PROVE  InTurn' = InTurn
<1>1. CASE UNCHANGED faults
    BY <1>1 DEF InTurn
<1>2. ASSUME NEW kind \in {"lost", "doubled", "failed"}, Fault(kind) PROVE InTurn' = InTurn
  <2>1. faults \in [Kinds -> Nat] /\ faults' = [faults EXCEPT ![kind] = @ + 1]
        /\ "overtaken" \in Kinds /\ kind # "overtaken"
      BY <1>2 DEF IInv, Types, NetTypes, Fault, Kinds
  <2>2. faults'["overtaken"] = faults["overtaken"]
      BY <2>1
  <2> QED BY <2>2 DEF InTurn
<1>3. ASSUME NEW d, Transmit(e, d) PROVE InTurn' = InTurn
    BY <1>1, <1>2, <1>3 DEF Transmit
<1>4. CASE UserNext(e) \/ AckerNext(e) \/ \E m \in Directions : Expire(e, m)
    BY <1>1, <1>4 DEF UserNext, Call, AckerNext, Acknowledged, AckTimeout, AskRepeat, Expire
<1>5. CASE ReaderNext(e)
    BY <1>1, <1>2, <1>5 DEF ReaderNext, TakeRead, ParseHeader, ReadTimesOut, ReadFails,
       PushNumbers, ReadPayload
<1>6. CASE TakeWrite(e)
  <2>1. UNCHANGED faults \/ \E d : Transmit(e, d)
      BY <1>6 DEF TakeWrite, AcknowSeqnum, Stored, SendClosing
  <2> QED BY <1>1, <1>3, <2>1
<1>7. CASE WriteHeader(e) \/ WritePayload(e)
    BY <1>3, <1>7 DEF WriteHeader, WritePayload
<1>8. CASE PutOn(e) \/ WriteTimesOut(e) \/ WriteFails(e) \/ NotifyReader(e) \/ SendDone(e)
    BY <1>1, <1>2, <1>8 DEF PutOn, WriteTimesOut, WriteFails, NotifyReader, SendDone
<1> QED BY <1>4, <1>5, <1>6, <1>7, <1>8 DEF WriterNext

LEMMA TurnLost ==
    ASSUME IInv, NEW e \in Ends, Overtakes(e)
    PROVE  ~InTurn'
<1>1. faults["overtaken"] \in Nat /\ faults'["overtaken"] = faults["overtaken"] + 1
    BY DEF IInv, Types, NetTypes, Overtakes, Fault, Kinds
<1> QED BY <1>1 DEF InTurn

-----------------------------------------------------------------------------
(* The writer is at its newest number.                                     *)

LEMMA CurrentStays ==
    ASSUME NEW x \in Ends, CurrentAt(x),
           \/ writer'[x] = writer[x] /\ taken'[x] = taken[x]
           \/ /\ writer'[x].pc \notin {"header", "payload"}
              /\ taken'[x] = taken[x] \/ tpt'[x]["W"] = <<>>,
           \/ tpt'[x]["W"] = tpt[x]["W"]
           \/ tpt'[x]["W"] = <<>>
           \/ Head(tpt'[x]["W"]).flag # "WRITE2"
    PROVE  CurrentAt(x)'
BY DEF CurrentAt, Asked, Number

\* The steps that leave the writer and its slot alone, but for an event that the
\* user, the reader or a goroutine of a frame puts into it.
LEMMA CurrentOthers ==
    ASSUME IInv, NEW e \in Ends, NEW x \in Ends, CurrentAt(x),
           \/ UserNext(e) \/ ReaderNext(e) \/ AckerNext(e) \/ Overtakes(e)
           \/ \E m \in Directions : Expire(e, m)
    PROVE  CurrentAt(x)'
<1>1. tpt \in [Ends -> [Directions -> Slots]] /\ "W" \in Directions /\ "R" \in Directions
    BY WriterFacts
<1>2. UNCHANGED <<writer, taken>>
  <2>1. CASE UserNext(e)
      BY <2>1 DEF UserNext, Call
  <2>2. CASE ReaderNext(e)
      BY <2>2 DEF ReaderNext, TakeRead, ParseHeader, ReadTimesOut, ReadFails, PushNumbers,
                  ReadPayload
  <2>3. CASE AckerNext(e)
      BY <2>3 DEF AckerNext, Acknowledged, AckTimeout, AskRepeat
  <2>4. CASE \E m \in Directions : Expire(e, m)
      BY <2>4 DEF Expire
  <2>5. CASE Overtakes(e)
      BY <2>5 DEF Overtakes
  <2> QED BY <2>1, <2>2, <2>3, <2>4, <2>5
<1>3. ASSUME NEW ev, ev.flag # "WRITE2", NEW m \in Directions, tpt' = [tpt EXCEPT ![e][m] = <<ev>>]
      PROVE  CurrentAt(x)'
  <2>1. tpt'[x]["W"] = tpt[x]["W"] \/ tpt'[x]["W"] = <<ev>>
      BY <1>1, <1>3
  <2>2. Head(<<ev>>) = ev
      OBVIOUS
  <2> QED BY <1>2, <1>3, <2>1, <2>2, CurrentStays
<1>4. CASE tpt'[x]["W"] = tpt[x]["W"]
    BY <1>2, <1>4, CurrentStays
<1>5. CASE UserNext(e)
  <2>1. PICK m \in Directions : Call(e, m)
      BY <1>5 DEF UserNext
  <2>2. PICK req \in Calls(e, m)[made[e][m] + 1] : tpt' = [tpt EXCEPT ![e][m] = <<req>>]
      BY <2>1 DEF Call
  <2>3. req.flag # "WRITE2"
    <3>1. plan \in Plans /\ made[e][m] \in Nat /\ made[e][m] < Len(Calls(e, m))
        BY <2>1 DEF Call, IInv, Types, CallTypes
    <3>2. Calls(e, m) \in Seq(SUBSET [flag : Flags(m), arg : Nat])
        BY <3>1, PlansAssumption DEF Calls
    <3>3. made[e][m] + 1 \in 1 .. Len(Calls(e, m))
        BY <3>1, <3>2
    <3>4. req \in [flag : Flags(m), arg : Nat]
        BY <3>2, <3>3
    <3> QED BY <3>4 DEF Flags
  <2> QED BY <1>3, <2>2, <2>3
<1>6. CASE PushNumbers(e)
  <2>1. tpt' = [tpt EXCEPT ![e]["W"] = <<Event(reader[e].flag, reader[e].n)>>]
        /\ reader[e].pc = "push"
      BY <1>6 DEF PushNumbers
  <2>2. reader[e].flag # "WRITE2"
    <3>1. reader[e] \in ReaderStates
        BY DEF IInv, Types, ThreadTypes
    <3> QED BY <2>1, <3>1 DEF ReaderStates, Idle
  <2> QED BY <1>1, <1>3, <2>1, <2>2 DEF Event
<1>7. CASE TakeRead(e)
    BY <1>1, <1>4, <1>7 DEF TakeRead
<1>8. CASE ParseHeader(e) \/ ReadTimesOut(e) \/ ReadFails(e) \/ ReadPayload(e)
    BY <1>4, <1>8 DEF ParseHeader, ReadTimesOut, ReadFails, ReadPayload
<1>9. CASE AckerNext(e)
  <2>1. PICK n \in Frames(e) : Acknowledged(e, n) \/ AckTimeout(e, n) \/ AskRepeat(e, n)
      BY <1>9 DEF AckerNext
  <2>2. CASE Acknowledged(e, n) \/ AckTimeout(e, n)
      BY <1>4, <2>2 DEF Acknowledged, AckTimeout
  <2>3. CASE AskRepeat(e, n)
      BY <1>1, <1>3, <2>3 DEF AskRepeat, Event
  <2> QED BY <2>1, <2>2, <2>3
<1>10. CASE \E m \in Directions : Expire(e, m)
    BY <1>4, <1>10 DEF Expire
<1>11. CASE Overtakes(e)
    BY <1>4, <1>11 DEF Overtakes
<1> QED BY <1>5, <1>6, <1>7, <1>8, <1>9, <1>10, <1>11 DEF ReaderNext

LEMMA CurrentWriter ==
    ASSUME IInv, NEW e \in Ends, NEW x \in Ends, CurrentAt(x), CurrentAt(e), WriterNext(e)
    PROVE  CurrentAt(x)'
<1>1. /\ writer \in [Ends -> WriterStates] /\ tpt \in [Ends -> [Directions -> Slots]]
      /\ taken \in [Ends -> Nat] /\ "W" \in Directions /\ "R" \in Directions /\ "R" # "W"
    BY WriterFacts DEF IInv, Types, FrameTypes
<1>2. \A pc, n : Doing(pc, n).pc = pc /\ Doing(pc, n).n = n /\ Idle.pc = "idle"
    BY DEF Doing, Idle
<1>3. CASE TakeWrite(e)
  <2> DEFINE req == Head(tpt[e]["W"])
  <2>1. tpt'[e]["W"] = <<>> /\ (x # e => tpt'[x] = tpt[x]) /\ writer[e].pc = "idle"
      BY <1>1, <1>2, <1>3 DEF TakeWrite
  <2>2. CASE UNCHANGED <<writer, taken>>
      BY <1>1, <2>1, <2>2, CurrentStays
  <2>3. CASE req.flag = "WRITE1" /\ PutFrame(e) /\ ~UNCHANGED <<writer, taken>>
    <3>1. writer' = [writer EXCEPT ![e] = Doing("put", taken[e] + 1)]
          /\ taken' = [taken EXCEPT ![e] = @ + 1]
        BY <2>3 DEF PutFrame
    <3>2. x # e => writer'[x] = writer[x] /\ taken'[x] = taken[x]
        BY <1>1, <3>1
    <3>3. writer'[e].pc = "put"
        BY <1>1, <1>2, <3>1
    <3> QED BY <2>1, <3>2, <3>3, CurrentStays
  <2>4. CASE req.flag = "WRITE2" /\ taken' = taken
             /\ writer' = [writer EXCEPT ![e] = Doing("header", req.arg)]
    <3>1. req.arg = taken[e]
        BY <1>3, <2>4 DEF CurrentAt, Asked, Number, TakeWrite
    <3>2. x # e => writer'[x] = writer[x]
        BY <1>1, <2>4
    <3>3. writer'[e].n = taken[e]
        BY <1>1, <1>2, <2>4, <3>1
    <3>4. CASE x = e
        BY <2>1, <2>4, <3>3, <3>4 DEF CurrentAt, Asked
    <3> QED BY <2>1, <2>4, <3>2, <3>4, CurrentStays
  <2>5. CASE taken' = taken /\ \E n : writer' = [writer EXCEPT ![e] = Doing("done", n)]
      BY <1>1, <1>2, <2>1, <2>5, CurrentStays
  <2>6. ResetAckSeqnum(e, req.arg) =>
           writer' = writer \/ \E n : writer' = [writer EXCEPT ![e] = Doing("done", n)]
      BY DEF ResetAckSeqnum
  <2>7. \/ UNCHANGED <<writer, taken>>
        \/ req.flag = "WRITE1" /\ PutFrame(e)
        \/ req.flag = "WRITE2" /\ taken' = taken
           /\ writer' = [writer EXCEPT ![e] = Doing("header", req.arg)]
        \/ ResetAckSeqnum(e, req.arg) /\ taken' = taken
      BY <1>3 DEF TakeWrite
  <2> QED BY <2>2, <2>3, <2>4, <2>5, <2>6, <2>7
<1>4. CASE PutOn(e)
  <2> DEFINE ev == Event("WRITE2", writer[e].n)
  <2>1. /\ writer' = [writer EXCEPT ![e] = Idle] /\ taken' = taken
        /\ tpt' = [tpt EXCEPT ![e]["W"] = <<ev>>] /\ writer[e].pc = "put"
      BY <1>4 DEF PutOn
  <2>2. writer[e].n = taken[e]
      BY <2>1 DEF IInv, Local, CountingAt
  <2>3. ev.arg = taken[e] /\ Head(<<ev>>) = ev
      BY <2>2 DEF Event
  <2>4. CASE x = e
    <3>1. tpt'[e]["W"] = <<ev>> /\ writer'[e].pc = "idle"
        BY <1>1, <1>2, <2>1
    <3> QED BY <2>1, <2>3, <2>4, <3>1 DEF CurrentAt, Asked, Number
  <2>5. CASE x # e
    <3>1. tpt'[x] = tpt[x] /\ writer'[x] = writer[x]
        BY <1>1, <2>1, <2>5
    <3> QED BY <2>1, <3>1, CurrentStays
  <2> QED BY <2>4, <2>5
<1>5. CASE WriteHeader(e)
  <2>1. /\ writer' = [writer EXCEPT ![e] = Doing("payload", @.n)] /\ UNCHANGED <<taken, tpt>>
        /\ writer[e].pc = "header"
      BY <1>5 DEF WriteHeader
  <2>2. writer'[e].n = writer[e].n
      BY <1>1, <1>2, <2>1
  <2>3. x # e => writer'[x] = writer[x]
      BY <1>1, <2>1
  <2>4. CASE x = e
    <3>1. writer'[e].n = taken'[e] /\ tpt'[e]["W"] = tpt[e]["W"]
        BY <2>1, <2>2 DEF CurrentAt
    <3> QED BY <2>1, <2>4, <3>1 DEF CurrentAt, Asked, Number
  <2>5. CASE x # e
    <3>1. tpt'[x]["W"] = tpt[x]["W"]
        BY <2>1
    <3> QED BY <2>1, <2>3, <2>5, <3>1, CurrentStays
  <2> QED BY <2>4, <2>5
<1>6. ASSUME NEW w, w.pc \notin {"header", "payload"}, writer' = [writer EXCEPT ![e] = w],
             taken' = taken, tpt'[x]["W"] = tpt[x]["W"]
      PROVE  CurrentAt(x)'
  <2>1. CASE x = e
    <3>1. writer'[x] = w
        BY <1>1, <1>6, <2>1
    <3> QED BY <1>6, <3>1, CurrentStays
  <2>2. CASE x # e
    <3>1. writer'[x] = writer[x]
        BY <1>6, <2>2
    <3> QED BY <1>6, <3>1, CurrentStays
  <2> QED BY <2>1, <2>2
<1>7. CASE WritePayload(e)
  <2> DEFINE w == Doing("notify", writer[e].n)
  <2>1. writer' = [writer EXCEPT ![e] = w] /\ UNCHANGED <<taken, tpt>>
      BY <1>7 DEF WritePayload
  <2>2. w.pc \notin {"header", "payload"}
      BY <1>2
  <2> HIDE DEF w
  <2> QED BY <1>6, <2>1, <2>2
<1>8. CASE WriteTimesOut(e) \/ WriteFails(e) \/ SendDone(e)
    BY <1>2, <1>6, <1>8 DEF WriteTimesOut, WriteFails, AbandonFrame, SendDone
<1>9. CASE NotifyReader(e)
  <2>1. writer' = [writer EXCEPT ![e] = Idle] /\ taken' = taken
        /\ tpt' = [tpt EXCEPT ![e]["R"] = <<Event("DATA_ACK", 0)>>]
      BY <1>9 DEF NotifyReader
  <2>2. tpt'[x]["W"] = tpt[x]["W"]
      BY <1>1, <2>1
  <2> QED BY <1>2, <1>6, <2>1, <2>2
<1> QED BY <1>3, <1>4, <1>5, <1>7, <1>8, <1>9 DEF WriterNext

LEMMA CurrentNext ==
    ASSUME IInv, [Next]_vars, NEW x \in Ends, \A e \in Ends : CurrentAt(e)
    PROVE  CurrentAt(x)'
<1>1. CASE Next
    BY <1>1, CurrentOthers, CurrentWriter DEF Next
<1>2. CASE UNCHANGED vars
    BY <1>2 DEF vars, CurrentAt, Asked, Number
<1> QED BY <1>1, <1>2

-----------------------------------------------------------------------------
(* What a step does to what is under way.                                  *)

LEMMA BoxFacts ==
    ASSUME IInv, NEW x \in Ends
    PROVE  /\ inbox[x] \in Seq(Datagrams) /\ inbox \in [Ends -> Seq(Datagrams)]
           /\ taken[Peer(x)] \in Nat /\ taken \in [Ends -> Nat]
           /\ seen[x] \in SUBSET (1 .. taken[Peer(x)]) /\ seen \in [Ends -> SUBSET Nat]
           /\ \A i \in 1 .. Len(inbox[x]) :
                inbox[x][i].kind \in Numbered => inbox[x][i].n \in 1 .. taken[Peer(x)]
BY PeerFacts DEF IInv, Types, NetTypes, FrameTypes, Local, AckAt, TravelAt, Numbered

\* Nothing arrives or is read; the peer may take a number.
LEMMA QueueStays ==
    ASSUME IInv, IInv', NEW x \in Ends, NEW l, QueueAt(x, l), InTurn' => InTurn,
           InTurn' => inbox'[x] = inbox[x], seen'[x] = seen[x], got'[x] = got[x],
           buffer'[x] = buffer[x], taken[Peer(x)] <= taken'[Peer(x)]
    PROVE  QueueAt(x, l)'
<1> DEFINE t == taken[Peer(x)]
           u == taken'[Peer(x)]
<1>1. t \in Nat /\ u \in Nat /\ t <= u
    BY PeerFacts DEF IInv, Types, FrameTypes
<1>2. Known(got[x], buffer[x], t, l)
    BY DEF QueueAt
<1> HIDE DEF t, u
<1>3. 0 .. t \subseteq 0 .. u
    BY <1>1
<1>4. Known(got[x], buffer[x], u, l)
    BY <1>2, <1>3 DEF Known, Within
<1> QED BY <1>4 DEF QueueAt, u

\* write1 of the peer.
LEMMA QueueGrows ==
    ASSUME IInv, NEW e \in Ends, NEW d \in Datagrams, Transmit(e, d),
           d.kind \in Numbered => d.n = taken[e], InTurn' = InTurn,
           UNCHANGED <<seen, got, buffer, taken>>,
           NEW x \in Ends, NEW l, QueueAt(x, l)
    PROVE  QueueAt(x, l)'
<1> DEFINE p == Peer(e)
<1>1. p \in Ends /\ Peer(p) = e /\ inbox \in [Ends -> Seq(Datagrams)]
    BY PeerFacts, BoxFacts
<1>2. CASE inbox'[x] = inbox[x] \/ ~InTurn
    BY <1>2 DEF QueueAt
<1>3. CASE InTurn /\ x = p /\ \E k \in {1, 2} : inbox'[x] = inbox[x] \o [i \in 1 .. k |-> d]
  <2> DEFINE q == inbox[x]
             t == taken[Peer(x)]
             s == seen[x]
             b == buffer[x]
  <2>1. PICK k \in {1, 2} : inbox'[x] = q \o [i \in 1 .. k |-> d]
      BY <1>3
  <2>2. /\ q \in Seq(Datagrams) /\ t \in Nat /\ s \in SUBSET (1 .. t)
        /\ \A i \in 1 .. Len(q) : q[i].kind \in Numbered => q[i].n \in 1 .. t
        /\ (d.kind \in Numbered => d.n = t)
      BY <1>1, <1>3, BoxFacts
  <2>3. l \in 0 .. t /\ Within(b, t) /\ Order(q, s, b, l)
      BY <1>3 DEF QueueAt, Known
  <2> HIDE DEF q, t, s, b
  <2>4. Order(q \o [i \in 1 .. k |-> d], s, b, l)
      BY <2>2, <2>3, OrderSent
  <2>5. Order(inbox'[x], seen'[x], buffer'[x], l)
      BY <2>1, <2>4 DEF s, b
  <2> QED BY <2>5 DEF QueueAt
<1>4. \/ inbox' = inbox
      \/ \E k \in {1, 2} : inbox' = [inbox EXCEPT ![p] = @ \o [i \in 1 .. k |-> d]]
    BY DEF Transmit, Delivered
<1>5. \/ inbox'[x] = inbox[x]
      \/ (x = p /\ \E k \in {1, 2} : inbox'[x] = inbox[x] \o [i \in 1 .. k |-> d])
  <2>1. ASSUME NEW k \in {1, 2}, inbox' = [inbox EXCEPT ![p] = @ \o [i \in 1 .. k |-> d]]
        PROVE  inbox'[x] = inbox[x] \/ (x = p /\ inbox'[x] = inbox[x] \o [i \in 1 .. k |-> d])
      BY <1>1, <2>1
  <2> QED BY <1>4, <2>1
<1> QED BY <1>2, <1>3, <1>5

LEMMA ParseQueue ==
    ASSUME IInv, NEW e \in Ends, ParseHeader(e), NEW l, QueueAt(e, l)
    PROVE  /\ QueueAt(e, l)'
           /\ \/ seen' = seen
              \/ \E n \in 1 .. taken[Peer(e)] : /\ InTurn => \A k \in seen[e] : k < n
                                                /\ seen' = [seen EXCEPT ![e] = @ \cup {n}]
<1> DEFINE q == inbox[e]
           d == Head(q)
           t == taken[Peer(e)]
           b == buffer[e]
<1>1. /\ q \in Seq(Datagrams) /\ q # <<>> /\ t \in Nat /\ seen \in [Ends -> SUBSET Nat]
      /\ inbox'[e] = Tail(q) /\ UNCHANGED <<got, buffer, taken>>
      /\ seen' = IF d.kind = "DATAGRAM" THEN [seen EXCEPT ![e] = @ \cup {d.n}] ELSE seen
      /\ \A i \in 1 .. Len(q) : q[i].kind \in Numbered => q[i].n \in 1 .. t
      /\ InTurn' = InTurn
    BY BoxFacts, TurnStays DEF ParseHeader, ReaderNext
<1>2. d = q[1] /\ 1 \in 1 .. Len(q) /\ 1 \in 0 .. Len(q) /\ Tail(q) = SubSeq(q, 1 + 1, Len(q))
    BY <1>1
<1>3. d.kind = "DATAGRAM" => d.n \in 1 .. t
    BY <1>1, <1>2 DEF Numbered
<1>4. seen'[e] = IF d.kind = "DATAGRAM" THEN seen[e] \cup {d.n} ELSE seen[e]
    BY <1>1
<1>5. ASSUME InTurn
      PROVE  /\ Order(Tail(q), seen'[e], b, l)
             /\ d.kind = "DATAGRAM" => \A k \in seen[e] : k <= d.n
  <2>1. Order(q, seen[e], b, l)
      BY <1>5 DEF QueueAt
  <2> HIDE DEF q, b, d
  <2>2. CASE d.kind = "DATAGRAM"
    <3>1. Order(SubSeq(q, 2, Len(q)), seen[e] \cup {q[1].n}, b, l)
          /\ \A k \in seen[e] : k <= q[1].n
        BY <1>1, <1>2, <2>1, <2>2, OrderParsed
    <3>2. seen'[e] = seen[e] \cup {q[1].n} /\ d.n = q[1].n
        BY <1>2, <1>4, <2>2
    <3>3. Tail(q) = SubSeq(q, 2, Len(q))
        BY <1>2
    <3> QED BY <3>1, <3>2, <3>3
  <2>3. CASE d.kind # "DATAGRAM"
    <3>1. Order(SubSeq(q, 1 + 1, Len(q)), seen[e], b, l)
        BY <1>1, <1>2, <2>1, OrderDropped
    <3> QED BY <1>2, <1>4, <2>3, <3>1
  <2> QED BY <2>2, <2>3
<1>6. QueueAt(e, l)'
    BY <1>1, <1>5 DEF QueueAt
<1>7. CASE seen' # seen
  <2>1. d.kind = "DATAGRAM" /\ seen' = [seen EXCEPT ![e] = @ \cup {d.n}]
      BY <1>1, <1>7
  <2>2. d.n \notin seen[e]
    <3>1. d.n \in seen[e] => seen[e] \cup {d.n} = seen[e]
        OBVIOUS
    <3>2. d.n \in seen[e] => seen' = seen
        BY <1>1, <2>1, <3>1
    <3> QED BY <1>7, <3>2
  <2>3. InTurn => \A k \in seen[e] : k \in Nat /\ k # d.n /\ k <= d.n
      BY <1>1, <1>5, <2>1, <2>2
  <2>4. d.n \in 1 .. t
      BY <1>3, <2>1
  <2>5. InTurn => \A k \in seen[e] : k < d.n
      BY <2>3, <2>4
  <2> QED BY <1>6, <2>1, <2>4, <2>5
<1> QED BY <1>6, <1>7

\* What a Read returns is of the frame it returned last, or of a newer one.
Newer(e, l, m) == m = l \/ (m \in 1 .. taken[Peer(e)] /\ (InTurn => l < m))

LEMMA TakeReadQueue ==
    ASSUME IInv, Sizes, Reads, NEW e \in Ends, TakeRead(e), NEW l, QueueAt(e, l)
    PROVE  \E m : QueueAt(e, m)' /\ Newer(e, l, m)
<1> DEFINE req == Head(tpt[e]["R"])
           size == req.arg
           b == buffer[e]
           t == taken[Peer(e)]
<1>1. UNCHANGED <<inbox, seen, taken>> /\ t \in Nat /\ InTurn' = InTurn
    BY BoxFacts, TurnStays DEF TakeRead, ReaderNext
<1>2. CASE UNCHANGED <<got, buffer>>
    BY <1>1, <1>2 DEF QueueAt, Newer
<1>3. CASE /\ req.flag = "READ1" /\ tpt[e]["R"] # <<>> /\ b # <<>>
           /\ got' = [got EXCEPT ![e] = @ \o Copied(b, size)]
           /\ buffer' = [buffer EXCEPT ![e] = Kept(@, size)]
  <2>1. size \in Nat /\ size > 0
    <3>1. tpt[e]["R"] \in Slots
        BY WriterFacts
    <3> QED BY <1>3, <3>1, HoldsFacts DEF ArgsAt, Sizes
  <2>2. got \in [Ends -> Seq(Bytes)] /\ buffer \in [Ends -> Seq(Bytes)]
        /\ got[e] \in Seq(Bytes) /\ b \in Seq(Bytes)
      BY DEF Reads, Sizes, Chunks
  <2>3. got'[e] = got[e] \o Copied(b, size) /\ buffer'[e] = Kept(b, size)
      BY <1>3, <2>2
  <2>4. Known(got[e], b, t, l) /\ l \in Nat /\ (InTurn => Order(inbox[e], seen[e], b, l))
      BY <1>1 DEF QueueAt, Known
  <2> HIDE DEF b, t, size
  <2>5. Copied(b, size) \in Seq(Bytes) /\ Within(Copied(b, size), t) /\ Within(Kept(b, size), t)
    <3>1. \A i \in 1 .. Len(b) : b[i][1] \in 0 .. t
        BY <2>4 DEF Known, Within
    <3>2. /\ Copied(b, size) \in Seq(Bytes)
          /\ \A i \in 1 .. Len(Copied(b, size)) : i \in 1 .. Len(b) /\ Copied(b, size)[i] = b[i]
        BY <2>1, <2>2, CopiedFacts
    <3>3. PICK c \in Nat : \A i \in 1 .. Len(Kept(b, size)) :
            c + i \in 1 .. Len(b) /\ Kept(b, size)[i] = b[c + i]
        BY <2>1, <2>2, CopiedFacts
    <3> QED BY <3>1, <3>2, <3>3 DEF Within
  <2>6. PICK m : /\ Known(got[e] \o Copied(b, size), Kept(b, size), t, m)
                 /\ m = l \/ (m \in 1 .. t /\ \E i \in 1 .. Len(Copied(b, size)) :
                                                m = Copied(b, size)[i][1])
      BY <1>1, <2>2, <2>4, <2>5, KnownAppend
  <2>7. m \in Nat /\ (m = l \/ (m > 0 /\ \E i \in 1 .. Len(Copied(b, size)) :
                                            m = Copied(b, size)[i][1]))
      BY <2>4, <2>6
  <2>8. InTurn => Order(inbox[e], seen[e], Kept(b, size), m) /\ l <= m
      BY <2>1, <2>2, <2>4, <2>7, OrderCopied
  <2>9. QueueAt(e, m)'
      BY <1>1, <2>3, <2>6, <2>8 DEF QueueAt, t
  <2>10. Newer(e, l, m)
    <3>1. InTurn /\ m # l => l < m
        BY <2>4, <2>7, <2>8
    <3> QED BY <2>6, <3>1 DEF Newer, t
  <2> QED BY <2>9, <2>10
<1> QED BY <1>2, <1>3 DEF TakeRead, Buffered

\* A Read that takes j datagrams, returns bytes of the first and keeps b.
LEMMA FreshQueue ==
    ASSUME IInv, Reads, Sizes, NEW e \in Ends, NEW l, QueueAt(e, l), buffer[e] = <<>>,
           UNCHANGED <<seen, taken>>, InTurn' = InTurn,
           NEW j \in 1 .. Len(inbox[e]), Dropped(e, j),
           NEW u \in Seq(Bytes), \A i \in 1 .. Len(u) : u[i][1] = FrameOf(inbox[e][1]),
           got' = [got EXCEPT ![e] = @ \o u],
           NEW b \in Seq(Bytes), buffer'[e] = b, Gathered(inbox[e], j, b)
    PROVE  \E m : QueueAt(e, m)' /\ Newer(e, l, m)
<1> DEFINE q == inbox[e]
           t == taken[Peer(e)]
           g == got[e]
<1>1. /\ q \in Seq(Datagrams) /\ t \in Nat /\ g \in Seq(Bytes)
      /\ \A i \in 1 .. Len(q) : q[i].kind \in Numbered => q[i].n \in 1 .. t
      /\ got'[e] = g \o u /\ inbox'[e] = SubSeq(q, j + 1, Len(q))
    BY BoxFacts DEF Reads, Dropped
<1>2. Known(g, <<>>, t, l) /\ (InTurn => Order(q, seen[e], <<>>, l)) /\ l \in Nat
    BY <1>1 DEF QueueAt, Known
<1>3. \A i \in 1 .. Len(q) : FrameOf(q[i]) \in 0 .. t
    BY <1>1 DEF FrameOf, Numbered
<1>4. 1 \in 1 .. Len(q) /\ Len(q) \in Nat
    BY <1>1
<1> HIDE DEF q, t, g
<1>5. Within(u, t) /\ Within(b, t)
  <2>1. \A i \in 1 .. Len(u) : u[i][1] \in 0 .. t
      BY <1>3, <1>4 DEF q
  <2> PICK src \in [1 .. Len(b) -> 1 .. j] : \A p \in 1 .. Len(b) : b[p][1] = FrameOf(q[src[p]])
      BY DEF Gathered, q
  <2>2. \A p \in 1 .. Len(b) : src[p] \in 1 .. j
      OBVIOUS
  <2>3. \A i \in 1 .. j : i \in 1 .. Len(q)
      BY <1>4 DEF q
  <2>4. \A p \in 1 .. Len(b) : b[p][1] \in 0 .. t
      BY <1>3, <2>2, <2>3 DEF q
  <2> QED BY <2>1, <2>4 DEF Within
<1>6. PICK m : /\ Known(g \o u, b, t, m)
               /\ m = l \/ (m \in 1 .. t /\ \E i \in 1 .. Len(u) : m = u[i][1])
    BY <1>1, <1>2, <1>5, KnownAppend
<1>7. m \in Nat /\ (m = l \/ (m > 0 /\ m = FrameOf(q[1])))
    BY <1>2, <1>6 DEF q
<1>8. InTurn => Order(SubSeq(q, j + 1, Len(q)), seen[e], b, m) /\ l <= m
  <2>1. j \in 1 .. Len(q) /\ Gathered(q, j, b)
      BY DEF q
  <2> QED BY <1>1, <1>2, <1>7, <2>1, OrderFresh
<1>9. QueueAt(e, m)'
    BY <1>1, <1>6, <1>8 DEF QueueAt, t
<1>10. Newer(e, l, m)
  <2>1. InTurn /\ m # l => l < m
      BY <1>2, <1>7, <1>8
  <2> QED BY <1>6, <2>1 DEF Newer, t
<1> QED BY <1>9, <1>10

LEMMA PayloadQueue ==
    ASSUME IInv, Sizes, Reads, NEW e \in Ends, ReadPayload(e), NEW l, QueueAt(e, l)
    PROVE  \E m : QueueAt(e, m)' /\ Newer(e, l, m)
<1> DEFINE n == reader[e].n
           k == Size(Peer(e), n)
           q == inbox[e]
<1>1. /\ q \in Seq(Datagrams) /\ inbox \in [Ends -> Seq(Datagrams)] /\ UNCHANGED <<seen, taken>>
      /\ InTurn' = InTurn /\ buffer \in [Ends -> Seq(Bytes)]
    BY BoxFacts, TurnStays DEF ReadPayload, ReaderNext, Sizes, Chunks
<1>2. buffer[e] = <<>>
    BY DEF ReadPayload, Sizes, ArgsAt, Reads, FreshAt
<1>3. /\ k \in Nat \ {0}
      /\ \/ UNCHANGED <<buffer, got>> /\ (inbox' = inbox \/ (q # <<>> /\ Dropped(e, 1)))
         \/ q # <<>> /\ Whole(e, q[1], n, k)
         \/ \E here \in 1 .. Len(q) : \E m \in 1 .. k - 1 : Part(e, SubSeq(q, 1, here), m, k)
    BY PayloadFacts DEF Sizes
<1>4. q # <<>> => 1 \in 1 .. Len(q) /\ 1 \in 0 .. Len(q) /\ q[1] \in Datagrams
    BY <1>1
<1> HIDE DEF n, k
<1>5. CASE UNCHANGED <<buffer, got, inbox>>
    BY <1>1, <1>5 DEF QueueAt, Newer
<1>6. CASE UNCHANGED <<buffer, got>> /\ q # <<>> /\ Dropped(e, 1)
  <2>1. inbox'[e] = SubSeq(q, 1 + 1, Len(q))
      BY <1>1, <1>6 DEF Dropped
  <2>2. InTurn => Order(SubSeq(q, 1 + 1, Len(q)), seen[e], buffer[e], l)
      BY <1>1, <1>4, <1>6, OrderDropped DEF QueueAt
  <2>3. QueueAt(e, l)'
      BY <1>1, <1>6, <2>1, <2>2 DEF QueueAt
  <2> QED BY <2>3 DEF Newer
<1>7. ASSUME NEW j \in 1 .. Len(q), Dropped(e, j), buffer' = buffer, NEW u \in Seq(Bytes),
             \A i \in 1 .. Len(u) : u[i][1] = FrameOf(q[1]), got' = [got EXCEPT ![e] = @ \o u]
      PROVE  \E m : QueueAt(e, m)' /\ Newer(e, l, m)
  <2> DEFINE src == [p \in 1 .. 0 |-> j]
             b == <<>>
  <2>1. /\ src \in [1 .. Len(b) -> 1 .. j] /\ b \in Seq(Bytes) /\ \A p \in 1 .. Len(b) : FALSE
        /\ buffer'[e] = b
      BY <1>2, <1>7
  <2> HIDE DEF src, b
  <2>2. Gathered(q, j, b)
      BY <2>1 DEF Gathered
  <2> QED BY <1>1, <1>2, <1>7, <2>1, <2>2, FreshQueue
<1>8. CASE q # <<>> /\ Whole(e, q[1], n, k)
  <2> DEFINE u == First(q[1], k)
  <2>1. u \in Seq(Bytes) /\ \A i \in 1 .. Len(u) : u[i][1] = FrameOf(q[1])
    <3>1. q[1] \in Datagrams /\ k \in Nat
        BY <1>3, <1>4, <1>8
    <3> QED BY <3>1, FirstFrames
  <2>2. 1 \in 1 .. Len(q) /\ Dropped(e, 1) /\ buffer' = buffer /\ got' = [got EXCEPT ![e] = @ \o u]
      BY <1>4, <1>8 DEF Whole
  <2> HIDE DEF u, q
  <2> QED BY <1>7, <2>1, <2>2
<1>9. ASSUME NEW here \in 1 .. Len(q), NEW m \in 1 .. k - 1, Part(e, SubSeq(q, 1, here), m, k)
      PROVE  \E h : QueueAt(e, h)' /\ Newer(e, l, h)
  <2> DEFINE r == SubSeq(q, 1, here)
             u == First(q[1], m)
  <2>1. /\ r \in Seq(Datagrams) /\ Len(r) = here /\ here \in Nat /\ Len(q) \in Nat
        /\ \A i \in 1 .. here : r[i] = q[i]
      BY <1>1
  <2>2. r[1] = q[1] /\ q[1] \in Datagrams /\ m \in Nat
      BY <1>1, <2>1
  <2> HIDE DEF r
  <2>3. u \in Seq(Bytes) /\ \A i \in 1 .. Len(u) : u[i][1] = FrameOf(q[1])
      BY <2>2, FirstFrames
  <2>4. /\ got' = [got EXCEPT ![e] = @ \o u]
        /\ \/ buffer' = buffer /\ Dropped(e, here)
           \/ \E j \in 1 .. here : \E at \in Fills(e, r, j, k) :
                /\ buffer' = [buffer EXCEPT ![e] = SubSeq(Joined(r, at, j, k), m + 1, k)]
                /\ Dropped(e, j)
      BY <1>9, <2>1, <2>2 DEF Part, r
  <2> HIDE DEF u
  <2>5. CASE buffer' = buffer /\ Dropped(e, here)
    <3> HIDE DEF q
    <3> QED BY <1>7, <2>3, <2>4, <2>5
  <2>6. ASSUME NEW j \in 1 .. here, NEW at \in Fills(e, r, j, k),
               buffer' = [buffer EXCEPT ![e] = SubSeq(Joined(r, at, j, k), m + 1, k)],
               Dropped(e, j)
        PROVE  \E h : QueueAt(e, h)' /\ Newer(e, l, h)
    <3> DEFINE b == SubSeq(Joined(r, at, j, k), m + 1, k)
    <3>1. j \in 1 .. Len(r) /\ j \in 1 .. Len(q) /\ \A i \in 1 .. j : r[i] = q[i]
        BY <2>1
    <3>2. b \in Seq(Bytes) /\ Gathered(r, j, b)
        BY <1>3, <2>1, <3>1, JoinedFrames
    <3>3. buffer'[e] = b
        BY <1>1, <2>6
    <3> HIDE DEF b
    <3>4. Gathered(q, j, b)
        BY <3>1, <3>2 DEF Gathered
    <3> QED BY <1>1, <1>2, <2>3, <2>4, <2>6, <3>1, <3>2, <3>3, <3>4, FreshQueue
  <2> QED BY <2>4, <2>5, <2>6
<1> QED BY <1>3, <1>5, <1>6, <1>8, <1>9

\* The steps that read nothing from the inbox and return no byte.
LEMMA QuietQueue ==
    ASSUME IInv, IInv', NEW e \in Ends, CurrentAt(e),
           \/ UserNext(e) \/ WriterNext(e) \/ AckerNext(e) \/ \E m \in Directions : Expire(e, m)
           \/ ReadTimesOut(e) \/ ReadFails(e) \/ PushNumbers(e),
           NEW x \in Ends, NEW l, QueueAt(x, l)
    PROVE  QueueAt(x, l)'
<1>1. /\ taken \in [Ends -> Nat] /\ Peer(x) \in Ends /\ UNCHANGED <<seen, got, buffer>>
  <2>1. taken \in [Ends -> Nat] /\ Peer(x) \in Ends
      BY PeerFacts DEF IInv, Types, FrameTypes
  <2>2. CASE UserNext(e)
      BY <2>1, <2>2 DEF UserNext, Call, readVars
  <2>3. CASE WriterNext(e)
      BY <2>1, <2>3 DEF WriterNext, TakeWrite, PutOn, WriteHeader, WritePayload, WriteTimesOut,
                        WriteFails, AbandonFrame, NotifyReader, SendDone, readVars
  <2>4. CASE AckerNext(e)
      BY <2>1, <2>4 DEF AckerNext, Acknowledged, AckTimeout, AskRepeat, readVars
  <2>5. CASE ReadTimesOut(e) \/ ReadFails(e) \/ PushNumbers(e)
      BY <2>1, <2>5 DEF ReadTimesOut, ReadFails, PushNumbers, readVars
  <2>6. CASE \E m \in Directions : Expire(e, m)
      BY <2>1, <2>6 DEF Expire, readVars
  <2> QED BY <2>2, <2>3, <2>4, <2>5, <2>6, <2>1
<1>0. InTurn' = InTurn
    BY TurnStays DEF ReaderNext
<1>2. CASE inbox' = inbox /\ \A y \in Ends : taken[y] <= taken'[y]
    BY <1>0, <1>1, <1>2, QueueStays
<1>3. CASE inbox' = inbox /\ taken' = taken
    BY <1>1, <1>2, <1>3
<1>4. ASSUME NEW d \in Datagrams, Transmit(e, d), taken' = taken,
             d.kind \in Numbered => d.n = taken[e]
      PROVE  QueueAt(x, l)'
    BY <1>0, <1>1, <1>4, QueueGrows
<1>5. CASE TakeWrite(e)
  <2> DEFINE req == Head(tpt[e]["W"])
  <2>1. req.arg \in Nat
      BY TakeWriteFacts, <1>5 DEF Events
  <2>2. CASE req.flag = "WRITE1"
    <3>1. inbox' = inbox /\ (taken' = taken \/ taken' = [taken EXCEPT ![e] = @ + 1])
        BY <1>5, <2>2 DEF TakeWrite, PutFrame
    <3>2. \A y \in Ends : taken[y] <= taken'[y]
        BY <1>1, <3>1
    <3> QED BY <1>2, <3>1, <3>2
  <2>3. CASE req.flag \in {"WRITE2", "DATA_ACK", "DEADLINE", "REPEAT"}
      BY <1>3, <1>5, <2>3 DEF TakeWrite
  <2>4. CASE req.flag = "DATAGRAM"
    <3>1. AcknowSeqnum(e, req.arg) /\ taken' = taken
        BY <1>5, <2>4 DEF TakeWrite
    <3>2. /\ Datagram("DATA_ACK", req.arg) \in Datagrams
          /\ Datagram("DATA_ACK", req.arg).kind \notin Numbered
        BY <2>1 DEF Datagram, Datagrams, Numbered
    <3>3. CASE Transmit(e, Datagram("DATA_ACK", req.arg))
        BY <1>4, <3>1, <3>2, <3>3
    <3> QED BY <1>3, <3>1, <3>3 DEF AcknowSeqnum, Stored
  <2>5. CASE req.flag = "CLOSING"
    <3>1. Transmit(e, Datagram("RMT_CLOSING", 0)) /\ taken' = taken
        BY <1>5, <2>5 DEF TakeWrite, SendClosing
    <3>2. /\ Datagram("RMT_CLOSING", 0) \in Datagrams
          /\ Datagram("RMT_CLOSING", 0).kind \notin Numbered
        BY DEF Datagram, Datagrams, Numbered
    <3> QED BY <1>4, <3>1, <3>2
  <2> QED BY <1>5, <2>2, <2>3, <2>4, <2>5 DEF TakeWrite
<1>6. ASSUME NEW kind \in Numbered, writer[e].pc \in {"header", "payload"}, taken' = taken,
             Transmit(e, Datagram(kind, writer[e].n))
      PROVE  QueueAt(x, l)'
  <2>1. writer[e].n = taken[e] /\ writer[e].n \in frames[e]
      BY <1>6 DEF CurrentAt, IInv, Local, WritingAt
  <2>2. taken[e] \in Nat /\ taken[e] > 0
      BY <1>1, <2>1 DEF IInv, Local, CountingAt
  <2>3. /\ Datagram(kind, writer[e].n) \in Datagrams
        /\ Datagram(kind, writer[e].n).n = taken[e]
      BY <2>1, <2>2 DEF Datagram, Datagrams, Numbered
  <2> QED BY <1>4, <1>6, <2>2, <2>3
<1>7. CASE WriteHeader(e)
    BY <1>6, <1>7 DEF WriteHeader, Numbered
<1>8. CASE WritePayload(e)
    BY <1>6, <1>8 DEF WritePayload, Numbered
<1>9. CASE WriteTimesOut(e) \/ WriteFails(e) \/ PutOn(e) \/ NotifyReader(e) \/ SendDone(e)
    BY <1>3, <1>9 DEF WriteTimesOut, WriteFails, AbandonFrame, PutOn, NotifyReader, SendDone
<1>10. CASE UserNext(e)
    BY <1>3, <1>10 DEF UserNext, Call
<1>11. CASE AckerNext(e)
    BY <1>3, <1>11 DEF AckerNext, Acknowledged, AckTimeout, AskRepeat
<1>12. CASE \E m \in Directions : Expire(e, m)
    BY <1>3, <1>12 DEF Expire
<1>13. CASE ReadTimesOut(e) \/ ReadFails(e) \/ PushNumbers(e)
    BY <1>3, <1>13 DEF ReadTimesOut, ReadFails, PushNumbers
<1> QED BY <1>5, <1>7, <1>8, <1>9, <1>10, <1>11, <1>12, <1>13 DEF WriterNext

\* The steps that read, and what they leave alone at the other end.
LEMMA ReadQueue ==
    ASSUME IInv, IInv', Sizes, Reads, NEW e \in Ends,
           ParseHeader(e) \/ TakeRead(e) \/ ReadPayload(e),
           NEW x \in Ends, NEW l, QueueAt(x, l)
    PROVE  /\ x # e => got'[x] = got[x]
           /\ \E m : QueueAt(x, m)' /\ Newer(x, l, m)
<1>1. CASE x = e
  <2>1. CASE ParseHeader(e)
      BY <1>1, <2>1, ParseQueue DEF Newer
  <2> QED BY <1>1, <2>1, TakeReadQueue, PayloadQueue
<1>2. CASE x # e
  <2>0. InTurn' = InTurn
      BY TurnStays DEF ReaderNext
  <2>1. got \in [Ends -> Seq(Bytes)] /\ buffer \in [Ends -> Seq(Bytes)]
        /\ inbox \in [Ends -> Seq(Datagrams)] /\ seen \in [Ends -> SUBSET Nat]
        /\ taken \in [Ends -> Nat] /\ Peer(x) \in Ends
      BY PeerFacts DEF Reads, Sizes, Chunks, IInv, Types, NetTypes, FrameTypes
  <2>2. /\ taken' = taken /\ inbox'[x] = inbox[x] /\ seen'[x] = seen[x]
        /\ got'[x] = got[x] /\ buffer'[x] = buffer[x]
    <3>1. CASE ParseHeader(e)
      <4>1. UNCHANGED <<got, buffer, taken>> /\ inbox'[x] = inbox[x]
          BY <1>2, <2>1, <3>1 DEF ParseHeader
      <4>2. seen' = seen \/ \E n : seen' = [seen EXCEPT ![e] = @ \cup {n}]
          BY <3>1 DEF ParseHeader
      <4>3. seen'[x] = seen[x]
          BY <1>2, <2>1, <4>2
      <4> QED BY <4>1, <4>3
    <3>2. CASE TakeRead(e)
      <4>1. UNCHANGED <<inbox, seen, taken>>
          BY <3>2 DEF TakeRead
      <4>2. UNCHANGED <<got, buffer>>
            \/ \E u, r : got' = [got EXCEPT ![e] = u] /\ buffer' = [buffer EXCEPT ![e] = r]
          BY <3>2 DEF TakeRead
      <4> QED BY <1>2, <2>1, <4>1, <4>2
    <3>3. CASE ReadPayload(e)
      <4>1. UNCHANGED <<seen, taken>>
            /\ (inbox' = inbox \/ \E v : inbox' = [inbox EXCEPT ![e] = v])
          BY <3>3 DEF ReadPayload
      <4>2. /\ got' = got \/ \E u : got' = [got EXCEPT ![e] = u]
            /\ buffer' = buffer \/ \E r : buffer' = [buffer EXCEPT ![e] = r]
          BY <3>3 DEF ReadPayload
      <4> QED BY <1>2, <2>1, <4>1, <4>2
    <3> QED BY <3>1, <3>2, <3>3
  <2>3. QueueAt(x, l)'
      BY <2>0, <2>1, <2>2, QueueStays
  <2> QED BY <2>2, <2>3 DEF Newer
<1> QED BY <1>1, <1>2

LEMMA OrderNext ==
    ASSUME IInv, IInv', Sizes, Reads, [Next]_vars, Ordered
    PROVE  Ordered'
<1> SUFFICES ASSUME NEW x \in Ends PROVE OrderAt(x)'
    BY DEF Ordered
<1>1. \A e \in Ends : CurrentAt(e)
    BY DEF Ordered, OrderAt
<1>2. CurrentAt(x)'
    BY <1>1, CurrentNext
<1>3. PICK l : QueueAt(x, l)
    BY DEF Ordered, OrderAt
<1>4. ASSUME NEW m, QueueAt(x, m)' PROVE OrderAt(x)'
    BY <1>2, <1>4 DEF OrderAt
<1>5. CASE Next
  <2>1. PICK e \in Ends : UserNext(e) \/ ReaderNext(e) \/ WriterNext(e) \/ AckerNext(e)
                          \/ Overtakes(e) \/ \E m \in Directions : Expire(e, m)
      BY <1>5 DEF Next
  <2>2. CASE ParseHeader(e) \/ TakeRead(e) \/ ReadPayload(e)
      BY <1>3, <1>4, <2>2, ReadQueue
  <2>3. CASE Overtakes(e)
    <3>1. UNCHANGED <<seen, got, buffer, taken>> /\ ~InTurn' /\ taken[Peer(x)] \in Nat
        BY <2>3, TurnLost, BoxFacts DEF Overtakes, readVars
    <3>2. QueueAt(x, l)'
        BY <1>3, <3>1, QueueStays
    <3> QED BY <1>4, <3>2
  <2>4. CASE ~(ParseHeader(e) \/ TakeRead(e) \/ ReadPayload(e) \/ Overtakes(e))
    <3>1. QueueAt(x, l)'
        BY <1>1, <1>3, <2>1, <2>4, QuietQueue DEF ReaderNext
    <3> QED BY <1>4, <3>1
  <2> QED BY <2>2, <2>3, <2>4
<1>6. CASE UNCHANGED vars
  <2>1. QueueAt(x, l)'
      BY <1>3, <1>6 DEF QueueAt, InTurn, vars, readVars
  <2> QED BY <1>4, <2>1
<1> QED BY <1>5, <1>6

LEMMA InitOrdered == Init => Ordered
<1> SUFFICES ASSUME Init, NEW x \in Ends PROVE OrderAt(x)
    BY DEF Ordered
<1>1. CurrentAt(x)
    BY DEF Init, CurrentAt, Asked, Idle, Directions
<1>2. /\ inbox[x] = <<>> /\ seen[x] = {} /\ got[x] = <<>> /\ buffer[x] = <<>>
      /\ taken[Peer(x)] = 0
    BY PeerFacts DEF Init
<1>3. Known(<<>>, <<>>, 0, 0) /\ Order(<<>>, {}, <<>>, 0)
    BY DEF Known, LastIn, Within, Order, Sorted, Rising
<1> QED BY <1>1, <1>2, <1>3 DEF OrderAt, QueueAt

-----------------------------------------------------------------------------
(* The steps of the pipe.                                                  *)

\* The variables of the pipe.
LEMMA StutterPipe ==
    ASSUME UNCHANGED <<taken, seen>>, InTurn' = InTurn,
           \A x \in Ends : Confirmed(x)' = Confirmed(x),
           \A x \in Ends : LastFrame(x)' = LastFrame(x)
    PROVE  UNCHANGED Frames2!vars
BY DEF Frames2!vars, InTurn

LEMMA SameConfirmed ==
    ASSUME NEW x \in Ends, plan' = plan,
           \A n \in Frames(x) : (acker'[x][n] = "gone" /\ n \notin frames'[x])
                                    <=> (acker[x][n] = "gone" /\ n \notin frames[x])
    PROVE  Confirmed(x)' = Confirmed(x)
<1>1. Frames(x)' = Frames(x)
    BY DEF Frames, Calls
<1> QED BY <1>1 DEF Confirmed

LEMMA SameLast ==
    ASSUME NEW x \in Ends, got'[x] = got[x]
    PROVE  LastFrame(x)' = LastFrame(x)
BY DEF LastFrame, OfFrames

LEMMA QuietPipe ==
    ASSUME UNCHANGED <<plan, taken, seen, got, acker, frames>>, InTurn' = InTurn
    PROVE  UNCHANGED Frames2!vars
<1>1. \A x \in Ends : Confirmed(x)' = Confirmed(x)
    BY SameConfirmed
<1>2. \A x \in Ends : LastFrame(x)' = LastFrame(x)
    BY SameLast
<1> QED BY <1>1, <1>2, StutterPipe

\* putFrame sends the next frame.
LEMMA SendPipe ==
    ASSUME IInv, NEW e \in Ends, taken' = [taken EXCEPT ![e] = @ + 1],
           UNCHANGED <<plan, seen, got, acker, frames>>, InTurn' = InTurn
    PROVE  Frames2!Next
<1>1. \A x \in Ends : Confirmed(x)' = Confirmed(x)
    BY SameConfirmed
<1>2. \A x \in Ends : LastFrame(x)' = LastFrame(x)
    BY SameLast
<1>3. Frames2!Send(e)
    BY <1>1, <1>2 DEF Frames2!Send, InTurn
<1> QED BY <1>3 DEF Frames2!Next

\* What the writer and the goroutines of its frames do to the entries of BuffrW.
LEMMA EntriesPipe ==
    ASSUME IInv, NEW e \in Ends,
           PutOn(e) \/ WritePayload(e)
               \/ \E n \in Frames(e) : AckTimeout(e, n) \/ AskRepeat(e, n)
    PROVE  UNCHANGED Frames2!vars
<1>1. /\ Types /\ Local(e) /\ frames \in [Ends -> SUBSET Nat] /\ acker = [x \in Ends |-> acker[x]]
      /\ acker[e] \in [Frames(e) -> AckerStates]
    BY DEF IInv, Types, FrameTypes, AckerStates
<1>2. UNCHANGED <<plan, taken, seen, got>> /\ InTurn' = InTurn
  <2>1. UNCHANGED <<plan, taken, seen, got>>
      BY DEF PutOn, WritePayload, AckTimeout, AskRepeat, userVars, called, readVars
  <2> QED BY <2>1, TurnStays DEF WriterNext, AckerNext
<1>3. \A x \in Ends : x # e => acker'[x] = acker[x] /\ frames'[x] = frames[x]
    BY <1>1 DEF PutOn, WritePayload, AckTimeout, AskRepeat, ackVars
<1>4. \A k \in Frames(e) : (acker'[e][k] = "gone" /\ k \notin frames'[e])
                              <=> (acker[e][k] = "gone" /\ k \notin frames[e])
  <2>1. CASE PutOn(e)
    <3>1. acker' = acker /\ frames'[e] = frames[e] \cup {writer[e].n}
          /\ acker[e][writer[e].n] = "none"
        BY <1>1, <2>1 DEF PutOn, ackVars, Local, CountingAt
    <3> QED BY <3>1
  <2>2. ASSUME NEW n \in Frames(e), NEW v \in AckerStates, frames' = frames,
               acker' = [acker EXCEPT ![e][n] = v],
               n \in frames[e] \/ (v # "gone" /\ acker[e][n] # "gone")
        PROVE  \A k \in Frames(e) : (acker'[e][k] = "gone" /\ k \notin frames'[e])
                                       <=> (acker[e][k] = "gone" /\ k \notin frames[e])
    <3>1. \A k \in Frames(e) : acker'[e][k] = IF k = n THEN v ELSE acker[e][k]
        BY <1>1, <2>2, AckerFacts
    <3> QED BY <2>2, <3>1
  <2>3. CASE WritePayload(e)
    <3> DEFINE n == writer[e].n
    <3>1. n \in frames[e] /\ frames' = frames /\ acker' = [acker EXCEPT ![e][n] = "waiting"]
          /\ taken[e] \in Nat
        BY <1>1, <2>3 DEF WritePayload, Local, WritingAt, Types, FrameTypes
    <3>2. n \in Frames(e)
      <4>1. n \in 1 .. taken[e] /\ taken[e] <= made[e]["W"]
          BY <1>1, <3>1 DEF Local, CountingAt
      <4>2. made[e]["W"] \in Nat /\ made[e]["W"] <= Len(Calls(e, "W"))
            /\ Len(Calls(e, "W")) \in Nat
          BY <1>1, PlansAssumption DEF Types, CallTypes, Calls, Directions
      <4> QED BY <3>1, <4>1, <4>2 DEF Frames
    <3> QED BY <2>2, <3>1, <3>2 DEF AckerStates
  <2>4. ASSUME NEW n \in Frames(e), AckTimeout(e, n)
        PROVE  n \in frames[e] /\ frames' = frames /\ acker' = [acker EXCEPT ![e][n] = "repeat"]
      BY <1>1, <2>4 DEF AckTimeout, Local, WritingAt
  <2>5. ASSUME NEW n \in Frames(e), AskRepeat(e, n)
        PROVE  n \in frames[e] /\ frames' = frames /\ acker' = [acker EXCEPT ![e][n] = "gone"]
      BY <1>1, <2>5 DEF AskRepeat, Local, WritingAt
  <2>6. "repeat" \in AckerStates /\ "gone" \in AckerStates
      BY DEF AckerStates
  <2>7. ASSUME NEW n \in Frames(e), AckTimeout(e, n) \/ AskRepeat(e, n)
        PROVE  \A k \in Frames(e) : (acker'[e][k] = "gone" /\ k \notin frames'[e])
                                       <=> (acker[e][k] = "gone" /\ k \notin frames[e])
    <3>1. PICK v \in AckerStates : n \in frames[e] /\ frames' = frames
                                  /\ acker' = [acker EXCEPT ![e][n] = v]
        BY <2>4, <2>5, <2>6, <2>7
    <3> QED BY <2>2, <3>1
  <2> QED BY <2>1, <2>3, <2>7
<1>5. \A x \in Ends : Confirmed(x)' = Confirmed(x)
    BY <1>2, <1>3, <1>4, SameConfirmed
<1>6. \A x \in Ends : LastFrame(x)' = LastFrame(x)
    BY <1>2, SameLast
<1> QED BY <1>2, <1>5, <1>6, StutterPipe

\* The goroutine of a frame takes the acknowledgement and removes the entry.
LEMMA ConfirmPipe ==
    ASSUME IInv, NEW e \in Ends, NEW n \in Frames(e), Acknowledged(e, n)
    PROVE  Frames2!Next
<1>1. /\ Types /\ Local(e) /\ frames \in [Ends -> SUBSET Nat] /\ acker = [x \in Ends |-> acker[x]]
      /\ acker[e] \in [Frames(e) -> AckerStates] /\ Frames(e)' = Frames(e)
    BY DEF IInv, Types, FrameTypes, AckerStates, Acknowledged, userVars, called, Frames, Calls
<1>2. UNCHANGED <<plan, taken, seen, got>> /\ acker' = [acker EXCEPT ![e][n] = "gone"]
      /\ frames' = [frames EXCEPT ![e] = @ \ {n}] /\ acker[e][n] = "waiting"
      /\ InTurn' = InTurn
    BY DEF Acknowledged, userVars, called, readVars, InTurn
<1>3. n \in seen[Peer(e)]
    BY <1>1 DEF Acknowledged, Local, AckAt
<1>4. /\ \A k \in Frames(e) : acker'[e][k] = IF k = n THEN "gone" ELSE acker[e][k]
      /\ frames'[e] = frames[e] \ {n}
      /\ \A x \in Ends : x # e => acker'[x] = acker[x] /\ frames'[x] = frames[x]
    BY <1>1, <1>2, AckerFacts DEF AckerStates
<1>5. Confirmed(e)' = Confirmed(e) \cup {n} /\ n \notin Confirmed(e)
    BY <1>1, <1>2, <1>4 DEF Confirmed
<1>6. \A x \in Ends : x # e => Confirmed(x)' = Confirmed(x)
    BY <1>2, <1>4, SameConfirmed
<1>7. \A x \in Ends : LastFrame(x)' = LastFrame(x)
    BY <1>2, SameLast
<1>8. [x \in Ends |-> Confirmed(x)]' = [[x \in Ends |-> Confirmed(x)] EXCEPT ![e] = @ \cup {n}]
    BY <1>5, <1>6
<1>9. Frames2!Confirm(e, n)
    BY <1>2, <1>3, <1>5, <1>7, <1>8 DEF Frames2!Confirm, InTurn
<1> QED BY <1>3, <1>9 DEF Frames2!Next

\* A header arrives and, if it is not the second of two, counts as arrived.
LEMMA ArrivePipe ==
    ASSUME IInv, NEW e \in Ends, ParseHeader(e), NEW l, QueueAt(e, l)
    PROVE  [Frames2!Next]_(Frames2!vars)
<1>1. UNCHANGED <<plan, taken, got, acker, frames>> /\ InTurn' = InTurn
    BY DEF ParseHeader, called, ackVars, InTurn
<1>2. CASE seen' = seen
    BY <1>1, <1>2, QuietPipe
<1>3. ASSUME NEW n \in 1 .. taken[Peer(e)], InTurn => \A k \in seen[e] : k < n,
             seen' = [seen EXCEPT ![e] = @ \cup {n}]
      PROVE  Frames2!Next
  <2>1. \A x \in Ends : Confirmed(x)' = Confirmed(x)
      BY <1>1, SameConfirmed
  <2>2. \A x \in Ends : LastFrame(x)' = LastFrame(x)
      BY <1>1, SameLast
  <2>3. n <= taken[Peer(e)]
      OBVIOUS
  <2>4. Frames2!Arrive(e, n)
      BY <1>1, <1>3, <2>1, <2>2, <2>3 DEF Frames2!Arrive, InTurn
  <2> QED BY <2>4 DEF Frames2!Next
<1> QED BY <1>2, <1>3, ParseQueue

\* A Read returns bytes of the frame it returned last, or of a newer one.
LEMMA SurfacePipe ==
    ASSUME IInv, IInv', Sizes, Reads, Reads', Ordered,
           NEW e \in Ends, TakeRead(e) \/ ReadPayload(e)
    PROVE  [Frames2!Next]_(Frames2!vars)
<1>1. UNCHANGED <<plan, taken, seen, acker, frames>> /\ InTurn' = InTurn
    BY DEF TakeRead, ReadPayload, called, ackVars, InTurn
<1>2. PICK l : QueueAt(e, l)
    BY DEF Ordered, OrderAt
<1>3. PICK m : QueueAt(e, m)' /\ Newer(e, l, m)
    BY <1>2, ReadQueue
<1>4. LastFrame(e) = l
  <2>1. got[e] \in Seq(Bytes)
      BY DEF Reads
  <2> QED BY <1>2, <2>1, LastKnown
<1>5. LastFrame(e)' = m
  <2>1. got'[e] \in Seq(Bytes)
      BY DEF Reads
  <2> QED BY <1>3, <2>1, LastKnownNext
<1>6. \A x \in Ends : x # e => LastFrame(x)' = LastFrame(x)
  <2>1. ASSUME NEW x \in Ends, x # e PROVE got'[x] = got[x]
    <3>1. PICK a : QueueAt(x, a)
        BY DEF Ordered, OrderAt
    <3> QED BY <2>1, <3>1, ReadQueue
  <2> QED BY <2>1, SameLast
<1>7. \A x \in Ends : Confirmed(x)' = Confirmed(x)
    BY <1>1, SameConfirmed
<1>8. CASE m = l
  <2>1. \A x \in Ends : LastFrame(x)' = LastFrame(x)
      BY <1>4, <1>5, <1>6, <1>8
  <2> QED BY <1>1, <1>7, <2>1, StutterPipe
<1>9. CASE (InTurn => l < m) /\ m \in 1 .. taken[Peer(e)]
  <2>1. [x \in Ends |-> LastFrame(x)]' = [[x \in Ends |-> LastFrame(x)] EXCEPT ![e] = m]
      BY <1>5, <1>6
  <2>2. m <= taken[Peer(e)]
      BY <1>9
  <2>3. Frames2!Surface(e, m)
      BY <1>1, <1>4, <1>7, <1>9, <2>1, <2>2 DEF Frames2!Surface, InTurn
  <2> QED BY <1>9, <2>3 DEF Frames2!Next
<1> QED BY <1>3, <1>8, <1>9 DEF Newer

LEMMA InitPipe == Init => Frames2!Init
<1> SUFFICES ASSUME Init PROVE Frames2!Init
    OBVIOUS
<1>1. ASSUME NEW x \in Ends PROVE Confirmed(x) = {} /\ LastFrame(x) = 0
  <2>1. got[x] = <<>>
      BY DEF Init
  <2>2. OfFrames(x) = {}
      BY <2>1 DEF OfFrames
  <2>3. Confirmed(x) = {}
      BY DEF Init, Confirmed
  <2> QED BY <2>2, <2>3 DEF LastFrame
<1>2. faults["overtaken"] = 0
    BY DEF Init, Kinds
<1> QED BY <1>1, <1>2 DEF Init, Frames2!Init

LEMMA NextPipe ==
    ASSUME IInv, IInv', Sizes, Reads, Reads', Ordered, [Next]_vars
    PROVE  [Frames2!Next]_(Frames2!vars)
<1>1. CASE UNCHANGED <<plan, taken, seen, got, acker, frames>> /\ InTurn' = InTurn
    BY <1>1, QuietPipe
<1>2. ASSUME NEW e \in Ends, ReaderNext(e) PROVE [Frames2!Next]_(Frames2!vars)
  <2>1. CASE ParseHeader(e)
      BY <2>1, ArrivePipe DEF Ordered, OrderAt
  <2>2. CASE TakeRead(e) \/ ReadPayload(e)
      BY <2>2, SurfacePipe
  <2>3. CASE ReadTimesOut(e) \/ ReadFails(e) \/ PushNumbers(e)
      BY <1>1, <1>2, <2>3, TurnStays
      DEF ReadTimesOut, ReadFails, PushNumbers, called, readVars, ackVars
  <2> QED BY <1>2, <2>1, <2>2, <2>3 DEF ReaderNext
<1>3. ASSUME NEW e \in Ends, WriterNext(e) PROVE [Frames2!Next]_(Frames2!vars)
  <2>1. CASE TakeWrite(e)
    <3>1. UNCHANGED <<plan, seen, got, acker, frames>>
        BY <2>1 DEF TakeWrite, called, readVars
    <3>2. taken' = taken \/ taken' = [taken EXCEPT ![e] = @ + 1]
        BY <2>1 DEF TakeWrite, PutFrame
    <3> QED BY <1>1, <1>3, <3>1, <3>2, SendPipe, TurnStays
  <2>2. CASE PutOn(e) \/ WritePayload(e)
      BY <2>2, EntriesPipe
  <2>3. CASE WriteHeader(e) \/ WriteTimesOut(e) \/ WriteFails(e) \/ NotifyReader(e) \/ SendDone(e)
      BY <1>1, <1>3, <2>3, TurnStays
      DEF WriteHeader, WriteTimesOut, WriteFails, AbandonFrame, NotifyReader, SendDone, userVars,
          called, readVars, ackVars
  <2> QED BY <1>3, <2>1, <2>2, <2>3 DEF WriterNext
<1>4. ASSUME NEW e \in Ends, AckerNext(e) PROVE [Frames2!Next]_(Frames2!vars)
    BY <1>4, ConfirmPipe, EntriesPipe DEF AckerNext
<1>5. ASSUME NEW e \in Ends, UserNext(e) \/ \E m \in Directions : Expire(e, m)
      PROVE  UNCHANGED <<plan, taken, seen, got, acker, frames>> /\ InTurn' = InTurn
    BY <1>5, TurnStays DEF UserNext, Call, Expire, userVars, called, readVars, ackVars
<1>8. ASSUME NEW e \in Ends, Overtakes(e) PROVE Frames2!Next
  <2>1. UNCHANGED <<plan, taken, seen, got, acker, frames>> /\ ~InTurn'
      BY <1>8, TurnLost DEF Overtakes, userVars, called, readVars, ackVars
  <2>2. \A x \in Ends : Confirmed(x)' = Confirmed(x)
      BY <2>1, SameConfirmed
  <2>3. \A x \in Ends : LastFrame(x)' = LastFrame(x)
      BY <2>1, SameLast
  <2>4. Frames2!Overtake
      BY <2>1, <2>2, <2>3 DEF Frames2!Overtake, InTurn
  <2> QED BY <2>4 DEF Frames2!Next
<1>6. CASE Next
    BY <1>1, <1>2, <1>3, <1>4, <1>5, <1>6, <1>8 DEF Next
<1>7. CASE UNCHANGED vars
    BY <1>1, <1>7 DEF vars, userVars, called, readVars, ackVars, InTurn
<1> QED BY <1>6, <1>7

\* Both ends together are a pipe that may lose frames, invents none and confirms only
\* those that arrived, whatever the network does, and keeps their order as long as no
\* datagram overtakes another: every behaviour of Conn is one of Pipe, for any calls,
\* any number of failures and frames and headers of any lengths.
THEOREM OrderKept == Spec => KeepsOrder
<1>1. IInv /\ Sizes /\ Reads /\ [Next]_vars => Sizes' /\ Reads'
    BY RoomNext, ArgsNext, ChunksNext, ReadsNext DEF Sizes
<1>2. IInv /\ IInv' /\ Sizes /\ Reads /\ Ordered /\ [Next]_vars => Ordered'
    BY OrderNext
<1>3. IInv /\ IInv' /\ Sizes /\ Reads /\ Reads' /\ Ordered /\ [Next]_vars
        => [Frames2!Next]_(Frames2!vars)
    BY NextPipe
<1> QED
    BY InitSizes, InitReads, InitOrdered, InitPipe, Inductive, <1>1, <1>2, <1>3, PTL
    DEF Spec, KeepsOrder, Frames2!Spec

=============================================================================
