--------------------------- MODULE FramingProofs ---------------------------
(***************************************************************************)
(* What holds of Framing for any messages, any width of the length and any *)
(* capacity of the line.                                                   *)
(*                                                                         *)
(* Aligned speaks of each byte and the next one, which is not enough to    *)
(* know what a whole frame holds without induction; Ordered says where     *)
(* every byte stands with respect to every byte before it in its frame.    *)
(***************************************************************************)
EXTENDS Framing, QueueLemmas, TLAPS

\* Stretches of frames 1 to n, one after the other.
Ordered(s, n) ==
  /\ \A i \in 1..Len(s) : s[i][1] \in 1..n /\ s[i][2] \in 1..Total(s[i][1])
  /\ \A i \in 1..Len(s), k \in Nat :
       i + k <= Len(s) /\ s[i][2] + k <= Total(s[i][1])
         => s[i + k] = <<s[i][1], s[i][2] + k>>
  /\ \A i \in 1..(Len(s) - 1) :
       s[i][2] = Total(s[i][1]) => s[i + 1] = <<s[i][1] + 1, 1>>

LEMMA Totals ==
  /\ Len(Sizes) \in Nat
  /\ \A m \in Messages : /\ Sizes[m] \in Nat \ {0} /\ Total(m) \in Nat \ {0}
                         /\ Total(m) > LenBytes
BY FrameAssumption DEF Messages, Total

\* A byte is a pair.
LEMMA Pairs ==
  ASSUME NEW s \in Seq(Bytes), NEW i \in 1..Len(s)
  PROVE  /\ s[i] = <<s[i][1], s[i][2]>>
         /\ s[i][1] \in Messages /\ s[i][2] \in Nat \ {0}
<1>1. s[i] \in Messages \X (Nat \ {0})
  BY Element DEF Bytes
<1> QED BY <1>1

\* A piece of an ordered stream is ordered.
LEMMA OrderedPiece ==
  ASSUME NEW s \in Seq(Bytes), NEW n \in Nat, Ordered(s, n),
         NEW t \in Seq(Bytes), NEW d \in Nat, d + Len(t) <= Len(s),
         \A i \in 1..Len(t) : t[i] = s[i + d]
  PROVE  Ordered(t, n)
<1>1. Len(s) \in Nat /\ Len(t) \in Nat /\ \A i \in 1..Len(t) : i + d \in 1..Len(s)
  OBVIOUS
<1>2. \A i \in 1..Len(t) : t[i][1] \in 1..n /\ t[i][2] \in 1..Total(t[i][1])
  BY <1>1 DEF Ordered
<1>3. ASSUME NEW i \in 1..Len(t), NEW k \in Nat,
             i + k <= Len(t), t[i][2] + k <= Total(t[i][1])
      PROVE  t[i + k] = <<t[i][1], t[i][2] + k>>
  <2>1. /\ i + k \in 1..Len(t) /\ (i + d) + k = (i + k) + d /\ (i + d) + k <= Len(s)
        /\ i + d \in 1..Len(s)
    BY <1>1, <1>3
  <2>2. t[i] = s[i + d] /\ t[i + k] = s[(i + d) + k]
    BY <2>1
  <2>3. s[(i + d) + k] = <<s[i + d][1], s[i + d][2] + k>>
    BY <1>3, <2>1, <2>2 DEF Ordered
  <2> QED BY <2>2, <2>3
<1>4. ASSUME NEW i \in 1..(Len(t) - 1), t[i][2] = Total(t[i][1])
      PROVE  t[i + 1] = <<t[i][1] + 1, 1>>
  <2>1. /\ i \in 1..Len(t) /\ i + 1 \in 1..Len(t) /\ (i + d) + 1 = (i + 1) + d
        /\ i + d \in 1..(Len(s) - 1)
    BY <1>1
  <2>2. t[i] = s[i + d] /\ t[i + 1] = s[(i + d) + 1]
    BY <2>1
  <2> QED BY <1>4, <2>1, <2>2 DEF Ordered
<1> QED BY <1>2, <1>3, <1>4 DEF Ordered

\* The frame of a message.
LEMMA FrameOf ==
  ASSUME NEW m \in Messages
  PROVE  /\ Frame(m) \in Seq(Bytes) /\ Len(Frame(m)) = Total(m)
         /\ \A i \in 1..Total(m) : Frame(m)[i] = <<m, i>>
BY Totals DEF Frame, Bytes, Total

\* A frame behind the last byte of the frame before.
LEMMA OrderedAppend ==
  ASSUME NEW s \in Seq(Bytes), NEW n \in Nat, n + 1 \in Messages, Ordered(s, n),
         s # <<>> => s[Len(s)] = <<n, Total(n)>>
  PROVE  LET t == s \o Frame(n + 1)
         IN /\ Ordered(t, n + 1) /\ t \in Seq(Bytes) /\ t # <<>>
            /\ t[Len(t)] = <<n + 1, Total(n + 1)>>
            /\ t[1] = IF s = <<>> THEN <<n + 1, 1>> ELSE s[1]
<1> DEFINE f == Frame(n + 1)
           t == s \o f
           L == Len(s)
<1>1. /\ f \in Seq(Bytes) /\ Len(f) = Total(n + 1) /\ Total(n + 1) \in Nat \ {0}
      /\ \A i \in 1..Total(n + 1) : f[i] = <<n + 1, i>>
  BY FrameOf, Totals
<1> HIDE DEF f
<1>2. /\ t \in Seq(Bytes) /\ Len(t) = L + Total(n + 1) /\ L \in Nat
      /\ \A i \in 1..L : t[i] = s[i]
      /\ \A i \in 1..Total(n + 1) : t[L + i] = <<n + 1, i>>
  <2>1. /\ t \in Seq(Bytes) /\ Len(t) = L + Len(f) /\ L \in Nat
        /\ \A i \in 1..L : t[i] = s[i]
        /\ \A i \in 1..Len(f) : t[L + i] = f[i]
    <3>1. f \in Seq(Bytes)
      BY <1>1
    <3> QED BY <3>1
  <2> QED BY <1>1, <2>1
<1> HIDE DEF t
<1>3. ASSUME NEW i \in 1..Len(t)
      PROVE  i \in 1..L \/ (i - L \in 1..Total(n + 1) /\ t[i] = <<n + 1, i - L>>)
  <2>1. CASE i > L
    <3>1. i - L \in 1..Total(n + 1) /\ L + (i - L) = i
      BY <1>1, <1>2, <2>1
    <3> QED BY <1>2, <3>1
  <2>2. CASE i <= L
    BY <1>2, <2>2
  <2> QED BY <1>2, <2>1, <2>2
<1>4. ASSUME NEW i \in 1..Len(t)
      PROVE  t[i][1] \in 1..(n + 1) /\ t[i][2] \in 1..Total(t[i][1])
  <2>1. CASE i \in 1..L
    BY <1>2, <2>1 DEF Ordered
  <2>2. CASE i - L \in 1..Total(n + 1) /\ t[i] = <<n + 1, i - L>>
    <3>1. t[i][1] = n + 1 /\ t[i][2] = i - L
      BY <2>2
    <3> QED BY <2>2, <3>1
  <2> QED BY <1>3, <2>1, <2>2
<1>5. ASSUME NEW i \in 1..Len(t), NEW k \in Nat,
             i + k <= Len(t), t[i][2] + k <= Total(t[i][1])
      PROVE  t[i + k] = <<t[i][1], t[i][2] + k>>
  <2>1. CASE i \in 1..L /\ i + k <= L
    <3>1. i + k \in 1..L /\ t[i] = s[i] /\ t[i + k] = s[i + k]
      BY <1>2, <2>1
    <3> QED BY <1>5, <2>1, <3>1 DEF Ordered
  <2>2. CASE i \in 1..L /\ i + k > L
    <3>1. /\ L - i \in Nat /\ i + (L - i) = L /\ L - i < k /\ t[i] = s[i] /\ s # <<>>
      BY <1>2, <2>2
    <3>2. /\ s[i][1] \in Messages /\ s[i][2] \in Nat /\ Total(s[i][1]) \in Nat
      BY <2>2, Pairs, Totals
    <3>3. s[i][2] + (L - i) <= Total(s[i][1])
      BY <1>2, <1>5, <2>2, <3>1, <3>2
    <3>4. s[L] = <<s[i][1], s[i][2] + (L - i)>>
      <4>1. i \in 1..Len(s) /\ L - i \in Nat /\ i + (L - i) <= Len(s)
        BY <1>2, <2>2, <3>1
      <4>2. s[i + (L - i)] = <<s[i][1], s[i][2] + (L - i)>>
        BY <3>3, <4>1 DEF Ordered
      <4> QED BY <3>1, <4>2
    <3>5. s[i][1] = n /\ s[i][2] + (L - i) = Total(n)
      BY <3>1, <3>4
    <3> QED BY <1>2, <1>5, <2>2, <3>1, <3>2, <3>5
  <2>3. CASE i - L \in 1..Total(n + 1) /\ t[i] = <<n + 1, i - L>>
    <3>1. t[i][1] = n + 1 /\ t[i][2] = i - L
      BY <2>3
    <3>2. (i - L) + k \in 1..Total(n + 1) /\ L + ((i - L) + k) = i + k
      BY <1>1, <1>2, <1>5, <2>3, <3>1
    <3> QED BY <1>2, <3>1, <3>2
  <2> QED BY <1>2, <1>3, <2>1, <2>2, <2>3
<1>6. ASSUME NEW i \in 1..(Len(t) - 1), t[i][2] = Total(t[i][1])
      PROVE  t[i + 1] = <<t[i][1] + 1, 1>>
  <2>1. CASE i \in 1..(L - 1)
    <3>1. i \in 1..L /\ i + 1 \in 1..L /\ t[i] = s[i] /\ t[i + 1] = s[i + 1]
      BY <1>2, <2>1
    <3> QED BY <1>6, <2>1, <3>1 DEF Ordered
  <2>2. CASE i = L
    <3>1. s # <<>> /\ t[i] = <<n, Total(n)>> /\ t[L + 1] = <<n + 1, 1>>
      BY <1>1, <1>2, <2>2
    <3> QED BY <2>2, <3>1
  <2>3. CASE i > L
    <3>1. i \in 1..Len(t) /\ i - L \in 1..(Total(n + 1) - 1)
      BY <1>1, <1>2, <2>3
    <3>2. t[i] = <<n + 1, i - L>>
      BY <1>2, <1>3, <2>3, <3>1
    <3> QED BY <1>1, <1>6, <3>1, <3>2
  <2> QED BY <1>2, <2>1, <2>2, <2>3
<1>7. t # <<>> /\ t[Len(t)] = <<n + 1, Total(n + 1)>>
  <2>1. Total(n + 1) \in 1..Total(n + 1) /\ Len(t) # 0
    BY <1>1, <1>2
  <2> QED BY <1>2, <2>1
<1>8. t[1] = IF s = <<>> THEN <<n + 1, 1>> ELSE s[1]
  <2>1. CASE s = <<>>
    <3>1. L = 0 /\ 1 \in 1..Total(n + 1) /\ L + 1 = 1
      BY <1>1, <2>1
    <3> QED BY <1>2, <2>1, <3>1
  <2>2. CASE s # <<>>
    <3>1. 1 \in 1..L
      BY <1>2, <2>2
    <3> QED BY <1>2, <2>2, <3>1
  <2> QED BY <2>1, <2>2
<1>9. Ordered(t, n + 1)
  BY <1>4, <1>5, <1>6 DEF Ordered
<1> QED BY <1>2, <1>7, <1>8, <1>9 DEF t, f

----------------------------------------------------------------------------
(* Cutting the stream where a read ends.                                   *)

LEMMA MinOf ==
  ASSUME NEW a \in Int, NEW b \in Int
  PROVE  Min({a, b}) \in {a, b} /\ Min({a, b}) <= a /\ Min({a, b}) <= b
<1>1. \E x \in {a, b} : \A y \in {a, b} : x <= y
  <2>1. CASE a <= b
    BY <2>1
  <2>2. CASE ~(a <= b)
    BY <2>2
  <2> QED BY <2>1, <2>2
<1>2. Min({a, b}) \in {a, b} /\ \A y \in {a, b} : Min({a, b}) <= y
  BY <1>1 DEF Min
<1> QED BY <1>2

Front(b, c) == SubSeq(b, 1, c)
Rest(b, c)  == SubSeq(b, c + 1, Len(b))

\* Bytes that move from the front of one sequence to the end of another.
LEMMA Shift ==
  ASSUME NEW S, NEW a \in Seq(S), NEW b \in Seq(S), NEW c \in 0..Len(b)
  PROVE  /\ (a \o Front(b, c)) \in Seq(S) /\ Rest(b, c) \in Seq(S)
         /\ Len(a \o Front(b, c)) = Len(a) + c
         /\ Len(Rest(b, c)) = Len(b) - c
         /\ (a \o Front(b, c)) \o Rest(b, c) = a \o b
<1> DEFINE h == Front(b, c)
           f == a \o h
           r == Rest(b, c)
<1>1. /\ h \in Seq(S) /\ r \in Seq(S) /\ Len(h) = c /\ Len(r) = Len(b) - c
      /\ \A i \in 1..c : h[i] = b[i]
      /\ \A i \in 1..(Len(b) - c) : r[i] = b[c + i]
      /\ Len(b) \in Nat /\ Len(a) \in Nat
  BY DEF Front, Rest
<1> HIDE DEF h, r
<1>2. /\ f \in Seq(S) /\ Len(f) = Len(a) + c
      /\ \A i \in 1..Len(a) : f[i] = a[i]
      /\ \A i \in 1..c : f[Len(a) + i] = h[i]
  <2>1. h \in Seq(S)
    BY <1>1
  <2>2. /\ f \in Seq(S) /\ Len(f) = Len(a) + Len(h)
        /\ \A i \in 1..Len(a) : f[i] = a[i]
        /\ \A i \in 1..Len(h) : f[Len(a) + i] = h[i]
    BY <2>1
  <2> QED BY <1>1, <2>2
<1> HIDE DEF f
<1>3. /\ (f \o r) \in Seq(S) /\ Len(f \o r) = Len(a) + Len(b)
      /\ \A i \in 1..(Len(a) + c) : (f \o r)[i] = f[i]
      /\ \A i \in 1..(Len(b) - c) : (f \o r)[Len(a) + c + i] = r[i]
  <2>1. f \in Seq(S) /\ r \in Seq(S)
    BY <1>1, <1>2
  <2>2. /\ (f \o r) \in Seq(S) /\ Len(f \o r) = Len(f) + Len(r)
        /\ \A i \in 1..Len(f) : (f \o r)[i] = f[i]
        /\ \A i \in 1..Len(r) : (f \o r)[Len(f) + i] = r[i]
    BY <2>1
  <2> QED BY <1>1, <1>2, <2>2
<1>4. /\ (a \o b) \in Seq(S) /\ Len(a \o b) = Len(a) + Len(b)
      /\ \A i \in 1..Len(a) : (a \o b)[i] = a[i]
      /\ \A i \in 1..Len(b) : (a \o b)[Len(a) + i] = b[i]
  BY <1>1
<1>5. ASSUME NEW i \in 1..(Len(a) + Len(b)) PROVE (f \o r)[i] = (a \o b)[i]
  <2>1. CASE i <= Len(a)
    <3>1. i \in 1..Len(a) /\ i \in 1..(Len(a) + c)
      BY <1>1, <2>1
    <3> QED BY <1>2, <1>3, <1>4, <3>1
  <2>2. CASE i > Len(a) /\ i <= Len(a) + c
    <3>1. /\ i - Len(a) \in 1..c /\ i - Len(a) \in 1..Len(b) /\ i \in 1..(Len(a) + c)
          /\ Len(a) + (i - Len(a)) = i
      BY <1>1, <2>2
    <3>2. (f \o r)[i] = f[i] /\ f[i] = h[i - Len(a)] /\ h[i - Len(a)] = b[i - Len(a)]
      BY <1>1, <1>2, <1>3, <3>1
    <3>3. (a \o b)[i] = b[i - Len(a)]
      BY <1>4, <3>1
    <3> QED BY <3>2, <3>3
  <2>3. CASE i > Len(a) + c
    <3>1. /\ i - (Len(a) + c) \in 1..(Len(b) - c) /\ i - Len(a) \in 1..Len(b)
          /\ Len(a) + c + (i - (Len(a) + c)) = i
          /\ c + (i - (Len(a) + c)) = i - Len(a) /\ Len(a) + (i - Len(a)) = i
      BY <1>1, <2>3
    <3>2. (f \o r)[i] = r[i - (Len(a) + c)] /\ r[i - (Len(a) + c)] = b[i - Len(a)]
      BY <1>1, <1>3, <3>1
    <3>3. (a \o b)[i] = b[i - Len(a)]
      BY <1>4, <3>1
    <3> QED BY <3>2, <3>3
  <2>4. \/ i <= Len(a)
        \/ i > Len(a) /\ i <= Len(a) + c
        \/ i > Len(a) + c
    <3>1. i \in Int /\ Len(a) \in Int /\ c \in Int
      BY <1>1
    <3> QED BY <3>1
  <2> QED BY <2>1, <2>2, <2>3, <2>4
<1>6. f \o r = a \o b
  BY <1>3, <1>4, <1>5, SameSeq
<1> QED BY <1>1, <1>2, <1>6 DEF f, r, h

\* The ordered stream s begins at place p of message m.
Leads(s, n, m, p) == Ordered(s, n) /\ s[1] = <<m, p>>

\* The front of an ordered stream taken off, within one frame.
LEMMA TakeFront ==
  ASSUME NEW a \in Seq(Bytes), NEW r \in Seq(Bytes), NEW n \in Nat, a # <<>>,
         NEW m \in Messages, NEW p \in Nat \ {0},
         Leads(a \o r, n, m, p),
         p + Len(a) <= Total(m) + 1
  PROVE  /\ \A i \in 1..Len(a) : a[i] = <<m, (p - 1) + i>>
         /\ Ordered(r, n) /\ m \in 1..n
         /\ r # <<>> =>
              /\ r[1] = IF p + Len(a) <= Total(m) THEN <<m, p + Len(a)>> ELSE <<m + 1, 1>>
              /\ r[Len(r)] = (a \o r)[Len(a \o r)]
         /\ r = <<>> => (a \o r)[Len(a \o r)] = <<m, (p - 1) + Len(a)>>
<1> DEFINE s == a \o r
           d == Len(a)
<1>1. /\ s \in Seq(Bytes) /\ Len(s) = d + Len(r) /\ d \in Nat \ {0} /\ Len(r) \in Nat
      /\ \A i \in 1..d : s[i] = a[i]
      /\ \A i \in 1..Len(r) : s[d + i] = r[i]
  <2>1. /\ s \in Seq(Bytes) /\ Len(s) = Len(a) + Len(r) /\ Len(a) \in Nat /\ Len(r) \in Nat
        /\ \A i \in 1..Len(a) : s[i] = a[i]
        /\ \A i \in 1..Len(r) : s[Len(a) + i] = r[i]
    BY Concat
  <2>2. Len(a) # 0
    OBVIOUS
  <2> QED BY <2>1, <2>2
<1>2. Ordered(s, n) /\ s[1] = <<m, p>>
  BY DEF Leads
<1> HIDE DEF s, d
<1>3. Total(m) \in Nat /\ p + d <= Total(m) + 1
  BY Totals DEF d
<1>4. 1 \in 1..Len(s) /\ s[1][1] = m /\ s[1][2] = p
  BY <1>1, <1>2
<1>5. m \in 1..n
  BY <1>2, <1>4 DEF Ordered
<1>6. ASSUME NEW k \in Nat, 1 + k <= Len(s), p + k <= Total(m)
      PROVE  s[1 + k] = <<m, p + k>>
  BY <1>2, <1>4, <1>6 DEF Ordered
<1>7. \A i \in 1..d : s[i] = <<m, (p - 1) + i>>
  <2>1. ASSUME NEW i \in 1..d PROVE s[i] = <<m, (p - 1) + i>>
    <3>1. /\ i - 1 \in Nat /\ 1 + (i - 1) = i /\ 1 + (i - 1) <= Len(s)
          /\ p + (i - 1) <= Total(m) /\ p + (i - 1) = (p - 1) + i
      BY <1>1, <1>3
    <3>2. s[1 + (i - 1)] = <<m, p + (i - 1)>>
      BY <1>6, <3>1
    <3> QED BY <3>1, <3>2
  <2> QED BY <2>1
<1>8. Ordered(r, n)
  <2>1. d \in Nat /\ d + Len(r) <= Len(s) /\ \A i \in 1..Len(r) : r[i] = s[i + d]
    BY <1>1
  <2> QED BY <1>1, <1>2, <2>1, OrderedPiece
<1>9. ASSUME r # <<>>
      PROVE  /\ r[1] = IF p + d <= Total(m) THEN <<m, p + d>> ELSE <<m + 1, 1>>
             /\ r[Len(r)] = s[Len(s)]
  <2>1. Len(r) \in Nat \ {0}
    BY <1>1, <1>9
  <2>2. 1 \in 1..Len(r) /\ Len(r) \in 1..Len(r) /\ d + 1 = 1 + d
    BY <1>1, <2>1
  <2>3. r[1] = s[1 + d] /\ r[Len(r)] = s[Len(s)]
    BY <1>1, <2>2
  <2>4. CASE p + d <= Total(m)
    <3>1. 1 + d <= Len(s) /\ d \in Nat
      BY <1>1, <2>1
    <3> QED BY <1>6, <2>3, <2>4, <3>1
  <2>5. CASE ~(p + d <= Total(m))
    <3>1. (p - 1) + d = Total(m) /\ d \in 1..d /\ d \in 1..(Len(s) - 1)
      BY <1>1, <1>3, <2>1, <2>5
    <3>2. s[d] = <<m, Total(m)>>
      BY <1>7, <3>1
    <3>3. s[d][2] = Total(s[d][1]) /\ s[d][1] = m
      BY <3>2
    <3>4. s[d + 1] = <<m + 1, 1>>
      BY <1>2, <3>1, <3>3 DEF Ordered
    <3> QED BY <2>2, <2>3, <2>5, <3>4
  <2> QED BY <2>3, <2>4, <2>5
<1>10. ASSUME r = <<>> PROVE s[Len(s)] = <<m, (p - 1) + d>>
  <2>1. Len(s) = d /\ d \in 1..d
    BY <1>1, <1>10
  <2> QED BY <1>7, <2>1
<1>11. \A i \in 1..d : a[i] = <<m, (p - 1) + i>>
  BY <1>1, <1>7
<1> QED BY <1>5, <1>8, <1>9, <1>10, <1>11 DEF s, d

----------------------------------------------------------------------------
(* What recvMsg makes of the bytes it has read.                            *)

LEMMA Pieces ==
  ASSUME NEW m \in Messages
  PROVE  /\ Length(m) \in Seq(Bytes) /\ Len(Length(m)) = LenBytes
         /\ \A i \in 1..LenBytes : Length(m)[i] = <<m, i>>
         /\ Body(m) \in Seq(Bytes) /\ Len(Body(m)) = Sizes[m]
         /\ \A i \in 1..Sizes[m] : Body(m)[i] = <<m, LenBytes + i>>
<1>1. LenBytes \in Nat /\ Sizes[m] \in Nat
  BY Totals, FrameAssumption
<1>2. /\ \A i \in 1..LenBytes : <<m, i>> \in Bytes
      /\ \A i \in 1..Sizes[m] : <<m, LenBytes + i>> \in Bytes
  BY <1>1 DEF Bytes
<1>3. /\ Length(m) \in Seq(Bytes) /\ Len(Length(m)) = LenBytes
      /\ \A i \in 1..LenBytes : Length(m)[i] = <<m, i>>
  BY <1>1, <1>2 DEF Length
<1>4. /\ Body(m) \in Seq(Bytes) /\ Len(Body(m)) = Sizes[m]
      /\ \A i \in 1..Sizes[m] : Body(m)[i] = <<m, LenBytes + i>>
  BY <1>1, <1>2 DEF Body
<1> QED BY <1>3, <1>4

LEMMA MeaningIsMessage ==
  ASSUME NEW bytes
  PROVE  Meaning(bytes) \in Messages \cup {Stray}
BY DEF Meaning

LEMMA MeaningOfBody ==
  ASSUME NEW m \in Messages
  PROVE  Meaning(Body(m)) = m
<1>1. ASSUME NEW k \in Messages, Body(k) = Body(m) PROVE k = m
  <2>1. Sizes[m] \in Nat \ {0} /\ Sizes[k] \in Nat \ {0}
    BY Totals
  <2>2. 1 \in 1..Sizes[m] /\ 1 \in 1..Sizes[k]
    BY <2>1
  <2>3. Body(m)[1] = <<m, LenBytes + 1>> /\ Body(k)[1] = <<k, LenBytes + 1>>
    BY <2>2, Pieces
  <2> QED BY <1>1, <2>3
<1> QED BY <1>1 DEF Meaning

----------------------------------------------------------------------------
(* The inductive invariant.                                                *)

\* Where the stream s stands when n messages were sent, g were read, the
\* writer's end is cl, and recvMsg is at p and wants nd bytes.
Placing(s, n, g, cl, p, nd) ==
  /\ Ordered(s, n)
  /\ Len(g) <= n /\ \A i \in 1..Len(g) : g[i] = i
  /\ s # <<>> => s[1] = <<Len(g) + 1, IF p = "body" THEN LenBytes + 1 ELSE 1>>
  /\ cl = "no" => IF s = <<>> THEN Len(g) = n /\ p # "body"
                  ELSE s[Len(s)] = <<n, Total(n)>>
  /\ p = "body" => Len(g) + 1 \in 1..n /\ nd = Sizes[Len(g) + 1]

Placed == inStep => Placing(Stream, sent, got, closed, rpc, need)

Control ==
  /\ rpc \in {"idle", "select"} => buf = <<>>
  /\ rpc = "length" => need = LenBytes
  /\ wpc # "write" => left = <<>>
  /\ wpc = "select" => sent < Len(Sizes)
  /\ closed # "no" => wpc = "idle"
  /\ closed = "reset" => line = <<>>

IInv == TypeOK /\ Control /\ Placed

LEMMA InitIInv == Init => IInv
<1> SUFFICES ASSUME Init PROVE IInv
  OBVIOUS
<1>1. Len(Sizes) \in Nat /\ <<>> \in Seq(Bytes) /\ Len(<<>>) = 0
  BY Totals
<1>2. TypeOK
  BY <1>1, Totals DEF Init, TypeOK
<1>3. Control
  BY DEF Init, Control
<1>4. Stream = <<>>
  BY DEF Init, Stream
<1>5. Placed
  BY <1>1, <1>4 DEF Init, Placed, Placing, Ordered
<1> QED BY <1>2, <1>3, <1>5 DEF IInv

\* What a read takes off the line, and what it leaves.
LEMMA Cutting ==
  ASSUME TypeOK
  PROVE  LET rest == SubSeq(line, Chunk + 1, Len(line))
         IN /\ Chunk \in Nat /\ Chunk <= arrived /\ Chunk <= need - Len(buf)
            /\ Filled \in Seq(Bytes) /\ Len(Filled) = Len(buf) + Chunk
            /\ rest \in Seq(Bytes) /\ Len(rest) = Len(line) - Chunk
            /\ arrived - Chunk \in 0..Len(rest)
            /\ (rest \o left) \in Seq(Bytes)
            /\ Stream = (Filled \o rest) \o left
            /\ Stream = Filled \o (rest \o left)
            /\ Len(buf) + arrived >= need => Len(Filled) = need
            /\ Len(buf) + arrived < need => Len(Filled) < need
<1> DEFINE rest == SubSeq(line, Chunk + 1, Len(line))
<1>1. /\ buf \in Seq(Bytes) /\ line \in Seq(Bytes) /\ left \in Seq(Bytes)
      /\ Len(buf) \in Nat /\ Len(line) \in Nat /\ need \in Nat
      /\ arrived \in Nat /\ arrived <= Len(line) /\ Len(buf) <= need
  BY DEF TypeOK
<1>2. Chunk \in {need - Len(buf), arrived} /\ Chunk <= arrived /\ Chunk <= need - Len(buf)
  <2>1. need - Len(buf) \in Int /\ arrived \in Int
    BY <1>1
  <2> QED BY <2>1, MinOf DEF Chunk
<1>3. Chunk \in Nat /\ Chunk \in 0..Len(line)
  BY <1>1, <1>2
<1>4. /\ Filled \in Seq(Bytes) /\ rest \in Seq(Bytes)
      /\ Len(Filled) = Len(buf) + Chunk /\ Len(rest) = Len(line) - Chunk
      /\ Filled \o rest = buf \o line
  <2>1. buf \in Seq(Bytes) /\ line \in Seq(Bytes) /\ Chunk \in 0..Len(line)
    BY <1>1, <1>3
  <2>2. /\ (buf \o Front(line, Chunk)) \in Seq(Bytes) /\ Rest(line, Chunk) \in Seq(Bytes)
        /\ Len(buf \o Front(line, Chunk)) = Len(buf) + Chunk
        /\ Len(Rest(line, Chunk)) = Len(line) - Chunk
        /\ (buf \o Front(line, Chunk)) \o Rest(line, Chunk) = buf \o line
    BY ONLY <2>1, Shift
  <2>3. Filled = buf \o Front(line, Chunk) /\ rest = Rest(line, Chunk)
    BY DEF Filled, Front, Rest
  <2> QED BY <2>2, <2>3
<1> HIDE DEF rest
<1>5. Stream = (Filled \o rest) \o left
  <2>1. Stream = (buf \o line) \o left
    <3>1. buf \o (line \o left) = (buf \o line) \o left
      BY <1>1, Assoc
    <3> QED BY <3>1 DEF Stream
  <2> QED BY <1>4, <2>1
<1>6. Stream = Filled \o (rest \o left)
  <2>1. Filled \in Seq(Bytes) /\ rest \in Seq(Bytes) /\ left \in Seq(Bytes)
    BY <1>1, <1>4
  <2>2. Filled \o (rest \o left) = (Filled \o rest) \o left
    BY ONLY <2>1, Assoc
  <2> QED BY <1>5, <2>2
<1>7. (rest \o left) \in Seq(Bytes)
  BY <1>1, <1>4, Concat
<1>8. /\ arrived - Chunk \in 0..Len(rest)
      /\ Len(buf) + arrived >= need => Len(Filled) = need
      /\ Len(buf) + arrived < need => Len(Filled) < need
  BY <1>1, <1>2, <1>3, <1>4
<1> QED BY <1>2, <1>3, <1>4, <1>5, <1>6, <1>7, <1>8 DEF rest

----------------------------------------------------------------------------
(* Types and control.                                                      *)

\* What a write moves from the buffer to the line.
LEMMA Moving ==
  ASSUME TypeOK, Room
  PROVE  LET k == Min({Len(left), Capacity - Len(line)})
         IN /\ k \in 0..Len(left)
            /\ (line \o Front(left, k)) \in Seq(Bytes) /\ Rest(left, k) \in Seq(Bytes)
            /\ Len(line) <= Len(line \o Front(left, k))
            /\ (line \o Front(left, k)) \o Rest(left, k) = line \o left
            /\ k = Len(left) => Rest(left, k) = <<>>
<1> DEFINE k == Min({Len(left), Capacity - Len(line)})
<1>1. /\ line \in Seq(Bytes) /\ left \in Seq(Bytes)
      /\ Len(line) \in Nat /\ Len(left) \in Nat /\ Capacity \in Nat /\ Len(line) < Capacity
  BY FrameAssumption DEF TypeOK, Room
<1>2. k \in {Len(left), Capacity - Len(line)} /\ k <= Len(left)
  <2>1. Len(left) \in Int /\ Capacity - Len(line) \in Int
    BY <1>1
  <2> QED BY <2>1, MinOf
<1>3. k \in 0..Len(left)
  BY <1>1, <1>2
<1> HIDE DEF k
<1>4. /\ (line \o Front(left, k)) \in Seq(Bytes) /\ Rest(left, k) \in Seq(Bytes)
      /\ Len(line \o Front(left, k)) = Len(line) + k
      /\ Len(Rest(left, k)) = Len(left) - k
      /\ (line \o Front(left, k)) \o Rest(left, k) = line \o left
  BY <1>1, <1>3, Shift
<1>5. Len(line) <= Len(line \o Front(left, k))
  BY <1>1, <1>3, <1>4
<1>6. k = Len(left) => Rest(left, k) = <<>>
  <2>1. SUFFICES ASSUME k = Len(left) PROVE Rest(left, k) = <<>>
    OBVIOUS
  <2>2. Len(Rest(left, k)) = 0
    BY <1>1, <1>4, <2>1
  <2> QED BY <1>4, <2>2
<1> QED BY <1>3, <1>4, <1>5, <1>6 DEF k

LEMMA WriteMoves ==
  ASSUME Write
  PROVE  LET k == Min({Len(left), Capacity - Len(line)})
         IN /\ line' = line \o Front(left, k) /\ left' = Rest(left, k)
            /\ wpc' = IF k = Len(left) THEN "idle" ELSE "write"
BY DEF Write, Front, Rest

LEMMA TypeStep ==
  ASSUME TypeOK, Control, [Next]_vars
  PROVE  TypeOK'
<1>0. /\ LenBytes \in Nat /\ Len(Sizes) \in Nat /\ <<>> \in Seq(Bytes) /\ Len(<<>>) = 0
      /\ \A m \in Messages : Sizes[m] \in Nat
  BY Totals, FrameAssumption
<1>1. CASE SendMsg
  BY <1>1 DEF SendMsg, TypeOK, readerVars
<1>2. CASE BeginWrite
  <2>1. sent + 1 \in Messages /\ sent + 1 \in 0..Len(Sizes)
    BY <1>0, <1>2 DEF BeginWrite, TypeOK, Control, Messages
  <2>2. Frame(sent + 1) \in Seq(Bytes)
    BY <2>1, FrameOf
  <2> QED BY <1>2, <2>1, <2>2 DEF BeginWrite, TypeOK, readerVars
<1>3. CASE SendTimeout
  BY <1>3 DEF SendTimeout, TypeOK, readerVars
<1>4. CASE Write
  <2>1. line' \in Seq(Bytes) /\ left' \in Seq(Bytes) /\ Len(line) <= Len(line')
    BY <1>4, WriteMoves, Moving DEF Write
  <2>2. arrived' = arrived /\ Len(line) \in Nat /\ Len(line') \in Nat
    BY <1>4, <2>1 DEF Write, TypeOK
  <2>3. arrived' \in 0..Len(line')
    BY <2>1, <2>2 DEF TypeOK
  <2>4. wpc' \in {"idle", "write"}
    BY <1>4 DEF Write
  <2> QED BY <1>4, <2>1, <2>3, <2>4 DEF Write, TypeOK, readerVars
<1>5. CASE ServerWriteAgain
  BY <1>0, <1>5 DEF ServerWriteAgain, TypeOK, readerVars
<1>6. CASE Close
  <2>1. line' \in Seq(Bytes) /\ arrived' \in 0..Len(line')
    <3>1. CASE line' = line /\ arrived' = arrived
      BY <3>1 DEF TypeOK
    <3>2. CASE line' = <<>> /\ arrived' = 0
      BY <1>0, <3>2
    <3> QED BY <1>6, <3>1, <3>2 DEF Close
  <2>2. closed' \in {"fin", "reset"} /\ wpc' = "idle" /\ left' \in Seq(Bytes)
    BY <1>0, <1>6 DEF Close
  <2> QED BY <1>6, <2>1, <2>2 DEF Close, TypeOK, readerVars
<1>7. CASE Arrive
  <2>1. arrived' \in 0..Len(line)
    BY <1>7 DEF Arrive, TypeOK
  <2> QED BY <1>7, <2>1 DEF Arrive, TypeOK, readerVars, writerVars
<1>8. CASE ServerRecvMsg
  BY <1>0, <1>8 DEF ServerRecvMsg, ReadLength, TypeOK, writerVars
<1>9. CASE ClientRecvMsg
  BY <1>9 DEF ClientRecvMsg, TypeOK, writerVars
<1>10. CASE ClientReadable
  BY <1>0, <1>10 DEF ClientReadable, ReadLength, TypeOK, writerVars
<1>11. CASE ClientTimeout
  BY <1>0, <1>11 DEF ClientTimeout, Return, TypeOK, writerVars
<1>12. ASSUME Consume
       PROVE  line' \in Seq(Bytes) /\ arrived' \in 0..Len(line')
  BY <1>12, Cutting DEF Consume
<1>13. Filled \in Seq(Bytes) /\ Meaning(Filled) \in Messages \cup {Stray}
  BY Cutting, MeaningIsMessage
<1>14. CASE ReadSome
  <2>1. line' \in Seq(Bytes) /\ arrived' \in 0..Len(line')
    BY <1>12, <1>14 DEF ReadSome
  <2>2. Len(Filled) \in Nat /\ Len(Filled) <= need
    BY <1>13, <1>14, Cutting DEF ReadSome, TypeOK
  <2> QED BY <1>13, <1>14, <2>1, <2>2 DEF ReadSome, TypeOK, writerVars
<1>15. CASE ReadHead
  <2>1. line' \in Seq(Bytes) /\ arrived' \in 0..Len(line')
    BY <1>12, <1>15 DEF ReadHead
  <2>2. rpc' = "body" /\ buf' = <<>> /\ need' \in Nat
    BY <1>0, <1>15 DEF ReadHead
  <2> QED BY <1>0, <1>15, <2>1, <2>2 DEF ReadHead, TypeOK, writerVars
<1>16. CASE ReadStrayHead
  <2>1. line' \in Seq(Bytes) /\ arrived' \in 0..Len(line')
    BY <1>12, <1>16 DEF ReadStrayHead
  <2>2. /\ rpc' \in {"idle", "body"} /\ buf' = <<>> /\ need' \in Nat
        /\ last' \in {last, "nomem"}
    BY <1>16 DEF ReadStrayHead, Return
  <2> QED BY <1>0, <1>16, <2>1, <2>2 DEF ReadStrayHead, TypeOK, writerVars
<1>17. CASE ReadBody
  <2>1. line' \in Seq(Bytes) /\ arrived' \in 0..Len(line')
    BY <1>12, <1>17 DEF ReadBody
  <2>2. got' \in Seq(Messages \cup {Stray})
    BY <1>13, <1>17 DEF ReadBody, TypeOK
  <2> QED BY <1>0, <1>17, <2>1, <2>2 DEF ReadBody, Return, TypeOK, writerVars
<1>18. CASE ServerReadAgain
  BY <1>0, <1>18 DEF ServerReadAgain, Return, TypeOK, writerVars
<1>19. CASE EofAtStart
  BY <1>0, <1>19 DEF EofAtStart, Return, TypeOK, writerVars
<1>20. CASE EofInside
  BY <1>0, <1>20 DEF EofInside, Return, TypeOK, writerVars
<1>21. CASE ServerEofBeforeBody
  <2>1. got' \in Seq(Messages \cup {Stray})
    BY <1>21 DEF ServerEofBeforeBody, TypeOK
  <2>2. /\ rpc' = "idle" /\ buf' = <<>> /\ need' = 0 /\ last' = "ok" /\ inStep' = FALSE
        /\ UNCHANGED <<writer, sent, wpc, left, line, arrived, closed>>
    BY <1>21 DEF ServerEofBeforeBody, Return, writerVars
  <2>3. buf' \in Seq(Bytes) /\ need' \in Nat /\ Len(buf') <= need'
    BY <1>0, <2>2
  <2>4. arrived' \in 0..Len(line')
    BY <2>2 DEF TypeOK
  <2> QED BY <2>1, <2>2, <2>3, <2>4 DEF TypeOK
<1>22. CASE ReadError
  BY <1>0, <1>22 DEF ReadError, Return, TypeOK, writerVars
<1>23. CASE UNCHANGED vars
  BY <1>23 DEF vars, writerVars, readerVars, TypeOK
<1> QED
  BY <1>1, <1>2, <1>3, <1>4, <1>5, <1>6, <1>7, <1>8, <1>9, <1>10, <1>11, <1>14,
     <1>15, <1>16, <1>17, <1>18, <1>19, <1>20, <1>21, <1>22, <1>23
     DEF Next, Writing, Reading

LEMMA ControlStep ==
  ASSUME TypeOK, Control, [Next]_vars
  PROVE  Control'
<1>1. CASE SendMsg
  BY <1>1 DEF SendMsg, Control, TypeOK, readerVars
<1>2. CASE BeginWrite
  BY <1>2 DEF BeginWrite, Control, readerVars
<1>3. CASE SendTimeout
  BY <1>3 DEF SendTimeout, Control, readerVars
<1>4. CASE Write
  <2>1. wpc' # "write" => left' = <<>>
    BY <1>4, WriteMoves, Moving DEF Write
  <2>2. wpc' # "select" /\ wpc = "write" /\ closed' = closed
    BY <1>4 DEF Write
  <2> QED BY <1>4, <2>1, <2>2 DEF Write, Control, readerVars
<1>5. CASE ServerWriteAgain
  BY <1>5 DEF ServerWriteAgain, Control, readerVars
<1>6. CASE Close
  BY <1>6 DEF Close, Control, readerVars
<1>7. CASE Arrive
  BY <1>7 DEF Arrive, Control, readerVars, writerVars
<1>8. CASE ServerRecvMsg
  BY <1>8 DEF ServerRecvMsg, ReadLength, Control, writerVars
<1>9. CASE ClientRecvMsg
  BY <1>9 DEF ClientRecvMsg, Control, writerVars
<1>10. CASE ClientReadable
  BY <1>10 DEF ClientReadable, ReadLength, Control, writerVars
<1>11. CASE ClientTimeout
  BY <1>11 DEF ClientTimeout, Return, Control, writerVars
<1>12. ASSUME Consume, closed = "reset" PROVE line' = <<>>
  <2>1. line = <<>> /\ arrived = 0
    BY <1>12 DEF Control, TypeOK
  <2>2. Chunk = 0
    BY <2>1, Cutting
  <2> QED BY <1>12, <2>1, <2>2 DEF Consume
<1>13. CASE ReadSome
  BY <1>12, <1>13 DEF ReadSome, Control, writerVars
<1>14. CASE ReadHead
  BY <1>12, <1>14 DEF ReadHead, Control, writerVars
<1>15. CASE ReadStrayHead
  BY <1>12, <1>15 DEF ReadStrayHead, Return, Control, writerVars
<1>16. CASE ReadBody
  BY <1>12, <1>16 DEF ReadBody, Return, Control, writerVars
<1>17. CASE ServerReadAgain
  BY <1>17 DEF ServerReadAgain, Return, Control, writerVars
<1>18. CASE EofAtStart
  BY <1>18 DEF EofAtStart, Return, Control, writerVars
<1>19. CASE EofInside
  BY <1>19 DEF EofInside, Return, Control, writerVars
<1>20. CASE ServerEofBeforeBody
  BY <1>20 DEF ServerEofBeforeBody, Return, Control, writerVars
<1>21. CASE ReadError
  BY <1>21 DEF ReadError, Return, Control, writerVars
<1>22. CASE UNCHANGED vars
  BY <1>22 DEF vars, writerVars, readerVars, Control
<1> QED
  BY <1>1, <1>2, <1>3, <1>4, <1>5, <1>6, <1>7, <1>8, <1>9, <1>10, <1>11,
     <1>13, <1>14, <1>15, <1>16, <1>17, <1>18, <1>19, <1>20, <1>21, <1>22
     DEF Next, Writing, Reading

----------------------------------------------------------------------------
(* Every step leaves the stream in its place.                              *)

\* Steps that move no byte and do not begin or end a message.
LEMMA Still ==
  ASSUME Placed, inStep, Stream' = Stream, sent' = sent, got' = got, closed' = closed,
         \/ rpc' = rpc /\ need' = need
         \/ rpc # "body" /\ rpc' # "body"
  PROVE  Placed'
<1>1. Placing(Stream, sent, got, closed, rpc, need)
  BY DEF Placed
<1>2. Placing(Stream, sent, got, closed, rpc', need')
  BY <1>1 DEF Placing
<1>3. Placing(Stream', sent', got', closed', rpc', need')
  BY <1>2
<1> QED BY <1>3 DEF Placed

\* A writer that ended leaves the front of the stream.
LEMMA Ended ==
  ASSUME NEW s \in Seq(Bytes), NEW t \in Seq(Bytes), NEW n \in Nat, NEW g,
         NEW cl, NEW p, NEW nd, Placing(s, n, g, cl, p, nd),
         Len(t) <= Len(s), \A i \in 1..Len(t) : t[i] = s[i],
         NEW e, e # "no"
  PROVE  Placing(t, n, g, e, p, nd)
<1>1. Ordered(t, n)
  <2>1. /\ 0 \in Nat /\ 0 + Len(t) <= Len(s) /\ \A i \in 1..Len(t) : t[i] = s[i + 0]
        /\ Ordered(s, n)
    BY DEF Placing
  <2> QED BY <2>1, OrderedPiece
<1>2. ASSUME t # <<>> PROVE s # <<>> /\ t[1] = s[1]
  <2>1. Len(t) \in Nat \ {0} /\ Len(s) \in Nat
    BY <1>2
  <2>2. 1 \in 1..Len(t) /\ Len(s) # 0
    BY <2>1
  <2> QED BY <2>2
<1> QED BY <1>1, <1>2 DEF Placing

\* The next frame behind the stream.
LEMMA Begun ==
  ASSUME NEW s \in Seq(Bytes), NEW n \in Nat, n + 1 \in Messages,
         NEW S, NEW g \in Seq(S), NEW p, NEW nd, Placing(s, n, g, "no", p, nd)
  PROVE  Placing(s \o Frame(n + 1), n + 1, g, "no", p, nd)
<1> DEFINE t == s \o Frame(n + 1)
<1>1. Ordered(s, n) /\ (s # <<>> => s[Len(s)] = <<n, Total(n)>>)
  BY DEF Placing
<1>2. /\ Ordered(t, n + 1) /\ t # <<>>
      /\ t[Len(t)] = <<n + 1, Total(n + 1)>>
      /\ t[1] = IF s = <<>> THEN <<n + 1, 1>> ELSE s[1]
  BY <1>1, OrderedAppend
<1> HIDE DEF t
<1>3. Len(g) \in Nat
  OBVIOUS
<1>4. t[1] = <<Len(g) + 1, IF p = "body" THEN LenBytes + 1 ELSE 1>>
  <2>1. CASE s = <<>>
    <3>1. Len(g) = n /\ p # "body"
      BY <2>1 DEF Placing
    <3> QED BY <1>2, <2>1, <3>1
  <2>2. CASE s # <<>>
    BY <1>2, <2>2 DEF Placing
  <2> QED BY <2>1, <2>2
<1>5. p = "body" => Len(g) + 1 \in 1..(n + 1) /\ nd = Sizes[Len(g) + 1]
  BY <1>3 DEF Placing
<1>6. Len(g) <= n + 1 /\ \A i \in 1..Len(g) : g[i] = i
  BY <1>3 DEF Placing
<1>7. Placing(t, n + 1, g, "no", p, nd)
  BY <1>2, <1>4, <1>5, <1>6 DEF Placing
<1> QED BY <1>7 DEF t

\* The length of the next message is read.
LEMMA HeadTaken ==
  ASSUME NEW a \in Seq(Bytes), NEW r \in Seq(Bytes), NEW n \in 0..Len(Sizes),
         NEW S, NEW g \in Seq(S), NEW cl, NEW nd,
         Placing(a \o r, n, g, cl, "length", nd), Len(a) = LenBytes
  PROVE  LET m == Len(g) + 1
         IN /\ m \in Messages /\ a = Length(m)
            /\ \A k \in Messages : a = Length(k) => k = m
            /\ Placing(r, n, g, cl, "body", Sizes[m])
<1> DEFINE m == Len(g) + 1
           s == a \o r
<1>1. Len(g) \in Nat /\ LenBytes \in Nat \ {0} /\ Len(Sizes) \in Nat /\ n \in Nat
  BY FrameAssumption, Totals
<1>2. s # <<>> /\ s \in Seq(Bytes) /\ 1 \in 1..Len(s)
  <2>1. s \in Seq(Bytes) /\ Len(s) = Len(a) + Len(r) /\ Len(r) \in Nat
    BY Concat
  <2>2. Len(s) \in Nat \ {0}
    BY <1>1, <2>1
  <2> QED BY <2>1, <2>2
<1>3. Ordered(s, n) /\ s[1] = <<m, 1>>
  BY <1>2 DEF Placing
<1>4. m \in 1..n /\ m \in Messages
  <2>1. s[1][1] \in 1..n /\ s[1][1] = m
    BY <1>2, <1>3 DEF Ordered
  <2> QED BY <1>1, <2>1 DEF Messages
<1>5. Sizes[m] \in Nat \ {0} /\ Total(m) = LenBytes + Sizes[m]
  BY <1>4, Totals DEF Total
<1>6. a # <<>> /\ 1 + Len(a) <= Total(m) + 1 /\ 1 \in Nat \ {0}
  BY <1>1, <1>5
<1> HIDE DEF m
<1>7. /\ \A i \in 1..LenBytes : a[i] = <<m, (1 - 1) + i>>
      /\ Ordered(r, n)
      /\ r # <<>> =>
           /\ r[1] = IF 1 + LenBytes <= Total(m) THEN <<m, 1 + LenBytes>> ELSE <<m + 1, 1>>
           /\ r[Len(r)] = s[Len(s)]
      /\ r = <<>> => s[Len(s)] = <<m, (1 - 1) + LenBytes>>
  <2>1. /\ n \in Nat /\ a # <<>> /\ m \in Messages /\ 1 \in Nat \ {0}
        /\ Leads(a \o r, n, m, 1)
        /\ 1 + Len(a) <= Total(m) + 1
    BY <1>1, <1>3, <1>4, <1>6 DEF Leads
  <2>2. /\ \A i \in 1..Len(a) : a[i] = <<m, (1 - 1) + i>>
        /\ Ordered(r, n)
        /\ r # <<>> =>
             /\ r[1] = IF 1 + Len(a) <= Total(m) THEN <<m, 1 + Len(a)>> ELSE <<m + 1, 1>>
             /\ r[Len(r)] = (a \o r)[Len(a \o r)]
        /\ r = <<>> => (a \o r)[Len(a \o r)] = <<m, (1 - 1) + Len(a)>>
    BY <2>1, TakeFront
  <2> QED BY <2>2
<1> HIDE DEF s
<1>8. \A i \in 1..LenBytes : a[i] = <<m, i>>
  BY <1>1, <1>7
<1>9. a = Length(m)
  <2>1. /\ Length(m) \in Seq(Bytes) /\ Len(Length(m)) = Len(a)
        /\ \A i \in 1..Len(a) : Length(m)[i] = a[i]
    BY <1>4, <1>8, Pieces
  <2> QED BY <2>1, SameSeq
<1>10. ASSUME NEW k \in Messages, a = Length(k) PROVE k = m
  <2>1. 1 \in 1..LenBytes
    BY <1>1
  <2>2. a[1] = <<m, 1>> /\ a[1] = <<k, 1>>
    BY <1>8, <1>10, <2>1, Pieces
  <2> QED BY <2>2
<1>11. r # <<>> => r[1] = <<m, LenBytes + 1>> /\ r[Len(r)] = s[Len(s)]
  BY <1>1, <1>5, <1>7
<1>12. cl = "no" => r # <<>> /\ r[Len(r)] = <<n, Total(n)>>
  <2>1. cl = "no" => s[Len(s)] = <<n, Total(n)>>
    BY <1>2 DEF Placing, s
  <2>2. ASSUME r = <<>>, cl = "no" PROVE FALSE
    <3>1. <<m, (1 - 1) + LenBytes>> = <<n, Total(n)>>
      BY <1>7, <2>1, <2>2
    <3>2. (1 - 1) + LenBytes = Total(m)
      BY <3>1
    <3> QED BY <1>1, <1>5, <3>2
  <2> QED BY <1>11, <2>1, <2>2
<1>13. Len(g) <= n /\ \A i \in 1..Len(g) : g[i] = i
  BY DEF Placing
<1>14. Placing(r, n, g, cl, "body", Sizes[m])
  BY <1>4, <1>7, <1>11, <1>12, <1>13 DEF Placing, m
<1> QED BY <1>4, <1>9, <1>10, <1>14 DEF m

\* The message is read.
LEMMA BodyTaken ==
  ASSUME NEW a \in Seq(Bytes), NEW r \in Seq(Bytes), NEW n \in 0..Len(Sizes),
         NEW S, Messages \subseteq S, NEW g \in Seq(S), NEW cl, NEW nd,
         Placing(a \o r, n, g, cl, "body", nd), Len(a) = nd
  PROVE  LET m == Len(g) + 1
         IN /\ m \in 1..n /\ Meaning(a) = m
            /\ Placing(r, n, Append(g, m), cl, "idle", 0)
<1> DEFINE m == Len(g) + 1
           s == a \o r
<1>1. /\ Len(g) \in Nat /\ LenBytes \in Nat \ {0} /\ Len(Sizes) \in Nat /\ n \in Nat
  BY FrameAssumption, Totals
<1>2. m \in 1..n /\ m \in Messages /\ Len(a) = Sizes[m]
  BY <1>1 DEF Placing, Messages
<1>3. Sizes[m] \in Nat \ {0} /\ Total(m) = LenBytes + Sizes[m]
  BY <1>2, Totals DEF Total
<1>4. s # <<>> /\ s \in Seq(Bytes)
  <2>1. s \in Seq(Bytes) /\ Len(s) = Len(a) + Len(r) /\ Len(r) \in Nat
    BY Concat
  <2>2. Len(s) \in Nat \ {0}
    BY <1>2, <1>3, <2>1
  <2> QED BY <2>1, <2>2
<1>5. Ordered(s, n) /\ s[1] = <<m, LenBytes + 1>>
  BY <1>4 DEF Placing
<1>6. a # <<>> /\ (LenBytes + 1) + Len(a) <= Total(m) + 1 /\ LenBytes + 1 \in Nat \ {0}
  BY <1>1, <1>2, <1>3
<1> HIDE DEF m
<1>7. /\ \A i \in 1..Len(a) : a[i] = <<m, ((LenBytes + 1) - 1) + i>>
      /\ Ordered(r, n)
      /\ r # <<>> =>
           /\ r[1] = IF (LenBytes + 1) + Len(a) <= Total(m)
                     THEN <<m, (LenBytes + 1) + Len(a)>> ELSE <<m + 1, 1>>
           /\ r[Len(r)] = s[Len(s)]
      /\ r = <<>> => s[Len(s)] = <<m, ((LenBytes + 1) - 1) + Len(a)>>
  <2> DEFINE p == LenBytes + 1
  <2>1. /\ n \in Nat /\ a # <<>> /\ m \in Messages /\ p \in Nat \ {0}
        /\ Leads(a \o r, n, m, p) /\ p + Len(a) <= Total(m) + 1
    BY <1>1, <1>2, <1>5, <1>6 DEF Leads
  <2> HIDE DEF p
  <2>2. /\ \A i \in 1..Len(a) : a[i] = <<m, (p - 1) + i>>
        /\ Ordered(r, n)
        /\ r # <<>> =>
             /\ r[1] = IF p + Len(a) <= Total(m) THEN <<m, p + Len(a)>> ELSE <<m + 1, 1>>
             /\ r[Len(r)] = (a \o r)[Len(a \o r)]
        /\ r = <<>> => (a \o r)[Len(a \o r)] = <<m, (p - 1) + Len(a)>>
    BY <2>1, TakeFront
  <2> QED BY <2>2 DEF p
<1> HIDE DEF s
<1>8. \A i \in 1..Sizes[m] : a[i] = <<m, LenBytes + i>>
  <2>1. ASSUME NEW i \in 1..Sizes[m] PROVE a[i] = <<m, LenBytes + i>>
    <3>1. ((LenBytes + 1) - 1) + i = LenBytes + i /\ i \in 1..Len(a)
      BY <1>1, <1>2, <1>3
    <3> QED BY <1>7, <3>1
  <2> QED BY <2>1
<1>9. a = Body(m)
  <2>1. /\ Body(m) \in Seq(Bytes) /\ Len(Body(m)) = Len(a)
        /\ \A i \in 1..Len(a) : Body(m)[i] = a[i]
    BY <1>2, <1>8, Pieces
  <2> QED BY <2>1, SameSeq
<1>10. Meaning(a) = m
  BY <1>2, <1>9, MeaningOfBody
<1>11. /\ Append(g, m) \in Seq(S) /\ Len(Append(g, m)) = m
       /\ \A i \in 1..m : Append(g, m)[i] = i
  <2>1. \A i \in 1..Len(g) : g[i] = i
    BY DEF Placing
  <2>2. m \in S
    BY <1>2
  <2>3. /\ Append(g, m) \in Seq(S) /\ Len(Append(g, m)) = Len(g) + 1
        /\ \A i \in 1..Len(g) : Append(g, m)[i] = g[i]
        /\ Append(g, m)[Len(g) + 1] = m
    BY <2>2
  <2>4. \A i \in 1..m : i \in 1..Len(g) \/ i = Len(g) + 1
    BY <1>1 DEF m
  <2> QED BY <2>1, <2>3, <2>4 DEF m
<1>12. r # <<>> => r[1] = <<m + 1, 1>> /\ r[Len(r)] = s[Len(s)]
  <2>1. ~((LenBytes + 1) + Len(a) <= Total(m))
    BY <1>1, <1>2, <1>3
  <2> QED BY <1>7, <2>1
<1>13. ASSUME cl = "no"
       PROVE  IF r = <<>> THEN m = n ELSE r[Len(r)] = <<n, Total(n)>>
  <2>1. s[Len(s)] = <<n, Total(n)>>
    BY <1>4, <1>13 DEF Placing, s
  <2>2. r = <<>> => m = n
    BY <1>7, <2>1
  <2> QED BY <1>12, <2>1, <2>2
<1>14. m <= n
  BY <1>1, <1>2
<1>15. Placing(r, n, Append(g, m), cl, "idle", 0)
  BY <1>7, <1>11, <1>12, <1>13, <1>14 DEF Placing
<1> QED BY <1>2, <1>10, <1>15 DEF m

LEMMA PlacedStep ==
  ASSUME IInv, [Next]_vars
  PROVE  Placed'
<1> SUFFICES ASSUME inStep' PROVE Placed'
  BY DEF Placed
<1>0. TypeOK /\ Control /\ Placed
  BY DEF IInv
<1>1. CASE SendMsg
  <2>1. UNCHANGED <<buf, line, left, sent, got, closed, rpc, need, inStep>>
    BY <1>1 DEF SendMsg, readerVars
  <2> QED BY <1>0, <2>1, Still DEF Stream
<1>2. CASE BeginWrite
  <2>1. /\ UNCHANGED <<buf, line, got, closed, rpc, need, inStep>>
        /\ sent' = sent + 1 /\ left' = Frame(sent + 1) /\ wpc = "select"
    BY <1>2 DEF BeginWrite, readerVars
  <2>2. left = <<>> /\ closed = "no" /\ sent + 1 \in Messages /\ sent \in Nat
    BY <1>0, <2>1, Totals DEF Control, TypeOK, Messages
  <2>3. (buf \o line) \in Seq(Bytes) /\ Frame(sent + 1) \in Seq(Bytes)
    BY <1>0, <2>2, Concat, FrameOf DEF TypeOK
  <2>4. Stream = buf \o line
    <3>1. line \in Seq(Bytes)
      BY <1>0 DEF TypeOK
    <3>2. line \o <<>> = line
      BY <3>1
    <3> QED BY <2>2, <3>2 DEF Stream
  <2>5. Stream' = (buf \o line) \o Frame(sent + 1)
    <3>1. buf \in Seq(Bytes) /\ line \in Seq(Bytes) /\ Frame(sent + 1) \in Seq(Bytes)
      BY <1>0, <2>3 DEF TypeOK
    <3>2. buf \o (line \o Frame(sent + 1)) = (buf \o line) \o Frame(sent + 1)
      BY <3>1, Assoc
    <3>3. Stream' = buf \o (line \o Frame(sent + 1))
      BY <2>1 DEF Stream
    <3> QED BY <3>2, <3>3
  <2>6. Placing(buf \o line, sent, got, "no", rpc, need)
    BY <1>0, <2>1, <2>2, <2>4 DEF Placed
  <2>7. Placing((buf \o line) \o Frame(sent + 1), sent + 1, got, "no", rpc, need)
    BY <1>0, <2>2, <2>3, <2>6, Begun DEF TypeOK
  <2> QED BY <2>1, <2>2, <2>5, <2>7 DEF Placed
<1>3. CASE SendTimeout
  <2>1. UNCHANGED <<buf, line, left, sent, got, closed, rpc, need, inStep>>
    BY <1>3 DEF SendTimeout, readerVars
  <2> QED BY <1>0, <2>1, Still DEF Stream
<1>4. CASE Write
  <2>1. UNCHANGED <<buf, sent, got, closed, rpc, need, inStep>>
    BY <1>4 DEF Write, readerVars
  <2>2. line' \o left' = line \o left
    BY <1>0, <1>4, WriteMoves, Moving DEF Write
  <2>3. Stream' = Stream
    <3>1. Stream' = buf' \o (line' \o left') /\ Stream = buf \o (line \o left)
      BY DEF Stream
    <3>2. buf' = buf
      BY <2>1
    <3> QED BY ONLY <2>2, <3>1, <3>2
  <2> QED BY <1>0, <2>1, <2>3, Still
<1>5. CASE ServerWriteAgain
  BY <1>5 DEF ServerWriteAgain
<1>6. CASE Close
  <2>1. /\ UNCHANGED <<buf, sent, got, rpc, need, inStep>>
        /\ closed' # "no" /\ left' = <<>>
        /\ line' = line \/ line' = <<>>
    BY <1>6 DEF Close, readerVars
  <2>2. /\ buf \in Seq(Bytes) /\ line \in Seq(Bytes) /\ left \in Seq(Bytes)
        /\ sent \in Nat
    BY <1>0, Totals DEF TypeOK
  <2>3. Placing(Stream, sent, got, closed, rpc, need)
    BY <1>0, <2>1 DEF Placed
  <2> DEFINE u == line \o left
  <2>4. /\ u \in Seq(Bytes) /\ Len(u) = Len(line) + Len(left)
        /\ Len(line) \in Nat /\ Len(left) \in Nat /\ Len(buf) \in Nat
        /\ \A i \in 1..Len(line) : u[i] = line[i]
    BY <2>2, Concat
  <2> HIDE DEF u
  <2>5. /\ (buf \o u) \in Seq(Bytes) /\ Len(buf \o u) = Len(buf) + Len(u)
        /\ \A i \in 1..Len(buf) : (buf \o u)[i] = buf[i]
        /\ \A i \in 1..Len(u) : (buf \o u)[Len(buf) + i] = u[i]
    <3>1. buf \in Seq(Bytes) /\ u \in Seq(Bytes)
      BY <2>2, <2>4
    <3> QED BY ONLY <3>1, Concat
  <2>6. Stream = buf \o u
    BY DEF Stream, u
  <2> DEFINE t == buf \o line'
  <2>7. line' \in Seq(Bytes) /\ Len(line') \in Nat /\ Len(line') <= Len(line)
    <3>1. CASE line' = line
      BY <2>2, <2>4, <3>1
    <3>2. CASE line' = <<>>
      <4>1. <<>> \in Seq(Bytes) /\ Len(<<>>) = 0
        OBVIOUS
      <4> QED BY <2>4, <3>2, <4>1
    <3> QED BY <2>1, <3>1, <3>2
  <2>8. /\ t \in Seq(Bytes) /\ Len(t) = Len(buf) + Len(line')
        /\ \A i \in 1..Len(buf) : t[i] = buf[i]
        /\ \A i \in 1..Len(line') : t[Len(buf) + i] = line'[i]
    BY <2>2, <2>7, Concat
  <2>9. \A i \in 1..Len(line') : line'[i] = line[i]
    <3>1. CASE line' = line
      BY <3>1
    <3>2. CASE line' = <<>>
      BY <3>2
    <3> QED BY <2>1, <3>1, <3>2
  <2>10. Stream' = t
    <3>1. line' \o <<>> = line'
      BY <2>7
    <3> QED BY <2>1, <3>1 DEF Stream
  <2> HIDE DEF t
  <2>11. ASSUME NEW i \in 1..Len(t) PROVE t[i] = (buf \o u)[i]
    <3>1. CASE i <= Len(buf)
      BY <2>4, <2>5, <2>8, <3>1
    <3>2. CASE i > Len(buf)
      <4>1. /\ i - Len(buf) \in 1..Len(line') /\ i - Len(buf) \in 1..Len(line)
            /\ i - Len(buf) \in 1..Len(u) /\ Len(buf) + (i - Len(buf)) = i
        BY <2>4, <2>7, <2>8, <3>2
      <4>2. t[i] = line'[i - Len(buf)] /\ (buf \o u)[i] = u[i - Len(buf)]
        BY <2>5, <2>8, <4>1
      <4> QED BY <2>4, <2>9, <4>1, <4>2
    <3>3. i <= Len(buf) \/ i > Len(buf)
      <4>1. i \in Int /\ Len(buf) \in Int
        BY <2>4
      <4> QED BY <4>1
    <3> QED BY <3>1, <3>2, <3>3
  <2>12. Len(t) <= Len(buf \o u)
    BY <2>4, <2>5, <2>7, <2>8
  <2>13. Placing(t, sent, got, closed', rpc, need)
    BY <2>1, <2>2, <2>3, <2>5, <2>6, <2>8, <2>11, <2>12, Ended
  <2> QED BY <2>1, <2>10, <2>13 DEF Placed
<1>7. CASE Arrive
  <2>1. UNCHANGED <<buf, line, left, sent, got, closed, rpc, need, inStep>>
    BY <1>7 DEF Arrive, readerVars, writerVars
  <2> QED BY <1>0, <2>1, Still DEF Stream
<1>8. CASE ServerRecvMsg
  <2>1. /\ UNCHANGED <<line, left, sent, got, closed, inStep>>
        /\ rpc # "body" /\ rpc' # "body" /\ buf' = buf
    BY <1>0, <1>8 DEF ServerRecvMsg, ReadLength, writerVars, Control
  <2> QED BY <1>0, <2>1, Still DEF Stream
<1>9. CASE ClientRecvMsg
  <2>1. /\ UNCHANGED <<line, left, sent, got, closed, inStep>>
        /\ rpc # "body" /\ rpc' # "body" /\ buf' = buf
    BY <1>9 DEF ClientRecvMsg, writerVars
  <2> QED BY <1>0, <2>1, Still DEF Stream
<1>10. CASE ClientReadable
  <2>1. /\ UNCHANGED <<line, left, sent, got, closed, inStep>>
        /\ rpc # "body" /\ rpc' # "body" /\ buf' = buf
    BY <1>0, <1>10 DEF ClientReadable, ReadLength, writerVars, Control
  <2> QED BY <1>0, <2>1, Still DEF Stream
<1>11. CASE ClientTimeout
  <2>1. /\ UNCHANGED <<line, left, sent, got, closed, inStep>>
        /\ rpc # "body" /\ rpc' # "body" /\ buf' = buf
    BY <1>0, <1>11 DEF ClientTimeout, Return, writerVars, Control
  <2> QED BY <1>0, <2>1, Still DEF Stream
<1>12. CASE ReadSome
  <2>1. /\ UNCHANGED <<left, sent, got, closed, rpc, need, inStep>>
        /\ buf' = Filled /\ line' = SubSeq(line, Chunk + 1, Len(line))
    BY <1>12 DEF ReadSome, Consume, writerVars
  <2>2. Stream = Filled \o (SubSeq(line, Chunk + 1, Len(line)) \o left)
    BY <1>0, Cutting
  <2>3. Stream' = Stream
    <3>1. Stream' = buf' \o (line' \o left')
      BY DEF Stream
    <3>2. left' = left
      BY <2>1
    <3> QED BY ONLY <2>1, <2>2, <3>1, <3>2
  <2> QED BY <1>0, <2>1, <2>3, Still
<1>13. ASSUME Consume, buf' = <<>>, left' = left, Len(buf) + arrived >= need
       PROVE  /\ Filled \in Seq(Bytes) /\ Len(Filled) = need
              /\ Stream' \in Seq(Bytes) /\ Stream = Filled \o Stream'
  <2> DEFINE r == SubSeq(line, Chunk + 1, Len(line)) \o left
  <2>1. /\ Filled \in Seq(Bytes) /\ Len(Filled) = need
        /\ r \in Seq(Bytes) /\ Stream = Filled \o r
    BY <1>0, <1>13, Cutting
  <2>2. Stream' = <<>> \o r
    BY <1>13 DEF Consume, Stream
  <2> HIDE DEF r
  <2>3. <<>> \o r = r
    BY <2>1
  <2> QED BY <2>1, <2>2, <2>3
<1>14. CASE ReadHead
  <2>1. /\ UNCHANGED <<sent, got, closed, inStep>> /\ rpc = "length" /\ rpc' = "body"
        /\ \E m \in Messages : Filled = Length(m) /\ need' = Sizes[m]
    BY <1>14 DEF ReadHead, writerVars
  <2>2. /\ Filled \in Seq(Bytes) /\ Len(Filled) = need
        /\ Stream' \in Seq(Bytes) /\ Stream = Filled \o Stream'
    BY <1>13, <1>14 DEF ReadHead, writerVars
  <2>3. Placing(Filled \o Stream', sent, got, closed, "length", need) /\ need = LenBytes
    BY <1>0, <2>1, <2>2 DEF Placed, Control
  <2>4. sent \in 0..Len(Sizes) /\ got \in Seq(Messages \cup {Stray})
    BY <1>0 DEF TypeOK
  <2>5. /\ \A k \in Messages : Filled = Length(k) => k = Len(got) + 1
        /\ Placing(Stream', sent, got, closed, "body", Sizes[Len(got) + 1])
    BY <2>2, <2>3, <2>4, HeadTaken
  <2> QED BY <2>1, <2>5 DEF Placed
<1>15. CASE ReadStrayHead
  <2>1. /\ rpc = "length" /\ inStep /\ buf' = <<>>
        /\ \A m \in Messages : Filled # Length(m)
    BY <1>15 DEF ReadStrayHead, Return
  <2>2. /\ Filled \in Seq(Bytes) /\ Len(Filled) = need
        /\ Stream' \in Seq(Bytes) /\ Stream = Filled \o Stream'
    BY <1>13, <1>15, <2>1 DEF ReadStrayHead, writerVars
  <2>3. Placing(Filled \o Stream', sent, got, closed, "length", need) /\ need = LenBytes
    BY <1>0, <2>1, <2>2 DEF Placed, Control
  <2>4. sent \in 0..Len(Sizes) /\ got \in Seq(Messages \cup {Stray})
    BY <1>0 DEF TypeOK
  <2>5. Len(got) + 1 \in Messages /\ Filled = Length(Len(got) + 1)
    BY <2>2, <2>3, <2>4, HeadTaken
  <2> QED BY <2>1, <2>5
<1>16. CASE ReadBody
  <2>1. /\ UNCHANGED <<sent, closed, inStep>> /\ rpc = "body" /\ rpc' = "idle"
        /\ buf' = <<>> /\ need' = 0 /\ got' = Append(got, Meaning(Filled))
    BY <1>16 DEF ReadBody, Return, writerVars
  <2>2. /\ Filled \in Seq(Bytes) /\ Len(Filled) = need
        /\ Stream' \in Seq(Bytes) /\ Stream = Filled \o Stream'
    BY <1>13, <1>16, <2>1 DEF ReadBody, writerVars
  <2>3. Placing(Filled \o Stream', sent, got, closed, "body", need)
    BY <1>0, <2>1, <2>2 DEF Placed
  <2>4. /\ sent \in 0..Len(Sizes) /\ got \in Seq(Messages \cup {Stray})
        /\ Messages \subseteq Messages \cup {Stray}
    BY <1>0 DEF TypeOK
  <2>5. /\ Meaning(Filled) = Len(got) + 1
        /\ Placing(Stream', sent, Append(got, Len(got) + 1), closed, "idle", 0)
    BY <2>2, <2>3, <2>4, BodyTaken
  <2> QED BY <2>1, <2>5 DEF Placed
<1>17. CASE ServerReadAgain
  <2>1. /\ UNCHANGED <<line, left, sent, got, closed>>
        /\ inStep /\ rpc # "body" /\ rpc' # "body" /\ buf' = buf
    BY <1>17 DEF ServerReadAgain, Return, writerVars
  <2> QED BY <1>0, <2>1, Still DEF Stream
<1>18. CASE EofAtStart
  <2>1. /\ UNCHANGED <<line, left, sent, got, closed, inStep>>
        /\ rpc # "body" /\ rpc' # "body" /\ buf' = buf
    BY <1>18 DEF EofAtStart, Return, writerVars
  <2> QED BY <1>0, <2>1, Still DEF Stream
<1>19. ASSUME closed # "no", line = <<>>, inStep, buf' = <<>>, rpc' = "idle",
              UNCHANGED <<line, left, sent, got, closed>>
       PROVE  Placed'
  <2>1. left = <<>>
    BY <1>0, <1>19 DEF Control
  <2>2. Stream' = <<>>
    BY <1>19, <2>1 DEF Stream
  <2>3. Placing(Stream, sent, got, closed, rpc, need)
    BY <1>0, <1>19 DEF Placed
  <2>4. Placing(<<>>, sent, got, closed, "idle", need')
    BY <1>19, <2>3 DEF Placing, Ordered
  <2> QED BY <1>19, <2>2, <2>4 DEF Placed
<1>20. CASE EofInside
  BY <1>19, <1>20 DEF EofInside, Return, Eof, writerVars
<1>21. CASE ServerEofBeforeBody
  BY <1>21 DEF ServerEofBeforeBody
<1>22. CASE ReadError
  BY <1>0, <1>19, <1>22 DEF ReadError, Return, Control, writerVars
<1>23. CASE UNCHANGED vars
  <2>1. UNCHANGED <<buf, line, left, sent, got, closed, rpc, need, inStep>>
    BY <1>23 DEF vars, readerVars, writerVars
  <2> QED BY <1>0, <2>1, Still DEF Stream
<1> QED
  BY <1>1, <1>2, <1>3, <1>4, <1>5, <1>6, <1>7, <1>8, <1>9, <1>10, <1>11, <1>12,
     <1>14, <1>15, <1>16, <1>17, <1>18, <1>20, <1>21, <1>22, <1>23
     DEF Next, Writing, Reading

LEMMA Invariance == Spec => []IInv
<1>1. ASSUME IInv, [Next]_vars PROVE IInv'
  BY <1>1, TypeStep, ControlStep, PlacedStep DEF IInv
<1> QED BY <1>1, InitIInv, PTL DEF Spec

----------------------------------------------------------------------------
\* Every variable keeps its type; readn never holds more than it was asked for.
THEOREM Typing == Spec => []TypeOK
<1>1. IInv => TypeOK
  BY DEF IInv
<1> QED BY <1>1, Invariance, PTL

\* While no call has stopped inside a message, the bytes between sendMsg and
\* recvMsg are the rest of what was sent, without gap or repetition, wherever
\* write, the network and read cut them.
THEOREM Alignment == Spec => []Aligned
<1>1. IInv => Aligned
  <2> SUFFICES ASSUME IInv, inStep PROVE Aligned
    BY DEF Aligned
  <2>1. TypeOK /\ Placing(Stream, sent, got, closed, rpc, need)
    BY DEF IInv, Placed
  <2>2. Stream \in Seq(Bytes)
    <3>1. buf \in Seq(Bytes) /\ line \in Seq(Bytes) /\ left \in Seq(Bytes)
      BY <2>1 DEF TypeOK
    <3>2. (line \o left) \in Seq(Bytes)
      BY <3>1, Concat
    <3>3. (buf \o (line \o left)) \in Seq(Bytes)
      BY <3>1, <3>2, Concat
    <3> QED BY <3>3 DEF Stream
  <2>3. Ordered(Stream, sent)
    BY <2>1 DEF Placing
  <2>4. ASSUME NEW i \in 1..(Len(Stream) - 1) PROVE Stream[i + 1] = After(Stream[i])
    <3>1. i \in 1..Len(Stream) /\ i + 1 <= Len(Stream) /\ 1 \in Nat
      BY <2>2
    <3>2. /\ Stream[i][1] \in Messages /\ Stream[i][2] \in Nat
          /\ Stream[i][2] \in 1..Total(Stream[i][1]) /\ Total(Stream[i][1]) \in Nat
      BY <2>2, <2>3, <3>1, Pairs, Totals DEF Ordered
    <3>3. CASE Stream[i][2] < Total(Stream[i][1])
      <4>1. Stream[i][2] + 1 <= Total(Stream[i][1])
        BY <3>2, <3>3
      <4>2. Stream[i + 1] = <<Stream[i][1], Stream[i][2] + 1>>
        BY <2>3, <3>1, <4>1 DEF Ordered
      <4> QED BY <3>3, <4>2 DEF After
    <3>4. CASE ~(Stream[i][2] < Total(Stream[i][1]))
      <4>1. Stream[i][2] = Total(Stream[i][1])
        BY <3>2, <3>4
      <4>2. Stream[i + 1] = <<Stream[i][1] + 1, 1>>
        BY <2>3, <4>1 DEF Ordered
      <4> QED BY <3>4, <4>2 DEF After
    <3> QED BY <3>3, <3>4
  <2> QED BY <2>1, <2>4 DEF Aligned, Placing
<1> QED BY <1>1, Invariance, PTL

----------------------------------------------------------------------------
(* sendMsg and recvMsg implement MessageStream.                            *)

LEMMA Longer ==
  ASSUME NEW S, NEW g \in Seq(S), NEW x \in S
  PROVE  /\ Messaging!IsPrefix(g, g) /\ Len(g) <= Len(g) + 1
         /\ Messaging!IsPrefix(g, Append(g, x)) /\ Len(Append(g, x)) <= Len(g) + 1
<1>1. /\ Len(g) \in Nat /\ Len(Append(g, x)) = Len(g) + 1
      /\ \A i \in 1..Len(g) : Append(g, x)[i] = g[i]
  OBVIOUS
<1>2. SubSeq(g, 1, Len(g)) = SubSeq(Append(g, x), 1, Len(g))
  BY <1>1
<1> QED BY <1>1, <1>2, SMT DEF Messaging!IsPrefix

LEMMA StepImplements ==
  ASSUME IInv, [Next]_vars
  PROVE  [Messaging!Next]_<<sent, got, inStep>>
<1> USE DEF Messaging!Next, Messaging!Send, Messaging!Receive, Messaging!Slip
<1>0. TypeOK /\ Control /\ Placed /\ got \in Seq(Messages \cup {Stray})
  BY DEF IInv, TypeOK
<1>1. CASE BeginWrite
  BY <1>1 DEF BeginWrite, readerVars
<1>2. CASE ServerWriteAgain
  BY <1>0, <1>2, Longer DEF ServerWriteAgain, readerVars
<1>3. CASE ServerReadAgain
  BY <1>0, <1>3, Longer DEF ServerReadAgain, writerVars, TypeOK
<1>4. CASE ServerEofBeforeBody
  BY <1>0, <1>4, Longer DEF ServerEofBeforeBody, writerVars
<1>5. CASE ReadBody /\ inStep
  <2>1. /\ UNCHANGED <<sent, inStep>> /\ got' = Append(got, Meaning(Filled))
        /\ rpc = "body" /\ Len(buf) + arrived >= need
    BY <1>5 DEF ReadBody, writerVars
  <2> DEFINE r == SubSeq(line, Chunk + 1, Len(line)) \o left
  <2>2. /\ Filled \in Seq(Bytes) /\ Len(Filled) = need
        /\ r \in Seq(Bytes) /\ Stream = Filled \o r
    BY <1>0, <2>1, Cutting
  <2> HIDE DEF r
  <2>3. Placing(Filled \o r, sent, got, closed, "body", need)
    BY <1>0, <1>5, <2>1, <2>2 DEF Placed
  <2>4. /\ sent \in 0..Len(Sizes) /\ Messages \subseteq Messages \cup {Stray}
    BY <1>0 DEF TypeOK
  <2>5. Meaning(Filled) = Len(got) + 1 /\ Len(got) + 1 \in 1..sent
    BY <1>0, <2>2, <2>3, <2>4, BodyTaken
  <2>6. Len(got) < sent
    BY <1>0, <2>4, <2>5, Totals
  <2> QED BY <1>5, <2>1, <2>5, <2>6
<1>6. CASE ReadBody /\ ~inStep
  BY <1>0, <1>6, Longer, MeaningIsMessage DEF ReadBody, writerVars, TypeOK
<1>7. CASE UNCHANGED <<sent, got, inStep>>
  BY <1>7
<1>8. \/ SendMsg \/ SendTimeout \/ Write \/ Close \/ Arrive \/ ServerRecvMsg
      \/ ClientRecvMsg \/ ClientReadable \/ ClientTimeout \/ ReadSome \/ ReadHead
      \/ ReadStrayHead \/ EofAtStart \/ EofInside \/ ReadError \/ UNCHANGED vars
      => UNCHANGED <<sent, got, inStep>>
  BY DEF SendMsg, SendTimeout, Write, Close, Arrive, ServerRecvMsg, ClientRecvMsg,
         ClientReadable, ClientTimeout, ReadSome, ReadHead, ReadStrayHead, EofAtStart,
         EofInside, ReadError, vars, writerVars, readerVars
<1> QED
  BY <1>1, <1>2, <1>3, <1>4, <1>5, <1>6, <1>7, <1>8 DEF Next, Writing, Reading

\* What recvMsg returns is what sendMsg was given, whole and in order, until a
\* call stops inside a message.
THEOREM Implementation == Spec => KeepsStream
<1>1. Init => Messaging!Init
  BY DEF Init, Messaging!Init
<1>2. IInv /\ [Next]_vars => [Messaging!Next]_Messaging!vars
  BY StepImplements DEF Messaging!vars
<1> QED BY <1>1, <1>2, Invariance, PTL DEF Spec, KeepsStream, Messaging!Spec
=============================================================================
