---------------------------- MODULE QueueLemmas ----------------------------
(***************************************************************************)
(* What the operations on a queue do to the set of its elements: the queue *)
(* of tasks, a thread's batch, the messages a task has read.               *)
(***************************************************************************)
EXTENDS Integers, Sequences, Functions, TLAPS

\* The elements of a sequence whose head is taken off.
LEMMA TailElems ==
  ASSUME NEW S, NEW s \in Seq(S), s # <<>>, IsInjective(s)
  PROVE  /\ Range(Tail(s)) = Range(s) \ {Head(s)}
         /\ Head(s) \in Range(s)
         /\ Tail(s) \in Seq(S)
         /\ IsInjective(Tail(s))
<1>1. /\ Len(s) \in Nat /\ Len(s) > 0 /\ DOMAIN s = 1..Len(s)
      /\ Head(s) = s[1] /\ Tail(s) \in Seq(S)
      /\ Len(Tail(s)) = Len(s) - 1 /\ DOMAIN Tail(s) = 1..(Len(s) - 1)
      /\ \A i \in 1..(Len(s) - 1) : Tail(s)[i] = s[i + 1]
  OBVIOUS
<1>2. IsInjective(Tail(s))
  BY <1>1 DEF IsInjective
<1>3. ASSUME NEW x PROVE x \in Range(Tail(s)) <=> x \in Range(s) \ {Head(s)}
  <2>1. ASSUME x \in Range(Tail(s)) PROVE x \in Range(s) \ {Head(s)}
    <3>1. PICK i \in 1..(Len(s) - 1) : x = s[i + 1]
      BY <1>1, <2>1 DEF Range
    <3>2. i + 1 \in 1..Len(s) /\ 1 \in 1..Len(s) /\ i + 1 # 1
      BY <1>1
    <3> QED BY <1>1, <3>1, <3>2 DEF Range, IsInjective
  <2>2. ASSUME x \in Range(s) \ {Head(s)} PROVE x \in Range(Tail(s))
    <3>1. PICK i \in 1..Len(s) : x = s[i] /\ i # 1
      BY <1>1, <2>2 DEF Range
    <3>2. i - 1 \in 1..(Len(s) - 1) /\ Tail(s)[i - 1] = s[i]
      BY <1>1, <3>1
    <3> QED BY <1>1, <3>1, <3>2 DEF Range
  <2> QED BY <2>1, <2>2
<1> QED BY <1>1, <1>2, <1>3 DEF Range

\* A sequence over S has its head and its tail over S.
LEMMA HeadTail ==
  ASSUME NEW S, NEW s \in Seq(S), s # <<>>
  PROVE  Head(s) \in S /\ Tail(s) \in Seq(S)
OBVIOUS

\* An element of a sequence over S, and of one over a larger set.
LEMMA Element ==
  ASSUME NEW S, NEW s \in Seq(S), NEW i \in 1..Len(s)
  PROVE  s[i] \in S
OBVIOUS

LEMMA WiderSeq ==
  ASSUME NEW S, NEW T, S \subseteq T, NEW s \in Seq(S)
  PROVE  s \in Seq(T)
OBVIOUS

\* Two sequences one after the other.
LEMMA Concat ==
  ASSUME NEW S, NEW s \in Seq(S), NEW t \in Seq(S)
  PROVE  /\ (s \o t) \in Seq(S) /\ Len(s \o t) = Len(s) + Len(t)
         /\ Len(s) \in Nat /\ Len(t) \in Nat
         /\ \A i \in 1..Len(s) : (s \o t)[i] = s[i]
         /\ \A i \in 1..Len(t) : (s \o t)[Len(s) + i] = t[i]
OBVIOUS

\* Sequences are equal when their elements are.
LEMMA SameSeq ==
  ASSUME NEW S, NEW s \in Seq(S), NEW t \in Seq(S), Len(s) = Len(t),
         \A i \in 1..Len(s) : s[i] = t[i]
  PROVE  s = t
OBVIOUS

\* Concatenation is associative.
LEMMA Assoc ==
  ASSUME NEW S, NEW a \in Seq(S), NEW b \in Seq(S), NEW c \in Seq(S)
  PROVE  a \o (b \o c) = (a \o b) \o c
<1> DEFINE u == a \o b
           v == b \o c
<1>1. /\ u \in Seq(S) /\ Len(u) = Len(a) + Len(b) /\ Len(a) \in Nat /\ Len(b) \in Nat
      /\ \A i \in 1..Len(a) : u[i] = a[i]
      /\ \A i \in 1..Len(b) : u[Len(a) + i] = b[i]
  OBVIOUS
<1>2. /\ v \in Seq(S) /\ Len(v) = Len(b) + Len(c) /\ Len(c) \in Nat
      /\ \A i \in 1..Len(b) : v[i] = b[i]
      /\ \A i \in 1..Len(c) : v[Len(b) + i] = c[i]
  OBVIOUS
<1> HIDE DEF u, v
<1>3. /\ (u \o c) \in Seq(S) /\ Len(u \o c) = Len(a) + Len(b) + Len(c)
      /\ \A i \in 1..(Len(a) + Len(b)) : (u \o c)[i] = u[i]
      /\ \A i \in 1..Len(c) : (u \o c)[Len(a) + Len(b) + i] = c[i]
  <2>1. u \in Seq(S)
    BY <1>1
  <2>2. /\ (u \o c) \in Seq(S) /\ Len(u \o c) = Len(u) + Len(c)
        /\ \A i \in 1..Len(u) : (u \o c)[i] = u[i]
        /\ \A i \in 1..Len(c) : (u \o c)[Len(u) + i] = c[i]
    BY <2>1
  <2> QED BY <1>1, <2>2
<1>4. /\ (a \o v) \in Seq(S) /\ Len(a \o v) = Len(a) + Len(b) + Len(c)
      /\ \A i \in 1..Len(a) : (a \o v)[i] = a[i]
      /\ \A i \in 1..(Len(b) + Len(c)) : (a \o v)[Len(a) + i] = v[i]
  <2>1. v \in Seq(S)
    BY <1>2
  <2>2. /\ (a \o v) \in Seq(S) /\ Len(a \o v) = Len(a) + Len(v)
        /\ \A i \in 1..Len(a) : (a \o v)[i] = a[i]
        /\ \A i \in 1..Len(v) : (a \o v)[Len(a) + i] = v[i]
    BY <2>1
  <2>3. Len(a) \in Nat /\ Len(b) \in Nat /\ Len(c) \in Nat
    OBVIOUS
  <2> QED BY <1>2, <2>2, <2>3
<1>5. ASSUME NEW i \in 1..(Len(a) + Len(b) + Len(c)) PROVE (a \o v)[i] = (u \o c)[i]
  <2>1. CASE i <= Len(a)
    <3>1. i \in 1..Len(a) /\ i \in 1..(Len(a) + Len(b))
      BY <1>1, <2>1
    <3> QED BY <1>1, <1>3, <1>4, <3>1
  <2>2. CASE i > Len(a) /\ i <= Len(a) + Len(b)
    <3>1. /\ i - Len(a) \in 1..Len(b) /\ i - Len(a) \in 1..(Len(b) + Len(c))
          /\ i \in 1..(Len(a) + Len(b)) /\ Len(a) + (i - Len(a)) = i
      BY <1>1, <1>2, <2>2
    <3>2. (a \o v)[i] = v[i - Len(a)] /\ v[i - Len(a)] = b[i - Len(a)]
      BY <1>2, <1>4, <3>1
    <3>3. (u \o c)[i] = u[i] /\ u[i] = b[i - Len(a)]
      BY <1>1, <1>3, <3>1
    <3> QED BY <3>2, <3>3
  <2>3. CASE i > Len(a) + Len(b)
    <3>1. /\ i - (Len(a) + Len(b)) \in 1..Len(c) /\ i - Len(a) \in 1..(Len(b) + Len(c))
          /\ Len(a) + Len(b) + (i - (Len(a) + Len(b))) = i
          /\ Len(b) + (i - (Len(a) + Len(b))) = i - Len(a) /\ Len(a) + (i - Len(a)) = i
      BY <1>1, <1>2, <2>3
    <3>2. (a \o v)[i] = v[i - Len(a)] /\ v[i - Len(a)] = c[i - (Len(a) + Len(b))]
      BY <1>2, <1>4, <3>1
    <3>3. (u \o c)[i] = c[i - (Len(a) + Len(b))]
      BY <1>3, <3>1
    <3> QED BY <3>2, <3>3
  <2> QED BY <1>1, <1>2, <2>1, <2>2, <2>3
<1> QED BY <1>3, <1>4, <1>5, SameSeq DEF u, v

\* The head of one sequence moves to the end of the one before it.
LEMMA HeadMoves ==
  ASSUME NEW S, NEW a \in Seq(S), NEW b \in Seq(S), b # <<>>
  PROVE  /\ Append(a, Head(b)) \in Seq(S) /\ Tail(b) \in Seq(S)
         /\ Append(a, Head(b)) \o Tail(b) = a \o b
<1> DEFINE u == Append(a, Head(b))
           v == Tail(b)
<1>1. /\ Len(a) \in Nat /\ Len(b) \in Nat /\ Len(b) > 0 /\ Head(b) = b[1] /\ Head(b) \in S
      /\ u \in Seq(S) /\ v \in Seq(S) /\ Len(u) = Len(a) + 1 /\ Len(v) = Len(b) - 1
      /\ \A i \in 1..Len(a) : u[i] = a[i]
      /\ u[Len(a) + 1] = b[1]
      /\ \A i \in 1..(Len(b) - 1) : v[i] = b[i + 1]
  OBVIOUS
<1> HIDE DEF u, v
<1>2. /\ (u \o v) \in Seq(S) /\ Len(u \o v) = Len(a) + Len(b)
      /\ \A i \in 1..(Len(a) + 1) : (u \o v)[i] = u[i]
      /\ \A i \in 1..(Len(b) - 1) : (u \o v)[Len(a) + 1 + i] = v[i]
  <2>1. u \in Seq(S) /\ v \in Seq(S)
    BY <1>1
  <2>2. /\ (u \o v) \in Seq(S) /\ Len(u \o v) = Len(u) + Len(v)
        /\ \A i \in 1..Len(u) : (u \o v)[i] = u[i]
        /\ \A i \in 1..Len(v) : (u \o v)[Len(u) + i] = v[i]
    BY <2>1, Concat
  <2> QED BY <1>1, <2>2
<1>3. /\ (a \o b) \in Seq(S) /\ Len(a \o b) = Len(a) + Len(b)
      /\ \A i \in 1..Len(a) : (a \o b)[i] = a[i]
      /\ \A i \in 1..Len(b) : (a \o b)[Len(a) + i] = b[i]
  BY Concat
<1>4. ASSUME NEW i \in 1..(Len(a) + Len(b)) PROVE (u \o v)[i] = (a \o b)[i]
  <2>1. CASE i <= Len(a)
    <3>1. i \in 1..Len(a) /\ i \in 1..(Len(a) + 1)
      BY <1>1, <2>1
    <3> QED BY <1>1, <1>2, <1>3, <3>1
  <2>2. CASE i = Len(a) + 1
    <3>1. i \in 1..(Len(a) + 1) /\ 1 \in 1..Len(b)
      BY <1>1, <2>2
    <3>2. (u \o v)[i] = b[1]
      BY <1>1, <1>2, <2>2, <3>1
    <3>3. (a \o b)[i] = b[1]
      BY <1>3, <2>2, <3>1
    <3> QED BY <3>2, <3>3
  <2>3. CASE i > Len(a) + 1
    <3>1. PICK j \in 1..(Len(b) - 1) : i = Len(a) + 1 + j
      <4>1. /\ i - (Len(a) + 1) \in 1..(Len(b) - 1)
            /\ i = Len(a) + 1 + (i - (Len(a) + 1))
        BY <1>1, <2>3
      <4> QED BY <4>1
    <3>2. j + 1 \in 1..Len(b) /\ i = Len(a) + (j + 1)
      BY <1>1, <3>1
    <3>3. (u \o v)[i] = b[j + 1]
      BY <1>1, <1>2, <3>1
    <3>4. (a \o b)[i] = b[j + 1]
      BY <1>3, <3>2
    <3> QED BY <3>3, <3>4
  <2> QED BY <1>1, <2>1, <2>2, <2>3
<1>5. u \o v = a \o b
  BY <1>2, <1>3, <1>4, SameSeq
<1> QED BY <1>1, <1>5 DEF u, v

\* The end of three sequences one after the other grows.
LEMMA EndGrows ==
  ASSUME NEW S, NEW a \in Seq(S), NEW b \in Seq(S), NEW x \in S
  PROVE  /\ Append(b, x) \in Seq(S)
         /\ a \o Append(b, x) = Append(a \o b, x)
<1> DEFINE u == Append(b, x)
           v == a \o b
<1>1. /\ u \in Seq(S) /\ Len(u) = Len(b) + 1 /\ Len(a) \in Nat /\ Len(b) \in Nat
      /\ \A i \in 1..Len(b) : u[i] = b[i]
      /\ u[Len(b) + 1] = x
  OBVIOUS
<1>2. /\ v \in Seq(S) /\ Len(v) = Len(a) + Len(b)
      /\ \A i \in 1..Len(a) : v[i] = a[i]
      /\ \A i \in 1..Len(b) : v[Len(a) + i] = b[i]
  OBVIOUS
<1> HIDE DEF u, v
<1>3. /\ (a \o u) \in Seq(S) /\ Len(a \o u) = Len(a) + Len(b) + 1
      /\ \A i \in 1..Len(a) : (a \o u)[i] = a[i]
      /\ \A i \in 1..(Len(b) + 1) : (a \o u)[Len(a) + i] = u[i]
  <2>1. u \in Seq(S)
    BY <1>1
  <2>2. /\ (a \o u) \in Seq(S) /\ Len(a \o u) = Len(a) + Len(u)
        /\ \A i \in 1..Len(a) : (a \o u)[i] = a[i]
        /\ \A i \in 1..Len(u) : (a \o u)[Len(a) + i] = u[i]
    BY <2>1, Concat
  <2> QED BY <1>1, <2>2
<1>4. /\ Append(v, x) \in Seq(S) /\ Len(Append(v, x)) = Len(a) + Len(b) + 1
      /\ \A i \in 1..(Len(a) + Len(b)) : Append(v, x)[i] = v[i]
      /\ Append(v, x)[Len(a) + Len(b) + 1] = x
  BY <1>2
<1>5. ASSUME NEW i \in 1..(Len(a) + Len(b) + 1) PROVE (a \o u)[i] = Append(v, x)[i]
  <2>1. CASE i <= Len(a)
    <3>1. i \in 1..Len(a) /\ i \in 1..(Len(a) + Len(b))
      BY <1>1, <2>1
    <3> QED BY <1>2, <1>3, <1>4, <3>1
  <2>2. CASE i > Len(a) /\ i <= Len(a) + Len(b)
    <3>1. PICK j \in 1..Len(b) : i = Len(a) + j
      <4>1. i - Len(a) \in 1..Len(b) /\ i = Len(a) + (i - Len(a))
        BY <1>1, <2>2
      <4> QED BY <4>1
    <3>2. j \in 1..(Len(b) + 1) /\ i \in 1..(Len(a) + Len(b))
      BY <1>1, <3>1
    <3>3. (a \o u)[i] = b[j]
      BY <1>1, <1>3, <3>1, <3>2
    <3>4. Append(v, x)[i] = b[j]
      BY <1>2, <1>4, <3>1, <3>2
    <3> QED BY <3>3, <3>4
  <2>3. CASE i = Len(a) + Len(b) + 1
    <3>1. Len(b) + 1 \in 1..(Len(b) + 1) /\ i = Len(a) + (Len(b) + 1)
      BY <1>1, <2>3
    <3>2. (a \o u)[i] = x
      BY <1>1, <1>3, <3>1
    <3> QED BY <1>4, <2>3, <3>2
  <2>4. \/ i <= Len(a)
        \/ i > Len(a) /\ i <= Len(a) + Len(b)
        \/ i = Len(a) + Len(b) + 1
    <3>1. Len(a) \in Nat /\ Len(b) \in Nat
      BY <1>1
    <3> QED BY <3>1
  <2> QED BY <2>1, <2>2, <2>3, <2>4
<1>6. a \o u = Append(v, x)
  BY <1>3, <1>4, <1>5, SameSeq
<1> QED BY <1>1, <1>6 DEF u, v

\* The elements of a sequence that grows by a new one.
LEMMA AppendElems ==
  ASSUME NEW S, NEW s \in Seq(S), NEW x \in S, x \notin Range(s), IsInjective(s)
  PROVE  /\ Range(Append(s, x)) = Range(s) \cup {x}
         /\ Append(s, x) \in Seq(S)
         /\ IsInjective(Append(s, x))
<1>1. /\ Len(s) \in Nat /\ DOMAIN s = 1..Len(s)
      /\ Append(s, x) \in Seq(S)
      /\ DOMAIN Append(s, x) = 1..(Len(s) + 1)
      /\ \A i \in 1..Len(s) : Append(s, x)[i] = s[i]
      /\ Append(s, x)[Len(s) + 1] = x
  OBVIOUS
<1>2. \A i \in 1..(Len(s) + 1) : i \in 1..Len(s) \/ i = Len(s) + 1
  BY <1>1
<1>3. IsInjective(Append(s, x))
  BY <1>1, <1>2 DEF IsInjective, Range
<1>4. Range(Append(s, x)) = Range(s) \cup {x}
  BY <1>1, <1>2 DEF Range
<1> QED BY <1>1, <1>3, <1>4

LEMMA EmptyElems == Range(<<>>) = {} /\ IsInjective(<<>>)
BY DEF Range, IsInjective

\* A queue cut in two.
LEMMA Cut ==
  ASSUME NEW S, NEW q \in Seq(S), NEW k \in 1..Len(q)
  PROVE  /\ SubSeq(q, 1, k) \in Seq(S) /\ Len(SubSeq(q, 1, k)) = k
         /\ SubSeq(q, k + 1, Len(q)) \in Seq(S)
         /\ Len(SubSeq(q, k + 1, Len(q))) = Len(q) - k
         /\ \A i \in 1..k : SubSeq(q, 1, k)[i] = q[i]
         /\ \A i \in 1..(Len(q) - k) : SubSeq(q, k + 1, Len(q))[i] = q[k + i]
OBVIOUS

\* The elements of the two pieces of a queue without repetitions.
LEMMA CutRange ==
  ASSUME NEW S, NEW q \in Seq(S), NEW k \in 1..Len(q), IsInjective(q)
  PROVE  LET front == SubSeq(q, 1, k)
             rest  == SubSeq(q, k + 1, Len(q))
         IN  /\ Range(front) \cup Range(rest) = Range(q)
             /\ Range(front) \cap Range(rest) = {}
             /\ IsInjective(front) /\ IsInjective(rest)
<1> DEFINE front == SubSeq(q, 1, k)
           rest  == SubSeq(q, k + 1, Len(q))
<1>1. /\ Len(q) \in Nat /\ DOMAIN q = 1..Len(q)
      /\ DOMAIN front = 1..k /\ DOMAIN rest = 1..(Len(q) - k)
      /\ \A i \in 1..k : front[i] = q[i]
      /\ \A i \in 1..(Len(q) - k) : rest[i] = q[k + i]
  BY Cut
<1> HIDE DEF front, rest
<1>2. /\ \A i \in 1..k : i \in 1..Len(q)
      /\ \A i \in 1..(Len(q) - k) : k + i \in 1..Len(q)
      /\ \A i \in 1..k : \A j \in 1..(Len(q) - k) : i # k + j
      /\ \A i, j \in 1..(Len(q) - k) : k + i = k + j => i = j
      /\ \A i \in 1..Len(q) : i \in 1..k \/ \E j \in 1..(Len(q) - k) : i = k + j
  <2>1. ASSUME NEW i \in 1..Len(q), i \notin 1..k
        PROVE  \E j \in 1..(Len(q) - k) : i = k + j
    <3>1. i - k \in 1..(Len(q) - k) /\ i = k + (i - k)
      BY <1>1, <2>1
    <3> QED BY <3>1
  <2> QED BY <1>1, <2>1
<1>3. IsInjective(front)
  <2>1. ASSUME NEW i \in 1..k, NEW j \in 1..k, front[i] = front[j] PROVE i = j
    BY <1>1, <1>2, <2>1 DEF IsInjective
  <2> QED BY <1>1, <2>1 DEF IsInjective
<1>4. IsInjective(rest)
  <2>1. ASSUME NEW i \in 1..(Len(q) - k), NEW j \in 1..(Len(q) - k), rest[i] = rest[j]
        PROVE  i = j
    <3>1. q[k + i] = q[k + j] /\ k + i \in DOMAIN q /\ k + j \in DOMAIN q
      BY <1>1, <1>2, <2>1
    <3> QED BY <1>2, <3>1 DEF IsInjective
  <2> QED BY <1>1, <2>1 DEF IsInjective
<1>5. Range(front) \cap Range(rest) = {}
  <2>1. ASSUME NEW i \in 1..k, NEW j \in 1..(Len(q) - k) PROVE front[i] # rest[j]
    <3>1. /\ front[i] = q[i] /\ rest[j] = q[k + j]
          /\ i \in DOMAIN q /\ k + j \in DOMAIN q /\ i # k + j
      BY <1>1, <1>2
    <3> QED BY <3>1 DEF IsInjective
  <2> QED BY <1>1, <2>1 DEF Range
<1>6. Range(front) \cup Range(rest) = Range(q)
  <2>1. ASSUME NEW i \in 1..Len(q) PROVE q[i] \in Range(front) \cup Range(rest)
    <3>1. CASE i \in 1..k
      BY <1>1, <3>1 DEF Range
    <3>2. CASE i \notin 1..k
      <4>1. PICK j \in 1..(Len(q) - k) : i = k + j
        BY <1>2, <3>2
      <4> QED BY <1>1, <4>1 DEF Range
    <3> QED BY <3>1, <3>2
  <2>2. \A i \in 1..k : front[i] \in Range(q)
    BY <1>1, <1>2 DEF Range
  <2>3. \A i \in 1..(Len(q) - k) : rest[i] \in Range(q)
    BY <1>1, <1>2 DEF Range
  <2> QED BY <1>1, <2>1, <2>2, <2>3 DEF Range
<1> QED BY <1>3, <1>4, <1>5, <1>6 DEF front, rest

\* The first request past the answers is the next one due.
LEMMA NextDue ==
  ASSUME NEW S, NEW a \in Seq(S), NEW b \in Seq(S), NEW d \in Seq(S), NEW n \in Nat,
         b # <<>>, a \o b \o d = [i \in 1..n |-> i]
  PROVE  Head(b) = Len(a) + 1 /\ Len(a) < n
<1> DEFINE s == a \o b
           t == [i \in 1..n |-> i]
           k == Len(a) + 1
<1>1. /\ Len(a) \in Nat /\ Len(b) \in Nat /\ Len(d) \in Nat /\ Len(b) > 0
      /\ Len(t) = n /\ Head(b) = b[1] /\ s \o d = t
  OBVIOUS
<1>2. s \in Seq(S) /\ Len(s) = Len(a) + Len(b) /\ s[k] = b[1]
  BY <1>1
<1> HIDE DEF s, t
<1>3. Len(s \o d) = Len(s) + Len(d) /\ (s \o d)[k] = s[k]
  BY <1>1, <1>2
<1>4. n = Len(a) + Len(b) + Len(d) /\ t[k] = b[1]
  BY <1>1, <1>2, <1>3
<1>5. t[k] = k
  BY <1>1, <1>4 DEF t
<1> QED BY <1>1, <1>4, <1>5
=============================================================================
