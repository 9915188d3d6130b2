-------------------------- MODULE FacilitiesProofs --------------------------
(***************************************************************************)
(* What holds of the pools and the log for any number of threads, objects, *)
(* lines and days.  The pool's part and the log's part of the invariant    *)
(* are inductive by themselves; a step of one leaves the other alone.      *)
(***************************************************************************)
EXTENDS Facilities, QueueLemmas, FiniteSetTheorems, TLAPS

PoolInv == PoolOK /\ Accounted /\ NoneForgotten

----------------------------------------------------------------------------
(* Threads that change their place.                                        *)

Where(f, p) == {t \in Threads : f[t] = p}

LEMMA WhereFinite ==
  ASSUME NEW f, NEW p
  PROVE  IsFiniteSet(Where(f, p)) /\ Cardinality(Where(f, p)) \in Nat
BY PoolAssumption, FS_Subset, FS_CardinalityType DEF Where

Places == {"out", "get", "waiting", "woken", "taken", "using"}

\* One thread fewer in one place, one more in another.
LEMMA Move ==
  \A f \in [Threads -> Places], t \in Threads, q \in Places : f[t] # q =>
    /\ Cardinality(Where([f EXCEPT ![t] = q], f[t])) = Cardinality(Where(f, f[t])) - 1
    /\ Cardinality(Where([f EXCEPT ![t] = q], q)) = Cardinality(Where(f, q)) + 1
<1> SUFFICES ASSUME NEW f \in [Threads -> Places], NEW t \in Threads,
                    NEW q \in Places, f[t] # q
             PROVE  LET g == [f EXCEPT ![t] = q]
                    IN /\ Cardinality(Where(g, f[t])) = Cardinality(Where(f, f[t])) - 1
                       /\ Cardinality(Where(g, q)) = Cardinality(Where(f, q)) + 1
  OBVIOUS
<1> DEFINE g == [f EXCEPT ![t] = q]
           p == f[t]
<1>1. /\ Where(g, p) = Where(f, p) \ {t} /\ t \in Where(f, p)
      /\ Where(g, q) = Where(f, q) \cup {t} /\ t \notin Where(f, q)
  BY DEF Where
<1>2. IsFiniteSet(Where(f, p)) /\ IsFiniteSet(Where(f, q))
  BY WhereFinite
<1>3. Cardinality(Where(g, p)) = Cardinality(Where(f, p)) - 1
  BY <1>1, <1>2, FS_RemoveElement
<1>4. Cardinality(Where(g, q)) = Cardinality(Where(f, q)) + 1
  BY <1>1, <1>2, FS_AddElement
<1> QED BY <1>3, <1>4

\* The other places are as they were.
LEMMA Elsewhere ==
  \A f \in [Threads -> Places], t \in Threads, q, r \in Places :
    r # f[t] /\ r # q => Where([f EXCEPT ![t] = q], r) = Where(f, r)
BY DEF Where

LEMMA WhereAt ==
  /\ \A p : At(p) = Where(at, p)
  /\ At("taken")' = Where(at', "taken") /\ At("woken")' = Where(at', "woken")
  /\ At("waiting")' = Where(at', "waiting")
BY DEF At, Where

----------------------------------------------------------------------------
(* The pool.                                                               *)

LEMMA PoolStart == PoolInit => PoolInv
<1> SUFFICES ASSUME PoolInit PROVE PoolInv
  OBVIOUS
<1>1. /\ list \in Seq(Objects) /\ Len(list) = Size /\ DOMAIN list = 1..Size
      /\ \A i \in 1..Size : list[i] = i
  BY PoolAssumption DEF PoolInit, Objects
<1>2. At("taken") = {} /\ At("waiting") = {}
  BY DEF PoolInit, At
<1>3. PoolOK
  BY <1>1, PoolAssumption DEF PoolOK, PoolInit, Objects
<1>4. Accounted
  <2>1. free = Size /\ cur = 0 /\ Size \in Nat
    BY PoolAssumption DEF PoolInit
  <2>2. IsInjective(list)
    BY <1>1 DEF IsInjective
  <2>3. Cardinality(At("taken")) = 0
    BY <1>2, FS_EmptySet
  <2> QED BY <1>1, <1>2, <2>1, <2>2, <2>3 DEF Accounted
<1> QED BY <1>2, <1>3, <1>4 DEF PoolInv, NoneForgotten

\* Steps that leave the list alone and take no object into or out of a hand.
LEMMA BetweenPlaces ==
  ASSUME PoolInv, NEW t \in Threads, NEW q \in Places \ {"taken"},
         at[t] # "taken", at[t] # q, at' = [at EXCEPT ![t] = q],
         UNCHANGED <<list, free, cur, object>>,
         \/ at[t] # "woken" /\ q # "waiting"
         \/ list = <<>>
  PROVE  PoolInv'
<1>1. at \in [Threads -> Places]
  BY DEF PoolInv, PoolOK, Places
<1>2. PoolOK'
  BY <1>1 DEF PoolInv, PoolOK, Places
<1>3. At("taken")' = At("taken")
  BY <1>1 DEF At, Places
<1>4. Accounted'
  BY <1>3 DEF PoolInv, Accounted
<1>5. NoneForgotten'
  <2>1. CASE at[t] # "woken" /\ q # "waiting"
    <3>1. Cardinality(At("woken")') >= Cardinality(At("woken"))
      <4>1. /\ Cardinality(Where(at', q)) = Cardinality(Where(at, q)) + 1
            /\ "woken" \in Places
            /\ "woken" # q => Where(at', "woken") = Where(at, "woken")
        <5>1. "woken" \in Places /\ q \in Places
          BY DEF Places
        <5>2. Cardinality(Where([at EXCEPT ![t] = q], q)) = Cardinality(Where(at, q)) + 1
          BY <1>1, <5>1, Move
        <5>3. "woken" # q => Where([at EXCEPT ![t] = q], "woken") = Where(at, "woken")
          BY <1>1, <2>1, <5>1, Elsewhere
        <5> QED BY <5>1, <5>2, <5>3
      <4>2. Cardinality(Where(at, "woken")) \in Nat
        BY WhereFinite
      <4>3. \/ Cardinality(Where(at', "woken")) = Cardinality(Where(at, "woken")) + 1
            \/ Where(at', "woken") = Where(at, "woken")
        BY <2>1, <4>1
      <4>4. Cardinality(Where(at', "woken")) >= Cardinality(Where(at, "woken"))
        BY <4>2, <4>3
      <4> QED BY <4>4, WhereAt
    <3>2. At("waiting")' \subseteq At("waiting")
      BY <1>1, <2>1 DEF At, Places
    <3>3. Cardinality(At("woken")) \in Nat /\ Cardinality(At("woken")') \in Nat
      BY WhereAt, WhereFinite
    <3>4. At("waiting")' # {} => Cardinality(At("woken")) >= Len(list)
      BY <3>2 DEF PoolInv, NoneForgotten
    <3> QED BY <3>1, <3>3, <3>4 DEF PoolInv, PoolOK, NoneForgotten
  <2>2. CASE list = <<>>
    <3>1. Len(list') = 0
      BY <2>2
    <3>2. Cardinality(At("woken")') \in Nat
      BY WhereAt, WhereFinite
    <3> QED BY <3>1, <3>2 DEF NoneForgotten
  <2> QED BY <2>1, <2>2
<1> QED BY <1>2, <1>4, <1>5 DEF PoolInv

LEMMA GetStep ==
  ASSUME PoolInv, NEW t \in Threads, Get(t)
  PROVE  PoolInv'
<1>1. /\ at \in [Threads -> Places] /\ at' = [at EXCEPT ![t] = "taken"]
      /\ at[t] \in {"get", "woken"} /\ at[t] # "taken"
      /\ {"taken", "woken", "waiting"} \subseteq Places
      /\ list \in Seq(Objects) /\ list # <<>> /\ IsInjective(list)
      /\ list' = Tail(list)
      /\ object' = [object EXCEPT ![t] = Head(list)]
      /\ object \in [Threads -> Objects]
  BY DEF PoolInv, PoolOK, Accounted, Places, Get
<1>2. /\ Range(list') = Range(list) \ {Head(list)}
      /\ Head(list) \in Range(list)
      /\ list' \in Seq(Objects) /\ IsInjective(list')
  BY <1>1, TailElems
<1>3. /\ Len(list) \in Nat /\ Len(list) > 0 /\ Len(list') = Len(list) - 1
      /\ Head(list) \in Objects
  BY <1>1
<1>4. PoolOK'
  BY <1>1, <1>2, <1>3 DEF PoolInv, PoolOK, Places, Get
<1>5. /\ Cardinality(At("taken")') = Cardinality(At("taken")) + 1
      /\ At("taken")' = At("taken") \cup {t}
  <2>1. Cardinality(At("taken")') = Cardinality(At("taken")) + 1
    <3>1. Cardinality(Where([at EXCEPT ![t] = "taken"], "taken")) = Cardinality(Where(at, "taken")) + 1
      BY <1>1, Move
    <3> QED BY <1>1, <3>1, WhereAt
  <2>2. At("taken")' = At("taken") \cup {t}
    BY <1>1 DEF At
  <2> QED BY <2>1, <2>2
<1>6. /\ \A u \in At("taken") : object[u] \notin Range(list) /\ object'[u] = object[u]
      /\ t \notin At("taken") /\ At("taken") \subseteq Threads
      /\ object'[t] = Head(list)
  BY <1>1 DEF PoolInv, Accounted, At
<1>7. /\ \A u \in At("taken")' : object'[u] \notin Range(list')
      /\ \A u, v \in At("taken")' : object'[u] = object'[v] => u = v
  BY <1>2, <1>5, <1>6 DEF PoolInv, Accounted
<1>8. /\ free' = Len(list') /\ cur' = Cardinality(At("taken")') /\ free' + cur' = Size
  <2>1. /\ free = Len(list) /\ cur = Cardinality(At("taken")) /\ free + cur = Size
        /\ free \in Int /\ cur \in Int /\ free' = free - 1 /\ cur' = cur + 1
    BY DEF PoolInv, PoolOK, Accounted, Get
  <2> QED BY <1>3, <1>5, <2>1, PoolAssumption
<1>9. NoneForgotten'
  <2>1. /\ at[t] = "woken" => Cardinality(At("woken")') = Cardinality(At("woken")) - 1
        /\ at[t] # "woken" => At("woken")' = At("woken")
    <3>0. Cardinality(Where([at EXCEPT ![t] = "taken"], at[t])) = Cardinality(Where(at, at[t])) - 1
      BY <1>1, Move
    <3>1. at[t] = "woken" =>
            Cardinality(Where([at EXCEPT ![t] = "taken"], "woken")) = Cardinality(Where(at, "woken")) - 1
      BY <3>0
    <3>2. at[t] # "woken" => Where([at EXCEPT ![t] = "taken"], "woken") = Where(at, "woken")
      BY <1>1, Elsewhere
    <3> QED BY <1>1, <3>1, <3>2, WhereAt
  <2>2. At("waiting")' = At("waiting")
    BY <1>1 DEF At
  <2>3. Cardinality(At("woken")) \in Nat
    BY WhereAt, WhereFinite
  <2> QED BY <1>3, <2>1, <2>2, <2>3 DEF PoolInv, NoneForgotten
<1> QED BY <1>2, <1>4, <1>7, <1>8, <1>9 DEF PoolInv, Accounted

LEMMA ReleaseStep ==
  ASSUME PoolInv, NEW t \in Threads, Release(t)
  PROVE  PoolInv'
<1> DEFINE places == [at EXCEPT ![t] = "using"]
<1>1. /\ at \in [Threads -> Places] /\ at[t] = "taken"
      /\ list \in Seq(Objects) /\ IsInjective(list)
      /\ list' = Append(list, object[t]) /\ object' = object
      /\ object \in [Threads -> Objects] /\ object[t] \in Objects
      /\ t \in At("taken") /\ object[t] \notin Range(list)
  BY DEF PoolInv, PoolOK, Accounted, Places, Release, At
<1>2. /\ Range(list') = Range(list) \cup {object[t]}
      /\ list' \in Seq(Objects) /\ IsInjective(list')
  BY <1>1, AppendElems
<1>3. Len(list) \in Nat /\ Len(list') = Len(list) + 1
  BY <1>1
<1>4. /\ places \in [Threads -> Places]
      /\ Cardinality(Where(places, "taken")) = Cardinality(Where(at, "taken")) - 1
      /\ Where(places, "woken") = Where(at, "woken")
      /\ Where(places, "waiting") = Where(at, "waiting")
  <2>1. /\ at \in [Threads -> Places] /\ at[t] = "taken"
        /\ "using" \in Places /\ "woken" \in Places /\ "waiting" \in Places
        /\ places \in [Threads -> Places]
    BY <1>1 DEF Places
  <2>2. Cardinality(Where(places, at[t])) = Cardinality(Where(at, at[t])) - 1
    BY <2>1, Move
  <2>3. Where(places, "woken") = Where(at, "woken")
    BY <2>1 DEF Where
  <2>4. Where(places, "waiting") = Where(at, "waiting")
    BY <2>1 DEF Where
  <2> QED BY <2>1, <2>2, <2>3, <2>4
<1>5. \/ Where(places, "waiting") = {} /\ at' = places
      \/ \E u \in Where(places, "waiting") : at' = [places EXCEPT ![u] = "woken"]
  BY DEF Release, Signal, Where
<1> HIDE DEF places
<1>6. /\ at' \in [Threads -> Places]
      /\ Cardinality(Where(at', "taken")) = Cardinality(Where(at, "taken")) - 1
      /\ Where(at', "waiting") # {} =>
           Cardinality(Where(at', "woken")) = Cardinality(Where(at, "woken")) + 1
  <2>1. CASE Where(places, "waiting") = {} /\ at' = places
    BY <1>4, <2>1
  <2>2. CASE \E u \in Where(places, "waiting") : at' = [places EXCEPT ![u] = "woken"]
    <3>1. PICK u \in Threads : places[u] = "waiting" /\ at' = [places EXCEPT ![u] = "woken"]
      BY <2>2 DEF Where
    <3>2. "woken" \in Places /\ at' \in [Threads -> Places]
      BY <1>4, <3>1 DEF Places
    <3>3. /\ Where(at', "taken") = Where(places, "taken")
          /\ Cardinality(Where(at', "woken")) = Cardinality(Where(places, "woken")) + 1
      <4>1. /\ "taken" \in Places /\ "woken" \in Places
            /\ places \in [Threads -> Places] /\ places[u] = "waiting"
        BY <1>4, <3>1 DEF Places
      <4>2. Where([places EXCEPT ![u] = "woken"], "taken") = Where(places, "taken")
        BY <4>1, Elsewhere
      <4>3. Cardinality(Where([places EXCEPT ![u] = "woken"], "woken"))
              = Cardinality(Where(places, "woken")) + 1
        BY <4>1, Move
      <4> QED BY <3>1, <4>2, <4>3
    <3> QED BY <1>4, <3>2, <3>3
  <2> QED BY <1>5, <2>1, <2>2
<1>7. PoolOK'
  BY <1>1, <1>2, <1>6 DEF PoolInv, PoolOK, Places, Release
<1>8. At("taken")' \subseteq At("taken") \ {t}
  <2>1. \A u \in Threads : at'[u] = "taken" => places[u] = "taken"
    BY <1>4, <1>5 DEF Where
  <2>2. \A u \in Threads : places[u] = "taken" => at[u] = "taken" /\ u # t
    BY <1>1 DEF places
  <2> QED BY <2>1, <2>2 DEF At
<1>9. /\ \A u \in At("taken")' : object'[u] \notin Range(list')
      /\ \A u, v \in At("taken")' : object'[u] = object'[v] => u = v
  BY <1>1, <1>2, <1>8 DEF PoolInv, Accounted
<1>10. /\ free' = Len(list') /\ cur' = Cardinality(At("taken")') /\ free' + cur' = Size
  <2>1. /\ free = Len(list) /\ cur = Cardinality(At("taken")) /\ free + cur = Size
        /\ free \in Int /\ cur \in Int /\ free' = free + 1 /\ cur' = cur - 1
    BY DEF PoolInv, PoolOK, Accounted, Release
  <2> QED BY <1>3, <1>6, <2>1, WhereAt, PoolAssumption
<1>11. NoneForgotten'
  <2>1. Where(at', "waiting") # {} => Where(at, "waiting") # {}
    <3>1. \A u \in Threads : at'[u] = "waiting" => places[u] = "waiting"
      BY <1>4, <1>5 DEF Where
    <3> QED BY <1>4, <3>1 DEF Where
  <2>2. Where(at, "waiting") # {} => Cardinality(Where(at, "woken")) >= Len(list)
    BY WhereAt DEF PoolInv, NoneForgotten
  <2>3. Cardinality(Where(at, "woken")) \in Nat
    BY WhereFinite
  <2> QED BY <1>3, <1>6, <2>1, <2>2, <2>3, WhereAt DEF NoneForgotten
<1> QED BY <1>2, <1>7, <1>9, <1>10, <1>11 DEF PoolInv, Accounted

\* Every step of a thread on the pool.
LEMMA PoolStep ==
  ASSUME PoolInv, NEW t \in Threads,
         Want(t) \/ GetWaits(t) \/ Get(t) \/ Release(t) \/ Drop(t) \/ SpuriousGet(t)
  PROVE  PoolInv'
<1>0. {"out", "get", "waiting", "woken", "using"} \subseteq Places \ {"taken"}
  BY DEF Places
<1>1. CASE Want(t)
  BY <1>0, <1>1, BetweenPlaces DEF Want
<1>2. CASE GetWaits(t)
  BY <1>0, <1>2, BetweenPlaces DEF GetWaits
<1>3. CASE Drop(t)
  BY <1>0, <1>3, BetweenPlaces DEF Drop
<1>4. CASE SpuriousGet(t)
  BY <1>0, <1>4, BetweenPlaces DEF SpuriousGet
<1> QED BY <1>1, <1>2, <1>3, <1>4, GetStep, ReleaseStep

LEMMA PoolStutter ==
  ASSUME PoolInv, UNCHANGED poolVars
  PROVE  PoolInv'
<1>1. At("taken")' = At("taken") /\ At("woken")' = At("woken") /\ At("waiting")' = At("waiting")
  BY DEF poolVars, At
<1> QED BY <1>1 DEF poolVars, PoolInv, PoolOK, Accounted, NoneForgotten

----------------------------------------------------------------------------
(* The log.                                                                *)

InHand == IF writer = "write" THEN 1 ELSE 0

\* The lines by their place: written, in hand, queued; the files by their day.
LogInv ==
  /\ LogOK /\ WriterAwake
  /\ Len(written) + InHand + Len(lines) = logged
  /\ \A i \in 1..Len(written) : written[i].line = i /\ written[i].file <= file
  /\ writer = "write" => line = Len(written) + 1
  /\ \A i \in 1..Len(lines) : lines[i] = Len(written) + InHand + i
  /\ \A i, j \in 1..Len(written) : i <= j => written[i].file <= written[j].file
  /\ file <= day

LEMMA LogStart == LogInit => LogInv
BY LogAssumption DEF LogInit, LogInv, LogOK, WriterAwake, InHand

\* The days of the files are comparable with the clock's.
LEMMA FilesBefore ==
  ASSUME LogOK, NEW i \in 1..Len(written), NEW d \in 0..LastDay, file <= d,
         written[i].file <= file
  PROVE  written[i].file <= d
<1>1. written[i] \in [line : 1..logged, file : 0..LastDay]
  BY Element DEF LogOK
<1>2. written[i].file \in 0..LastDay /\ file \in 0..LastDay
  BY <1>1 DEF LogOK
<1> QED BY <1>2, LogAssumption

LEMMA LogStep ==
  ASSUME LogInv, Log
  PROVE  LogInv'
<1>1. /\ logged \in Nat /\ logged' = logged + 1
      /\ lines \in Seq(1..logged) /\ lines' = Append(lines, logged + 1)
      /\ written' = written /\ file' = file /\ line' = line /\ day' = day /\ up' = up
      /\ writer' = Started
  BY DEF LogInv, LogOK, Log
<1>2. 1..logged \subseteq 1..logged' /\ logged' \in 1..logged' /\ 0..logged \subseteq 0..logged'
  BY <1>1
<1>3. /\ Len(lines) \in Nat /\ Len(lines') = Len(lines) + 1
      /\ \A i \in 1..Len(lines) : lines'[i] = lines[i] /\ lines[i] \in 1..logged
      /\ lines'[Len(lines) + 1] = logged + 1
  BY <1>1
<1>4. lines' \in Seq(1..logged')
  <2>1. lines \in Seq(1..logged')
    BY <1>1, <1>2, <1>3
  <2> QED BY <1>1, <1>2, <2>1
<1>5. written' \in Seq([line : 1..logged', file : 0..LastDay])
  <2>1. written \in Seq([line : 1..logged, file : 0..LastDay])
    BY DEF LogInv, LogOK
  <2>2. [line : 1..logged, file : 0..LastDay] \subseteq [line : 1..logged', file : 0..LastDay]
    BY <1>2
  <2>3. written \in Seq([line : 1..logged', file : 0..LastDay])
    BY <2>1, <2>2, WiderSeq
  <2> QED BY <1>1, <2>3
<1>6. /\ writer' \in {"none", "open", "pop", "waiting", "woken", "write"}
      /\ writer' # "waiting" /\ (writer' = "write" <=> writer = "write")
      /\ InHand' = InHand /\ InHand \in Nat
  BY <1>1 DEF LogInv, LogOK, Started, InHand
<1>7. LogOK'
  BY <1>1, <1>2, <1>4, <1>5, <1>6 DEF LogInv, LogOK
<1>a. /\ written' = written /\ logged' = logged + 1 /\ InHand' = InHand
      /\ Len(lines') = Len(lines) + 1 /\ Len(lines) \in Nat
      /\ Len(written) \in Nat /\ InHand \in Nat /\ logged \in Nat
      /\ Len(written) + InHand + Len(lines) = logged
  <2>1. Len(written) \in Nat /\ Len(written) + InHand + Len(lines) = logged
    BY DEF LogInv, LogOK
  <2> QED BY <1>1, <1>3, <1>6, <2>1
<1>8. Len(written') + InHand' + Len(lines') = logged'
  BY <1>a
<1>9. \A i \in 1..Len(lines') : lines'[i] = Len(written') + InHand' + i
  <2>1. lines'[Len(lines) + 1] = logged + 1 /\ \A i \in 1..Len(lines) : lines'[i] = lines[i]
    BY <1>3
  <2>2. \A i \in 1..Len(lines) : lines[i] = Len(written) + InHand + i
    BY DEF LogInv
  <2>3. \A i \in 1..Len(lines') : i \in 1..Len(lines) \/ i = Len(lines) + 1
    BY <1>3
  <2> QED BY <1>a, <2>1, <2>2, <2>3
<1>10. WriterAwake'
  BY <1>6 DEF WriterAwake
<1> QED BY <1>1, <1>6, <1>7, <1>8, <1>9, <1>10 DEF LogInv

LEMMA PopStep ==
  ASSUME LogInv, Pop
  PROVE  LogInv'
<1>1. /\ logged \in Nat /\ lines \in Seq(1..logged) /\ lines # <<>>
      /\ lines' = Tail(lines) /\ line' = Head(lines)
      /\ writer \in {"pop", "woken"} /\ writer' = "write"
      /\ written' = written /\ file' = file /\ logged' = logged /\ day' = day /\ up' = up
      /\ Len(written) \in Nat
  BY DEF LogInv, LogOK, Pop
<1>2. /\ Len(lines) \in Nat /\ Len(lines) > 0 /\ Len(lines') = Len(lines) - 1
      /\ lines' \in Seq(1..logged) /\ line' = lines[1] /\ line' \in 1..logged
      /\ \A i \in 1..Len(lines') : lines'[i] = lines[i + 1] /\ i + 1 \in 1..Len(lines)
  BY <1>1
<1>3. InHand = 0 /\ InHand' = 1
  BY <1>1 DEF InHand
<1>4. /\ Len(written) + Len(lines) = logged
      /\ \A i \in 1..Len(lines) : lines[i] = Len(written) + i
  BY <1>1, <1>2, <1>3 DEF LogInv
<1>5. LogOK'
  BY <1>1, <1>2 DEF LogInv, LogOK
<1>6. line' = Len(written') + 1
  BY <1>1, <1>2, <1>4
<1>7. /\ Len(written') + InHand' + Len(lines') = logged'
      /\ \A i \in 1..Len(lines') : lines'[i] = Len(written') + InHand' + i
  <2>1. /\ written' = written /\ logged' = logged /\ InHand' = 1
        /\ Len(written) \in Nat /\ Len(lines) \in Nat /\ Len(lines') = Len(lines) - 1
        /\ \A i \in 1..Len(lines') : lines'[i] = lines[i + 1] /\ i + 1 \in 1..Len(lines)
    BY <1>1, <1>2, <1>3
  <2>2. Len(written') + InHand' + Len(lines') = logged'
    BY <1>4, <2>1
  <2>3. ASSUME NEW i \in 1..Len(lines') PROVE lines'[i] = Len(written') + InHand' + i
    <3>1. lines'[i] = Len(written) + (i + 1)
      BY <1>4, <2>1
    <3> QED BY <2>1, <3>1
  <2> QED BY <2>2, <2>3
<1>8. WriterAwake'
  BY <1>1 DEF WriterAwake
<1> QED BY <1>1, <1>5, <1>6, <1>7, <1>8 DEF LogInv

LEMMA WriteStep ==
  ASSUME LogInv, WriteLine
  PROVE  LogInv'
<1> DEFINE entry == [line |-> line, file |-> file]
<1>1. /\ writer = "write" /\ writer' = "open"
      /\ written \in Seq([line : 1..logged, file : 0..LastDay])
      /\ written' = Append(written, entry)
      /\ lines' = lines /\ logged' = logged /\ file' = file /\ line' = line
      /\ day' = day /\ up' = up
      /\ Len(lines) \in Nat /\ logged \in Nat /\ file \in 0..LastDay
  BY DEF LogInv, LogOK, WriteLine
<1>2. InHand = 1 /\ InHand' = 0
  BY <1>1 DEF InHand
<1>3. /\ Len(written) + 1 + Len(lines) = logged /\ line = Len(written) + 1
      /\ \A i \in 1..Len(lines) : lines[i] = Len(written) + 1 + i
  BY <1>1, <1>2 DEF LogInv
<1>4. Len(written) \in Nat /\ line \in 1..logged
  BY <1>1, <1>3
<1>5. /\ entry \in [line : 1..logged, file : 0..LastDay]
      /\ entry.line = line /\ entry.file = file
  BY <1>1, <1>4
<1> HIDE DEF entry
<1>6. /\ Len(written') = Len(written) + 1
      /\ written' \in Seq([line : 1..logged, file : 0..LastDay])
      /\ \A i \in 1..Len(written) : written'[i] = written[i]
      /\ written'[Len(written) + 1] = entry
      /\ \A i \in 1..Len(written') : i \in 1..Len(written) \/ i = Len(written) + 1
  BY <1>1, <1>4, <1>5
<1>7. LogOK'
  BY <1>1, <1>6 DEF LogInv, LogOK
<1>8. /\ Len(written') + InHand' + Len(lines') = logged'
      /\ \A i \in 1..Len(lines') : lines'[i] = Len(written') + InHand' + i
  BY <1>1, <1>2, <1>3, <1>4, <1>6
<1>9. \A i \in 1..Len(written') : written'[i].line = i /\ written'[i].file <= file'
  <2>1. \A i \in 1..Len(written) : written[i].line = i /\ written[i].file <= file
    BY DEF LogInv
  <2>2. file <= file
    BY <1>1
  <2> QED BY <1>1, <1>3, <1>5, <1>6, <2>1, <2>2
<1>10. \A i, j \in 1..Len(written') : i <= j => written'[i].file <= written'[j].file
  <2> SUFFICES ASSUME NEW i \in 1..Len(written'), NEW j \in 1..Len(written'), i <= j
               PROVE  written'[i].file <= written'[j].file
    OBVIOUS
  <2>1. CASE j \in 1..Len(written)
    <3>1. i \in 1..Len(written)
      BY <1>4, <1>6, <2>1
    <3> QED BY <1>6, <2>1, <3>1 DEF LogInv
  <2>2. CASE j = Len(written) + 1
    BY <1>1, <1>5, <1>6, <1>9, <2>2
  <2> QED BY <1>6, <2>1, <2>2
<1>11. WriterAwake'
  BY <1>1 DEF WriterAwake
<1> QED BY <1>1, <1>7, <1>8, <1>9, <1>10, <1>11 DEF LogInv

LEMMA OpenStep ==
  ASSUME LogInv, OpenFile
  PROVE  LogInv'
<1>1. /\ writer = "open" /\ writer' = "pop" /\ file' = day /\ file <= day
      /\ file \in 0..LastDay /\ day \in 0..LastDay
      /\ UNCHANGED <<lines, logged, line, written, day, up>>
  BY DEF LogInv, LogOK, OpenFile
<1>2. InHand = 0 /\ InHand' = 0
  BY <1>1 DEF InHand
<1>3. \A i \in 1..Len(written) : written[i].file <= file'
  BY <1>1, FilesBefore DEF LogInv
<1>4. LogOK' /\ WriterAwake'
  BY <1>1 DEF LogInv, LogOK, WriterAwake
<1>5. file' <= day'
  BY <1>1
<1> QED BY <1>1, <1>2, <1>3, <1>4, <1>5 DEF LogInv

LEMMA OtherLogSteps ==
  ASSUME LogInv, OpenFails \/ PopWaits \/ SpuriousPop \/ Midnight \/ UNCHANGED logVars
  PROVE  LogInv'
<1>1. /\ UNCHANGED <<lines, logged, line, written, file>>
      /\ day' \in 0..LastDay /\ day <= day'
      /\ (writer' = "write") = (writer = "write")
  <2>1. LogOK
    BY DEF LogInv
  <2>2. CASE OpenFails
    BY <2>1, <2>2 DEF LogOK, OpenFails
  <2>3. CASE PopWaits
    BY <2>1, <2>3 DEF LogOK, PopWaits
  <2>4. CASE SpuriousPop
    BY <2>1, <2>4 DEF LogOK, SpuriousPop
  <2>5. CASE Midnight
    BY <2>1, <2>5, LogAssumption DEF LogOK, Midnight
  <2>6. CASE UNCHANGED logVars
    BY <2>1, <2>6 DEF LogOK, logVars
  <2> QED BY <2>2, <2>3, <2>4, <2>5, <2>6
<1>2. LogOK'
  BY <1>1 DEF LogInv, LogOK, OpenFails, PopWaits, SpuriousPop, Midnight, logVars
<1>3. WriterAwake'
  BY <1>1 DEF LogInv, WriterAwake, OpenFails, PopWaits, SpuriousPop, Midnight, logVars
<1>4. InHand' = InHand
  BY <1>1 DEF InHand
<1>5. file' <= day'
  <2>1. file \in 0..LastDay /\ day \in 0..LastDay /\ file <= day
    BY DEF LogInv, LogOK
  <2> QED BY <1>1, <2>1
<1> QED BY <1>1, <1>2, <1>3, <1>4, <1>5 DEF LogInv

\* The concatenation that InOrder speaks of.
LEMMA OrderKept == LogInv => InOrder
<1> SUFFICES ASSUME LogInv PROVE InOrder
  OBVIOUS
<1> DEFINE out  == [i \in DOMAIN written |-> written[i].line]
           hand == IF writer = "write" THEN <<line>> ELSE <<>>
<1>1. /\ written \in Seq([line : 1..logged, file : 0..LastDay])
      /\ DOMAIN written = 1..Len(written) /\ Len(written) \in Nat
      /\ lines \in Seq(Nat) /\ Len(lines) \in Nat /\ line \in Nat
  BY DEF LogInv, LogOK
<1>2. /\ out \in Seq(Nat) /\ Len(out) = Len(written)
      /\ \A i \in 1..Len(out) : out[i] = i
  BY <1>1 DEF LogInv
<1>3. /\ hand \in Seq(Nat) /\ Len(hand) = InHand /\ InHand \in {0, 1}
      /\ \A i \in 1..Len(hand) : hand[i] = Len(written) + i
  BY <1>1 DEF LogInv, InHand
<1>4. Kept = out \o hand \o lines
  BY DEF Kept
<1> DEFINE front == out \o hand
<1>4a. Kept = front \o lines
  BY <1>4
<1> HIDE DEF out, hand
<1>5. /\ front \in Seq(Nat) /\ Len(front) = Len(written) + InHand
      /\ \A i \in 1..(Len(written) + InHand) : front[i] = i
  BY <1>1, <1>2, <1>3
<1> HIDE DEF front
<1>6. /\ Len(Kept) = logged /\ Kept \in Seq(Nat)
      /\ \A i \in 1..Len(Kept) : Kept[i] = i
  <2>1. /\ Len(written) + InHand + Len(lines) = logged
        /\ \A i \in 1..Len(lines) : lines[i] = Len(written) + InHand + i
    BY DEF LogInv
  <2>2. /\ Kept \in Seq(Nat) /\ Len(Kept) = Len(front) + Len(lines)
        /\ \A i \in 1..Len(front) : Kept[i] = front[i]
        /\ \A i \in 1..Len(lines) : Kept[Len(front) + i] = lines[i]
    <3>1. front \in Seq(Nat) /\ lines \in Seq(Nat)
      BY <1>1, <1>5
    <3>2. /\ (front \o lines) \in Seq(Nat) /\ Len(front \o lines) = Len(front) + Len(lines)
          /\ \A i \in 1..Len(front) : (front \o lines)[i] = front[i]
          /\ \A i \in 1..Len(lines) : (front \o lines)[Len(front) + i] = lines[i]
      BY <3>1
    <3> QED BY <1>4a, <3>2
  <2>3. Len(Kept) = logged /\ Len(written) + InHand \in Nat
    BY <1>1, <1>3, <1>5, <2>1, <2>2
  <2>4. ASSUME NEW i \in 1..Len(Kept) PROVE Kept[i] = i
    <3>1. CASE i <= Len(written) + InHand
      <4>1. i \in 1..(Len(written) + InHand)
        BY <2>3, <3>1
      <4> QED BY <1>5, <2>2, <4>1
    <3>2. CASE i > Len(written) + InHand
      <4>1. /\ i - (Len(written) + InHand) \in 1..Len(lines)
            /\ i = Len(front) + (i - (Len(written) + InHand))
        BY <1>1, <1>3, <1>5, <2>1, <2>2, <2>3, <3>2
      <4>2. Kept[i] = lines[i - (Len(written) + InHand)]
        BY <2>2, <4>1
      <4> QED BY <1>5, <2>1, <2>3, <4>1, <4>2
    <3> QED BY <2>3, <3>1, <3>2
  <2> QED BY <2>2, <2>3, <2>4
<1>7. \A i \in DOMAIN written : written[i].file <= day
  <2>1. LogOK /\ day \in 0..LastDay /\ file <= day
    BY DEF LogInv, LogOK
  <2> QED BY <1>1, <2>1, FilesBefore DEF LogInv
<1> QED BY <1>1, <1>6, <1>7 DEF InOrder, LogInv

----------------------------------------------------------------------------
(* Pool and log together.                                                  *)

IInv == PoolInv /\ LogInv /\ uses \in [Threads -> 0..MaxUse]

LEMMA Invariance == Spec => []IInv
<1>1. Init => IInv
  BY PoolStart, LogStart, UseAssumption DEF Init, IInv
<1>2. IInv /\ [Next]_vars => IInv'
  <2> SUFFICES ASSUME IInv, [Next]_vars PROVE IInv'
    OBVIOUS
  <2>1. ASSUME NEW t \in Threads, Begin(t) PROVE IInv'
    <3>1. PoolInv' /\ LogInv'
      BY <2>1, PoolStep, OtherLogSteps DEF IInv, Begin
    <3>2. uses' \in [Threads -> 0..MaxUse]
      BY <2>1, UseAssumption DEF IInv, Begin
    <3> QED BY <3>1, <3>2 DEF IInv
  <2>2. ASSUME NEW t \in Threads, Thread(t) PROVE IInv'
    BY <2>2, PoolStep, LogStep, OtherLogSteps DEF IInv, Thread, Taking, Finish
  <2>3. CASE Writer \/ Clock
    BY <2>3, PoolStutter, PopStep, WriteStep, OpenStep, OtherLogSteps
    DEF IInv, Writer, WriterStep, Clock
  <2>4. CASE Spurious
    BY <2>4, PoolStep, PoolStutter, OtherLogSteps DEF IInv, Spurious
  <2>5. CASE UNCHANGED vars
    BY <2>5, PoolStutter, OtherLogSteps DEF IInv, vars
  <2> QED BY <2>1, <2>2, <2>3, <2>4, <2>5 DEF Next
<1> QED BY <1>1, <1>2, PTL DEF Spec

\* The pools' lists and counters, the threads' places, the log's queue and
\* files keep their types, with any numbers of threads, objects and days.
THEOREM Typing == Spec => []TypeOK
<1>1. IInv => TypeOK
  BY DEF IInv, PoolInv, LogInv, TypeOK
<1> QED BY <1>1, Invariance, PTL

\* connection_pool and HmacPool lose no object and give none to two threads
\* between constructor and destructor; their counters say how many there are.
THEOREM Accounting == Spec => []Accounted
<1>1. IInv => Accounted
  BY DEF IInv, PoolInv
<1> QED BY <1>1, Invariance, PTL

\* No thread sleeps while an object it waits for is in the list or a line in
\* the queue: one signal for each of them is enough.
THEOREM Signals == Spec => []NoLostSignal
<1>1. IInv => NoLostSignal
  BY DEF IInv, PoolInv, LogInv, NoLostSignal
<1> QED BY <1>1, Invariance, PTL

\* Every logged line is written once, in order, into files filled in order.
THEOREM Order == Spec => []InOrder
<1>1. IInv => InOrder
  BY OrderKept DEF IInv
<1> QED BY <1>1, Invariance, PTL
=============================================================================
