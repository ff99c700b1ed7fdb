--------------------------- MODULE ExecutionSafety ---------------------------
(***************************************************************************)
(* What the Host's execution store promises to those who follow a turn,    *)
(* for any number of executions, scopes and connections and any buffer     *)
(* size, in four layers:                                                   *)
(*   Story      a record's fields agree: the store implements the abstract *)
(*              life of an execution (ExecutionLifecycle);                 *)
(*   Stored     its buffer is in order, whatever was merged or dropped;    *)
(*   Followed   each listener was sent all since it joined;                *)
(*   Streaming  the page that follows one execution over such connections  *)
(*              knows what it concludes.                                   *)
(*                                                                         *)
(* A record is four fields that must tell one story: its state, its        *)
(* terminal, its disposition and its tombstone.  emit asks for the         *)
(* terminal and writes the state; ack asks for the tombstone and writes    *)
(* the disposition.  Consistent says they agree, and that is what makes    *)
(* every step one of the abstract module.  The buffer plays no part there: *)
(* no amount of merging or dropping touches these fields.                  *)
(***************************************************************************)
EXTENDS RegistryProperties, StreamProperties, FiniteSetTheorems, WellFoundedInduction, TLAPS

-----------------------------------------------------------------------------
(* Sequences.  FlattenSeq is a recursive function over the positions of    *)
(* its argument; the order of the natural numbers is well founded          *)
(* (NatLessThanWellFounded, WFMin), and that carries the inductions its    *)
(* facts need.                                                             *)

\* A set of numbers has a least one.
LEMMA LeastNumber ==
  ASSUME NEW T, T \subseteq Nat, T # {}
  PROVE  \E m \in T : \A n \in T : ~ (n < m)
<1> DEFINE R == {ss \in Nat \X Nat : ss[1] < ss[2]}
<1>1. IsWellFoundedOn(R, Nat)
  BY NatLessThanWellFounded DEF OpToRel
<1>2. PICK m \in T : \A n \in T : ~ (<<n, m>> \in R)
  <2> HIDE DEF R
  <2> QED BY <1>1, WFMin
<1> QED
  BY <1>2

\* A set that holds 1 and the successor of each of its members below n holds 1 .. n.
LEMMA Upward ==
  ASSUME NEW n \in Nat, NEW T, 1 \in T, \A i \in 1 .. n : i + 1 \in 1 .. n /\ i \in T => i + 1 \in T
  PROVE  1 .. n \subseteq T
<1> DEFINE Bad == {i \in 1 .. n : i \notin T}
<1>1. ASSUME Bad # {}
      PROVE  FALSE
  <2>1. Bad \subseteq Nat
    OBVIOUS
  <2>2. PICK m \in Bad : \A i \in Bad : ~ (i < m)
    BY <1>1, <2>1, LeastNumber
  <2>3. m # 1 /\ m \in 1 .. n /\ m \notin T
    BY <2>2
  <2>4. m - 1 \in 1 .. n /\ (m - 1) + 1 = m /\ m - 1 < m
    BY <2>3
  <2>5. m - 1 \notin Bad
    <3> HIDE DEF Bad
    <3> QED BY <2>2, <2>4
  <2> QED
    BY <2>3, <2>4, <2>5
<1> QED
  BY <1>1

\* F[i] is the first i sequences of ss, joined.
Joins(F, ss, S) == /\ F \in [1 .. Len(ss) -> Seq(S)]
                   /\ F[1] = ss[1]
                   /\ \A i \in 1 .. Len(ss) : i # 1 => F[i] = F[i - 1] \o ss[i]

\* The function that FlattenSeq chooses.
Flatten(ss) == CHOOSE f : f = [i \in 1 .. Len(ss) |-> IF i = 1 THEN ss[i] ELSE f[i - 1] \o ss[i]]

LEMMA FlattenIsJoin ==
  ASSUME NEW ss
  PROVE  FlattenSeq(ss) = IF Len(ss) = 0 THEN ss ELSE Flatten(ss)[Len(ss)]
BY DEF FlattenSeq, Flatten

\* There is such a function: one for each length, as long as no length is the first without.
LEMMA FlattenDefined ==
  ASSUME NEW ss, Len(ss) \in Nat
  PROVE  Flatten(ss) = [i \in 1 .. Len(ss) |->
                          IF i = 1 THEN ss[i] ELSE Flatten(ss)[i - 1] \o ss[i]]
<1> DEFINE Step(i, f) == IF i = 1 THEN ss[i] ELSE f[i - 1] \o ss[i]
           Undefined == {n \in Nat : ~ \E f : f = [i \in 1 .. n |-> Step(i, f)]}
<1>1. ASSUME Undefined # {}
      PROVE  FALSE
  <2>1. PICK m \in Undefined : \A n \in Undefined : ~ (n < m)
    BY <1>1, LeastNumber
  <2>2. CASE m = 0
    <3> DEFINE f == [i \in 1 .. 0 |-> 0]
    <3>1. f = [i \in 1 .. 0 |-> Step(i, f)]
      <4>1. \A i \in 1 .. 0 : FALSE
        OBVIOUS
      <4> HIDE DEF Step
      <4> QED BY <4>1
    <3> QED
      BY <2>1, <2>2, <3>1
  <2>3. CASE m # 0
    <3>1. m - 1 \in Nat /\ m \in Nat /\ m - 1 < m
      BY <2>3
    <3>2. PICK g : g = [i \in 1 .. (m - 1) |-> Step(i, g)]
      BY <2>1, <3>1
    <3> DEFINE f == [i \in 1 .. m |-> Step(i, g)]
    <3>3. \A i \in 1 .. m : i # 1 => i - 1 \in 1 .. (m - 1) /\ i - 1 \in 1 .. m
      BY <3>1
    <3>4. \A i \in 1 .. (m - 1) : f[i] = g[i]
      <4>1. 1 .. (m - 1) \subseteq 1 .. m
        BY <3>1
      <4> HIDE DEF Step
      <4> QED BY <3>2, <4>1
    <3>5. ASSUME NEW i \in 1 .. m
          PROVE  Step(i, g) = Step(i, f)
      <4>1. i # 1 => f[i - 1] = g[i - 1]
        <5> HIDE DEF f
        <5> QED BY <3>3, <3>4
      <4> HIDE DEF f
      <4> QED BY <4>1
    <3>6. f = [i \in 1 .. m |-> Step(i, f)]
      BY <3>5
    <3> QED
      BY <2>1, <3>1, <3>6
  <2> QED
    BY <2>2, <2>3
<1>2. \E f : f = [i \in 1 .. Len(ss) |-> Step(i, f)]
  BY <1>1
<1>3. Flatten(ss) = CHOOSE f : f = [i \in 1 .. Len(ss) |-> Step(i, f)]
  BY DEF Flatten
<1>4. Flatten(ss) = [i \in 1 .. Len(ss) |-> Step(i, Flatten(ss))]
  <2> HIDE DEF Step
  <2> QED BY <1>2, <1>3
<1> QED
  BY <1>4

LEMMA FlattenJoins ==
  ASSUME NEW S, NEW ss \in Seq(Seq(S)), ss # <<>>
  PROVE  Joins(Flatten(ss), ss, S) /\ FlattenSeq(ss) = Flatten(ss)[Len(ss)]
<1> DEFINE F == Flatten(ss)
           n == Len(ss)
           T == {i \in 1 .. n : F[i] \in Seq(S)}
<1>1. n \in Nat /\ n # 0 /\ 1 \in 1 .. n /\ \A i \in 1 .. n : ss[i] \in Seq(S)
  OBVIOUS
<1>2. F = [i \in 1 .. n |-> IF i = 1 THEN ss[i] ELSE F[i - 1] \o ss[i]]
  BY <1>1, FlattenDefined
<1> HIDE DEF F
<1>3. F[1] = ss[1] /\ \A i \in 1 .. n : i # 1 => F[i] = F[i - 1] \o ss[i]
  BY <1>1, <1>2
<1>4. 1 \in T
  BY <1>1, <1>3
<1>5. ASSUME NEW i \in 1 .. n, i + 1 \in 1 .. n, i \in T
      PROVE  i + 1 \in T
  <2>1. i + 1 # 1 /\ (i + 1) - 1 = i
    OBVIOUS
  <2>2. F[i + 1] = F[i] \o ss[i + 1] /\ ss[i + 1] \in Seq(S)
    <3> HIDE DEF n
    <3> QED BY <1>1, <1>3, <1>5, <2>1
  <2>3. F[i] \in Seq(S)
    BY <1>5
  <2>4. \A a, b \in Seq(S) : a \o b \in Seq(S)
    OBVIOUS
  <2>5. F[i + 1] \in Seq(S)
    BY <2>2, <2>3, <2>4
  <2> QED
    BY <1>5, <2>5
<1>6. 1 .. n \subseteq T
  <2> HIDE DEF T
  <2> QED BY <1>1, <1>4, <1>5, Upward
<1>7. DOMAIN F = 1 .. n /\ F = [i \in 1 .. n |-> F[i]]
  BY <1>2
<1>8. Joins(F, ss, S)
  BY <1>3, <1>6, <1>7 DEF Joins
<1>9. FlattenSeq(ss) = F[n]
  BY <1>1, FlattenIsJoin DEF F
<1> QED
  BY <1>8, <1>9 DEF F

LEMMA FlattenTyped ==
  ASSUME NEW S, NEW ss \in Seq(Seq(S))
  PROVE  FlattenSeq(ss) \in Seq(S)
<1>1. CASE ss = <<>>
  <2>1. FlattenSeq(ss) = <<>>
    BY <1>1, FlattenIsJoin
  <2> QED
    BY <2>1
<1>2. CASE ss # <<>>
  <2>1. Joins(Flatten(ss), ss, S) /\ FlattenSeq(ss) = Flatten(ss)[Len(ss)]
    BY <1>2, FlattenJoins
  <2>2. Len(ss) \in 1 .. Len(ss)
    BY <1>2
  <2> QED
    BY <2>1, <2>2 DEF Joins
<1> QED
  BY <1>1, <1>2

LEMMA ConcatElements ==
  ASSUME NEW S, NEW a \in Seq(S), NEW b \in Seq(S)
  PROVE  ToSet(a \o b) = ToSet(a) \cup ToSet(b)
<1>1. Len(a \o b) = Len(a) + Len(b) /\ Len(a) \in Nat /\ Len(b) \in Nat
  OBVIOUS
<1>2. ASSUME NEW i \in DOMAIN a
      PROVE  a[i] \in ToSet(a \o b)
  <2>1. i \in DOMAIN (a \o b) /\ (a \o b)[i] = a[i]
    OBVIOUS
  <2> QED
    BY <2>1 DEF ToSet
<1>3. ASSUME NEW i \in DOMAIN b
      PROVE  b[i] \in ToSet(a \o b)
  <2>1. Len(a) + i \in DOMAIN (a \o b) /\ (a \o b)[Len(a) + i] = b[i]
    OBVIOUS
  <2> QED
    BY <2>1 DEF ToSet
<1>4. ASSUME NEW i \in DOMAIN (a \o b)
      PROVE  (a \o b)[i] \in ToSet(a) \cup ToSet(b)
  <2>1. CASE i <= Len(a)
    <3>1. i \in DOMAIN a /\ (a \o b)[i] = a[i]
      BY <2>1
    <3> QED
      BY <3>1 DEF ToSet
  <2>2. CASE i > Len(a)
    <3>1. i - Len(a) \in DOMAIN b /\ (a \o b)[i] = b[i - Len(a)]
      BY <2>2
    <3> QED
      BY <3>1 DEF ToSet
  <2> QED
    BY <2>1, <2>2
<1> QED
  BY <1>2, <1>3, <1>4 DEF ToSet

LEMMA AppendElements ==
  ASSUME NEW S, NEW s \in Seq(S), NEW x \in S
  PROVE  /\ Append(s, x) \in Seq(S) /\ Append(s, x) # <<>> /\ Last(Append(s, x)) = x
         /\ ToSet(Append(s, x)) = ToSet(s) \cup {x}
<1>1. Append(s, x) = s \o <<x>> /\ <<x>> \in Seq(S)
  OBVIOUS
<1>2. ToSet(<<x>>) = {x}
  BY DEF ToSet
<1>3. ToSet(s \o <<x>>) = ToSet(s) \cup ToSet(<<x>>)
  BY <1>1, ConcatElements
<1>4. Append(s, x) \in Seq(S)
  OBVIOUS
<1>5. Append(s, x) # <<>>
  <2>1. Len(Append(s, x)) = Len(s) + 1 /\ Len(s) \in Nat /\ Len(<<>>) = 0
    OBVIOUS
  <2> QED
    BY <2>1
<1>6. Last(Append(s, x)) = x
  BY DEF Last
<1> QED
  BY <1>1, <1>2, <1>3, <1>4, <1>5, <1>6

LEMMA FlattenElements ==
  ASSUME NEW S, NEW ss \in Seq(Seq(S))
  PROVE  ToSet(FlattenSeq(ss)) = UNION {ToSet(ss[i]) : i \in DOMAIN ss}
<1> DEFINE n == Len(ss)
           F == Flatten(ss)
           Seen(i) == UNION {ToSet(ss[j]) : j \in 1 .. i}
           T == {i \in 1 .. n : ToSet(F[i]) = Seen(i)}
<1>1. CASE ss = <<>>
  <2>1. FlattenSeq(ss) = <<>>
    BY <1>1, FlattenIsJoin
  <2> QED
    BY <1>1, <2>1 DEF ToSet
<1>2. CASE ss # <<>>
  <2>1. Joins(F, ss, S) /\ FlattenSeq(ss) = F[n]
    BY <1>2, FlattenJoins
  <2>2. n \in Nat /\ 1 \in 1 .. n /\ n \in 1 .. n /\ \A i \in 1 .. n : ss[i] \in Seq(S)
    BY <1>2
  <2> HIDE DEF F, n
  <2>3. F[1] = ss[1] /\ \A i \in 1 .. n : F[i] \in Seq(S) /\ (i # 1 => F[i] = F[i - 1] \o ss[i])
    BY <2>1 DEF Joins, n
  <2>4. 1 \in T
    <3>1. \A j \in 1 .. 1 : j = 1
      OBVIOUS
    <3> QED
      BY <2>2, <2>3, <3>1
  <2>5. ASSUME NEW i \in 1 .. n, i + 1 \in 1 .. n, i \in T
        PROVE  i + 1 \in T
    <3>1. i + 1 # 1 /\ (i + 1) - 1 = i
      BY <2>2
    <3>2. F[i + 1] = F[i] \o ss[i + 1]
      BY <2>3, <2>5, <3>1
    <3>3. ToSet(F[i + 1]) = ToSet(F[i]) \cup ToSet(ss[i + 1])
      <4>1. F[i] \in Seq(S) /\ ss[i + 1] \in Seq(S)
        BY <2>2, <2>3, <2>5
      <4> QED
        BY <3>2, <4>1, ConcatElements
    <3>4. 1 .. (i + 1) = (1 .. i) \cup {i + 1}
      BY <2>2
    <3> QED
      BY <2>5, <3>3, <3>4
  <2>6. 1 .. n \subseteq T
    <3> HIDE DEF T
    <3> QED BY <2>2, <2>4, <2>5, Upward
  <2>7. DOMAIN ss = 1 .. n
    BY DEF n
  <2> QED
    BY <2>1, <2>2, <2>6, <2>7
<1> QED
  BY <1>1, <1>2

\* An earlier element and a later one of s are a pair of R.
Ordered(s, R) == \A i, j \in DOMAIN s : i < j => <<s[i], s[j]>> \in R

LEMMA ConcatOrdered ==
  ASSUME NEW S, NEW a \in Seq(S), NEW b \in Seq(S), NEW R, Ordered(a, R), Ordered(b, R),
         \A x \in ToSet(a), y \in ToSet(b) : <<x, y>> \in R
  PROVE  Ordered(a \o b, R)
<1>1. Len(a) \in Nat /\ Len(b) \in Nat /\ DOMAIN (a \o b) = 1 .. Len(a) + Len(b)
      /\ DOMAIN a = 1 .. Len(a) /\ DOMAIN b = 1 .. Len(b)
  OBVIOUS
<1>2. \A i \in DOMAIN a : (a \o b)[i] = a[i] /\ a[i] \in ToSet(a)
  BY DEF ToSet
<1>3. \A i \in DOMAIN (a \o b) : i \notin DOMAIN a => /\ i - Len(a) \in DOMAIN b
                                                       /\ (a \o b)[i] = b[i - Len(a)]
                                                       /\ b[i - Len(a)] \in ToSet(b)
  BY DEF ToSet
<1> SUFFICES ASSUME NEW i \in DOMAIN (a \o b), NEW j \in DOMAIN (a \o b), i < j
             PROVE  <<(a \o b)[i], (a \o b)[j]>> \in R
  BY DEF Ordered
<1>4. CASE j \in DOMAIN a
  <2>1. i \in DOMAIN a
    BY <1>1, <1>4
  <2> QED
    BY <1>2, <1>4, <2>1 DEF Ordered
<1>5. CASE i \notin DOMAIN a
  <2>1. j \notin DOMAIN a /\ i - Len(a) < j - Len(a)
    BY <1>1, <1>5
  <2> QED
    BY <1>3, <1>5, <2>1 DEF Ordered
<1>6. CASE i \in DOMAIN a /\ j \notin DOMAIN a
  BY <1>2, <1>3, <1>6
<1> QED
  BY <1>4, <1>5, <1>6

LEMMA FlattenOrdered ==
  ASSUME NEW S, NEW ss \in Seq(Seq(S)), NEW R, \A i \in DOMAIN ss : Ordered(ss[i], R),
         \A i, j \in DOMAIN ss : i < j => \A x \in ToSet(ss[i]), y \in ToSet(ss[j]) : <<x, y>> \in R
  PROVE  Ordered(FlattenSeq(ss), R)
<1> DEFINE n == Len(ss)
           F == Flatten(ss)
           Seen(i) == UNION {ToSet(ss[j]) : j \in 1 .. i}
           T == {i \in 1 .. n : ToSet(F[i]) = Seen(i) /\ Ordered(F[i], R)}
<1>1. CASE ss = <<>>
  <2>1. FlattenSeq(ss) = <<>>
    BY <1>1, FlattenIsJoin
  <2> QED
    BY <2>1 DEF Ordered
<1>2. CASE ss # <<>>
  <2>1. Joins(F, ss, S) /\ FlattenSeq(ss) = F[n]
    BY <1>2, FlattenJoins
  <2>2. n \in Nat /\ 1 \in 1 .. n /\ n \in 1 .. n /\ DOMAIN ss = 1 .. n
        /\ \A i \in 1 .. n : ss[i] \in Seq(S)
    BY <1>2
  <2> HIDE DEF F, n
  <2>3. F[1] = ss[1] /\ \A i \in 1 .. n : F[i] \in Seq(S) /\ (i # 1 => F[i] = F[i - 1] \o ss[i])
    BY <2>1 DEF Joins, n
  <2>4. 1 \in T
    <3>1. \A j \in 1 .. 1 : j = 1
      OBVIOUS
    <3>2. ToSet(F[1]) = Seen(1)
      BY <2>3, <3>1
    <3> QED
      BY <2>2, <2>3, <3>2
  <2>5. ASSUME NEW i \in 1 .. n, i + 1 \in 1 .. n, i \in T
        PROVE  i + 1 \in T
    <3>1. i + 1 # 1 /\ (i + 1) - 1 = i
      BY <2>2
    <3>2. F[i + 1] = F[i] \o ss[i + 1]
      BY <2>3, <2>5, <3>1
    <3>3. ToSet(F[i + 1]) = ToSet(F[i]) \cup ToSet(ss[i + 1])
      <4>1. F[i] \in Seq(S) /\ ss[i + 1] \in Seq(S)
        BY <2>2, <2>3, <2>5
      <4> QED
        BY <3>2, <4>1, ConcatElements
    <3>4. 1 .. (i + 1) = (1 .. i) \cup {i + 1}
      BY <2>2
    <3>5. ToSet(F[i + 1]) = Seen(i + 1)
      BY <2>5, <3>3, <3>4
    <3>6. \A x \in ToSet(F[i]), y \in ToSet(ss[i + 1]) : <<x, y>> \in R
      <4>1. \A x \in ToSet(F[i]) : \E j \in 1 .. i : x \in ToSet(ss[j])
        BY <2>5
      <4>2. \A j \in 1 .. i : j \in 1 .. n /\ j < i + 1
        BY <2>2
      <4> QED
        BY <2>2, <2>5, <4>1, <4>2
    <3>7. Ordered(F[i + 1], R)
      <4>1. F[i] \in Seq(S) /\ ss[i + 1] \in Seq(S) /\ Ordered(F[i], R) /\ Ordered(ss[i + 1], R)
        BY <2>2, <2>3, <2>5
      <4> HIDE DEF T
      <4> QED
        BY <3>2, <3>6, <4>1, ConcatOrdered
    <3> QED
      BY <2>5, <3>5, <3>7
  <2>6. 1 .. n \subseteq T
    <3> HIDE DEF T
    <3> QED BY <2>2, <2>4, <2>5, Upward
  <2> QED
    BY <2>1, <2>2, <2>6
<1> QED
  BY <1>1, <1>2

LEMMA FlattenLast ==
  ASSUME NEW S, NEW ss \in Seq(Seq(S)), ss # <<>>, Last(ss) # <<>>
  PROVE  FlattenSeq(ss) # <<>> /\ Last(FlattenSeq(ss)) = Last(Last(ss))
<1> DEFINE n == Len(ss)
           F == Flatten(ss)
           last == ss[n]
<1>1. Joins(F, ss, S) /\ FlattenSeq(ss) = F[n]
  BY FlattenJoins
<1>2. n \in Nat /\ n \in 1 .. n /\ last \in Seq(S) /\ last # <<>> /\ Last(ss) = last
  BY DEF Last
<1> HIDE DEF F, n, last
<1>3. CASE n = 1
  BY <1>1, <1>2, <1>3 DEF Joins, n, last
<1>4. CASE n # 1
  <2>1. F[n] = F[n - 1] \o last /\ F[n - 1] \in Seq(S)
    <3>1. n - 1 \in 1 .. n
      BY <1>2, <1>4
    <3> QED
      BY <1>1, <1>2, <1>4, <3>1 DEF Joins, n, last
  <2>2. \A a, b \in Seq(S) : b # <<>> => a \o b # <<>> /\ (a \o b)[Len(a \o b)] = b[Len(b)]
    OBVIOUS
  <2> QED
    BY <1>1, <1>2, <2>1, <2>2 DEF Last
<1> QED
  BY <1>3, <1>4

-----------------------------------------------------------------------------
(* Buffers.  What is buffered or sent up to seq n: the chunks of each      *)
(* event increase from its own seq; an earlier event precedes a later one. *)

StampedBy(n) ==
  {event \in Events :
     /\ event.seq <= n
     /\ \A k \in DOMAIN event.text : event.seq <= event.text[k] /\ event.text[k] <= n
     /\ \A k, l \in DOMAIN event.text : k < l => event.text[k] < event.text[l]}

\* Only the first preview may be a snapshot, and nothing comes after a terminal.
Precedes(a, b) ==
  /\ a.seq < b.seq
  /\ IsPreview(b) => \A k \in DOMAIN a.text : a.text[k] < b.seq
  /\ b.type = "output.snapshot" => ~ IsPreview(a)
  /\ ~ IsTerminal(a)

Before == {pair \in Events \X Events : Precedes(pair[1], pair[2])}

InOrder(events, n) == events \in Seq(StampedBy(n)) /\ Ordered(events, Before)

Unfinished(events) == \A i \in DOMAIN events : ~ IsTerminal(events[i])

LEMMA BeforeMeans ==
  \A a, b : <<a, b>> \in Before <=> a \in Events /\ b \in Events /\ Precedes(a, b)
BY DEF Before

LEMMA EventFields ==
  ASSUME NEW event \in Events
  PROVE  /\ event.seq \in 1 .. MaxSeq /\ event.seq \in Nat
         /\ event.type \in EventTypes
         /\ event.text \in Seq(1 .. MaxSeq)
         /\ \A k \in DOMAIN event.text : event.text[k] \in Nat /\ event.text[k] \in 1 .. MaxSeq
<1>1. event.seq \in 1 .. MaxSeq /\ event.type \in EventTypes /\ event.text \in Seq(1 .. MaxSeq)
  BY DEF Events
<1> QED
  BY <1>1, MaxSeqAssumption

LEMMA ElementsInOrder ==
  ASSUME NEW n, NEW s, InOrder(s, n)
  PROVE  /\ s \in Seq(Events)
         /\ \A i \in DOMAIN s : s[i] \in StampedBy(n) /\ s[i] \in Events /\ s[i] \in ToSet(s)
         /\ \A i, j \in DOMAIN s : i < j => Precedes(s[i], s[j])
<1>1. \A i \in DOMAIN s : s[i] \in StampedBy(n)
  BY DEF InOrder
<1>2. \A i \in DOMAIN s : s[i] \in Events
  BY <1>1 DEF StampedBy
<1>3. s \in Seq(Events)
  BY <1>2 DEF InOrder
<1> QED
  BY <1>1, <1>2, <1>3, BeforeMeans DEF InOrder, Ordered, ToSet

LEMMA StampedLater ==
  ASSUME NEW n \in Nat, NEW m \in Nat, n <= m
  PROVE  StampedBy(n) \subseteq StampedBy(m)
BY EventFields DEF StampedBy

\* What was in order stays so while the seq counter runs.
LEMMA InOrderLater ==
  ASSUME NEW n \in Nat, NEW m \in Nat, n <= m, NEW s, InOrder(s, n)
  PROVE  InOrder(s, m)
<1>1. StampedBy(n) \subseteq StampedBy(m)
  BY StampedLater
<1> QED
  BY <1>1 DEF InOrder

\* The event that comes next.
LEMMA AppendInOrder ==
  ASSUME NEW n \in Nat, n + 1 <= MaxSeq, NEW s, InOrder(s, n), Unfinished(s),
         NEW event \in Events, event.seq = n + 1, event.type # "output.snapshot",
         event.text \in {<<>>, <<n + 1>>}
  PROVE  InOrder(Append(s, event), n + 1)
<1>1. InOrder(s, n + 1)
  BY InOrderLater
<1>2. event \in StampedBy(n + 1)
  BY DEF StampedBy
<1>3. Append(s, event) \in Seq(StampedBy(n + 1))
  BY <1>1, <1>2 DEF InOrder
<1>4. /\ s \in Seq(Events)
      /\ \A i \in DOMAIN s : s[i] \in StampedBy(n) /\ s[i] \in Events
      /\ \A i, j \in DOMAIN s : i < j => Precedes(s[i], s[j])
  BY ElementsInOrder
<1>5. ASSUME NEW i \in DOMAIN s
      PROVE  Precedes(s[i], event)
  <2>1. s[i].seq \in Nat /\ s[i].seq <= n
        /\ \A k \in DOMAIN s[i].text : s[i].text[k] \in Nat /\ s[i].text[k] <= n
    BY <1>4, EventFields DEF StampedBy
  <2>2. ~ IsTerminal(s[i])
    BY DEF Unfinished
  <2> QED
    BY <2>1, <2>2 DEF Precedes
<1>6. /\ DOMAIN Append(s, event) = 1 .. Len(s) + 1 /\ Len(s) \in Nat /\ DOMAIN s = 1 .. Len(s)
      /\ \A i \in DOMAIN s : Append(s, event)[i] = s[i]
      /\ Append(s, event)[Len(s) + 1] = event
  BY <1>4
<1>7. ASSUME NEW i \in DOMAIN Append(s, event), NEW j \in DOMAIN Append(s, event), i < j
      PROVE  <<Append(s, event)[i], Append(s, event)[j]>> \in Before
  <2>1. i \in DOMAIN s /\ (j \in DOMAIN s \/ j = Len(s) + 1)
    BY <1>6, <1>7
  <2>2. CASE j \in DOMAIN s
    BY <1>4, <1>6, <1>7, <2>1, <2>2, BeforeMeans
  <2>3. CASE j = Len(s) + 1
    BY <1>4, <1>5, <1>6, <2>1, <2>3, BeforeMeans
  <2> QED
    BY <2>1, <2>2, <2>3
<1> QED
  BY <1>3, <1>7 DEF InOrder, Ordered

\* What follow replays.
LEMMA ReplayInOrder ==
  ASSUME NEW n \in Nat, NEW s, InOrder(s, n), NEW afterSeq \in Nat
  PROVE  /\ InOrder(Replay(s, afterSeq), n)
         /\ ToSet(Replay(s, afterSeq)) = {event \in ToSet(s) : event.seq > afterSeq}
         /\ s # <<>> /\ Last(s).seq > afterSeq =>
              Replay(s, afterSeq) # <<>> /\ Last(Replay(s, afterSeq)) = Last(s)
<1> DEFINE ss == [i \in DOMAIN s |-> IF s[i].seq > afterSeq THEN <<s[i]>> ELSE <<>>]
           S == StampedBy(n)
<1>1. /\ s \in Seq(Events)
      /\ \A i \in DOMAIN s : s[i] \in S /\ s[i] \in Events /\ s[i] \in ToSet(s)
      /\ \A i, j \in DOMAIN s : i < j => Precedes(s[i], s[j])
  BY ElementsInOrder
<1>2. Replay(s, afterSeq) = FlattenSeq(ss)
  BY DEF Replay
<1>3. ss \in Seq(Seq(S)) /\ DOMAIN ss = DOMAIN s /\ Len(ss) = Len(s)
  <2>1. \A i \in DOMAIN s : (IF s[i].seq > afterSeq THEN <<s[i]>> ELSE <<>>) \in Seq(S)
    <3> HIDE DEF S
    <3> QED BY <1>1
  <2>2. DOMAIN s = 1 .. Len(s) /\ Len(s) \in Nat
    BY <1>1
  <2> HIDE DEF S
  <2> QED
    BY <2>1, <2>2
<1>4. \A i \in DOMAIN s : ss[i] = IF s[i].seq > afterSeq THEN <<s[i]>> ELSE <<>>
  OBVIOUS
<1>5. \A x : ToSet(<<x>>) = {x} /\ ToSet(<<>>) = {} /\ <<x>> # <<>> /\ Last(<<x>>) = x
  BY DEF ToSet, Last
<1>6. \A x : Ordered(<<x>>, Before) /\ Ordered(<<>>, Before)
  BY DEF Ordered
<1> HIDE DEF ss, S
<1>7. FlattenSeq(ss) \in Seq(S)
  BY <1>3, FlattenTyped
<1>8. \A i \in DOMAIN ss : Ordered(ss[i], Before)
  BY <1>3, <1>4, <1>6
<1>9. \A i, j \in DOMAIN ss : i < j => \A x \in ToSet(ss[i]), y \in ToSet(ss[j]) : <<x, y>> \in Before
  <2>1. \A i \in DOMAIN ss : \A x \in ToSet(ss[i]) : x = s[i]
    BY <1>3, <1>4, <1>5
  <2>2. \A i, j \in DOMAIN ss : i < j => <<s[i], s[j]>> \in Before
    BY <1>1, <1>3, BeforeMeans
  <2> QED
    BY <2>1, <2>2
<1>10. Ordered(FlattenSeq(ss), Before)
  BY <1>3, <1>8, <1>9, FlattenOrdered
<1>11. ToSet(FlattenSeq(ss)) = UNION {ToSet(ss[i]) : i \in DOMAIN ss}
  BY <1>3, FlattenElements
<1>12. UNION {ToSet(ss[i]) : i \in DOMAIN ss} = {event \in ToSet(s) : event.seq > afterSeq}
  <2>1. ToSet(s) = {s[i] : i \in DOMAIN s}
    BY DEF ToSet
  <2> QED
    BY <1>3, <1>4, <1>5, <2>1
<1>13. ASSUME s # <<>>, Last(s).seq > afterSeq
       PROVE  FlattenSeq(ss) # <<>> /\ Last(FlattenSeq(ss)) = Last(s)
  <2>1. Len(s) \in DOMAIN s
    BY <1>1, <1>13
  <2>2. ss # <<>> /\ Last(ss) = <<Last(s)>>
    BY <1>3, <1>4, <1>13, <2>1 DEF Last
  <2>3. Last(ss) # <<>> /\ Last(Last(ss)) = Last(s)
    BY <1>5, <2>2
  <2> QED
    BY <1>3, <2>2, <2>3, FlattenLast
<1> QED
  BY <1>2, <1>7, <1>10, <1>11, <1>12, <1>13 DEF InOrder, S

\* The text of a buffer: the chunks of its previews, increasing.
Less == {pair \in Nat \X Nat : pair[1] < pair[2]}

Chunks(E) == UNION {ToSet(event.text) : event \in {x \in E : IsPreview(x)}}

LEMMA LessMeans ==
  \A a, b : <<a, b>> \in Less <=> a \in Nat /\ b \in Nat /\ a < b
BY DEF Less

LEMMA TextInOrder ==
  ASSUME NEW n \in Nat, NEW s, InOrder(s, n)
  PROVE  /\ TextOf(s) \in Seq(1 .. MaxSeq)
         /\ Ordered(TextOf(s), Less)
         /\ ToSet(TextOf(s)) = Chunks(ToSet(s))
<1> DEFINE ss == [i \in DOMAIN s |-> IF IsPreview(s[i]) THEN s[i].text ELSE <<>>]
           N == 1 .. MaxSeq
<1>1. /\ s \in Seq(Events)
      /\ \A i \in DOMAIN s : s[i] \in StampedBy(n) /\ s[i] \in Events /\ s[i] \in ToSet(s)
      /\ \A i, j \in DOMAIN s : i < j => Precedes(s[i], s[j])
  BY ElementsInOrder
<1>2. TextOf(s) = FlattenSeq(ss)
  BY DEF TextOf
<1>3. ss \in Seq(Seq(N)) /\ DOMAIN ss = DOMAIN s
  <2>1. \A i \in DOMAIN s : (IF IsPreview(s[i]) THEN s[i].text ELSE <<>>) \in Seq(N)
    <3>1. \A i \in DOMAIN s : s[i].text \in Seq(N)
      BY <1>1, EventFields
    <3>2. <<>> \in Seq(N)
      OBVIOUS
    <3> HIDE DEF N
    <3> QED BY <3>1, <3>2
  <2>2. DOMAIN s = 1 .. Len(s) /\ Len(s) \in Nat
    BY <1>1
  <2> HIDE DEF N
  <2> QED
    BY <2>1, <2>2
<1>4. \A i \in DOMAIN s : ss[i] = IF IsPreview(s[i]) THEN s[i].text ELSE <<>>
  OBVIOUS
<1>5. ToSet(<<>>) = {} /\ Ordered(<<>>, Less)
  BY DEF ToSet, Ordered
<1> HIDE DEF ss, N
<1>6. FlattenSeq(ss) \in Seq(N)
  BY <1>3, FlattenTyped
<1>7. \A i \in DOMAIN ss : Ordered(ss[i], Less)
  <2>1. \A i \in DOMAIN s : Ordered(s[i].text, Less)
    BY <1>1, EventFields, LessMeans DEF StampedBy, Ordered
  <2> QED
    BY <1>3, <1>4, <1>5, <2>1
<1>8. \A i, j \in DOMAIN ss : i < j => \A x \in ToSet(ss[i]), y \in ToSet(ss[j]) : <<x, y>> \in Less
  <2> SUFFICES ASSUME NEW i \in DOMAIN s, NEW j \in DOMAIN s, i < j,
                      NEW x \in ToSet(ss[i]), NEW y \in ToSet(ss[j])
               PROVE  <<x, y>> \in Less
    BY <1>3
  <2>1. IsPreview(s[i]) /\ x \in ToSet(s[i].text) /\ IsPreview(s[j]) /\ y \in ToSet(s[j].text)
    BY <1>4, <1>5
  <2>2. PICK k \in DOMAIN s[i].text : x = s[i].text[k]
    BY <2>1 DEF ToSet
  <2>3. PICK l \in DOMAIN s[j].text : y = s[j].text[l]
    BY <2>1 DEF ToSet
  <2>4. x < s[j].seq /\ s[j].seq <= y
    BY <1>1, <2>1, <2>2, <2>3 DEF Precedes, StampedBy
  <2>5. x \in Nat /\ y \in Nat /\ s[j].seq \in Nat
    BY <1>1, <2>2, <2>3, EventFields
  <2> QED
    BY <2>4, <2>5, LessMeans
<1>9. Ordered(FlattenSeq(ss), Less)
  BY <1>3, <1>7, <1>8, FlattenOrdered
<1>10. ToSet(FlattenSeq(ss)) = UNION {ToSet(ss[i]) : i \in DOMAIN ss}
  BY <1>3, FlattenElements
<1>11. UNION {ToSet(ss[i]) : i \in DOMAIN ss} = Chunks(ToSet(s))
  <2>1. ToSet(s) = {s[i] : i \in DOMAIN s}
    BY DEF ToSet
  <2> QED
    BY <1>3, <1>4, <1>5, <2>1 DEF Chunks
<1> QED
  BY <1>2, <1>6, <1>9, <1>10, <1>11 DEF N

\* The first preview.
LEMMA FirstPreview ==
  ASSUME NEW s \in Seq(Events), Previews(s) # {}
  PROVE  /\ Min(Previews(s)) \in DOMAIN s /\ IsPreview(s[Min(Previews(s))])
         /\ \A i \in DOMAIN s : IsPreview(s[i]) => Min(Previews(s)) <= i
<1>1. Previews(s) \subseteq Nat
  BY DEF Previews
<1>2. PICK m \in Previews(s) : \A i \in Previews(s) : ~ (i < m)
  BY <1>1, LeastNumber
<1>3. m \in Previews(s) /\ \A i \in Previews(s) : m <= i
  BY <1>1, <1>2
<1>4. Min(Previews(s)) \in Previews(s) /\ \A i \in Previews(s) : Min(Previews(s)) <= i
  BY <1>3 DEF Min
<1> QED
  BY <1>4 DEF Previews

LEMMA SnapshotIsStamped ==
  ASSUME NEW n \in Nat, NEW s, InOrder(s, n), Previews(s) # {}
  PROVE  LET snapshot == snapshotOf(s, TextOf(s))
         IN  /\ snapshot \in StampedBy(n) /\ snapshot.seq = s[Min(Previews(s))].seq
             /\ snapshot.text = TextOf(s)
             /\ snapshot.type = "output.snapshot" /\ IsPreview(snapshot) /\ ~ IsTerminal(snapshot)
<1> DEFINE p == Min(Previews(s))
           snapshot == snapshotOf(s, TextOf(s))
<1>1. /\ s \in Seq(Events)
      /\ \A i \in DOMAIN s : s[i] \in StampedBy(n) /\ s[i] \in Events
      /\ \A i, j \in DOMAIN s : i < j => Precedes(s[i], s[j])
  BY ElementsInOrder
<1>2. p \in DOMAIN s /\ IsPreview(s[p]) /\ \A i \in DOMAIN s : IsPreview(s[i]) => p <= i
  BY <1>1, FirstPreview
<1>3. /\ snapshot = [seq |-> s[p].seq, type |-> "output.snapshot", text |-> TextOf(s)]
      /\ IsPreview(snapshot) /\ ~ IsTerminal(snapshot)
  BY DEF snapshotOf, IsPreview, IsTerminal, TerminalTypes
<1> HIDE DEF p
<1>4. TextOf(s) \in Seq(1 .. MaxSeq) /\ Ordered(TextOf(s), Less) /\ ToSet(TextOf(s)) = Chunks(ToSet(s))
  BY TextInOrder
<1>5. s[p].seq \in 1 .. MaxSeq /\ s[p].seq <= n /\ s[p].seq \in Nat
  BY <1>1, <1>2, EventFields DEF StampedBy
<1>6. ASSUME NEW k \in DOMAIN TextOf(s)
      PROVE  s[p].seq <= TextOf(s)[k] /\ TextOf(s)[k] <= n
  <2>1. TextOf(s)[k] \in Chunks(ToSet(s))
    BY <1>4 DEF ToSet
  <2>2. PICK i \in DOMAIN s : IsPreview(s[i]) /\ TextOf(s)[k] \in ToSet(s[i].text)
    BY <2>1 DEF Chunks, ToSet
  <2>3. PICK l \in DOMAIN s[i].text : TextOf(s)[k] = s[i].text[l]
    BY <2>2 DEF ToSet
  <2>4. s[i].seq <= TextOf(s)[k] /\ TextOf(s)[k] <= n /\ TextOf(s)[k] \in Nat /\ s[i].seq \in Nat
    BY <1>1, <2>3, EventFields DEF StampedBy
  <2>5. s[p].seq <= s[i].seq
    <3>1. CASE p = i
      BY <1>5, <3>1
    <3>2. CASE p # i
      <4>1. p < i
        BY <1>1, <1>2, <2>2, <3>2
      <4> QED
        BY <1>1, <1>2, <1>5, <2>4, <4>1 DEF Precedes
    <3> QED
      BY <3>1, <3>2
  <2> QED
    BY <1>5, <2>4, <2>5
<1>7. \A k, l \in DOMAIN TextOf(s) : k < l => TextOf(s)[k] < TextOf(s)[l]
  BY <1>4, LessMeans DEF Ordered
<1>8. snapshot \in Events
  BY <1>3, <1>4, <1>5 DEF Events, EventTypes
<1>9. snapshot \in StampedBy(n)
  <2>1. snapshot.seq = s[p].seq /\ snapshot.text = TextOf(s)
    BY <1>3
  <2> HIDE DEF snapshot
  <2> QED
    BY <1>5, <1>6, <1>7, <1>8, <2>1 DEF StampedBy
<1> QED
  BY <1>3, <1>9 DEF p

\* Merging keeps the order and the text.
LEMMA MergedInOrder ==
  ASSUME NEW n \in Nat, NEW s, InOrder(s, n)
  PROVE  /\ InOrder(Merged(s), n)
         /\ Unfinished(s) => Unfinished(Merged(s))
         /\ ToSet(TextOf(Merged(s))) = ToSet(TextOf(s))
<1> DEFINE p == Min(Previews(s))
           snapshot == snapshotOf(s, TextOf(s))
           ss == [i \in DOMAIN s |-> IF i = p THEN <<snapshot>>
                                     ELSE IF IsPreview(s[i]) THEN <<>> ELSE <<s[i]>>]
           S == StampedBy(n)
<1>1. CASE Previews(s) = {}
  BY <1>1 DEF Merged
<1>2. CASE Previews(s) # {}
  <2>1. /\ s \in Seq(Events)
        /\ \A i \in DOMAIN s : s[i] \in S /\ s[i] \in Events /\ s[i] \in ToSet(s)
        /\ \A i, j \in DOMAIN s : i < j => Precedes(s[i], s[j])
    BY ElementsInOrder
  <2>2. p \in DOMAIN s /\ IsPreview(s[p]) /\ \A i \in DOMAIN s : IsPreview(s[i]) => p <= i
    BY <1>2, <2>1, FirstPreview
  <2>3. /\ snapshot \in S /\ snapshot \in Events /\ snapshot.seq = s[p].seq
        /\ snapshot.text = TextOf(s) /\ snapshot.type = "output.snapshot"
        /\ IsPreview(snapshot) /\ ~ IsTerminal(snapshot)
    <3>1. S \subseteq Events
      BY DEF StampedBy
    <3> QED
      BY <1>2, <3>1, SnapshotIsStamped
  <2>4. Merged(s) = FlattenSeq(ss)
    BY <1>2 DEF Merged, Replaced
  <2> HIDE DEF snapshot, p
  <2>5. ss \in Seq(Seq(S)) /\ DOMAIN ss = DOMAIN s
    <3>1. \A i \in DOMAIN s : (IF i = p THEN <<snapshot>>
                               ELSE IF IsPreview(s[i]) THEN <<>> ELSE <<s[i]>>) \in Seq(S)
      <4> HIDE DEF S
      <4> QED BY <2>1, <2>3
    <3>2. DOMAIN s = 1 .. Len(s) /\ Len(s) \in Nat
      BY <2>1
    <3> HIDE DEF S
    <3> QED
      BY <3>1, <3>2
  <2>6. \A i \in DOMAIN s : ss[i] = IF i = p THEN <<snapshot>>
                                    ELSE IF IsPreview(s[i]) THEN <<>> ELSE <<s[i]>>
    OBVIOUS
  <2>7. \A x : ToSet(<<x>>) = {x} /\ ToSet(<<>>) = {}
    BY DEF ToSet
  <2>8. \A x : Ordered(<<x>>, Before) /\ Ordered(<<>>, Before)
    BY DEF Ordered
  <2> HIDE DEF ss, S
  <2>pieces. ASSUME NEW i \in DOMAIN s, NEW x \in ToSet(ss[i])
             PROVE  IF i = p THEN x = snapshot ELSE x = s[i] /\ ~ IsPreview(s[i])
    <3>1. CASE i = p
      <4>1. ss[i] = <<snapshot>>
        BY <2>6, <3>1
      <4> QED
        BY <2>7, <3>1, <4>1
    <3>2. CASE i # p /\ IsPreview(s[i])
      <4>1. ss[i] = <<>>
        BY <2>6, <3>2
      <4> QED
        BY <2>7, <4>1
    <3>3. CASE i # p /\ ~ IsPreview(s[i])
      <4>1. ss[i] = <<s[i]>>
        BY <2>6, <3>3
      <4> QED
        BY <2>7, <3>3, <4>1
    <3> QED
      BY <3>1, <3>2, <3>3
  <2>9. FlattenSeq(ss) \in Seq(S)
    BY <2>5, FlattenTyped
  <2>10. \A i \in DOMAIN ss : Ordered(ss[i], Before)
    BY <2>5, <2>6, <2>8
  <2>11. \A i, j \in DOMAIN ss : i < j => \A x \in ToSet(ss[i]), y \in ToSet(ss[j]) : <<x, y>> \in Before
    <3> SUFFICES ASSUME NEW i \in DOMAIN s, NEW j \in DOMAIN s, i < j,
                        NEW x \in ToSet(ss[i]), NEW y \in ToSet(ss[j])
                 PROVE  x \in Events /\ y \in Events /\ Precedes(x, y)
      BY <2>5, BeforeMeans
    <3>1. Precedes(s[i], s[j]) /\ i # j
      BY <2>1
    <3>2. IF i = p THEN x = snapshot ELSE x = s[i] /\ ~ IsPreview(s[i])
      BY <2>pieces
    <3>3. IF j = p THEN y = snapshot ELSE y = s[j] /\ ~ IsPreview(s[j])
      BY <2>pieces
    <3>4. CASE i = p
      <4>1. x = snapshot /\ y = s[j] /\ ~ IsPreview(y)
        BY <3>1, <3>2, <3>3, <3>4
      <4>2. y.type # "output.snapshot"
        BY <4>1 DEF IsPreview
      <4>3. x.seq < y.seq
        BY <2>3, <3>1, <3>4, <4>1 DEF Precedes
      <4>4. Precedes(x, y)
        BY <2>3, <4>1, <4>2, <4>3 DEF Precedes
      <4> QED
        BY <2>1, <2>3, <4>1, <4>4
    <3>5. CASE j = p
      <4>1. x = s[i] /\ ~ IsPreview(x) /\ y = snapshot
        BY <3>1, <3>2, <3>3, <3>5
      <4>2. Precedes(x, s[p]) /\ y.seq = s[p].seq /\ IsPreview(s[p])
        BY <2>2, <2>3, <3>1, <3>5, <4>1
      <4>3. Precedes(x, y)
        BY <4>1, <4>2 DEF Precedes
      <4> QED
        BY <2>1, <2>3, <4>1, <4>3
    <3>6. CASE i # p /\ j # p
      BY <2>1, <3>1, <3>2, <3>3, <3>6
    <3> QED
      BY <3>4, <3>5, <3>6
  <2>12. Ordered(FlattenSeq(ss), Before)
    BY <2>5, <2>10, <2>11, FlattenOrdered
  <2>13. InOrder(Merged(s), n)
    BY <2>4, <2>9, <2>12 DEF InOrder, S
  <2>14. ToSet(Merged(s)) = {x \in ToSet(s) : ~ IsPreview(x)} \cup {snapshot}
    <3>1. ToSet(Merged(s)) = UNION {ToSet(ss[i]) : i \in DOMAIN ss}
      BY <2>4, <2>5, FlattenElements
    <3>2. ToSet(s) = {s[i] : i \in DOMAIN s}
      BY DEF ToSet
    <3>3. ASSUME NEW i \in DOMAIN s, NEW x \in ToSet(ss[i])
          PROVE  x = snapshot \/ (x = s[i] /\ ~ IsPreview(x))
      BY <2>pieces
    <3>4. snapshot \in ToSet(ss[p])
      BY <2>2, <2>6, <2>7
    <3>5. ASSUME NEW i \in DOMAIN s, ~ IsPreview(s[i])
          PROVE  s[i] \in ToSet(ss[i])
      BY <2>2, <2>6, <2>7, <3>5
    <3> QED
      BY <2>2, <2>5, <3>1, <3>2, <3>3, <3>4, <3>5
  <2>15. ASSUME Unfinished(s)
         PROVE  Unfinished(Merged(s))
    <3>1. \A x \in ToSet(Merged(s)) : ~ IsTerminal(x)
      BY <2>3, <2>14, <2>15 DEF Unfinished, ToSet
    <3> QED
      BY <3>1 DEF Unfinished, ToSet
  <2>16. ToSet(TextOf(Merged(s))) = Chunks(ToSet(Merged(s)))
    BY <2>13, TextInOrder
  <2>17. Chunks(ToSet(Merged(s))) = ToSet(snapshot.text)
    BY <2>3, <2>14 DEF Chunks
  <2> QED
    BY <2>3, <2>13, <2>15, <2>16, <2>17
<1> QED
  BY <1>1, <1>2

-----------------------------------------------------------------------------
(* The records.                                                            *)

Fields == {"state", "scopeId", "events", "lastSeq", "bufferedBytes", "disposition",
           "tombstone", "terminal"}

\* The fields of one record agree.
Consistent(r) ==
  /\ DOMAIN r = Fields
  /\ r.lastSeq \in 0 .. MaxSeq
  /\ r.state \in {"absent", "running"} \cup TerminalTypes
  /\ r.terminal = None <=> r.state \in {"absent", "running"}
  /\ r.disposition # None => r.tombstone
  /\ r.tombstone => r.state \in TerminalTypes

Story == /\ records = [e \in ExecutionIds |-> records[e]]
         /\ \A e \in ExecutionIds : Consistent(records[e])

-----------------------------------------------------------------------------
(* Storing an event.                                                       *)

\* The fields that bufferEvent leaves alone.
LEMMA BufferLeavesTheStory ==
  ASSUME NEW r, DOMAIN r = Fields, NEW event
  PROVE  LET after == bufferEvent(r, event)
         IN  /\ DOMAIN after = Fields
             /\ after.lastSeq = event.seq
             /\ after.state = r.state
             /\ after.terminal = r.terminal
             /\ after.disposition = r.disposition
             /\ after.tombstone = r.tombstone
<1> DEFINE merged == Coalesce(r)
<1>1. /\ DOMAIN merged = Fields
      /\ merged.state = r.state
      /\ merged.terminal = r.terminal
      /\ merged.disposition = r.disposition
      /\ merged.tombstone = r.tombstone
  BY DEF Coalesce, Fields
<1>2. bufferEvent(r, event) \in
        {Store(r, event), Store(merged, event), [merged EXCEPT !.lastSeq = event.seq]}
  BY DEF bufferEvent
<1> HIDE DEF merged
<1> QED
  BY <1>1, <1>2 DEF Store, Fields

\* A stamped event is never None and its seq is the next one.
LEMMA StampedEvent ==
  ASSUME NEW r, r.lastSeq \in 0 .. MaxSeq, r.lastSeq < MaxSeq,
         NEW type \in DriverTypes
  PROVE  LET event == Stamp(r, type)
         IN  /\ event \in Events
             /\ event.seq = r.lastSeq + 1
             /\ event.type \in EventTypes
<1>1. r.lastSeq + 1 \in 1 .. MaxSeq
  BY MaxSeqAssumption
<1>2. <<r.lastSeq + 1>> \in Seq(1 .. MaxSeq) /\ <<>> \in Seq(1 .. MaxSeq)
  BY <1>1
<1>3. (IF type = "invalid" THEN "failed" ELSE type) \in EventTypes
  BY DEF DriverTypes, EventTypes, TerminalTypes
<1> QED
  BY <1>1, <1>2, <1>3 DEF Stamp, Events

-----------------------------------------------------------------------------
(* What each operation does to the records.                                *)

\* emit leaves everything but a running record alone, and gives that one its terminal or nothing.
LEMMA EmittedRecord ==
  ASSUME NEW e \in ExecutionIds, NEW type \in DriverTypes, Story, emit(e, type)
  PROVE  /\ records[e].state = "running"
         /\ records' = [records EXCEPT ![e] = records'[e]]
         /\ Consistent(records'[e])
         /\ records'[e].disposition = records[e].disposition
         /\ records'[e].state \in {"running"} \cup TerminalTypes
<1> DEFINE event == Stamp(records[e], type)
           settled == Settled(records[e], event)
           after == bufferEvent(settled, event)
<1>1. Consistent(records[e]) /\ records[e].lastSeq < MaxSeq /\ CanEmit(records[e])
  BY DEF Story, emit
<1>2. records[e].state = "running" /\ records[e].disposition = None /\ ~ records[e].tombstone
  BY <1>1 DEF Consistent, CanEmit
<1>3. event \in Events /\ event.seq \in 0 .. MaxSeq /\ event.type \in EventTypes /\ event # None
  <2>1. event \in Events /\ event.type \in EventTypes
    BY <1>1, StampedEvent DEF Consistent
  <2> QED
    BY <2>1, NoneAssumption DEF Events
<1>4. records' = [records EXCEPT ![e] = after] /\ e \in DOMAIN records
  BY DEF emit, Story
<1>5. records'[e] = after
  BY <1>4
<1>6. /\ DOMAIN settled = Fields
      /\ settled.disposition = None
      /\ ~ settled.tombstone
      /\ \/ settled.state \in TerminalTypes /\ settled.terminal # None
         \/ settled.state = "running" /\ settled.terminal = None
  <2> HIDE DEF event
  <2>1. CASE IsTerminal(event)
    BY <2>1, <1>1, <1>2, <1>3 DEF Settled, IsTerminal, Consistent, Fields
  <2>2. CASE ~ IsTerminal(event)
    BY <2>2, <1>1, <1>2 DEF Settled, Consistent, CanEmit
  <2> QED
    BY <2>1, <2>2
<1> HIDE DEF event, settled
<1>7. /\ DOMAIN after = Fields
      /\ after.lastSeq = event.seq
      /\ after.state = settled.state
      /\ after.terminal = settled.terminal
      /\ after.disposition = settled.disposition
      /\ after.tombstone = settled.tombstone
  BY <1>6, BufferLeavesTheStory
<1> HIDE DEF after
<1>8. Consistent(after)
  BY <1>3, <1>6, <1>7 DEF Consistent, TerminalTypes
<1> QED
  BY <1>2, <1>4, <1>5, <1>6, <1>7, <1>8

\* The three records an operation writes that is not an emit.
LEMMA FreshRecord ==
  ASSUME NEW s
  PROVE  /\ Consistent(NoRecord)
         /\ Consistent([NoRecord EXCEPT !.state = "running", !.scopeId = s])
         /\ [NoRecord EXCEPT !.state = "running", !.scopeId = s].state = "running"
         /\ [NoRecord EXCEPT !.state = "running", !.scopeId = s].disposition = None
BY MaxSeqAssumption, NoneAssumption DEF Consistent, NoRecord, Fields, TerminalTypes

\* A first ACK finds a terminal and no disposition, and stores its own.
LEMMA AcknowledgedRecord ==
  ASSUME NEW e \in ExecutionIds, NEW finalSeq, NEW d \in Dispositions, Story,
         ack(e, finalSeq, d)
  PROVE  /\ records[e].state \in TerminalTypes
         /\ records[e].disposition = None
         /\ records' = [records EXCEPT ![e] = records'[e]]
         /\ Consistent(records'[e])
         /\ records'[e].disposition = d
         /\ records'[e].state = records[e].state
<1> DEFINE after == [records[e] EXCEPT !.disposition = d, !.events = <<>>,
                                       !.bufferedBytes = 0, !.tombstone = TRUE]
<1>1. Consistent(records[e]) /\ ~ records[e].tombstone
      /\ AckOutcome(e, finalSeq, d) = "acknowledged" /\ e \in DOMAIN records
  BY DEF Story, ack
<1>2. records[e].terminal # None
  BY <1>1 DEF AckOutcome, Has
<1>3. records[e].state \in TerminalTypes /\ records[e].disposition = None
  BY <1>1, <1>2 DEF Consistent
<1>4. records' = [records EXCEPT ![e] = after]
  BY DEF ack
<1>5. records'[e] = after
  BY <1>1, <1>4
<1>6. /\ Consistent(after)
      /\ after.disposition = d
      /\ after.state = records[e].state
  BY <1>1, <1>3 DEF Consistent, Fields
<1> HIDE DEF after
<1> QED
  BY <1>3, <1>4, <1>5, <1>6

-----------------------------------------------------------------------------
(* The story is kept.                                                      *)

LEMMA StoryHoldsAtFirst == Init => Story
BY FreshRecord DEF Init, Story

LEMMA StoryIsKept == Story /\ [Next]_registryVars => Story'
<1> SUFFICES ASSUME Story, [Next]_registryVars
             PROVE  Story'
  OBVIOUS
<1> USE DEF Story
<1>1. ASSUME NEW e \in ExecutionIds, NEW s \in ScopeIds, begin(e, s)
      PROVE  Story'
  BY <1>1, FreshRecord DEF begin
<1>2. ASSUME NEW e \in ExecutionIds, NEW type \in DriverTypes, emit(e, type)
      PROVE  Story'
  <2>1. records' = [records EXCEPT ![e] = records'[e]] /\ Consistent(records'[e])
    BY <1>2, EmittedRecord
  <2> QED
    BY <2>1
<1>3. ASSUME NEW e \in ExecutionIds, NEW finalSeq \in 1 .. MaxSeq, NEW d \in Dispositions,
             ack(e, finalSeq, d)
      PROVE  Story'
  <2>1. records' = [records EXCEPT ![e] = records'[e]] /\ Consistent(records'[e])
    BY <1>3, AcknowledgedRecord
  <2> QED
    BY <2>1
<1>4. ASSUME NEW s \in ScopeIds, releaseScope(s)
      PROVE  Story'
  BY <1>4, FreshRecord DEF releaseScope
<1>5. ASSUME UNCHANGED records
      PROVE  Story'
  BY <1>5
<1> QED
  BY <1>1, <1>2, <1>3, <1>4, <1>5 DEF Next, registryVars, follow, unfollow

\* In every reachable state each record tells one story: a terminal if and only if it is in a
\* terminal state, a disposition only on a tombstone, and a tombstone only after a terminal
\* (ExecutionRecord, which ack, follow and the status route each read by another field).
THEOREM RecordsAreConsistent == Spec => []Story
BY StoryHoldsAtFirst, StoryIsKept, PTL DEF Spec

-----------------------------------------------------------------------------
(* Every step is one of the abstract module, or changes nothing there.     *)

LEMMA StartsAsSpecified == Init => Lifecycle!Init
BY DEF Init, Lifecycle!Init, NoRecord

\* The step simulation, one step per operation.
LEMMA StepsAsSpecified == Story /\ [Next]_registryVars => [Lifecycle!Next]_(Lifecycle!vars)
<1> SUFFICES ASSUME Story, [Next]_registryVars
             PROVE  [Lifecycle!Next]_(Lifecycle!vars)
  OBVIOUS
<1> DEFINE result == [e \in ExecutionIds |->
                        IF records[e].state = "absent" THEN None ELSE records[e].state]
           disposition == [e \in ExecutionIds |-> records[e].disposition]
<1>1. ASSUME NEW e \in ExecutionIds, NEW s \in ScopeIds, begin(e, s)
      PROVE  Lifecycle!Begin(e)
  <2> DEFINE fresh == [NoRecord EXCEPT !.state = "running", !.scopeId = s]
  <2>1. /\ records[e].state = "absent"
        /\ records[e].disposition = None
        /\ records' = [records EXCEPT ![e] = fresh]
    BY <1>1 DEF begin, Has, Story, Consistent, TerminalTypes
  <2>2. fresh.state = "running" /\ fresh.disposition = None
    BY FreshRecord
  <2> HIDE DEF fresh
  <2>3. result' = [result EXCEPT ![e] = "running"] /\ result[e] = None
    BY <2>1, <2>2 DEF Story
  <2>4. disposition' = disposition
    BY <2>1, <2>2 DEF Story
  <2> QED
    BY <2>3, <2>4 DEF Lifecycle!Begin
<1>2. ASSUME NEW e \in ExecutionIds, NEW type \in DriverTypes, emit(e, type)
      PROVE  (\E r \in TerminalTypes : Lifecycle!Finish(e, r)) \/ UNCHANGED Lifecycle!vars
  <2>1. /\ records[e].state = "running"
        /\ records' = [records EXCEPT ![e] = records'[e]]
        /\ records'[e].disposition = records[e].disposition
        /\ records'[e].state \in {"running"} \cup TerminalTypes
    BY <1>2, EmittedRecord
  <2>2. disposition' = disposition
    BY <2>1 DEF Story
  <2>3. CASE records'[e].state = "running"
    BY <2>1, <2>2, <2>3 DEF Story, Lifecycle!vars
  <2>4. CASE records'[e].state \in TerminalTypes
    <3>1. result' = [result EXCEPT ![e] = records'[e].state]
      BY <2>1, <2>4 DEF Story, TerminalTypes
    <3>2. result[e] = "running"
      BY <2>1
    <3> QED
      BY <2>2, <2>4, <3>1, <3>2 DEF Lifecycle!Finish
  <2> QED
    BY <2>1, <2>3, <2>4
<1>3. ASSUME NEW e \in ExecutionIds, NEW finalSeq \in 1 .. MaxSeq, NEW d \in Dispositions,
             ack(e, finalSeq, d)
      PROVE  Lifecycle!Acknowledge(e, d)
  <2>1. /\ records[e].state \in TerminalTypes
        /\ records[e].disposition = None
        /\ records' = [records EXCEPT ![e] = records'[e]]
        /\ records'[e].disposition = d
        /\ records'[e].state = records[e].state
    BY <1>3, AcknowledgedRecord
  <2>2. result' = result /\ result[e] \in TerminalTypes
    BY <2>1 DEF Story, TerminalTypes
  <2>3. disposition' = [disposition EXCEPT ![e] = d] /\ disposition[e] = None
    BY <2>1 DEF Story
  <2> QED
    BY <2>2, <2>3 DEF Lifecycle!Acknowledge
<1>4. ASSUME NEW s \in ScopeIds, releaseScope(s)
      PROVE  \E E \in SUBSET ExecutionIds : Lifecycle!Forget(E)
  <2> DEFINE gone == {e \in ExecutionIds : records[e].scopeId = s}
  <2>1. records' = [e \in ExecutionIds |-> IF e \in gone THEN NoRecord ELSE records[e]]
    BY <1>4 DEF releaseScope
  <2> HIDE DEF gone
  <2>2. /\ result' = [e \in ExecutionIds |-> IF e \in gone THEN None ELSE result[e]]
        /\ disposition' = [e \in ExecutionIds |->
                             IF e \in gone THEN None ELSE disposition[e]]
    BY <2>1 DEF NoRecord
  <2>3. gone \in SUBSET ExecutionIds
    BY DEF gone
  <2> QED
    BY <2>2, <2>3 DEF Lifecycle!Forget
<1>5. ASSUME UNCHANGED records
      PROVE  UNCHANGED Lifecycle!vars
  BY <1>5 DEF Lifecycle!vars
<1> QED
  BY <1>1, <1>2, <1>3, <1>4, <1>5
     DEF Next, registryVars, follow, unfollow, Lifecycle!Next

\* The registry implements the abstract life of an execution: begun once, one terminal,
\* one disposition after it and never another, forgotten with its scope (begin, emit, ack,
\* releaseScope).
THEOREM RegistryImplementsLifecycle == Spec => ImplementsLifecycle
<1>1. Init => Lifecycle!Init
  BY StartsAsSpecified
<1>2. Story /\ [Next]_registryVars => [Lifecycle!Next]_(Lifecycle!vars)
  BY StepsAsSpecified
<1>3. Spec => []Story
  BY RecordsAreConsistent
<1> QED
  BY <1>1, <1>2, <1>3, PTL DEF Spec, ImplementsLifecycle, Lifecycle!Spec

-----------------------------------------------------------------------------
(* What a record holds: its events in order and, unless an ACK released    *)
(* them, its terminal as the last one.                                     *)

Terminated(r) ==
  IF r.terminal = None THEN Unfinished(r.events)
  ELSE /\ r.terminal \in Events /\ IsTerminal(r.terminal) /\ r.terminal.seq = r.lastSeq
       /\ ~ r.tombstone => r.events # <<>> /\ Last(r.events) = r.terminal

BufferOK(r) == /\ InOrder(r.events, r.lastSeq)
               /\ Terminated(r)
               /\ r.tombstone => r.events = <<>>
               /\ r.state = "absent" => r = NoRecord

Stored == Story /\ \A e \in ExecutionIds : BufferOK(records[e])

\* A buffer takes the next event: nothing gets out of order, no text is lost or made up.
LEMMA BufferTakesEvent ==
  ASSUME NEW r, DOMAIN r = Fields, NEW n \in Nat, n = r.lastSeq, n + 1 <= MaxSeq,
         InOrder(r.events, n), Unfinished(r.events),
         NEW event \in Events, event.seq = n + 1, event.type # "output.snapshot",
         event.text \in {<<>>, <<n + 1>>}
  PROVE  LET after == bufferEvent(r, event)
         IN  /\ InOrder(after.events, n + 1)
             /\ IsTerminal(event) => after.events # <<>> /\ Last(after.events) = event
             /\ ~ IsTerminal(event) => Unfinished(after.events)
             /\ ToSet(TextOf(r.events)) \subseteq ToSet(TextOf(after.events))
             /\ ToSet(TextOf(after.events)) \subseteq
                  ToSet(TextOf(r.events)) \cup (IF IsPreview(event) THEN ToSet(event.text) ELSE {})
<1> DEFINE merged == Merged(r.events)
           new == IF IsPreview(event) THEN ToSet(event.text) ELSE {}
<1>1. InOrder(merged, n) /\ Unfinished(merged) /\ ToSet(TextOf(merged)) = ToSet(TextOf(r.events))
  BY MergedInOrder
<1> HIDE DEF merged
<1>2. ASSUME NEW s, InOrder(s, n), Unfinished(s), ToSet(TextOf(s)) = ToSet(TextOf(r.events))
      PROVE  LET all == Append(s, event)
             IN  /\ InOrder(all, n + 1) /\ all # <<>> /\ Last(all) = event
                 /\ ~ IsTerminal(event) => Unfinished(all)
                 /\ ToSet(TextOf(all)) = ToSet(TextOf(r.events)) \cup new
  <2> DEFINE all == Append(s, event)
  <2>1. InOrder(all, n + 1)
    BY <1>2, AppendInOrder
  <2>2. s \in Seq(Events)
    BY <1>2, ElementsInOrder
  <2>3. all # <<>> /\ Last(all) = event /\ ToSet(all) = ToSet(s) \cup {event}
    BY <2>2, AppendElements
  <2>4. ~ IsTerminal(event) => Unfinished(all)
    <3>1. \A x \in ToSet(s) : ~ IsTerminal(x)
      BY <1>2 DEF Unfinished, ToSet
    <3>2. \A i \in DOMAIN all : all[i] \in ToSet(all)
      BY DEF ToSet
    <3> HIDE DEF all
    <3> QED
      BY <2>3, <3>1, <3>2 DEF Unfinished
  <2>5. ToSet(TextOf(all)) = Chunks(ToSet(all)) /\ ToSet(TextOf(s)) = Chunks(ToSet(s))
    <3> HIDE DEF all
    <3> QED
      BY <1>2, <2>1, TextInOrder
  <2>6. Chunks(ToSet(all)) = Chunks(ToSet(s)) \cup new
    <3> HIDE DEF all
    <3> QED
      BY <2>3 DEF Chunks
  <2> QED
    BY <1>2, <2>1, <2>3, <2>4, <2>5, <2>6
<1>3. bufferEvent(r, event).events \in {Append(r.events, event), Append(merged, event)}
      \/ (~ IsTerminal(event) /\ bufferEvent(r, event).events = merged)
  BY DEF bufferEvent, Store, Coalesce, Fields, merged
<1>4. InOrder(merged, n + 1)
  BY <1>1, InOrderLater
<1> QED
  BY <1>1, <1>2, <1>3, <1>4

LEMMA StampedText ==
  ASSUME NEW r, NEW type \in DriverTypes
  PROVE  LET event == Stamp(r, type)
         IN  /\ event.type # "output.snapshot"
             /\ event.text \in {<<>>, <<r.lastSeq + 1>>}
             /\ IsPreview(event) => event.text = <<r.lastSeq + 1>>
BY DEF Stamp, DriverTypes, TerminalTypes, IsPreview

\* What emit stores.
LEMMA EmittedBuffer ==
  ASSUME NEW e \in ExecutionIds, NEW type \in DriverTypes, Stored, emit(e, type)
  PROVE  LET event == Stamp(records[e], type)
             after == records'[e]
         IN  /\ BufferOK(after)
             /\ event \in Events /\ event.seq = records[e].lastSeq + 1 /\ after.lastSeq = event.seq
             /\ event.type # "output.snapshot" /\ event.text \in {<<>>, <<event.seq>>}
             /\ IsPreview(event) => event.text = <<event.seq>>
             /\ records[e].terminal = None /\ ~ after.tombstone
             /\ after.terminal = IF IsTerminal(event) THEN event ELSE None
             /\ after.scopeId = records[e].scopeId
             /\ ToSet(TextOf(records[e].events)) \subseteq ToSet(TextOf(after.events))
             /\ ToSet(TextOf(after.events)) \subseteq
                  ToSet(TextOf(records[e].events)) \cup ToSet(event.text)
<1> DEFINE r == records[e]
           event == Stamp(r, type)
           settled == Settled(r, event)
           after == bufferEvent(settled, event)
<1>1. Consistent(r) /\ r.lastSeq < MaxSeq /\ CanEmit(r) /\ BufferOK(r)
  BY DEF Stored, Story, emit
<1>2. r.lastSeq \in Nat /\ r.lastSeq + 1 <= MaxSeq /\ DOMAIN r = Fields
      /\ r.terminal = None /\ ~ r.tombstone /\ r.state = "running"
  BY <1>1, MaxSeqAssumption DEF Consistent, CanEmit
<1>3. event \in Events /\ event.seq = r.lastSeq + 1 /\ event.type \in EventTypes
  BY <1>1, StampedEvent DEF Consistent
<1>4. /\ event.type # "output.snapshot" /\ event.text \in {<<>>, <<r.lastSeq + 1>>}
      /\ IsPreview(event) => event.text = <<r.lastSeq + 1>>
  BY StampedText
<1>5. records'[e] = after
  BY DEF emit, Stored, Story
<1> HIDE DEF r, event
<1>6. /\ DOMAIN settled = Fields /\ settled.events = r.events /\ settled.lastSeq = r.lastSeq
      /\ settled.scopeId = r.scopeId /\ ~ settled.tombstone
      /\ settled.terminal = IF IsTerminal(event) THEN event ELSE None
  BY <1>2 DEF Settled, Fields
<1>7. InOrder(r.events, r.lastSeq) /\ Unfinished(r.events)
  BY <1>1, <1>2 DEF BufferOK, Terminated
<1> HIDE DEF settled
<1>8. /\ InOrder(after.events, event.seq)
      /\ IsTerminal(event) => after.events # <<>> /\ Last(after.events) = event
      /\ ~ IsTerminal(event) => Unfinished(after.events)
      /\ ToSet(TextOf(r.events)) \subseteq ToSet(TextOf(after.events))
      /\ ToSet(TextOf(after.events)) \subseteq
           ToSet(TextOf(r.events)) \cup (IF IsPreview(event) THEN ToSet(event.text) ELSE {})
  BY <1>2, <1>3, <1>4, <1>6, <1>7, BufferTakesEvent
<1>9. /\ DOMAIN after = Fields /\ after.lastSeq = event.seq /\ after.terminal = settled.terminal
      /\ after.tombstone = settled.tombstone /\ after.state = settled.state
  BY <1>6, BufferLeavesTheStory
<1>10. after.scopeId = settled.scopeId
  BY <1>6 DEF bufferEvent, Store, Coalesce, Fields
<1>11. settled.state # "absent"
  BY <1>2, <1>3 DEF settled, Settled, IsTerminal, TerminalTypes, Fields
<1> HIDE DEF after
<1>12. event # None
  BY <1>3, NoneAssumption
<1>13. BufferOK(after)
  BY <1>3, <1>6, <1>8, <1>9, <1>11, <1>12 DEF BufferOK, Terminated
<1>14. /\ event.text \in {<<>>, <<event.seq>>}
       /\ IsPreview(event) => event.text = <<event.seq>>
  BY <1>3, <1>4
<1>15. ToSet(TextOf(after.events)) \subseteq ToSet(TextOf(r.events)) \cup ToSet(event.text)
  BY <1>8
<1>16. /\ event \in Events /\ event.seq = r.lastSeq + 1 /\ after.lastSeq = event.seq
       /\ event.type # "output.snapshot"
       /\ r.terminal = None /\ ~ after.tombstone
       /\ after.terminal = IF IsTerminal(event) THEN event ELSE None
       /\ after.scopeId = r.scopeId
       /\ ToSet(TextOf(r.events)) \subseteq ToSet(TextOf(after.events))
  BY <1>2, <1>3, <1>4, <1>6, <1>8, <1>9, <1>10
<1> QED
  BY <1>5, <1>13, <1>14, <1>15, <1>16 DEF r, event

LEMMA FreshBuffer ==
  ASSUME NEW s
  PROVE  /\ BufferOK(NoRecord)
         /\ BufferOK([NoRecord EXCEPT !.state = "running", !.scopeId = s])
<1> DEFINE fresh == [NoRecord EXCEPT !.state = "running", !.scopeId = s]
<1>1. \A r : r.events = <<>> /\ r.terminal = None => InOrder(r.events, r.lastSeq) /\ Terminated(r)
  BY DEF InOrder, Ordered, Terminated, Unfinished
<1>2. NoRecord.events = <<>> /\ NoRecord.terminal = None
  BY DEF NoRecord
<1>3. fresh.events = <<>> /\ fresh.terminal = None /\ fresh.state = "running" /\ ~ fresh.tombstone
  BY DEF NoRecord
<1>4. ~ NoRecord.tombstone
  BY DEF NoRecord
<1> HIDE DEF fresh
<1>5. BufferOK(fresh)
  BY <1>1, <1>3 DEF BufferOK
<1> QED
  BY <1>1, <1>2, <1>4, <1>5 DEF BufferOK, fresh

\* What ack stores.
LEMMA AcknowledgedBuffer ==
  ASSUME NEW e \in ExecutionIds, NEW finalSeq, NEW d \in Dispositions, Stored,
         ack(e, finalSeq, d)
  PROVE  /\ BufferOK(records'[e]) /\ records'[e].tombstone /\ records'[e].events = <<>>
         /\ records'[e].terminal = records[e].terminal /\ records[e].terminal # None
         /\ records'[e].lastSeq = records[e].lastSeq /\ records'[e].scopeId = records[e].scopeId
         /\ records'[e].state = records[e].state
<1> DEFINE after == [records[e] EXCEPT !.disposition = d, !.events = <<>>,
                                       !.bufferedBytes = 0, !.tombstone = TRUE]
<1>1. Consistent(records[e]) /\ BufferOK(records[e]) /\ e \in DOMAIN records
      /\ AckOutcome(e, finalSeq, d) = "acknowledged" /\ ~ records[e].tombstone
  BY DEF Stored, Story, ack
<1>2. records[e].terminal # None /\ records[e].state # "absent"
  BY <1>1 DEF AckOutcome, Has
<1>3. records'[e] = after
  BY <1>1 DEF ack
<1>4. /\ after.tombstone /\ after.events = <<>> /\ after.terminal = records[e].terminal
      /\ after.lastSeq = records[e].lastSeq /\ after.scopeId = records[e].scopeId
      /\ after.state = records[e].state
  BY <1>1 DEF Consistent, Fields
<1> HIDE DEF after
<1>5. InOrder(<<>>, after.lastSeq)
  BY DEF InOrder, Ordered
<1>6. Terminated(after)
  BY <1>1, <1>2, <1>4 DEF BufferOK, Terminated
<1> QED
  BY <1>2, <1>3, <1>4, <1>5, <1>6 DEF BufferOK

\* The registry's own steps, those that leave the records alone, and a restart of the Host.
StoreSteps == \/ [Next]_registryVars
              \/ UNCHANGED records
              \/ records' = [e \in ExecutionIds |-> NoRecord]

LEMMA StoredIsKept ==
  ASSUME Stored, StoreSteps
  PROVE  Stored'
<1>0. Story /\ \A e \in ExecutionIds : BufferOK(records[e])
  BY DEF Stored
<1>1. CASE UNCHANGED records
  BY <1>0, <1>1 DEF Stored, Story
<1>2. CASE records' = [e \in ExecutionIds |-> NoRecord]
  BY <1>2, FreshRecord, FreshBuffer DEF Stored, Story
<1>3. CASE [Next]_registryVars
  <2>1. Story'
    BY <1>0, <1>3, StoryIsKept
  <2>2. ASSUME NEW e \in ExecutionIds, NEW s \in ScopeIds, begin(e, s)
        PROVE  Stored'
    BY <1>0, <2>1, <2>2, FreshBuffer DEF begin, Stored, Story
  <2>3. ASSUME NEW e \in ExecutionIds, NEW type \in DriverTypes, emit(e, type)
        PROVE  Stored'
    <3>1. BufferOK(records'[e])
      BY <2>3, EmittedBuffer
    <3>2. records' = [records EXCEPT ![e] = records'[e]]
      BY <1>0, <2>3, EmittedRecord
    <3> QED
      BY <1>0, <2>1, <3>1, <3>2 DEF Stored, Story
  <2>4. ASSUME NEW e \in ExecutionIds, NEW finalSeq \in 1 .. MaxSeq, NEW d \in Dispositions,
               ack(e, finalSeq, d)
        PROVE  Stored'
    <3>1. BufferOK(records'[e])
      BY <2>4, AcknowledgedBuffer
    <3>2. records' = [records EXCEPT ![e] = records'[e]]
      BY <1>0, <2>4, AcknowledgedRecord
    <3> QED
      BY <1>0, <2>1, <3>1, <3>2 DEF Stored, Story
  <2>5. ASSUME NEW s \in ScopeIds, releaseScope(s)
        PROVE  Stored'
    BY <1>0, <2>1, <2>5, FreshBuffer DEF releaseScope, Stored, Story
  <2>6. ASSUME UNCHANGED records
        PROVE  Stored'
    BY <1>1, <2>6
  <2> QED
    BY <1>3, <2>2, <2>3, <2>4, <2>5, <2>6 DEF Next, registryVars, follow, unfollow
<1> QED
  BY <1>1, <1>2, <1>3 DEF StoreSteps

LEMMA StoredAtFirst == Init => Stored
BY FreshRecord, FreshBuffer DEF Init, Stored, Story

\* In every reachable state each record holds its events in order, nothing after a terminal,
\* and its terminal as the last one until an ACK releases them (bufferEvent, ack).
THEOREM RecordsAreStored == Spec => []Stored
<1>1. Stored /\ [Next]_registryVars => Stored'
  BY StoredIsKept DEF StoreSteps
<1> QED
  BY <1>1, StoredAtFirst, PTL DEF Spec

LEMMA StoredEvents ==
  ASSUME Stored, NEW e \in ExecutionIds
  PROVE  records[e].lastSeq \in Nat /\ InOrder(records[e].events, records[e].lastSeq)
BY MaxSeqAssumption DEF Stored, Story, Consistent, BufferOK

LEMMA OrderedSeqs ==
  ASSUME NEW n, NEW s, InOrder(s, n)
  PROVE  Increasing(SeqsOf(s))
<1>1. /\ s \in Seq(Events)
      /\ \A i, j \in DOMAIN s : i < j => Precedes(s[i], s[j])
  BY ElementsInOrder
<1>2. DOMAIN s = 1 .. Len(s) /\ Len(s) \in Nat
  BY <1>1
<1>3. Len(SeqsOf(s)) = Len(s) /\ \A i \in 1 .. Len(s) : SeqsOf(s)[i] = s[i].seq
  BY <1>2 DEF SeqsOf
<1>4. \A i \in 1 .. Len(s) - 1 : i \in 1 .. Len(s) /\ i + 1 \in 1 .. Len(s) /\ i < i + 1
  BY <1>2
<1> QED
  BY <1>1, <1>2, <1>3, <1>4 DEF Increasing, Precedes

LEMMA OrderedText ==
  ASSUME NEW n \in Nat, NEW s, InOrder(s, n)
  PROVE  Increasing(TextOf(s))
<1>1. TextOf(s) \in Seq(1 .. MaxSeq) /\ Ordered(TextOf(s), Less)
  BY TextInOrder
<1>2. \A i \in 1 .. Len(TextOf(s)) - 1 : i \in DOMAIN TextOf(s) /\ i + 1 \in DOMAIN TextOf(s) /\ i < i + 1
  BY <1>1
<1> QED
  BY <1>1, <1>2, LessMeans DEF Increasing, Ordered

\* Every buffer stays in seq order and its text in the order it was produced, for any buffer
\* size and any number of events, however often deltas were merged into a snapshot
\* (bufferEvent, whose own check after coalescing never throws).
THEOREM BuffersStayInOrder == Spec => []BufferIsInOrder
<1>1. Stored => BufferIsInOrder
  BY StoredEvents, OrderedSeqs, OrderedText DEF BufferIsInOrder
<1> QED
  BY <1>1, RecordsAreStored, PTL

\* No step but an ACK or the end of the scope loses text of a buffer (bufferEvent).
LEMMA TextIsKept ==
  ASSUME Stored, [Next]_registryVars, NEW e \in ExecutionIds, Has(e),
         records'[e].state # "absent", ~ records'[e].tombstone
  PROVE  ToSet(TextOf(records[e].events)) \subseteq ToSet(TextOf(records'[e].events))
<1>0. Story /\ \A q \in ExecutionIds : BufferOK(records[q])
  BY DEF Stored
<1>1. ASSUME NEW q \in ExecutionIds, NEW s \in ScopeIds, begin(q, s)
      PROVE  records'[e] = records[e]
  BY <1>0, <1>1 DEF begin, Story
<1>2. ASSUME NEW q \in ExecutionIds, NEW type \in DriverTypes, emit(q, type)
      PROVE  ToSet(TextOf(records[e].events)) \subseteq ToSet(TextOf(records'[e].events))
  <2>1. CASE q = e
    BY <1>2, <2>1, EmittedBuffer
  <2>2. CASE q # e
    BY <1>0, <1>2, <2>2 DEF emit, Story
  <2> QED
    BY <2>1, <2>2
<1>3. ASSUME NEW q \in ExecutionIds, NEW finalSeq \in 1 .. MaxSeq, NEW d \in Dispositions,
             ack(q, finalSeq, d)
      PROVE  records'[e] = records[e]
  <2>1. q # e
    BY <1>3, AcknowledgedBuffer
  <2> QED
    BY <1>0, <1>3, <2>1 DEF ack, Story
<1>4. ASSUME NEW s \in ScopeIds, releaseScope(s)
      PROVE  records'[e] = records[e]
  BY <1>4 DEF releaseScope, NoRecord
<1> QED
  BY <1>1, <1>2, <1>3, <1>4 DEF Next, registryVars, follow, unfollow

\* Merging deltas never loses text that is buffered, for any buffer size (bufferEvent).
THEOREM MergingKeepsText == Spec => CoalescingKeepsText
<1>1. Stored /\ [Next]_registryVars =>
        \A e \in ExecutionIds :
          Has(e) /\ records'[e].state # "absent" /\ ~ records'[e].tombstone =>
            \A chunk \in ToSet(TextOf(records[e].events)) :
              chunk \in ToSet(TextOf(records'[e].events))
  BY TextIsKept
<1> QED
  BY <1>1, RecordsAreStored, PTL DEF Spec, CoalescingKeepsText

-----------------------------------------------------------------------------
(* Those who follow live.                                                  *)

StreamFields == {"state", "of", "known", "afterSeq", "openedAt", "sent"}

\* The stream str follows the record r of execution e and has been sent what came since it opened.
FollowerOK(r, str, e) ==
  /\ str.state = "open" /\ str.of = e
  /\ r.state # "absent" /\ ~ Finished(r)
  /\ InOrder(str.sent, r.lastSeq)
  /\ Unfinished(str.sent)
  /\ str.openedAt \in Nat
  /\ \A n \in Nat : str.openedAt < n /\ n <= r.lastSeq => \E event \in ToSet(str.sent) : event.seq = n

Wired == /\ listeners = [e \in ExecutionIds |-> listeners[e]]
         /\ streams = [c \in Connections |-> streams[c]]
         /\ \A c \in Connections : DOMAIN streams[c] = StreamFields

Followed == /\ Stored /\ Wired
            /\ \A e \in ExecutionIds : \A c \in listeners[e] :
                 c \in Connections /\ FollowerOK(records[e], streams[c], e)

\* A follower is either left alone or still what it should be.
LEMMA FollowersKept ==
  ASSUME Followed, Stored', Wired',
         \A e \in ExecutionIds : \A c \in listeners'[e] :
           \/ c \in listeners[e] /\ records'[e] = records[e] /\ streams'[c] = streams[c]
           \/ c \in Connections /\ FollowerOK(records'[e], streams'[c], e)
  PROVE  Followed'
BY DEF Followed

\* What a follower is sent.
LEMMA FollowerIsSent ==
  ASSUME NEW e \in ExecutionIds, NEW type \in DriverTypes, Stored, emit(e, type),
         ~ IsTerminal(Stamp(records[e], type)),
         NEW str, DOMAIN str = StreamFields, FollowerOK(records[e], str, e)
  PROVE  LET event == Stamp(records[e], type)
             after == [str EXCEPT !.sent = Append(@, event),
                                  !.state = IF IsTerminal(event) THEN "ended" ELSE @]
         IN  FollowerOK(records'[e], after, e)
<1> DEFINE event == Stamp(records[e], type)
           after == [str EXCEPT !.sent = Append(@, event),
                                !.state = IF IsTerminal(event) THEN "ended" ELSE @]
           n == records[e].lastSeq
<1>1. /\ event \in Events /\ event.seq = n + 1 /\ records'[e].lastSeq = n + 1
      /\ event.type # "output.snapshot" /\ event.text \in {<<>>, <<n + 1>>}
      /\ records'[e].terminal = None /\ ~ records'[e].tombstone
  BY EmittedBuffer
<1>2. n \in Nat /\ n + 1 <= MaxSeq /\ records'[e].state # "absent"
  <2>1. n \in Nat /\ n < MaxSeq
    BY StoredEvents DEF emit
  <2>2. records'[e].state \in {"running"} \cup TerminalTypes
    BY EmittedRecord DEF Stored
  <2> QED
    BY <2>1, <2>2, MaxSeqAssumption DEF TerminalTypes
<1> HIDE DEF event
<1>3. /\ after.state = "open" /\ after.of = e /\ after.openedAt = str.openedAt
      /\ after.sent = Append(str.sent, event)
  BY DEF StreamFields, FollowerOK, event
<1> HIDE DEF after, n
<1>4. InOrder(str.sent, n) /\ Unfinished(str.sent) /\ str.sent \in Seq(Events)
  BY ElementsInOrder DEF FollowerOK, n
<1>5. InOrder(after.sent, n + 1)
  BY <1>1, <1>2, <1>3, <1>4, AppendInOrder
<1>6. ToSet(after.sent) = ToSet(str.sent) \cup {event}
  BY <1>1, <1>3, <1>4, AppendElements
<1>7. Unfinished(after.sent)
  <2>1. \A x \in ToSet(str.sent) : ~ IsTerminal(x)
    BY <1>4 DEF Unfinished, ToSet
  <2>2. \A i \in DOMAIN after.sent : after.sent[i] \in ToSet(after.sent)
    BY DEF ToSet
  <2>3. ~ IsTerminal(event)
    BY DEF event
  <2> QED
    BY <1>6, <2>1, <2>2, <2>3 DEF Unfinished
<1>8. ASSUME NEW k \in Nat, after.openedAt < k, k <= n + 1
      PROVE  \E x \in ToSet(after.sent) : x.seq = k
  <2>1. CASE k = n + 1
    BY <1>1, <1>6, <2>1
  <2>2. CASE k # n + 1
    <3>1. k <= n
      BY <1>2, <1>8, <2>2
    <3>2. \E x \in ToSet(str.sent) : x.seq = k
      BY <1>3, <1>8, <3>1 DEF FollowerOK, n
    <3> QED
      BY <1>6, <3>2
  <2> QED
    BY <2>1, <2>2
<1>9. ~ Finished(records'[e])
  BY <1>1 DEF Finished
<1>10. after.openedAt \in Nat
  BY <1>3 DEF FollowerOK
<1> QED
  BY <1>1, <1>2, <1>3, <1>5, <1>7, <1>8, <1>9, <1>10 DEF FollowerOK, event, after

\* What a stream holds when the request is answered.
LEMMA FollowerIsAnswered ==
  ASSUME NEW e \in ExecutionIds, Stored, Has(e), ~ Finished(records[e]), NEW afterSeq \in 0 .. MaxSeq,
         NEW str, str.state = "open", str.of = e, str.openedAt = records[e].lastSeq,
         str.sent = Replay(records[e].events, afterSeq)
  PROVE  FollowerOK(records[e], str, e)
<1> DEFINE n == records[e].lastSeq
           s == records[e].events
<1>1. n \in Nat /\ InOrder(s, n)
  BY StoredEvents
<1>2. Unfinished(s)
  BY DEF Stored, BufferOK, Terminated, Finished
<1>3. InOrder(str.sent, n) /\ ToSet(str.sent) = {event \in ToSet(s) : event.seq > afterSeq}
  BY <1>1, ReplayInOrder, MaxSeqAssumption
<1>4. \A x \in ToSet(s) : ~ IsTerminal(x)
  BY <1>2 DEF Unfinished, ToSet
<1>5. \A i \in DOMAIN str.sent : str.sent[i] \in ToSet(str.sent)
  BY DEF ToSet
<1>6. Unfinished(str.sent)
  BY <1>3, <1>4, <1>5 DEF Unfinished
<1>7. \A k \in Nat : n < k /\ k <= n => FALSE
  BY <1>1
<1> QED
  BY <1>1, <1>3, <1>6, <1>7 DEF FollowerOK, Has

\* A response written for a fresh connection.
Answer(e, s, afterSeq) ==
  LET known  == Has(e) /\ records[e].scopeId = s
      live   == known /\ ~ Finished(records[e])
  IN  [state    |-> IF live THEN "open" ELSE "ended",
       of       |-> e,
       known    |-> known,
       afterSeq |-> afterSeq,
       openedAt |-> records[e].lastSeq,
       sent     |-> IF known THEN Replay(records[e].events, afterSeq) ELSE <<>>]

LEMMA FollowAnswers ==
  ASSUME Wired, NEW c \in Connections, NEW e \in ExecutionIds, NEW s, NEW afterSeq,
         follow(c, e, s, afterSeq)
  PROVE  LET live == Has(e) /\ records[e].scopeId = s /\ ~ Finished(records[e])
         IN  /\ streams' = [streams EXCEPT ![c] = Answer(e, s, afterSeq)]
             /\ streams'[c] = Answer(e, s, afterSeq)
             /\ DOMAIN streams'[c] = StreamFields
             /\ \A d \in Connections : d # c => streams'[d] = streams[d]
             /\ listeners'[e] = IF live THEN listeners[e] \cup {c} ELSE listeners[e]
             /\ \A q \in ExecutionIds : q # e => listeners'[q] = listeners[q]
             /\ Wired' /\ records' = records
<1>1. streams' = [streams EXCEPT ![c] = Answer(e, s, afterSeq)]
  BY DEF follow, Answer
<1>2. DOMAIN Answer(e, s, afterSeq) = StreamFields
  BY DEF Answer, StreamFields
<1> QED
  BY <1>1, <1>2 DEF Wired, follow

LEMMA FollowKeepsFollowers ==
  ASSUME Followed, NEW c \in Connections, NEW e \in ExecutionIds, NEW s,
         NEW afterSeq \in 0 .. MaxSeq, follow(c, e, s, afterSeq)
  PROVE  Followed'
<1>1. Stored /\ Wired
  BY DEF Followed
<1> DEFINE live == Has(e) /\ records[e].scopeId = s /\ ~ Finished(records[e])
<1>2. /\ streams'[c] = Answer(e, s, afterSeq)
      /\ \A d \in Connections : d # c => streams'[d] = streams[d]
      /\ listeners'[e] = IF live THEN listeners[e] \cup {c} ELSE listeners[e]
      /\ \A q \in ExecutionIds : q # e => listeners'[q] = listeners[q]
      /\ Wired' /\ records' = records
  BY <1>1, FollowAnswers
<1>3. Stored'
  BY <1>1, <1>2, StoredIsKept DEF StoreSteps
<1>4. \A q \in ExecutionIds : c \notin listeners[q]
  <2>1. streams[c].state = "unused"
    BY DEF follow
  <2> QED
    BY <2>1 DEF Followed, FollowerOK
<1>5. live => FollowerOK(records[e], streams'[c], e)
  <2> SUFFICES ASSUME live PROVE FollowerOK(records[e], streams'[c], e)
    OBVIOUS
  <2>1. /\ streams'[c].state = "open" /\ streams'[c].of = e
        /\ streams'[c].openedAt = records[e].lastSeq
        /\ streams'[c].sent = Replay(records[e].events, afterSeq)
    BY <1>2 DEF Answer
  <2> QED
    BY <1>1, <2>1, FollowerIsAnswered
<1>6. ASSUME NEW q \in ExecutionIds, NEW d \in listeners'[q]
      PROVE  \/ d \in listeners[q] /\ records'[q] = records[q] /\ streams'[d] = streams[d]
             \/ d \in Connections /\ FollowerOK(records'[q], streams'[d], q)
  <2>1. CASE d \in listeners[q]
    <3>1. d \in Connections
      BY <2>1 DEF Followed
    <3> QED
      BY <1>2, <1>4, <2>1, <3>1
  <2>2. CASE d \notin listeners[q]
    <3>1. q = e /\ d = c /\ live
      BY <1>2, <1>6, <2>2
    <3> QED
      BY <1>2, <1>5, <3>1
  <2> QED
    BY <2>1, <2>2
<1> QED
  BY <1>2, <1>3, <1>6, FollowersKept

LEMMA EmitKeepsFollowers ==
  ASSUME Followed, NEW e \in ExecutionIds, NEW type \in DriverTypes, emit(e, type)
  PROVE  Followed'
<1> DEFINE event == Stamp(records[e], type)
           ended(c) == [streams[c] EXCEPT !.sent = Append(@, event),
                                          !.state = IF IsTerminal(event) THEN "ended" ELSE @]
<1>1. Stored /\ Wired
  BY DEF Followed
<1>2. Stored'
  <2>1. [Next]_registryVars
    BY DEF Next
  <2> QED
    BY <1>1, <2>1, StoredIsKept DEF StoreSteps
<1>3. /\ streams' = [c \in Connections |-> IF c \in listeners[e] THEN ended(c) ELSE streams[c]]
      /\ listeners' = [listeners EXCEPT ![e] = IF IsTerminal(event) THEN {} ELSE @]
      /\ \A q \in ExecutionIds : q # e => records'[q] = records[q]
  BY <1>1 DEF emit, Notified, Stored, Story
<1>4. Wired'
  <2>1. \A c \in Connections : DOMAIN ended(c) = StreamFields
    BY <1>1 DEF Wired
  <2> HIDE DEF ended
  <2> QED
    BY <1>1, <1>3, <2>1 DEF Wired
<1>5. /\ listeners'[e] = IF IsTerminal(event) THEN {} ELSE listeners[e]
      /\ \A q \in ExecutionIds : q # e => listeners'[q] = listeners[q]
  BY <1>1, <1>3 DEF Wired
<1>6. ASSUME NEW q \in ExecutionIds, NEW c \in listeners'[q]
      PROVE  \/ c \in listeners[q] /\ records'[q] = records[q] /\ streams'[c] = streams[c]
             \/ c \in Connections /\ FollowerOK(records'[q], streams'[c], q)
  <2>1. CASE q = e
    <3>1. ~ IsTerminal(event) /\ c \in listeners[e]
      BY <1>5, <1>6, <2>1
    <3>2. c \in Connections /\ FollowerOK(records[e], streams[c], e) /\ DOMAIN streams[c] = StreamFields
      BY <1>1, <3>1 DEF Followed, Wired
    <3>3. FollowerOK(records'[e], ended(c), e)
      BY <1>1, <3>1, <3>2, FollowerIsSent
    <3>4. streams'[c] = ended(c)
      BY <1>3, <3>1, <3>2
    <3> HIDE DEF ended
    <3> QED
      BY <2>1, <3>2, <3>3, <3>4
  <2>2. CASE q # e
    <3>1. c \in listeners[q] /\ records'[q] = records[q]
      BY <1>3, <1>5, <1>6, <2>2
    <3>2. c \in Connections /\ streams[c].of = q
      BY <3>1 DEF Followed, FollowerOK
    <3>3. c \notin listeners[e]
      BY <2>2, <3>2 DEF Followed, FollowerOK
    <3>4. streams'[c] = streams[c]
      BY <1>3, <3>2, <3>3
    <3> QED
      BY <3>1, <3>4
  <2> QED
    BY <2>1, <2>2
<1> QED
  BY <1>2, <1>4, <1>6, FollowersKept

\* The steps that only take followers away, and begin, which has none.
LEMMA OthersKeepFollowers ==
  ASSUME Followed
  PROVE  /\ \A e \in ExecutionIds, s \in ScopeIds : begin(e, s) => Followed'
         /\ \A c \in Connections : unfollow(c) => Followed'
         /\ \A e \in ExecutionIds, finalSeq \in 1 .. MaxSeq, d \in Dispositions :
              ack(e, finalSeq, d) => Followed'
         /\ \A s \in ScopeIds : releaseScope(s) => Followed'
<1>1. Stored /\ Wired /\ Story
  BY DEF Followed, Stored
<1>2. ASSUME NEW e \in ExecutionIds, NEW s \in ScopeIds, begin(e, s)
      PROVE  Followed'
  <2>1. Stored'
    <3>1. [Next]_registryVars
      BY <1>2 DEF Next
    <3> QED
      BY <1>1, <3>1, StoredIsKept DEF StoreSteps
  <2>2. Wired'
    BY <1>1, <1>2 DEF Wired, begin
  <2>3. listeners[e] = {}
    BY <1>2 DEF begin, Has, Followed, FollowerOK
  <2>4. \A q \in ExecutionIds : q # e => records'[q] = records[q]
    BY <1>1, <1>2 DEF begin, Story
  <2> QED
    BY <1>2, <2>1, <2>2, <2>3, <2>4, FollowersKept DEF begin
<1>3. ASSUME NEW c \in Connections, unfollow(c)
      PROVE  Followed'
  <2>1. Stored'
    BY <1>1, <1>3, StoredIsKept DEF StoreSteps, unfollow
  <2>2. /\ \A q \in ExecutionIds : listeners'[q] = listeners[q] \ {c}
        /\ \A d \in Connections : d # c => streams'[d] = streams[d]
        /\ Wired'
    BY <1>1, <1>3 DEF Wired, unfollow
  <2>3. \A q \in ExecutionIds : \A d \in listeners[q] : d \in Connections
    BY DEF Followed
  <2>4. records' = records
    BY <1>3 DEF unfollow
  <2> QED
    BY <2>1, <2>2, <2>3, <2>4, FollowersKept
<1>4. ASSUME NEW e \in ExecutionIds, NEW finalSeq \in 1 .. MaxSeq, NEW d \in Dispositions,
             ack(e, finalSeq, d)
      PROVE  Followed'
  <2>1. Stored'
    <3>1. [Next]_registryVars
      BY <1>4 DEF Next
    <3> QED
      BY <1>1, <3>1, StoredIsKept DEF StoreSteps
  <2>2. /\ listeners'[e] = {} /\ streams' = streams
        /\ \A q \in ExecutionIds : q # e => listeners'[q] = listeners[q] /\ records'[q] = records[q]
        /\ Wired'
    BY <1>1, <1>4 DEF Wired, ack, Story
  <2> QED
    BY <2>1, <2>2, FollowersKept
<1>5. ASSUME NEW s \in ScopeIds, releaseScope(s)
      PROVE  Followed'
  <2>1. Stored'
    <3>1. [Next]_registryVars
      BY <1>5 DEF Next
    <3> QED
      BY <1>1, <3>1, StoredIsKept DEF StoreSteps
  <2>2. /\ streams' = streams /\ Wired'
        /\ \A q \in ExecutionIds :
             listeners'[q] # {} => listeners'[q] = listeners[q] /\ records'[q] = records[q]
    BY <1>1, <1>5 DEF Wired, releaseScope
  <2> QED
    BY <2>1, <2>2, FollowersKept
<1> QED
  BY <1>2, <1>3, <1>4, <1>5

LEMMA FollowedIsKept ==
  ASSUME Followed, [Next]_registryVars
  PROVE  Followed'
<1>1. ASSUME UNCHANGED registryVars
      PROVE  Followed'
  <2>1. UNCHANGED records /\ Stored
    BY <1>1 DEF registryVars, Followed
  <2>2. Stored'
    BY <2>1, StoredIsKept DEF StoreSteps
  <2> QED
    BY <1>1, <2>2 DEF registryVars, Followed, Wired
<1> QED
  BY <1>1, FollowKeepsFollowers, EmitKeepsFollowers, OthersKeepFollowers DEF Next

LEMMA FollowedAtFirst == Init => Followed
BY StoredAtFirst DEF Init, Followed, Wired, NoStream, StreamFields

\* In every reachable state each listener of a live execution is an open connection that has
\* been sent, in order, everything emitted since it opened, and no terminal (follow, emit).
THEOREM FollowersAreServed == Spec => []Followed
BY FollowedAtFirst, FollowedIsKept, PTL DEF Spec

\* Nothing slips between the replay and the registration of the listener, and nothing comes
\* twice, for any number of connections and any interleaving of follow and emit.
THEOREM FollowersMissNothing == Spec => []NothingMissedLive
<1>1. ASSUME Followed, NEW e \in ExecutionIds, NEW c \in listeners[e]
      PROVE  /\ streams[c].state = "open" /\ streams[c].of = e
             /\ ~ Finished(records[e])
             /\ Increasing(SeqsOf(streams[c].sent))
             /\ streams[c].openedAt + 1 .. records[e].lastSeq
                  \subseteq {streams[c].sent[i].seq : i \in DOMAIN streams[c].sent}
  <2>1. FollowerOK(records[e], streams[c], e) /\ records[e].lastSeq \in Nat
    BY <1>1, StoredEvents DEF Followed
  <2>2. Increasing(SeqsOf(streams[c].sent))
    BY <2>1, OrderedSeqs DEF FollowerOK
  <2>3. ASSUME NEW n \in streams[c].openedAt + 1 .. records[e].lastSeq
        PROVE  \E i \in DOMAIN streams[c].sent : streams[c].sent[i].seq = n
    <3>1. n \in Nat /\ streams[c].openedAt < n /\ n <= records[e].lastSeq
      BY <2>1 DEF FollowerOK
    <3> QED
      BY <2>1, <3>1 DEF FollowerOK, ToSet
  <2> QED
    BY <2>1, <2>2, <2>3 DEF FollowerOK
<1>2. Followed => NothingMissedLive
  BY <1>1 DEF NothingMissedLive
<1> QED
  BY <1>2, FollowersAreServed, PTL

\* Nothing is left to learn of r by str, which the Host has ended.
NothingLeft(r, str) ==
  /\ Finished(r)
  /\ \/ r.tombstone
     \/ str.afterSeq >= r.lastSeq
     \/ str.sent # <<>> /\ Last(str.sent) = r.terminal

LEMMA EndedByAnswer ==
  ASSUME Followed, NEW e \in ExecutionIds, NEW s, NEW afterSeq \in 0 .. MaxSeq,
         Answer(e, s, afterSeq).state = "ended", Answer(e, s, afterSeq).known
  PROVE  NothingLeft(records[e], Answer(e, s, afterSeq))
<1> DEFINE r == records[e]
           replay == Replay(r.events, afterSeq)
<1>1. Finished(r) /\ Answer(e, s, afterSeq).sent = replay /\ Answer(e, s, afterSeq).afterSeq = afterSeq
  BY DEF Answer
<1>2. Stored /\ r.lastSeq \in Nat /\ InOrder(r.events, r.lastSeq) /\ Terminated(r)
  <2>1. Stored
    BY DEF Followed
  <2> QED
    BY <2>1, StoredEvents DEF Stored, BufferOK
<1>3. CASE ~ r.tombstone /\ r.lastSeq > afterSeq
  <2>1. r.events # <<>> /\ Last(r.events) = r.terminal /\ r.terminal.seq = r.lastSeq
    BY <1>1, <1>2, <1>3 DEF Terminated, Finished
  <2>2. replay # <<>> /\ Last(replay) = Last(r.events)
    BY <1>2, <1>3, <2>1, ReplayInOrder, MaxSeqAssumption
  <2> QED
    BY <1>1, <2>1, <2>2 DEF NothingLeft
<1>4. CASE r.tombstone \/ ~ (r.lastSeq > afterSeq)
  BY <1>1, <1>2, <1>4, MaxSeqAssumption DEF NothingLeft
<1> QED
  BY <1>3, <1>4

LEMMA EndedByTerminal ==
  ASSUME Followed, NEW e \in ExecutionIds, NEW type \in DriverTypes, emit(e, type),
         NEW c \in Connections, streams'[c].state = "ended", streams[c].state # "ended"
  PROVE  streams'[c].of = e /\ NothingLeft(records'[e], streams'[c])
<1> DEFINE event == Stamp(records[e], type)
           ended == [streams[c] EXCEPT !.sent = Append(@, event),
                                       !.state = IF IsTerminal(event) THEN "ended" ELSE @]
<1>1. Stored /\ Wired
  BY DEF Followed
<1>2. streams'[c] = IF c \in listeners[e] THEN ended ELSE streams[c]
  BY DEF emit, Notified
<1>3. c \in listeners[e] /\ streams'[c] = ended
  <2> HIDE DEF ended
  <2> QED
    BY <1>2
<1>4. FollowerOK(records[e], streams[c], e) /\ DOMAIN streams[c] = StreamFields
  BY <1>1, <1>3 DEF Followed, Wired
<1>5. event \in Events /\ records'[e].terminal = IF IsTerminal(event) THEN event ELSE None
  BY <1>1, EmittedBuffer
<1>6. event # None
  BY <1>5, NoneAssumption
<1> HIDE DEF event
<1>7. ended.state = "ended" => IsTerminal(event)
  BY <1>4 DEF FollowerOK, StreamFields
<1>8. ended.of = e /\ ended.sent = Append(streams[c].sent, event)
  BY <1>4 DEF FollowerOK, StreamFields
<1>9. streams[c].sent \in Seq(Events)
  BY <1>4, ElementsInOrder DEF FollowerOK
<1>10. ended.sent # <<>> /\ Last(ended.sent) = event
  BY <1>5, <1>8, <1>9 DEF Last
<1> HIDE DEF ended
<1>11. records'[e].terminal = event
  BY <1>3, <1>5, <1>7
<1> QED
  BY <1>3, <1>6, <1>8, <1>10, <1>11 DEF NothingLeft, Finished

\* The Host ends a response only when the client can learn nothing more from it: each step that
\* ends one has sent the terminal, or found the execution finished behind the cursor, or unknown.
THEOREM EndedResponsesSaidAll == Spec => EndedMeansNothingLeft
<1>1. ASSUME Followed, [Next]_registryVars, NEW c \in Connections,
             streams'[c].state = "ended", streams[c].state # "ended", streams'[c].known
      PROVE  NothingLeft(records'[streams'[c].of], streams'[c])
  <2>1. ASSUME NEW e \in ExecutionIds, NEW type \in DriverTypes, emit(e, type)
        PROVE  NothingLeft(records'[streams'[c].of], streams'[c])
    BY <1>1, <2>1, EndedByTerminal
  <2>2. ASSUME NEW d \in Connections, NEW e \in ExecutionIds, NEW s \in ScopeIds,
               NEW afterSeq \in 0 .. MaxSeq, follow(d, e, s, afterSeq)
        PROVE  NothingLeft(records'[streams'[c].of], streams'[c])
    <3>1. /\ streams'[d] = Answer(e, s, afterSeq)
          /\ \A q \in Connections : q # d => streams'[q] = streams[q]
          /\ records' = records
      BY <1>1, <2>2, FollowAnswers DEF Followed
    <3>2. c = d
      BY <1>1, <3>1
    <3>3. streams'[c].of = e
      BY <3>1, <3>2 DEF Answer
    <3> QED
      BY <1>1, <3>1, <3>2, <3>3, EndedByAnswer
  <2>3. ASSUME NEW d \in Connections, unfollow(d)
        PROVE  FALSE
    <3>1. streams' = [streams EXCEPT ![d].state = "left"]
          /\ streams = [q \in Connections |-> streams[q]]
          /\ DOMAIN streams[d] = StreamFields
      BY <1>1, <2>3 DEF unfollow, Followed, Wired
    <3>2. streams'[d].state = "left"
      BY <3>1 DEF StreamFields
    <3>3. \A q \in Connections : q # d => streams'[q] = streams[q]
      BY <3>1
    <3> QED
      BY <1>1, <3>2, <3>3
  <2>4. ASSUME streams' = streams
        PROVE  FALSE
    BY <1>1, <2>4
  <2> QED
    BY <1>1, <2>1, <2>2, <2>3, <2>4 DEF Next, begin, ack, releaseScope, registryVars
<1>2. Followed /\ [Next]_registryVars =>
        \A c \in Connections :
          streams'[c].state = "ended" /\ streams[c].state # "ended" /\ streams'[c].known =>
            LET r    == records'[streams'[c].of]
                sent == streams'[c].sent
            IN  /\ Finished(r)
                /\ \/ r.tombstone
                   \/ streams'[c].afterSeq >= r.lastSeq
                   \/ sent # <<>> /\ Last(sent) = r.terminal
  BY <1>1 DEF NothingLeft
<1> QED
  BY <1>2, FollowersAreServed, PTL DEF Spec, EndedMeansNothingLeft

-----------------------------------------------------------------------------
(* The page that follows one execution.                                    *)

PageFields == {"pc", "resumeAt", "lastSeq", "read", "progressed", "streamFailures",
               "statusFailures", "catchUpSpent", "outcome"}

PageTyped(p) == /\ DOMAIN p = PageFields
                /\ p.resumeAt \in 0 .. MaxSeq /\ p.lastSeq \in 0 .. MaxSeq
                /\ p.read \in Nat /\ p.streamFailures \in Nat
                /\ p.outcome # None => p.pc = "done"

\* The Host can still serve the terminal of r.
Held(r) == r.state # "absent" /\ ~ r.tombstone

\* The cursors never pass the record.  While the Host holds it, no response has ended without
\* its terminal: the page asks for everything again and counts one failure after the other.
Behind(r, p) ==
  r.state # "absent" =>
    /\ r.scopeId = Scope /\ p.lastSeq <= r.lastSeq /\ p.resumeAt <= r.lastSeq
    /\ ~ r.tombstone =>
         /\ p.resumeAt = 0
         /\ p.catchUpSpent /\ p.pc # "done" =>
              p.streamFailures >= IF p.pc = "check" THEN 2 ELSE 1
         /\ p.pc = "check" => p.streamFailures >= 1

Caused(r, p) ==
  /\ p.outcome = "exhausted" => ~ Held(r)
  /\ p.outcome = "lost" => r.state = "absent"
  /\ p.outcome = "terminal" /\ r.state # "absent" => Finished(r) /\ p.lastSeq = r.terminal.seq

Shown(r, p, pv) ==
  Held(r) /\ (r.terminal = None \/ p.lastSeq < r.lastSeq) =>
    \A chunk \in ToSet(TextOf(r.events)) : chunk <= p.lastSeq => chunk \in ToSet(pv)

\* What the connection str carries of r; following says that it is a listener of r.
Carries(r, str, following) ==
  /\ str.sent \in Seq(Events)
  /\ r.state # "absent" =>
       /\ InOrder(str.sent, r.lastSeq)
       /\ \A event \in ToSet(str.sent) : IsTerminal(event) => event = r.terminal
  /\ Held(r) =>
       /\ \/ str.state = "open" /\ following
          \/ /\ str.state = "ended" /\ r.terminal # None
             /\ str.sent # <<>> /\ Last(str.sent) = r.terminal
       /\ ToSet(TextOf(r.events)) \subseteq Chunks(ToSet(str.sent))

\* What the page has read of it: all up to its cursor, and the preview shows what it read.
HasRead(r, p, str, pv) ==
  /\ p.read <= Len(str.sent)
  /\ \A i \in 1 .. p.read : str.sent[i].seq <= p.lastSeq
  /\ Held(r) =>
       /\ \A i \in DOMAIN str.sent : p.read < i => p.lastSeq < str.sent[i].seq
       /\ (\A i \in 1 .. p.read : ~ IsTerminal(str.sent[i])) =>
            \A i \in 1 .. p.read : IsPreview(str.sent[i]) => ToSet(str.sent[i].text) \subseteq ToSet(pv)

Streaming ==
  /\ Followed /\ PageTyped(page) /\ preview \in Seq(1 .. MaxSeq)
  /\ Behind(record, page) /\ Caused(record, page) /\ Shown(record, page, preview)
  /\ page.pc = "read" => /\ Carries(record, stream, Connection \in listeners[Execution])
                         /\ HasRead(record, page, stream, preview)

LEMMA RecordHolds ==
  ASSUME Stored
  PROVE  /\ BufferOK(record) /\ Consistent(record)
         /\ record.lastSeq \in Nat /\ record.lastSeq \in 0 .. MaxSeq
BY FollowerAssumption, MaxSeqAssumption DEF Stored, Story, Consistent, record

LEMMA HeldTerminal ==
  ASSUME NEW r, BufferOK(r), r.lastSeq \in Nat
  PROVE  /\ r.events \in Seq(Events)
         /\ \A event \in ToSet(r.events) : IsTerminal(event) => event = r.terminal
         /\ Held(r) /\ r.terminal # None =>
              /\ r.events # <<>> /\ Last(r.events) = r.terminal
              /\ r.terminal.seq = r.lastSeq /\ IsTerminal(r.terminal) /\ r.terminal \in Events
         /\ ~ Held(r) => r.events = <<>>
<1>1. InOrder(r.events, r.lastSeq) /\ Terminated(r) /\ r.events \in Seq(Events)
  BY ElementsInOrder DEF BufferOK
<1>2. ~ Held(r) => r.events = <<>>
  BY DEF Held, BufferOK, NoRecord
<1>3. CASE r.terminal = None
  <2>1. Unfinished(r.events)
    BY <1>1, <1>3 DEF Terminated
  <2> QED
    BY <1>1, <1>2, <1>3, <2>1 DEF Unfinished, ToSet
<1>4. CASE r.terminal # None /\ ~ Held(r)
  <2>1. \A event \in ToSet(r.events) : FALSE
    BY <1>2, <1>4 DEF ToSet
  <2> QED
    BY <1>1, <1>2, <1>4, <2>1
<1>5. CASE r.terminal # None /\ Held(r)
  <2>1. /\ r.events # <<>> /\ Last(r.events) = r.terminal
        /\ r.terminal.seq = r.lastSeq /\ IsTerminal(r.terminal) /\ r.terminal \in Events
    BY <1>1, <1>5 DEF Terminated, Held
  <2>2. /\ DOMAIN r.events = 1 .. Len(r.events) /\ Len(r.events) \in Nat
        /\ r.events[Len(r.events)] = r.terminal /\ Len(r.events) \in DOMAIN r.events
    BY <1>1, <2>1 DEF Last
  <2>3. ASSUME NEW i \in DOMAIN r.events, IsTerminal(r.events[i])
        PROVE  r.events[i] = r.terminal
    <3>1. ~ (i < Len(r.events))
      BY <1>1, <2>2, <2>3, ElementsInOrder DEF Precedes
    <3> QED
      BY <2>2, <3>1
  <2> QED
    BY <1>1, <1>5, <2>1, <2>3 DEF ToSet
<1> QED
  BY <1>3, <1>4, <1>5

LEMMA BufferedText ==
  ASSUME NEW r, BufferOK(r), r.lastSeq \in Nat
  PROVE  /\ ToSet(TextOf(r.events)) = Chunks(ToSet(r.events))
         /\ ~ Held(r) => ToSet(TextOf(r.events)) = {}
         /\ \A chunk \in ToSet(TextOf(r.events)) : chunk \in Nat /\ 1 <= chunk /\ chunk <= r.lastSeq
<1>1. InOrder(r.events, r.lastSeq)
  BY DEF BufferOK
<1>2. ToSet(TextOf(r.events)) = Chunks(ToSet(r.events))
  BY <1>1, TextInOrder
<1>3. ~ Held(r) => Chunks(ToSet(r.events)) = {}
  <2>1. ~ Held(r) => ToSet(r.events) = {}
    BY HeldTerminal DEF ToSet
  <2> QED
    BY <2>1 DEF Chunks
<1>4. ASSUME NEW chunk \in Chunks(ToSet(r.events))
      PROVE  chunk \in Nat /\ 1 <= chunk /\ chunk <= r.lastSeq
  <2>1. PICK i \in DOMAIN r.events : chunk \in ToSet(r.events[i].text)
    BY <1>4 DEF Chunks, ToSet
  <2>2. PICK k \in DOMAIN r.events[i].text : chunk = r.events[i].text[k]
    BY <2>1 DEF ToSet
  <2>3. r.events[i] \in StampedBy(r.lastSeq) /\ r.events[i] \in Events
    BY <1>1, ElementsInOrder
  <2> QED
    BY <2>2, <2>3, EventFields, MaxSeqAssumption DEF StampedBy
<1> QED
  BY <1>2, <1>3, <1>4

\* The preview of a page that has read all up to its cursor shows the buffer up to there.
LEMMA ReadIsShown ==
  ASSUME NEW r, BufferOK(r), r.lastSeq \in Nat, NEW p, PageTyped(p), Behind(r, p),
         NEW str, NEW following, Carries(r, str, following),
         NEW pv, HasRead(r, p, str, pv)
  PROVE  Shown(r, p, pv)
<1> SUFFICES ASSUME Held(r), r.terminal = None \/ p.lastSeq < r.lastSeq,
                    NEW chunk \in ToSet(TextOf(r.events)), chunk <= p.lastSeq
             PROVE  chunk \in ToSet(pv)
  BY DEF Shown
<1>1. /\ str.sent \in Seq(Events) /\ InOrder(str.sent, r.lastSeq)
      /\ \A event \in ToSet(str.sent) : IsTerminal(event) => event = r.terminal
      /\ chunk \in Chunks(ToSet(str.sent))
  BY DEF Carries, Held
<1>2. PICK i \in DOMAIN str.sent : IsPreview(str.sent[i]) /\ chunk \in ToSet(str.sent[i].text)
  BY <1>1 DEF Chunks, ToSet
<1>3. PICK k \in DOMAIN str.sent[i].text : chunk = str.sent[i].text[k]
  BY <1>2 DEF ToSet
<1>4. str.sent[i] \in StampedBy(r.lastSeq) /\ str.sent[i] \in Events
  BY <1>1, ElementsInOrder
<1>5. /\ str.sent[i].seq \in Nat /\ chunk \in Nat /\ str.sent[i].seq <= chunk
      /\ p.lastSeq \in Nat /\ p.read \in Nat /\ Len(str.sent) \in Nat /\ DOMAIN str.sent = 1 .. Len(str.sent)
  <2>1. str.sent[i].seq \in Nat /\ chunk \in Nat
    BY <1>3, <1>4, EventFields
  <2>2. str.sent[i].seq <= chunk
    BY <1>3, <1>4 DEF StampedBy
  <2>3. p.lastSeq \in Nat /\ p.read \in Nat
    BY MaxSeqAssumption DEF PageTyped
  <2> QED
    BY <1>1, <2>1, <2>2, <2>3
<1>6. i \in 1 .. p.read
  BY <1>5 DEF HasRead
<1>7. ASSUME NEW j \in 1 .. p.read, IsTerminal(str.sent[j])
      PROVE  FALSE
  <2>1. j \in DOMAIN str.sent
    BY <1>5 DEF HasRead
  <2>2. str.sent[j] = r.terminal /\ str.sent[j] \in Events
    BY <1>1, <1>7, <2>1, ElementsInOrder
  <2>3. r.terminal # None
    BY <2>2, NoneAssumption
  <2>4. r.terminal.seq = r.lastSeq
    BY <2>3, HeldTerminal
  <2>5. r.lastSeq <= p.lastSeq
    BY <2>2, <2>4 DEF HasRead
  <2> QED
    BY <1>5, <2>3, <2>5
<1> QED
  BY <1>2, <1>6, <1>7 DEF HasRead

LEMMA Previewed ==
  ASSUME preview \in Seq(1 .. MaxSeq), NEW event \in Events
  PROVE  /\ applyPreview(event) \in Seq(1 .. MaxSeq)
         /\ IsPreview(event) => ToSet(event.text) \subseteq ToSet(applyPreview(event))
         /\ ~ IsTerminal(event) /\ event.type # "output.snapshot" =>
              ToSet(preview) \subseteq ToSet(applyPreview(event))
<1>1. event.text \in Seq(1 .. MaxSeq) /\ event.type \in EventTypes
  BY EventFields
<1>2. ToSet(preview \o event.text) = ToSet(preview) \cup ToSet(event.text)
  BY <1>1, ConcatElements
<1>3. preview \o event.text \in Seq(1 .. MaxSeq) /\ <<>> \in Seq(1 .. MaxSeq)
  BY <1>1
<1> DEFINE text == event.text
           shown == applyPreview(event)
<1>4. CASE event.type = "output.delta"
  <2>1. shown = preview \o text
    BY <1>4 DEF applyPreview, IsTerminal, TerminalTypes
  <2>2. ToSet(shown) = ToSet(preview) \cup ToSet(text) /\ shown \in Seq(1 .. MaxSeq)
    BY <1>2, <1>3, <2>1
  <2> HIDE DEF text, shown
  <2> QED
    BY <2>2 DEF text, shown
<1>5. CASE event.type = "output.snapshot"
  <2>1. shown = text
    BY <1>5 DEF applyPreview, IsTerminal, TerminalTypes
  <2>2. ToSet(shown) = ToSet(text) /\ shown \in Seq(1 .. MaxSeq)
    BY <1>1, <2>1
  <2> HIDE DEF text, shown
  <2> QED
    BY <1>5, <2>2 DEF text, shown
<1>6. CASE IsTerminal(event)
  BY <1>3, <1>6 DEF applyPreview, IsTerminal, TerminalTypes, IsPreview
<1>7. CASE event.type = "activity"
  <2>1. applyPreview(event) = preview
    BY <1>7 DEF applyPreview, IsTerminal, TerminalTypes
  <2> QED
    BY <1>7, <2>1 DEF IsPreview
<1> QED
  BY <1>1, <1>4, <1>5, <1>6, <1>7 DEF EventTypes, IsTerminal

-----------------------------------------------------------------------------
(* The followers while the page, its connection and the Host take steps.   *)

\* The connection is given up by the page.
LEMMA DisconnectKeepsFollowers ==
  ASSUME Followed, Disconnected, UNCHANGED records
  PROVE  Followed'
<1>1. Stored /\ Wired
  BY DEF Followed
<1>2. Stored'
  BY <1>1, StoredIsKept DEF StoreSteps
<1>3. /\ \A q \in ExecutionIds : listeners'[q] = listeners[q] \ {Connection}
      /\ \A d \in Connections : d # Connection => streams'[d] = streams[d]
      /\ Wired'
  BY <1>1 DEF Wired, Disconnected, NoStream, StreamFields
<1>4. \A q \in ExecutionIds : \A d \in listeners[q] : d \in Connections
  BY DEF Followed
<1> QED
  BY <1>2, <1>3, <1>4, FollowersKept

LEMMA RestartKeepsFollowers ==
  ASSUME Followed, HostRestarts
  PROVE  Followed' /\ record'.state = "absent" /\ stream'.sent = stream.sent
<1>1. Stored /\ Wired /\ Connection \in Connections /\ Execution \in ExecutionIds
  BY FollowerAssumption DEF Followed
<1>2. Stored'
  BY <1>1, StoredIsKept DEF StoreSteps, HostRestarts
<1>3. Wired' /\ \A q \in ExecutionIds : listeners'[q] = {}
  BY <1>1 DEF Wired, HostRestarts
<1>4. Followed'
  BY <1>2, <1>3, FollowersKept
<1>5. record'.state = "absent"
  BY <1>1 DEF HostRestarts, NoRecord, record
<1>6. stream'.sent = stream.sent
  <2>1. DOMAIN streams[Connection] = StreamFields
    BY <1>1 DEF Wired
  <2>2. streams'[Connection] = IF streams[Connection].state = "open"
                               THEN [streams[Connection] EXCEPT !.state = "left"]
                               ELSE streams[Connection]
    BY <1>1 DEF HostRestarts
  <2> QED
    BY <2>1, <2>2 DEF StreamFields, stream
<1> QED
  BY <1>4, <1>5, <1>6

\* The Host's own operations on the turn.
LEMMA HostKeepsFollowers ==
  ASSUME Followed, Host
  PROVE  Followed' /\ Unchanged
<1>1. ASSUME NEW type \in DriverTypes, emit(Execution, type)
      PROVE  Followed'
  BY <1>1, EmitKeepsFollowers, FollowerAssumption
<1>2. ASSUME NEW d \in Dispositions, record.terminal # None, ack(Execution, record.terminal.seq, d)
      PROVE  Followed'
  <2>1. Stored
    BY DEF Followed
  <2>2. BufferOK(record)
    BY <2>1, RecordHolds
  <2>3. record.terminal \in Events
    BY <1>2, <2>2 DEF BufferOK, Terminated
  <2>4. record.terminal.seq \in 1 .. MaxSeq
    BY <2>3, EventFields
  <2> QED
    BY <1>2, <2>4, OthersKeepFollowers, FollowerAssumption
<1>3. ASSUME releaseScope(Scope)
      PROVE  Followed'
  BY <1>3, OthersKeepFollowers, FollowerAssumption
<1>4. ASSUME HostRestarts
      PROVE  Followed'
  BY <1>4, RestartKeepsFollowers
<1> QED
  BY <1>1, <1>2, <1>3, <1>4 DEF Host, DriverEmits, OthersAck, CloseScope, HostRestarts

-----------------------------------------------------------------------------
(* What a step of the page does to the invariant.                          *)

LEMMA ConnectedPage ==
  ASSUME Streaming, Connect
  PROVE  Streaming'
<1> DEFINE r == record
           answer == Answer(Execution, Scope, page.resumeAt)
           replay == Replay(r.events, page.resumeAt)
<1>1. /\ Followed /\ Stored /\ Wired /\ PageTyped(page)
      /\ Behind(r, page) /\ Caused(r, page)
  BY DEF Streaming, Followed
<1>2. BufferOK(r) /\ r.lastSeq \in Nat
  BY <1>1, RecordHolds
<1>3. page.resumeAt \in 0 .. MaxSeq /\ page.resumeAt \in Nat
  BY <1>1, MaxSeqAssumption DEF PageTyped
<1>4. follow(Connection, Execution, Scope, page.resumeAt)
  BY DEF Connect
<1> PICK from \in 0 .. MaxSeq : from = page.resumeAt
  BY <1>3
<1>5. Followed'
  <2>1. follow(Connection, Execution, Scope, from)
    BY <1>4
  <2> QED
    BY <1>1, <2>1, FollowKeepsFollowers, FollowerAssumption
<1>6. /\ stream' = answer /\ record' = r
      /\ Has(Execution) /\ r.scopeId = Scope /\ ~ Finished(r) =>
           Connection \in listeners'[Execution]
  <2> DEFINE live == Has(Execution) /\ records[Execution].scopeId = Scope /\ ~ Finished(records[Execution])
  <2>0. follow(Connection, Execution, Scope, from) /\ answer = Answer(Execution, Scope, from)
    BY <1>4
  <2> HIDE DEF answer
  <2>1. /\ streams'[Connection] = answer /\ records' = records
        /\ listeners'[Execution] = IF live THEN listeners[Execution] \cup {Connection}
                                   ELSE listeners[Execution]
    BY <1>1, <2>0, FollowAnswers, FollowerAssumption
  <2>2. stream' = answer /\ record' = r
    BY <2>1 DEF stream, record
  <2>3. live => Connection \in listeners'[Execution]
    BY <2>1
  <2> QED
    BY <2>2, <2>3 DEF record
<1>7. /\ page'.pc = "read" /\ page'.read = 0 /\ page'.lastSeq = page.resumeAt
      /\ page'.resumeAt = page.resumeAt /\ page'.outcome = page.outcome
      /\ page'.streamFailures = page.streamFailures /\ page'.catchUpSpent = page.catchUpSpent
      /\ DOMAIN page' = PageFields /\ preview' = preview /\ page.pc = "connect" /\ page.outcome = None
  BY <1>1 DEF Connect, PageTyped, PageFields
<1>8. Has(Execution) <=> r.state # "absent"
  BY DEF Has, record
<1>9. /\ answer.sent = IF r.state # "absent" /\ r.scopeId = Scope THEN replay ELSE <<>>
      /\ answer.state = IF r.state # "absent" /\ r.scopeId = Scope /\ ~ Finished(r)
                        THEN "open" ELSE "ended"
  BY <1>8 DEF Answer, record
<1>10. InOrder(r.events, r.lastSeq) /\ InOrder(replay, r.lastSeq)
       /\ ToSet(replay) = {event \in ToSet(r.events) : event.seq > page.resumeAt}
       /\ (r.events # <<>> /\ Last(r.events).seq > page.resumeAt =>
             replay # <<>> /\ Last(replay) = Last(r.events))
  BY <1>2, <1>3, ReplayInOrder DEF BufferOK
<1>11. r.state # "absent" => r.scopeId = Scope
  BY <1>1 DEF Behind
<1>12. \A event \in ToSet(r.events) : event.seq \in Nat /\ event.seq > 0
  <2>1. \A i \in DOMAIN r.events : r.events[i] \in Events
    BY <1>10, ElementsInOrder
  <2> QED
    BY <2>1, EventFields, MaxSeqAssumption DEF ToSet
<1> HIDE DEF r, answer, replay
<1>13. Carries(r, answer, Connection \in listeners'[Execution])
  <2>1. answer.sent \in Seq(Events)
    BY <1>9, <1>10, ElementsInOrder
  <2>2. ASSUME r.state # "absent"
        PROVE  /\ InOrder(answer.sent, r.lastSeq)
               /\ \A event \in ToSet(answer.sent) : IsTerminal(event) => event = r.terminal
    BY <1>2, <1>9, <1>10, <1>11, <2>2, HeldTerminal
  <2>3. ASSUME Held(r)
        PROVE  /\ \/ answer.state = "open" /\ Connection \in listeners'[Execution]
                  \/ /\ answer.state = "ended" /\ r.terminal # None
                     /\ answer.sent # <<>> /\ Last(answer.sent) = r.terminal
               /\ ToSet(TextOf(r.events)) \subseteq Chunks(ToSet(answer.sent))
    <3>1. r.state # "absent" /\ ~ r.tombstone /\ r.scopeId = Scope /\ page.resumeAt = 0
          /\ answer.sent = replay
      BY <1>1, <1>9, <1>11, <2>3 DEF Held, Behind
    <3>2. ASSUME r.terminal = None
          PROVE  answer.state = "open" /\ Connection \in listeners'[Execution]
      BY <1>6, <1>8, <1>9, <3>1, <3>2 DEF Finished
    <3>3. ASSUME r.terminal # None
          PROVE  answer.state = "ended" /\ answer.sent # <<>> /\ Last(answer.sent) = r.terminal
      <4>1. /\ r.events # <<>> /\ Last(r.events) = r.terminal
            /\ r.terminal.seq = r.lastSeq /\ r.terminal \in Events
        BY <1>2, <2>3, <3>3, HeldTerminal
      <4>2. r.terminal.seq > 0
        BY <4>1, EventFields, MaxSeqAssumption
      <4> QED
        BY <1>9, <1>10, <3>1, <3>3, <4>1, <4>2 DEF Finished
    <3>4. ToSet(replay) = ToSet(r.events)
      BY <1>10, <1>12, <3>1
    <3> QED
      BY <1>2, <3>1, <3>2, <3>3, <3>4, BufferedText
  <2> QED
    BY <2>1, <2>2, <2>3 DEF Carries
<1>14. HasRead(r, page', answer, preview')
  <2>1. answer.sent \in Seq(Events) /\ Len(answer.sent) \in Nat
    BY <1>13 DEF Carries
  <2>2. \A i \in 1 .. page'.read : FALSE
    BY <1>7
  <2>3. ASSUME Held(r), NEW i \in DOMAIN answer.sent
        PROVE  page'.lastSeq < answer.sent[i].seq
    <3>1. page.resumeAt = 0
      BY <1>1, <2>3 DEF Held, Behind
    <3>2. answer.sent[i] \in Events
      BY <2>1
    <3> QED
      BY <1>7, <3>1, <3>2, EventFields, MaxSeqAssumption
  <2> QED
    BY <1>7, <2>1, <2>2, <2>3 DEF HasRead
<1>15. PageTyped(page') /\ Behind(r, page') /\ Caused(r, page')
  <2>1. PageTyped(page')
    BY <1>1, <1>3, <1>7 DEF PageTyped
  <2>2. Caused(r, page')
    BY <1>7, OutcomeAssumption DEF Caused, Outcomes
  <2>3. Behind(r, page')
    BY <1>1, <1>7 DEF Behind
  <2> QED
    BY <2>1, <2>2, <2>3
<1>16. Shown(r, page', preview')
  BY <1>2, <1>13, <1>14, <1>15, ReadIsShown
<1>17. preview' \in Seq(1 .. MaxSeq)
  BY <1>7 DEF Streaming
<1> QED
  BY <1>5, <1>6, <1>13, <1>14, <1>15, <1>16, <1>17 DEF Streaming

LEMMA PageReads ==
  ASSUME Streaming, ReadEvent
  PROVE  Streaming'
<1> DEFINE r == record
           sent == stream.sent
           next == page.read + 1
<1>1. /\ Followed /\ Stored /\ PageTyped(page) /\ preview \in Seq(1 .. MaxSeq)
      /\ Behind(r, page) /\ Caused(r, page) /\ page.pc = "read" /\ page.outcome = None
      /\ Carries(r, stream, Connection \in listeners[Execution])
      /\ HasRead(r, page, stream, preview)
  BY DEF Streaming, Followed, ReadEvent, PageTyped
<1>2. BufferOK(r) /\ r.lastSeq \in Nat
  BY <1>1, RecordHolds
<1>3. /\ page.read \in Nat /\ sent \in Seq(Events) /\ next \in DOMAIN sent
      /\ DOMAIN sent = 1 .. Len(sent) /\ Len(sent) \in Nat
      /\ page.lastSeq \in Nat /\ page.lastSeq \in 0 .. MaxSeq
  BY <1>1, MaxSeqAssumption DEF PageTyped, Carries, ReadEvent
<1>4. PICK event \in Events : event = sent[next]
  BY <1>3
<1>5. event.seq \in Nat /\ event.seq \in 1 .. MaxSeq
  BY EventFields
<1>6. /\ page' = [page EXCEPT !.read = @ + 1,
                              !.lastSeq = IF event.seq > @ THEN event.seq ELSE @]
      /\ preview' = applyPreview(event)
      /\ records' = records /\ listeners' = listeners /\ streams' = streams
  BY <1>4 DEF ReadEvent
<1>7. Followed'
  <2>1. Stored'
    BY <1>1, <1>6, StoredIsKept DEF StoreSteps
  <2> QED
    BY <1>1, <1>6, <2>1 DEF Followed, Wired
<1>8. record' = r /\ stream' = stream
  BY <1>6 DEF record, stream
<1>9. /\ page'.read = next /\ DOMAIN page' = PageFields /\ page'.pc = "read"
      /\ page'.lastSeq = (IF event.seq > page.lastSeq THEN event.seq ELSE page.lastSeq)
      /\ page'.resumeAt = page.resumeAt /\ page'.outcome = None
      /\ page'.streamFailures = page.streamFailures /\ page'.catchUpSpent = page.catchUpSpent
  BY <1>1, <1>6 DEF PageTyped, PageFields
<1>10. page.lastSeq <= page'.lastSeq /\ event.seq <= page'.lastSeq /\ page'.lastSeq \in 0 .. MaxSeq
       /\ (page.lastSeq < event.seq => page'.lastSeq = event.seq)
  BY <1>3, <1>5, <1>9
<1>11. r.state # "absent" => event.seq <= r.lastSeq
  <2>1. r.state # "absent" => event \in StampedBy(r.lastSeq)
    BY <1>1, <1>3, <1>4, ElementsInOrder DEF Carries
  <2> QED
    BY <2>1 DEF StampedBy
<1>12. /\ preview' \in Seq(1 .. MaxSeq)
       /\ IsPreview(event) => ToSet(event.text) \subseteq ToSet(preview')
       /\ ~ IsTerminal(event) /\ event.type # "output.snapshot" =>
            ToSet(preview) \subseteq ToSet(preview')
  BY <1>1, <1>6, Previewed
<1>13. ASSUME Held(r)
       PROVE  \A i, j \in DOMAIN sent : i < j => Precedes(sent[i], sent[j])
  BY <1>1, <1>13, ElementsInOrder DEF Carries, Held
<1> HIDE DEF r, sent, next
<1>14. HasRead(r, page', stream, preview')
  <2>1. page'.read <= Len(stream.sent)
    BY <1>3, <1>9 DEF sent
  <2>2. ASSUME NEW i \in 1 .. next
        PROVE  sent[i].seq <= page'.lastSeq
    <3>1. CASE i = next
      BY <1>4, <1>10, <3>1
    <3>2. CASE i # next
      <4>1. i \in 1 .. page.read /\ i \in DOMAIN sent
        BY <1>3, <3>2 DEF next
      <4>2. sent[i].seq <= page.lastSeq /\ sent[i].seq \in Nat
        BY <1>1, <1>3, <4>1, EventFields DEF HasRead, sent
      <4> QED
        BY <1>3, <1>10, <4>2
    <3> QED
      BY <3>1, <3>2
  <2>3. ASSUME Held(r), NEW i \in DOMAIN sent, next < i
        PROVE  page'.lastSeq < sent[i].seq
    <3>1. page.lastSeq < event.seq
      <4>1. page.read < next
        BY <1>3 DEF next
      <4> QED
        BY <1>1, <1>3, <1>4, <2>3, <4>1 DEF HasRead, sent
    <3>2. event.seq < sent[i].seq
      BY <1>3, <1>4, <1>13, <2>3 DEF Precedes
    <3> QED
      BY <1>10, <3>1, <3>2
  <2>4. ASSUME Held(r), \A i \in 1 .. next : ~ IsTerminal(sent[i]),
               NEW i \in 1 .. next, IsPreview(sent[i])
        PROVE  ToSet(sent[i].text) \subseteq ToSet(preview')
    <3>1. CASE i = next
      BY <1>4, <1>12, <2>4, <3>1
    <3>2. CASE i # next
      <4>1. i \in 1 .. page.read /\ i \in DOMAIN sent /\ i < next /\ 1 .. page.read \subseteq 1 .. next
            /\ next \in 1 .. next
        BY <1>3, <3>2 DEF next
      <4>2. ToSet(sent[i].text) \subseteq ToSet(preview)
        BY <1>1, <2>4, <4>1 DEF HasRead, sent
      <4>3. Precedes(sent[i], event)
        BY <1>3, <1>4, <1>13, <2>4, <4>1
      <4>4. ~ IsTerminal(event) /\ event.type # "output.snapshot"
        BY <1>4, <2>4, <4>1, <4>3 DEF Precedes
      <4> QED
        BY <1>12, <4>2, <4>4
    <3> QED
      BY <3>1, <3>2
  <2> QED
    BY <1>9, <2>1, <2>2, <2>3, <2>4 DEF HasRead, sent
<1>15. PageTyped(page') /\ Behind(r, page') /\ Caused(r, page')
  <2>1. PageTyped(page')
    BY <1>1, <1>3, <1>9, <1>10 DEF PageTyped, next
  <2>2. Caused(r, page')
    BY <1>9, OutcomeAssumption DEF Caused, Outcomes
  <2>3. Behind(r, page')
    BY <1>1, <1>9, <1>10, <1>11 DEF Behind
  <2> QED
    BY <2>1, <2>2, <2>3
<1>16. Shown(r, page', preview')
  BY <1>1, <1>2, <1>14, <1>15, ReadIsShown
<1>17. Carries(r, stream, Connection \in listeners'[Execution])
  BY <1>1, <1>6
<1> QED
  BY <1>7, <1>8, <1>12, <1>14, <1>15, <1>16, <1>17 DEF Streaming

\* A step of the page that leaves its cursor and its preview alone and reads nothing after.
LEMMA PageMoves ==
  ASSUME Streaming, Followed', records' = records, preview' = preview,
         page'.pc # "read", page'.lastSeq = page.lastSeq,
         PageTyped(page'), Behind(record, page'), Caused(record, page')
  PROVE  Streaming'
<1>1. record' = record
  BY DEF record
<1> QED
  BY <1>1 DEF Streaming, Shown

LEMMA ConnectionFails ==
  ASSUME Streaming, ConnectFails \/ StreamBreaks
  PROVE  Streaming'
<1>1. Followed /\ PageTyped(page) /\ Behind(record, page) /\ Stored
  BY DEF Streaming, Followed
<1>2. page.pc \in {"connect", "read"} /\ page' = StreamFailed /\ records' = records /\ preview' = preview
  BY DEF ConnectFails, StreamBreaks
<1>3. Followed'
  <2>1. CASE ConnectFails
    <3>1. Stored'
      BY <1>1, <1>2, StoredIsKept DEF StoreSteps
    <3> QED
      BY <1>1, <2>1, <3>1 DEF ConnectFails, Followed, Wired
  <2>2. CASE StreamBreaks
    BY <1>1, <2>2, DisconnectKeepsFollowers DEF StreamBreaks
  <2> QED
    BY <2>1, <2>2
<1>4. /\ page'.pc = "check" /\ page'.lastSeq = page.lastSeq /\ page'.resumeAt = page.resumeAt
      /\ page'.read = 0 /\ page'.streamFailures = page.streamFailures + 1
      /\ page'.outcome = None /\ page'.catchUpSpent = page.catchUpSpent /\ DOMAIN page' = PageFields
  BY <1>1, <1>2 DEF StreamFailed, PageTyped, PageFields
<1>5. PageTyped(page')
  BY <1>1, <1>4 DEF PageTyped
<1>6. Behind(record, page')
  BY <1>1, <1>2, <1>4 DEF Behind, PageTyped
<1>7. Caused(record, page')
  BY <1>4, OutcomeAssumption DEF Caused, Outcomes
<1> QED
  BY <1>2, <1>3, <1>4, <1>5, <1>6, <1>7, PageMoves

\* The body is over.  While the Host holds the record, the body ended with its terminal.
LEMMA BodyEnds ==
  ASSUME Streaming, StreamEnds
  PROVE  Streaming'
<1> DEFINE r == record
           sent == stream.sent
<1>1. /\ Followed /\ Stored /\ PageTyped(page) /\ Behind(r, page) /\ page.outcome = None
      /\ Carries(r, stream, Connection \in listeners[Execution])
      /\ HasRead(r, page, stream, preview)
  BY DEF Streaming, Followed, StreamEnds, PageTyped
<1>2. BufferOK(r) /\ r.lastSeq \in Nat
  BY <1>1, RecordHolds
<1>3. /\ stream.state = "ended" /\ page.read = Len(sent) /\ records' = records
      /\ preview' = preview /\ Disconnected
  BY DEF StreamEnds
<1>4. Followed'
  BY <1>1, <1>3, DisconnectKeepsFollowers
<1>5. page.lastSeq \in Nat /\ page.lastSeq \in 0 .. MaxSeq /\ sent \in Seq(Events)
  BY <1>1, MaxSeqAssumption DEF PageTyped, Carries
<1>6. CASE sent # <<>> /\ IsTerminal(Last(sent))
  <2>1. page' = Done("terminal")
    BY <1>6 DEF StreamEnds
  <2>2. /\ page'.pc = "done" /\ page'.outcome = "terminal" /\ page'.lastSeq = page.lastSeq
        /\ page'.resumeAt = page.resumeAt /\ page'.read = page.read
        /\ page'.streamFailures = page.streamFailures /\ DOMAIN page' = PageFields
    BY <1>1, <2>1 DEF Done, PageTyped, PageFields
  <2>3. Caused(r, page')
    <3> SUFFICES ASSUME r.state # "absent"
                 PROVE  Finished(r) /\ page.lastSeq = r.terminal.seq
      BY <2>2 DEF Caused
    <3>1. Len(sent) \in DOMAIN sent /\ Len(sent) \in 1 .. page.read /\ Last(sent) = sent[Len(sent)]
      BY <1>3, <1>5, <1>6 DEF Last
    <3>2. Last(sent) = r.terminal /\ Last(sent) \in Events
      BY <1>1, <1>5, <1>6, <3>1 DEF Carries, ToSet
    <3>3. r.terminal # None
      BY <3>2, NoneAssumption
    <3>4. r.terminal.seq = r.lastSeq
      BY <1>2, <3>3 DEF BufferOK, Terminated
    <3>5. r.lastSeq <= page.lastSeq
      BY <1>1, <3>1, <3>2, <3>4 DEF HasRead
    <3>6. page.lastSeq <= r.lastSeq
      BY <1>1 DEF Behind
    <3> QED
      BY <1>2, <1>5, <3>3, <3>4, <3>5, <3>6 DEF Finished
  <2>4. PageTyped(page')
    BY <1>1, <2>2 DEF PageTyped
  <2>5. Behind(r, page')
    BY <1>1, <2>2 DEF Behind
  <2> QED
    BY <1>3, <1>4, <2>2, <2>3, <2>4, <2>5, PageMoves
<1>7. CASE ~ (sent # <<>> /\ IsTerminal(Last(sent)))
  <2>1. ~ Held(r)
    <3> SUFFICES ASSUME Held(r) PROVE FALSE
      OBVIOUS
    <3>1. r.terminal # None /\ sent # <<>> /\ Last(sent) = r.terminal
      BY <1>1, <1>3 DEF Carries
    <3>2. IsTerminal(r.terminal)
      BY <1>2, <3>1, HeldTerminal
    <3> QED
      BY <1>7, <3>1, <3>2
  <2>2. page' = [page EXCEPT !.pc = "check", !.read = 0, !.streamFailures = 0,
                             !.progressed = page.lastSeq > page.resumeAt,
                             !.resumeAt = page.lastSeq]
    BY <1>7 DEF StreamEnds
  <2>3. /\ page'.pc = "check" /\ page'.outcome = None /\ page'.lastSeq = page.lastSeq
        /\ page'.resumeAt = page.lastSeq /\ page'.read = 0
        /\ page'.streamFailures = 0 /\ DOMAIN page' = PageFields
    BY <1>1, <2>2 DEF PageTyped, PageFields
  <2>4. PageTyped(page')
    BY <1>1, <1>5, <2>3 DEF PageTyped
  <2>5. Behind(r, page')
    BY <1>1, <2>1, <2>3 DEF Behind, Held
  <2>6. Caused(r, page')
    BY <2>3, OutcomeAssumption DEF Caused, Outcomes
  <2> QED
    BY <1>3, <1>4, <2>3, <2>4, <2>5, <2>6, PageMoves
<1> QED
  BY <1>6, <1>7

\* The status request: a finished execution that the Host holds is worth one more connection.
LEMMA StatusAnswers ==
  ASSUME Streaming, Status
  PROVE  Streaming'
<1>1. /\ Followed /\ Stored /\ PageTyped(page) /\ Behind(record, page) /\ page.outcome = None
      /\ page.pc = "check"
  BY DEF Streaming, Followed, Status, CheckStatus, StatusNotFound, StatusFails, PageTyped
<1>2. BufferOK(record) /\ Consistent(record) /\ record.lastSeq \in Nat
  BY <1>1, RecordHolds
<1>3. records' = records /\ listeners' = listeners /\ streams' = streams /\ preview' = preview
  BY DEF Status, CheckStatus, StatusNotFound, StatusFails
<1>4. Followed'
  <2>1. Stored'
    BY <1>1, <1>3, StoredIsKept DEF StoreSteps
  <2> QED
    BY <1>1, <1>3, <2>1 DEF Followed, Wired
<1>5. /\ DOMAIN page = PageFields /\ page.streamFailures \in Nat
      /\ Held(record) /\ page.catchUpSpent => page.streamFailures >= 2
      /\ Held(record) => page.streamFailures >= 1
  BY <1>1 DEF PageTyped, Behind, Held
<1>6. Has(Execution) <=> record.state # "absent"
  BY DEF Has, record
\* The page stops with this outcome, or connects again.
<1>7. ASSUME NEW outcome, page'.pc = "done", page'.outcome = outcome, Caused(record, page'),
             page'.lastSeq = page.lastSeq, page'.resumeAt = page.resumeAt, page'.read = page.read,
             page'.streamFailures = page.streamFailures, DOMAIN page' = PageFields
      PROVE  Streaming'
  <2>1. PageTyped(page')
    BY <1>1, <1>7 DEF PageTyped
  <2>2. Behind(record, page')
    BY <1>1, <1>7 DEF Behind
  <2> QED
    BY <1>3, <1>4, <1>7, <2>1, <2>2, PageMoves
<1>8. ASSUME page'.pc = "connect", page'.outcome = None,
             page'.lastSeq = page.lastSeq, page'.resumeAt = page.resumeAt, page'.read = page.read,
             page'.streamFailures = page.streamFailures, DOMAIN page' = PageFields
      PROVE  Streaming'
  <2>1. PageTyped(page')
    BY <1>1, <1>8 DEF PageTyped
  <2>2. Behind(record, page')
    BY <1>1, <1>5, <1>8 DEF Behind, Held
  <2>3. Caused(record, page')
    BY <1>8, OutcomeAssumption DEF Caused, Outcomes
  <2> QED
    BY <1>3, <1>4, <1>8, <2>1, <2>2, <2>3, PageMoves
<1>9. CASE CheckStatus
  <2>1. CASE page.streamFailures >= 2
    <3>1. page' = [Done("abandoned") EXCEPT !.statusFailures = 0]
      BY <1>9, <2>1 DEF CheckStatus
    <3>2. /\ page'.pc = "done" /\ page'.outcome = "abandoned" /\ page'.lastSeq = page.lastSeq
          /\ page'.resumeAt = page.resumeAt /\ page'.read = page.read
          /\ page'.streamFailures = page.streamFailures /\ DOMAIN page' = PageFields
      BY <1>5, <3>1 DEF Done, PageFields
    <3> QED
      BY <1>7, <3>2 DEF Caused
  <2>2. CASE ~ (page.streamFailures >= 2) /\ decideFollowAfterClose.action = "reconnect"
    <3>1. page' = [page EXCEPT !.pc = "connect", !.statusFailures = 0,
                               !.catchUpSpent = decideFollowAfterClose.catchUpSpent]
      BY <1>9, <2>2 DEF CheckStatus
    <3>2. /\ page'.pc = "connect" /\ page'.outcome = None /\ page'.lastSeq = page.lastSeq
          /\ page'.resumeAt = page.resumeAt /\ page'.read = page.read
          /\ page'.streamFailures = page.streamFailures /\ DOMAIN page' = PageFields
      BY <1>1, <1>5, <3>1 DEF PageFields
    <3> QED
      BY <1>8, <3>2
  <2>3. CASE ~ (page.streamFailures >= 2) /\ decideFollowAfterClose.action # "reconnect"
    <3>1. page' = [Done("exhausted") EXCEPT !.statusFailures = 0]
      BY <1>9, <2>3 DEF CheckStatus
    <3>2. /\ page'.pc = "done" /\ page'.outcome = "exhausted" /\ page'.lastSeq = page.lastSeq
          /\ page'.resumeAt = page.resumeAt /\ page'.read = page.read
          /\ page'.streamFailures = page.streamFailures /\ DOMAIN page' = PageFields
      BY <1>5, <3>1 DEF Done, PageFields
    <3>3. ~ Held(record)
      <4> SUFFICES ASSUME Held(record) PROVE FALSE
        OBVIOUS
      <4>1. record.state # "running" /\ (Ahead => page.catchUpSpent)
        BY <2>3 DEF decideFollowAfterClose
      <4>2. record.terminal # None
        BY <1>2, <4>1 DEF Consistent, Held
      <4>3. record.terminal.seq = record.lastSeq /\ record.terminal \in Events
        BY <1>2, <4>2, HeldTerminal
      <4>4. record.lastSeq >= 1
        BY <4>3, EventFields, MaxSeqAssumption
      <4>5. Ahead
        BY <1>1, <1>2, <4>4 DEF Ahead, Behind, Held
      <4> QED
        BY <1>5, <2>3, <4>1, <4>5
    <3> QED
      BY <1>7, <3>2, <3>3 DEF Caused
  <2> QED
    BY <2>1, <2>2, <2>3
<1>10. CASE StatusNotFound
  <2>1. page' = Done("lost") /\ record.state = "absent"
    BY <1>1, <1>6, <1>10 DEF StatusNotFound, Behind
  <2>2. /\ page'.pc = "done" /\ page'.outcome = "lost" /\ page'.lastSeq = page.lastSeq
        /\ page'.resumeAt = page.resumeAt /\ page'.read = page.read
        /\ page'.streamFailures = page.streamFailures /\ DOMAIN page' = PageFields
    BY <1>5, <2>1 DEF Done, PageFields
  <2> QED
    BY <1>7, <2>1, <2>2 DEF Caused
<1>11. CASE StatusFails
  <2>1. CASE page.statusFailures = 0
    <3>1. page' = [page EXCEPT !.pc = "connect", !.statusFailures = 1]
      BY <1>11, <2>1 DEF StatusFails
    <3>2. /\ page'.pc = "connect" /\ page'.outcome = None /\ page'.lastSeq = page.lastSeq
          /\ page'.resumeAt = page.resumeAt /\ page'.read = page.read
          /\ page'.streamFailures = page.streamFailures /\ DOMAIN page' = PageFields
      BY <1>1, <1>5, <3>1 DEF PageFields
    <3> QED
      BY <1>8, <3>2
  <2>2. CASE page.statusFailures # 0
    <3>1. page' = [Done("abandoned") EXCEPT !.statusFailures = 2]
      BY <1>11, <2>2 DEF StatusFails
    <3>2. /\ page'.pc = "done" /\ page'.outcome = "abandoned" /\ page'.lastSeq = page.lastSeq
          /\ page'.resumeAt = page.resumeAt /\ page'.read = page.read
          /\ page'.streamFailures = page.streamFailures /\ DOMAIN page' = PageFields
      BY <1>5, <3>1 DEF Done, PageFields
    <3> QED
      BY <1>7, <3>2 DEF Caused
  <2> QED
    BY <2>1, <2>2
<1> QED
  BY <1>9, <1>10, <1>11 DEF Status

-----------------------------------------------------------------------------
(* What a step of the Host does to the invariant.                          *)

\* The Host releases what it held of the turn, or has done so before.
LEMMA TurnIsReleased ==
  ASSUME Streaming, Followed', Unchanged, stream'.sent = stream.sent, ~ Held(record'),
         \/ record'.state = "absent"
         \/ /\ record.state # "absent" /\ record'.state # "absent"
            /\ record'.lastSeq = record.lastSeq /\ record'.scopeId = record.scopeId
            /\ record'.terminal = record.terminal
  PROVE  Streaming'
<1>1. page' = page /\ preview' = preview
  BY DEF Unchanged
<1>2. Behind(record, page) /\ Caused(record, page) /\ PageTyped(page) /\ preview \in Seq(1 .. MaxSeq)
  BY DEF Streaming
<1>3. Behind(record', page)
  BY <1>2 DEF Behind, Held
<1>4. Caused(record', page)
  BY <1>2 DEF Caused, Held, Finished
<1>5. Shown(record', page, preview)
  BY DEF Shown
<1>6. ASSUME page.pc = "read"
      PROVE  /\ Carries(record', stream', Connection \in listeners'[Execution])
             /\ HasRead(record', page, stream', preview)
  <2>1. /\ Carries(record, stream, Connection \in listeners[Execution])
        /\ HasRead(record, page, stream, preview)
    BY <1>6 DEF Streaming
  <2> QED
    BY <2>1 DEF Carries, HasRead
<1> QED
  BY <1>1, <1>2, <1>3, <1>4, <1>5, <1>6 DEF Streaming

LEMMA DriverKeepsThePage ==
  ASSUME Streaming, DriverEmits
  PROVE  Streaming'
<1> DEFINE sent == stream.sent
           n == record.lastSeq
<1>1. PICK type \in DriverTypes : emit(Execution, type) /\ Unchanged
  BY DEF DriverEmits
<1>2. /\ Followed /\ Stored /\ Wired /\ PageTyped(page) /\ preview \in Seq(1 .. MaxSeq)
      /\ Behind(record, page) /\ Caused(record, page) /\ Shown(record, page, preview)
      /\ Execution \in ExecutionIds /\ Connection \in Connections
  BY FollowerAssumption DEF Streaming, Followed
<1>3. BufferOK(record) /\ n \in Nat /\ n < MaxSeq /\ page.lastSeq \in Nat
  BY <1>1, <1>2, RecordHolds, MaxSeqAssumption DEF emit, record, PageTyped
<1>4. Followed' /\ page' = page /\ preview' = preview
  BY <1>1, <1>2, EmitKeepsFollowers DEF Unchanged
<1>5. PICK event : event = Stamp(records[Execution], type)
  OBVIOUS
<1>6. /\ event \in Events /\ event.seq = n + 1 /\ record'.lastSeq = n + 1
      /\ event.type # "output.snapshot" /\ event.text \in {<<>>, <<n + 1>>}
      /\ record.terminal = None /\ ~ record'.tombstone
      /\ record'.terminal = IF IsTerminal(event) THEN event ELSE None
      /\ record'.scopeId = record.scopeId
      /\ ToSet(TextOf(record'.events)) \subseteq ToSet(TextOf(record.events)) \cup ToSet(event.text)
  BY <1>1, <1>2, <1>5, EmittedBuffer DEF record
<1>7. Held(record) /\ Held(record') /\ ~ Finished(record)
  <2>1. records[Execution].state = "running" /\ records'[Execution].state \in {"running"} \cup TerminalTypes
    BY <1>1, <1>2, EmittedRecord DEF Stored
  <2>2. ~ records[Execution].tombstone
    BY <1>1 DEF emit, CanEmit
  <2> QED
    BY <1>6, <2>1, <2>2 DEF Held, Finished, record, TerminalTypes
<1>8. event.text # <<>> => IsPreview(event)
  BY <1>5 DEF Stamp, IsPreview, TerminalTypes
<1>9. ToSet(event.text) \subseteq {n + 1}
  BY <1>6 DEF ToSet
<1> HIDE DEF sent, n
<1>10. Behind(record', page)
  <2>1. n = record.lastSeq /\ page.resumeAt \in Nat
    BY <1>2, MaxSeqAssumption DEF n, PageTyped
  <2> QED
    BY <1>2, <1>3, <1>6, <1>7, <2>1 DEF Behind, Held
<1>11. Caused(record', page)
  BY <1>2, <1>7 DEF Caused, Held
<1>12. Shown(record', page, preview)
  <2>1. ASSUME NEW chunk \in ToSet(TextOf(record'.events)), chunk <= page.lastSeq
        PROVE  chunk \in ToSet(preview)
    <3>1. page.lastSeq <= n
      BY <1>2, <1>7 DEF Behind, Held, n
    <3>2. chunk # n + 1
      BY <1>3, <2>1, <3>1
    <3>3. chunk \in ToSet(TextOf(record.events))
      BY <1>6, <1>9, <2>1, <3>2
    <3> QED
      BY <1>2, <1>6, <1>7, <2>1, <3>3 DEF Shown
  <2> QED
    BY <2>1 DEF Shown
<1>13. ASSUME page.pc = "read"
       PROVE  /\ Carries(record', stream', Connection \in listeners'[Execution])
              /\ HasRead(record', page, stream', preview)
  <2>1. /\ Carries(record, stream, Connection \in listeners[Execution])
        /\ HasRead(record, page, stream, preview)
    BY <1>13 DEF Streaming
  <2>2. stream.state = "open" /\ Connection \in listeners[Execution]
    BY <1>6, <1>7, <2>1 DEF Carries
  <2>3. FollowerOK(record, stream, Execution) /\ DOMAIN stream = StreamFields
    BY <1>2, <2>2 DEF Followed, Wired, record, stream
  <2>4. InOrder(sent, n) /\ Unfinished(sent) /\ sent \in Seq(Events)
    BY <2>3, ElementsInOrder DEF FollowerOK, sent, n
  <2>5. /\ stream' = [stream EXCEPT !.sent = Append(@, event),
                                    !.state = IF IsTerminal(event) THEN "ended" ELSE @]
        /\ listeners' = [listeners EXCEPT ![Execution] = IF IsTerminal(event) THEN {} ELSE @]
    BY <1>1, <1>2, <1>5, <2>2 DEF emit, Notified, stream
  <2>6. /\ stream'.sent = Append(sent, event)
        /\ stream'.state = IF IsTerminal(event) THEN "ended" ELSE "open"
        /\ ~ IsTerminal(event) => Connection \in listeners'[Execution]
    BY <1>2, <2>2, <2>3, <2>5 DEF StreamFields, sent, Wired
  <2>7. InOrder(stream'.sent, n + 1)
    <3>1. /\ event \in Events /\ event.seq = n + 1 /\ event.type # "output.snapshot"
          /\ event.text \in {<<>>, <<n + 1>>} /\ n + 1 <= MaxSeq
      BY <1>3, <1>6, MaxSeqAssumption
    <3>2. InOrder(Append(sent, event), n + 1)
      BY <1>3, <2>4, <3>1, AppendInOrder
    <3> QED
      BY <2>6, <3>2
  <2>8. ToSet(stream'.sent) = ToSet(sent) \cup {event} /\ stream'.sent \in Seq(Events)
    BY <1>6, <2>4, <2>6, AppendElements
  <2>9. stream'.sent # <<>> /\ Last(stream'.sent) = event
    BY <1>6, <2>4, <2>6, AppendElements
  <2>10. \A x \in ToSet(sent) : ~ IsTerminal(x)
    BY <2>4 DEF Unfinished, ToSet
  <2>11. event # None
    BY <1>6, NoneAssumption
  <2>12. ToSet(TextOf(record'.events)) \subseteq Chunks(ToSet(stream'.sent))
    <3>1. ToSet(TextOf(record.events)) \subseteq Chunks(ToSet(sent))
      BY <1>7, <2>1 DEF Carries, sent
    <3>2. Chunks(ToSet(sent)) \subseteq Chunks(ToSet(stream'.sent))
      BY <2>8 DEF Chunks
    <3>3. ToSet(event.text) \subseteq Chunks(ToSet(stream'.sent))
      <4>1. CASE event.text = <<>>
        BY <4>1 DEF ToSet
      <4>2. CASE event.text # <<>>
        BY <1>8, <2>8, <4>2 DEF Chunks
      <4> QED
        BY <4>1, <4>2
    <3> QED
      BY <1>6, <3>1, <3>2, <3>3
  <2>13. Carries(record', stream', Connection \in listeners'[Execution])
    <3>1. InOrder(stream'.sent, record'.lastSeq)
      BY <1>6, <2>7
    <3>2. \A x \in ToSet(stream'.sent) : IsTerminal(x) => x = record'.terminal
      BY <1>6, <2>8, <2>10
    <3>3. \/ stream'.state = "open" /\ Connection \in listeners'[Execution]
          \/ /\ stream'.state = "ended" /\ record'.terminal # None
             /\ stream'.sent # <<>> /\ Last(stream'.sent) = record'.terminal
      BY <1>6, <2>6, <2>9, <2>11
    <3> QED
      BY <2>8, <2>12, <3>1, <3>2, <3>3 DEF Carries
  <2>14. HasRead(record', page, stream', preview)
    <3>1. /\ Len(sent) \in Nat /\ DOMAIN sent = 1 .. Len(sent) /\ Len(stream'.sent) = Len(sent) + 1
          /\ DOMAIN stream'.sent = 1 .. Len(sent) + 1
          /\ \A i \in DOMAIN sent : stream'.sent[i] = sent[i]
          /\ stream'.sent[Len(sent) + 1] = event
      BY <1>6, <2>4, <2>6
    <3>2. page.read \in Nat /\ page.read <= Len(sent) /\ 1 .. page.read \subseteq DOMAIN sent
      BY <1>2, <2>1, <3>1 DEF HasRead, PageTyped, sent
    <3>3. page.read <= Len(stream'.sent)
      BY <3>1, <3>2
    <3>4. \A i \in 1 .. page.read : stream'.sent[i] = sent[i]
      BY <3>1, <3>2
    <3>5. /\ \A i \in 1 .. page.read : sent[i].seq <= page.lastSeq
          /\ \A i \in DOMAIN sent : page.read < i => page.lastSeq < sent[i].seq
          /\ (\A i \in 1 .. page.read : ~ IsTerminal(sent[i])) =>
               \A i \in 1 .. page.read : IsPreview(sent[i]) => ToSet(sent[i].text) \subseteq ToSet(preview)
      BY <1>7, <2>1 DEF HasRead, sent
    <3>6. page.lastSeq < event.seq
      <4>1. page.lastSeq <= n
        BY <1>2, <1>7 DEF Behind, Held, n
      <4> QED
        BY <1>3, <1>6, <4>1
    <3>7. \A i \in DOMAIN stream'.sent : page.read < i => page.lastSeq < stream'.sent[i].seq
      <4>1. \A i \in DOMAIN stream'.sent : i \in DOMAIN sent \/ i = Len(sent) + 1
        BY <3>1
      <4> QED
        BY <3>1, <3>5, <3>6, <4>1
    <3> QED
      BY <3>3, <3>4, <3>5, <3>7 DEF HasRead
  <2> QED
    BY <2>13, <2>14
<1> QED
  BY <1>2, <1>4, <1>10, <1>11, <1>12, <1>13 DEF Streaming

LEMMA HostKeepsThePage ==
  ASSUME Streaming, Host
  PROVE  Streaming'
<1>1. /\ Followed /\ Stored /\ Story /\ Behind(record, page) /\ Execution \in ExecutionIds
      /\ Followed' /\ Unchanged
  BY HostKeepsFollowers, FollowerAssumption DEF Streaming, Followed, Stored
<1>2. CASE DriverEmits
  BY <1>2, DriverKeepsThePage
<1>3. CASE OthersAck
  <2>1. PICK d \in Dispositions : record.terminal # None /\ ack(Execution, record.terminal.seq, d)
    BY <1>3 DEF OthersAck
  <2>2. PICK seq : seq = record.terminal.seq
    OBVIOUS
  <2>3. ack(Execution, seq, d)
    BY <2>1, <2>2
  <2>4. /\ record'.tombstone /\ record'.terminal = record.terminal
        /\ record'.lastSeq = record.lastSeq /\ record'.scopeId = record.scopeId
        /\ record'.state = record.state
    BY <1>1, <2>3, AcknowledgedBuffer DEF record
  <2>5. record.state # "absent"
    BY <1>1, <2>1, RecordHolds DEF Consistent
  <2>6. stream'.sent = stream.sent
    BY <2>1 DEF ack, stream
  <2> QED
    BY <1>1, <2>4, <2>5, <2>6, TurnIsReleased DEF Held
<1>4. CASE CloseScope
  <2>1. record'.state = "absent"
    BY <1>1, <1>4 DEF CloseScope, releaseScope, record, Behind, NoRecord
  <2>2. stream'.sent = stream.sent
    BY <1>4 DEF CloseScope, releaseScope, stream
  <2> QED
    BY <1>1, <2>1, <2>2, TurnIsReleased DEF Held
<1>5. CASE HostRestarts
  <2>1. record'.state = "absent" /\ stream'.sent = stream.sent
    BY <1>1, <1>5, RestartKeepsFollowers
  <2> QED
    BY <1>1, <2>1, TurnIsReleased DEF Held
<1> QED
  BY <1>2, <1>3, <1>4, <1>5 DEF Host

LEMMA StreamingIsKept == Streaming /\ [StreamNext]_streamVars => Streaming'
<1>1. ASSUME Streaming, UNCHANGED streamVars
      PROVE  Streaming'
  <2>1. Followed /\ UNCHANGED <<records, listeners, streams, page, preview>>
    BY <1>1 DEF Streaming, streamVars
  <2>2. Stored'
    BY <2>1, StoredIsKept DEF StoreSteps, Followed
  <2>3. Followed'
    BY <2>1, <2>2 DEF Followed, Wired
  <2> QED
    BY <1>1, <2>1, <2>3 DEF Streaming, record, stream
<1>2. ASSUME Streaming, Follow \/ StreamBreaks
      PROVE  Streaming'
  BY <1>2, ConnectedPage, PageReads, BodyEnds, ConnectionFails DEF Follow, SeeBroken
<1> QED
  BY <1>1, <1>2, StatusAnswers, HostKeepsThePage DEF StreamNext

LEMMA StreamingAtFirst == StreamInit => Streaming
<1> SUFFICES ASSUME StreamInit PROVE Streaming
  OBVIOUS
<1>1. Execution \in ExecutionIds /\ MaxSeq \in Nat
  BY FollowerAssumption, MaxSeqAssumption
<1> DEFINE begun == [NoRecord EXCEPT !.state = "running", !.scopeId = Scope]
<1>2. Consistent(NoRecord) /\ BufferOK(NoRecord) /\ Consistent(begun) /\ BufferOK(begun)
  BY FreshRecord, FreshBuffer
<1>3. record = begun
  BY <1>1 DEF StreamInit, record
<1>4. /\ begun.lastSeq = 0 /\ begun.scopeId = Scope /\ begun.state = "running"
      /\ ~ begun.tombstone /\ begun.events = <<>>
  BY DEF NoRecord
<1>5. records = [e \in ExecutionIds |-> IF e = Execution THEN begun ELSE NoRecord]
  BY DEF StreamInit
<1> HIDE DEF begun
<1>6. Stored
  BY <1>2, <1>5 DEF Stored, Story
<1>7. Followed
  BY <1>6 DEF StreamInit, Followed, Wired, NoStream, StreamFields
<1>8. /\ page.pc = "connect" /\ page.resumeAt = 0 /\ page.lastSeq = 0 /\ page.read = 0
      /\ page.streamFailures = 0 /\ ~ page.catchUpSpent /\ page.outcome = None
      /\ DOMAIN page = PageFields /\ preview = <<>>
  BY DEF StreamInit, PageFields
<1>9. PageTyped(page)
  BY <1>1, <1>8 DEF PageTyped
<1>10. Behind(record, page)
  BY <1>3, <1>4, <1>8 DEF Behind
<1>11. Caused(record, page)
  BY <1>8, OutcomeAssumption DEF Caused, Outcomes
<1>12. Shown(record, page, preview)
  <2>1. ToSet(TextOf(record.events)) = Chunks(ToSet(record.events)) /\ ToSet(record.events) = {}
    <3>1. record.lastSeq \in Nat
      BY <1>3, <1>4
    <3>2. BufferOK(record)
      BY <1>2, <1>3
    <3>3. ToSet(TextOf(record.events)) = Chunks(ToSet(record.events))
      BY <3>1, <3>2, BufferedText
    <3>4. record.events = <<>>
      BY <1>3, <1>4
    <3> QED
      BY <3>3, <3>4 DEF ToSet
  <2> QED
    BY <2>1 DEF Shown, Chunks
<1> QED
  BY <1>7, <1>8, <1>9, <1>10, <1>11, <1>12 DEF Streaming

\* In every reachable state of a page that follows its turn, with the network, the other pages
\* and the Host doing as they please, its connection carries what the Host buffers, its cursor
\* never passes the record, and a response the Host still answers for ended with its terminal.
THEOREM StreamsAreFollowed == StreamSpec => []Streaming
BY StreamingAtFirst, StreamingIsKept, PTL DEF StreamSpec

\* The page gives a turn up as exhausted only when an ACK has released its terminal, as lost only
\* when the Host has forgotten it, and what it takes for the terminal is the one the Host holds
\* (driveToTerminal, decideFollowAfterClose).
THEOREM FollowerStopsForCause == StreamSpec => []StopsForCause
<1>1. Streaming => StopsForCause
  BY DEF Streaming, Caused, Held, StopsForCause, Has, record
<1> QED
  BY <1>1, StreamsAreFollowed, PTL

\* Until its terminal comes, the preview shows every chunk the Host still buffers up to the
\* page's cursor: replacing it by a snapshot takes no text away (applyPreview, bufferEvent).
THEOREM PreviewsLoseNothing == StreamSpec => []PreviewShowsTheBuffer
<1>1. ASSUME Streaming, ~ (Finished(record) /\ page.lastSeq >= record.lastSeq),
             NEW chunk \in ToSet(TextOf(record.events)), chunk <= page.lastSeq
      PROVE  chunk \in ToSet(preview)
  <2>1. Stored /\ PageTyped(page) /\ Shown(record, page, preview)
    BY <1>1 DEF Streaming, Followed
  <2>2. BufferOK(record) /\ record.lastSeq \in Nat /\ page.lastSeq \in Nat
    BY <2>1, RecordHolds, MaxSeqAssumption DEF PageTyped
  <2>3. Held(record)
    BY <1>1, <2>2, BufferedText
  <2>4. record.terminal = None \/ page.lastSeq < record.lastSeq
    BY <1>1, <2>2 DEF Finished
  <2> QED
    BY <1>1, <2>1, <2>3, <2>4 DEF Shown
<1>2. Streaming => PreviewShowsTheBuffer
  BY <1>1 DEF PreviewShowsTheBuffer
<1> QED
  BY <1>2, StreamsAreFollowed, PTL

=============================================================================
