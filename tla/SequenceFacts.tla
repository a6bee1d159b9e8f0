--------------------------- MODULE SequenceFacts ---------------------------
(* What the operators on queues, lists of subscribers and histories do to   *)
(* the elements of a sequence and to their being distinct; the least element *)
(* of a set of numbers.                                                     *)
EXTENDS SequencesExt, SequenceTheorems, FiniteSetTheorems, WellFoundedInduction, TLAPS

(* An element put at the end of a queue: what stays, and when it stays       *)
(* without repetitions.                                                      *)
LEMMA AppendFacts ==
  ASSUME NEW S, NEW q \in Seq(S), NEW e \in S
  PROVE  /\ Append(q, e) \in Seq(S)
         /\ Len(Append(q, e)) = Len(q) + 1
         /\ \A i \in 1..Len(q) : Append(q, e)[i] = q[i]
         /\ Append(q, e)[Len(q) + 1] = e
         /\ ToSet(Append(q, e)) = ToSet(q) \cup {e}
         /\ IsInjective(q) /\ e \notin ToSet(q) => IsInjective(Append(q, e))
<1>1. /\ Append(q, e) \in Seq(S)
      /\ Len(Append(q, e)) = Len(q) + 1
      /\ \A i \in 1..Len(q) : Append(q, e)[i] = q[i]
      /\ Append(q, e)[Len(q) + 1] = e
  OBVIOUS
<1>2. /\ DOMAIN q = 1..Len(q) /\ DOMAIN Append(q, e) = 1..(Len(q) + 1)
      /\ Len(q) \in Nat
  OBVIOUS
<1>3. ToSet(Append(q, e)) = ToSet(q) \cup {e}
  BY <1>1, <1>2 DEF ToSet
<1>4. ASSUME IsInjective(q), e \notin ToSet(q) PROVE IsInjective(Append(q, e))
  BY <1>1, <1>2, <1>4 DEF ToSet, IsInjective
<1> QED
  BY <1>1, <1>3, <1>4

(* What is left of a queue when its oldest element is taken.                 *)
LEMMA TailFacts ==
  ASSUME NEW S, NEW q \in Seq(S), q # <<>>
  PROVE  /\ Head(q) \in S /\ Head(q) = q[1] /\ Len(q) >= 1
         /\ Tail(q) \in Seq(S)
         /\ Len(Tail(q)) = Len(q) - 1
         /\ \A i \in 1..(Len(q) - 1) : Tail(q)[i] = q[i + 1]
         /\ ToSet(q) = {Head(q)} \cup ToSet(Tail(q))
         /\ IsInjective(q) => IsInjective(Tail(q)) /\ Head(q) \notin ToSet(Tail(q))
<1>1. /\ Head(q) \in S /\ Head(q) = q[1] /\ Len(q) >= 1 /\ Len(q) \in Nat
      /\ Tail(q) \in Seq(S)
      /\ Len(Tail(q)) = Len(q) - 1
      /\ \A i \in 1..(Len(q) - 1) : Tail(q)[i] = q[i + 1]
  BY HeadTailProperties, EmptySeq
<1>2. DOMAIN q = 1..Len(q) /\ DOMAIN Tail(q) = 1..(Len(q) - 1)
  BY <1>1
<1>3. ToSet(q) = {Head(q)} \cup ToSet(Tail(q))
  <2>1. \A i \in 1..Len(q) : i = 1 \/ (i - 1 \in 1..(Len(q) - 1) /\ q[i] = Tail(q)[i - 1])
    BY <1>1
  <2>2. ToSet(q) \subseteq {Head(q)} \cup ToSet(Tail(q))
    <3> SUFFICES ASSUME NEW i \in 1..Len(q) PROVE q[i] \in {Head(q)} \cup ToSet(Tail(q))
      BY <1>2 DEF ToSet
    <3>1. CASE i = 1
      BY <1>1, <3>1
    <3>2. CASE i # 1
      <4>1. i - 1 \in 1..(Len(q) - 1) /\ q[i] = Tail(q)[i - 1]
        BY <2>1, <3>2
      <4> QED
        BY <1>2, <4>1 DEF ToSet
    <3> QED
      BY <3>1, <3>2
  <2>3. {Head(q)} \cup ToSet(Tail(q)) \subseteq ToSet(q)
    BY <1>1, <1>2 DEF ToSet
  <2> QED
    BY <2>2, <2>3
<1>4. ASSUME IsInjective(q) PROVE IsInjective(Tail(q)) /\ Head(q) \notin ToSet(Tail(q))
  BY <1>1, <1>2, <1>4 DEF ToSet, IsInjective
<1> QED
  BY <1>1, <1>3, <1>4

(* Two sequences, one after the other.                                       *)
LEMMA ConcatFacts ==
  ASSUME NEW S, NEW p \in Seq(S), NEW q \in Seq(S)
  PROVE  /\ p \o q \in Seq(S)
         /\ Len(p \o q) = Len(p) + Len(q)
         /\ ToSet(p \o q) = ToSet(p) \cup ToSet(q)
         /\ IsInjective(p) /\ IsInjective(q) /\ ToSet(p) \cap ToSet(q) = {} =>
                IsInjective(p \o q)
<1>1. /\ p \o q \in Seq(S)
      /\ Len(p \o q) = Len(p) + Len(q)
      /\ \A i \in 1..(Len(p) + Len(q)) :
            (p \o q)[i] = IF i <= Len(p) THEN p[i] ELSE q[i - Len(p)]
      /\ Len(p) \in Nat /\ Len(q) \in Nat
  BY ConcatProperties
<1>2. DOMAIN p = 1..Len(p) /\ DOMAIN q = 1..Len(q) /\ DOMAIN (p \o q) = 1..(Len(p) + Len(q))
  BY <1>1, LenProperties
<1>3. ToSet(p \o q) = ToSet(p) \cup ToSet(q)
  <2>1. \A i \in 1..Len(p) : i \in 1..(Len(p) + Len(q)) /\ (p \o q)[i] = p[i]
    BY <1>1
  <2>2. \A i \in 1..Len(q) : /\ Len(p) + i \in 1..(Len(p) + Len(q))
                             /\ (p \o q)[Len(p) + i] = q[i]
    BY <1>1
  <2>3. \A i \in 1..(Len(p) + Len(q)) :
            i \in 1..Len(p) \/ i - Len(p) \in 1..Len(q)
    BY <1>1
  <2>4. ToSet(p \o q) \subseteq ToSet(p) \cup ToSet(q)
    BY <1>1, <1>2, <2>3 DEF ToSet
  <2>5. ToSet(p) \cup ToSet(q) \subseteq ToSet(p \o q)
    BY <1>2, <2>1, <2>2 DEF ToSet
  <2> QED
    BY <2>4, <2>5
<1>4. ASSUME IsInjective(p), IsInjective(q), ToSet(p) \cap ToSet(q) = {}
      PROVE  IsInjective(p \o q)
  <2> SUFFICES ASSUME NEW i \in 1..(Len(p) + Len(q)), NEW j \in 1..(Len(p) + Len(q)),
                      (p \o q)[i] = (p \o q)[j]
               PROVE  i = j
    BY <1>2 DEF IsInjective
  <2>1. \A k \in 1..Len(p) : p[k] \in ToSet(p)
    BY <1>2 DEF ToSet
  <2>2. \A k \in 1..Len(q) : q[k] \in ToSet(q)
    BY <1>2 DEF ToSet
  <2>3. CASE i <= Len(p) /\ j <= Len(p)
    BY <1>1, <1>2, <1>4, <2>3 DEF IsInjective
  <2>4. CASE i > Len(p) /\ j > Len(p)
    <3>1. q[i - Len(p)] = q[j - Len(p)] /\ i - Len(p) \in 1..Len(q) /\ j - Len(p) \in 1..Len(q)
      BY <1>1, <2>4
    <3> QED
      BY <1>1, <1>2, <1>4, <3>1 DEF IsInjective
  <2>5. CASE i <= Len(p) /\ j > Len(p)
    BY <1>1, <1>4, <2>1, <2>2, <2>5
  <2>6. CASE i > Len(p) /\ j <= Len(p)
    BY <1>1, <1>4, <2>1, <2>2, <2>6
  <2> QED
    BY <1>1, <2>3, <2>4, <2>5, <2>6
<1> QED
  BY <1>1, <1>3, <1>4

(* What is left of a queue when its first n elements are taken.               *)
LEMMA RestFacts ==
  ASSUME NEW T, NEW q \in Seq(T), NEW n \in 0..Len(q)
  PROVE  /\ SubSeq(q, n + 1, Len(q)) \in Seq(T)
         /\ Len(SubSeq(q, n + 1, Len(q))) = Len(q) - n
         /\ \A i \in 1..(Len(q) - n) : SubSeq(q, n + 1, Len(q))[i] = q[n + i]
<1> DEFINE rest == SubSeq(q, n + 1, Len(q))
<1>1. n \in Nat /\ n <= Len(q) /\ Len(q) \in Nat
  OBVIOUS
<1>2. \A i \in n + 1..Len(q) : q[i] \in T
  BY <1>1
<1>3. n + 1 \in Int /\ Len(q) \in Int
  BY <1>1
<1>4. /\ rest \in Seq(T)
      /\ Len(rest) = IF n + 1 <= Len(q) THEN Len(q) - (n + 1) + 1 ELSE 0
      /\ \A i \in 1..(Len(q) - (n + 1) + 1) : rest[i] = q[(n + 1) + i - 1]
  BY <1>2, <1>3, SubSeqProperties
<1> HIDE DEF rest
<1>5. Len(rest) = Len(q) - n /\ Len(q) - (n + 1) + 1 = Len(q) - n
  BY <1>1, <1>4
<1>6. \A i \in Int : (n + 1) + i - 1 = n + i
  BY <1>1
<1>7. \A i \in 1..(Len(q) - n) : rest[i] = q[(n + 1) + i - 1]
  BY <1>4, <1>5
<1>8. ASSUME NEW i \in 1..(Len(q) - n) PROVE rest[i] = q[n + i]
  <2>1. i \in Int /\ rest[i] = q[(n + 1) + i - 1]
    BY <1>7
  <2> QED
    BY <1>6, <2>1
<1> QED
  BY <1>4, <1>5, <1>8 DEF rest

(* An element taken out of the middle of a list.                             *)
LEMMA RemoveFacts ==
  ASSUME NEW S, NEW q \in Seq(S), NEW i \in 1..Len(q)
  PROVE  /\ RemoveAt(q, i) \in Seq(S)
         /\ ToSet(RemoveAt(q, i)) \subseteq ToSet(q)
         /\ ToSet(q) \ {q[i]} \subseteq ToSet(RemoveAt(q, i))
         /\ IsInjective(q) => /\ IsInjective(RemoveAt(q, i))
                              /\ q[i] \notin ToSet(RemoveAt(q, i))
<1> DEFINE a == SubSeq(q, 1, i - 1)
           b == SubSeq(q, i + 1, Len(q))
<1>0. Len(q) \in Nat /\ DOMAIN q = 1..Len(q) /\ \A k \in 1..Len(q) : q[k] \in S
  BY LenProperties, ElementOfSeq
<1>1. /\ a \in Seq(S) /\ Len(a) = i - 1
      /\ \A k \in 1..(i - 1) : a[k] = q[k]
  <2>1. \A k \in 1..(i - 1) : q[k] \in S
    BY <1>0
  <2> QED
    BY <1>0, <2>1, SubSeqProperties
<1>2. /\ b \in Seq(S) /\ Len(b) = Len(q) - i
      /\ \A k \in 1..(Len(q) - i) : b[k] = q[i + k]
  <2>1. i \in 0..Len(q)
    BY <1>0
  <2> QED
    BY <2>1, RestFacts
<1>3. DOMAIN a = 1..(i - 1) /\ DOMAIN b = 1..(Len(q) - i)
  BY <1>0, <1>1, <1>2, LenProperties
<1>4. ToSet(a) = {q[k] : k \in 1..(i - 1)}
  BY <1>1, <1>3 DEF ToSet
<1>5. ToSet(b) = {q[k] : k \in (i + 1)..Len(q)}
  <2> HIDE DEF a, b
  <2>1. ASSUME NEW k \in (i + 1)..Len(q)
        PROVE  k - i \in 1..(Len(q) - i) /\ b[k - i] = q[k]
    <3>1. k - i \in 1..(Len(q) - i) /\ i + (k - i) = k
      BY <1>0
    <3> QED
      BY <1>2, <3>1
  <2>2. ASSUME NEW k \in 1..(Len(q) - i)
        PROVE  i + k \in (i + 1)..Len(q) /\ b[k] = q[i + k]
    <3>1. i + k \in (i + 1)..Len(q)
      BY <1>0
    <3> QED
      BY <1>2, <3>1
  <2>3. ToSet(b) = {b[k] : k \in 1..(Len(q) - i)}
    BY <1>3 DEF ToSet
  <2>4. ToSet(b) \subseteq {q[k] : k \in (i + 1)..Len(q)}
    BY <2>2, <2>3
  <2>5. ASSUME NEW k \in (i + 1)..Len(q) PROVE q[k] \in ToSet(b)
    BY <2>1, <2>3
  <2> QED
    BY <2>4, <2>5
<1>6. ASSUME IsInjective(q) PROVE IsInjective(a) /\ IsInjective(b)
  <2> HIDE DEF a, b
  <2>1. \A k \in 1..(i - 1) : k \in 1..Len(q)
    BY <1>0
  <2>2. \A k \in 1..(Len(q) - i) : i + k \in 1..Len(q)
    BY <1>0
  <2>3. IsInjective(a)
    BY <1>0, <1>1, <1>3, <1>6, <2>1 DEF IsInjective
  <2>4. ASSUME NEW k \in 1..(Len(q) - i), NEW l \in 1..(Len(q) - i), b[k] = b[l]
        PROVE  k = l
    <3>1. i + k = i + l
      BY <1>0, <1>2, <1>6, <2>2, <2>4 DEF IsInjective
    <3> QED
      BY <1>0, <3>1
  <2>5. IsInjective(b)
    BY <1>3, <2>4 DEF IsInjective
  <2> QED
    BY <2>3, <2>5
<1>7. IsInjective(q) => ToSet(a) \cap ToSet(b) = {} /\ q[i] \notin ToSet(a) \cup ToSet(b)
  BY <1>0, <1>4, <1>5 DEF IsInjective
<1>8. RemoveAt(q, i) = a \o b
  BY DEF RemoveAt
<1>9. /\ RemoveAt(q, i) \in Seq(S)
      /\ ToSet(RemoveAt(q, i)) = ToSet(a) \cup ToSet(b)
      /\ IsInjective(q) => IsInjective(RemoveAt(q, i))
  <2> HIDE DEF a, b
  <2> QED
    BY <1>1, <1>2, <1>6, <1>7, <1>8, ConcatFacts
<1>10. ToSet(q) = {q[k] : k \in 1..Len(q)}
  BY <1>0 DEF ToSet
<1>11. /\ ToSet(a) \cup ToSet(b) \subseteq ToSet(q)
       /\ ToSet(q) \ {q[i]} \subseteq ToSet(a) \cup ToSet(b)
  BY <1>0, <1>4, <1>5, <1>10
<1> QED
  BY <1>7, <1>9, <1>11

(* Where the elements of a list are when one was taken out of it.             *)
LEMMA RemovedPlaces ==
  ASSUME NEW S, NEW q \in Seq(S), NEW i \in 1..Len(q)
  PROVE  /\ RemoveAt(q, i) \in Seq(S)
         /\ Len(RemoveAt(q, i)) = Len(q) - 1
         /\ \A k \in 1..(Len(q) - 1) : RemoveAt(q, i)[k] = IF k < i THEN q[k] ELSE q[k + 1]
         /\ \A p \in 1..Len(q) : p # i =>
                \E k \in 1..(Len(q) - 1) : k <= p /\ RemoveAt(q, i)[k] = q[p]
<1> DEFINE a == SubSeq(q, 1, i - 1)
           b == SubSeq(q, i + 1, Len(q))
           r == RemoveAt(q, i)
<1>0. Len(q) \in Nat /\ i \in Nat /\ 1 <= i /\ i <= Len(q) /\ \A k \in 1..Len(q) : q[k] \in S
  BY LenProperties, ElementOfSeq
<1>1. /\ a \in Seq(S) /\ Len(a) = i - 1
      /\ \A k \in 1..(i - 1) : a[k] = q[k]
  <2>1. \A k \in 1..(i - 1) : q[k] \in S
    BY <1>0
  <2> QED
    BY <1>0, <2>1, SubSeqProperties
<1>2. /\ b \in Seq(S) /\ Len(b) = Len(q) - i
      /\ \A k \in 1..(Len(q) - i) : b[k] = q[i + k]
  <2>1. i \in 0..Len(q)
    BY <1>0
  <2> QED
    BY <2>1, RestFacts
<1>3. r = a \o b
  BY DEF RemoveAt
<1> HIDE DEF a, b, r
<1>4. /\ r \in Seq(S) /\ Len(r) = Len(q) - 1
      /\ \A k \in 1..(Len(q) - 1) : r[k] = IF k <= i - 1 THEN a[k] ELSE b[k - (i - 1)]
  <2>1. /\ r \in Seq(S) /\ Len(r) = Len(a) + Len(b)
        /\ \A k \in 1..(Len(a) + Len(b)) : r[k] = IF k <= Len(a) THEN a[k] ELSE b[k - Len(a)]
    BY <1>1, <1>2, <1>3, ConcatProperties
  <2>2. Len(a) + Len(b) = Len(q) - 1
    BY <1>0, <1>1, <1>2
  <2> QED
    BY <1>1, <2>1, <2>2
<1>5. ASSUME NEW k \in 1..(Len(q) - 1) PROVE r[k] = IF k < i THEN q[k] ELSE q[k + 1]
  <2>1. CASE k < i
    <3>1. k \in 1..(i - 1) /\ k <= i - 1
      BY <1>0, <2>1
    <3> QED
      BY <1>1, <1>4, <2>1, <3>1
  <2>2. CASE ~(k < i)
    <3>1. k - (i - 1) \in 1..(Len(q) - i) /\ i + (k - (i - 1)) = k + 1 /\ ~(k <= i - 1)
      BY <1>0, <2>2
    <3> QED
      BY <1>2, <1>4, <2>2, <3>1
  <2> QED
    BY <2>1, <2>2
<1>6. ASSUME NEW p \in 1..Len(q), p # i
      PROVE  \E k \in 1..(Len(q) - 1) : k <= p /\ r[k] = q[p]
  <2>1. CASE p < i
    <3>1. p \in 1..(Len(q) - 1) /\ p <= p
      BY <1>0, <2>1
    <3> QED
      BY <1>5, <2>1, <3>1
  <2>2. CASE p > i
    <3>1. p - 1 \in 1..(Len(q) - 1) /\ p - 1 <= p /\ ~(p - 1 < i) /\ (p - 1) + 1 = p
      BY <1>0, <2>2
    <3>2. r[p - 1] = q[p]
      BY <1>5, <3>1
    <3> QED
      BY <3>1, <3>2
  <2>3. p < i \/ p > i
    BY <1>0, <1>6
  <2> QED
    BY <2>1, <2>2, <2>3
<1> QED
  BY <1>4, <1>5, <1>6 DEF r

(* A finite set written out as a sequence has every element once.            *)
LEMMA SetToSeqFacts ==
  ASSUME NEW S, IsFiniteSet(S)
  PROVE  /\ Cardinality(S) \in Nat
         /\ SetToSeq(S) \in Seq(S)
         /\ Len(SetToSeq(S)) = Cardinality(S)
         /\ ToSet(SetToSeq(S)) = S
         /\ IsInjective(SetToSeq(S))
<1> DEFINE n == Cardinality(S)
           f == SetToSeq(S)
<1>1. n \in Nat /\ ExistsBijection(1..n, S)
  BY FS_CardinalityType
<1>2. \E g \in [1..n -> S] : IsInjective(g)
  BY <1>1 DEF ExistsBijection, Bijection, Injection
<1>3. f \in [1..n -> S] /\ IsInjective(f)
  BY <1>2 DEF SetToSeq
<1> HIDE DEF f
<1>4. f \in Injection(1..n, S)
  BY <1>3 DEF Injection
<1>5. IsFiniteSet(1..n) /\ Cardinality(1..n) = n
  BY <1>1, FS_Interval
<1>6. f \in Surjection(1..n, S)
  BY <1>4, <1>5, FS_Injection
<1>7. f \in Seq(S) /\ Len(f) = n
  BY <1>1, <1>3
<1>8. ToSet(f) = S
  BY <1>3, <1>6 DEF ToSet, Surjection
<1> QED
  BY <1>1, <1>3, <1>7, <1>8 DEF f

(* What is taken, and what is left, of an answer of one or two parts.        *)
LEMMA PartsFacts ==
  ASSUME NEW a, NEW b
  PROVE  /\ SubSeq(<<a>>, 1, 1) = <<a>> /\ SubSeq(<<a>>, 2, 1) = <<>>
         /\ SubSeq(<<a, b>>, 1, 1) = <<a>> /\ SubSeq(<<a, b>>, 2, 2) = <<b>>
         /\ SubSeq(<<a, b>>, 1, 2) = <<a, b>> /\ SubSeq(<<a, b>>, 3, 2) = <<>>
<1> DEFINE S == {a, b}
<1>1. SubSeq(<<a>>, 2, 1) = <<>> /\ SubSeq(<<a, b>>, 3, 2) = <<>>
  BY SubSeqEmpty
<1>2. ASSUME NEW s, NEW m \in {1, 2}, s[m] \in S
      PROVE  SubSeq(s, m, m) = <<s[m]>>
  <2>1. /\ SubSeq(s, m, m) \in Seq(S) /\ Len(SubSeq(s, m, m)) = 1
        /\ SubSeq(s, m, m)[1] = s[m]
    <3>1. \A i \in m..m : s[i] \in S
      BY <1>2
    <3>2. /\ SubSeq(s, m, m) \in Seq(S)
          /\ Len(SubSeq(s, m, m)) = IF m <= m THEN m - m + 1 ELSE 0
          /\ \A i \in 1..m - m + 1 : SubSeq(s, m, m)[i] = s[m + i - 1]
      BY <3>1, SubSeqProperties
    <3>3. m - m + 1 = 1 /\ m <= m /\ 1 \in 1..m - m + 1 /\ m + 1 - 1 = m
      BY <1>2
    <3> QED
      BY <3>2, <3>3
  <2>2. PICK e \in S : e = s[m]
    BY <1>2
  <2>3. /\ <<e>> \in Seq(S) /\ Len(<<e>>) = 1
        /\ \A i \in 1..1 : SubSeq(s, m, m)[i] = <<e>>[i]
    BY <2>1, <2>2
  <2>4. SubSeq(s, m, m) = <<e>>
    BY <2>1, <2>3, SeqEqual
  <2> QED
    BY <2>2, <2>4
<1>3. SubSeq(<<a>>, 1, 1) = <<a>> /\ SubSeq(<<a, b>>, 1, 1) = <<a>> /\ SubSeq(<<a, b>>, 2, 2) = <<b>>
  <2>1. <<a>>[1] = a /\ <<a, b>>[1] = a /\ <<a, b>>[2] = b
    OBVIOUS
  <2> QED
    BY <1>2, <2>1
<1>4. SubSeq(<<a, b>>, 1, 2) = <<a, b>>
  <2>1. \A i \in 1..2 : <<a, b>>[i] \in S
    OBVIOUS
  <2>2. /\ SubSeq(<<a, b>>, 1, 2) \in Seq(S) /\ Len(SubSeq(<<a, b>>, 1, 2)) = 2
        /\ \A i \in 1..2 : SubSeq(<<a, b>>, 1, 2)[i] = <<a, b>>[i]
    <3>1. /\ SubSeq(<<a, b>>, 1, 2) \in Seq(S)
          /\ Len(SubSeq(<<a, b>>, 1, 2)) = IF 1 <= 2 THEN 2 - 1 + 1 ELSE 0
          /\ \A i \in 1..2 - 1 + 1 : SubSeq(<<a, b>>, 1, 2)[i] = <<a, b>>[1 + i - 1]
      BY <2>1, SubSeqProperties
    <3> QED
      BY <3>1
  <2>3. <<a, b>> \in Seq(S) /\ Len(<<a, b>>) = 2
    OBVIOUS
  <2> QED
    BY <2>2, <2>3, SeqEqual
<1> QED
  BY <1>1, <1>3, <1>4

(* A set of numbers that is not empty has a least element. *)
LEMMA LeastExists ==
  ASSUME NEW S, S \subseteq Nat, S # {}
  PROVE  \E x \in S : \A y \in S : x <= y
<1> DEFINE R == {z \in Nat \X Nat : z[1] < z[2]}
<1>1. IsWellFoundedOn(R, Nat)
  BY NatLessThanWellFounded DEF OpToRel
<1>2. \A x, y \in Nat : <<y, x>> \in R <=> y < x
  OBVIOUS
<1> HIDE DEF R
<1>3. PICK x \in S : \A y \in S : <<y, x>> \notin R
  BY <1>1, WFMin
<1>4. ASSUME NEW y \in S PROVE x <= y
  <2>1. x \in Nat /\ y \in Nat
    OBVIOUS
  <2>2. ~(y < x)
    BY <1>2, <1>3, <2>1, Zenon
  <2> QED
    BY <2>1, <2>2
<1> QED
  BY <1>4

-----------------------------------------------------------------------------
(* How many of a sequence's elements are in a set.                            *)

Where(q, S) == {i \in 1..Len(q) : q[i] \in S}
HowMany(q, S) == Cardinality(Where(q, S))

LEMMA CountType ==
  ASSUME NEW T, NEW q \in Seq(T), NEW S
  PROVE  /\ IsFiniteSet(Where(q, S)) /\ HowMany(q, S) \in Nat
         /\ HowMany(q, S) <= Len(q)
         /\ HowMany(<<>>, S) = 0
<1>1. Len(q) \in Nat /\ IsFiniteSet(1..Len(q)) /\ Cardinality(1..Len(q)) = Len(q)
  <2>1. Len(q) \in Nat
    OBVIOUS
  <2>2. /\ IsFiniteSet(1..Len(q))
        /\ Cardinality(1..Len(q)) = IF 1 > Len(q) THEN 0 ELSE Len(q) - 1 + 1
    BY <2>1, FS_Interval
  <2> QED
    BY <2>1, <2>2
<1>2. Where(q, S) \in SUBSET (1..Len(q))
  BY DEF Where
<1>3. IsFiniteSet(Where(q, S)) /\ HowMany(q, S) <= Cardinality(1..Len(q))
  BY <1>1, <1>2, FS_Subset DEF HowMany
<1>4. HowMany(q, S) \in Nat
  BY <1>3, FS_CardinalityType DEF HowMany
<1>5. Where(<<>>, S) = {}
  BY DEF Where
<1> QED
  BY <1>1, <1>3, <1>4, <1>5, FS_EmptySet DEF HowMany

LEMMA CountZero ==
  ASSUME NEW T, NEW q \in Seq(T), NEW S
  PROVE  HowMany(q, S) = 0 <=> Where(q, S) = {}
BY CountType, FS_EmptySet DEF HowMany

LEMMA CountAppend ==
  ASSUME NEW T, NEW q \in Seq(T), NEW e \in T, NEW S
  PROVE  HowMany(Append(q, e), S) = IF e \in S THEN HowMany(q, S) + 1 ELSE HowMany(q, S)
<1>1. /\ Len(q) \in Nat /\ Len(Append(q, e)) = Len(q) + 1
      /\ \A i \in 1..Len(q) : Append(q, e)[i] = q[i]
      /\ Append(q, e)[Len(q) + 1] = e
  OBVIOUS
<1>2. IsFiniteSet(Where(q, S)) /\ Len(q) + 1 \notin Where(q, S)
  <2>1. IsFiniteSet(Where(q, S))
    BY CountType
  <2>2. Len(q) + 1 \notin Where(q, S)
    BY <1>1 DEF Where
  <2> QED
    BY <2>1, <2>2
<1>3. CASE e \in S
  <2>1. Where(Append(q, e), S) = Where(q, S) \cup {Len(q) + 1}
    BY <1>1, <1>3 DEF Where
  <2> QED
    BY <1>2, <1>3, <2>1, FS_AddElement DEF HowMany
<1>4. CASE e \notin S
  <2>1. Where(Append(q, e), S) = Where(q, S)
    BY <1>1, <1>4 DEF Where
  <2> QED
    BY <1>4, <2>1 DEF HowMany
<1> QED
  BY <1>3, <1>4

(* What is left when the first n elements are taken: one fewer at least if    *)
(* one of these was counted.                                                  *)
LEMMA CountRest ==
  ASSUME NEW T, NEW q \in Seq(T), NEW n \in 0..Len(q), NEW S
  PROVE  /\ HowMany(SubSeq(q, n + 1, Len(q)), S) <= HowMany(q, S)
         /\ (\E i \in 1..n : q[i] \in S) =>
                HowMany(SubSeq(q, n + 1, Len(q)), S) + 1 <= HowMany(q, S)
<1> DEFINE rest == SubSeq(q, n + 1, Len(q))
           later == {i \in Where(q, S) : i > n}
<1>1. n \in Nat /\ n <= Len(q) /\ Len(q) \in Nat
  OBVIOUS
<1>2. /\ rest \in Seq(T) /\ Len(rest) = Len(q) - n
      /\ \A i \in 1..(Len(q) - n) : rest[i] = q[n + i]
  BY RestFacts
<1> HIDE DEF rest
<1>3. IsFiniteSet(Where(q, S)) /\ later \in SUBSET Where(q, S)
  BY CountType
<1>4. IsFiniteSet(later) /\ Cardinality(later) <= HowMany(q, S)
  BY <1>3, FS_Subset DEF HowMany
<1>5. HowMany(rest, S) = Cardinality(later)
  <2> DEFINE back == [i \in later |-> i - n]
  <2>1. back \in Bijection(later, Where(rest, S))
    <3>1. ASSUME NEW i \in later PROVE i - n \in Where(rest, S) /\ back[i] = i - n
      <4>1. i \in 1..Len(q) /\ q[i] \in S /\ i > n
        BY DEF Where
      <4>2. i - n \in 1..(Len(q) - n) /\ n + (i - n) = i
        BY <1>1, <4>1
      <4>3. rest[i - n] = q[i]
        BY <1>2, <4>2
      <4> QED
        BY <1>2, <4>1, <4>2, <4>3 DEF Where
    <3>2. ASSUME NEW j \in Where(rest, S) PROVE n + j \in later /\ back[n + j] = j
      <4>1. j \in 1..(Len(q) - n) /\ rest[j] \in S
        BY <1>2 DEF Where
      <4>2. n + j \in 1..Len(q) /\ n + j > n /\ (n + j) - n = j
        BY <1>1, <4>1
      <4>3. q[n + j] \in S
        BY <1>2, <4>1
      <4>4. n + j \in later
        BY <4>2, <4>3 DEF Where
      <4> QED
        BY <4>2, <4>4
    <3>3. back \in [later -> Where(rest, S)]
      BY <3>1
    <3>4. \A i, j \in later : back[i] = back[j] => i = j
      BY <1>1 DEF Where
    <3>5. \A j \in Where(rest, S) : \E i \in later : back[i] = j
      BY <3>2
    <3> HIDE DEF back, later
    <3> QED
      BY <3>3, <3>4, <3>5 DEF Bijection, Injection, Surjection, IsInjective
  <2>2. ExistsBijection(later, Where(rest, S))
    BY <2>1 DEF ExistsBijection
  <2> QED
    BY <1>4, <2>2, FS_Bijection DEF HowMany
<1>6. ASSUME NEW i \in 1..n, q[i] \in S PROVE Cardinality(later) + 1 <= HowMany(q, S)
  <2>1. i \in Where(q, S) /\ i \notin later
    BY <1>1, <1>6 DEF Where
  <2>2. Cardinality(later) # HowMany(q, S)
    BY <1>3, <2>1, FS_Subset DEF HowMany
  <2>3. Cardinality(later) \in Nat /\ HowMany(q, S) \in Nat
    BY <1>4, CountType, FS_CardinalityType
  <2> HIDE DEF later
  <2> QED
    BY <1>4, <2>2, <2>3
<1> HIDE DEF later
<1> QED
  BY <1>4, <1>5, <1>6 DEF rest

(* The oldest element of a queue is taken.                                    *)
LEMMA CountTail ==
  ASSUME NEW T, NEW q \in Seq(T), q # <<>>, NEW S
  PROVE  /\ HowMany(Tail(q), S) <= HowMany(q, S)
         /\ Head(q) \in S => HowMany(Tail(q), S) + 1 <= HowMany(q, S)
<1>1. Len(q) \in Nat /\ Len(q) >= 1 /\ Head(q) = q[1] /\ Tail(q) = SubSeq(q, 1 + 1, Len(q))
  <2>1. Len(q) \in Nat /\ Len(q) >= 1 /\ Head(q) = q[1]
    BY TailFacts
  <2>2. /\ Tail(q) \in Seq(T) /\ Len(Tail(q)) = Len(q) - 1
        /\ \A i \in 1..(Len(q) - 1) : Tail(q)[i] = q[i + 1]
    BY TailFacts
  <2>3. /\ SubSeq(q, 2, Len(q)) \in Seq(T)
        /\ Len(SubSeq(q, 2, Len(q))) = IF 2 <= Len(q) THEN Len(q) - 2 + 1 ELSE 0
        /\ \A i \in 1..(Len(q) - 2 + 1) : SubSeq(q, 2, Len(q))[i] = q[2 + i - 1]
    <3>1. \A i \in 2..Len(q) : q[i] \in T
      BY <2>1
    <3> QED
      BY <2>1, <3>1, SubSeqProperties
  <2>4. Len(SubSeq(q, 2, Len(q))) = Len(Tail(q)) /\ Len(q) - 2 + 1 = Len(q) - 1
    BY <2>1, <2>2, <2>3
  <2>5. \A i \in 1..(Len(q) - 1) : SubSeq(q, 2, Len(q))[i] = q[2 + i - 1] /\ 2 + i - 1 = i + 1
    BY <2>1, <2>3, <2>4
  <2>6. \A i \in 1..Len(Tail(q)) : Tail(q)[i] = SubSeq(q, 2, Len(q))[i]
    BY <2>2, <2>5
  <2>7. Tail(q) = SubSeq(q, 2, Len(q))
    BY <2>2, <2>3, <2>4, <2>6, SeqEqual
  <2> QED
    BY <2>1, <2>7
<1>2. 1 \in 0..Len(q)
  BY <1>1
<1>3. /\ HowMany(Tail(q), S) <= HowMany(q, S)
      /\ (\E i \in 1..1 : q[i] \in S) => HowMany(Tail(q), S) + 1 <= HowMany(q, S)
  BY <1>1, <1>2, CountRest
<1> QED
  BY <1>1, <1>3
=============================================================================
