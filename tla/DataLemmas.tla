------------------------------ MODULE DataLemmas ------------------------------
(***************************************************************************)
(* What the queues, buffers and gauges of the models are built from, for   *)
(* any sequence or finite set: Append, Tail and RemoveFirst of the         *)
(* community modules, how often a sequence holds an element, and the sum   *)
(* of a function.  What these do to data of every size is shown by         *)
(* induction on sets of numbers, from the well-foundedness of <.           *)
(***************************************************************************)
EXTENDS Integers, Sequences, SequencesExt, SequenceTheorems, FiniteSetTheorems,
        FunctionTheorems, WellFoundedInduction, TLAPS

\* q holds no element twice.
Distinct(q) == \A i, j \in 1 .. Len(q) : q[i] = q[j] => i = j

LEMMA TailOf ==
    ASSUME NEW S, NEW q \in Seq(S), q # <<>>
    PROVE  /\ Head(q) = q[1] /\ 1 \in DOMAIN q /\ Head(q) \in S /\ Tail(q) \in Seq(S)
           /\ DOMAIN Tail(q) \subseteq DOMAIN q
           /\ \A i \in DOMAIN Tail(q) :
                 Tail(q)[i] = q[i + 1] /\ i + 1 \in DOMAIN q /\ i + 1 # 1 /\ i \in Nat
<1>1. /\ Head(q) \in S /\ Tail(q) \in Seq(S) /\ Len(Tail(q)) = Len(q) - 1
      /\ \A i \in 1 .. Len(Tail(q)) : Tail(q)[i] = q[i + 1]
  BY HeadTailProperties
<1>2. /\ DOMAIN q = 1 .. Len(q) /\ Len(q) \in Nat \ {0} /\ Head(q) = q[1]
      /\ DOMAIN Tail(q) = 1 .. Len(Tail(q))
  BY <1>1, EmptySeq
<1> QED BY <1>1, <1>2

LEMMA AppendOf ==
    ASSUME NEW S, NEW q \in Seq(S), NEW e \in S
    PROVE  /\ Append(q, e) \in Seq(S)
           /\ DOMAIN Append(q, e) = DOMAIN q \cup {Len(q) + 1}
           /\ Len(q) + 1 \notin DOMAIN q
           /\ Append(q, e)[Len(q) + 1] = e
           /\ \A i \in DOMAIN q : Append(q, e)[i] = q[i]
BY AppendProperties

LEMMA TailSet ==
    ASSUME NEW S, NEW q \in Seq(S), q # <<>>
    PROVE  /\ Len(Tail(q)) = Len(q) - 1 /\ Len(q) \in Nat
           /\ ToSet(q) = {Head(q)} \cup ToSet(Tail(q)) /\ Head(q) \in S
           /\ Tail(q) \in Seq(S)
           /\ Distinct(q) => Distinct(Tail(q)) /\ Head(q) \notin ToSet(Tail(q))
<1>1. /\ Head(q) \in S /\ Tail(q) \in Seq(S) /\ Len(Tail(q)) = Len(q) - 1
      /\ \A i \in 1 .. Len(Tail(q)) : Tail(q)[i] = q[i + 1]
  BY HeadTailProperties
<1>2. Len(q) \in Nat \ {0} /\ Head(q) = q[1]
  BY EmptySeq
<1>3. ToSet(q) = {q[i] : i \in 1 .. Len(q)} /\ ToSet(Tail(q)) = {q[i + 1] : i \in 1 .. Len(q) - 1}
  <2>1. DOMAIN q = 1 .. Len(q) /\ DOMAIN Tail(q) = 1 .. Len(q) - 1
    BY <1>1
  <2>2. {Tail(q)[i] : i \in 1 .. Len(q) - 1} = {q[i + 1] : i \in 1 .. Len(q) - 1}
    BY <1>1
  <2> QED BY <2>1, <2>2 DEF ToSet
<1>4. ToSet(q) = {Head(q)} \cup ToSet(Tail(q))
  <2>1. ASSUME NEW x \in ToSet(q) PROVE x = Head(q) \/ x \in ToSet(Tail(q))
    <3>1. PICK i \in 1 .. Len(q) : x = q[i]
      BY <1>3
    <3>2. CASE i = 1
      BY <1>2, <3>1, <3>2
    <3>3. CASE i # 1
      <4>1. i - 1 \in 1 .. Len(q) - 1 /\ (i - 1) + 1 = i
        BY <1>2, <3>3
      <4> QED BY <1>3, <3>1, <4>1
    <3> QED BY <3>2, <3>3
  <2>2. ASSUME NEW x \in ToSet(Tail(q)) PROVE x \in ToSet(q)
    <3>1. PICK i \in 1 .. Len(q) - 1 : x = q[i + 1]
      BY <1>3
    <3>2. i + 1 \in 1 .. Len(q)
      BY <1>2
    <3> QED BY <1>3, <3>1, <3>2
  <2>3. Head(q) \in ToSet(q)
    BY <1>2, <1>3
  <2> QED BY <2>1, <2>2, <2>3
<1>5. ASSUME Distinct(q) PROVE Distinct(Tail(q)) /\ Head(q) \notin ToSet(Tail(q))
  <2>1. \A i \in 1 .. Len(q) - 1 : i + 1 \in 1 .. Len(q) /\ i + 1 # 1
    BY <1>2
  <2>2. ASSUME NEW i \in 1 .. Len(q) - 1, NEW j \in 1 .. Len(q) - 1, q[i + 1] = q[j + 1]
        PROVE  i = j
    <3>1. i + 1 = j + 1
      BY <1>5, <2>1, <2>2 DEF Distinct
    <3> QED BY <1>2, <3>1
  <2>3. Distinct(Tail(q))
    BY <1>1, <2>2 DEF Distinct
  <2>4. 1 \in 1 .. Len(q)
    BY <1>2
  <2>5. \A i \in 1 .. Len(q) - 1 : q[i + 1] # q[1]
    BY <1>5, <2>1, <2>4 DEF Distinct
  <2> QED BY <1>2, <1>3, <2>3, <2>5
<1> QED BY <1>1, <1>2, <1>4, <1>5

LEMMA AppendSet ==
    ASSUME NEW S, NEW q \in Seq(S), NEW e \in S
    PROVE  /\ Append(q, e) \in Seq(S) /\ Len(Append(q, e)) = Len(q) + 1 /\ Len(q) \in Nat
           /\ Append(q, e) # <<>>
           /\ ToSet(Append(q, e)) = ToSet(q) \cup {e}
           /\ Distinct(q) /\ e \notin ToSet(q) => Distinct(Append(q, e))
<1>1. /\ Append(q, e) \in Seq(S) /\ Len(Append(q, e)) = Len(q) + 1 /\ Len(q) \in Nat
      /\ \A i \in 1 .. Len(q) : Append(q, e)[i] = q[i]
      /\ Append(q, e)[Len(q) + 1] = e
  BY AppendProperties
<1>2. 1 .. Len(q) + 1 = (1 .. Len(q)) \cup {Len(q) + 1}
  BY <1>1
<1>3. /\ ToSet(q) = {q[i] : i \in 1 .. Len(q)}
      /\ ToSet(Append(q, e)) = {Append(q, e)[i] : i \in 1 .. Len(q) + 1}
  BY <1>1 DEF ToSet
<1>4. ToSet(Append(q, e)) = ToSet(q) \cup {e}
  BY <1>1, <1>2, <1>3
<1>5. ASSUME Distinct(q), e \notin ToSet(q) PROVE Distinct(Append(q, e))
  BY <1>1, <1>2, <1>3, <1>5 DEF Distinct
<1>6. Append(q, e) # <<>>
  BY <1>1
<1> QED BY <1>1, <1>4, <1>5, <1>6

-----------------------------------------------------------------------------
\* RemoveAt and RemoveFirst, the latter on a sequence that holds every element at
\* most once.
LEMMA RemoveFirstAbsent ==
    ASSUME NEW S, NEW q \in Seq(S), NEW e, \A i \in 1 .. Len(q) : q[i] # e
    PROVE  RemoveFirst(q, e) = q
BY DEF RemoveFirst

LEMMA RemoveAtOf ==
    ASSUME NEW S, NEW q \in Seq(S), NEW k \in 1 .. Len(q)
    PROVE  /\ RemoveAt(q, k) \in Seq(S)
           /\ Len(RemoveAt(q, k)) = Len(q) - 1
           /\ \A i \in 1 .. Len(q) - 1 :
                 RemoveAt(q, k)[i] = IF i < k THEN q[i] ELSE q[i + 1]
<1>1. RemoveAt(q, k) = SubSeq(q, 1, k - 1) \o SubSeq(q, k + 1, Len(q))
  BY DEF RemoveAt
<1>2. PICK a, b : a = SubSeq(q, 1, k - 1) /\ b = SubSeq(q, k + 1, Len(q))
  OBVIOUS
<1>3. Len(q) \in Nat /\ k \in Nat /\ 1 <= k /\ k <= Len(q)
  OBVIOUS
<1>4. a \in Seq(S) /\ Len(a) = k - 1 /\ \A i \in 1 .. k - 1 : a[i] = q[i]
  <2>1. \A i \in 1 .. k - 1 : q[i] \in S
    BY <1>3
  <2> QED BY <1>2, <1>3, <2>1, SubSeqProperties
<1>5. b \in Seq(S) /\ Len(b) = Len(q) - k /\ \A i \in 1 .. Len(q) - k : b[i] = q[k + i]
  <2>1. \A i \in k + 1 .. Len(q) : q[i] \in S
    BY <1>3
  <2> QED BY <1>2, <1>3, <2>1, SubSeqProperties
<1>6. /\ a \o b \in Seq(S) /\ Len(a \o b) = Len(q) - 1
      /\ \A i \in 1 .. Len(q) - 1 : (a \o b)[i] = IF i <= k - 1 THEN a[i] ELSE b[i - (k - 1)]
  <2>1. a \in Seq(S) /\ b \in Seq(S)
    BY <1>4, <1>5
  <2>2. /\ a \o b \in Seq(S) /\ Len(a \o b) = Len(a) + Len(b)
        /\ \A i \in 1 .. Len(a) + Len(b) :
              (a \o b)[i] = IF i <= Len(a) THEN a[i] ELSE b[i - Len(a)]
    BY <2>1, ConcatProperties
  <2>3. Len(a) = k - 1 /\ Len(a) + Len(b) = Len(q) - 1
    BY <1>3, <1>4, <1>5
  <2> QED BY <2>2, <2>3
<1>7. ASSUME NEW i \in 1 .. Len(q) - 1
      PROVE  (a \o b)[i] = IF i < k THEN q[i] ELSE q[i + 1]
  <2>1. CASE i < k
    BY <1>3, <1>4, <1>6, <2>1
  <2>2. CASE ~(i < k)
    <3>1. (a \o b)[i] = b[i - (k - 1)] /\ i - (k - 1) \in 1 .. Len(q) - k
      BY <1>3, <1>6, <2>2
    <3>2. k + (i - (k - 1)) = i + 1
      BY <1>3
    <3> QED BY <1>3, <1>5, <2>2, <3>1, <3>2
  <2> QED BY <2>1, <2>2
<1> QED BY <1>1, <1>2, <1>6, <1>7

LEMMA RemoveFirstOf ==
    ASSUME NEW S, NEW q \in Seq(S), Distinct(q), NEW k \in 1 .. Len(q)
    PROVE  /\ RemoveFirst(q, q[k]) \in Seq(S)
           /\ Len(RemoveFirst(q, q[k])) = Len(q) - 1
           /\ \A i \in 1 .. Len(q) - 1 :
                 RemoveFirst(q, q[k])[i] = IF i < k THEN q[i] ELSE q[i + 1]
<1>1. SelectInSeq(q, LAMBDA v : v = q[k]) = k
  <2>1. {i \in 1 .. Len(q) : q[i] = q[k]} = {k}
    BY DEF Distinct
  <2> QED BY <2>1 DEF SelectInSeq, Min
<1>2. RemoveFirst(q, q[k]) = RemoveAt(q, k)
  BY <1>1 DEF RemoveFirst
<1> QED BY <1>2, RemoveAtOf

\* What is left, and in what order.
LEMMA RemoveFirstLeaves ==
    ASSUME NEW S, NEW q \in Seq(S), Distinct(q), NEW e
    PROVE  /\ RemoveFirst(q, e) \in Seq(S)
           /\ Len(RemoveFirst(q, e)) <= Len(q)
           /\ Distinct(RemoveFirst(q, e))
           /\ ToSet(RemoveFirst(q, e)) = ToSet(q) \ {e}
<1>1. CASE \A i \in 1 .. Len(q) : q[i] # e
  BY <1>1, RemoveFirstAbsent DEF ToSet
<1>2. CASE \E i \in 1 .. Len(q) : q[i] = e
  <2>1. PICK k \in 1 .. Len(q) : q[k] = e
    BY <1>2
  <2>2. PICK p : p = RemoveFirst(q, e)
    OBVIOUS
  <2>3. /\ p \in Seq(S) /\ Len(p) = Len(q) - 1
        /\ \A i \in 1 .. Len(q) - 1 : p[i] = IF i < k THEN q[i] ELSE q[i + 1]
    BY <2>1, <2>2, RemoveFirstOf
  <2>4. Len(q) \in Nat /\ k \in Nat /\ 1 <= k /\ k <= Len(q)
    OBVIOUS
  <2> DEFINE Was(i) == IF i < k THEN i ELSE i + 1
  <2>5. \A i \in 1 .. Len(q) - 1 : Was(i) \in 1 .. Len(q) /\ Was(i) # k /\ p[i] = q[Was(i)]
    BY <2>3, <2>4
  <2>6. \A i, j \in 1 .. Len(q) - 1 : Was(i) = Was(j) => i = j
    BY <2>4
  <2>7. \A j \in 1 .. Len(q) : j # k => \E i \in 1 .. Len(q) - 1 : Was(i) = j
    <3> SUFFICES ASSUME NEW j \in 1 .. Len(q), j # k
                 PROVE  \E i \in 1 .. Len(q) - 1 : Was(i) = j
      OBVIOUS
    <3>1. CASE j < k
      BY <2>4, <3>1
    <3>2. CASE j > k
      <4>1. j - 1 \in 1 .. Len(q) - 1 /\ Was(j - 1) = j
        BY <2>4, <3>2
      <4> QED BY <4>1
    <3> QED BY <2>4, <3>1, <3>2
  <2> HIDE DEF Was
  <2>8. Distinct(p)
    BY <2>3, <2>5, <2>6 DEF Distinct
  <2>9. ToSet(p) = {p[i] : i \in 1 .. Len(q) - 1} /\ ToSet(q) = {q[i] : i \in 1 .. Len(q)}
    BY <2>3 DEF ToSet
  <2>10. \A i \in 1 .. Len(q) - 1 : p[i] # e
    BY <2>1, <2>5 DEF Distinct
  <2>11. \A j \in 1 .. Len(q) : q[j] # e => \E i \in 1 .. Len(q) - 1 : p[i] = q[j]
    BY <2>1, <2>5, <2>7
  <2>12. ToSet(p) = ToSet(q) \ {e}
    <3>1. ToSet(p) \subseteq ToSet(q) \ {e}
      BY <2>5, <2>9, <2>10
    <3>2. ASSUME NEW x \in ToSet(q), x # e PROVE x \in ToSet(p)
      <4>1. PICK j \in 1 .. Len(q) : x = q[j]
        BY <2>9
      <4> QED BY <2>9, <2>11, <3>2, <4>1
    <3> QED BY <3>1, <3>2
  <2> QED BY <2>2, <2>3, <2>4, <2>8, <2>12
<1> QED BY <1>1, <1>2

-----------------------------------------------------------------------------
\* Induction, on a set of numbers.
LEMMA NatSetInduction ==
    ASSUME NEW T, 0 \in T, \A n \in Nat : n \in T => n + 1 \in T
    PROVE  Nat \subseteq T
<1>1. SUFFICES ASSUME Nat \ T # {} PROVE FALSE
  OBVIOUS
<1>2. IsWellFoundedOn(OpToRel(<, Nat), Nat)
  BY NatLessThanWellFounded
<1>3. PICK x \in Nat \ T : \A y \in Nat \ T : ~(<<y, x>> \in OpToRel(<, Nat))
  <2> DEFINE R == OpToRel(<, Nat)
  <2>1. IsWellFoundedOn(R, Nat)
    BY <1>2
  <2>2. Nat \ T \subseteq Nat
    OBVIOUS
  <2> HIDE DEF R
  <2>3. \E x \in Nat \ T : \A y \in Nat \ T : ~(<<y, x>> \in R)
    BY <1>1, <2>1, <2>2, WFMin
  <2> QED BY <2>3 DEF R
<1>4. \A y \in Nat \ T : ~(y < x)
  BY <1>3 DEF OpToRel
<1>5. x # 0 /\ x - 1 \in Nat /\ x - 1 < x /\ (x - 1) + 1 = x
  OBVIOUS
<1> QED BY <1>4, <1>5

\* Of a set of numbers that is not empty, the least.
LEMMA LeastOf ==
    ASSUME NEW T, T \subseteq Nat, T # {}
    PROVE  \E m \in T : \A n \in T : m <= n
<1> DEFINE R == OpToRel(<, Nat)
<1>1. IsWellFoundedOn(R, Nat)
  BY NatLessThanWellFounded
<1> HIDE DEF R
<1>2. PICK m \in T : \A n \in T : ~(<<n, m>> \in R)
  BY <1>1, WFMin
<1>3. \A n \in T : ~(n < m)
  BY <1>2 DEF R, OpToRel
<1> QED BY <1>3

-----------------------------------------------------------------------------
\* Where q holds e.
Positions(q, e) == {i \in DOMAIN q : q[i] = e}

LEMMA PositionsFinite ==
    ASSUME NEW S, NEW q \in Seq(S), NEW e
    PROVE  /\ IsFiniteSet(Positions(q, e)) /\ Cardinality(Positions(q, e)) \in Nat
           /\ Cardinality(Positions(q, e)) = 0 <=> e \notin ToSet(q)
<1>1. Len(q) \in Nat /\ DOMAIN q = 1 .. Len(q)
  BY LenProperties
<1>2. IsFiniteSet(1 .. Len(q))
  BY <1>1, FS_Interval
<1>3. Positions(q, e) \subseteq 1 .. Len(q)
  BY <1>1 DEF Positions
<1>4. IsFiniteSet(Positions(q, e)) /\ Cardinality(Positions(q, e)) \in Nat
  BY <1>2, <1>3, FS_Subset, FS_CardinalityType
<1>5. Cardinality(Positions(q, e)) = 0 <=> Positions(q, e) = {}
  BY <1>4, FS_EmptySet
<1>6. Positions(q, e) = {} <=> e \notin ToSet(q)
  BY DEF Positions, ToSet
<1> QED BY <1>4, <1>5, <1>6

\* p is q without its element k: it holds every other element as often.
LEMMA OneLess ==
    ASSUME NEW S, NEW q \in Seq(S), NEW p \in Seq(S), NEW k \in 1 .. Len(q),
           Len(p) = Len(q) - 1,
           \A i \in 1 .. Len(q) - 1 : p[i] = IF i < k THEN q[i] ELSE q[i + 1],
           NEW e
    PROVE  Cardinality(Positions(q, e)) =
              Cardinality(Positions(p, e)) + (IF q[k] = e THEN 1 ELSE 0)
<1> DEFINE Was(i) == IF i < k THEN i ELSE i + 1
           f == [i \in Positions(p, e) |-> Was(i)]
<1>1. /\ Len(q) \in Nat /\ DOMAIN q = 1 .. Len(q) /\ DOMAIN p = 1 .. Len(q) - 1
      /\ k \in Nat /\ 1 <= k /\ k <= Len(q)
  BY LenProperties
<1>2. \A i \in 1 .. Len(q) - 1 : Was(i) \in 1 .. Len(q) /\ Was(i) # k /\ p[i] = q[Was(i)]
  BY <1>1
<1>3. \A i, j \in 1 .. Len(q) - 1 : Was(i) = Was(j) => i = j
  BY <1>1
<1>4. \A j \in 1 .. Len(q) : j # k => \E i \in 1 .. Len(q) - 1 : Was(i) = j
  <2> SUFFICES ASSUME NEW j \in 1 .. Len(q), j # k
               PROVE  \E i \in 1 .. Len(q) - 1 : Was(i) = j
    OBVIOUS
  <2>1. CASE j < k
    BY <1>1, <2>1
  <2>2. CASE j > k
    <3>1. j - 1 \in 1 .. Len(q) - 1 /\ Was(j - 1) = j
      BY <1>1, <2>2
    <3> QED BY <3>1
  <2> QED BY <1>1, <2>1, <2>2
<1> HIDE DEF Was
<1>5. f \in Bijection(Positions(p, e), Positions(q, e) \ {k})
  <2>1. \A i \in Positions(p, e) : i \in 1 .. Len(q) - 1 /\ p[i] = e
    BY <1>1 DEF Positions
  <2>2. \A i \in Positions(p, e) : Was(i) \in Positions(q, e) \ {k}
    BY <1>1, <1>2, <2>1 DEF Positions
  <2>3. f \in [Positions(p, e) -> Positions(q, e) \ {k}]
    BY <2>2
  <2>4. \A i, j \in Positions(p, e) : f[i] = f[j] => i = j
    BY <1>3, <2>1
  <2>5. ASSUME NEW j \in Positions(q, e) \ {k} PROVE \E i \in Positions(p, e) : f[i] = j
    <3>1. j \in 1 .. Len(q) /\ j # k /\ q[j] = e
      BY <1>1 DEF Positions
    <3>2. PICK i \in 1 .. Len(q) - 1 : Was(i) = j
      BY <1>4, <3>1
    <3>3. p[i] = e
      BY <1>2, <3>1, <3>2
    <3>4. i \in Positions(p, e)
      BY <1>1, <3>3 DEF Positions
    <3> QED BY <3>2, <3>4
  <2> HIDE DEF f
  <2> QED BY <2>3, <2>4, <2>5 DEF Bijection, Injection, Surjection, IsInjective
<1>6. IsFiniteSet(Positions(p, e)) /\ IsFiniteSet(Positions(q, e))
  BY PositionsFinite
<1>7. Cardinality(Positions(q, e) \ {k}) = Cardinality(Positions(p, e))
  <2> HIDE DEF f
  <2>1. ExistsBijection(Positions(p, e), Positions(q, e) \ {k})
    BY <1>5 DEF ExistsBijection
  <2> QED BY <1>6, <2>1, FS_Bijection
<1>8. k \in Positions(q, e) <=> q[k] = e
  BY <1>1 DEF Positions
<1>9. Cardinality(Positions(q, e) \ {k}) =
         IF k \in Positions(q, e) THEN Cardinality(Positions(q, e)) - 1 ELSE Cardinality(Positions(q, e))
  BY <1>6, FS_RemoveElement
<1>10. Cardinality(Positions(p, e)) \in Nat /\ Cardinality(Positions(q, e)) \in Nat
  BY PositionsFinite
<1> QED BY <1>7, <1>8, <1>9, <1>10

\* Tail, Append and the like, as what they make of the number of times that an
\* element is there.
LEMMA CountTail ==
    ASSUME NEW S, NEW q \in Seq(S), q # <<>>, NEW e
    PROVE  Cardinality(Positions(q, e)) =
              Cardinality(Positions(Tail(q), e)) + (IF Head(q) = e THEN 1 ELSE 0)
<1>1. PICK p : p = Tail(q)
  OBVIOUS
<1>2. /\ p \in Seq(S) /\ Len(p) = Len(q) - 1 /\ Head(q) = q[1] /\ Len(q) \in Nat \ {0}
      /\ \A i \in 1 .. Len(q) - 1 : p[i] = q[i + 1]
  BY <1>1, HeadTailProperties, EmptySeq
<1>3. 1 \in 1 .. Len(q) /\ \A i \in 1 .. Len(q) - 1 : p[i] = IF i < 1 THEN q[i] ELSE q[i + 1]
  BY <1>2
<1>4. Cardinality(Positions(q, e)) = Cardinality(Positions(p, e)) + (IF q[1] = e THEN 1 ELSE 0)
  BY <1>2, <1>3, OneLess
<1> QED BY <1>1, <1>2, <1>4

LEMMA CountAppend ==
    ASSUME NEW S, NEW q \in Seq(S), NEW x \in S, NEW e
    PROVE  Cardinality(Positions(Append(q, x), e)) =
              Cardinality(Positions(q, e)) + (IF x = e THEN 1 ELSE 0)
<1>1. PICK r : r = Append(q, x)
  OBVIOUS
<1>2. /\ r \in Seq(S) /\ Len(r) = Len(q) + 1 /\ Len(q) \in Nat /\ r[Len(q) + 1] = x
      /\ \A i \in 1 .. Len(q) : r[i] = q[i]
  BY <1>1, AppendProperties
<1>3. PICK k : k = Len(q) + 1
  OBVIOUS
<1>4. /\ k \in 1 .. Len(r) /\ Len(q) = Len(r) - 1 /\ r[k] = x
      /\ \A i \in 1 .. Len(r) - 1 : q[i] = IF i < k THEN r[i] ELSE r[i + 1]
  BY <1>2, <1>3
<1>5. Cardinality(Positions(r, e)) = Cardinality(Positions(q, e)) + (IF r[k] = e THEN 1 ELSE 0)
  BY <1>2, <1>4, OneLess
<1> QED BY <1>1, <1>4, <1>5

LEMMA CountPrepend ==
    ASSUME NEW S, NEW q \in Seq(S), NEW x \in S, NEW e
    PROVE  /\ <<x>> \o q \in Seq(S)
           /\ Cardinality(Positions(<<x>> \o q, e)) =
                 Cardinality(Positions(q, e)) + (IF x = e THEN 1 ELSE 0)
<1>1. PICK r : r = <<x>> \o q
  OBVIOUS
<1>2. <<x>> \in Seq(S) /\ Len(<<x>>) = 1 /\ <<x>>[1] = x /\ Len(q) \in Nat
  OBVIOUS
<1>3. /\ r \in Seq(S) /\ Len(r) = 1 + Len(q)
      /\ \A i \in 1 .. 1 + Len(q) : r[i] = IF i <= 1 THEN <<x>>[i] ELSE q[i - 1]
  BY <1>1, <1>2, ConcatProperties
<1>4. /\ 1 \in 1 .. Len(r) /\ Len(q) = Len(r) - 1 /\ r[1] = x
      /\ \A i \in 1 .. Len(r) - 1 : q[i] = r[i + 1] /\ ~(i < 1)
  BY <1>2, <1>3
<1>5. Cardinality(Positions(r, e)) = Cardinality(Positions(q, e)) + (IF r[1] = e THEN 1 ELSE 0)
  BY <1>3, <1>4, OneLess
<1> QED BY <1>1, <1>3, <1>4, <1>5

\* RemoveFirst takes one of the elements.
LEMMA CountRemoveFirst ==
    ASSUME NEW S, NEW q \in Seq(S), NEW x \in ToSet(q), NEW e
    PROVE  /\ RemoveFirst(q, x) \in Seq(S)
           /\ Cardinality(Positions(q, e)) =
                 Cardinality(Positions(RemoveFirst(q, x), e)) + (IF x = e THEN 1 ELSE 0)
<1>1. Positions(q, x) # {} /\ Positions(q, x) \subseteq 1 .. Len(q) /\ Positions(q, x) \subseteq Nat
  BY DEF Positions, ToSet
<1>2. PICK k \in Positions(q, x) : \A n \in Positions(q, x) : k <= n
  BY <1>1, LeastOf
<1>3. SelectInSeq(q, LAMBDA v : v = x) = k
  <2>1. Positions(q, x) = {i \in 1 .. Len(q) : q[i] = x}
    BY DEF Positions
  <2>2. \A j \in Positions(q, x) : (\A n \in Positions(q, x) : j <= n) => j = k
    BY <1>1, <1>2
  <2>3. (CHOOSE j \in Positions(q, x) : \A n \in Positions(q, x) : j <= n) = k
    BY <1>2, <2>2
  <2> QED BY <1>1, <2>1, <2>3 DEF SelectInSeq, Min
<1>4. k \in 1 .. Len(q) /\ q[k] = x
  BY <1>1, <1>2 DEF Positions
<1>5. RemoveFirst(q, x) = RemoveAt(q, k)
  BY <1>3, <1>4 DEF RemoveFirst
<1>6. PICK p : p = RemoveAt(q, k)
  OBVIOUS
<1>7. /\ p \in Seq(S) /\ Len(p) = Len(q) - 1
      /\ \A i \in 1 .. Len(q) - 1 : p[i] = IF i < k THEN q[i] ELSE q[i + 1]
  BY <1>4, <1>6, RemoveAtOf
<1>8. Cardinality(Positions(q, e)) = Cardinality(Positions(p, e)) + (IF q[k] = e THEN 1 ELSE 0)
  BY <1>4, <1>7, OneLess
<1> QED BY <1>4, <1>5, <1>6, <1>7, <1>8

-----------------------------------------------------------------------------
\* The sum of a function's values, as MapThenSumSet adds them: one element of the
\* domain at a time.
SumOf(f) == MapThenSumSet(LAMBDA v : f[v], DOMAIN f)

First(s) == CHOOSE x \in s : TRUE

\* What the sums of f over the subsets of its domain have to be.
Adds(f, g) ==
    g = [s \in SUBSET DOMAIN f |-> IF s = {} THEN 0 ELSE f[First(s)] + g[s \ {First(s)}]]

LEMMA SumOfIs ==
    ASSUME NEW f
    PROVE  SumOf(f) = (CHOOSE g : Adds(f, g))[DOMAIN f]
BY DEF SumOf, MapThenSumSet, MapThenFoldSet, Adds, First

\* Of a finite set, what holds of the empty set and of every set with one element
\* less holds of the set.
LEMMA SubsetsByOne ==
    ASSUME NEW S, IsFiniteSet(S), NEW T, {} \in T,
           \A s \in SUBSET S : s # {} /\ s \ {First(s)} \in T => s \in T
    PROVE  SUBSET S \subseteq T
<1> DEFINE N == {n \in Nat : \A s \in SUBSET S : Cardinality(s) = n => s \in T}
<1>1. \A s \in SUBSET S : IsFiniteSet(s) /\ Cardinality(s) \in Nat
  BY FS_Subset, FS_CardinalityType
<1>2. 0 \in N
  BY <1>1, FS_EmptySet
<1>3. ASSUME NEW n \in Nat, n \in N PROVE n + 1 \in N
  <2> SUFFICES ASSUME NEW s \in SUBSET S, Cardinality(s) = n + 1 PROVE s \in T
    OBVIOUS
  <2>1. s # {}
    BY FS_EmptySet
  <2>2. First(s) \in s
    BY <2>1 DEF First
  <2>3. Cardinality(s \ {First(s)}) = Cardinality(s) - 1
    BY <1>1, <2>2, FS_RemoveElement
  <2>4. Cardinality(s \ {First(s)}) = n /\ s \ {First(s)} \in SUBSET S
    BY <2>3
  <2>5. s \ {First(s)} \in T
    BY <1>3, <2>4
  <2> QED BY <2>1, <2>5
<1> HIDE DEF N
<1>4. Nat \subseteq N
  BY <1>2, <1>3, NatSetInduction
<1>5. ASSUME NEW s \in SUBSET S PROVE s \in T
  BY <1>1, <1>4 DEF N
<1> QED BY <1>5

\* There are such sums: for the sets of up to n elements there are, for every n.
LEMMA AddsExists ==
    ASSUME NEW S, IsFiniteSet(S), NEW f \in [S -> Int]
    PROVE  \E g : Adds(f, g)
<1> DEFINE Small(n) == {s \in SUBSET S : Cardinality(s) <= n}
           Sum(g, s) == IF s = {} THEN 0 ELSE f[First(s)] + g[s \ {First(s)}]
           N == {n \in Nat : \E g : g = [s \in Small(n) |-> Sum(g, s)]}
<1>1. \A s \in SUBSET S : /\ IsFiniteSet(s) /\ Cardinality(s) \in Nat
                          /\ Cardinality(s) = 0 <=> s = {}
  BY FS_Subset, FS_CardinalityType, FS_EmptySet
<1>2. \A s \in SUBSET S : s # {} =>
          First(s) \in s /\ s \ {First(s)} \in SUBSET S
          /\ Cardinality(s \ {First(s)}) = Cardinality(s) - 1
  BY <1>1, FS_RemoveElement DEF First
<1>3. 0 \in N
  <2>1. Small(0) = {{}}
    BY <1>1
  <2> DEFINE g == [s \in Small(0) |-> 0]
  <2>2. g = [s \in Small(0) |-> Sum(g, s)]
    BY <2>1
  <2> QED BY <2>2
<1>4. ASSUME NEW n \in Nat, n \in N PROVE n + 1 \in N
  <2>1. PICK g : g = [s \in Small(n) |-> Sum(g, s)]
    BY <1>4
  <2> DEFINE h == [s \in Small(n + 1) |-> Sum(g, s)]
  <2>2. \A s \in Small(n + 1) : s # {} => s \ {First(s)} \in Small(n)
    BY <1>1, <1>2
  <2>3. \A s \in Small(n) : s \in Small(n + 1) /\ h[s] = g[s]
    <3> SUFFICES ASSUME NEW s \in Small(n) PROVE s \in Small(n + 1) /\ h[s] = g[s]
      OBVIOUS
    <3>1. s \in Small(n + 1)
      BY <1>1
    <3>2. g[s] = Sum(g, s)
      BY <2>1
    <3> QED BY <3>1, <3>2
  <2> HIDE DEF Small
  <2>4. \A s \in Small(n + 1) : Sum(h, s) = Sum(g, s)
    BY <2>2, <2>3
  <2> HIDE DEF Sum
  <2>5. h = [s \in Small(n + 1) |-> Sum(h, s)]
    BY <2>4
  <2> HIDE DEF h
  <2> QED BY <2>5
<1> HIDE DEF N
<1>5. Nat \subseteq N
  BY <1>3, <1>4, NatSetInduction
<1>6. Cardinality(S) \in N
  BY <1>5, FS_CardinalityType
<1>7. PICK g : g = [s \in Small(Cardinality(S)) |-> Sum(g, s)]
  BY <1>6 DEF N
<1>8. Small(Cardinality(S)) = SUBSET S
  BY FS_Subset
<1>9. g = [s \in SUBSET S |-> Sum(g, s)]
  BY <1>7, <1>8
<1>10. DOMAIN f = S
  OBVIOUS
<1> QED BY <1>9, <1>10 DEF Adds

LEMMA SumsAre ==
    ASSUME NEW S, IsFiniteSet(S), NEW f \in [S -> Int]
    PROVE  \E g \in [SUBSET S -> Int] :
              /\ SumOf(f) = g[S] /\ g[{}] = 0
              /\ \A s \in SUBSET S : s # {} =>
                    g[s] = f[First(s)] + g[s \ {First(s)}] /\ First(s) \in s
<1>1. PICK g : g = (CHOOSE h : Adds(f, h))
  OBVIOUS
<1>2. Adds(f, g)
  BY <1>1, AddsExists
<1>3. g = [s \in SUBSET S |-> IF s = {} THEN 0 ELSE f[First(s)] + g[s \ {First(s)}]]
  BY <1>2 DEF Adds
<1>4. g[{}] = 0
  BY <1>3
<1>5. \A s \in SUBSET S : s # {} => g[s] = f[First(s)] + g[s \ {First(s)}] /\ First(s) \in s
  BY <1>3 DEF First
<1>6. SUBSET S \subseteq {s \in SUBSET S : g[s] \in Int}
  <2> DEFINE T == {s \in SUBSET S : g[s] \in Int}
  <2>1. {} \in T
    BY <1>4
  <2>2. \A s \in SUBSET S : s # {} /\ s \ {First(s)} \in T => s \in T
    BY <1>5
  <2> HIDE DEF T
  <2>3. SUBSET S \subseteq T
    BY <2>1, <2>2, SubsetsByOne
  <2> QED BY <2>3 DEF T
<1>7. g \in [SUBSET S -> Int]
  BY <1>3, <1>6
<1>8. SumOf(f) = g[S]
  BY <1>1, SumOfIs
<1> QED BY <1>4, <1>5, <1>7, <1>8

LEMMA SumOfZeros ==
    ASSUME NEW S, IsFiniteSet(S)
    PROVE  SumOf([v \in S |-> 0]) = 0
<1>1. PICK f : f = [v \in S |-> 0]
  OBVIOUS
<1>2. f \in [S -> Int]
  BY <1>1
<1>3. PICK g \in [SUBSET S -> Int] :
         /\ SumOf(f) = g[S] /\ g[{}] = 0
         /\ \A s \in SUBSET S : s # {} => g[s] = f[First(s)] + g[s \ {First(s)}] /\ First(s) \in s
  BY <1>2, SumsAre
<1> DEFINE T == {s \in SUBSET S : g[s] = 0}
<1>4. {} \in T
  BY <1>3
<1>5. \A s \in SUBSET S : s # {} /\ s \ {First(s)} \in T => s \in T
  BY <1>1, <1>3
<1> HIDE DEF T
<1>6. S \in T
  BY <1>4, <1>5, SubsetsByOne
<1> QED BY <1>1, <1>3, <1>6 DEF T

\* One summand changes, and by as much the sum.
LEMMA SumOfChange ==
    ASSUME NEW S, IsFiniteSet(S), NEW f \in [S -> Int], NEW v \in S, NEW d \in Int
    PROVE  SumOf([f EXCEPT ![v] = @ + d]) = SumOf(f) + d /\ SumOf(f) \in Int
<1>1. PICK e : e = [f EXCEPT ![v] = @ + d]
  OBVIOUS
<1>2. e \in [S -> Int] /\ e[v] = f[v] + d /\ \A w \in S : w # v => e[w] = f[w]
  BY <1>1
<1>3. PICK g \in [SUBSET S -> Int] :
         /\ SumOf(f) = g[S] /\ g[{}] = 0
         /\ \A s \in SUBSET S : s # {} => g[s] = f[First(s)] + g[s \ {First(s)}] /\ First(s) \in s
  BY SumsAre
<1>4. PICK h \in [SUBSET S -> Int] :
         /\ SumOf(e) = h[S] /\ h[{}] = 0
         /\ \A s \in SUBSET S : s # {} => h[s] = e[First(s)] + h[s \ {First(s)}] /\ First(s) \in s
  BY <1>2, SumsAre
<1> DEFINE T == {s \in SUBSET S : h[s] = IF v \in s THEN g[s] + d ELSE g[s]}
<1>5. {} \in T
  BY <1>3, <1>4
<1>6. ASSUME NEW s \in SUBSET S, s # {}, s \ {First(s)} \in T PROVE s \in T
  <2>1. PICK x \in s : x = First(s)
    BY <1>3, <1>6
  <2>2. PICK r \in SUBSET S : r = s \ {x}
    OBVIOUS
  <2>3. g[s] = f[x] + g[r] /\ h[s] = e[x] + h[r] /\ x \in S
    BY <1>3, <1>4, <1>6, <2>1, <2>2
  <2>4. h[r] = IF v \in r THEN g[r] + d ELSE g[r]
    BY <1>6, <2>1, <2>2
  <2>5. f[x] \in Int /\ g[r] \in Int /\ e[x] \in Int
    BY <1>2, <2>3
  <2>6. CASE x = v
    <3>1. v \notin r /\ v \in s
      BY <2>2, <2>6
    <3>2. h[s] = (f[x] + d) + g[r]
      BY <1>2, <2>3, <2>4, <2>6, <3>1
    <3>3. h[s] = g[s] + d
      BY <2>3, <2>5, <3>2
    <3> QED BY <3>1, <3>3
  <2>7. CASE x # v
    <3>1. v \in r <=> v \in s
      BY <2>2, <2>7
    <3>2. h[s] = f[x] + h[r]
      BY <1>2, <2>3, <2>7
    <3> QED BY <2>3, <2>4, <2>5, <3>1, <3>2
  <2> QED BY <2>6, <2>7
<1> HIDE DEF T
<1>7. S \in T
  BY <1>5, <1>6, SubsetsByOne
<1>8. h[S] = g[S] + d
  BY <1>7 DEF T
<1> QED BY <1>1, <1>3, <1>4, <1>8
-----------------------------------------------------------------------------
\* SetToSeq puts every element of a finite set into the sequence, once.
LEMMA SetToSeqOf ==
    ASSUME NEW S, IsFiniteSet(S)
    PROVE  /\ SetToSeq(S) \in Seq(S) /\ Distinct(SetToSeq(S)) /\ ToSet(SetToSeq(S)) = S
           /\ Len(SetToSeq(S)) = Cardinality(S)
<1>1. PICK n \in Nat : n = Cardinality(S)
  BY FS_CardinalityType
<1>2. PICK f : f \in Bijection(1 .. n, S)
  BY <1>1, FS_CardinalityType DEF ExistsBijection
<1>3. f \in [1 .. n -> S] /\ IsInjective(f)
  BY <1>2 DEF Bijection, Injection
<1>4. PICK q : q = SetToSeq(S)
  OBVIOUS
<1>5. q \in [1 .. n -> S] /\ IsInjective(q)
  BY <1>1, <1>3, <1>4 DEF SetToSeq
<1>6. q \in Seq(S) /\ Len(q) = n /\ DOMAIN q = 1 .. n
  BY <1>5
<1>7. Distinct(q)
  BY <1>5, <1>6 DEF Distinct, IsInjective
<1>8. IsFiniteSet(1 .. n) /\ Cardinality(1 .. n) = n
  BY FS_Interval
<1>9. q \in Surjection(1 .. n, S)
  <2>1. q \in Injection(1 .. n, S)
    BY <1>5 DEF Injection
  <2> QED BY <1>1, <1>8, <2>1, FS_Injection
<1>10. ToSet(q) = S
  BY <1>6, <1>9 DEF Surjection, ToSet
<1> QED BY <1>1, <1>4, <1>6, <1>7, <1>10

LEMMA ConcatSet ==
    ASSUME NEW S, NEW p \in Seq(S), NEW q \in Seq(S)
    PROVE  /\ p \o q \in Seq(S) /\ ToSet(p \o q) = ToSet(p) \cup ToSet(q)
           /\ Distinct(p) /\ Distinct(q) /\ ToSet(p) \cap ToSet(q) = {} => Distinct(p \o q)
<1>1. PICK r, m, n : r = p \o q /\ m = Len(p) /\ n = Len(q) /\ m \in Nat /\ n \in Nat
  BY LenProperties
<1>2. /\ r \in Seq(S) /\ Len(r) = m + n
      /\ \A i \in 1 .. m + n : r[i] = IF i <= m THEN p[i] ELSE q[i - m]
  BY <1>1, ConcatProperties
<1>3. /\ ToSet(p) = {p[i] : i \in 1 .. m} /\ ToSet(q) = {q[i] : i \in 1 .. n}
      /\ ToSet(r) = {r[i] : i \in 1 .. m + n}
  BY <1>1, <1>2, LenProperties DEF ToSet
<1>4. \A i \in 1 .. m : i \in 1 .. m + n /\ r[i] = p[i]
  BY <1>1, <1>2
<1>5. \A i \in 1 .. n : m + i \in 1 .. m + n /\ r[m + i] = q[i]
  <2> SUFFICES ASSUME NEW i \in 1 .. n PROVE m + i \in 1 .. m + n /\ r[m + i] = q[i]
    OBVIOUS
  <2>1. m + i \in 1 .. m + n /\ ~(m + i <= m) /\ (m + i) - m = i
    BY <1>1
  <2> QED BY <1>2, <2>1
<1>6. \A i \in 1 .. m + n : i \in 1 .. m \/ \E j \in 1 .. n : i = m + j
  <2> SUFFICES ASSUME NEW i \in 1 .. m + n, i \notin 1 .. m PROVE \E j \in 1 .. n : i = m + j
    OBVIOUS
  <2>1. i - m \in 1 .. n /\ i = m + (i - m)
    BY <1>1
  <2> QED BY <2>1
<1>7. ToSet(r) = ToSet(p) \cup ToSet(q)
  <2>1. ToSet(p) \subseteq ToSet(r) /\ ToSet(q) \subseteq ToSet(r)
    BY <1>3, <1>4, <1>5
  <2>2. ASSUME NEW x \in ToSet(r) PROVE x \in ToSet(p) \cup ToSet(q)
    <3>1. PICK i \in 1 .. m + n : x = r[i]
      BY <1>3
    <3> QED BY <1>3, <1>4, <1>5, <1>6, <3>1
  <2> QED BY <2>1, <2>2
<1>8. ASSUME Distinct(p), Distinct(q), ToSet(p) \cap ToSet(q) = {} PROVE Distinct(r)
  <2> SUFFICES ASSUME NEW i \in 1 .. m + n, NEW j \in 1 .. m + n, r[i] = r[j] PROVE i = j
    BY <1>2 DEF Distinct
  <2>1. \A k \in 1 .. m : p[k] \in ToSet(p)
    BY <1>3
  <2>2. \A k \in 1 .. n : q[k] \in ToSet(q)
    BY <1>3
  <2>3. CASE i \in 1 .. m /\ j \in 1 .. m
    BY <1>1, <1>4, <1>8, <2>3 DEF Distinct
  <2>4. CASE i \notin 1 .. m /\ j \notin 1 .. m
    <3>1. PICK k \in 1 .. n, l \in 1 .. n : i = m + k /\ j = m + l
      BY <1>6, <2>4
    <3>2. q[k] = q[l]
      BY <1>5, <3>1
    <3>3. k = l
      BY <1>1, <1>8, <3>2 DEF Distinct
    <3> QED BY <3>1, <3>3
  <2>5. CASE i \in 1 .. m /\ j \notin 1 .. m
    BY <1>4, <1>5, <1>6, <1>8, <2>1, <2>2, <2>5
  <2>6. CASE i \notin 1 .. m /\ j \in 1 .. m
    BY <1>4, <1>5, <1>6, <1>8, <2>1, <2>2, <2>6
  <2> QED BY <2>3, <2>4, <2>5, <2>6
<1> QED BY <1>1, <1>2, <1>7, <1>8

\* A function of the numbers up to n that is defined by its value at 0 and by what
\* each value makes of the one before.
Iterated(K, x, R, n, g) ==
    g \in [0 .. n -> K] /\ g[0] = x /\ \A i \in 1 .. n : g[i] = R[g[i - 1]]

LEMMA Iterates ==
    ASSUME NEW K, NEW x \in K, NEW R \in [K -> K], NEW n \in Nat
    PROVE  \E g : Iterated(K, x, R, n, g)
<1> DEFINE T == {m \in Nat : \E g : Iterated(K, x, R, m, g)}
<1>1. 0 \in T
  <2>1. Iterated(K, x, R, 0, [i \in 0 .. 0 |-> x])
    BY DEF Iterated
  <2> QED BY <2>1
<1>2. ASSUME NEW m \in Nat, m \in T PROVE m + 1 \in T
  <2>1. PICK g : g \in [0 .. m -> K] /\ g[0] = x /\ \A i \in 1 .. m : g[i] = R[g[i - 1]]
    BY <1>2 DEF Iterated
  <2>2. PICK h : h = [i \in 0 .. m + 1 |-> IF i = m + 1 THEN R[g[m]] ELSE g[i]]
    OBVIOUS
  <2>3. h \in [0 .. m + 1 -> K] /\ h[m + 1] = R[g[m]] /\ \A i \in 0 .. m : h[i] = g[i]
    BY <2>1, <2>2
  <2>4. h[0] = x
    BY <2>1, <2>3
  <2>5. ASSUME NEW i \in 1 .. m + 1 PROVE h[i] = R[h[i - 1]]
    <3>1. CASE i = m + 1
      <4>1. i - 1 = m
        BY <3>1
      <4> QED BY <2>3, <3>1, <4>1
    <3>2. CASE i # m + 1
      <4>1. i \in 1 .. m /\ i \in 0 .. m /\ i - 1 \in 0 .. m
        BY <3>2
      <4> QED BY <2>1, <2>3, <4>1
    <3> QED BY <3>1, <3>2
  <2>6. Iterated(K, x, R, m + 1, h)
    BY <2>3, <2>4, <2>5 DEF Iterated
  <2> QED BY <2>6
<1> HIDE DEF T
<1>3. Nat \subseteq T
  BY <1>1, <1>2, NatSetInduction
<1> QED BY <1>3 DEF T
===============================================================================
