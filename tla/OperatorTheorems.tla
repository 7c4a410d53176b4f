-------------------------- MODULE OperatorTheorems --------------------------
(***************************************************************************)
(* What the operators that the components share return: Count, when a      *)
(* sequence grows at its end or loses an element, Power and GetDelayTime.  *)
(*                                                                         *)
(* Induction is stated for a set (SetInduction): a recursive function is   *)
(* first shown to exist, as the limit of the functions on 0..n, and then   *)
(* unfolds the way it is written (PowerUnfolds).                           *)
(***************************************************************************)
EXTENDS Counting, DelayTime, SequencesExt, TLAPS,
        FiniteSetTheorems, FunctionTheorems, SequenceTheorems,
        WellFoundedInduction

\* Induction over the natural numbers, for a set.
LEMMA SetInduction ==
    ASSUME NEW S, 0 \in S, \A n \in Nat : n \in S => n + 1 \in S
    PROVE  Nat \subseteq S
<1> DEFINE T == Nat \ S
<1>1. SUFFICES ASSUME T # {} PROVE FALSE
  OBVIOUS
<1>2. IsWellFoundedOn({p \in Nat \X Nat : p[1] < p[2]}, Nat)
  BY NatLessThanWellFounded DEF OpToRel
<1>3. PICK x \in T : \A y \in T : ~ (<<y, x>> \in {p \in Nat \X Nat : p[1] < p[2]})
  <2>1. T \subseteq Nat
    OBVIOUS
  <2> HIDE DEF T
  <2> QED
    BY <1>1, <1>2, <2>1, WFMin
<1>4. x \in Nat /\ x # 0 /\ x - 1 \in Nat
  OBVIOUS
<1>5. x - 1 \in S
  <2>1. x - 1 < x /\ <<x - 1, x>> \in Nat \X Nat
    BY <1>4
  <2> QED
    BY <1>3, <1>4, <2>1
<1> QED
  BY <1>4, <1>5

-----------------------------------------------------------------------------
(* Occurrences in a sequence. *)

\* The occurrences of x in a finite sequence are finitely many.
LEMMA CountType ==
    ASSUME NEW S, NEW s \in Seq(S), NEW x
    PROVE  /\ IsFiniteSet({i \in DOMAIN s : s[i] = x})
           /\ Count(s, x) \in Nat
<1>1. IsFiniteSet(1..Len(s))
  BY FS_Interval, LenProperties
<1>2. {i \in DOMAIN s : s[i] = x} \in SUBSET (1..Len(s))
  BY LenProperties
<1>3. IsFiniteSet({i \in DOMAIN s : s[i] = x})
  BY <1>1, <1>2, FS_Subset
<1> QED
  BY <1>3, FS_CardinalityType DEF Count

\* A value counts zero exactly when it does not occur.
LEMMA CountZero ==
    ASSUME NEW S, NEW s \in Seq(S), NEW x
    PROVE  Count(s, x) = 0 <=> ~ Contains(s, x)
<1>1. IsFiniteSet({i \in DOMAIN s : s[i] = x})
  BY CountType
<1>2. Count(s, x) = 0 <=> {i \in DOMAIN s : s[i] = x} = {}
  BY <1>1, FS_EmptySet DEF Count
<1> QED
  BY <1>2, LenProperties DEF Contains

\* The empty sequence has no occurrence of anything.
LEMMA CountEmpty ==
    ASSUME NEW x
    PROVE  Count(<<>>, x) = 0
<1>1. {i \in DOMAIN <<>> : <<>>[i] = x} = {}
  OBVIOUS
<1> QED
  BY <1>1, FS_EmptySet DEF Count

\* Appending e adds one occurrence of e and of nothing else.
LEMMA CountAppend ==
    ASSUME NEW S, NEW s \in Seq(S), NEW e \in S, NEW x
    PROVE  Count(Append(s, e), x) = Count(s, x) + (IF e = x THEN 1 ELSE 0)
<1> DEFINE A == {i \in DOMAIN s : s[i] = x}
           B == {i \in DOMAIN Append(s, e) : Append(s, e)[i] = x}
           n == Len(s) + 1
<1>1. IsFiniteSet(A) /\ Count(s, x) = Cardinality(A) /\ Cardinality(A) \in Nat
  BY CountType DEF Count
<1>2. /\ DOMAIN s = 1..Len(s) /\ DOMAIN Append(s, e) = 1..n /\ Len(s) \in Nat
      /\ \A i \in 1..Len(s) : Append(s, e)[i] = s[i]
      /\ Append(s, e)[n] = e
  BY LenProperties, AppendProperties
<1>0. Count(Append(s, e), x) = Cardinality(B)
  BY DEF Count
<1> HIDE DEF A, B
<1>3. CASE e = x
  <2>1. B = A \cup {n}
    BY <1>2, <1>3 DEF A, B
  <2>2. n \notin A
    BY <1>2 DEF A
  <2> QED
    BY <2>1, <2>2, <1>0, <1>1, <1>3, FS_AddElement
<1>4. CASE e # x
  <2>1. B = A
    BY <1>2, <1>4 DEF A, B
  <2> QED
    BY <2>1, <1>0, <1>1, <1>4
<1> QED
  BY <1>3, <1>4

\* t is s without its k-th element.
IsDeletion(t, s, k) ==
    /\ k \in 1..Len(s)
    /\ Len(t) = Len(s) - 1
    /\ \A i \in 1..Len(t) : t[i] = IF i < k THEN s[i] ELSE s[i + 1]

\* If t is s without its k-th element, t has one occurrence of s[k] less.
LEMMA CountDelete ==
    ASSUME NEW S, NEW s \in Seq(S), NEW t \in Seq(S), NEW k,
           IsDeletion(t, s, k), NEW x
    PROVE  Count(t, x) = Count(s, x) - (IF s[k] = x THEN 1 ELSE 0)
<1> DEFINE A == {i \in DOMAIN t : t[i] = x}
           B == {i \in DOMAIN s : s[i] = x}
           f == [i \in A |-> IF i < k THEN i ELSE i + 1]
<1>1. /\ IsFiniteSet(A) /\ Count(t, x) = Cardinality(A) /\ Cardinality(A) \in Nat
      /\ IsFiniteSet(B) /\ Count(s, x) = Cardinality(B) /\ Cardinality(B) \in Nat
  BY CountType DEF Count
<1>2. /\ DOMAIN s = 1..Len(s) /\ Len(s) \in Nat
      /\ DOMAIN t = 1..Len(t) /\ Len(t) \in Nat
      /\ k \in 1..Len(s) /\ Len(t) = Len(s) - 1
      /\ \A i \in 1..Len(t) : t[i] = IF i < k THEN s[i] ELSE s[i + 1]
  BY LenProperties DEF IsDeletion
<1>3. f \in [A -> B \ {k}]
  BY <1>2
<1>4. \A i, j \in A : f[i] = f[j] => i = j
  BY <1>2
<1>5. \A j \in B \ {k} : \E i \in A : f[i] = j
  <2> TAKE j \in B \ {k}
  <2> DEFINE i == IF j < k THEN j ELSE j - 1
  <2>1. i \in A /\ f[i] = j
    BY <1>2
  <2> QED
    BY <2>1
<1>6. f \in Bijection(A, B \ {k})
  BY <1>3, <1>4, <1>5, Fun_IsBij
<1>7. Cardinality(B \ {k}) = Cardinality(A)
  BY <1>1, <1>6, FS_Bijection DEF ExistsBijection
<1>8. Cardinality(B \ {k}) = IF k \in B THEN Cardinality(B) - 1 ELSE Cardinality(B)
  BY <1>1, FS_RemoveElement
<1>9. k \in B <=> s[k] = x
  BY <1>2
<1> QED
  BY <1>1, <1>7, <1>8, <1>9

\* Dropping the head removes one occurrence of it.
LEMMA CountTail ==
    ASSUME NEW S, NEW s \in Seq(S), s # <<>>, NEW x
    PROVE  Count(Tail(s), x) = Count(s, x) - (IF Head(s) = x THEN 1 ELSE 0)
<1> DEFINE t == Tail(s)
<1>1. /\ t \in Seq(S) /\ Len(t) = Len(s) - 1
      /\ \A i \in 1..Len(t) : t[i] = s[i + 1]
  BY HeadTailProperties
<1>2. 1 \in 1..Len(s) /\ Head(s) = s[1]
  BY EmptySeq
<1>3. IsDeletion(t, s, 1)
  BY <1>1, <1>2 DEF IsDeletion
<1> HIDE DEF t
<1>4. Count(t, x) = Count(s, x) - (IF s[1] = x THEN 1 ELSE 0)
  BY <1>1, <1>3, CountDelete
<1> USE DEF t
<1> QED
  BY <1>2, <1>4

\* SelectInSeq finds the position of an element that occurs.
LEMMA FirstPosition ==
    ASSUME NEW S, NEW s \in Seq(S), NEW e, Contains(s, e)
    PROVE  LET k == SelectInSeq(s, LAMBDA v : v = e)
           IN  k \in 1..Len(s) /\ s[k] = e
<1> DEFINE I == {i \in 1..Len(s) : s[i] = e}
<1>1. I # {} /\ I \subseteq Nat
  BY LenProperties DEF Contains
<1>2. PICK R : R = {r \in Nat \X Nat : r[1] < r[2]} /\ IsWellFoundedOn(R, Nat)
  BY NatLessThanWellFounded, Zenon DEF OpToRel
<1>3. PICK m \in I : \A j \in I : m =< j
  <2>1. PICK m \in I : \A j \in I : <<j, m>> \notin R
    BY <1>1, <1>2, WFMin
  <2>2. R = {r \in Nat \X Nat : r[1] < r[2]}
    BY <1>2
  <2>3. ASSUME NEW j \in I
        PROVE  m =< j
    <3>1. j \in Nat /\ m \in Nat
      BY <1>1
    <3>2. <<j, m>> \notin R
      BY <2>1, <2>3
    <3>3. ~ (j < m)
      BY <3>1, <3>2, <2>2
    <3> QED
      BY <3>1, <3>3
  <2> QED
    BY <2>3
<1>4. Min(I) \in I
  BY <1>3 DEF Min
<1>5. SelectInSeq(s, LAMBDA v : v = e) = Min(I)
  BY <1>1 DEF SelectInSeq
<1> QED
  BY <1>4, <1>5

\* Removing the first occurrence of e deletes one position, which held e.
LEMMA RemoveFirstProperties ==
    ASSUME NEW S, NEW s \in Seq(S), NEW e, Contains(s, e)
    PROVE  /\ RemoveFirst(s, e) \in Seq(S)
           /\ \E k : IsDeletion(RemoveFirst(s, e), s, k) /\ s[k] = e
<1> DEFINE k == SelectInSeq(s, LAMBDA v : v = e)
           t == SubSeq(s, 1, k - 1)
           u == SubSeq(s, k + 1, Len(s))
<1>1. k \in 1..Len(s) /\ s[k] = e
  BY FirstPosition
<1>2. RemoveFirst(s, e) = t \o u
  BY DEF RemoveFirst, RemoveAt, Contains
<1> HIDE DEF k
<1>3. Len(s) \in Nat /\ \A i \in 1..Len(s) : s[i] \in S
  BY LenProperties, ElementOfSeq
<1>4. /\ t \in Seq(S) /\ Len(t) = k - 1
      /\ \A i \in 1..k - 1 : t[i] = s[i]
  BY <1>1, <1>3, SubSeqProperties
<1>5. /\ u \in Seq(S) /\ Len(u) = Len(s) - k
      /\ \A i \in 1..Len(s) - k : u[i] = s[k + i]
  BY <1>1, <1>3, SubSeqProperties
<1> HIDE DEF t, u
<1>6. /\ t \o u \in Seq(S)
      /\ Len(t \o u) = Len(s) - 1
      /\ \A i \in 1..Len(s) - 1 :
            (t \o u)[i] = IF i < k THEN s[i] ELSE s[i + 1]
  <2>1. /\ t \o u \in Seq(S)
        /\ Len(t \o u) = Len(t) + Len(u)
        /\ \A i \in 1..Len(t) + Len(u) :
              (t \o u)[i] = IF i =< Len(t) THEN t[i] ELSE u[i - Len(t)]
    BY <1>4, <1>5, ConcatProperties
  <2>2. ASSUME NEW i \in 1..Len(s) - 1
        PROVE  (t \o u)[i] = IF i < k THEN s[i] ELSE s[i + 1]
    <3>1. CASE i < k
      BY <1>1, <1>3, <1>4, <1>5, <2>1, <3>1
    <3>2. CASE ~ (i < k)
      <4>1. i - (k - 1) \in 1..Len(s) - k
        BY <1>1, <1>3, <3>2
      <4>2. u[i - (k - 1)] = s[k + (i - (k - 1))]
        BY <1>5, <4>1
      <4>3. k + (i - (k - 1)) = i + 1
        BY <1>1, <1>3
      <4> QED
        BY <1>1, <1>3, <1>4, <1>5, <2>1, <3>2, <4>2, <4>3
    <3> QED
      BY <3>1, <3>2
  <2> QED
    BY <1>1, <1>3, <1>4, <1>5, <2>1, <2>2
<1> QED
  BY <1>1, <1>2, <1>3, <1>6 DEF IsDeletion

\* Removing the first occurrence of e removes one occurrence of e and of nothing
\* else; without an occurrence nothing changes.
LEMMA CountRemoveFirst ==
    ASSUME NEW S, NEW s \in Seq(S), NEW e, NEW x
    PROVE  Count(RemoveFirst(s, e), x) =
             Count(s, x) - (IF Contains(s, e) /\ e = x THEN 1 ELSE 0)
<1>1. CASE Contains(s, e)
  <2>1. PICK t \in Seq(S) : t = RemoveFirst(s, e)
    BY <1>1, RemoveFirstProperties
  <2>2. PICK k : IsDeletion(t, s, k) /\ s[k] = e
    BY <1>1, <2>1, RemoveFirstProperties
  <2>3. Count(t, x) = Count(s, x) - (IF s[k] = x THEN 1 ELSE 0)
    BY <2>2, CountDelete
  <2> QED
    BY <1>1, <2>1, <2>2, <2>3
<1>2. CASE ~ Contains(s, e)
  <2>1. RemoveFirst(s, e) = s
    BY <1>2 DEF RemoveFirst, Contains
  <2>2. Count(s, x) \in Nat
    BY CountType
  <2> QED
    BY <1>2, <2>1, <2>2
<1> QED
  BY <1>1, <1>2

\* RemoveFirst and Tail of a sequence over S are sequences over S.
LEMMA RemoveFirstType ==
    ASSUME NEW S, NEW s \in Seq(S), NEW e
    PROVE  RemoveFirst(s, e) \in Seq(S)
<1>1. CASE Contains(s, e)
  BY <1>1, RemoveFirstProperties
<1>2. CASE ~ Contains(s, e)
  BY <1>2 DEF RemoveFirst, Contains
<1> QED
  BY <1>1, <1>2

-----------------------------------------------------------------------------
(* Products, quotients and powers of natural numbers. *)

\* What the solver knows of products, in the form the proofs cite.
LEMMA ProductFacts ==
    /\ \A a, b \in Nat : a * b \in Nat /\ a * b = b * a
    /\ \A a, b \in Nat : a > 0 /\ b > 0 => a * b > 0
    /\ \A a, b, c \in Nat : a <= b => a * c <= b * c
    /\ \A a, b, c \in Nat : (a * b) * c = a * (b * c)
    /\ \A a, b, c \in Nat : c > 0 /\ a * c <= b * c => a <= b
    /\ \A a, b, c \in Nat : c > 0 /\ a < b => a * c < b * c
<1>1. \A a, b \in Nat : a * b \in Nat /\ a * b = b * a
  OBVIOUS
<1>2. \A a, b \in Nat : a > 0 /\ b > 0 => a * b > 0
  OBVIOUS
<1>3. \A a, b, c \in Nat : a <= b => a * c <= b * c
  OBVIOUS
<1>4. \A a, b, c \in Nat : (a * b) * c = a * (b * c)
  OBVIOUS
<1>5. \A a, b, c \in Nat : c > 0 /\ a * c <= b * c => a <= b
  OBVIOUS
<1>6. \A a, b, c \in Nat : c > 0 /\ a < b => a * c < b * c
  OBVIOUS
<1> QED
  BY <1>1, <1>2, <1>3, <1>4, <1>5, <1>6

\* A product grows with both of its factors.
LEMMA ProductMonotone ==
    ASSUME NEW a \in Nat, NEW b \in Nat, NEW c \in Nat, NEW d \in Nat, a <= b, c <= d
    PROVE  a * c <= b * d
<1>1. a * c <= b * c /\ b * c = c * b /\ c * b <= d * b /\ d * b = b * d
  BY ProductFacts
<1> QED
  BY <1>1, ProductFacts

\* A quotient of natural numbers is the largest whose product fits.
LEMMA QuotientFacts ==
    ASSUME NEW a \in Nat, NEW b \in Nat, b > 0
    PROVE  a \div b \in Nat /\ (a \div b) * b <= a
<1>1. a \div b \in Int /\ (a \div b) * b <= a
  OBVIOUS
<1>2. a < ((a \div b) + 1) * b
  OBVIOUS
<1>3. ASSUME a \div b < 0 PROVE FALSE
  <2>1. PICK q \in Int : q = a \div b /\ q + 1 <= 0
    BY <1>1, <1>3
  <2>2. (q + 1) * b <= 0
    BY <2>1
  <2> QED
    BY <1>2, <2>1, <2>2
<1> QED
  BY <1>1, <1>3

\* g holds the powers of b up to n.
IsPowers(g, b, n) ==
    /\ g \in [0..n -> Nat]
    /\ g[0] = 1
    /\ \A k \in 1..n : g[k] = b * g[k - 1]

\* The powers up to n exist for every n, by induction.
LEMMA PowersExist ==
    ASSUME NEW b \in Nat
    PROVE  \A n \in Nat : \E g : IsPowers(g, b, n)
<1> DEFINE S == {n \in Nat : \E g : IsPowers(g, b, n)}
<1>1. 0 \in S
  <2>1. IsPowers([k \in 0..0 |-> 1], b, 0)
    BY DEF IsPowers
  <2> QED
    BY <2>1
<1>2. ASSUME NEW n \in Nat, n \in S PROVE n + 1 \in S
  <2>1. PICK g : IsPowers(g, b, n)
    BY <1>2
  <2> DEFINE h == [k \in 0..n + 1 |-> IF k = n + 1 THEN b * g[n] ELSE g[k]]
  <2>2. ASSUME NEW k \in 0..n + 1 PROVE h[k] \in Nat
    BY <2>1 DEF IsPowers
  <2>3. ASSUME NEW k \in 1..n + 1 PROVE h[k] = b * h[k - 1]
    BY <2>1 DEF IsPowers
  <2>4. h \in [0..n + 1 -> Nat] /\ h[0] = 1
    BY <2>1, <2>2 DEF IsPowers
  <2> HIDE DEF h
  <2>5. IsPowers(h, b, n + 1)
    BY <2>3, <2>4 DEF IsPowers
  <2> QED
    BY <2>5
<1> HIDE DEF S
<1>3. Nat \subseteq S
  BY <1>1, <1>2, SetInduction
<1> QED
  BY <1>3 DEF S

\* There is one such function for every n, by induction.
LEMMA PowersAgree ==
    ASSUME NEW b \in Nat, NEW n \in Nat, NEW m \in Nat, NEW g, NEW h,
           IsPowers(g, b, n), IsPowers(h, b, m)
    PROVE  \A k \in Nat : k <= n /\ k <= m => g[k] = h[k]
<1> DEFINE S == {k \in Nat : k <= n /\ k <= m => g[k] = h[k]}
<1>1. 0 \in S
  BY DEF IsPowers
<1>2. ASSUME NEW k \in Nat, k \in S PROVE k + 1 \in S
  <2> SUFFICES ASSUME k + 1 <= n, k + 1 <= m PROVE g[k + 1] = h[k + 1]
    OBVIOUS
  <2>1. g[k] = h[k]
    BY <1>2
  <2>2. k + 1 \in 1..n /\ k + 1 \in 1..m /\ (k + 1) - 1 = k
    OBVIOUS
  <2> QED
    BY <2>1, <2>2 DEF IsPowers
<1> HIDE DEF S
<1>3. Nat \subseteq S
  BY <1>1, <1>2, SetInduction
<1> QED
  BY <1>3 DEF S

\* Power unfolds as it is written, and is a natural number.
LEMMA PowerUnfolds ==
    ASSUME NEW b \in Nat
    PROVE  /\ Power(b, 0) = 1
           /\ \A e \in Nat : Power(b, e) \in Nat /\ Power(b, e + 1) = b * Power(b, e)
<1> DEFINE all(f) == f = [e \in Nat |-> IF e = 0 THEN 1 ELSE b * f[e - 1]]
           power == CHOOSE f : all(f)
           pick(e) == CHOOSE g : IsPowers(g, b, e)
           p == [e \in Nat |-> pick(e)[e]]
<1>1. ASSUME NEW e \in Nat PROVE IsPowers(pick(e), b, e)
  BY PowersExist
<1> HIDE DEF pick
<1>2. p[0] = 1 /\ \A e \in Nat : p[e] \in Nat
  BY <1>1 DEF IsPowers
<1>3. ASSUME NEW e \in Nat, e # 0 PROVE p[e] = b * p[e - 1]
  <2>1. e - 1 \in Nat /\ e \in 1..e
    BY <1>3
  <2>2. pick(e)[e] = b * pick(e)[e - 1]
    BY <1>1, <2>1 DEF IsPowers
  <2>3. pick(e)[e - 1] = pick(e - 1)[e - 1]
    BY <1>1, <2>1, PowersAgree
  <2> QED
    BY <2>1, <2>2, <2>3
<1>4. DOMAIN p = Nat /\ p = [e \in Nat |-> p[e]]
  OBVIOUS
<1> HIDE DEF p
<1>5. all(p)
  BY <1>2, <1>3, <1>4
<1>6. all(power)
  BY <1>5
<1> HIDE DEF power
<1>7. power[0] = 1 /\ \A e \in Nat : power[e + 1] = b * power[e]
  BY <1>6
<1> DEFINE S == {e \in Nat : power[e] \in Nat}
<1>8. 0 \in S /\ \A e \in Nat : e \in S => e + 1 \in S
  BY <1>7
<1> HIDE DEF S
<1>9. Nat \subseteq S
  BY <1>8, SetInduction
<1>10. \A e \in Nat : Power(b, e) = power[e]
  BY DEF Power, power
<1> QED
  BY <1>7, <1>9, <1>10 DEF S

\* Powers of a positive number are positive.
LEMMA PowerPositive ==
    ASSUME NEW b \in Nat, b > 0
    PROVE  \A e \in Nat : Power(b, e) \in Nat /\ Power(b, e) > 0
<1> DEFINE S == {e \in Nat : Power(b, e) > 0}
<1>1. 0 \in S /\ \A e \in Nat : e \in S => e + 1 \in S
  BY PowerUnfolds, ProductFacts
<1> HIDE DEF S
<1>2. Nat \subseteq S
  BY <1>1, SetInduction
<1> QED
  BY <1>2, PowerUnfolds DEF S

\* The larger base has the larger powers.
LEMMA PowerMonotone ==
    ASSUME NEW a \in Nat, NEW b \in Nat, a <= b
    PROVE  \A e \in Nat : Power(a, e) <= Power(b, e)
<1> DEFINE S == {e \in Nat : Power(a, e) <= Power(b, e)}
<1>1. 0 \in S
  BY PowerUnfolds
<1>2. ASSUME NEW e \in Nat, e \in S PROVE e + 1 \in S
  <2>1. a * Power(a, e) <= b * Power(b, e)
    BY <1>2, PowerUnfolds, ProductMonotone
  <2> QED
    BY <2>1, PowerUnfolds
<1> HIDE DEF S
<1>3. Nat \subseteq S
  BY <1>1, <1>2, SetInduction
<1> QED
  BY <1>3 DEF S

\* The power of a product.
LEMMA PowerOfProduct ==
    ASSUME NEW a \in Nat, NEW b \in Nat
    PROVE  \A e \in Nat : Power(a * b, e) = Power(a, e) * Power(b, e)
<1> DEFINE S == {e \in Nat : Power(a * b, e) = Power(a, e) * Power(b, e)}
<1>1. a * b \in Nat
  BY ProductFacts
<1>2. 0 \in S
  BY <1>1, PowerUnfolds
<1>3. ASSUME NEW e \in Nat, e \in S PROVE e + 1 \in S
  <2>1. PICK x \in Nat, y \in Nat : x = Power(a, e) /\ y = Power(b, e)
    BY PowerUnfolds
  <2>2. Power(a * b, e + 1) = (a * b) * (x * y)
    BY <1>1, <1>3, <2>1, PowerUnfolds
  <2>3. Power(a, e + 1) = a * x /\ Power(b, e + 1) = b * y
    BY <2>1, PowerUnfolds
  <2>4. (a * b) * (x * y) = (a * x) * (b * y)
    OBVIOUS
  <2> QED
    BY <2>2, <2>3, <2>4
<1> HIDE DEF S
<1>4. Nat \subseteq S
  BY <1>2, <1>3, SetInduction
<1> QED
  BY <1>4 DEF S

\* From the same exponent on, the powers of the larger base grow faster.
LEMMA PowerOutgrows ==
    ASSUME NEW a \in Nat, NEW b \in Nat, a <= b, NEW i \in Nat
    PROVE  \A k \in Nat : Power(a, i + k) * Power(b, i) <= Power(a, i) * Power(b, i + k)
<1> DEFINE S == {k \in Nat : Power(a, i + k) * Power(b, i) <= Power(a, i) * Power(b, i + k)}
<1>1. 0 \in S
  BY PowerUnfolds, ProductFacts
<1>2. ASSUME NEW k \in Nat, k \in S PROVE k + 1 \in S
  <2>0. i + k \in Nat
    OBVIOUS
  <2>1. PICK x \in Nat, y \in Nat, u \in Nat, v \in Nat :
          x = Power(a, i + k) /\ y = Power(b, i) /\ u = Power(a, i) /\ v = Power(b, i + k)
    BY <2>0, PowerUnfolds
  <2>2. i + (k + 1) = (i + k) + 1 /\ i + k \in Nat
    OBVIOUS
  <2>3. Power(a, i + (k + 1)) = a * x /\ Power(b, i + (k + 1)) = b * v
    BY <2>1, <2>2, PowerUnfolds
  <2>4. x * y <= u * v
    BY <1>2, <2>1
  <2>5. a * (x * y) <= b * (u * v)
    BY <2>4, ProductFacts, ProductMonotone
  <2>6. a * (x * y) = (a * x) * y /\ b * (u * v) = u * (b * v)
    OBVIOUS
  <2> QED
    BY <2>1, <2>3, <2>5, <2>6
<1> HIDE DEF S
<1>3. Nat \subseteq S
  BY <1>1, <1>2, SetInduction
<1> QED
  BY <1>3 DEF S

-----------------------------------------------------------------------------
(* Delays. *)

\* A delay is a fraction: its denominator is positive.
LEMMA GetDelayTimeType ==
    ASSUME NEW s, IsSetting(s), NEW b \in Nat
    PROVE  /\ GetDelayTime(s, b)[1] \in Nat
           /\ GetDelayTime(s, b)[2] \in Nat /\ GetDelayTime(s, b)[2] > 0
<1>1. CASE s.relaxedAlpha[1] = 0
  BY <1>1 DEF GetDelayTime
<1>2. CASE s.relaxedAlpha[1] # 0 /\ b < 2 * s.relaxedK
  <2>1. PICK i \in Nat : i = b \div 2
    OBVIOUS
  <2>0. /\ s.relaxedAlpha[1] \in Nat /\ s.relaxedAlpha[1] > 0
        /\ s.relaxedAlpha[2] \in Nat
        /\ s.numberOfNodes - 1 \in Nat /\ s.numberOfNodes - 1 > 0
    BY <1>2 DEF IsSetting
  <2>2. PICK x \in Nat : x = Power(s.relaxedAlpha[2], i)
    BY <2>0, PowerUnfolds
  <2>4. PICK y \in Nat : y = Power(s.relaxedAlpha[1], i) /\ y > 0
    BY <2>0, PowerPositive
  <2>5. PICK z \in Nat : z = Power(s.numberOfNodes - 1, i + 1) /\ z > 0
    <3>1. i + 1 \in Nat
      OBVIOUS
    <3> QED
      BY <2>0, <3>1, PowerPositive
  <2>3. GetDelayTime(s, b) = <<x * s.dLimit, y * z>>
    BY <1>2, <2>1, <2>2, <2>4, <2>5 DEF GetDelayTime, PairDelay
  <2> QED
    BY <2>2, <2>3, <2>4, <2>5, ProductFacts DEF IsSetting
<1>3. CASE s.relaxedAlpha[1] # 0 /\ ~ (b < 2 * s.relaxedK)
  BY <1>3 DEF GetDelayTime, IsSetting
<1> QED
  BY <1>1, <1>2, <1>3

\* alpha (nodes - 1) is at least one.
IsSpreading(s) == s.relaxedAlpha[1] * (s.numberOfNodes - 1) >= s.relaxedAlpha[2]

\* A hop with few flows takes at most its share of dLimit.
LEMMA PairDelayShare ==
    ASSUME NEW s, IsSetting(s), NEW i \in Nat, IsSpreading(s)
    PROVE  PairDelay(s, i)[1] * (s.numberOfNodes - 1) <= s.dLimit * PairDelay(s, i)[2]
<1>1. PICK p \in Nat, q \in Nat, m \in Nat, d \in Nat :
         /\ p = s.relaxedAlpha[1] /\ q = s.relaxedAlpha[2]
         /\ m = s.numberOfNodes - 1 /\ d = s.dLimit
  BY DEF IsSetting
<1>2. q <= p * m /\ p * m \in Nat
  BY <1>1, ProductFacts DEF IsSpreading
<1>3. PICK x \in Nat, y \in Nat, z \in Nat :
         x = Power(q, i) /\ y = Power(p, i) /\ z = Power(m, i)
  BY PowerUnfolds
<1>4. x <= y * z
  BY <1>2, <1>3, PowerMonotone, PowerOfProduct
<1>5. Power(m, i + 1) = m * z
  BY <1>3, PowerUnfolds
<1>6. PairDelay(s, i) = <<x * d, y * (m * z)>>
  BY <1>1, <1>3, <1>5 DEF PairDelay
<1>7. x * (d * m) <= (y * z) * (d * m)
  BY <1>4, ProductFacts
<1>8. (x * d) * m = x * (d * m) /\ (y * z) * (d * m) = d * (y * (m * z))
  OBVIOUS
<1> QED
  BY <1>1, <1>6, <1>7, <1>8

\* With alpha (nodes - 1) at least one, the hold-backs of a route through all other
\* nodes add up to less than dLimit, for every setting.
THEOREM DelayRouteWithinLimit == \A s : IsSetting(s) => RouteWithinLimit(s)
<1> SUFFICES ASSUME NEW s, IsSetting(s), IsSpreading(s), NEW b \in 0..2 * s.relaxedK - 1
             PROVE  Less(Times(s.numberOfNodes - 2, GetDelayTime(s, b)), <<s.dLimit, 1>>)
  BY DEF RouteWithinLimit, IsSpreading
<1>1. PICK n \in Nat, d \in Nat : n = s.numberOfNodes - 2 /\ d = s.dLimit /\ d > 0
  BY DEF IsSetting
<1>2. s.relaxedAlpha[1] # 0
  <2>1. PICK m \in Nat : m = s.numberOfNodes - 1
    BY DEF IsSetting
  <2>2. 0 * m = 0
    OBVIOUS
  <2> QED
    BY <2>1, <2>2 DEF IsSpreading, IsSetting
<1>3. PICK i \in Nat : GetDelayTime(s, b) = PairDelay(s, i)
  BY <1>2 DEF GetDelayTime, IsSetting
<1>4. PICK x \in Nat, y \in Nat : x = PairDelay(s, i)[1] /\ y = PairDelay(s, i)[2] /\ y > 0
  BY <1>3, GetDelayTimeType DEF IsSetting
<1>5. x * (n + 1) <= d * y
  BY <1>1, <1>4, PairDelayShare DEF IsSetting
<1>6. n * x < d * y
  <2>1. d * y > 0 /\ d * y \in Nat /\ n * x \in Nat /\ x * (n + 1) = n * x + x
    BY <1>1, <1>4, ProductFacts
  <2>2. CASE x = 0
    BY <2>1, <2>2
  <2>3. CASE x > 0
    BY <1>5, <2>1, <2>3
  <2> QED
    BY <2>2, <2>3
<1> QED
  BY <1>1, <1>3, <1>4, <1>6 DEF Less, Times

\* The arithmetic of the next theorem.
LEMMA OneMorePairIsShorter ==
    ASSUME NEW n \in Nat, NEW d \in Nat, NEW qi \in Nat, NEW qj \in Nat,
           NEW pi \in Nat, NEW pj \in Nat, NEW mi \in Nat, NEW mj \in Nat,
           d > 0, qi > 0, pj > 0, mj > 0,
           qj * pi <= qi * pj, (n + 1) * mi <= mj
    PROVE  (n * (qj * d)) * (pi * ((n + 1) * mi)) < (qi * d) * (pj * ((n + 1) * mj))
<1>1. PICK x \in Nat, y \in Nat : x = qj * pi /\ y = qi * pj /\ x <= y /\ y > 0
  BY ProductFacts
<1>2. PICK z \in Nat : z = (n + 1) * mi /\ z <= mj
  BY ProductFacts
<1>3. x * z <= y * mj
  BY <1>1, <1>2, ProductMonotone
<1>4. PICK v \in Nat, w \in Nat : v = x * z /\ w = y * mj /\ v <= w /\ w > 0
  BY <1>1, <1>2, <1>3, ProductFacts
<1>5. n * v < (n + 1) * w
  <2>1. n * v <= n * w
    BY <1>4, ProductMonotone
  <2>2. (n + 1) * w = n * w + w
    OBVIOUS
  <2> QED
    BY <1>4, <2>1, <2>2, ProductFacts
<1>6. (n * v) * d < ((n + 1) * w) * d
  BY <1>5, ProductFacts
<1>7. (n * (qj * d)) * (pi * z) = (n * ((qj * pi) * z)) * d
  OBVIOUS
<1>8. (qi * d) * (pj * ((n + 1) * mj)) = ((n + 1) * ((qi * pj) * mj)) * d
  OBVIOUS
<1> QED
  BY <1>1, <1>2, <1>4, <1>6, <1>7, <1>8

\* From alpha = 1 on, a route on which every relay sees one more pair of crossing flows
\* is found before a single relay that sees one pair less, for every setting.
THEOREM DelayCodingRouteComesFirst == \A s : IsSetting(s) => CodingRouteComesFirst(s)
<1> SUFFICES ASSUME NEW s, IsSetting(s), AlphaAtLeastOne(s),
                    NEW b \in 0..2 * s.relaxedK - 1, NEW c \in 0..2 * s.relaxedK - 1,
                    b \div 2 < c \div 2
             PROVE  Less(Times(s.numberOfNodes - 2, GetDelayTime(s, c)), GetDelayTime(s, b))
  BY DEF CodingRouteComesFirst
<1>1. PICK p \in Nat, q \in Nat, n \in Nat, d \in Nat :
         /\ p = s.relaxedAlpha[1] /\ q = s.relaxedAlpha[2] /\ 0 < q /\ q <= p
         /\ n = s.numberOfNodes - 2 /\ d = s.dLimit /\ d > 0
  BY DEF IsSetting, AlphaAtLeastOne
<1>2. PICK i \in Nat, k \in Nat : i = b \div 2 /\ c \div 2 = i + (k + 1)
  <2>1. b \div 2 \in Nat /\ (c \div 2) - (b \div 2) - 1 \in Nat
    OBVIOUS
  <2>2. c \div 2 = (b \div 2) + (((c \div 2) - (b \div 2) - 1) + 1)
    BY <2>1
  <2> QED
    BY <2>1, <2>2
<1> DEFINE j == i + (k + 1)
<1>3. j \in Nat /\ j = (i + k) + 1
  OBVIOUS
<1> HIDE DEF j
<1>4. GetDelayTime(s, b) = PairDelay(s, i) /\ GetDelayTime(s, c) = PairDelay(s, j)
  BY <1>1, <1>2 DEF GetDelayTime, IsSetting, j
<1> DEFINE qi == Power(q, i)
           qj == Power(q, j)
           pi == Power(p, i)
           pj == Power(p, j)
           mi == Power(n + 1, i)
           mj == Power(n + 1, j)
<1>5. /\ qi \in Nat /\ qi > 0 /\ qj \in Nat
      /\ pi \in Nat /\ pj \in Nat /\ pj > 0
      /\ mi \in Nat /\ mj \in Nat /\ mj > 0
  <2>1. n + 1 \in Nat /\ n + 1 > 0 /\ p > 0
    BY <1>1
  <2>2. \A e \in Nat : /\ Power(q, e) \in Nat /\ Power(q, e) > 0
                     /\ Power(p, e) \in Nat /\ Power(p, e) > 0
                     /\ Power(n + 1, e) \in Nat /\ Power(n + 1, e) > 0
    BY <1>1, <2>1, PowerPositive
  <2> QED
    BY <1>3, <2>2
<1>6. qj * pi <= qi * pj
  <2>1. Power(q, i + (k + 1)) * Power(p, i) <= Power(q, i) * Power(p, i + (k + 1))
    <3>1. k + 1 \in Nat
      OBVIOUS
    <3> QED
      BY <1>1, <3>1, PowerOutgrows
  <2> QED
    BY <2>1 DEF j
<1>7. (n + 1) * mi <= mj
  <2>1. PICK u \in Nat : u = Power(n + 1, i + k)
    BY PowerUnfolds
  <2>2. mj = (n + 1) * u
    BY <1>3, <1>5, <2>1, PowerUnfolds
  <2>3. mi <= u
    <3>1. n + 1 \in Nat /\ 1 <= n + 1 /\ 1 \in Nat
      OBVIOUS
    <3>2. Power(1, i + k) * mi <= Power(1, i) * u
      BY <2>1, <3>1, PowerOutgrows
    <3>3. Power(1, i + k) = 1 /\ Power(1, i) = 1
      <4> DEFINE S == {e \in Nat : Power(1, e) = 1}
      <4>1. 0 \in S /\ \A e \in Nat : e \in S => e + 1 \in S
        BY PowerUnfolds
      <4> HIDE DEF S
      <4>2. Nat \subseteq S
        BY <4>1, SetInduction
      <4> QED
        BY <4>2 DEF S
    <3> QED
      BY <1>5, <3>2, <3>3
  <2>4. mi * (n + 1) <= u * (n + 1)
    BY <1>5, <2>1, <2>3, ProductFacts
  <2>5. mi * (n + 1) = (n + 1) * mi /\ u * (n + 1) = (n + 1) * u
    BY <1>5, ProductFacts
  <2> QED
    BY <2>2, <2>4, <2>5
<1>8. /\ PairDelay(s, i) = <<qi * d, pi * ((n + 1) * mi)>>
      /\ PairDelay(s, j) = <<qj * d, pj * ((n + 1) * mj)>>
  <2>1. s.numberOfNodes - 1 = n + 1
    BY <1>1 DEF IsSetting
  <2>2. Power(n + 1, i + 1) = (n + 1) * mi /\ Power(n + 1, j + 1) = (n + 1) * mj
    BY <1>3, <1>5, PowerUnfolds
  <2> QED
    BY <1>1, <1>5, <2>1, <2>2 DEF PairDelay
<1> HIDE DEF qi, qj, pi, pj, mi, mj
<1>9. (n * (qj * d)) * (pi * ((n + 1) * mi)) < (qi * d) * (pj * ((n + 1) * mj))
  BY <1>1, <1>5, <1>6, <1>7, OneMorePairIsShorter
<1> QED
  BY <1>1, <1>4, <1>8, <1>9 DEF Less, Times
=============================================================================
