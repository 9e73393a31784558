----------------------------- MODULE UpdateProofs ----------------------------
(*****************************************************************************)
(* Proofs about the updater, Update, and the helper that ends an update on   *)
(* Windows, Handoff: for archives and packages of any length, any checksum   *)
(* files, versions and bounds, and any number of failing steps, deaths and   *)
(* interruptions.                                                            *)
(*****************************************************************************)
EXTENDS Update, Handoff, TLAPS, SequenceTheorems, WellFoundedInduction

-----------------------------------------------------------------------------
(* Induction over a set: the form in which what the recursive functions      *)
(* compute is proved.                                                        *)

\* A set of numbers has a least element, unless it is empty.
LEMMA LeastNumber ==
    ASSUME NEW T, T \subseteq Nat, T # {}
    PROVE  \E x \in T : \A y \in T : x <= y
<1>1. PICK x \in T : \A y \in T : ~(<<y, x>> \in OpToRel(<, Nat))
  BY NatLessThanWellFounded, WFMin
<1>2. ASSUME NEW y \in T, y < x PROVE <<y, x>> \in OpToRel(<, Nat)
  <2>1. <<y, x>> \in Nat \X Nat /\ <<y, x>>[1] = y /\ <<y, x>>[2] = x
    OBVIOUS
  <2> QED BY <1>2, <2>1 DEF OpToRel
<1>3. \A y \in T : ~(y < x)
  BY <1>1, <1>2
<1> QED BY <1>3

\* A set that has zero, and with a number the next one, has every number.
LEMMA Induction ==
    ASSUME NEW S, 0 \in S, \A n \in Nat : n \in S => n + 1 \in S
    PROVE  \A n \in Nat : n \in S
<1> DEFINE T == {n \in Nat : n \notin S}
<1>1. SUFFICES ASSUME T # {} PROVE FALSE
  OBVIOUS
<1>2. PICK x \in T : \A y \in T : x <= y
  <2>1. T \subseteq Nat
    OBVIOUS
  <2> HIDE DEF T
  <2> QED BY <1>1, <2>1, LeastNumber
<1>3. x # 0 /\ x - 1 \in Nat
  BY <1>2
<1>4. x - 1 \in S
  BY <1>2, <1>3
<1> QED BY <1>2, <1>3, <1>4

\* The first of some places is one of them, and none is before it.
LEMMA FirstIsLeast ==
    ASSUME NEW T, T \subseteq Nat, T # {}
    PROVE  FirstIn(T) \in T /\ \A j \in T : FirstIn(T) <= j
  BY LeastNumber DEF FirstIn

-----------------------------------------------------------------------------
(* What digits are worth.                                                    *)

\* The recursion defines a function.
LEMMA ValuesDefined ==
    ASSUME NEW d \in Digits
    PROVE  Values(d) = [n \in 0..Len(d) |->
                            IF n = 0 THEN 0 ELSE 10 * Values(d)[n - 1] + d[n]]
<1> DEFINE Is(f, m) == f = [n \in 0..m |-> IF n = 0 THEN 0 ELSE 10 * f[n - 1] + d[n]]
           S == {m \in Nat : \E f : Is(f, m)}
<1>1. 0 \in S
  <2>1. Is([n \in 0..0 |-> 0], 0)
    OBVIOUS
  <2> QED BY <2>1
<1>2. ASSUME NEW m \in Nat, m \in S PROVE m + 1 \in S
  <2>1. PICK f : Is(f, m)
    BY <1>2
  <2> DEFINE g == [n \in 0..(m + 1) |-> IF n = m + 1 THEN 10 * f[m] + d[m + 1] ELSE f[n]]
  <2>2. Is(g, m + 1)
    <3>1. ASSUME NEW n \in 0..(m + 1)
          PROVE  g[n] = IF n = 0 THEN 0 ELSE 10 * g[n - 1] + d[n]
      BY <2>1
    <3>2. g = [n \in 0..(m + 1) |-> g[n]]
      OBVIOUS
    <3> HIDE DEF g
    <3> QED BY <3>1, <3>2
  <2> HIDE DEF g, Is
  <2> QED BY <2>2
<1>3. Len(d) \in S
  <2> HIDE DEF S
  <2> QED BY <1>1, <1>2, Induction DEF Digits
<1> QED BY <1>3 DEF Values

\* A digit more is worth ten times what was there, and itself.
LEMMA ValuesStep ==
    ASSUME NEW d \in Digits
    PROVE  /\ Values(d)[0] = 0
           /\ \A n \in 1..Len(d) : Values(d)[n] = 10 * Values(d)[n - 1] + d[n]
           /\ \A n \in 0..Len(d) : Values(d)[n] \in Nat
<1>1. Len(d) \in Nat /\ \A n \in 1..Len(d) : d[n] \in 0..9
  BY DEF Digits
<1>2. Values(d)[0] = 0
  <2> DEFINE V == Values(d)
  <2>1. V = [n \in 0..Len(d) |-> IF n = 0 THEN 0 ELSE 10 * V[n - 1] + d[n]]
    BY ValuesDefined
  <2> HIDE DEF V
  <2>2. V[0] = 0
    BY <1>1, <2>1
  <2> QED BY <2>2 DEF V
<1>3. ASSUME NEW n \in 1..Len(d)
      PROVE  Values(d)[n] = 10 * Values(d)[n - 1] + d[n]
  <2> DEFINE V == Values(d)
  <2>1. V = [m \in 0..Len(d) |-> IF m = 0 THEN 0 ELSE 10 * V[m - 1] + d[m]]
    BY ValuesDefined
  <2> HIDE DEF V
  <2>2. V[n] = 10 * V[n - 1] + d[n]
    BY <1>1, <2>1
  <2> QED BY <2>2 DEF V
<1>4. \A n \in 0..Len(d) : Values(d)[n] \in Nat
  <2> DEFINE S == {m \in Nat : m <= Len(d) => Values(d)[m] \in Nat}
  <2>1. 0 \in S
    BY <1>2
  <2>2. ASSUME NEW m \in Nat, m \in S PROVE m + 1 \in S
    <3>1. CASE m + 1 <= Len(d)
      <4>1. m + 1 \in 1..Len(d) /\ m <= Len(d) /\ (m + 1) - 1 = m
        BY <1>1, <3>1
      <4>2. Values(d)[m + 1] = 10 * Values(d)[m] + d[m + 1]
        BY <1>3, <4>1
      <4>3. Values(d)[m] \in Nat /\ d[m + 1] \in Nat
        BY <1>1, <2>2, <4>1
      <4>4. \A x, y \in Nat : 10 * x + y \in Nat
        OBVIOUS
      <4>5. Values(d)[m + 1] \in Nat
        BY <4>2, <4>3, <4>4
      <4> QED BY <4>5
    <3>2. CASE ~(m + 1 <= Len(d))
      BY <3>2
    <3> QED BY <3>1, <3>2
  <2> HIDE DEF S
  <2>3. \A m \in Nat : m \in S
    BY <2>1, <2>2, Induction
  <2> QED BY <1>1, <2>3 DEF S
<1> QED BY <1>2, <1>3, <1>4

\* What two numbers have in front alike is worth the same.
LEMMA AlikeInFront ==
    ASSUME NEW a \in Digits, NEW b \in Digits, NEW m \in Nat, m <= Len(a), m <= Len(b),
           \A i \in 1..m : a[i] = b[i]
    PROVE  Values(a)[m] = Values(b)[m]
<1> DEFINE S == {n \in Nat : n <= m => Values(a)[n] = Values(b)[n]}
<1>1. 0 \in S
  BY ValuesStep
<1>2. ASSUME NEW n \in Nat, n \in S PROVE n + 1 \in S
  <2>1. CASE n + 1 <= m
    <3>1. n + 1 \in 1..Len(a) /\ n + 1 \in 1..Len(b) /\ n + 1 \in 1..m /\ (n + 1) - 1 = n
      BY <2>1 DEF Digits
    <3>2. Values(a)[n] = Values(b)[n]
      BY <1>2, <2>1
    <3>3. /\ Values(a)[n + 1] = 10 * Values(a)[n] + a[n + 1]
          /\ Values(b)[n + 1] = 10 * Values(b)[n] + b[n + 1]
      BY <3>1, ValuesStep
    <3> QED BY <3>1, <3>2, <3>3
  <2>2. CASE ~(n + 1 <= m)
    BY <2>2
  <2> QED BY <2>1, <2>2
<1> HIDE DEF S
<1>3. m \in S
  BY <1>1, <1>2, Induction
<1> QED BY <1>3 DEF S

\* A number that is behind after some digits, the other one with k digits more,
\* stays behind.
LEMMA StaysBehind ==
    ASSUME NEW a \in Digits, NEW b \in Digits, NEW k \in Nat, Len(b) = Len(a) + k,
           NEW n \in 0..Len(a), Values(a)[n] < Values(b)[n + k]
    PROVE  Value(a) < Value(b)
<1> DEFINE S == {m \in Nat : n + m <= Len(a) => Values(a)[n + m] < Values(b)[n + m + k]}
<1>0. Len(a) \in Nat /\ n \in Nat
  BY DEF Digits
<1>1. 0 \in S
  BY <1>0
<1>2. ASSUME NEW m \in Nat, m \in S PROVE m + 1 \in S
  <2>1. CASE n + m + 1 <= Len(a)
    <3> DEFINE i == n + m + 1
               j == n + m + k + 1
    <3>1. /\ i \in 1..Len(a) /\ j \in 1..Len(b)
          /\ i - 1 = n + m /\ j - 1 = n + m + k
          /\ n + (m + 1) = i /\ n + (m + 1) + k = j
          /\ n + m \in 0..Len(a) /\ n + m + k \in 0..Len(b)
      BY <1>0, <2>1
    <3>2. Values(a)[n + m] < Values(b)[n + m + k]
      BY <1>0, <1>2, <2>1
    <3>3. /\ Values(a)[i] = 10 * Values(a)[n + m] + a[i]
          /\ Values(b)[j] = 10 * Values(b)[n + m + k] + b[j]
      <4> HIDE DEF i, j
      <4> QED BY <3>1, ValuesStep
    <3>4. a[i] \in 0..9 /\ b[j] \in 0..9
      <4> HIDE DEF i, j
      <4> QED BY <3>1 DEF Digits
    <3>5. Values(a)[n + m] \in Nat /\ Values(b)[n + m + k] \in Nat
      BY <3>1, ValuesStep
    <3>6. \A x, y \in Nat : \A c, d \in 0..9 : x < y => 10 * x + c < 10 * y + d
      OBVIOUS
    <3>7. Values(a)[i] < Values(b)[j]
      <4> HIDE DEF i, j
      <4> QED BY <3>2, <3>3, <3>4, <3>5, <3>6
    <3> QED BY <3>1, <3>7
  <2>2. CASE ~(n + m + 1 <= Len(a))
    BY <1>0, <2>2
  <2> QED BY <2>1, <2>2
<1>3. Len(a) - n \in Nat /\ n + (Len(a) - n) = Len(a) /\ n + (Len(a) - n) + k = Len(b)
  BY <1>0
<1>4. Len(a) - n \in S
  <2> HIDE DEF S
  <2> QED BY <1>1, <1>2, <1>3, Induction
<1> QED BY <1>3, <1>4 DEF Value

LEMMA SignIs ==
    /\ \A m, n \in Int : m < n => Sign(m - n) = -1 /\ Sign(n - m) = 1
    /\ \A n \in Int : Sign(n - n) = 0
    /\ \A n \in Int : Sign(n) \in {-1, 0, 1} /\ (Sign(n) < 0 <=> n < 0) /\ (Sign(n) = 0 <=> n = 0)
  BY DEF Sign

\* Numbers of the same length compare as their digits do.
LEMMA SameLength ==
    ASSUME NEW a \in Digits, NEW b \in Digits, Len(a) = Len(b)
    PROVE  CompareText(a, b) = Sign(Value(a) - Value(b))
<1>1. Len(a) \in Nat /\ Value(a) \in Nat /\ Value(b) \in Nat
  BY ValuesStep DEF Value, Digits
<1>2. CASE Differ(a, b) = {}
  <2>1. \A i \in 1..Len(a) : a[i] = b[i]
    BY <1>2 DEF Differ
  <2>2. Value(a) = Value(b)
    BY <1>1, <2>1, AlikeInFront DEF Value
  <2> QED BY <1>1, <1>2, <2>2, SignIs DEF CompareText
<1>3. CASE Differ(a, b) # {}
  <2> DEFINE i == FirstIn(Differ(a, b))
  <2>1. i \in Differ(a, b) /\ \A j \in Differ(a, b) : i <= j
    <3>1. Differ(a, b) \subseteq Nat
      BY DEF Differ
    <3> QED BY <1>3, <3>1, FirstIsLeast
  <2>2. CompareText(a, b) = Sign(a[i] - b[i])
    BY <1>3 DEF CompareText
  <2> HIDE DEF i
  <2>3. i \in 1..Len(a) /\ a[i] # b[i] /\ a[i] \in 0..9 /\ b[i] \in 0..9
    BY <2>1 DEF Differ, Digits
  <2>4. i - 1 \in Nat /\ i - 1 <= Len(a) /\ i - 1 <= Len(b) /\ i \in 0..Len(a) /\ i + 0 = i
    BY <1>1, <2>3
  <2>5. \A j \in 1..(i - 1) : a[j] = b[j]
    BY <1>1, <2>1, <2>3 DEF Differ
  <2>6. Values(a)[i - 1] = Values(b)[i - 1]
    <3> DEFINE m == i - 1
    <3> HIDE DEF m
    <3>1. m \in Nat /\ m <= Len(a) /\ m <= Len(b) /\ \A j \in 1..m : a[j] = b[j]
      BY <2>4, <2>5 DEF m
    <3>2. Values(a)[m] = Values(b)[m]
      BY <3>1, AlikeInFront
    <3> QED BY <3>2 DEF m
  <2>7. /\ Values(a)[i] = 10 * Values(a)[i - 1] + a[i]
        /\ Values(b)[i] = 10 * Values(b)[i - 1] + b[i]
        /\ Values(a)[i - 1] \in Nat
    BY <1>1, <2>3, <2>4, ValuesStep
  <2>8. \A x \in Nat : \A c, d \in 0..9 : c < d => 10 * x + c < 10 * x + d
    OBVIOUS
  <2>9. CASE a[i] < b[i]
    <3>1. Values(a)[i] < Values(b)[i + 0]
      BY <2>3, <2>4, <2>6, <2>7, <2>9, <2>8
    <3>2. Value(a) < Value(b)
      BY <1>1, <2>4, <3>1, StaysBehind
    <3>3. Sign(a[i] - b[i]) = -1
      BY <2>3, <2>9 DEF Sign
    <3>4. Sign(Value(a) - Value(b)) = -1
      BY <1>1, <3>2 DEF Sign
    <3> QED BY <2>2, <3>3, <3>4
  <2>10. CASE b[i] < a[i]
    <3>1. Values(b)[i] < Values(a)[i + 0]
      BY <2>3, <2>4, <2>6, <2>7, <2>10, <2>8
    <3>2. Value(b) < Value(a)
      BY <1>1, <2>4, <3>1, StaysBehind
    <3>3. Sign(a[i] - b[i]) = 1
      BY <2>3, <2>10 DEF Sign
    <3>4. Sign(Value(a) - Value(b)) = 1
      BY <1>1, <3>2 DEF Sign
    <3> QED BY <2>2, <3>3, <3>4
  <2> QED BY <2>3, <2>9, <2>10
<1> QED BY <1>2, <1>3

\* Zeros are worth nothing, digits after one that is not zero something.
LEMMA ZerosInFront ==
    ASSUME NEW a \in Digits, NEW m \in Nat, m <= Len(a), \A i \in 1..m : a[i] = 0
    PROVE  Values(a)[m] = 0
<1> DEFINE S == {n \in Nat : n <= m => Values(a)[n] = 0}
<1>1. 0 \in S
  BY ValuesStep
<1>2. ASSUME NEW n \in Nat, n \in S PROVE n + 1 \in S
  <2>1. CASE n + 1 <= m
    <3>1. n + 1 \in 1..Len(a) /\ n + 1 \in 1..m /\ (n + 1) - 1 = n
      BY <2>1 DEF Digits
    <3>2. Values(a)[n] = 0 /\ a[n + 1] = 0
      BY <1>2, <2>1, <3>1
    <3>3. Values(a)[n + 1] = 10 * Values(a)[n] + a[n + 1]
      BY <3>1, ValuesStep
    <3> QED BY <3>2, <3>3
  <2>2. CASE ~(n + 1 <= m)
    BY <2>2
  <2> QED BY <2>1, <2>2
<1> HIDE DEF S
<1>3. m \in S
  BY <1>1, <1>2, Induction
<1> QED BY <1>3 DEF S

LEMMA WorthSomething ==
    ASSUME NEW a \in Digits, Len(a) # 0, a[1] # 0, NEW m \in 1..Len(a)
    PROVE  0 < Values(a)[m]
<1> DEFINE S == {n \in Nat : n + 1 <= Len(a) => 0 < Values(a)[n + 1]}
<1>0. Len(a) \in Nat /\ \A n \in 1..Len(a) : a[n] \in 0..9
  BY DEF Digits
<1>5. \A x \in Nat : \A c \in 0..9 : 0 < x \/ 0 < c => 0 < 10 * x + c
  OBVIOUS
<1>1. 0 \in S
  <2>1. 1 \in 1..Len(a) /\ 1 - 1 = 0 /\ 0 + 1 = 1
    BY <1>0
  <2>2. Values(a)[1] = 10 * Values(a)[0] + a[1] /\ Values(a)[0] = 0
    BY <2>1, ValuesStep
  <2>3. 0 < a[1]
    BY <1>0, <2>1
  <2>4. 0 < Values(a)[1]
    BY <2>2, <2>3, <1>0, <2>1
  <2> QED BY <2>1, <2>4
<1>2. ASSUME NEW n \in Nat, n \in S PROVE n + 1 \in S
  <2>1. CASE n + 2 <= Len(a)
    <3>1. /\ n + 2 \in 1..Len(a) /\ (n + 2) - 1 = n + 1 /\ (n + 1) + 1 = n + 2
          /\ n + 1 \in 0..Len(a)
      BY <1>0, <2>1
    <3>2. 0 < Values(a)[n + 1] /\ Values(a)[n + 1] \in Nat
      BY <1>0, <1>2, <2>1, <3>1, ValuesStep
    <3>3. Values(a)[n + 2] = 10 * Values(a)[n + 1] + a[n + 2]
      BY <3>1, ValuesStep
    <3>4. 0 < Values(a)[n + 2]
      BY <1>0, <1>5, <3>1, <3>2, <3>3
    <3> QED BY <3>1, <3>4
  <2>2. CASE ~(n + 2 <= Len(a))
    BY <1>0, <2>2
  <2> QED BY <2>1, <2>2
<1>3. m - 1 \in Nat /\ (m - 1) + 1 = m /\ m <= Len(a)
  BY <1>0
<1>4. m - 1 \in S
  <2> HIDE DEF S
  <2> QED BY <1>1, <1>2, <1>3, Induction
<1> QED BY <1>3, <1>4

\* What is in front of a number is worth nothing: it is worth what comes after.
LEMMA Shifted ==
    ASSUME NEW a \in Digits, NEW b \in Digits, NEW k \in Nat, Len(b) = Len(a) + k,
           Values(b)[k] = 0, \A i \in 1..Len(a) : a[i] = b[i + k]
    PROVE  Value(a) = Value(b)
<1> DEFINE S == {n \in Nat : n <= Len(a) => Values(a)[n] = Values(b)[n + k]}
<1>0. Len(a) \in Nat
  BY DEF Digits
<1>1. 0 \in S
  BY ValuesStep
<1>2. ASSUME NEW n \in Nat, n \in S PROVE n + 1 \in S
  <2>1. CASE n + 1 <= Len(a)
    <3> DEFINE j == n + 1 + k
    <3>1. /\ n + 1 \in 1..Len(a) /\ j \in 1..Len(b)
          /\ (n + 1) - 1 = n /\ j - 1 = n + k /\ n + 1 + k = j
      BY <1>0, <2>1
    <3>2. Values(a)[n] = Values(b)[n + k]
      BY <1>0, <1>2, <2>1
    <3>3. /\ Values(a)[n + 1] = 10 * Values(a)[n] + a[n + 1]
          /\ Values(b)[j] = 10 * Values(b)[n + k] + b[j]
      <4> HIDE DEF j
      <4>1. Values(a)[n + 1] = 10 * Values(a)[(n + 1) - 1] + a[n + 1]
            BY <3>1, ValuesStep
      <4>2. Values(b)[j] = 10 * Values(b)[j - 1] + b[j]
            BY <3>1, ValuesStep
      <4> QED BY <3>1, <4>1, <4>2
    <3>4. a[n + 1] = b[j]
      BY <3>1
    <3>5. Values(a)[n + 1] = Values(b)[j]
      <4> HIDE DEF j
      <4> QED BY <3>2, <3>3, <3>4
    <3> QED BY <3>5
  <2>2. CASE ~(n + 1 <= Len(a))
    BY <2>2
  <2> QED BY <2>1, <2>2
<1>3. Len(a) \in S
  <2> HIDE DEF S
  <2> QED BY <1>0, <1>1, <1>2, Induction
<1> QED BY <1>0, <1>3 DEF Value

\* The zeros in front do not count.
LEMMA TrimmedSame ==
    ASSUME NEW a \in Digits
    PROVE  /\ Trimmed(a) \in Digits
           /\ Value(Trimmed(a)) = Value(a)
           /\ Len(Trimmed(a)) \in Nat \ {0}
           /\ Len(Trimmed(a)) > 1 => Trimmed(a)[1] # 0
<1> DEFINE nonzero == {i \in 1..Len(a) : a[i] # 0}
           f == FirstIn(nonzero)
<1>1. Len(a) \in Nat /\ \A i \in 1..Len(a) : a[i] \in 0..9
  BY DEF Digits
<1>2. CASE nonzero = {}
  <2>1. Trimmed(a) = <<0>>
    BY <1>2 DEF Trimmed
  <2>2. <<0>> \in Digits /\ Len(<<0>>) = 1 /\ <<0>>[1] = 0
    BY DEF Digits
  <2>3. Value(<<0>>) = 0
    <3>1. \A d \in Digits : Len(d) = 1 /\ d[1] = 0 => Values(d)[1] = 0
      BY ZerosInFront
    <3> QED BY <2>2, <3>1 DEF Value
  <2>4. Value(a) = 0
    <3>1. \A i \in 1..Len(a) : a[i] = 0
      BY <1>2
    <3> QED BY <1>1, <3>1, ZerosInFront DEF Value
  <2> QED BY <2>1, <2>2, <2>3, <2>4
<1>3. CASE nonzero # {}
  <2>1. f \in nonzero /\ \A j \in nonzero : f <= j
    <3>1. nonzero \subseteq Nat
      OBVIOUS
    <3> HIDE DEF nonzero
    <3> QED BY <1>3, <3>1, FirstIsLeast
  <2> DEFINE t == SubSeq(a, f, Len(a))
  <2>2. Trimmed(a) = t
    BY <1>3 DEF Trimmed
  <2> HIDE DEF f
  <2>3. f \in 1..Len(a) /\ a[f] # 0 /\ \A j \in 1..(f - 1) : a[j] = 0
    BY <1>1, <2>1
  <2>4. /\ t \in Seq(0..9) /\ Len(t) = Len(a) - f + 1
        /\ \A i \in 1..(Len(a) - f + 1) : t[i] = a[f + i - 1]
    BY <1>1, <2>3, SubSeqProperties DEF Digits
  <2> HIDE DEF t
  <2>5. t \in Digits
    BY <2>4 DEF Digits
  <2>6. Len(t) \in Nat \ {0} /\ t[1] # 0
    <3>1. 1 \in 1..(Len(a) - f + 1) /\ f + 1 - 1 = f
      BY <1>1, <2>3
    <3> QED BY <1>1, <2>3, <2>4, <3>1
  <2>7. Values(a)[f - 1] = 0
    <3> DEFINE m == f - 1
    <3>1. m \in Nat /\ m <= Len(a) /\ \A i \in 1..m : a[i] = 0
      BY <1>1, <2>3
    <3> HIDE DEF m
    <3>2. Values(a)[m] = 0
      BY <3>1, ZerosInFront
    <3> QED BY <3>2 DEF m
  <2>8. Value(t) = Value(a)
    <3> DEFINE k == f - 1
    <3>1. k \in Nat /\ Len(a) = Len(t) + k /\ \A i \in 1..Len(t) : t[i] = a[i + k]
      BY <1>1, <2>3, <2>4
    <3>2. Values(a)[k] = 0
      BY <2>7
    <3> HIDE DEF k
    <3> QED BY <2>5, <3>1, <3>2, Shifted
  <2> QED BY <2>2, <2>5, <2>6, <2>8
<1> QED BY <1>2, <1>3

\* A number that does not begin with zero is more than every one with fewer digits.
LEMMA LongerIsMore ==
    ASSUME NEW a \in Digits, NEW b \in Digits, Len(a) < Len(b), b[1] # 0
    PROVE  Value(a) < Value(b)
<1> DEFINE k == Len(b) - Len(a)
<1>1. k \in Nat /\ k \in 1..Len(b) /\ Len(b) = Len(a) + k /\ 0 \in 0..Len(a) /\ 0 + k = k
      /\ Len(b) # 0
  BY DEF Digits
<1> HIDE DEF k
<1>2. Values(a)[0] = 0 /\ 0 < Values(b)[k]
  BY <1>1, ValuesStep, WorthSomething
<1>3. Values(a)[0] < Values(b)[0 + k]
  BY <1>1, <1>2
<1> QED BY <1>1, <1>3, StaysBehind

\* The comparison of digits is the one of the numbers they stand for.
LEMMA NumbersCompared ==
    ASSUME NEW a \in Digits, NEW b \in Digits
    PROVE  compareNumericIdentifier(a, b) = Sign(Value(a) - Value(b))
<1> DEFINE left == Trimmed(a)
           right == Trimmed(b)
<1>1. /\ left \in Digits /\ Value(left) = Value(a) /\ Len(left) \in Nat \ {0}
      /\ Len(left) > 1 => left[1] # 0
  BY TrimmedSame
<1>2. /\ right \in Digits /\ Value(right) = Value(b) /\ Len(right) \in Nat \ {0}
      /\ Len(right) > 1 => right[1] # 0
  BY TrimmedSame
<1>3. compareNumericIdentifier(a, b) =
         IF Len(left) # Len(right) THEN Sign(Len(left) - Len(right))
         ELSE CompareText(left, right)
  BY DEF compareNumericIdentifier
<1> HIDE DEF left, right
<1>4. Value(left) \in Nat /\ Value(right) \in Nat
  BY <1>1, <1>2, ValuesStep DEF Value
<1>5. CASE Len(left) = Len(right)
  BY <1>1, <1>2, <1>3, <1>5, SameLength
<1>6. CASE Len(left) < Len(right)
  <2>1. Value(left) < Value(right)
    BY <1>1, <1>2, <1>6, LongerIsMore
  <2>2. Sign(Value(left) - Value(right)) = -1
    BY <1>4, <2>1 DEF Sign
  <2>3. Sign(Len(left) - Len(right)) = -1 /\ Len(left) # Len(right)
    BY <1>1, <1>2, <1>6 DEF Sign
  <2> QED BY <1>1, <1>2, <1>3, <2>2, <2>3
<1>7. CASE Len(right) < Len(left)
  <2>1. Value(right) < Value(left)
    BY <1>1, <1>2, <1>7, LongerIsMore
  <2>2. Sign(Value(left) - Value(right)) = 1
    BY <1>4, <2>1 DEF Sign
  <2>3. Sign(Len(left) - Len(right)) = 1 /\ Len(left) # Len(right)
    BY <1>1, <1>2, <1>7 DEF Sign
  <2> QED BY <1>1, <1>2, <1>3, <2>2, <2>3
<1> QED BY <1>1, <1>2, <1>5, <1>6, <1>7

-----------------------------------------------------------------------------
(* The order of versions.                                                    *)

LEMMA TextCompared ==
    ASSUME NEW a \in Seq(Nat), NEW b \in Seq(Nat)
    PROVE  /\ CompareText(a, b) \in {-1, 0, 1}
           /\ CompareText(a, b) = 0 <=> a = b
<1>1. Len(a) \in Nat /\ Len(b) \in Nat
  OBVIOUS
<1>2. CASE Differ(a, b) = {}
  <2>1. CompareText(a, b) = Sign(Len(a) - Len(b))
    BY <1>2 DEF CompareText
  <2>2. Sign(Len(a) - Len(b)) \in {-1, 0, 1} /\ (Sign(Len(a) - Len(b)) = 0 <=> Len(a) = Len(b))
    BY <1>1 DEF Sign
  <2>3. Len(a) = Len(b) => a = b
    <3>1. SUFFICES ASSUME Len(a) = Len(b) PROVE a = b
      OBVIOUS
    <3>2. \A i \in 1..Len(a) : a[i] = b[i]
      BY <1>1, <1>2, <3>1 DEF Differ
    <3> QED BY <3>1, <3>2, SeqEqual
  <2> QED BY <2>1, <2>2, <2>3
<1>3. CASE Differ(a, b) # {}
  <2> DEFINE i == FirstIn(Differ(a, b))
  <2>1. i \in Differ(a, b)
    <3>1. Differ(a, b) \subseteq Nat
      BY DEF Differ
    <3> QED BY <1>3, <3>1, FirstIsLeast
  <2>2. CompareText(a, b) = Sign(a[i] - b[i])
    BY <1>3 DEF CompareText
  <2> HIDE DEF i
  <2>3. a[i] \in Nat /\ b[i] \in Nat /\ a[i] # b[i]
    BY <2>1 DEF Differ
  <2> QED BY <2>2, <2>3 DEF Sign
<1> QED BY <1>2, <1>3

\* Identifiers are in their order: numbers before words.
LEMMA IdentifiersCompared ==
    ASSUME NEW a \in Identifier, NEW b \in Identifier
    PROVE  /\ comparePrereleaseIdentifier(a, b) \in Int
           /\ comparePrereleaseIdentifier(a, b) < 0 <=> IdentifierPrecedes(a, b)
           /\ comparePrereleaseIdentifier(a, b) = 0 <=> SameIdentifier(a, b)
<1>1. /\ a.text \in Seq(Nat) /\ b.text \in Seq(Nat)
      /\ a.numeric \in BOOLEAN /\ b.numeric \in BOOLEAN
  <2>1. ASSUME NEW c \in Identifier
        PROVE  c.text \in Seq(Nat) /\ c.numeric \in BOOLEAN
    <3>1. Digits \subseteq Seq(Nat)
      BY DEF Digits
    <3>2. CASE c \in [numeric : {TRUE}, text : Digits]
      BY <3>1, <3>2
    <3>3. CASE c \in [numeric : {FALSE}, text : Seq(Nat)]
      BY <3>3
    <3> QED BY <3>2, <3>3 DEF Identifier
  <2> QED BY <2>1
<1>2. CASE a.numeric /\ b.numeric
  <2>1. a.text \in Digits /\ b.text \in Digits
    BY <1>2 DEF Identifier
  <2>2. comparePrereleaseIdentifier(a, b) = Sign(Value(a.text) - Value(b.text))
    BY <1>2, <2>1, NumbersCompared DEF comparePrereleaseIdentifier
  <2>3. Value(a.text) \in Nat /\ Value(b.text) \in Nat
    BY <2>1, ValuesStep DEF Value, Digits
  <2>4. IdentifierPrecedes(a, b) <=> Value(a.text) < Value(b.text)
    BY <1>2 DEF IdentifierPrecedes
  <2>5. SameIdentifier(a, b) <=> Value(a.text) = Value(b.text)
    <3>1. a.numeric = b.numeric
      BY <1>1, <1>2
    <3> QED BY <1>2, <3>1 DEF SameIdentifier
  <2> QED BY <2>2, <2>3, <2>4, <2>5 DEF Sign
<1>3. CASE a.numeric /\ ~b.numeric
  <2>1. comparePrereleaseIdentifier(a, b) = -1
    BY <1>3 DEF comparePrereleaseIdentifier
  <2>2. IdentifierPrecedes(a, b)
    BY <1>3 DEF IdentifierPrecedes
  <2>3. ~SameIdentifier(a, b)
    BY <1>3, Zenon DEF SameIdentifier
  <2> QED BY <2>1, <2>2, <2>3
<1>4. CASE ~a.numeric /\ b.numeric
  <2>1. comparePrereleaseIdentifier(a, b) = 1
    BY <1>4 DEF comparePrereleaseIdentifier
  <2>2. ~IdentifierPrecedes(a, b)
    BY <1>4 DEF IdentifierPrecedes
  <2>3. ~SameIdentifier(a, b)
    BY <1>4, Zenon DEF SameIdentifier
  <2> QED BY <2>1, <2>2, <2>3
<1>5. CASE ~a.numeric /\ ~b.numeric
  <2>1. comparePrereleaseIdentifier(a, b) = CompareText(a.text, b.text)
    BY <1>5 DEF comparePrereleaseIdentifier
  <2>2. IdentifierPrecedes(a, b) <=> CompareText(a.text, b.text) = -1
    BY <1>5 DEF IdentifierPrecedes
  <2>3. SameIdentifier(a, b) <=> a.text = b.text
    BY <1>1, <1>5 DEF SameIdentifier
  <2>4. /\ CompareText(a.text, b.text) \in {-1, 0, 1}
        /\ CompareText(a.text, b.text) = 0 <=> a.text = b.text
    BY <1>1, TextCompared
  <2> QED BY <2>1, <2>2, <2>3, <2>4
<1> QED BY <1>1, <1>2, <1>3, <1>4, <1>5

\* The first result that is not zero decides.
LEMMA FirstDecides ==
    ASSUME NEW n \in Nat, NEW r \in [1..n -> Int], NEW last \in Int
    PROVE  /\ FirstDecided(r, last) \in Int
           /\ FirstDecided(r, last) < 0 <=>
                 \/ \E i \in 1..n : r[i] < 0 /\ \A j \in 1..(i - 1) : r[j] = 0
                 \/ (\A i \in 1..n : r[i] = 0) /\ last < 0
<1> DEFINE decided == {i \in 1..n : r[i] # 0}
           f == FirstIn(decided)
<1>1. r \in Seq(Int) /\ Len(r) = n
  OBVIOUS
<1>2. FirstDecided(r, last) = IF decided = {} THEN last ELSE r[f]
  BY <1>1 DEF FirstDecided
<1>3. CASE decided = {}
  <2>1. \A i \in 1..n : r[i] = 0
    BY <1>3
  <2> HIDE DEF decided, f
  <2> QED BY <1>2, <1>3, <2>1
<1>4. CASE decided # {}
  <2>1. f \in decided /\ \A j \in decided : f <= j
    <3>1. decided \subseteq Nat
      OBVIOUS
    <3> HIDE DEF decided
    <3> QED BY <1>4, <3>1, FirstIsLeast
  <2>2. FirstDecided(r, last) = r[f]
    <3> HIDE DEF decided, f
    <3> QED BY <1>2, <1>4
  <2> HIDE DEF f
  <2>3. f \in 1..n /\ r[f] # 0 /\ \A j \in 1..(f - 1) : r[j] = 0
    BY <2>1
  <2>4. ASSUME NEW i \in 1..n, r[i] < 0, \A j \in 1..(i - 1) : r[j] = 0
        PROVE  f = i
    <3>1. f <= i
      BY <2>1, <2>4
    <3>2. ~(f < i)
      BY <2>3, <2>4
    <3> QED BY <2>3, <3>1, <3>2
  <2> HIDE DEF decided
  <2> QED BY <2>2, <2>3, <2>4
<1> QED BY <1>3, <1>4

LEMMA PrereleasesCompared ==
    ASSUME NEW p \in Seq(Identifier), NEW q \in Seq(Identifier), p # <<>>, q # <<>>
    PROVE  LET decided == FirstDecided(
                              [i \in 1..Shorter(p, q) |->
                                  comparePrereleaseIdentifier(p[i], q[i])],
                              Sign(Len(p) - Len(q)))
           IN  decided \in Int /\ (decided < 0 <=> PrereleasePrecedes(p, q))
<1> DEFINE n == Shorter(p, q)
           r == [i \in 1..n |-> comparePrereleaseIdentifier(p[i], q[i])]
           last == Sign(Len(p) - Len(q))
           decided == FirstDecided(r, last)
<1>1. Len(p) \in Nat /\ Len(q) \in Nat /\ n \in Nat /\ n <= Len(p) /\ n <= Len(q)
      /\ (n = Len(p) \/ n = Len(q))
  BY DEF Shorter
<1>2. last \in Int /\ (last < 0 <=> Len(p) < Len(q))
  BY <1>1 DEF Sign
<1>3. \A i \in 1..n : p[i] \in Identifier /\ q[i] \in Identifier
  BY <1>1
<1> HIDE DEF n, last
<1>4. /\ r \in [1..n -> Int]
      /\ \A i \in 1..n : /\ r[i] < 0 <=> IdentifierPrecedes(p[i], q[i])
                         /\ r[i] = 0 <=> SameIdentifier(p[i], q[i])
  BY <1>3, IdentifiersCompared
<1> HIDE DEF r
<1>5. /\ decided \in Int
      /\ decided < 0 <=>
            \/ \E i \in 1..n : r[i] < 0 /\ \A j \in 1..(i - 1) : r[j] = 0
            \/ (\A i \in 1..n : r[i] = 0) /\ last < 0
  BY <1>1, <1>2, <1>4, FirstDecides
<1> HIDE DEF decided
<1>6. ASSUME NEW i \in 1..n, r[i] < 0, \A j \in 1..(i - 1) : r[j] = 0
      PROVE  PrereleasePrecedes(p, q)
  <2>1. i \in 1..Len(q) /\ IdentifierPrecedes(p[i], q[i])
    BY <1>1, <1>4, <1>6
  <2>2. \A j \in 1..(i - 1) : j <= Len(p) /\ SameIdentifier(p[j], q[j])
    BY <1>1, <1>4, <1>6
  <2> QED BY <2>1, <2>2 DEF PrereleasePrecedes
<1>7. ASSUME \A i \in 1..n : r[i] = 0, last < 0
      PROVE  PrereleasePrecedes(p, q)
  <2> DEFINE i == Len(p) + 1
  <2>1. i \in 1..Len(q) /\ ~(i <= Len(p)) /\ i - 1 = Len(p) /\ n = Len(p)
    BY <1>1, <1>2, <1>7
  <2>2. \A j \in 1..(i - 1) : j <= Len(p) /\ SameIdentifier(p[j], q[j])
    BY <1>1, <1>4, <1>7, <2>1
  <2> HIDE DEF i
  <2> QED BY <2>1, <2>2 DEF PrereleasePrecedes
<1>8. ASSUME PrereleasePrecedes(p, q) PROVE decided < 0
  <2>1. PICK i \in 1..Len(q) :
              /\ \A j \in 1..(i - 1) : j <= Len(p) /\ SameIdentifier(p[j], q[j])
              /\ i <= Len(p) => IdentifierPrecedes(p[i], q[i])
    BY <1>8 DEF PrereleasePrecedes
  <2>2. CASE i <= Len(p)
    <3>1. i \in 1..n
      BY <1>1, <2>2
    <3>2. r[i] < 0 /\ \A j \in 1..(i - 1) : r[j] = 0
      BY <1>1, <1>4, <2>1, <2>2, <3>1
    <3> QED BY <1>5, <3>1, <3>2
  <2>3. CASE ~(i <= Len(p))
    <3>1. i - 1 <= Len(p)
      BY <1>1, <2>1, <2>3
    <3>2. i = Len(p) + 1 /\ Len(p) < Len(q) /\ n = Len(p)
      BY <1>1, <2>3, <3>1
    <3>3. \A j \in 1..n : r[j] = 0
      BY <1>1, <1>4, <2>1, <3>2
    <3> QED BY <1>2, <1>5, <3>2, <3>3
  <2> QED BY <2>2, <2>3
<1>9. decided \in Int /\ (decided < 0 <=> PrereleasePrecedes(p, q))
  BY <1>5, <1>6, <1>7, <1>8
<1> QED BY <1>9 DEF decided, r, n, last

\* What the updater compares digit by digit is SemVer's order, for all versions.
THEOREM VersionsOrdered ==
    ASSUME NEW v \in SemVersion, NEW w \in SemVersion
    PROVE  compareSemver(v, w) < 0 <=> Precedes(v, w)
<1> DEFINE p == v.prerelease
           q == w.prerelease
           r == [i \in 1..3 |-> compareNumericIdentifier(v.core[i], w.core[i])]
           ids == FirstDecided(
                      [i \in 1..Shorter(p, q) |->
                          comparePrereleaseIdentifier(p[i], q[i])],
                      Sign(Len(p) - Len(q)))
           last == IF p = <<>> /\ q = <<>> THEN 0
                   ELSE IF p = <<>> THEN 1
                   ELSE IF q = <<>> THEN -1
                   ELSE ids
<1>1. compareSemver(v, w) = FirstDecided(r, last)
  BY DEF compareSemver
<1>2. p \in Seq(Identifier) /\ q \in Seq(Identifier)
  BY DEF SemVersion
<1>3. \A i \in 1..3 : v.core[i] \in Digits /\ w.core[i] \in Digits
  BY DEF SemVersion
<1>4. \A i \in 1..3 : Value(v.core[i]) \in Nat /\ Value(w.core[i]) \in Nat
  BY <1>3, ValuesStep DEF Value, Digits
<1> HIDE DEF p, q
<1>5. p # <<>> /\ q # <<>> => ids \in Int /\ (ids < 0 <=> PrereleasePrecedes(p, q))
  BY <1>2, PrereleasesCompared
<1> HIDE DEF ids
<1>6. last \in Int /\ (last < 0 <=> PrereleasePrecedes(p, q))
  <2>1. CASE p = <<>>
    BY <2>1 DEF PrereleasePrecedes
  <2>2. CASE p # <<>> /\ q = <<>>
    BY <2>2 DEF PrereleasePrecedes
  <2>3. CASE p # <<>> /\ q # <<>>
    BY <1>5, <2>3
  <2> QED BY <2>1, <2>2, <2>3
<1> HIDE DEF last
<1>7. \A i \in 1..3 : /\ r[i] \in Int
                      /\ r[i] < 0 <=> Value(v.core[i]) < Value(w.core[i])
                      /\ r[i] = 0 <=> Value(v.core[i]) = Value(w.core[i])
  <2>1. ASSUME NEW i \in 1..3
        PROVE  r[i] = Sign(Value(v.core[i]) - Value(w.core[i]))
    BY <1>3, NumbersCompared
  <2> HIDE DEF r
  <2> QED BY <1>4, <2>1 DEF Sign
<1>8. r \in [1..3 -> Int]
  <2>1. r = [i \in 1..3 |-> r[i]]
    OBVIOUS
  <2> HIDE DEF r
  <2> QED BY <1>7, <2>1
<1> HIDE DEF r
<1>9. FirstDecided(r, last) < 0 <=>
         \/ \E i \in 1..3 : r[i] < 0 /\ \A j \in 1..(i - 1) : r[j] = 0
         \/ (\A i \in 1..3 : r[i] = 0) /\ last < 0
  BY <1>6, <1>8, FirstDecides
<1>10. (\E i \in 1..3 : r[i] < 0 /\ \A j \in 1..(i - 1) : r[j] = 0)
       <=> CorePrecedes(v.core, w.core)
  BY <1>7 DEF CorePrecedes
<1> QED BY <1>1, <1>6, <1>7, <1>9, <1>10 DEF Precedes, p, q

-----------------------------------------------------------------------------
(* What an archive holds.                                                    *)

LEMMA SizesDefined ==
    ASSUME NEW a \in Seq(Entry)
    PROVE  Sizes(a) = [n \in 0..Len(a) |->
                          IF n = 0 THEN 0
                          ELSE Sizes(a)[n - 1]
                               + (IF a[n].type = "file" THEN a[n].size ELSE 0)]
<1> DEFINE Is(f, m) == f = [n \in 0..m |->
                               IF n = 0 THEN 0
                               ELSE f[n - 1] + (IF a[n].type = "file" THEN a[n].size ELSE 0)]
           S == {m \in Nat : \E f : Is(f, m)}
<1>1. 0 \in S
  <2>1. Is([n \in 0..0 |-> 0], 0)
    OBVIOUS
  <2> QED BY <2>1
<1>2. ASSUME NEW m \in Nat, m \in S PROVE m + 1 \in S
  <2>1. PICK f : Is(f, m)
    BY <1>2
  <2> DEFINE g == [n \in 0..(m + 1) |->
                      IF n = m + 1
                        THEN f[m] + (IF a[m + 1].type = "file" THEN a[m + 1].size ELSE 0)
                        ELSE f[n]]
  <2>2. Is(g, m + 1)
    <3>1. ASSUME NEW n \in 0..(m + 1)
          PROVE  g[n] = IF n = 0 THEN 0
                        ELSE g[n - 1] + (IF a[n].type = "file" THEN a[n].size ELSE 0)
      BY <2>1
    <3>2. g = [n \in 0..(m + 1) |-> g[n]]
      OBVIOUS
    <3> HIDE DEF g
    <3> QED BY <3>1, <3>2
  <2> HIDE DEF g, Is
  <2> QED BY <2>2
<1>3. Len(a) \in S
  <2> HIDE DEF S
  <2> QED BY <1>1, <1>2, Induction
<1> QED BY <1>3 DEF Sizes

\* A file more is its size more.
LEMMA SizesStep ==
    ASSUME NEW a \in Seq(Entry)
    PROVE  /\ Sizes(a)[0] = 0
           /\ \A n \in 1..Len(a) :
                 Sizes(a)[n] = Sizes(a)[n - 1]
                               + (IF a[n].type = "file" THEN a[n].size ELSE 0)
           /\ \A n \in 0..Len(a) : Sizes(a)[n] \in Nat
<1> DEFINE V == Sizes(a)
<1>0. Len(a) \in Nat /\ \A n \in 1..Len(a) : a[n].size \in Nat
  <2>1. Len(a) \in Nat /\ \A n \in 1..Len(a) : a[n] \in Entry
    OBVIOUS
  <2> QED BY <2>1 DEF Entry
<1>1. V = [n \in 0..Len(a) |->
              IF n = 0 THEN 0 ELSE V[n - 1] + (IF a[n].type = "file" THEN a[n].size ELSE 0)]
  BY SizesDefined
<1> HIDE DEF V
<1>2. V[0] = 0
  BY <1>0, <1>1
<1>3. ASSUME NEW n \in 1..Len(a)
      PROVE  V[n] = V[n - 1] + (IF a[n].type = "file" THEN a[n].size ELSE 0)
  BY <1>0, <1>1
<1>4. \A n \in 0..Len(a) : V[n] \in Nat
  <2> DEFINE S == {m \in Nat : m <= Len(a) => V[m] \in Nat}
  <2>1. 0 \in S
    BY <1>2
  <2>2. ASSUME NEW m \in Nat, m \in S PROVE m + 1 \in S
    <3>1. CASE m + 1 <= Len(a)
      <4>1. m + 1 \in 1..Len(a) /\ m <= Len(a) /\ (m + 1) - 1 = m
        BY <1>0, <3>1
      <4>2. V[m + 1] = V[m] + (IF a[m + 1].type = "file" THEN a[m + 1].size ELSE 0)
        BY <1>3, <4>1
      <4>3. V[m] \in Nat /\ a[m + 1].size \in Nat
        BY <1>0, <2>2, <4>1
      <4> QED BY <4>2, <4>3
    <3>2. CASE ~(m + 1 <= Len(a))
      BY <3>2
    <3> QED BY <3>1, <3>2
  <2> HIDE DEF S
  <2>3. \A m \in Nat : m \in S
    BY <2>1, <2>2, Induction
  <2> QED BY <1>0, <2>3 DEF S
<1> QED BY <1>2, <1>3, <1>4 DEF V

-----------------------------------------------------------------------------
(* The inductive invariant.                                                  *)

Extracted == {"rechecking", "replacing", "staging", "renaming"}
Verified == {"extracting"} \cup Extracted
Compared == {"archive", "sums"} \cup Verified
During(S) == step \in S \/ Replaced

\* What is compared is what was read, and once it was read it is kept.
ReadInv ==
    /\ During(Compared) => ~(compareSemver(metadata.version, floor) < 0)
    /\ verdict = "too old" => compareSemver(metadata.version, floor) < 0
    /\ During({"sums"} \cup Verified) => (mode # "offline" => metadata.archive = archive)
    /\ During(Verified) => sums = <<archive>> /\ (mode # "offline" => metadata.sums = sums)
    /\ verdict = "updated" => executable = archive

\* The entries that were looked at are acceptable, and the files wanted among them
\* are found.
EntriesInv ==
    /\ step \in {"checking", "release", "archive", "sums"} => entry = 0 /\ found = {}
    /\ During(Verified) =>
          /\ \A i \in 1..entry : Acceptable(i)
          /\ found = {i \in 1..entry : Wanted(archive[i]) /\ archive[i].type = "file"}
          /\ Size(entry) <= MaxExtracted
    /\ During(Extracted) => entry = Len(archive) /\ Needed \subseteq Names

\* The updater returned with its verdict, and a package manager was looked for.
VerdictInv ==
    /\ verdict = "none" <=> step # "over"
    /\ During({"staging", "renaming"}) /\ managed => late

UpdateInv == UpdateTypeOK /\ ReadInv /\ EntriesInv /\ VerdictInv

-----------------------------------------------------------------------------
(* Every step keeps it.                                                      *)

LEMMA ArchiveTyped == UpdateTypeOK => archive \in Seq(Entry)
<1>1. <<>> \in Seq(Entry)
  OBVIOUS
<1>2. Archive \subseteq Seq(Entry)
  BY UpdateAssumption
<1> QED BY <1>1, <1>2 DEF UpdateTypeOK

LEMMA UpdateInitHolds == UpdateInit => UpdateInv
<1> SUFFICES ASSUME UpdateInit PROVE UpdateInv
  OBVIOUS
<1>1. PICK c \in Cases :
         /\ floor = c.floor
         /\ published = [version |-> c.version, archive |-> c.archive, sums |-> c.sums]
  BY DEF UpdateInit
<1>2. floor \in Floor /\ published \in Release /\ metadata \in Release
  BY <1>1, UpdateAssumption DEF UpdateInit, Release, Version, Floor
<1>3. UpdateTypeOK
  <2>1. executable \in Archive \cup {<<>>}
    BY <1>2 DEF UpdateInit, Release
  <2>2. entry \in 0..Len(archive) /\ found \subseteq 1..entry
    BY DEF UpdateInit
  <2>3. {sidecars, staged, managed, late} \subseteq BOOLEAN
    BY DEF UpdateInit
  <2> QED BY <1>2, <2>1, <2>2, <2>3 DEF UpdateInit, UpdateTypeOK
<1>4. ReadInv
  BY DEF UpdateInit, ReadInv, During, Replaced, Compared, Verified, Extracted
<1>5. EntriesInv
  BY DEF UpdateInit, EntriesInv, During, Replaced, Verified, Extracted
<1>6. VerdictInv
  BY DEF UpdateInit, VerdictInv, During, Replaced
<1> QED BY <1>3, <1>4, <1>5, <1>6 DEF UpdateInv

\* What was extracted stays as it is, if the updater goes no further or only beyond
\* the extraction.
LEMMA EntriesKept ==
    ASSUME EntriesInv, UNCHANGED <<system, archive, entry, found>>,
           step' \in {"checking", "release", "archive", "sums"} =>
               step \in {"checking", "release", "archive", "sums"},
           During(Verified)' => During(Verified), During(Extracted)' => During(Extracted)
    PROVE  EntriesInv'
<1>1. /\ \A i : Acceptable(i)' = Acceptable(i)
      /\ \A e : Wanted(e)' = Wanted(e)
      /\ \A i : Size(i)' = Size(i)
      /\ Names' = Names /\ Needed' = Needed
  BY DEF Acceptable, Alike, BeneathFile, Wanted, Size, Names, Needed
<1>2. Size(entry)' = Size(entry)
  BY DEF Size
<1> QED BY <1>1, <1>2 DEF EntriesInv, During

\* A step that returns without having replaced anything.
LEMMA ReturnKeeps ==
    ASSUME UpdateInv, NEW what \in {"managed", "invalid", "failed", "current"},
           Returns(what), step # "over",
           UNCHANGED <<setting, metadata, archive, sums, world, entry, found, executable,
                       sidecars>>
    PROVE  UpdateInv'
<1>1. UpdateTypeOK'
  BY DEF UpdateInv, UpdateTypeOK, Returns, setting, world
<1>2. ~Replaced'
  BY DEF Returns, Replaced
<1>3. ReadInv'
  BY <1>2 DEF UpdateInv, ReadInv, During, Returns, Compared, Verified, Extracted
<1>4. EntriesInv'
  BY <1>2 DEF EntriesInv, During, Returns, Verified, Extracted
<1>5. VerdictInv'
  BY <1>2 DEF VerdictInv, During, Returns
<1> QED BY <1>1, <1>3, <1>4, <1>5 DEF UpdateInv

LEMMA RepublishKeeps == ASSUME UpdateInv, Republish PROVE UpdateInv'
<1>1. PICK x \in Exchanged :
          published' = [published EXCEPT !.archive = x.archive, !.sums = x.sums]
  BY DEF Republish
<1>2. published' \in Release
  <2>1. x.archive \in Archive /\ x.sums \in Sums
    BY UpdateAssumption
  <2> QED BY <1>1, <2>1 DEF UpdateInv, UpdateTypeOK, Release
<1>3. UpdateTypeOK'
  BY <1>2 DEF Republish, UpdateInv, UpdateTypeOK, setting, readings, disk
<1>4. Replaced' = Replaced /\ step' = step
  BY DEF Republish, Replaced
<1>5. ReadInv'
  BY <1>4 DEF Republish, UpdateInv, ReadInv, During, setting, readings, disk
<1>6. EntriesInv'
  <2>1. EntriesInv /\ UNCHANGED <<system, archive, entry, found>>
    BY DEF Republish, UpdateInv, setting, readings
  <2>2. During(Verified)' = During(Verified) /\ During(Extracted)' = During(Extracted)
    BY <1>4 DEF During, Verified, Extracted
  <2> QED BY <1>4, <2>1, <2>2, EntriesKept
<1>7. VerdictInv'
  BY <1>4 DEF Republish, UpdateInv, VerdictInv, During
<1> QED BY <1>3, <1>5, <1>6, <1>7 DEF UpdateInv

LEMMA AdoptKeeps == ASSUME UpdateInv, Adopt PROVE UpdateInv'
<1>1. UpdateTypeOK'
  <2>1. late' \in BOOLEAN /\ managed' \in BOOLEAN
    BY DEF Adopt
  <2> QED BY <2>1 DEF Adopt, UpdateInv, UpdateTypeOK, setting, readings, disk
<1>2. Replaced' = Replaced /\ step' = step
  BY DEF Adopt, Replaced
<1>3. ReadInv'
  BY <1>2 DEF Adopt, UpdateInv, ReadInv, During, setting, readings, disk
<1>4. EntriesInv'
  <2>1. EntriesInv /\ UNCHANGED <<system, archive, entry, found>>
    BY DEF Adopt, UpdateInv, setting, readings
  <2>2. During(Verified)' = During(Verified) /\ During(Extracted)' = During(Extracted)
    BY <1>2 DEF During, Verified, Extracted
  <2> QED BY <1>2, <2>1, <2>2, EntriesKept
<1>5. VerdictInv'
  BY <1>2 DEF Adopt, UpdateInv, VerdictInv, During, Replaced
<1> QED BY <1>1, <1>3, <1>4, <1>5 DEF UpdateInv

LEMMA CheckKeeps == ASSUME UpdateInv, Check PROVE UpdateInv'
<1>1. CASE managed
  BY <1>1, ReturnKeeps DEF Check, readings
<1>2. CASE ~managed
  <2>1. UpdateTypeOK'
    BY <1>2 DEF Check, Continues, UpdateInv, UpdateTypeOK, setting, readings, world
  <2>2. ReadInv'
    BY <1>2 DEF Check, Continues, UpdateInv, ReadInv, VerdictInv, During, Replaced, Compared,
                Verified, Extracted
  <2>3. EntriesInv'
    BY <1>2 DEF Check, Continues, UpdateInv, EntriesInv, VerdictInv, During, Replaced,
                Verified, Extracted
  <2>4. VerdictInv'
    BY <1>2 DEF Check, Continues, UpdateInv, VerdictInv, During, Replaced
  <2> QED BY <2>1, <2>2, <2>3, <2>4 DEF UpdateInv
<1> QED BY <1>1, <1>2

LEMMA FetchReleaseKeeps == ASSUME UpdateInv, FetchRelease PROVE UpdateInv'
<1>1. UpdateTypeOK'
  BY DEF FetchRelease, Returns, Continues, UpdateInv, UpdateTypeOK, setting, world
<1>2. ~Replaced' /\ ~Replaced
  BY DEF FetchRelease, Returns, Continues, UpdateInv, VerdictInv, Replaced
<1>3. compareSemver(metadata'.version, floor') = compareSemver(published.version, floor)
  BY DEF FetchRelease, setting
<1>4. ReadInv'
  <2>1. CASE compareSemver(published.version, floor) < 0
    BY <1>2, <1>3, <2>1 DEF FetchRelease, Returns, ReadInv, During, Compared, Verified,
       Extracted
  <2>2. CASE ~(compareSemver(published.version, floor) < 0)
    BY <1>2, <1>3, <2>2 DEF FetchRelease, Continues, UpdateInv, VerdictInv, ReadInv, During,
       Compared, Verified, Extracted
  <2> QED BY <2>1, <2>2
<1>5. EntriesInv'
  BY <1>2 DEF FetchRelease, Returns, Continues, UpdateInv, EntriesInv, During, Verified,
     Extracted
<1>6. VerdictInv'
  BY <1>2 DEF FetchRelease, Returns, Continues, UpdateInv, VerdictInv, During
<1> QED BY <1>1, <1>4, <1>5, <1>6 DEF UpdateInv

LEMMA ReadArchiveKeeps == ASSUME UpdateInv, ReadArchive PROVE UpdateInv'
<1>1. published.archive \in Archive /\ Len(published.archive) \in Nat
  <2>1. published.archive \in Archive
    BY DEF UpdateInv, UpdateTypeOK, Release
  <2>2. published.archive \in Seq(Entry)
    BY <2>1, UpdateAssumption
  <2> QED BY <2>1, <2>2
<1>2. entry = 0 /\ found = {} /\ ~Replaced
  BY DEF ReadArchive, UpdateInv, EntriesInv, VerdictInv, Replaced
<1>3. UpdateTypeOK'
  <2>1. entry' \in 0..Len(archive') /\ found' \subseteq 1..entry'
    BY <1>1, <1>2 DEF ReadArchive
  <2> QED BY <1>1, <2>1 DEF ReadArchive, Returns, Continues, UpdateInv, UpdateTypeOK, setting,
          world
<1>4. ~Replaced'
  BY <1>2 DEF ReadArchive, Returns, Continues, Replaced
<1>5. ReadInv'
  BY <1>2, <1>4 DEF ReadArchive, Returns, Continues, Vouched, UpdateInv, ReadInv, VerdictInv,
     During, Compared, Verified, Extracted, setting
<1>6. EntriesInv'
  BY <1>2, <1>4 DEF ReadArchive, Returns, Continues, EntriesInv, During, Verified, Extracted
<1>7. VerdictInv'
  BY <1>2, <1>4 DEF ReadArchive, Returns, Continues, UpdateInv, VerdictInv, During
<1> QED BY <1>3, <1>5, <1>6, <1>7 DEF UpdateInv

LEMMA ReadSumsKeeps == ASSUME UpdateInv, ReadSums PROVE UpdateInv'
<1>1. published.sums \in Sums
  BY DEF UpdateInv, UpdateTypeOK, Release
<1>2. entry = 0 /\ found = {} /\ ~Replaced
  BY DEF ReadSums, UpdateInv, EntriesInv, VerdictInv, Replaced
<1>3. UpdateTypeOK'
  BY <1>1 DEF ReadSums, Returns, Continues, UpdateInv, UpdateTypeOK, setting, world
<1>4. ~Replaced'
  BY <1>2 DEF ReadSums, Returns, Continues, Replaced
<1>5. ReadInv'
  BY <1>2, <1>4 DEF ReadSums, Returns, Continues, Vouched, verifyChecksumEntry, UpdateInv,
     ReadInv, VerdictInv, During, Compared, Verified, Extracted, setting
<1>6. EntriesInv'
  <2>1. Size(entry)' <= MaxExtracted
    <3>1. archive' \in Seq(Entry) /\ entry' = 0
      <4>1. archive \in Seq(Entry)
        BY ArchiveTyped DEF UpdateInv
      <4> QED BY <1>2, <4>1 DEF ReadSums
    <3>2. Sizes(archive')[0] = 0
      BY <3>1, SizesStep
    <3> QED BY <3>1, <3>2, UpdateAssumption DEF Size
  <2>2. entry' = 0 /\ found' = {}
    BY <1>2 DEF ReadSums
  <2>3. step' \in {"extracting", "over"}
    BY DEF ReadSums, Returns, Continues
  <2> QED BY <1>4, <2>1, <2>2, <2>3 DEF EntriesInv, During, Extracted
<1>7. VerdictInv'
  BY <1>2, <1>4 DEF ReadSums, Returns, Continues, UpdateInv, VerdictInv, During
<1> QED BY <1>3, <1>5, <1>6, <1>7 DEF UpdateInv

\* An entry that is acceptable keeps the whole within its limit.
LEMMA ExtractEntryKeeps == ASSUME UpdateInv, ExtractEntry PROVE UpdateInv'
<1> DEFINE i == entry + 1
<1>1. CASE ~Acceptable(i)
  <2>1. Returns("invalid") /\ UNCHANGED <<entry, found>> /\ step # "over"
    BY <1>1 DEF ExtractEntry
  <2> QED BY <2>1, ReturnKeeps DEF ExtractEntry, readings
<1>2. CASE Acceptable(i)
  <2>1. /\ entry' = i
        /\ found' = IF Wanted(archive[i]) /\ archive[i].type = "file" THEN found \cup {i} ELSE found
        /\ step = "extracting" /\ step' = "extracting"
        /\ UNCHANGED <<verdict, staged, setting, readings, world, executable, sidecars>>
    BY <1>2 DEF ExtractEntry, Continues
  <2>2. archive \in Seq(Entry) /\ Len(archive) \in Nat /\ entry \in 0..Len(archive)
    <3>1. UpdateTypeOK
      BY DEF UpdateInv
    <3>2. archive \in Seq(Entry)
      BY <3>1, ArchiveTyped
    <3>3. entry \in 0..Len(archive)
      BY <3>1 DEF UpdateTypeOK
    <3>4. Len(archive) \in Nat
      BY <3>2
    <3> QED BY <3>2, <3>3, <3>4
  <2>3. i \in 1..Len(archive) /\ i - 1 = entry /\ entry \in Nat
    BY <2>2 DEF ExtractEntry
  <2> HIDE DEF i
  <2>4. /\ \A j \in 1..entry : Acceptable(j)
        /\ found = {j \in 1..entry : Wanted(archive[j]) /\ archive[j].type = "file"}
        /\ Size(entry) <= MaxExtracted
    BY <2>1 DEF UpdateInv, EntriesInv, During, Verified
  <2>5. \A j : j \in 1..i <=> j \in 1..entry \/ j = i
    BY <2>3
  <2>6. UpdateTypeOK'
    <3>1. entry' \in 0..Len(archive') /\ found' \subseteq 1..entry'
      <4>1. found \subseteq 1..entry /\ archive' = archive
        BY <2>1 DEF UpdateInv, UpdateTypeOK, readings
      <4>2. found' \subseteq 1..i
        BY <2>1, <2>5, <4>1
      <4>3. i \in 0..Len(archive)
        BY <2>2, <2>3
      <4> QED BY <2>1, <4>1, <4>2, <4>3
    <3> QED BY <2>1, <3>1 DEF UpdateInv, UpdateTypeOK, setting, readings, world
  <2>7. Replaced' = Replaced /\ ~Replaced
    BY <2>1 DEF UpdateInv, VerdictInv, Replaced
  <2>8. ReadInv'
    BY <2>1, <2>7 DEF UpdateInv, ReadInv, During, Compared, Verified, Extracted, setting,
           readings
  <2>9. EntriesInv'
    <3>1. Size(i) <= MaxExtracted
      <4>1. Size(i) = Size(entry) + (IF archive[i].type = "file" THEN archive[i].size ELSE 0)
            /\ Size(entry) \in Nat
        BY <2>2, <2>3, SizesStep DEF Size
      <4>2. CASE archive[i].type = "file"
        BY <1>2, <4>2 DEF Acceptable
      <4>3. CASE archive[i].type # "file"
        BY <2>4, <4>1, <4>3
      <4> QED BY <4>2, <4>3
    <3>2. archive' = archive /\ system' = system
      BY <2>1 DEF setting, readings
    <3>3. \A j \in 1..i : Acceptable(j)
      BY <1>2, <2>4, <2>5 DEF i
    <3>4. \A j \in 1..i : Acceptable(j)'
      <4>1. \A j : Acceptable(j)' = Acceptable(j)
        BY <3>2 DEF Acceptable, Alike, BeneathFile, Wanted, Size
      <4> QED BY <3>3, <4>1
    <3>5. found' = {j \in 1..i : Wanted(archive[j]) /\ archive[j].type = "file"}
      BY <2>1, <2>4, <2>5
    <3>6. found' = {j \in 1..i : Wanted(archive[j])' /\ archive'[j].type = "file"}
      BY <3>2, <3>5 DEF Wanted
    <3>7. Size(entry)' <= MaxExtracted
      BY <2>1, <3>1, <3>2 DEF Size
    <3>8. step' = "extracting" /\ ~Replaced'
      BY <2>1, <2>7
    <3> QED BY <2>1, <3>4, <3>6, <3>7, <3>8 DEF EntriesInv, During, Extracted
  <2>10. VerdictInv'
    BY <2>1, <2>7 DEF UpdateInv, VerdictInv, During
  <2> QED BY <2>6, <2>8, <2>9, <2>10 DEF UpdateInv
<1> QED BY <1>1, <1>2

\* A step that goes on beyond the extraction.
LEMMA GoingOnKeeps ==
    ASSUME UpdateInv, NEW next \in Extracted, step \in Verified \ {"renaming"}, next # "renaming",
           Continues(next), next = "staging" => ~managed,
           step = "extracting" => entry = Len(archive) /\ Needed \subseteq Names,
           UNCHANGED <<setting, readings, world, entry, found, executable, sidecars>>
    PROVE  UpdateInv'
<1>1. Replaced' = Replaced /\ ~Replaced
  BY DEF Continues, UpdateInv, VerdictInv, Replaced, Verified, Extracted
<1>2. step' = next /\ next \in {"rechecking", "replacing", "staging"}
  BY DEF Continues, Extracted
<1>3. UpdateTypeOK'
  BY <1>2 DEF Continues, UpdateInv, UpdateTypeOK, VerdictInv, Verified, Extracted, setting,
     readings, world
<1>4. ReadInv'
  BY <1>1, <1>2 DEF Continues, UpdateInv, ReadInv, During, Compared, Verified, Extracted,
         setting,
     readings
<1>5. EntriesInv'
  <2>1. UNCHANGED <<system, archive, entry, found>> /\ EntriesInv
    BY DEF UpdateInv, setting, readings
  <2>2. CASE step # "extracting"
    BY <1>1, <1>2, <2>1, <2>2, EntriesKept DEF During, Verified, Extracted
  <2>3. CASE step = "extracting"
    <3>1. /\ \A i : Acceptable(i)' = Acceptable(i)
          /\ \A e : Wanted(e)' = Wanted(e)
          /\ Size(entry)' = Size(entry) /\ Names' = Names /\ Needed' = Needed
      BY <2>1 DEF Acceptable, Alike, BeneathFile, Wanted, Size, Names, Needed
    <3> QED BY <1>1, <1>2, <2>1, <2>3, <3>1 DEF EntriesInv, During, Verified
  <2> QED BY <2>2, <2>3
<1>6. VerdictInv'
  BY <1>1, <1>2 DEF Continues, UpdateInv, VerdictInv, During, Verified, Extracted, world
<1> QED BY <1>3, <1>4, <1>5, <1>6 DEF UpdateInv

LEMMA FinishExtractionKeeps == ASSUME UpdateInv, FinishExtraction PROVE UpdateInv'
<1>1. CASE Needed \subseteq Names
  BY <1>1, GoingOnKeeps DEF FinishExtraction, Verified, Extracted
<1>2. CASE ~(Needed \subseteq Names)
  BY <1>2, ReturnKeeps DEF FinishExtraction, readings
<1> QED BY <1>1, <1>2

LEMMA RecheckKeeps == ASSUME UpdateInv, Recheck PROVE UpdateInv'
<1>1. CASE ~managed
  BY <1>1, GoingOnKeeps DEF Recheck, Verified, Extracted
<1>2. CASE managed
  BY <1>2, ReturnKeeps DEF Recheck, readings
<1> QED BY <1>1, <1>2

LEMMA BeginReplaceKeeps == ASSUME UpdateInv, BeginReplace PROVE UpdateInv'
<1>1. CASE Continues("staging") /\ ~managed
  BY <1>1, GoingOnKeeps DEF BeginReplace, Verified, Extracted
<1>2. CASE Returns("managed")
  BY <1>2, ReturnKeeps DEF BeginReplace, readings
<1>3. CASE Returns("current")
  BY <1>3, ReturnKeeps DEF BeginReplace, readings
<1> QED BY <1>1, <1>2, <1>3 DEF BeginReplace

LEMMA UpdateFailsKeeps == ASSUME UpdateInv, UpdateFails PROVE UpdateInv'
  BY ReturnKeeps DEF UpdateFails, readings

LEMMA StageExecutableKeeps == ASSUME UpdateInv, StageExecutable PROVE UpdateInv'
<1>1. Replaced' = Replaced /\ ~Replaced
  BY DEF StageExecutable, UpdateInv, VerdictInv, Replaced
<1>2. UpdateTypeOK'
  BY DEF StageExecutable, UpdateInv, UpdateTypeOK, setting, readings, world
<1>3. ReadInv'
  BY <1>1 DEF StageExecutable, UpdateInv, ReadInv, During, Compared, Verified, Extracted,
         setting,
     readings
<1>4. EntriesInv'
  <2>1. UNCHANGED <<system, archive, entry, found>> /\ EntriesInv
    BY DEF StageExecutable, UpdateInv, setting, readings
  <2> QED BY <1>1, <2>1, EntriesKept DEF StageExecutable, During, Verified, Extracted
<1>5. VerdictInv'
  BY <1>1 DEF StageExecutable, UpdateInv, VerdictInv, During, world
<1> QED BY <1>2, <1>3, <1>4, <1>5 DEF UpdateInv

LEMMA InstallKeeps == ASSUME UpdateInv, Install PROVE UpdateInv'
<1>1. /\ step = "renaming" /\ step' = "over" /\ ~Replaced
      /\ verdict' \in {"pending", "updated", "failed"}
  BY DEF Install, UpdateInv, VerdictInv, Replaced
<1>2. UNCHANGED <<system, mode, floor, metadata, archive, sums, entry, found, managed, late>>
  BY DEF Install, setting, readings, world
<1>3. UpdateTypeOK'
  BY DEF Install, UpdateInv, UpdateTypeOK, setting, readings, world
<1>4. ReadInv'
  <2>1. verdict' = "updated" => executable' = archive'
    BY <1>2 DEF Install
  <2> QED BY <1>1, <1>2, <2>1 DEF UpdateInv, ReadInv, During, Replaced, Compared, Verified,
          Extracted
<1>5. EntriesInv'
  <2>1. EntriesInv
    BY DEF UpdateInv
  <2> QED BY <1>1, <1>2, <2>1, EntriesKept DEF During, Verified, Extracted
<1>6. VerdictInv'
  BY <1>1, <1>2 DEF UpdateInv, VerdictInv, During
<1> QED BY <1>3, <1>4, <1>5, <1>6 DEF UpdateInv

LEMMA UpdateStep == UpdateInv /\ [UpdateNext]_updateVars => UpdateInv'
<1> SUFFICES ASSUME UpdateInv, [UpdateNext]_updateVars PROVE UpdateInv'
  OBVIOUS
<1>1. CASE UNCHANGED updateVars
  <2>1. UpdateTypeOK'
    BY <1>1 DEF updateVars, UpdateInv, UpdateTypeOK
  <2>2. ReadInv'
    BY <1>1 DEF updateVars, UpdateInv, ReadInv, During, Replaced
  <2>3. EntriesInv'
    <3>1. UNCHANGED <<system, archive, entry, found>> /\ EntriesInv
      BY <1>1 DEF updateVars, UpdateInv
    <3>2. step' = step /\ Replaced' = Replaced
      BY <1>1 DEF updateVars, Replaced
    <3> QED BY <3>1, <3>2, EntriesKept DEF During
  <2>4. VerdictInv'
    BY <1>1 DEF updateVars, UpdateInv, VerdictInv, During, Replaced
  <2> QED BY <2>1, <2>2, <2>3, <2>4 DEF UpdateInv
<1> QED
  BY <1>1, RepublishKeeps, AdoptKeeps, CheckKeeps, FetchReleaseKeeps, ReadArchiveKeeps,
     ReadSumsKeeps, ExtractEntryKeeps, FinishExtractionKeeps, RecheckKeeps, BeginReplaceKeeps,
     StageExecutableKeeps, InstallKeeps, UpdateFailsKeeps
  DEF UpdateNext

-----------------------------------------------------------------------------
(* What follows.                                                             *)

LEMMA UpdateTrustedHolds == UpdateInv => UpdateTrusted
<1> SUFFICES ASSUME UpdateInv PROVE UpdateTrusted
  OBVIOUS
<1>1. InstalledIsVerified
  BY DEF UpdateInv, ReadInv, InstalledIsVerified, During
<1>2. FloorHolds
  <2>1. metadata.version \in SemVersion /\ floor \in SemVersion
    BY UpdateAssumption DEF UpdateInv, UpdateTypeOK, Release, Version, Floor
  <2>2. compareSemver(metadata.version, floor) < 0 <=> Precedes(metadata.version, floor)
    BY <2>1, VersionsOrdered
  <2> QED BY <2>2 DEF UpdateInv, ReadInv, FloorHolds, During
<1>3. ExtractedUnambiguously
  <2>1. SUFFICES ASSUME Replaced PROVE ExtractedUnambiguously
    BY DEF ExtractedUnambiguously
  <2>2. /\ \A i \in 1..Len(archive) : Acceptable(i)
        /\ found = {i \in 1..Len(archive) : Wanted(archive[i]) /\ archive[i].type = "file"}
        /\ Size(Len(archive)) <= MaxExtracted
        /\ Needed \subseteq Names
    BY <2>1 DEF UpdateInv, EntriesInv, During
  <2>3. archive \in Seq(Entry) /\ Len(archive) \in Nat
    BY ArchiveTyped DEF UpdateInv
  <2>4. Len(archive) <= MaxEntries
    <3>1. CASE Len(archive) = 0
      BY <3>1, UpdateAssumption
    <3>2. CASE Len(archive) # 0
      <4>1. Acceptable(Len(archive))
        BY <2>2, <2>3, <3>2
      <4> QED BY <4>1 DEF Acceptable
    <3> QED BY <3>1, <3>2
  <2>5. ASSUME NEW n \in Needed
        PROVE  \E i \in found :
                  /\ archive[i].name = n /\ archive[i].type = "file"
                  /\ \A j \in 1..Len(archive) :
                        archive[j].name = n /\ (system = "windows" \/ archive[j].exact) => i = j
    <3>1. PICK i \in found : archive[i].name = n
      BY <2>2, <2>5 DEF Names
    <3>2. i \in 1..Len(archive) /\ archive[i].type = "file" /\ archive[i].exact
      BY <2>2, <3>1 DEF Wanted
    <3>3. ASSUME NEW j \in 1..Len(archive), archive[j].name = n,
                 system = "windows" \/ archive[j].exact
          PROVE  i = j
      <4>1. archive[i].exact \in BOOLEAN /\ archive[j].exact \in BOOLEAN
        <5>1. archive[i] \in Entry /\ archive[j] \in Entry
          BY <2>3, <3>2
        <5> QED BY <5>1 DEF Entry
      <4>2. system = "windows" \/ archive[i].exact = archive[j].exact
        BY <3>2, <3>3, <4>1
      <4>3. Alike(archive[j], archive[i]) /\ Alike(archive[i], archive[j])
        BY <3>1, <3>3, <4>2 DEF Alike
      <4>4. ~(j < i)
        <5>1. ASSUME j < i PROVE FALSE
          <6>1. Acceptable(i) /\ j \in 1..(i - 1)
            BY <2>2, <3>2, <5>1
          <6> QED BY <4>3, <6>1 DEF Acceptable
        <5> QED BY <5>1
      <4>5. ~(i < j)
        <5>1. ASSUME i < j PROVE FALSE
          <6>1. Acceptable(j) /\ i \in 1..(j - 1)
            BY <2>2, <3>2, <5>1
          <6> QED BY <4>3, <6>1 DEF Acceptable
        <5> QED BY <5>1
      <4> QED BY <3>2, <4>4, <4>5
    <3> QED BY <3>1, <3>2, <3>3
  <2> QED BY <2>2, <2>4, <2>5 DEF ExtractedUnambiguously
<1>4. ManagedIsKept
  BY DEF UpdateInv, VerdictInv, ManagedIsKept, During
<1> QED BY <1>1, <1>2, <1>3, <1>4 DEF UpdateTrusted

\* Every variable of the updater keeps its type; a file is staged only by an update
\* that is about to install it.
THEOREM UpdateTypeCorrect == UpdateSpec => []UpdateTypeOK
<1>1. UpdateInv => UpdateTypeOK
  BY DEF UpdateInv
<1> QED BY <1>1, UpdateInitHolds, UpdateStep, PTL DEF UpdateSpec

\* self-update installs what was verified and nothing else, no release that precedes
\* the version required in SemVer's order, no archive that is ambiguous or over its
\* limits, and nothing over an installation a package manager has taken over.
THEOREM UpdatesAreTrusted == UpdateSpec => []UpdateTrusted
<1> QED BY UpdateTrustedHolds, UpdateInitHolds, UpdateStep, PTL DEF UpdateSpec

-----------------------------------------------------------------------------
(*****************************************************************************)
(* Handoff: the files are replaced in the order of the package, so what a    *)
(* helper finds is a prefix of new files, one file in between, and files     *)
(* nobody has touched.  While not every file is new, a replaced one has a    *)
(* backup; the backups go only after that.  The records of a helper say of   *)
(* the files it came to which of the two holds.                              *)
(*****************************************************************************)
At(i) == target[Files[i]]
Spare(i) == backup[Files[i]]
First(i) == before[Files[i]]

AllNew == \A i \in Places : At(i) = "new"
NoBackup == \A i \in Places : Spare(i) = "none"
Untouched(i) == First(i) # "new" => At(i) = First(i) /\ Spare(i) = "none"

RollingBack == {"unputting", "restoring"}
AtFile == {"looking", "moving", "putting"}

\* A backup is an old file that is not in its place.
ContentsInv ==
    \A i \in Places :
        /\ Spare(i) # "none" => Spare(i) = "old" /\ First(i) = "old" /\ At(i) # "old"
        /\ At(i) = "old" => First(i) = "old"

\* A changed file has its backup until every file is new.
BackedUp == \A i \in Places : First(i) = "old" /\ At(i) = "new" => Spare(i) # "none"
BackupInv ==
    /\ AllNew \/ BackedUp
    /\ phase \in RollingBack => BackedUp

\* Where the helper is says what the file it is at holds.
PlaceInv ==
    /\ phase \in AtFile => \A i \in 1..(place - 1) : At(i) = "new"
    /\ phase = "moving" => At(place) = "old" /\ Spare(place) = "none"
    /\ phase = "putting" => At(place) = "none"

\* The records are true, of the last one only until its file is removed.
RecordInv ==
    phase \in AtFile \cup RollingBack =>
        \A i \in DOMAIN records :
            /\ records[i].kept <=> Spare(i) # "none"
            /\ phase # "restoring" \/ i < Len(records) =>
                  (records[i].put <=> At(i) = "new")

\* Before the first rollback, files after one that is not new are untouched; in
\* that rollback the files it is done with are as they were.
AheadInv ==
    /\ undone = 0 => \A i, j \in Places : i < j /\ At(i) # "new" => Untouched(j)
    /\ phase \in RollingBack =>
          /\ undone # 0
          /\ undone = 1 /\ ~spoiled =>
                /\ \A j \in Places : j > Len(records) => Untouched(j)
                /\ phase = "restoring" => At(Len(records)) # "new"

\* The end of a handoff.
EndInv ==
    /\ phase = "launching" => attached = {"helper", "transaction"}
    /\ phase = "committing" => AllNew /\ \A i \in 1..(place - 1) : Spare(i) = "none"
    /\ phase = "refreshing" => AllNew /\ NoBackup /\ source = {}
    /\ result = "done" => phase \in {"cleaning", "over"} /\ AllNew /\ NoBackup /\ source = {}
    /\ phase = "cleaning" => result = "done"
    /\ phase = "over" /\ result = "restored" /\ undone = 1 => \A i \in Places : Untouched(i)

HandoffInv ==
    HandoffTypeOK /\ ChangedKept /\ ContentsInv /\ BackupInv /\ PlaceInv /\ RecordInv
    /\ AheadInv /\ EndInv

USE HandoffAssumption
-----------------------------------------------------------------------------
(* Files in their order, and lists of records.                               *)

Record == [put : BOOLEAN, kept : BOOLEAN]

\* One file of a package changes and the others do not.
LEMMA OneFile ==
    ASSUME NEW g \in [Package -> Contents], NEW i \in Places, NEW c \in Contents
    PROVE  /\ [g EXCEPT ![Files[i]] = c] \in [Package -> Contents]
           /\ \A j \in Places :
                 [g EXCEPT ![Files[i]] = c][Files[j]] = IF j = i THEN c ELSE g[Files[j]]
  BY DEF Package

\* One record changes, or the last is dropped.
LEMMA RecordChanged ==
    ASSUME NEW r \in Seq(Record), NEW i \in 1..Len(r), NEW b \in BOOLEAN
    PROVE  /\ [r EXCEPT ![i].put = b] \in Seq(Record)
           /\ Len([r EXCEPT ![i].put = b]) = Len(r)
           /\ [r EXCEPT ![i].kept = b] \in Seq(Record)
           /\ Len([r EXCEPT ![i].kept = b]) = Len(r)
<1>1. r[i] \in Record
  BY ElementOfSeq
<1>2. /\ [r[i] EXCEPT !.put = b] \in Record
      /\ [r[i] EXCEPT !.kept = b] \in Record
  BY <1>1 DEF Record
<1>3. /\ [r EXCEPT ![i] = [r[i] EXCEPT !.put = b]] \in Seq(Record)
      /\ Len([r EXCEPT ![i] = [r[i] EXCEPT !.put = b]]) = Len(r)
  BY <1>2, ExceptSeq
<1>4. /\ [r EXCEPT ![i] = [r[i] EXCEPT !.kept = b]] \in Seq(Record)
      /\ Len([r EXCEPT ![i] = [r[i] EXCEPT !.kept = b]]) = Len(r)
  BY <1>2, ExceptSeq
<1> QED BY <1>3, <1>4

LEMMA RecordDropped ==
    ASSUME NEW r \in Seq(Record), Len(r) > 0
    PROVE  /\ SubSeq(r, 1, Len(r) - 1) \in Seq(Record)
           /\ Len(SubSeq(r, 1, Len(r) - 1)) = Len(r) - 1
           /\ \A j \in 1..(Len(r) - 1) : SubSeq(r, 1, Len(r) - 1)[j] = r[j]
<1> DEFINE m == Len(r) - 1
<1>1. Len(r) \in Nat /\ m \in Nat /\ 1..m \subseteq 1..Len(r)
  BY LenProperties
<1>2. \A i \in 1..m : r[i] \in Record
  BY <1>1, ElementOfSeq
<1> HIDE DEF m
<1>3. /\ SubSeq(r, 1, m) \in Seq(Record)
      /\ Len(SubSeq(r, 1, m)) = IF 1 <= m THEN m - 1 + 1 ELSE 0
      /\ \A i \in 1..(m - 1 + 1) : SubSeq(r, 1, m)[i] = r[1 + i - 1]
  BY <1>1, <1>2, SubSeqProperties
<1>4. m - 1 + 1 = m /\ (m = 0 \/ 1 <= m) /\ \A i \in 1..m : 1 + i - 1 = i
  BY <1>1
<1> QED BY <1>1, <1>3, <1>4 DEF m

-----------------------------------------------------------------------------
(* Every step keeps the invariant.                                           *)

\* The end of one file's rollback keeps the types.
LEMMA RestoredTyped ==
    ASSUME HandoffInv, phase = "restoring", NEW brought \in BOOLEAN, Restored(brought)
    PROVE  /\ target' \in [Package -> Contents] /\ backup' \in [Package -> Contents]
           /\ records' \in Seq(Record) /\ spoiled' \in BOOLEAN
           /\ phase' \in {"unputting", "over"}
           /\ phase' = "unputting" => Len(records') \in Places
           /\ result' \in {result, "broken", "restored"}
<1>1. Len(records) \in Places /\ records \in Seq(Record)
  BY DEF HandoffInv, HandoffTypeOK, Record
<1>2. backup[Files[Len(records)]] \in Contents
  BY <1>1 DEF HandoffInv, HandoffTypeOK, Package
<1>3. target' \in [Package -> Contents] /\ backup' \in [Package -> Contents]
  BY <1>1, <1>2, OneFile DEF Restored, Last, HandoffInv, HandoffTypeOK, Contents
<1>4. records' \in Seq(Record) /\ Len(records') = Len(records) - 1
  BY <1>1, RecordDropped DEF Restored, Places
<1>5. spoiled' \in BOOLEAN
  BY DEF Restored, HandoffInv, HandoffTypeOK
<1>6. /\ phase' \in {"unputting", "over"}
      /\ phase' = "unputting" => Len(records) > 1
      /\ result' \in {result, "broken", "restored"}
  BY DEF Restored, HelperReturns
<1> QED BY <1>1, <1>3, <1>4, <1>5, <1>6 DEF Places

\* What the record of the file whose rollback ends says of its backup is true.
LEMMA LastIsTrue ==
    ASSUME HandoffInv, phase \in RollingBack
    PROVE  LastRecord.kept <=> Spare(Len(records)) # "none"
<1>1. Len(records) \in DOMAIN records
  BY LenProperties DEF HandoffInv, HandoffTypeOK, RollingBack, Places
<1> QED BY <1>1 DEF HandoffInv, RecordInv, LastRecord, RollingBack

\* A file whose rollback ends either has its backup in its place or is left as
\* it is, without a backup.
LEMMA LastRestored ==
    ASSUME HandoffInv, Restore, NEW n \in Places, n = Len(records)
    PROVE  /\ \A i \in Places : i # n => At(i)' = At(i) /\ Spare(i)' = Spare(i)
           /\ \/ Spare(n) # "none" /\ At(n)' = Spare(n) /\ Spare(n)' = "none"
              \/ At(n)' = At(n) /\ Spare(n)' = Spare(n)
           /\ ~spoiled' => Spare(n)' = "none"
<1> DEFINE brought == LastRecord.kept /\ backup[Last] # "none" /\ ~interrupted
<1>1. phase \in RollingBack /\ backup[Files[n]] \in Contents
  BY DEF Restore, RollingBack, HandoffInv, HandoffTypeOK, Package
<1>2. LastRecord.kept <=> backup[Files[n]] # "none"
  BY <1>1, LastIsTrue DEF Spare
<1>3. Last = Files[n] /\ Restored(brought)
  BY DEF Last, Restore
<1>4. CASE brought
  <2>1. target' = [target EXCEPT ![Files[n]] = backup[Files[n]]]
        /\ backup' = [backup EXCEPT ![Files[n]] = "none"]
    BY <1>3, <1>4 DEF Restored
  <2>2. \A i \in Places : target'[Files[i]] = IF i = n THEN backup[Files[n]] ELSE target[Files[i]]
    BY <1>1, <2>1, OneFile DEF HandoffInv, HandoffTypeOK
  <2>3. \A i \in Places : backup'[Files[i]] = IF i = n THEN "none" ELSE backup[Files[i]]
    BY <1>1, <2>1, OneFile DEF HandoffInv, HandoffTypeOK, Contents
  <2> QED BY <1>3, <1>4, <2>2, <2>3 DEF At, Spare
<1>5. CASE ~brought /\ LastRecord.kept
  <2>1. target' = target /\ backup' = backup /\ spoiled'
    BY <1>3, <1>5 DEF Restored
  <2> QED BY <2>1 DEF At, Spare
<1>6. CASE ~brought /\ ~LastRecord.kept
  <2>1. target' = target /\ backup' = [backup EXCEPT ![Files[n]] = "none"]
    BY <1>3, <1>6 DEF Restored
  <2>2. \A i \in Places : backup'[Files[i]] = IF i = n THEN "none" ELSE backup[Files[i]]
    BY <1>1, <2>1, OneFile DEF HandoffInv, HandoffTypeOK, Contents
  <2> QED BY <1>2, <1>6, <2>1, <2>2 DEF At, Spare
<1> QED BY <1>4, <1>5, <1>6

\* In the first rollback, while it meets with no failure, the files it is done
\* with are as they were.
LEMMA AllRestored ==
    ASSUME HandoffInv, Restore, undone = 1, ~spoiled', NEW j \in Places, j > Len(records')
    PROVE  Untouched(j)'
<1> DEFINE n == Len(records)
<1>1. n \in Places /\ phase = "restoring" /\ records \in Seq(Record)
  BY DEF Restore, HandoffInv, HandoffTypeOK, Record
<1>2. Len(records') = n - 1
  BY <1>1, RecordDropped DEF Restore, Restored, Places
<1>3. ~spoiled /\ before' = before
  BY DEF Restore, Restored
<1>4. /\ \A i \in Places : i > n => Untouched(i)
      /\ At(n) # "new"
  BY <1>1, <1>3 DEF HandoffInv, AheadInv, RollingBack
<1>5. First(j)' = First(j)
  BY <1>3 DEF First
<1>6. Files[j] \in Package
  BY DEF Package
<1> HIDE DEF n
<1>7. CASE j # n
  <2>1. Untouched(j)
    BY <1>1, <1>2, <1>4, <1>7 DEF Places
  <2>2. At(j)' = At(j) /\ Spare(j)' = Spare(j)
    BY <1>1, <1>7, LastRestored DEF n
  <2> QED BY <1>5, <2>1, <2>2 DEF Untouched
<1>8. CASE j = n
  <2>1. /\ Spare(j)' = "none"
        /\ \/ Spare(j) # "none" /\ At(j)' = Spare(j)
           \/ At(j)' = At(j) /\ Spare(j)' = Spare(j)
    BY <1>8, LastRestored DEF n
  <2>2. /\ Spare(j) # "none" => Spare(j) = "old" /\ First(j) = "old"
        /\ At(j) = "old" => First(j) = "old"
    BY DEF HandoffInv, ContentsInv
  <2>3. First(j) = "old" => At(j) # "none" \/ Spare(j) # "none"
    BY <1>6 DEF HandoffInv, ChangedKept, First, At, Spare
  <2>4. At(j) \in Contents /\ First(j) \in Contents
    BY <1>6 DEF HandoffInv, HandoffTypeOK, At, First
  <2> QED BY <1>4, <1>5, <1>8, <2>1, <2>2, <2>3, <2>4 DEF Untouched, Contents
<1> QED BY <1>7, <1>8

\* The updater touches no file of the package, only what it stages beside them.
LEMMA CompareKeeps == ASSUME HandoffInv, Compare PROVE HandoffInv'
<1>1. HandoffTypeOK'
  BY DEF Compare, HelperReturns, HandoffInv, HandoffTypeOK, HelperPhases
<1>2. ChangedKept' /\ ContentsInv' /\ BackupInv' /\ PlaceInv' /\ RecordInv' /\ AheadInv'
  BY DEF Compare, HelperReturns, HandoffInv, ChangedKept, ContentsInv, BackupInv,
         PlaceInv, RecordInv, AheadInv, AllNew, BackedUp, Untouched, RollingBack,
         AtFile, At, Spare, First
<1>3. EndInv'
  BY DEF Compare, HelperReturns, HandoffInv, EndInv, AllNew, NoBackup, Untouched, At,
         Spare, First
<1> QED BY <1>1, <1>2, <1>3 DEF HandoffInv

LEMMA StageKeeps == ASSUME HandoffInv, Stage PROVE HandoffInv'
<1>1. HandoffTypeOK'
  BY DEF Stage, outcome, HandoffInv, HandoffTypeOK, HelperPhases, Contents, Places,
         Package
<1>2. ChangedKept' /\ ContentsInv' /\ BackupInv' /\ PlaceInv' /\ RecordInv' /\ AheadInv'
  BY DEF Stage, outcome, HandoffInv, ChangedKept, ContentsInv, BackupInv, PlaceInv,
         RecordInv, AheadInv, AllNew, BackedUp, Untouched, RollingBack, AtFile, At,
         Spare, First
<1>3. EndInv'
  BY DEF Stage, outcome, HandoffInv, EndInv, AllNew, NoBackup, Untouched, At, Spare,
         First
<1> QED BY <1>1, <1>2, <1>3 DEF HandoffInv

\* Nothing is in place yet when the updater gives up.
LEMMA StagingFailsKeeps == ASSUME HandoffInv, StagingFails PROVE HandoffInv'
<1>1. HandoffTypeOK'
  BY DEF StagingFails, Break, HelperReturns, HandoffInv, HandoffTypeOK, HelperPhases
<1>2. ChangedKept' /\ ContentsInv' /\ BackupInv' /\ PlaceInv' /\ RecordInv' /\ AheadInv'
  BY DEF StagingFails, Break, HelperReturns, HandoffInv, ChangedKept, ContentsInv,
         BackupInv, PlaceInv, RecordInv, AheadInv, AllNew, BackedUp, Untouched,
         RollingBack, AtFile, At, Spare, First
<1>3. EndInv'
  BY DEF StagingFails, Break, HelperReturns, HandoffInv, EndInv, AllNew, NoBackup,
         Untouched, At, Spare, First
<1> QED BY <1>1, <1>2, <1>3 DEF HandoffInv

\* The helper starts with its transaction written.
LEMMA LaunchKeeps == ASSUME HandoffInv, Launch PROVE HandoffInv'
<1>1. HandoffTypeOK'
  BY DEF Launch, outcome, HandoffInv, HandoffTypeOK, HelperPhases, EndInv
<1>2. ChangedKept' /\ ContentsInv' /\ BackupInv' /\ PlaceInv' /\ RecordInv' /\ AheadInv'
  BY DEF Launch, outcome, HandoffInv, ChangedKept, ContentsInv, BackupInv, PlaceInv,
         RecordInv, AheadInv, AllNew, BackedUp, Untouched, RollingBack, AtFile, At,
         Spare, First
<1>3. EndInv'
  BY DEF Launch, outcome, HandoffInv, EndInv, AllNew, NoBackup, Untouched, At, Spare,
         First
<1> QED BY <1>1, <1>2, <1>3 DEF HandoffInv

LEMMA ParentExitsKeeps == ASSUME HandoffInv, ParentExits PROVE HandoffInv'
<1>1. HandoffTypeOK'
  BY DEF ParentExits, outcome, HandoffInv, HandoffTypeOK, HelperPhases
<1>2. ChangedKept' /\ ContentsInv' /\ BackupInv' /\ PlaceInv' /\ RecordInv' /\ AheadInv'
  BY DEF ParentExits, outcome, HandoffInv, ChangedKept, ContentsInv, BackupInv,
         PlaceInv, RecordInv, AheadInv, AllNew, BackedUp, Untouched, RollingBack,
         AtFile, At, Spare, First
<1>3. EndInv'
  BY DEF ParentExits, outcome, HandoffInv, EndInv, AllNew, NoBackup, Untouched, At,
         Spare, First
<1> QED BY <1>1, <1>2, <1>3 DEF HandoffInv

\* A helper that returns before it has validated leaves all as it is.
LEMMA WaitFailsKeeps == ASSUME HandoffInv, WaitFails PROVE HandoffInv'
<1>1. HandoffTypeOK'
  BY DEF WaitFails, Break, HelperReturns, HandoffInv, HandoffTypeOK, HelperPhases
<1>2. ChangedKept' /\ ContentsInv' /\ BackupInv' /\ PlaceInv' /\ RecordInv' /\ AheadInv'
  BY DEF WaitFails, Break, HelperReturns, HandoffInv, ChangedKept, ContentsInv,
         BackupInv, PlaceInv, RecordInv, AheadInv, AllNew, BackedUp, Untouched,
         RollingBack, AtFile, At, Spare, First
<1>3. EndInv'
  BY DEF WaitFails, Break, HelperReturns, HandoffInv, EndInv, AllNew, NoBackup,
         Untouched, At, Spare, First
<1> QED BY <1>1, <1>2, <1>3 DEF HandoffInv

\* The records begin with the helper.
LEMMA ValidateKeeps == ASSUME HandoffInv, Validate PROVE HandoffInv'
<1>1. HandoffTypeOK'
  BY DEF Validate, HelperReturns, HandoffInv, HandoffTypeOK, HelperPhases, Contents,
         Places, Package
<1>2. ChangedKept' /\ ContentsInv' /\ BackupInv' /\ PlaceInv' /\ RecordInv' /\ AheadInv'
  BY DEF Validate, HelperReturns, HandoffInv, ChangedKept, ContentsInv, BackupInv,
         PlaceInv, RecordInv, AheadInv, AllNew, BackedUp, Untouched, RollingBack,
         AtFile, At, Spare, First
<1>3. EndInv'
  BY DEF Validate, HelperReturns, HandoffInv, EndInv, AllNew, NoBackup, Untouched, At,
         Spare, First
<1> QED BY <1>1, <1>2, <1>3 DEF HandoffInv

\* A record is made of what the file and its backup hold; a rollback begins only
\* with a file that is not new, and those after it are as they were.
LEMMA LookKeeps == ASSUME HandoffInv, Look PROVE HandoffInv'
<1>1. HandoffTypeOK'
  <2> DEFINE r == Append(records, Looked(Files[place]))
  <2>1. Looked(Files[place]) \in Record /\ records \in Seq(Record)
    BY DEF Looked, Record, HandoffInv, HandoffTypeOK
  <2>2. r \in Seq(Record) /\ Len(r) = Len(records) + 1
    BY <2>1, AppendProperties
  <2>3. place \in Places /\ Len(records) = place - 1 /\ undone \in 0..2
    BY DEF Look, HandoffInv, HandoffTypeOK
  <2> HIDE DEF r
  <2>4. CASE phase' = "over"
    BY <2>4 DEF Look, HelperReturns, NextPlace, Rollback, HandoffInv, HandoffTypeOK, HelperPhases
  <2>5. CASE phase' # "over"
    <3>1. records' = r /\ Len(r) = place /\ result' = result
      BY <2>2, <2>3, <2>5 DEF Look, HelperReturns, Places, r
    <3>2. /\ place' \in Places
          /\ phase' \in {"looking", "committing", "unputting", "putting", "moving"}
          /\ undone' \in 0..2
      BY <2>3, <2>5 DEF Look, HelperReturns, NextPlace, Rollback, Places
    <3>3. phase' = "looking" => place' = place + 1
      BY <2>3, <2>5 DEF Look, HelperReturns, NextPlace, Rollback, Places
    <3>4. phase' \in {"unputting", "putting", "moving"} => place' = place
      BY <2>3, <2>5 DEF Look, HelperReturns, NextPlace, Rollback, Places
    <3>5. /\ phase' = "looking" => Len(records') = place' - 1
          /\ phase' \in {"moving", "putting"} => Len(records') = place'
          /\ phase' \in {"unputting", "restoring"} => Len(records') \in Places
      <4>1. Len(records') = place /\ place \in Nat
        BY <2>3, <3>1 DEF Places
      <4>2. CASE phase' = "looking"
        BY <3>3, <4>1, <4>2
      <4>3. CASE phase' \in {"unputting", "putting", "moving"}
        BY <2>3, <3>4, <4>1, <4>3
      <4> QED BY <3>2, <4>2, <4>3
    <3>6. records' \in Seq([put : BOOLEAN, kept : BOOLEAN])
      BY <2>2, <3>1 DEF Record
    <3>7. attached = {"helper", "transaction"}
      BY DEF Look, HandoffInv, HandoffTypeOK, HelperPhases
    <3> QED BY <3>1, <3>2, <3>5, <3>6, <3>7
            DEF Look, HandoffInv, HandoffTypeOK, HelperPhases
  <2> QED BY <2>4, <2>5
<1>2. ChangedKept'
  BY DEF Look, Looked, NextPlace, Rollback, HelperReturns, HandoffInv, ChangedKept
<1>3. ContentsInv'
  BY DEF Look, Looked, NextPlace, Rollback, HelperReturns, HandoffInv, ContentsInv, At,
         Spare, First
<1>4. BackupInv'
  BY DEF Look, Looked, NextPlace, Rollback, HelperReturns, HandoffInv, HandoffTypeOK,
         HelperPhases, BackupInv, AllNew, BackedUp, RollingBack, At, Spare, First
<1>5. PlaceInv'
  <2>1. place \in Places /\ \A i \in 1..(place - 1) : At(i) = "new"
    BY DEF Look, HandoffInv, HandoffTypeOK, PlaceInv, AtFile
  <2>2. At(place) \in Contents /\ Spare(place) \in Contents
    BY <2>1 DEF HandoffInv, HandoffTypeOK, At, Spare, Package
  <2>3. phase' = "looking" => place' = place + 1 /\ At(place) = "new"
    BY <2>1 DEF Look, HelperReturns, NextPlace, Rollback, Places, At
  <2>4. phase' \in {"moving", "putting"} =>
          /\ place' = place
          /\ At(place) # "new"
          /\ phase' = "moving" => At(place) # "none" /\ Spare(place) = "none"
          /\ phase' = "putting" => At(place) = "none"
    BY <2>1 DEF Look, HelperReturns, NextPlace, Rollback, At, Spare
  <2>5. target' = target /\ backup' = backup
    BY DEF Look
  <2> QED BY <2>1, <2>2, <2>3, <2>4, <2>5 DEF PlaceInv, AtFile, At, Spare, Contents, Places
<1>6. RecordInv'
  <2>1. Looked(Files[place]) \in Record /\ records \in Seq(Record)
    BY DEF Looked, Record, HandoffInv, HandoffTypeOK
  <2>2. place \in Places /\ Len(records) = place - 1
    BY DEF Look, HandoffInv, HandoffTypeOK
  <2>3. CASE phase' = "over"
    BY <2>3 DEF RecordInv, AtFile, RollingBack
  <2>4. CASE phase' # "over"
    <3> DEFINE r == Append(records, Looked(Files[place]))
    <3>1. /\ Len(r) = Len(records) + 1
          /\ \A i \in 1..Len(records) : r[i] = records[i]
          /\ r[Len(records) + 1] = Looked(Files[place])
          /\ DOMAIN r = 1..Len(r) /\ DOMAIN records = 1..Len(records)
      BY <2>1, AppendProperties, LenProperties
    <3> HIDE DEF r
    <3>2. records' = r /\ target' = target /\ backup' = backup /\ phase' # "restoring"
      BY <2>4 DEF Look, HelperReturns, NextPlace, Rollback, r
    <3>3. \A i \in 1..Len(records) :
             (r[i].kept <=> Spare(i) # "none") /\ (r[i].put <=> At(i) = "new")
      BY <3>1 DEF Look, HandoffInv, RecordInv, AtFile
    <3>4. /\ r[place].kept <=> Spare(place) # "none"
          /\ r[place].put <=> At(place) = "new"
      <4>1. r[place] = [put |-> At(place) = "new", kept |-> Spare(place) # "none"]
        BY <2>2, <3>1 DEF Looked, At, Spare, Places
      <4>2. r[place].kept = (Spare(place) # "none") /\ r[place].put = (At(place) = "new")
        BY <4>1
      <4> QED BY <4>2
    <3> QED BY <2>2, <3>1, <3>2, <3>3, <3>4 DEF RecordInv, At, Spare, Places
  <2> QED BY <2>3, <2>4
<1>7. AheadInv'
  <2>1. target' = target /\ backup' = backup /\ before' = before
    BY DEF Look
  <2>2. place \in Places /\ records \in Seq(Record) /\ Len(records) = place - 1
    BY DEF Look, HandoffInv, HandoffTypeOK, Record
  <2>3. undone \in 0..2
    BY DEF HandoffInv, HandoffTypeOK
  <2>4. CASE phase' \notin RollingBack /\ undone' = undone
    BY <2>1, <2>4 DEF HandoffInv, AheadInv, Untouched, At, Spare, First
  <2>5. CASE target[Files[place]] # "new" /\ Rollback /\ Len(records') = place
    <3>1. phase' = "unputting" /\ undone' # 0 /\ (undone' = 1 => undone = 0)
      BY <2>3, <2>5 DEF Rollback
    <3>2. undone = 0 => \A j \in Places : j > place => Untouched(j)
      BY <2>2, <2>5 DEF HandoffInv, AheadInv, At
    <3> QED BY <2>1, <2>5, <3>1, <3>2 DEF AheadInv, Untouched, At, Spare, First
  <2>6. CASE target[Files[place]] = "new"
    BY <2>4, <2>6 DEF Look, HelperReturns, NextPlace, RollingBack
  <2>7. Len(Append(records, Looked(Files[place]))) = place
    <3>1. Looked(Files[place]) \in Record /\ place - 1 + 1 = place
      BY <2>2 DEF Looked, Record, Places
    <3> QED BY <2>2, <3>1, AppendProperties
  <2>8. CASE target[Files[place]] # "new"
    <3>1. \/ phase' \in {"over", "putting", "moving"} /\ undone' = undone
          \/ Rollback /\ records' = Append(records, Looked(Files[place]))
      BY <2>8 DEF Look, HelperReturns
    <3> QED BY <2>4, <2>5, <2>7, <2>8, <3>1 DEF RollingBack
  <2> QED BY <2>6, <2>8
<1>8. EndInv'
  BY DEF Look, Looked, NextPlace, Rollback, HelperReturns, HandoffInv, HandoffTypeOK,
         HelperPhases, Places, Package, BackupInv, PlaceInv, RecordInv, AheadInv,
         EndInv, AllNew, NoBackup, BackedUp, Untouched, RollingBack, AtFile, At, Spare,
         First
<1> QED BY <1>1, <1>2, <1>3, <1>4, <1>5, <1>6, <1>7, <1>8 DEF HandoffInv

\* The helper returns between two files.
LEMMA LookFailsKeeps == ASSUME HandoffInv, LookFails PROVE HandoffInv'
<1>1. HandoffTypeOK'
  BY DEF LookFails, Break, HelperReturns, HandoffInv, HandoffTypeOK, HelperPhases
<1>2. ChangedKept' /\ ContentsInv' /\ BackupInv' /\ PlaceInv' /\ RecordInv' /\ AheadInv'
  BY DEF LookFails, Break, HelperReturns, HandoffInv, ChangedKept, ContentsInv,
         BackupInv, PlaceInv, RecordInv, AheadInv, AllNew, BackedUp, Untouched,
         RollingBack, AtFile, At, Spare, First
<1>3. EndInv'
  BY DEF LookFails, Break, HelperReturns, HandoffInv, EndInv, AllNew, NoBackup,
         Untouched, At, Spare, First
<1> QED BY <1>1, <1>2, <1>3 DEF HandoffInv

\* The file that is moved was not new and had no backup.
LEMMA MoveKeeps == ASSUME HandoffInv, Move PROVE HandoffInv'
<1>1. HandoffTypeOK'
  <2>1. records \in Seq(Record) /\ place \in Places /\ Len(records) = place
    BY DEF Move, HandoffInv, HandoffTypeOK, Record
  <2>2. place \in 1..Len(records) /\ TRUE \in BOOLEAN
    BY <2>1 DEF Places
  <2>5. records' \in Seq(Record) /\ Len(records') = Len(records)
    BY <2>1, <2>2, RecordChanged DEF Move
  <2>3. target[Files[place]] \in Contents
    BY <2>1 DEF HandoffInv, HandoffTypeOK, Package
  <2>4. target' \in [Package -> Contents] /\ backup' \in [Package -> Contents]
    BY <2>1, <2>3, OneFile DEF Move, HandoffInv, HandoffTypeOK, Contents
  <2> QED BY <2>1, <2>5, <2>4 DEF Move, outcome, HandoffInv, HandoffTypeOK, HelperPhases, Record
<1>2. ChangedKept'
  BY DEF Move, outcome, HandoffInv, HandoffTypeOK, ChangedKept, PlaceInv, RecordInv,
         RollingBack, AtFile, At, Spare, First
<1>3. ContentsInv'
  BY DEF Move, outcome, HandoffInv, HandoffTypeOK, ContentsInv, PlaceInv, RecordInv,
         RollingBack, AtFile, At, Spare, First
<1>4. BackupInv'
  BY DEF Move, outcome, HandoffInv, HandoffTypeOK, BackupInv, PlaceInv, RecordInv,
         AllNew, BackedUp, RollingBack, AtFile, At, Spare, First
<1>5. PlaceInv'
  BY DEF Move, outcome, HandoffInv, HandoffTypeOK, HelperPhases, Contents, Places,
         Package, PlaceInv, AtFile, At, Spare
<1>6. RecordInv'
  BY DEF Move, outcome, HandoffInv, HandoffTypeOK, HelperPhases, Places, Package,
         BackupInv, PlaceInv, RecordInv, AheadInv, EndInv, AllNew, BackedUp, Untouched,
         RollingBack, AtFile, At, Spare, First
<1>7. AheadInv'
  BY SMTT(30) DEF Move, outcome, HandoffInv, HandoffTypeOK, HelperPhases, Contents, Places,
         Package, ChangedKept, ContentsInv, BackupInv, PlaceInv, RecordInv, AheadInv,
         EndInv, AllNew, NoBackup, BackedUp, Untouched, RollingBack, AtFile, At, Spare,
         First
<1>8. EndInv'
  BY DEF Move, outcome, HandoffInv, EndInv, AllNew, NoBackup, Untouched, At, Spare,
         First
<1> QED BY <1>1, <1>2, <1>3, <1>4, <1>5, <1>6, <1>7, <1>8 DEF HandoffInv

\* The file that is put in place has a backup if it had contents.
LEMMA PutKeeps == ASSUME HandoffInv, Put PROVE HandoffInv'
<1>1. HandoffTypeOK'
  <2>1. records \in Seq(Record) /\ place \in Places /\ Len(records) = place
    BY DEF Put, HandoffInv, HandoffTypeOK, Record
  <2>5. place \in 1..Len(records) /\ TRUE \in BOOLEAN
    BY <2>1 DEF Places
  <2>2. records' \in Seq(Record) /\ Len(records') = Len(records)
    BY <2>1, <2>5, RecordChanged DEF Put
  <2>3. target' \in [Package -> Contents]
    BY <2>1, OneFile DEF Put, HandoffInv, HandoffTypeOK, Contents
  <2>4. place' \in Places /\ phase' \in {"looking", "committing"}
        /\ (phase' = "looking" => place' = place + 1)
    BY <2>1 DEF Put, NextPlace, Places
  <2> QED BY <2>1, <2>2, <2>3, <2>4
          DEF Put, outcome, HandoffInv, HandoffTypeOK, HelperPhases, Record
<1>2. ChangedKept'
  BY DEF Put, NextPlace, outcome, HandoffInv, ChangedKept
<1>3. ContentsInv'
  BY DEF Put, NextPlace, outcome, HandoffInv, ContentsInv, At, Spare, First
<1>4. BackupInv'
  <2>1. place \in Places
    BY DEF HandoffInv, HandoffTypeOK
  <2>2. \A i \in Places : At(i)' = IF i = place THEN "new" ELSE At(i)
    BY <2>1, OneFile DEF Put, HandoffInv, HandoffTypeOK, Contents, At
  <2>3. BackedUp
    BY <2>1 DEF Put, HandoffInv, BackupInv, PlaceInv, AllNew
  <2>4. First(place) = "old" => Spare(place) # "none"
    BY <2>1 DEF Put, HandoffInv, ChangedKept, PlaceInv, First, At, Spare, Package
  <2>5. BackedUp'
    BY <2>2, <2>3, <2>4 DEF Put, BackedUp, At, Spare, First
  <2> QED BY <2>5 DEF BackupInv
<1>5. PlaceInv'
  BY DEF Put, NextPlace, outcome, HandoffInv, HandoffTypeOK, HelperPhases, Contents,
         Places, Package, PlaceInv, AtFile, At, Spare
<1>6. RecordInv'
  BY DEF Put, NextPlace, outcome, HandoffInv, HandoffTypeOK, HelperPhases, Contents,
         Places, Package, RecordInv, RollingBack, AtFile, At, Spare
<1>7. AheadInv'
  <2>1. place \in Places /\ target \in [Package -> Contents]
    BY DEF Put, HandoffInv, HandoffTypeOK
  <2>2. phase' \notin RollingBack /\ undone' = undone
    BY DEF Put, NextPlace, outcome, RollingBack
  <2>3. backup' = backup /\ before' = before
    BY DEF Put
  <2>4. \A j \in Places :
           target'[Files[j]] = IF j = place THEN "new" ELSE target[Files[j]]
    BY <2>1, OneFile DEF Put, Contents
  <2>5. \A i \in Places : i < place => At(i) = "new"
    BY <2>1 DEF Put, HandoffInv, PlaceInv, AtFile, Places
  <2>6. ASSUME undone = 0, NEW i \in Places, NEW j \in Places, i < j,
               target'[Files[i]] # "new"
        PROVE  Untouched(j)'
    <3>1. i # place /\ target[Files[i]] # "new"
      BY <2>4, <2>6
    <3>2. j # place
      BY <2>5, <2>6, <3>1 DEF At
    <3>3. Untouched(j)
      BY <2>6, <3>1 DEF HandoffInv, AheadInv, At
    <3>4. target'[Files[j]] = target[Files[j]]
      BY <2>4, <3>2
    <3> QED BY <2>3, <3>3, <3>4 DEF Untouched, At, Spare, First
  <2> QED BY <2>2, <2>6 DEF AheadInv, At
<1>8. EndInv'
  BY DEF Put, NextPlace, outcome, HandoffInv, HandoffTypeOK, HelperPhases, Places,
         Package, BackupInv, PlaceInv, RecordInv, AheadInv, EndInv, AllNew, NoBackup,
         BackedUp, Untouched, RollingBack, AtFile, At, Spare, First
<1> QED BY <1>1, <1>2, <1>3, <1>4, <1>5, <1>6, <1>7, <1>8 DEF HandoffInv

\* The file at which the rollback begins is not new.
LEMMA RenameFailsKeeps == ASSUME HandoffInv, RenameFails PROVE HandoffInv'
<1>1. HandoffTypeOK'
  BY DEF RenameFails, Rollback, Break, HandoffInv, HandoffTypeOK, HelperPhases
<1>2. ChangedKept'
  BY DEF RenameFails, Rollback, Break, HandoffInv, ChangedKept
<1>3. ContentsInv'
  BY DEF RenameFails, Rollback, Break, HandoffInv, ContentsInv, At, Spare, First
<1>4. BackupInv'
  BY DEF RenameFails, Rollback, Break, HandoffInv, HandoffTypeOK, BackupInv, PlaceInv,
         RecordInv, AllNew, BackedUp, RollingBack, AtFile, At, Spare, First
<1>5. PlaceInv'
  BY DEF RenameFails, Rollback, Break, HandoffInv, PlaceInv, AtFile, At, Spare
<1>6. RecordInv'
  BY DEF RenameFails, Rollback, Break, HandoffInv, RecordInv, RollingBack, AtFile, At,
         Spare
<1>7. AheadInv'
  BY DEF RenameFails, Rollback, Break, HandoffInv, HandoffTypeOK, PlaceInv, RecordInv,
         AheadInv, Untouched, RollingBack, AtFile, At, Spare, First
<1>8. EndInv'
  BY DEF RenameFails, Rollback, Break, HandoffInv, EndInv, AllNew, NoBackup, Untouched,
         At, Spare, First
<1> QED BY <1>1, <1>2, <1>3, <1>4, <1>5, <1>6, <1>7, <1>8 DEF HandoffInv

\* Backups go once every file is new.
LEMMA CommitKeeps == ASSUME HandoffInv, Commit PROVE HandoffInv'
<1>1. HandoffTypeOK'
  <2>1. place \in Places
    BY DEF HandoffInv, HandoffTypeOK
  <2>2. backup' \in [Package -> Contents]
    BY <2>1, OneFile DEF Commit, HandoffInv, HandoffTypeOK, Contents
  <2>3. place' \in Places /\ phase' \in {"committing", "refreshing"} /\ source' \subseteq Package
    BY <2>1 DEF Commit, HandoffInv, HandoffTypeOK, Places
  <2> QED BY <2>2, <2>3 DEF Commit, outcome, HandoffInv, HandoffTypeOK, HelperPhases
<1>2. ChangedKept'
  BY DEF Commit, outcome, HandoffInv, HandoffTypeOK, HelperPhases, Places, Package,
         ChangedKept, BackupInv, PlaceInv, RecordInv, AheadInv, EndInv, AllNew,
         BackedUp, Untouched, RollingBack, AtFile, At, Spare, First
<1>3. ContentsInv'
  BY DEF Commit, outcome, HandoffInv, ContentsInv, At, Spare, First
<1>4. BackupInv'
  BY DEF Commit, outcome, HandoffInv, HandoffTypeOK, HelperPhases, Places, Package,
         BackupInv, PlaceInv, RecordInv, AheadInv, EndInv, AllNew, BackedUp, Untouched,
         RollingBack, AtFile, At, Spare, First
<1>5. PlaceInv'
  BY DEF Commit, outcome, HandoffInv, PlaceInv, AtFile, At, Spare
<1>6. RecordInv'
  BY DEF Commit, outcome, HandoffInv, RecordInv, RollingBack, AtFile, At, Spare
<1>7. AheadInv'
  BY DEF Commit, outcome, HandoffInv, AheadInv, Untouched, RollingBack, At, Spare, First
<1>8. EndInv'
  BY DEF Commit, outcome, HandoffInv, HandoffTypeOK, HelperPhases, Contents, Places,
         Package, EndInv, AllNew, NoBackup, Untouched, At, Spare, First
<1> QED BY <1>1, <1>2, <1>3, <1>4, <1>5, <1>6, <1>7, <1>8 DEF HandoffInv

LEMMA CommitFailsKeeps == ASSUME HandoffInv, CommitFails PROVE HandoffInv'
<1>1. HandoffTypeOK'
  BY DEF CommitFails, Break, HelperReturns, HandoffInv, HandoffTypeOK, HelperPhases
<1>2. ChangedKept' /\ ContentsInv' /\ BackupInv' /\ PlaceInv' /\ RecordInv' /\ AheadInv'
  BY DEF CommitFails, Break, HelperReturns, HandoffInv, ChangedKept, ContentsInv,
         BackupInv, PlaceInv, RecordInv, AheadInv, AllNew, BackedUp, Untouched,
         RollingBack, AtFile, At, Spare, First
<1>3. EndInv'
  BY DEF CommitFails, Break, HelperReturns, HandoffInv, EndInv, AllNew, NoBackup,
         Untouched, At, Spare, First
<1> QED BY <1>1, <1>2, <1>3 DEF HandoffInv

\* A file that is removed has its backup, unless it is to be absent.
LEMMA UnputKeeps == ASSUME HandoffInv, Unput PROVE HandoffInv'
<1>1. HandoffTypeOK'
  <2>1. Len(records) \in Places
    BY DEF Unput, HandoffInv, HandoffTypeOK
  <2>2. target' \in [Package -> Contents]
    BY <2>1, OneFile DEF Unput, Last, HandoffInv, HandoffTypeOK, Contents
  <2>3. spoiled' \in BOOLEAN
    <3>1. spoiled \in BOOLEAN
      BY DEF HandoffInv, HandoffTypeOK
    <3> QED BY <3>1, Zenon DEF Unput
  <2>4. breaks' \in 0..MaxBreaks
    BY DEF Unput, Break, HandoffInv, HandoffTypeOK
  <2> QED BY <2>2, <2>3, <2>4 DEF Unput, HandoffInv, HandoffTypeOK, HelperPhases
<1>2. ChangedKept'
  BY DEF Unput, Last, LastRecord, Break, HandoffInv, HandoffTypeOK, HelperPhases,
         Places, Package, ChangedKept, BackupInv, PlaceInv, RecordInv, AheadInv, EndInv,
         AllNew, BackedUp, Untouched, RollingBack, AtFile, At, Spare, First
<1>3. ContentsInv'
  <2>1. Len(records) \in Places /\ target \in [Package -> Contents]
    BY DEF Unput, HandoffInv, HandoffTypeOK
  <2>2. target' \in {target, [target EXCEPT ![Files[Len(records)]] = "none"]}
    BY DEF Unput, Last
  <2>3. \A i \in Places : target'[Files[i]] \in {target[Files[i]], "none"}
    BY <2>1, <2>2, OneFile DEF Contents
  <2> QED BY <2>3 DEF Unput, HandoffInv, ContentsInv, At, Spare, First
<1>4. BackupInv'
  BY DEF Unput, Last, LastRecord, Break, HandoffInv, HandoffTypeOK, HelperPhases,
         Contents, Places, Package, BackupInv, AllNew, BackedUp, RollingBack, At, Spare,
         First
<1>5. PlaceInv'
  BY DEF Unput, Last, LastRecord, Break, HandoffInv, PlaceInv, AtFile, At, Spare
<1>6. RecordInv'
  BY DEF Unput, Last, LastRecord, Break, HandoffInv, HandoffTypeOK, HelperPhases,
         Contents, Places, Package, RecordInv, RollingBack, AtFile, At, Spare
<1>7. AheadInv'
  <2>1. undone # 0 /\ undone' = undone /\ records' = records /\ before' = before
        /\ backup' = backup /\ Len(records) \in Places
    BY DEF Unput, HandoffInv, HandoffTypeOK, AheadInv, RollingBack
  <2>2. ASSUME undone = 1, ~spoiled'
        PROVE  /\ \A j \in Places : j > Len(records) => Untouched(j)'
               /\ At(Len(records))' # "new"
    <3>1. ~spoiled
      BY <2>2 DEF Unput
    <3>2. \A j \in Places : j > Len(records) => Untouched(j)
      BY <2>2, <3>1 DEF Unput, HandoffInv, AheadInv, RollingBack
    <3>3. ASSUME NEW j \in Places, j > Len(records) PROVE At(j)' = At(j)
      <4>1. Files[j] # Last /\ Files[j] \in Package
        BY <2>1, <3>3 DEF Last, Places, Package
      <4>2. target' \in {target, [target EXCEPT ![Last] = "none"]}
        BY DEF Unput
      <4>3. target \in [Package -> Contents]
        BY DEF HandoffInv, HandoffTypeOK
      <4> QED BY <4>1, <4>2, <4>3 DEF At
    <3>4. At(Len(records))' # "new"
      <4>1. Last \in Package /\ target \in [Package -> Contents]
        BY <2>1 DEF Last, Package, HandoffInv, HandoffTypeOK
      <4>2. CASE LastRecord.put
        <5>1. target' = [target EXCEPT ![Last] = "none"]
          BY <2>2, <4>2 DEF Unput
        <5> QED BY <2>1, <4>1, <5>1 DEF At, Last
      <4>3. CASE ~LastRecord.put
        <5>1. At(Len(records)) # "new"
          <6>1. phase = "unputting"
            BY DEF Unput
          <6>2. RecordInv
            BY DEF HandoffInv
          <6>3. records \in Seq(Record)
            BY DEF HandoffInv, HandoffTypeOK, Record
          <6>4. Len(records) \in DOMAIN records
            BY <2>1, <6>3 DEF Places
          <6> QED BY <4>3, <6>1, <6>2, <6>4 DEF LastRecord, RecordInv, RollingBack
        <5>2. target' = target
          BY <4>3 DEF Unput
        <5> QED BY <2>1, <5>1, <5>2 DEF At
      <4> QED BY <4>2, <4>3
    <3> QED BY <2>1, <3>2, <3>3, <3>4 DEF Untouched, At, Spare, First
  <2> QED BY <2>1, <2>2 DEF AheadInv, RollingBack
<1>8. EndInv'
  BY DEF Unput, Last, LastRecord, Break, HandoffInv, EndInv, AllNew, NoBackup,
         Untouched, At, Spare, First
<1> QED BY <1>1, <1>2, <1>3, <1>4, <1>5, <1>6, <1>7, <1>8 DEF HandoffInv

\* The file goes back to what it held at first.
LEMMA RestoreKeeps == ASSUME HandoffInv, Restore PROVE HandoffInv'
<1>1. HandoffTypeOK'
  <2>1. breaks' = breaks /\ \E brought \in BOOLEAN : Restored(brought)
    BY DEF Restore
  <2> QED BY <2>1, RestoredTyped DEF Restore, HandoffInv, HandoffTypeOK, HelperPhases, Record
<1>2. ChangedKept'
  <2>1. Len(records) \in Places /\ \A i \in Places : Files[i] \in Package
    BY DEF Restore, HandoffInv, HandoffTypeOK, Package
  <2>2. SUFFICES ASSUME NEW i \in Places, First(i) = "old"
                 PROVE  At(i)' # "none" \/ Spare(i)' # "none"
    BY DEF Restore, ChangedKept, At, Spare, First, Package
  <2>3. At(i) # "none" \/ Spare(i) # "none"
    BY <2>1, <2>2 DEF HandoffInv, ChangedKept, At, Spare, First
  <2>4. CASE i # Len(records)
    BY <2>1, <2>3, <2>4, LastRestored
  <2>5. CASE i = Len(records)
    BY <2>1, <2>3, <2>5, LastRestored
  <2> QED BY <2>4, <2>5
<1>3. ContentsInv'
  BY DEF Restore, Restored, Last, LastRecord, HelperReturns, HandoffInv, HandoffTypeOK,
         HelperPhases, ContentsInv, At, Spare, First
<1>4. BackupInv'
  BY DEF Restore, Restored, Last, LastRecord, HelperReturns, HandoffInv, HandoffTypeOK,
         HelperPhases, Contents, Places, Package, ChangedKept, ContentsInv, BackupInv,
         PlaceInv, RecordInv, AheadInv, EndInv, AllNew, NoBackup, BackedUp, Untouched,
         RollingBack, AtFile, At, Spare, First
<1>5. PlaceInv'
  BY DEF Restore, Restored, Last, LastRecord, HelperReturns, HandoffInv, PlaceInv,
         AtFile, At, Spare
<1>6. RecordInv'
  BY SMTT(30) DEF Restore, Restored, Last, LastRecord, HelperReturns, HandoffInv, HandoffTypeOK,
         HelperPhases, Contents, Places, Package, RecordInv, RollingBack, AtFile, At,
         Spare
<1>7. AheadInv'
  <2>1. undone # 0 /\ undone' = undone /\ phase' \in {"unputting", "over"}
    BY DEF Restore, Restored, HelperReturns, HandoffInv, AheadInv, RollingBack
  <2>2. ASSUME undone = 1, ~spoiled', NEW j \in Places, j > Len(records')
        PROVE  Untouched(j)'
    BY <2>2, AllRestored
  <2> QED BY <2>1, <2>2 DEF AheadInv, RollingBack
<1>8. EndInv'
  <2>1. CASE phase' = "unputting"
    BY <2>1 DEF Restore, Restored, HelperReturns, HandoffInv, EndInv
  <2>2. CASE phase' # "unputting"
    <3>1. /\ phase' = "over" /\ result' \in {"broken", "restored"}
          /\ result' = "restored" => ~spoiled'
      BY <2>2 DEF Restore, Restored, HelperReturns
    <3>2. Len(records') = 0
      BY <2>2, RestoredTyped DEF Restore, Restored, HelperReturns
    <3>3. ASSUME undone = 1, ~spoiled', NEW j \in Places
          PROVE  Untouched(j)'
      BY <3>2, <3>3, AllRestored DEF Places
    <3>4. undone' = undone
      BY DEF Restore
    <3> QED BY <3>1, <3>3, <3>4 DEF EndInv
  <2> QED BY <2>1, <2>2
<1> QED BY <1>1, <1>2, <1>3, <1>4, <1>5, <1>6, <1>7, <1>8 DEF HandoffInv

\* A failure of the rollback is reported.
LEMMA RestoreFailsKeeps == ASSUME HandoffInv, RestoreFails PROVE HandoffInv'
<1>1. HandoffTypeOK'
  <2>1. breaks' \in 0..MaxBreaks
    BY DEF RestoreFails, Break, HandoffInv, HandoffTypeOK
  <2> QED BY <2>1, RestoredTyped
          DEF RestoreFails, HandoffInv, HandoffTypeOK, HelperPhases, Record
<1>2. ChangedKept'
  BY DEF RestoreFails, Restored, Last, LastRecord, Break, HelperReturns, HandoffInv,
         ChangedKept
<1>3. ContentsInv'
  BY DEF RestoreFails, Restored, Last, LastRecord, Break, HelperReturns, HandoffInv,
         ContentsInv, At, Spare, First
<1>4. BackupInv'
  BY DEF RestoreFails, Restored, Last, LastRecord, Break, HelperReturns, HandoffInv,
         BackupInv, AllNew, BackedUp, RollingBack, At, Spare, First
<1>5. PlaceInv'
  BY DEF RestoreFails, Restored, Last, LastRecord, Break, HelperReturns, HandoffInv,
         PlaceInv, AtFile, At, Spare
<1>6. RecordInv'
  BY DEF RestoreFails, Restored, Last, LastRecord, Break, HelperReturns, HandoffInv,
         RecordInv, RollingBack, AtFile, At, Spare
<1>7. AheadInv'
  BY DEF RestoreFails, Restored, Last, LastRecord, Break, HelperReturns, HandoffInv,
         AheadInv, Untouched, RollingBack, At, Spare, First
<1>8. EndInv'
  BY DEF RestoreFails, Restored, Last, LastRecord, Break, HelperReturns, HandoffInv,
         EndInv, AllNew, NoBackup, Untouched, At, Spare, First
<1> QED BY <1>1, <1>2, <1>3, <1>4, <1>5, <1>6, <1>7, <1>8 DEF HandoffInv

\* The files are whole by now.
LEMMA RefreshKeeps == ASSUME HandoffInv, Refresh PROVE HandoffInv'
<1>1. HandoffTypeOK'
  BY DEF Refresh, HandoffInv, HandoffTypeOK, HelperPhases
<1>2. ChangedKept' /\ ContentsInv' /\ BackupInv' /\ PlaceInv' /\ RecordInv' /\ AheadInv'
  BY DEF Refresh, HandoffInv, ChangedKept, ContentsInv, BackupInv, PlaceInv, RecordInv,
         AheadInv, AllNew, BackedUp, Untouched, RollingBack, AtFile, At, Spare, First
<1>3. EndInv'
  BY DEF Refresh, HandoffInv, EndInv, AllNew, NoBackup, Untouched, At, Spare, First
<1> QED BY <1>1, <1>2, <1>3 DEF HandoffInv

LEMMA CleanupNotStartedKeeps == ASSUME HandoffInv, CleanupNotStarted PROVE HandoffInv'
<1>1. HandoffTypeOK'
  BY DEF CleanupNotStarted, Break, HelperReturns, HandoffInv, HandoffTypeOK,
         HelperPhases
<1>2. ChangedKept' /\ ContentsInv' /\ BackupInv' /\ PlaceInv' /\ RecordInv' /\ AheadInv'
  BY DEF CleanupNotStarted, Break, HelperReturns, HandoffInv, ChangedKept, ContentsInv,
         BackupInv, PlaceInv, RecordInv, AheadInv, AllNew, BackedUp, Untouched,
         RollingBack, AtFile, At, Spare, First
<1>3. EndInv'
  BY DEF CleanupNotStarted, Break, HelperReturns, HandoffInv, EndInv, AllNew, NoBackup,
         Untouched, At, Spare, First
<1> QED BY <1>1, <1>2, <1>3 DEF HandoffInv

LEMMA CleanKeeps == ASSUME HandoffInv, Clean PROVE HandoffInv'
<1>1. HandoffTypeOK'
  BY DEF Clean, outcome, HandoffInv, HandoffTypeOK, HelperPhases
<1>2. ChangedKept' /\ ContentsInv' /\ BackupInv' /\ PlaceInv' /\ RecordInv' /\ AheadInv'
  BY DEF Clean, outcome, HandoffInv, ChangedKept, ContentsInv, BackupInv, PlaceInv,
         RecordInv, AheadInv, AllNew, BackedUp, Untouched, RollingBack, AtFile, At,
         Spare, First
<1>3. EndInv'
  BY DEF Clean, outcome, HandoffInv, EndInv, AllNew, NoBackup, Untouched, At, Spare,
         First
<1> QED BY <1>1, <1>2, <1>3 DEF HandoffInv

\* A helper that is interrupted, or dies, stops between two changes of files.
LEMMA InterruptKeeps == ASSUME HandoffInv, Interrupt PROVE HandoffInv'
<1>1. HandoffTypeOK'
  BY DEF Interrupt, Break, HandoffInv, HandoffTypeOK, HelperPhases
<1>2. ChangedKept' /\ ContentsInv' /\ BackupInv' /\ PlaceInv' /\ RecordInv' /\ AheadInv'
  BY DEF Interrupt, Break, HandoffInv, ChangedKept, ContentsInv, BackupInv, PlaceInv,
         RecordInv, AheadInv, AllNew, BackedUp, Untouched, RollingBack, AtFile, At,
         Spare, First
<1>3. EndInv'
  BY DEF Interrupt, Break, HandoffInv, EndInv, AllNew, NoBackup, Untouched, At, Spare,
         First
<1> QED BY <1>1, <1>2, <1>3 DEF HandoffInv

LEMMA HelperDiesKeeps == ASSUME HandoffInv, HelperDies PROVE HandoffInv'
<1>1. HandoffTypeOK'
  BY DEF HelperDies, Break, outcome, HandoffInv, HandoffTypeOK, HelperPhases
<1>2. ChangedKept' /\ ContentsInv' /\ BackupInv' /\ PlaceInv' /\ RecordInv' /\ AheadInv'
  BY DEF HelperDies, Break, outcome, HandoffInv, ChangedKept, ContentsInv, BackupInv,
         PlaceInv, RecordInv, AheadInv, AllNew, BackedUp, Untouched, RollingBack,
         AtFile, At, Spare, First
<1>3. EndInv'
  BY DEF HelperDies, Break, outcome, HandoffInv, HandoffTypeOK, HelperPhases, EndInv,
         AllNew, NoBackup, Untouched, At, Spare, First
<1> QED BY <1>1, <1>2, <1>3 DEF HandoffInv

\* A later helper finds the files as the earlier one left them.
LEMMA ResumeKeeps == ASSUME HandoffInv, Resume PROVE HandoffInv'
<1>1. HandoffTypeOK'
  BY DEF Resume, HandoffInv, HandoffTypeOK, HelperPhases
<1>2. ChangedKept' /\ ContentsInv' /\ BackupInv' /\ PlaceInv' /\ RecordInv' /\ AheadInv'
  <2>1. ChangedKept' /\ ContentsInv' /\ BackupInv'
    BY DEF Resume, HandoffInv, ChangedKept, ContentsInv, BackupInv, AllNew, BackedUp,
           RollingBack, At, Spare, First
  <2>2. PlaceInv' /\ RecordInv'
    BY DEF Resume, HandoffInv, PlaceInv, RecordInv, RollingBack, AtFile, At, Spare
  <2>3. AheadInv'
    BY DEF Resume, HandoffInv, AheadInv, Untouched, RollingBack, At, Spare, First
  <2> QED BY <2>1, <2>2, <2>3
<1>3. EndInv'
  BY DEF Resume, HandoffInv, EndInv, AllNew, NoBackup, Untouched, At, Spare, First
<1> QED BY <1>1, <1>2, <1>3 DEF HandoffInv

-----------------------------------------------------------------------------

LEMMA HandoffStarts == HandoffInit => HandoffInv
<1> SUFFICES ASSUME HandoffInit PROVE HandoffInv
  OBVIOUS
<1>1. /\ \A i \in Places : Files[i] \in Package /\ target[Files[i]] \in Contents
      /\ \A i \in Places : target[Files[i]] = before[Files[i]] /\ backup[Files[i]] = "none"
  <2>1. \A i \in Places : Files[i] \in Package
    BY DEF Package
  <2>2. before \in [Package -> Contents] /\ target = before
    BY DEF HandoffInit
  <2>3. \A f \in Package : backup[f] = "none"
    BY DEF HandoffInit
  <2> QED BY <2>1, <2>2, <2>3
<1>2. HandoffTypeOK
  <2>1. before \in [Package -> Contents] /\ 1 \in Places /\ 0 \in 0..MaxBreaks
    BY DEF HandoffInit, Places
  <2>2. backup \in [Package -> Contents]
    BY DEF HandoffInit, Contents
  <2>3. records \in Seq([put : BOOLEAN, kept : BOOLEAN])
    BY EmptySeq DEF HandoffInit
  <2>4. target \in [Package -> Contents] /\ place \in Places
    BY <2>1 DEF HandoffInit
  <2>5. breaks \in 0..MaxBreaks /\ undone \in 0..2
    BY <2>1 DEF HandoffInit
  <2>7. {spoiled, interrupted} \subseteq BOOLEAN
    BY Zenon DEF HandoffInit
  <2>6. phase = "comparing" /\ source = {} /\ attached = {} /\ result = "none" /\ before \in Installed
    BY DEF HandoffInit
  <2> QED BY <2>2, <2>3, <2>4, <2>5, <2>6, <2>7 DEF HandoffTypeOK, HelperPhases
<1>3. ChangedKept /\ ContentsInv /\ BackupInv
  BY <1>1 DEF HandoffInit, ChangedKept, ContentsInv, BackupInv, AllNew, BackedUp,
              RollingBack, At, Spare, First, Package
<1>4. PlaceInv /\ RecordInv /\ AheadInv /\ EndInv
  BY <1>1 DEF HandoffInit, PlaceInv, RecordInv, AheadInv, EndInv, AtFile, RollingBack,
              Untouched, At, Spare, First
<1> QED BY <1>2, <1>3, <1>4 DEF HandoffInv

LEMMA HandoffStep == HandoffInv /\ [HandoffNext]_handoffVars => HandoffInv'
<1> SUFFICES ASSUME HandoffInv, [HandoffNext]_handoffVars PROVE HandoffInv'
  OBVIOUS
<1>1. CASE HandoffWork
  BY <1>1, CompareKeeps, StageKeeps, LaunchKeeps, ParentExitsKeeps, ValidateKeeps,
     LookKeeps, MoveKeeps, PutKeeps, CommitKeeps, UnputKeeps, RestoreKeeps, RefreshKeeps,
     CleanKeeps, RenameFailsKeeps DEF HandoffWork
<1>2. CASE HandoffNext /\ ~HandoffWork
  BY <1>2, StagingFailsKeeps, WaitFailsKeeps, LookFailsKeeps, CommitFailsKeeps,
     RestoreFailsKeeps, CleanupNotStartedKeeps, InterruptKeeps, HelperDiesKeeps, ResumeKeeps
     DEF HandoffNext
<1>3. CASE UNCHANGED handoffVars
  BY <1>3 DEF handoffVars, HandoffInv, HandoffTypeOK, ChangedKept, ContentsInv, BackupInv,
              PlaceInv, RecordInv, AheadInv, EndInv, AllNew, NoBackup, BackedUp, Untouched,
              At, Spare, First
<1> QED BY <1>1, <1>2, <1>3

LEMMA HandoffAlways == HandoffSpec => []HandoffInv
  BY HandoffStarts, HandoffStep, PTL DEF HandoffSpec

\* What a rollback reports, a handoff that is over, and what stays meanwhile.
LEMMA InvAtomic == HandoffInv => HandoffAtomic
<1> SUFFICES ASSUME HandoffInv PROVE HandoffAtomic
  OBVIOUS
<1>1. ChangedKept
  BY DEF HandoffInv
<1>2. RollbackRestores
  <2> SUFFICES ASSUME phase = "over", result = "restored", undone = 1,
                      NEW f \in Package, before[f] # "new"
               PROVE  target[f] = before[f] /\ backup[f] = "none"
    BY DEF RollbackRestores
  <2>1. PICK i \in Places : f = Files[i]
    BY DEF Package
  <2>2. Untouched(i)
    BY DEF HandoffInv, EndInv
  <2> QED BY <2>1, <2>2 DEF Untouched, At, Spare, First
<1>3. DoneIsWhole
  BY DEF HandoffInv, EndInv, DoneIsWhole, AllNew, NoBackup, At, Spare, Package
<1> QED BY <1>1, <1>2, <1>3 DEF HandoffAtomic

\* The variables keep their types: the helper's records are those of the files it
\* has come to, and while there is a helper its transaction is there.
THEOREM HandoffTypeCorrect == HandoffSpec => []HandoffTypeOK
<1>1. HandoffInv => HandoffTypeOK
  BY DEF HandoffInv
<1> QED BY <1>1, HandoffAlways, PTL

\* For a package of any number of files, wherever steps fail and helpers die or
\* are interrupted: a changed file is always there or in its backup, a first
\* rollback without failures of its own restores every file that was to change,
\* and a handoff that succeeds leaves all the new files and nothing else.
THEOREM HandoffIsAtomic == HandoffSpec => []HandoffAtomic
  BY HandoffAlways, InvAtomic, PTL
=============================================================================
