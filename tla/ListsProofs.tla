---------------------------- MODULE ListsProofs -----------------------------
(***************************************************************************)
(* What is left of a list without some elements (Lists), and sets of       *)
(* numbers: the facts that the proofs about the master server, the         *)
(* movement commands and the frames share.                                 *)
(*                                                                         *)
(* Kept[n] is what is left of the first n elements.  That there is such a  *)
(* function, and what it yields, is shown by induction on n, in the form   *)
(* of a set of numbers that has zero and with each number the next one.    *)
(***************************************************************************)
EXTENDS Lists, FiniteSets, SequencesExt, SequenceTheorems,
        FiniteSetTheorems, WellFoundedInduction, TLAPS

(* A set of natural numbers that has zero, and with each number the next,   *)
(* has them all: there is no least number outside of it.                    *)
LEMMA Induct ==
  ASSUME NEW T \in SUBSET Nat, 0 \in T, \A n \in Nat : n \in T => n + 1 \in T
  PROVE  T = Nat
<1> SUFFICES ASSUME Nat \ T # {} PROVE FALSE
  OBVIOUS
<1> DEFINE R == OpToRel(<, Nat)
           B == Nat \ T
<1>1. /\ IsWellFoundedOn(R, Nat)
      /\ B \subseteq Nat
      /\ B # {}
  BY NatLessThanWellFounded
<1>2. \A x \in Nat : x # 0 => <<x - 1, x>> \in R
  BY DEF OpToRel
<1>3. \A x \in B : x # 0 /\ x \in Nat /\ (x - 1 \in B \/ x - 1 \in T)
  OBVIOUS
<1>4. \A x \in T : x + 1 \notin B
  OBVIOUS
<1> HIDE DEF R, B
<1>5. PICK x \in B : \A y \in B : ~(<<y, x>> \in R)
  BY <1>1, WFMin
<1>6. x - 1 \in T /\ x \in Nat
  BY <1>2, <1>3, <1>5
<1> QED
  BY <1>4, <1>6, <1>5

(* The least and the greatest number of a set are the only ones.            *)
LEMMA MinIs ==
  ASSUME NEW S \in SUBSET Nat, NEW x \in S, \A y \in S : x <= y
  PROVE  Min(S) = x
<1>1. \A z \in S : (\A y \in S : z <= y) => z = x
  OBVIOUS
<1> QED
  BY <1>1 DEF Min

LEMMA MaxIs ==
  ASSUME NEW S \in SUBSET Nat, NEW x \in S, \A y \in S : x >= y
  PROVE  Max(S) = x
<1>1. \A z \in S : (\A y \in S : z >= y) => z = x
  OBVIOUS
<1> QED
  BY <1>1 DEF Max

(* Every set of natural numbers has a least, and below a bound a greatest.  *)
LEMMA MinExists ==
  ASSUME NEW S \in SUBSET Nat, S # {}
  PROVE  \E x \in S : \A y \in S : x <= y
<1> DEFINE R == OpToRel(<, Nat)
<1>1. IsWellFoundedOn(R, Nat)
  BY NatLessThanWellFounded
<1>2. \A x, y \in Nat : <<y, x>> \notin R => x <= y
  BY DEF OpToRel
<1> HIDE DEF R
<1>3. PICK x \in S : \A y \in S : ~(<<y, x>> \in R)
  BY <1>1, WFMin
<1> QED
  BY <1>2, <1>3

LEMMA MaxExists ==
  ASSUME NEW S \in SUBSET Nat, S # {}, NEW b \in Nat, \A y \in S : y <= b
  PROVE  \E x \in S : \A y \in S : x >= y
<1> DEFINE D == {n \in Nat : b - n \in S}
<1>1. D # {}
  <2>1. PICK y : y \in S
    OBVIOUS
  <2>2. b - y \in Nat /\ b - (b - y) = y
    BY <2>1
  <2>3. b - y \in D
    BY <2>1, <2>2
  <2> QED
    BY <2>3
<1>2. PICK n \in D : \A k \in D : n <= k
  BY <1>1, MinExists
<1>3. \A y \in S : b - y \in D
  <2> TAKE y \in S
  <2>1. b - y \in Nat /\ b - (b - y) = y
    OBVIOUS
  <2> QED
    BY <2>1
<1>4. b - n \in S /\ n \in Nat
  OBVIOUS
<1> HIDE DEF D
<1> QED
  BY <1>2, <1>3, <1>4

(* Numbers less than c apart have different remainders.                     *)
LEMMA RemaindersDiffer ==
  ASSUME NEW c \in Nat, c > 0, NEW m \in Nat, NEW n \in Nat, m < n, n - m < c
  PROVE  m % c # n % c
<1> SUFFICES ASSUME m % c = n % c PROVE FALSE
  OBVIOUS
<1> DEFINE q == n \div c - m \div c
<1>1. /\ n - (n % c) = c * (n \div c) /\ n \div c \in Int /\ n % c \in Int
      /\ m - (m % c) = c * (m \div c) /\ m \div c \in Int /\ m % c \in Int
  OBVIOUS
<1>2. n - m = c * q /\ q \in Int
  BY <1>1
<1> HIDE DEF q
<1>3. q <= 0 \/ q >= 1
  BY <1>2
<1>4. q >= 1 => c * q >= c
  BY <1>2
<1>5. q <= 0 => c * q <= 0
  BY <1>2
<1> QED
  BY <1>2, <1>3, <1>4, <1>5

-----------------------------------------------------------------------------
(* What is left of the first n elements, for every n up to the length.      *)
IsKept(f, list, gone, n) ==
  f = [i \in 0 .. n |->
         IF i = 0 THEN <<>>
         ELSE IF list[i] \in gone THEN f[i - 1]
         ELSE Append(f[i - 1], list[i])]

(* There is such a function for every n: the one for n + 1 is the one for n *)
(* with another value.                                                      *)
LEMMA KeptExists ==
  ASSUME NEW list, NEW gone, NEW n \in Nat
  PROVE  \E f : IsKept(f, list, gone, n)
<1> DEFINE T == {m \in Nat : \E f : IsKept(f, list, gone, m)}
<1>1. 0 \in T
  <2> DEFINE f == [i \in 0 .. 0 |-> <<>>]
  <2>1. IsKept(f, list, gone, 0)
    BY DEF IsKept
  <2> QED
    BY <2>1
<1>2. ASSUME NEW m \in Nat, m \in T
      PROVE  m + 1 \in T
  <2>1. PICK f : IsKept(f, list, gone, m)
    BY <1>2
  <2> DEFINE last == IF list[m + 1] \in gone THEN f[m]
                     ELSE Append(f[m], list[m + 1])
             g == [i \in 0 .. m + 1 |-> IF i = m + 1 THEN last ELSE f[i]]
  <2>2. \A i \in 0 .. m : f[i] = IF i = 0 THEN <<>>
                                 ELSE IF list[i] \in gone THEN f[i - 1]
                                 ELSE Append(f[i - 1], list[i])
    BY <2>1 DEF IsKept
  <2>3. \A i \in 0 .. m + 1 :
          g[i] = IF i = 0 THEN <<>>
                 ELSE IF list[i] \in gone THEN g[i - 1]
                 ELSE Append(g[i - 1], list[i])
    <3> TAKE i \in 0 .. m + 1
    <3>1. CASE i = m + 1
      <4>1. i - 1 = m /\ m \in 0 .. m + 1 /\ m # m + 1 /\ i # 0
        BY <3>1
      <4>2. g[i - 1] = f[m] /\ g[i] = last
        BY <4>1, <3>1
      <4> QED
        BY <4>1, <4>2, <3>1
    <3>2. CASE i = 0
      <4>1. i \in 0 .. m /\ i # m + 1
        BY <3>2
      <4> QED
        BY <4>1, <2>2, <3>2
    <3>3. CASE i \in 1 .. m
      <4>1. /\ i \in 0 .. m /\ i - 1 \in 0 .. m + 1
            /\ i # m + 1 /\ i - 1 # m + 1 /\ i # 0
        BY <3>3
      <4>2. g[i] = f[i] /\ g[i - 1] = f[i - 1]
        BY <4>1
      <4> HIDE DEF g
      <4> QED
        BY <4>1, <4>2, <2>2
    <3> QED
      BY <3>1, <3>2, <3>3
  <2>4. DOMAIN g = 0 .. m + 1 /\ g = [i \in 0 .. m + 1 |-> g[i]]
    OBVIOUS
  <2> HIDE DEF g
  <2>5. IsKept(g, list, gone, m + 1)
    BY <2>3, <2>4 DEF IsKept
  <2> QED
    BY <2>5
<1> HIDE DEF T
<1>3. T = Nat
  <2>1. T \in SUBSET Nat
    BY DEF T
  <2> QED
    BY <1>1, <1>2, <2>1, Induct
<1> QED
  BY <1>3 DEF T

(* So Without is the last value of such a function.                         *)
LEMMA WithoutKept ==
  ASSUME NEW S, NEW list \in Seq(S), NEW gone
  PROVE  \E f : /\ IsKept(f, list, gone, Len(list))
                /\ Without(list, gone) = f[Len(list)]
<1> DEFINE kept == CHOOSE f : IsKept(f, list, gone, Len(list))
<1>1. Len(list) \in Nat
  OBVIOUS
<1>2. IsKept(kept, list, gone, Len(list))
  BY <1>1, KeptExists
<1>3. Without(list, gone) = kept[Len(list)]
  BY DEF Without, IsKept
<1> QED
  BY <1>2, <1>3

(* Every element is in the list once.                                       *)
Distinct(list) ==
  \A i, j \in 1 .. Len(list) : list[i] = list[j] => i = j

(* What is left of a list of elements of S is one too; it has the elements  *)
(* of the list that are not taken out, and none twice if the list has none. *)
LEMMA WithoutFacts ==
  ASSUME NEW S, NEW list \in Seq(S), NEW gone
  PROVE  /\ Without(list, gone) \in Seq(S)
         /\ ToSet(Without(list, gone)) = ToSet(list) \ gone
         /\ Distinct(list) => Distinct(Without(list, gone))
<1>1. PICK f : /\ IsKept(f, list, gone, Len(list))
               /\ Without(list, gone) = f[Len(list)]
  BY WithoutKept
<1> DEFINE Sofar(n) == {list[i] : i \in 1 .. n}
           Fact(n) == /\ f[n] \in Seq(S)
                      /\ {f[n][i] : i \in 1 .. Len(f[n])} = Sofar(n) \ gone
                      /\ Distinct(list) => Distinct(f[n])
           T == {n \in Nat : n <= Len(list) => Fact(n)}
<1>0. Len(list) \in Nat
  OBVIOUS
<1>2. \A n \in 0 .. Len(list) :
        f[n] = IF n = 0 THEN <<>>
               ELSE IF list[n] \in gone THEN f[n - 1]
               ELSE Append(f[n - 1], list[n])
  <2> DEFINE m == Len(list)
  <2>1. IsKept(f, list, gone, m)
    BY <1>1
  <2> HIDE DEF m
  <2>2. \A n \in 0 .. m : f[n] = IF n = 0 THEN <<>>
                                ELSE IF list[n] \in gone THEN f[n - 1]
                                ELSE Append(f[n - 1], list[n])
    BY <2>1 DEF IsKept
  <2> QED
    BY <2>2 DEF m
<1> HIDE DEF T
<1>3. 0 \in T
  <2>1. f[0] = <<>>
    BY <1>0, <1>2
  <2>2. Sofar(0) = {}
    OBVIOUS
  <2>3. {f[0][i] : i \in 1 .. Len(f[0])} = {}
    BY <2>1
  <2>4. f[0] \in Seq(S) /\ Distinct(f[0])
    BY <2>1 DEF Distinct
  <2> HIDE DEF Sofar
  <2>5. Fact(0)
    BY <2>2, <2>3, <2>4
  <2> HIDE DEF Fact
  <2> QED
    BY <2>5 DEF T
<1>4. ASSUME NEW n \in Nat, n \in T
      PROVE  n + 1 \in T
  <2> HIDE DEF Fact
  <2> SUFFICES ASSUME n + 1 <= Len(list)
               PROVE  Fact(n + 1)
    BY DEF T
  <2>0. Fact(n)
    BY <1>0, <1>4 DEF T
  <2> USE DEF Fact
  <2>1. Fact(n)
    BY <2>0
  <2>2. /\ n + 1 \in 0 .. Len(list) /\ n + 1 # 0 /\ n + 1 - 1 = n
        /\ n + 1 \in 1 .. Len(list)
    BY <1>0
  <2> DEFINE x == list[n + 1]
  <2>3. Sofar(n + 1) = Sofar(n) \cup {x}
    <3>1. 1 .. n + 1 = (1 .. n) \cup {n + 1}
      OBVIOUS
    <3> QED
      BY <3>1
  <2>4. CASE x \in gone
    <3>1. f[n + 1] = f[n]
      BY <2>4, <2>2, <1>2
    <3> HIDE DEF Sofar, x
    <3> QED
      BY <3>1, <2>1, <2>3, <2>4
  <2>5. CASE x \notin gone
    <3>1. f[n + 1] = Append(f[n], x)
      <4>1. f[n + 1] = IF n + 1 = 0 THEN <<>>
                       ELSE IF list[n + 1] \in gone THEN f[n + 1 - 1]
                       ELSE Append(f[n + 1 - 1], list[n + 1])
        BY <1>2, <2>2
      <4> QED
        BY <4>1, <2>5, <2>2
    <3>2. x \in S
      BY <2>2
    <3> DEFINE k == Len(f[n])
    <3>3. /\ f[n + 1] \in Seq(S)
          /\ k \in Nat
          /\ Len(f[n + 1]) = k + 1
          /\ f[n + 1][k + 1] = x
          /\ \A i \in 1 .. k : f[n + 1][i] = f[n][i]
      <4> HIDE DEF x
      <4> QED
        BY <3>1, <3>2, <2>1
    <3> HIDE DEF k
    <3>4. 1 .. Len(f[n + 1]) = (1 .. k) \cup {k + 1}
      BY <3>3
    <3>5. {f[n + 1][i] : i \in 1 .. Len(f[n + 1])} = Sofar(n + 1) \ gone
      <4>1. {f[n + 1][i] : i \in 1 .. Len(f[n + 1])}
              = {f[n][i] : i \in 1 .. k} \cup {x}
        <5> HIDE DEF x
        <5> QED
          BY <3>3, <3>4
      <4>2. {f[n][i] : i \in 1 .. k} = Sofar(n) \ gone
        BY <2>1 DEF k
      <4> HIDE DEF x, Sofar
      <4> QED
        BY <4>1, <4>2, <2>3, <2>5
    <3>6. ASSUME Distinct(list)
          PROVE  Distinct(f[n + 1])
      <4>1. \A i \in 1 .. k : f[n][i] # x
        <5>1. \A i \in 1 .. k : f[n][i] \in Sofar(n)
          BY <2>1 DEF k
        <5>2. \A i \in 1 .. n : list[i] # x
          BY <3>6, <2>2 DEF Distinct
        <5> QED
          BY <5>1, <5>2
      <4>2. \A i, j \in 1 .. k : f[n][i] = f[n][j] => i = j
        BY <2>1, <3>6 DEF k, Distinct
      <4> HIDE DEF x
      <4>3. \A i, j \in (1 .. k) \cup {k + 1} :
              f[n + 1][i] = f[n + 1][j] => i = j
        BY <4>1, <4>2, <3>3
      <4> QED
        BY <4>3, <3>4 DEF Distinct
    <3> QED
      BY <3>3, <3>5, <3>6
  <2> QED
    BY <2>4, <2>5
<1> HIDE DEF Fact, T
<1>5. Len(list) \in T
  <2>1. T \in SUBSET Nat
    BY DEF T
  <2>2. T = Nat
    BY <1>3, <1>4, <2>1, Induct
  <2> QED
    BY <2>2, <1>0
<1>6. Fact(Len(list))
  BY <1>0, <1>5 DEF T
<1>7. Sofar(Len(list)) = ToSet(list)
  BY DEF ToSet
<1> HIDE DEF Sofar
<1>8. f[Len(list)] \in Seq(S)
  BY <1>6 DEF Fact
<1>9. ToSet(f[Len(list)]) = {f[Len(list)][i] : i \in 1 .. Len(f[Len(list)])}
  BY <1>8 DEF ToSet
<1> QED
  BY <1>1, <1>6, <1>7, <1>8, <1>9 DEF Fact

(* A list without equal elements is as long as the set of its elements.     *)
LEMMA DistinctLength ==
  ASSUME NEW S, NEW list \in Seq(S), Distinct(list)
  PROVE  /\ Len(list) = Cardinality(ToSet(list))
         /\ IsFiniteSet(ToSet(list))
<1> DEFINE n == Len(list)
<1>1. n \in Nat /\ list \in [1 .. n -> ToSet(list)] /\ DOMAIN list = 1 .. n
  BY DEF ToSet
<1>2. \A y \in ToSet(list) : \E i \in 1 .. n : list[i] = y
  BY DEF ToSet
<1>3. \A i, j \in 1 .. n : list[i] = list[j] => i = j
  BY DEF Distinct
<1> HIDE DEF n
<1>4. list \in Bijection(1 .. n, ToSet(list))
  BY <1>1, <1>2, <1>3 DEF Bijection, Injection, Surjection, IsInjective
<1>5. ExistsBijection(1 .. n, ToSet(list))
  BY <1>4 DEF ExistsBijection
<1>6. Cardinality(ToSet(list)) = n /\ IsFiniteSet(ToSet(list))
  BY <1>1, <1>5, FS_CountingElements, FS_NatBijection
<1> QED
  BY <1>6 DEF n

(* The empty list leaves nothing.                                           *)
LEMMA WithoutEmpty ==
  ASSUME NEW gone
  PROVE  Without(<<>>, gone) = <<>>
<1>1. <<>> \in Seq({}) /\ Len(<<>>) = 0
  OBVIOUS
<1>2. PICK f : /\ IsKept(f, <<>>, gone, 0)
               /\ Without(<<>>, gone) = f[0]
  BY <1>1, WithoutKept
<1>3. f[0] = <<>>
  BY <1>2 DEF IsKept
<1> QED
  BY <1>2, <1>3

(* One more element is left at the end, or left out.                        *)
LEMMA WithoutAppend ==
  ASSUME NEW S, NEW list \in Seq(S), NEW e \in S, NEW gone
  PROVE  Without(Append(list, e), gone)
           = IF e \in gone THEN Without(list, gone)
             ELSE Append(Without(list, gone), e)
<1> DEFINE longer == Append(list, e)
           n == Len(list)
<1>1. /\ longer \in Seq(S)
      /\ n \in Nat
      /\ Len(longer) = n + 1
      /\ longer[n + 1] = e
      /\ \A i \in 1 .. n : longer[i] = list[i]
  OBVIOUS
<1>2. PICK f : IsKept(f, list, gone, n) /\ Without(list, gone) = f[n]
  BY WithoutKept
<1>3. PICK g : IsKept(g, longer, gone, n + 1) /\ Without(longer, gone) = g[n + 1]
  <2> HIDE DEF longer
  <2>1. PICK g : /\ IsKept(g, longer, gone, Len(longer))
                 /\ Without(longer, gone) = g[Len(longer)]
    BY <1>1, WithoutKept
  <2> QED
    BY <1>1, <2>1
<1> HIDE DEF longer, n
<1>4. \A i \in 0 .. n : f[i] = IF i = 0 THEN <<>>
                               ELSE IF list[i] \in gone THEN f[i - 1]
                               ELSE Append(f[i - 1], list[i])
  BY <1>2 DEF IsKept
<1>5. \A i \in 0 .. n + 1 : g[i] = IF i = 0 THEN <<>>
                                   ELSE IF longer[i] \in gone THEN g[i - 1]
                                   ELSE Append(g[i - 1], longer[i])
  BY <1>3 DEF IsKept
<1> DEFINE T == {m \in Nat : m <= n => f[m] = g[m]}
<1>6. 0 \in T
  BY <1>1, <1>4, <1>5
<1>7. ASSUME NEW m \in Nat, m \in T
      PROVE  m + 1 \in T
  <2> SUFFICES ASSUME m + 1 <= n
               PROVE  f[m + 1] = g[m + 1]
    OBVIOUS
  <2>1. /\ m + 1 \in 0 .. n /\ m + 1 \in 0 .. n + 1 /\ m + 1 \in 1 .. n
        /\ m + 1 # 0 /\ m + 1 - 1 = m
    BY <1>1
  <2>2. f[m] = g[m] /\ longer[m + 1] = list[m + 1]
    BY <1>1, <1>7, <2>1
  <2> QED
    BY <2>1, <2>2, <1>4, <1>5
<1> HIDE DEF T
<1>8. n \in T
  <2>1. T \in SUBSET Nat
    BY DEF T
  <2> QED
    BY <1>1, <1>6, <1>7, <2>1, Induct
<1>9. f[n] = g[n]
  BY <1>1, <1>8 DEF T
<1>10. n + 1 \in 0 .. n + 1 /\ n + 1 # 0 /\ n + 1 - 1 = n
  BY <1>1
<1> QED
  BY <1>1, <1>2, <1>3, <1>5, <1>9, <1>10 DEF longer

(* What is left of two lists, one after the other.                          *)
LEMMA WithoutConcat ==
  ASSUME NEW S, NEW first \in Seq(S), NEW second \in Seq(S), NEW gone
  PROVE  Without(first \o second, gone)
           = Without(first, gone) \o Without(second, gone)
<1> DEFINE Part(n) == SubSeq(second, 1, n)
           T == {n \in Nat : n <= Len(second) =>
                   Without(first \o Part(n), gone)
                     = Without(first, gone) \o Without(Part(n), gone)}
<1>1. Len(second) \in Nat
  OBVIOUS
<1>2. /\ Without(first, gone) \in Seq(S)
      /\ \A list \in Seq(S) : Without(list, gone) \in Seq(S)
  BY WithoutFacts
<1>3. 0 \in T
  <2>1. Part(0) = <<>>
    OBVIOUS
  <2> HIDE DEF Part
  <2>2. first \o <<>> = first /\ Without(first, gone) \o <<>> = Without(first, gone)
    BY <1>2
  <2> QED
    BY <2>1, <2>2, WithoutEmpty
<1>4. ASSUME NEW n \in Nat, n \in T
      PROVE  n + 1 \in T
  <2> SUFFICES ASSUME n + 1 <= Len(second)
               PROVE  Without(first \o Part(n + 1), gone)
                        = Without(first, gone) \o Without(Part(n + 1), gone)
    OBVIOUS
  <2> DEFINE x == second[n + 1]
  <2>1. x \in S /\ Part(n) \in Seq(S)
    BY <1>1
  <2>2. Part(n + 1) = Append(Part(n), x)
    BY <1>1
  <2>3. Without(first \o Part(n), gone)
          = Without(first, gone) \o Without(Part(n), gone)
    BY <1>1, <1>4
  <2> HIDE DEF Part, x
  <2>4. first \o Append(Part(n), x) = Append(first \o Part(n), x)
    BY <2>1
  <2>5. first \o Part(n) \in Seq(S)
    BY <2>1
  <2> DEFINE a == Without(first, gone)
             b == Without(Part(n), gone)
  <2>6. /\ Without(first \o Part(n + 1), gone)
             = IF x \in gone THEN a \o b ELSE Append(a \o b, x)
        /\ Without(Part(n + 1), gone)
             = IF x \in gone THEN b ELSE Append(b, x)
    <3>1. Without(first \o Part(n + 1), gone)
            = Without(Append(first \o Part(n), x), gone)
      BY <2>2, <2>4
    <3>2. Without(Append(first \o Part(n), x), gone)
            = IF x \in gone THEN Without(first \o Part(n), gone)
              ELSE Append(Without(first \o Part(n), gone), x)
      <4> DEFINE l == first \o Part(n)
      <4>1. l \in Seq(S)
        BY <2>5
      <4> HIDE DEF l
      <4>2. Without(Append(l, x), gone)
              = IF x \in gone THEN Without(l, gone) ELSE Append(Without(l, gone), x)
        BY <4>1, <2>1, WithoutAppend
      <4> QED
        BY <4>2 DEF l
    <3>3. Without(Append(Part(n), x), gone)
            = IF x \in gone THEN b ELSE Append(b, x)
      BY <2>1, WithoutAppend
    <3> QED
      BY <3>1, <3>2, <3>3, <2>2, <2>3
  <2>7. a \in Seq(S) /\ b \in Seq(S)
    BY <1>2, <2>1
  <2> HIDE DEF a, b
  <2>8. Append(a \o b, x) = a \o Append(b, x)
    <3>1. a \o b \in Seq(S) /\ <<x>> \in Seq(S)
      BY <2>1, <2>7
    <3>2. Append(a \o b, x) = (a \o b) \o <<x>> /\ Append(b, x) = b \o <<x>>
      BY <2>1, <2>7, <3>1, AppendIsConcat
    <3>3. (a \o b) \o <<x>> = a \o (b \o <<x>>)
      BY <2>7, <3>1, ConcatAssociative
    <3> QED
      BY <3>2, <3>3
  <2> QED
    BY <2>6, <2>8 DEF a
<1>5. Part(Len(second)) = second
  OBVIOUS
<1> HIDE DEF Part, T
<1>6. Len(second) \in T
  <2>1. T \in SUBSET Nat
    BY DEF T
  <2> QED
    BY <1>1, <1>3, <1>4, <2>1, Induct
<1> QED
  BY <1>1, <1>5, <1>6 DEF T
=============================================================================
