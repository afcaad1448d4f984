--------------------------- MODULE SequenceLemmas ---------------------------
(***************************************************************************)
(* Facts about sequences and indices that the proofs of several components *)
(* need.  Induction is by WFMin, which speaks of sets: the theorems that   *)
(* speak of predicates cannot be instantiated by the backends.             *)
(***************************************************************************)
EXTENDS Integers, SequencesExt, SequenceTheorems, WellFoundedInduction, TLAPS

\* Append adds one element at the end, of whatever kind.
LEMMA AppendFacts ==
    ASSUME NEW S, NEW s \in Seq(S), NEW e
    PROVE  /\ Len(s) \in Nat /\ Len(Append(s, e)) = Len(s) + 1
           /\ \A i \in 1..Len(s) : Append(s, e)[i] = s[i]
           /\ Append(s, e)[Len(s) + 1] = e
<1>1. s \in Seq(S \cup {e}) /\ e \in S \cup {e}
  BY SeqMonotonic
<1> QED
  BY <1>1, AppendProperties, LenProperties

\* Concatenation, seen from its two parts.
LEMMA ConcatFacts ==
    ASSUME NEW S, NEW a \in Seq(S), NEW b \in Seq(S)
    PROVE  /\ a \o b \in Seq(S) /\ Len(a \o b) = Len(a) + Len(b)
           /\ Len(a) \in Nat /\ Len(b) \in Nat
           /\ \A i \in 1..Len(a) : (a \o b)[i] = a[i]
           /\ \A j \in 1..Len(b) : (a \o b)[Len(a) + j] = b[j]
<1>1. Len(a) \in Nat /\ Len(b) \in Nat
  BY LenProperties
<1>2. /\ a \o b \in Seq(S) /\ Len(a \o b) = Len(a) + Len(b)
      /\ \A i \in 1..(Len(a) + Len(b)) :
           (a \o b)[i] = IF i <= Len(a) THEN a[i] ELSE b[i - Len(a)]
  BY ConcatProperties
<1>3. \A i \in 1..Len(a) : (a \o b)[i] = a[i]
  BY <1>1, <1>2
<1>4. ASSUME NEW j \in 1..Len(b)
      PROVE  (a \o b)[Len(a) + j] = b[j]
  <2>1. Len(a) + j \in 1..(Len(a) + Len(b)) /\ ~(Len(a) + j <= Len(a)) /\ (Len(a) + j) - Len(a) = j
    BY <1>1
  <2> QED
    BY <1>2, <2>1
<1> QED
  BY <1>1, <1>2, <1>3, <1>4

\* A function on 1..n is a sequence of length n.
LEMMA FunctionIsSeq ==
    ASSUME NEW n \in Nat, NEW S, NEW f \in [1..n -> S]
    PROVE  f \in Seq(S) /\ Len(f) = n /\ DOMAIN f = 1..n
<1>1. f \in Seq(S)
  BY SeqDef
<1>2. DOMAIN f = 1..Len(f) /\ Len(f) \in Nat /\ DOMAIN f = 1..n
  BY <1>1, LenProperties
<1> QED
  BY <1>1, <1>2

\* A set of natural numbers that is not empty has a smallest element.
LEMMA LeastNatural ==
    ASSUME NEW T \in SUBSET Nat, T # {}
    PROVE  \E m \in T : \A k \in T : m <= k
<1>1. PICK m \in T : \A k \in T : ~(<<k, m>> \in OpToRel(<, Nat))
  BY NatLessThanWellFounded, WFMin
<1>2. \A k \in T : k < m => <<k, m>> \in OpToRel(<, Nat)
  BY Zenon DEF OpToRel
<1>3. \A k \in T : ~(k < m)
  BY <1>1, <1>2, Zenon
<1>4. \A k \in T : m <= k
  BY <1>3, SMT
<1> QED
  BY <1>4, Zenon

\* FlattenSeq adds one sequence after the other.
LEMMA FlattenFacts ==
    ASSUME NEW S, NEW s \in Seq(Seq(S)), s # <<>>
    PROVE  \E g \in [1..Len(s) -> Seq(S)] :
             /\ g[1] = s[1]
             /\ \A i \in 2..Len(s) : g[i] = g[i - 1] \o s[i]
             /\ FlattenSeq(s) = g[Len(s)]
<1> DEFINE n == Len(s)
           Step(f, i) == IF i = 1 THEN s[i] ELSE f[i - 1] \o s[i]
           Upto(f, m) == \A i \in 1..m : f[i] = Step(f, i)
<1>1. n \in Nat /\ n # 0 /\ \A i \in 1..n : s[i] \in Seq(S)
  BY EmptySeq, LenProperties, ElementOfSeq
<1>2. \A m \in 1..n : \E f \in [1..m -> Seq(S)] : Upto(f, m)
  <2> DEFINE T == {m \in 1..n : ~\E f \in [1..m -> Seq(S)] : Upto(f, m)}
  <2> SUFFICES ASSUME T # {} PROVE FALSE
    OBVIOUS
  <2>1. T \in SUBSET Nat
    BY <1>1
  <2>2. PICK m \in T : \A k \in T : m <= k
    <3> HIDE DEF T
    <3> QED
      BY <2>1, LeastNatural
  <2>3. CASE m = 1
    <3> DEFINE f == [i \in 1..1 |-> s[1]]
    <3>1. f \in [1..m -> Seq(S)] /\ Upto(f, m)
      BY <1>1, <2>3
    <3> HIDE DEF f
    <3> QED
      BY <2>2, <3>1
  <2>4. CASE m > 1
    <3>1. m \in 1..n /\ m - 1 \in 1..n /\ ~(m <= m - 1)
      BY <1>1, <2>4
    <3>2. PICK e \in [1..(m - 1) -> Seq(S)] : Upto(e, m - 1)
      BY <2>2, <3>1
    <3> DEFINE x == e[m - 1] \o s[m]
               f == [i \in 1..m |-> IF i < m THEN e[i] ELSE x]
    <3>3. x \in Seq(S)
      <4>1. e[m - 1] \in Seq(S) /\ s[m] \in Seq(S)
        BY <1>1, <3>1, <3>2
      <4> QED
        BY <4>1, ConcatFacts
    <3>4. f \in [1..m -> Seq(S)]
      <4> HIDE DEF x
      <4> QED
        BY <1>1, <2>4, <3>1, <3>3
    <3>5. \A i \in 1..(m - 1) : f[i] = e[i]
      <4>1. \A i \in 1..(m - 1) : i \in 1..m /\ i < m
        BY <1>1, <3>1
      <4> HIDE DEF x
      <4> QED
        BY <4>1
    <3>6. f[m] = x
      <4>1. m \in 1..m /\ ~(m < m)
        BY <1>1, <3>1
      <4> HIDE DEF x
      <4> QED
        BY <4>1
    <3> HIDE DEF f
    <3>7. ASSUME NEW i \in 1..m
          PROVE  f[i] = Step(f, i)
      <4>1. CASE i = m
        <5>1. m - 1 \in 1..(m - 1) /\ i # 1
          BY <1>1, <2>4, <3>1, <4>1
        <5> QED
          BY <3>5, <3>6, <4>1, <5>1
      <4>2. CASE i \in 1..(m - 1)
        <5>1. f[i] = e[i] /\ e[i] = Step(e, i)
          BY <3>2, <3>5, <4>2
        <5>2. i # 1 => i - 1 \in 1..(m - 1)
          BY <1>1, <3>1, <4>2
        <5> QED
          BY <3>5, <5>1, <5>2
      <4> QED
        BY <1>1, <3>1, <4>1, <4>2
    <3> QED
      BY <2>2, <3>4, <3>7
  <2> QED
    BY <1>1, <2>2, <2>3, <2>4
<1>3. PICK g \in [1..n -> Seq(S)] : Upto(g, n)
  <2>1. n \in 1..n
    BY <1>1
  <2> QED
    BY <1>2, <2>1
<1>4. g = [i \in 1..n |-> Step(g, i)]
  BY <1>3
<1>5. ASSUME NEW f, f = [i \in 1..n |-> Step(f, i)]
      PROVE  f = g
  <2> DEFINE T == {i \in 1..n : f[i] # g[i]}
  <2>1. \A i \in 1..n : f[i] = Step(f, i)
    BY <1>5
  <2>2. T = {}
    <3> SUFFICES ASSUME T # {} PROVE FALSE
      OBVIOUS
    <3>1. T \in SUBSET Nat
      BY <1>1
    <3>2. PICK m \in T : \A k \in T : m <= k
      <4> HIDE DEF T
      <4> QED
        BY <3>1, LeastNatural
    <3>3. f[m] = Step(f, m) /\ g[m] = Step(g, m) /\ f[m] # g[m] /\ m \in 1..n
      BY <1>3, <2>1
    <3>4. m # 1
      BY <3>3
    <3>5. m - 1 \in 1..n /\ ~(m <= m - 1)
      BY <1>1, <3>3, <3>4
    <3>6. f[m - 1] = g[m - 1]
      BY <3>2, <3>5
    <3> QED
      BY <3>3, <3>4, <3>6
  <2>3. \A i \in 1..n : f[i] = g[i]
    BY <2>2
  <2>4. f = [i \in 1..n |-> f[i]] /\ g = [i \in 1..n |-> g[i]]
    BY <1>3, <1>5
  <2> QED
    BY <2>3, <2>4
<1>6. FlattenSeq(s) = g[n]
  <2> DEFINE G == CHOOSE f : f = [i \in 1..n |-> Step(f, i)]
  <2>1. G = g
    BY <1>4, <1>5
  <2>2. FlattenSeq(s) = G[n]
    BY <1>1 DEF FlattenSeq
  <2> QED
    BY <2>1, <2>2
<1>7. g[1] = s[1] /\ \A i \in 2..n : g[i] = g[i - 1] \o s[i]
  <2>1. 1 \in 1..n /\ \A i \in 2..n : i \in 1..n /\ i # 1
    BY <1>1
  <2> QED
    BY <1>3, <2>1
<1> QED
  BY <1>6, <1>7

\* Where the sequences are in what FlattenSeq makes of them: the i-th ends at
\* c[i].
LEMMA FlattenLayout ==
    ASSUME NEW S, NEW s \in Seq(Seq(S)), s # <<>>
    PROVE  LET F == FlattenSeq(s)
           IN  /\ F \in Seq(S)
               /\ \E c \in [0..Len(s) -> Nat] :
                    /\ c[0] = 0 /\ c[Len(s)] = Len(F)
                    /\ \A i \in 1..Len(s) :
                         /\ c[i] = c[i - 1] + Len(s[i]) /\ c[i] <= Len(F)
                         /\ \A j \in 1..Len(s[i]) : F[c[i - 1] + j] = s[i][j]
               /\ \A k \in 1..Len(F) :
                    \E i \in 1..Len(s) : \E j \in 1..Len(s[i]) : F[k] = s[i][j]
<1> DEFINE n == Len(s)
           F == FlattenSeq(s)
<1>1. n \in Nat /\ n # 0 /\ \A i \in 1..n : s[i] \in Seq(S)
  BY EmptySeq, LenProperties, ElementOfSeq
<1>2. PICK g \in [1..n -> Seq(S)] :
        /\ g[1] = s[1]
        /\ \A i \in 2..n : g[i] = g[i - 1] \o s[i]
        /\ F = g[n]
  BY FlattenFacts
<1> HIDE DEF F
<1>3. \A i \in 1..n : g[i] \in Seq(S) /\ Len(g[i]) \in Nat /\ Len(s[i]) \in Nat
  BY <1>1, <1>2, LenProperties
<1>4. ASSUME NEW i \in 2..n
      PROVE  /\ i - 1 \in 1..n /\ i \in 1..n
             /\ Len(g[i]) = Len(g[i - 1]) + Len(s[i])
             /\ \A k \in 1..Len(g[i - 1]) : g[i][k] = g[i - 1][k]
             /\ \A j \in 1..Len(s[i]) : g[i][Len(g[i - 1]) + j] = s[i][j]
  <2>1. i - 1 \in 1..n /\ i \in 1..n
    BY <1>1
  <2>2. g[i - 1] \in Seq(S) /\ s[i] \in Seq(S)
    BY <1>1, <1>3, <2>1
  <2> DEFINE a == g[i - 1]
             b == s[i]
             d == g[i]
  <2>3. a \in Seq(S) /\ b \in Seq(S) /\ d = a \o b
    BY <1>2, <2>2
  <2> HIDE DEF a, b, d
  <2>4. /\ Len(d) = Len(a) + Len(b)
        /\ \A k \in 1..Len(a) : d[k] = a[k]
        /\ \A j \in 1..Len(b) : d[Len(a) + j] = b[j]
    BY <2>3, ConcatFacts
  <2> QED
    BY <2>1, <2>4 DEF a, b, d
\* The parts of the result are its beginnings.
<1> DEFINE Begins(i) == \A m \in 1..i : /\ Len(g[m]) <= Len(g[i])
                                        /\ \A k \in 1..Len(g[m]) : g[i][k] = g[m][k]
           Made(i) == \A k \in 1..Len(g[i]) :
                        \E m \in 1..n : \E j \in 1..Len(s[m]) : g[i][k] = s[m][j]
           T == {i \in 1..n : ~(Begins(i) /\ Made(i))}
<1>5. T = {}
  <2> SUFFICES ASSUME T # {} PROVE FALSE
    OBVIOUS
  <2>1. T \in SUBSET Nat
    BY <1>1
  <2>2. PICK i \in T : \A k \in T : i <= k
    <3> HIDE DEF T
    <3> QED
      BY <2>1, LeastNatural
  <2>3. i \in 1..n /\ ~(Begins(i) /\ Made(i))
    OBVIOUS
  <2>4. CASE i = 1
    <3>1. Begins(1)
      <4>1. \A m \in 1..1 : m = 1
        OBVIOUS
      <4> QED
        BY <1>3, <2>3, <2>4, <4>1
    <3>2. Made(1)
      BY <1>2, <2>3, <2>4
    <3> QED
      BY <2>3, <2>4, <3>1, <3>2
  <2>5. CASE i # 1
    <3>1. i \in 2..n /\ ~(i <= i - 1)
      BY <1>1, <2>3, <2>5
    <3>2. /\ i - 1 \in 1..n /\ Len(g[i]) = Len(g[i - 1]) + Len(s[i])
          /\ \A k \in 1..Len(g[i - 1]) : g[i][k] = g[i - 1][k]
          /\ \A j \in 1..Len(s[i]) : g[i][Len(g[i - 1]) + j] = s[i][j]
      BY <1>4, <3>1
    <3>3. Begins(i - 1) /\ Made(i - 1)
      <4>1. i - 1 \notin T
        <5> HIDE DEF T
        <5> QED
          BY <2>2, <3>1
      <4> HIDE DEF Begins, Made
      <4> QED
        BY <3>2, <4>1
    <3>4. Len(g[i]) \in Nat /\ Len(g[i - 1]) \in Nat /\ Len(s[i]) \in Nat
      BY <1>3, <2>3, <3>2
    <3> HIDE DEF T
    <3>5. ASSUME NEW m \in 1..i
          PROVE  Len(g[m]) <= Len(g[i]) /\ \A k \in 1..Len(g[m]) : g[i][k] = g[m][k]
      <4>1. CASE m = i
        BY <3>4, <4>1
      <4>2. CASE m \in 1..(i - 1)
        <5>1. Len(g[m]) <= Len(g[i - 1]) /\ \A k \in 1..Len(g[m]) : g[i - 1][k] = g[m][k]
          BY <3>3, <4>2
        <5>2. m \in 1..n
          BY <1>1, <3>1, <4>2
        <5>3. Len(g[m]) \in Nat
          BY <1>3, <5>2
        <5>4. Len(g[m]) <= Len(g[i])
          <6> DEFINE x == Len(g[m])
                     y == Len(g[i - 1])
                     z == Len(g[i])
                     l == Len(s[i])
          <6>1. x \in Nat /\ y \in Nat /\ l \in Nat /\ x <= y /\ z = y + l
            BY <3>2, <3>4, <5>1, <5>3
          <6> HIDE DEF x, y, z, l
          <6>2. x <= z
            BY <6>1
          <6> QED
            BY <6>2 DEF x, z
        <5>5. \A k \in 1..Len(g[m]) : k \in 1..Len(g[i - 1])
          BY <3>4, <5>1, <5>3
        <5> QED
          BY <3>2, <5>1, <5>4, <5>5
      <4> QED
        BY <1>1, <2>3, <3>1, <4>1, <4>2
    <3>6. ASSUME NEW k \in 1..Len(g[i])
          PROVE  \E m \in 1..n : \E j \in 1..Len(s[m]) : g[i][k] = s[m][j]
      <4>1. CASE k \in 1..Len(g[i - 1])
        <5>1. g[i][k] = g[i - 1][k]
          BY <3>2, <4>1
        <5>2. \E m \in 1..n : \E j \in 1..Len(s[m]) : g[i - 1][k] = s[m][j]
          BY <3>3, <4>1
        <5> QED
          BY <5>1, <5>2
      <4>2. CASE k > Len(g[i - 1])
        <5>1. k - Len(g[i - 1]) \in 1..Len(s[i]) /\ Len(g[i - 1]) + (k - Len(g[i - 1])) = k
          <6> DEFINE y == Len(g[i - 1])
                     z == Len(g[i])
                     l == Len(s[i])
          <6>1. y \in Nat /\ l \in Nat /\ z = y + l /\ k \in 1..z /\ k > y
            BY <3>2, <3>4, <4>2
          <6> HIDE DEF y, z, l
          <6>2. k - y \in 1..l /\ y + (k - y) = k
            BY <6>1
          <6> QED
            BY <6>2 DEF y, l
        <5>2. g[i][k] = s[i][k - Len(g[i - 1])]
          BY <3>2, <5>1
        <5> QED
          BY <2>3, <5>1, <5>2
      <4> QED
        BY <3>4, <4>1, <4>2
    <3> QED
      BY <2>3, <3>5, <3>6
  <2> QED
    BY <2>4, <2>5
<1>6. n \in 1..n /\ Begins(n) /\ Made(n)
  <2>1. n \in 1..n
    BY <1>1
  <2> HIDE DEF Begins, Made
  <2> QED
    BY <1>5, <2>1
<1>7. F \in Seq(S) /\ Len(F) \in Nat
  BY <1>2, <1>3, <1>6
<1> DEFINE c == [i \in 0..n |-> IF i = 0 THEN 0 ELSE Len(g[i])]
<1>8. c \in [0..n -> Nat] /\ c[0] = 0 /\ \A i \in 1..n : c[i] = Len(g[i])
  <2>1. 0 \in 0..n /\ \A i \in 1..n : i \in 0..n /\ i # 0
    BY <1>1
  <2>2. \A i \in 0..n : i # 0 => i \in 1..n
    BY <1>1
  <2>3. \A i \in 0..n : (IF i = 0 THEN 0 ELSE Len(g[i])) \in Nat
    BY <1>3, <2>2
  <2> QED
    BY <2>1, <2>3
<1> HIDE DEF c
<1>9. c[n] = Len(F)
  BY <1>2, <1>6, <1>8
<1>10. ASSUME NEW i \in 1..n
       PROVE  /\ c[i] = c[i - 1] + Len(s[i]) /\ c[i] <= Len(F)
              /\ \A j \in 1..Len(s[i]) : F[c[i - 1] + j] = s[i][j]
  <2>1. c[i] = Len(g[i]) /\ Len(g[i]) <= Len(F) /\ \A k \in 1..Len(g[i]) : F[k] = g[i][k]
    BY <1>2, <1>6, <1>8
  <2>2. Len(g[i]) \in Nat /\ Len(s[i]) \in Nat
    BY <1>3
  <2>3. CASE i = 1
    <3>1. c[i - 1] = 0 /\ g[i] = s[i]
      BY <1>2, <1>8, <2>3
    <3>2. \A j \in 1..Len(s[i]) : 0 + j = j
      BY <2>2
    <3> QED
      BY <2>1, <2>2, <3>1, <3>2
  <2>4. CASE i # 1
    <3>1. i \in 2..n
      BY <1>1, <2>4
    <3>2. /\ i - 1 \in 1..n /\ Len(g[i]) = Len(g[i - 1]) + Len(s[i])
          /\ \A j \in 1..Len(s[i]) : g[i][Len(g[i - 1]) + j] = s[i][j]
      BY <1>4, <3>1
    <3>3. c[i - 1] = Len(g[i - 1]) /\ Len(g[i - 1]) \in Nat
      BY <1>3, <1>8, <3>2
    <3>4. \A j \in 1..Len(s[i]) : Len(g[i - 1]) + j \in 1..Len(g[i])
      BY <2>2, <3>2, <3>3
    <3> QED
      BY <2>1, <3>2, <3>3, <3>4
  <2> QED
    BY <2>3, <2>4
<1>11. \E d \in [0..n -> Nat] :
         /\ d[0] = 0 /\ d[n] = Len(F)
         /\ \A i \in 1..n :
              /\ d[i] = d[i - 1] + Len(s[i]) /\ d[i] <= Len(F)
              /\ \A j \in 1..Len(s[i]) : F[d[i - 1] + j] = s[i][j]
  BY <1>8, <1>9, <1>10
<1>12. \A k \in 1..Len(F) : \E i \in 1..n : \E j \in 1..Len(s[i]) : F[k] = s[i][j]
  BY <1>2, <1>6
<1> QED
  BY <1>7, <1>11, <1>12 DEF F

\* A set of indices that is not empty has a largest element.
LEMMA MaxOfIndices ==
    ASSUME NEW n \in Nat, NEW S \in SUBSET (1..n), S # {}
    PROVE  Max(S) \in S
<1> DEFINE T == {n - i : i \in S}
<1>0. T \in SUBSET Nat /\ T # {}
  <2>1. \A i \in S : i \in 1..n
    OBVIOUS
  <2>2. \A i \in S : n - i \in Nat
    BY <2>1
  <2> QED
    BY <2>2
<1>1. PICK m \in T : \A k \in T : m <= k
  <2> HIDE DEF T
  <2> QED
    BY <1>0, LeastNatural
<1>2. PICK j \in S : m = n - j
  OBVIOUS
<1>3. \A i \in S : j >= i
  BY <1>1, <1>2
<1> QED
  BY <1>2, <1>3 DEF Max

\* t is s without its i-th element.
OneLess(s, i, t) ==
    /\ Len(t) = Len(s) - 1
    /\ \A j \in 1..(Len(s) - 1) : t[j] = IF j < i THEN s[j] ELSE s[j + 1]

\* RemoveFirst takes one element out of a sequence that has it.
LEMMA RemoveFirstFacts ==
    ASSUME NEW S, NEW s \in Seq(S), NEW e, NEW k \in 1..Len(s), s[k] = e
    PROVE  /\ RemoveFirst(s, e) \in Seq(S)
           /\ \E i \in 1..Len(s) : s[i] = e /\ OneLess(s, i, RemoveFirst(s, e))
<1> DEFINE I == {i \in 1..Len(s) : s[i] = e}
           i == Min(I)
           a == SubSeq(s, 1, i - 1)
           b == SubSeq(s, i + 1, Len(s))
<1>1. Len(s) \in Nat
  BY LenProperties
<1>2. i \in I
  <2>1. I \in SUBSET Nat /\ I # {}
    BY <1>1
  <2>2. PICK m \in I : \A n \in I : m <= n
    <3> HIDE DEF I
    <3> QED
      BY <2>1, LeastNatural
  <2> QED
    BY <2>2 DEF Min
<1>3. i \in 1..Len(s) /\ s[i] = e
  BY <1>2
<1> HIDE DEF i
<1>4. RemoveFirst(s, e) = a \o b
  <2>1. SelectInSeq(s, LAMBDA v : v = e) = i
    BY <1>2 DEF SelectInSeq, i
  <2> QED
    BY <2>1 DEF RemoveFirst, RemoveAt
<1>5. /\ a \in Seq(S) /\ Len(a) = i - 1
      /\ \A j \in 1..(i - 1) : a[j] = s[j]
  BY <1>1, <1>3, SubSeqProperties
<1>6. /\ b \in Seq(S) /\ Len(b) = Len(s) - i
      /\ \A j \in 1..(Len(s) - i) : b[j] = s[i + j]
  BY <1>1, <1>3, SubSeqProperties
<1>7. /\ a \o b \in Seq(S) /\ Len(a \o b) = Len(a) + Len(b)
      /\ \A j \in 1..(Len(a) + Len(b)) :
           (a \o b)[j] = IF j <= Len(a) THEN a[j] ELSE b[j - Len(a)]
  BY <1>5, <1>6, ConcatProperties
<1>8. \A j \in 1..(Len(s) - 1) : (a \o b)[j] = IF j < i THEN s[j] ELSE s[j + 1]
  <2> SUFFICES ASSUME NEW j \in 1..(Len(s) - 1)
               PROVE  (a \o b)[j] = IF j < i THEN s[j] ELSE s[j + 1]
    OBVIOUS
  <2> HIDE DEF a, b
  <2>1. (a \o b)[j] = IF j <= i - 1 THEN a[j] ELSE b[j - (i - 1)]
    BY <1>1, <1>3, <1>5, <1>6, <1>7
  <2>2. CASE j < i
    BY <1>3, <1>5, <2>1, <2>2
  <2>3. CASE ~(j < i)
    <3>1. j - (i - 1) \in 1..(Len(s) - i) /\ i + (j - (i - 1)) = j + 1
      BY <1>1, <1>3, <2>3
    <3>2. b[j - (i - 1)] = s[j + 1]
      BY <1>6, <3>1
    <3> QED
      BY <1>3, <2>1, <2>3, <3>2
  <2> QED
    BY <2>2, <2>3
<1>9. Len(a \o b) = Len(s) - 1
  <2> HIDE DEF a, b
  <2> QED
    BY <1>1, <1>3, <1>5, <1>6, <1>7
<1> HIDE DEF a, b
<1> QED
  BY <1>3, <1>4, <1>7, <1>8, <1>9 DEF OneLess
=============================================================================
