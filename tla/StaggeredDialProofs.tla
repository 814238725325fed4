------------------------ MODULE StaggeredDialProofs ------------------------
(***************************************************************************)
(* Proofs about StaggeredDial for any number of addresses and any stagger  *)
(* and deadline: the order addresses are tried in, that no silent one      *)
(* holds the others back, and that the TCP stage gives up only when all    *)
(* have failed.                                                            *)
(***************************************************************************)
EXTENDS StaggeredDial, SequenceTheorems, FiniteSetTheorems, TLAPS

-----------------------------------------------------------------------------
(* Induction, and the recursion behind partition.                           *)

\* A set of numbers that is not empty has a least one.
LEMMA NatLeast ==
    ASSUME NEW T \in SUBSET Nat, T # {}
    PROVE  \E x \in T : \A y \in T : x <= y
<1>1. \E x \in T : \A y \in T : ~(<<y, x>> \in OpToRel(<, Nat))
  BY NatLessThanWellFounded, WFMin
<1>2. \A x, y \in Nat : y < x => <<y, x>> \in OpToRel(<, Nat)
  BY DEF OpToRel
<1>3. \E x \in T : \A y \in T : ~(y < x)
  BY <1>1, <1>2, Zenon
<1> QED BY <1>3, SMT

\* A set with zero in it and, up to N, the successor of each of its members has
\* every number up to N.
LEMMA CountUp ==
    ASSUME NEW N \in Nat, NEW S, 0 \in S,
           \A n \in 0..N : n \in S /\ n < N => n + 1 \in S
    PROVE  0..N \subseteq S
<1> DEFINE T == (0..N) \ S
<1> SUFFICES ASSUME T # {} PROVE FALSE
  OBVIOUS
<1>1. PICK x \in T : \A y \in T : x <= y
  <2>1. T \in SUBSET Nat
    OBVIOUS
  <2> HIDE DEF T
  <2> QED BY <2>1, NatLeast
<1>2. x \in Nat /\ x # 0 /\ x <= N /\ x \notin S
  BY <1>1
<1>3. x - 1 \in 0..N /\ x - 1 < N /\ (x - 1) + 1 = x
  BY <1>2
<1>4. x - 1 \in S
  BY <1>1, <1>2, <1>3
<1> QED BY <1>2, <1>3, <1>4

\* One more place considered.
Considered(fam, S, s, n) == IF fam[n] \in S THEN Append(s, n) ELSE s

HalfStep(fam, S, f) ==
    [n \in 0..Len(fam) |->
       IF n = 0 THEN <<>> ELSE Considered(fam, S, f[n - 1], n)]

\* The recursion has a solution, which HalfUpTo is.
LEMMA HalfDefined ==
    ASSUME NEW fam, Len(fam) \in Nat, NEW S
    PROVE  HalfUpTo(fam, S) = HalfStep(fam, S, HalfUpTo(fam, S))
<1> DEFINE next(s, n) == Considered(fam, S, s, n)
           part(m, f) == [n \in 0..m |-> IF n = 0 THEN <<>>
                                          ELSE next(f[n - 1], n)]
           solved == {m \in Nat : \E f : f = part(m, f)}
<1>1. 0 \in solved
  <2>1. [n \in 0..0 |-> <<>>] = part(0, [n \in 0..0 |-> <<>>])
    OBVIOUS
  <2> QED BY <2>1
<1>2. ASSUME NEW m \in Nat, m \in solved PROVE m + 1 \in solved
  <2>1. PICK f : f = part(m, f)
    BY <1>2
  <2> DEFINE g == [n \in 0..(m + 1) |-> IF n = m + 1 THEN next(f[m], m + 1)
                                                    ELSE f[n]]
  <2>2. \A n \in 0..(m + 1) :
          g[n] = IF n = 0 THEN <<>> ELSE next(g[n - 1], n)
    <3> HIDE DEF next
    <3>1. ASSUME NEW n \in 0..(m + 1), n = m + 1
          PROVE  g[n] = IF n = 0 THEN <<>> ELSE next(g[n - 1], n)
      <4>1. n # 0 /\ n - 1 = m /\ m \in 0..(m + 1) /\ m # m + 1
        BY <3>1
      <4>2. g[m] = f[m] /\ g[n] = next(f[m], n)
        BY <3>1, <4>1
      <4> QED BY <4>1, <4>2
    <3>2. ASSUME NEW n \in 0..(m + 1), n # m + 1
          PROVE  g[n] = IF n = 0 THEN <<>> ELSE next(g[n - 1], n)
      <4>1. n \in 0..m /\ g[n] = f[n]
        BY <3>2
      <4>2. f[n] = IF n = 0 THEN <<>> ELSE next(f[n - 1], n)
        BY <2>1, <4>1
      <4>3. n # 0 => n - 1 \in 0..(m + 1) /\ n - 1 # m + 1
        BY <4>1
      <4>4. n # 0 => g[n - 1] = f[n - 1]
        BY <4>3
      <4> QED BY <4>1, <4>2, <4>4
    <3> QED BY <3>1, <3>2
  <2>3. g = part(m + 1, g)
    <3> HIDE DEF next
    <3>1. g = [n \in 0..(m + 1) |-> g[n]]
      OBVIOUS
    <3> HIDE DEF g
    <3> QED BY <2>2, <3>1
  <2> HIDE DEF g, part
  <2> QED BY <2>3
<1>3. Len(fam) \in solved
  <2> HIDE DEF solved
  <2>1. \A n \in 0..Len(fam) : n \in solved /\ n < Len(fam) => n + 1 \in solved
    BY <1>2
  <2>2. 0..Len(fam) \subseteq solved
    BY <1>1, <2>1, CountUp
  <2> QED BY <2>2
<1>4. \E f : f = HalfStep(fam, S, f)
  BY <1>3 DEF HalfStep
<1>5. HalfUpTo(fam, S) = CHOOSE f : f = HalfStep(fam, S, f)
  BY DEF HalfUpTo, HalfStep, Considered
<1> QED BY <1>4, <1>5

\* What partition has after n places: those of S among them, in order.
Sorted(fam, S, s, n) ==
    /\ s \in Seq(1..n)
    /\ \A i \in 1..Len(s) : fam[s[i]] \in S
    /\ \A i, j \in 1..Len(s) : i < j => s[i] < s[j]
    /\ \A p \in 1..n : fam[p] \in S => \E i \in 1..Len(s) : s[i] = p

\* One more place keeps it so.
LEMMA SortedStep ==
    ASSUME NEW fam, NEW S, NEW n \in Nat, NEW s, Sorted(fam, S, s, n)
    PROVE  Sorted(fam, S, Considered(fam, S, s, n + 1), n + 1)
<1> DEFINE t == Considered(fam, S, s, n + 1)
           l == Len(s)
<1>1. /\ s \in Seq(1..n) /\ l \in Nat /\ DOMAIN s = 1..l
      /\ \A i \in 1..l : s[i] \in 1..n
  BY LenProperties, ElementOfSeq DEF Sorted
<1>2. s \in Seq(1..(n + 1))
  <2>1. \A i \in 1..l : s[i] \in 1..(n + 1)
    BY <1>1
  <2> QED BY <1>1, <2>1, IsASeq
<1>3. CASE fam[n + 1] \in S
  <2>1. t = Append(s, n + 1) /\ n + 1 \in 1..(n + 1)
    BY <1>3 DEF Considered
  <2>2. /\ t \in Seq(1..(n + 1)) /\ Len(t) = l + 1
        /\ t[l + 1] = n + 1 /\ \A i \in 1..l : t[i] = s[i]
    BY <1>2, <2>1, AppendProperties
  <2> HIDE DEF t, l
  <2>3. \A i \in 1..Len(t) : fam[t[i]] \in S
    <3>1. \A i \in 1..l : fam[t[i]] \in S
      BY <2>2 DEF Sorted, l
    <3> QED BY <1>1, <1>3, <2>2, <3>1
  <2>4. \A i, j \in 1..Len(t) : i < j => t[i] < t[j]
    <3>1. \A i, j \in 1..l : i < j => t[i] < t[j]
      BY <2>2 DEF Sorted, l
    <3>2. \A i \in 1..l : t[i] < t[l + 1]
      BY <1>1, <2>2
    <3> QED BY <1>1, <2>2, <3>1, <3>2
  <2>5. \A p \in 1..(n + 1) : fam[p] \in S => \E i \in 1..Len(t) : t[i] = p
    <3>1. ASSUME NEW p \in 1..n, fam[p] \in S
          PROVE  \E i \in 1..Len(t) : t[i] = p
      <4>1. PICK i \in 1..l : s[i] = p
        BY <3>1 DEF Sorted, l
      <4>2. i \in 1..Len(t) /\ t[i] = p
        BY <1>1, <2>2, <4>1
      <4> QED BY <4>2
    <3>2. l + 1 \in 1..Len(t)
      BY <1>1, <2>2
    <3>3. \A p \in 1..(n + 1) : p \in 1..n \/ p = n + 1
      OBVIOUS
    <3> QED BY <2>2, <3>1, <3>2, <3>3
  <2> QED BY <2>2, <2>3, <2>4, <2>5 DEF Sorted, t
<1>4. CASE fam[n + 1] \notin S
  <2>1. t = s
    BY <1>4 DEF Considered
  <2>2. \A p \in 1..(n + 1) : p \in 1..n \/ p = n + 1
    OBVIOUS
  <2>3. \A p \in 1..(n + 1) : fam[p] \in S => \E i \in 1..Len(s) : s[i] = p
    BY <1>4, <2>2 DEF Sorted
  <2> QED BY <1>2, <2>1, <2>3 DEF Sorted
<1> QED BY <1>3, <1>4

\* A half has the places of its families, in the resolver's order.
LEMMA HalfSorted ==
    ASSUME NEW fam, Len(fam) \in Nat, NEW S
    PROVE  Sorted(fam, S, Half(fam, S), Len(fam))
<1> DEFINE u == HalfUpTo(fam, S)
           right == {n \in 0..Len(fam) : Sorted(fam, S, u[n], n)}
<1>1. \A n \in 0..Len(fam) :
        u[n] = IF n = 0 THEN <<>> ELSE Considered(fam, S, u[n - 1], n)
  <2>1. u = HalfStep(fam, S, u)
    BY HalfDefined
  <2> HIDE DEF u
  <2> QED BY <2>1 DEF HalfStep
<1> HIDE DEF u
<1>2. 0 \in right
  <2>1. Sorted(fam, S, <<>>, 0)
    <3>1. <<>> \in Seq(1..0) /\ Len(<<>>) = 0 /\ 1..0 = {}
      BY EmptySeq
    <3> QED BY <3>1 DEF Sorted
  <2> QED BY <1>1, <2>1
<1>3. ASSUME NEW n \in 0..Len(fam), n \in right, n < Len(fam)
      PROVE  n + 1 \in right
  <2>1. /\ n + 1 \in 0..Len(fam) /\ n + 1 # 0 /\ (n + 1) - 1 = n /\ n \in Nat
    BY <1>3
  <2>2. u[n + 1] = Considered(fam, S, u[n], n + 1)
    BY <1>1, <2>1
  <2>3. Sorted(fam, S, u[n + 1], n + 1)
    BY <1>3, <2>1, <2>2, SortedStep
  <2> QED BY <2>1, <2>3
<1>4. 0..Len(fam) \subseteq right
  <2> HIDE DEF right
  <2> QED BY <1>2, <1>3, CountUp
<1> QED BY <1>4 DEF Half, u

\* Two halves that share no family and leave none out have all places.
LEMMA HalvesCover ==
    ASSUME NEW fam, Len(fam) \in Nat, NEW S, NEW T,
           \A n \in 1..Len(fam) : fam[n] \in S <=> fam[n] \notin T
    PROVE  Len(Half(fam, S)) + Len(Half(fam, T)) = Len(fam)
<1> DEFINE u == HalfUpTo(fam, S)
           v == HalfUpTo(fam, T)
           right == {n \in 0..Len(fam) :
                       /\ Sorted(fam, S, u[n], n) /\ Sorted(fam, T, v[n], n)
                       /\ Len(u[n]) + Len(v[n]) = n}
<1>1. \A n \in 0..Len(fam) :
        /\ u[n] = IF n = 0 THEN <<>> ELSE Considered(fam, S, u[n - 1], n)
        /\ v[n] = IF n = 0 THEN <<>> ELSE Considered(fam, T, v[n - 1], n)
  <2>1. u = HalfStep(fam, S, u) /\ v = HalfStep(fam, T, v)
    BY HalfDefined
  <2> HIDE DEF u, v
  <2> QED BY <2>1 DEF HalfStep
<1> HIDE DEF u, v
<1>2. 0 \in right
  <2>1. Sorted(fam, S, <<>>, 0) /\ Sorted(fam, T, <<>>, 0) /\ Len(<<>>) = 0
    <3>1. <<>> \in Seq(1..0) /\ Len(<<>>) = 0 /\ 1..0 = {}
      BY EmptySeq
    <3> QED BY <3>1 DEF Sorted
  <2>2. u[0] = <<>> /\ v[0] = <<>> /\ 0 \in 0..Len(fam)
    BY <1>1
  <2>3. Len(u[0]) + Len(v[0]) = 0
    BY <2>1, <2>2
  <2> QED BY <2>1, <2>2, <2>3
<1>3. ASSUME NEW n \in 0..Len(fam), n \in right, n < Len(fam)
      PROVE  n + 1 \in right
  <2>1. /\ n + 1 \in 0..Len(fam) /\ n + 1 # 0 /\ (n + 1) - 1 = n /\ n \in Nat
        /\ n + 1 \in 1..Len(fam)
    BY <1>3
  <2>2. /\ u[n + 1] = Considered(fam, S, u[n], n + 1)
        /\ v[n + 1] = Considered(fam, T, v[n], n + 1)
    BY <1>1, <2>1
  <2>3. Sorted(fam, S, u[n + 1], n + 1) /\ Sorted(fam, T, v[n + 1], n + 1)
    BY <1>3, <2>1, <2>2, SortedStep
  <2>4. /\ u[n] \in Seq(1..n) /\ v[n] \in Seq(1..n)
        /\ Len(u[n]) \in Nat /\ Len(v[n]) \in Nat
        /\ Len(u[n]) + Len(v[n]) = n
    BY <1>3, LenProperties DEF Sorted
  <2>5. /\ Len(Append(u[n], n + 1)) = Len(u[n]) + 1
        /\ Len(Append(v[n], n + 1)) = Len(v[n]) + 1
    <3>1. u[n] \in Seq(Nat) /\ v[n] \in Seq(Nat)
      BY <2>1, <2>4, ElementOfSeq, IsASeq, LenProperties
    <3> QED BY <2>1, <3>1, AppendProperties
  <2>6. PICK k \in Nat, l \in Nat :
          k = Len(u[n]) /\ l = Len(v[n]) /\ k + l = n
    BY <2>4
  <2>7. (k + 1) + l = n + 1 /\ k + (l + 1) = n + 1
    <3>1. \A a, b, c \in Nat :
            a + b = c => (a + 1) + b = c + 1 /\ a + (b + 1) = c + 1
      OBVIOUS
    <3> QED BY <2>1, <2>6, <3>1
  <2>8. Len(u[n + 1]) + Len(v[n + 1]) = n + 1
    <3> HIDE DEF u, v
    <3>1. CASE fam[n + 1] \in S
      <4>1. u[n + 1] = Append(u[n], n + 1) /\ v[n + 1] = v[n]
        BY <2>1, <2>2, <3>1 DEF Considered
      <4>2. Len(u[n + 1]) = k + 1 /\ Len(v[n + 1]) = l
        BY <2>5, <2>6, <4>1
      <4> QED BY <2>7, <4>2
    <3>2. CASE fam[n + 1] \notin S
      <4>1. v[n + 1] = Append(v[n], n + 1) /\ u[n + 1] = u[n]
        BY <2>1, <2>2, <3>2 DEF Considered
      <4>2. Len(u[n + 1]) = k /\ Len(v[n + 1]) = l + 1
        BY <2>5, <2>6, <4>1
      <4> QED BY <2>7, <4>2
    <3> QED BY <3>1, <3>2
  <2> QED BY <2>1, <2>3, <2>8
<1>4. 0..Len(fam) \subseteq right
  <2> HIDE DEF right
  <2> QED BY <1>2, <1>3, CountUp
<1>5. Len(fam) \in right
  <2> HIDE DEF right
  <2> QED BY <1>4
<1>6. Len(u[Len(fam)]) + Len(v[Len(fam)]) = Len(fam)
  BY <1>5
<1> QED BY <1>6 DEF Half, u, v

-----------------------------------------------------------------------------
(* interleave_families.                                                     *)

Shorter(a, b) == IF Len(a) <= Len(b) THEN Len(a) ELSE Len(b)

\* Where the i-th of the leading half and of the other one end up, m being the
\* length of the shorter.
LeadPlace(i, m) == IF i <= m THEN 2 * i - 1 ELSE i + m
OtherPlace(i, m) == IF i <= m THEN 2 * i ELSE i + m

\* The pairs come first.
LEMMA PairPlaces ==
    ASSUME NEW a \in Seq(Nat), NEW b \in Seq(Nat)
    PROVE  /\ Pairs(a, b) \in Seq(Nat)
           /\ Len(Pairs(a, b)) = 2 * Shorter(a, b)
           /\ \A i \in 1..Shorter(a, b) : /\ Pairs(a, b)[2 * i - 1] = a[i]
                                          /\ Pairs(a, b)[2 * i] = b[i]
<1> DEFINE m == Shorter(a, b)
           p == Pairs(a, b)
<1>1. /\ m \in Nat /\ m <= Len(a) /\ m <= Len(b)
      /\ Len(a) \in Nat /\ Len(b) \in Nat
  BY LenProperties DEF Shorter
<1>2. p = [k \in 1..(2 * m) |-> IF k % 2 = 1 THEN a[(k + 1) \div 2]
                                             ELSE b[k \div 2]]
  BY DEF Pairs, Shorter
<1> HIDE DEF m, p
<1>3. \A i \in 1..m : /\ 2 * i - 1 \in 1..(2 * m) /\ 2 * i \in 1..(2 * m)
                      /\ (2 * i - 1) % 2 = 1 /\ ((2 * i - 1) + 1) \div 2 = i
                      /\ (2 * i) % 2 = 0 /\ (2 * i) \div 2 = i
  BY <1>1
<1>4. \A i \in 1..m : p[2 * i - 1] = a[i] /\ p[2 * i] = b[i]
  BY <1>2, <1>3
<1>5. \A k \in 1..(2 * m) : \E i \in 1..m : k = 2 * i - 1 \/ k = 2 * i
  <2>1. ASSUME NEW k \in 1..(2 * m)
        PROVE  \E i \in 1..m : k = 2 * i - 1 \/ k = 2 * i
    <3>1. (k + 1) \div 2 \in 1..m
      BY <1>1
    <3>2. k = 2 * ((k + 1) \div 2) - 1 \/ k = 2 * ((k + 1) \div 2)
      BY <1>1
    <3> QED BY <3>1, <3>2
  <2> QED BY <2>1
<1>6. \A i \in 1..m : a[i] \in Nat /\ b[i] \in Nat
  BY <1>1, ElementOfSeq
<1>7. \A k \in 1..(2 * m) : p[k] \in Nat
  BY <1>4, <1>5, <1>6
<1>8. 2 * m \in Nat
  BY <1>1
<1>9. p = [k \in 1..(2 * m) |-> p[k]]
  BY <1>2
<1>10. [k \in 1..(2 * m) |-> p[k]] \in Seq(Nat)
  BY <1>7, <1>8, IsASeq
<1>11. p \in Seq(Nat) /\ DOMAIN p = 1..(2 * m)
  BY <1>2, <1>9, <1>10
<1>12. Len(p) = 2 * m
  BY <1>8, <1>11, LenProperties
<1> QED BY <1>4, <1>11, <1>12 DEF m, p

\* What is left of the longer half follows.
LEMMA RestPlaces ==
    ASSUME NEW a \in Seq(Nat), NEW b \in Seq(Nat)
    PROVE  LET m == Shorter(a, b)
           IN  /\ Rest(a, b) \in Seq(Nat)
               /\ Len(Rest(a, b)) = (Len(a) - m) + (Len(b) - m)
               /\ \A i \in (m + 1)..Len(a) : Rest(a, b)[i - m] = a[i]
               /\ \A i \in (m + 1)..Len(b) : Rest(a, b)[i - m] = b[i]
<1> DEFINE m == Shorter(a, b)
           s == SubSeq(a, Len(b) + 1, Len(a))
           t == SubSeq(b, Len(a) + 1, Len(b))
<1>1. Len(a) \in Nat /\ Len(b) \in Nat
  BY LenProperties
<1>2. /\ \A i \in (Len(b) + 1)..Len(a) : a[i] \in Nat
      /\ \A i \in (Len(a) + 1)..Len(b) : b[i] \in Nat
  BY <1>1, ElementOfSeq
<1>3. /\ s \in Seq(Nat)
      /\ Len(s) = IF Len(b) + 1 <= Len(a) THEN Len(a) - Len(b) ELSE 0
      /\ \A i \in 1..Len(s) : s[i] = a[Len(b) + i]
  <2>1. /\ s \in Seq(Nat)
        /\ Len(s) = IF Len(b) + 1 <= Len(a) THEN Len(a) - (Len(b) + 1) + 1
                                            ELSE 0
        /\ \A i \in 1..Len(s) : s[i] = a[(Len(b) + 1) + i - 1]
    BY <1>1, <1>2, SubSeqProperties
  <2>2. \A i \in 1..Len(s) : (Len(b) + 1) + i - 1 = Len(b) + i
    BY <1>1, <2>1, LenProperties
  <2> QED BY <1>1, <2>1, <2>2
<1>4. /\ t \in Seq(Nat)
      /\ Len(t) = IF Len(a) + 1 <= Len(b) THEN Len(b) - Len(a) ELSE 0
      /\ \A i \in 1..Len(t) : t[i] = b[Len(a) + i]
  <2>1. /\ t \in Seq(Nat)
        /\ Len(t) = IF Len(a) + 1 <= Len(b) THEN Len(b) - (Len(a) + 1) + 1
                                            ELSE 0
        /\ \A i \in 1..Len(t) : t[i] = b[(Len(a) + 1) + i - 1]
    BY <1>1, <1>2, SubSeqProperties
  <2>2. \A i \in 1..Len(t) : (Len(a) + 1) + i - 1 = Len(a) + i
    BY <1>1, <2>1, LenProperties
  <2> QED BY <1>1, <2>1, <2>2
<1>5. Rest(a, b) = s \o t
  BY DEF Rest
<1> HIDE DEF s, t
<1>6. /\ s \o t \in Seq(Nat) /\ Len(s \o t) = Len(s) + Len(t)
      /\ \A i \in 1..(Len(s) + Len(t)) :
           (s \o t)[i] = IF i <= Len(s) THEN s[i] ELSE t[i - Len(s)]
  BY <1>3, <1>4, ConcatProperties
<1>7. CASE Len(a) <= Len(b)
  <2>1. m = Len(a) /\ Len(s) = 0 /\ Len(t) = Len(b) - Len(a)
    BY <1>1, <1>3, <1>4, <1>7 DEF Shorter
  <2>2. Len(Rest(a, b)) = (Len(a) - m) + (Len(b) - m)
    BY <1>1, <1>5, <1>6, <2>1
  <2>3. ASSUME NEW i \in (m + 1)..Len(b) PROVE Rest(a, b)[i - m] = b[i]
    <3>1. /\ i - m \in 1..(Len(s) + Len(t)) /\ ~(i - m <= Len(s))
          /\ (i - m) - Len(s) = i - m
          /\ i - m \in 1..Len(t) /\ Len(a) + (i - m) = i
      BY <1>1, <2>1, <2>3
    <3> QED BY <1>4, <1>5, <1>6, <3>1
  <2>4. (m + 1)..Len(a) = {}
    BY <1>1, <2>1
  <2> QED BY <1>5, <1>6, <2>2, <2>3, <2>4
<1>8. CASE ~(Len(a) <= Len(b))
  <2>1. m = Len(b) /\ Len(t) = 0 /\ Len(s) = Len(a) - Len(b)
    BY <1>1, <1>3, <1>4, <1>8 DEF Shorter
  <2>2. Len(Rest(a, b)) = (Len(a) - m) + (Len(b) - m)
    BY <1>1, <1>5, <1>6, <2>1
  <2>3. ASSUME NEW i \in (m + 1)..Len(a) PROVE Rest(a, b)[i - m] = a[i]
    <3>1. /\ i - m \in 1..(Len(s) + Len(t)) /\ i - m <= Len(s)
          /\ i - m \in 1..Len(s) /\ Len(b) + (i - m) = i
      BY <1>1, <2>1, <2>3
    <3> QED BY <1>3, <1>5, <1>6, <3>1
  <2>4. (m + 1)..Len(b) = {}
    BY <1>1, <2>1
  <2> QED BY <1>5, <1>6, <2>2, <2>3, <2>4
<1> QED BY <1>7, <1>8

\* Together: where everything ends up, and that there is nothing else.
LEMMA Interleaved ==
    ASSUME NEW a \in Seq(Nat), NEW b \in Seq(Nat), NEW o,
           o = Pairs(a, b) \o Rest(a, b)
    PROVE  LET m == Shorter(a, b)
           IN  /\ Len(o) = Len(a) + Len(b) /\ DOMAIN o = 1..(Len(a) + Len(b))
               /\ \A i \in 1..Len(a) : /\ LeadPlace(i, m) \in DOMAIN o
                                       /\ o[LeadPlace(i, m)] = a[i]
               /\ \A i \in 1..Len(b) : /\ OtherPlace(i, m) \in DOMAIN o
                                       /\ o[OtherPlace(i, m)] = b[i]
               /\ \A k \in DOMAIN o :
                    \/ \E i \in 1..Len(a) : k = LeadPlace(i, m)
                    \/ \E i \in 1..Len(b) : k = OtherPlace(i, m)
<1> DEFINE m == Shorter(a, b)
           p == Pairs(a, b)
           r == Rest(a, b)
<1>1. /\ m \in Nat /\ Len(a) \in Nat /\ Len(b) \in Nat
      /\ m <= Len(a) /\ m <= Len(b)
      /\ (m = Len(a) \/ m = Len(b))
  BY LenProperties DEF Shorter
<1>2. /\ p \in Seq(Nat) /\ Len(p) = 2 * m
      /\ \A i \in 1..m : p[2 * i - 1] = a[i] /\ p[2 * i] = b[i]
  BY PairPlaces
<1>3. /\ r \in Seq(Nat) /\ Len(r) = (Len(a) - m) + (Len(b) - m)
      /\ \A i \in (m + 1)..Len(a) : r[i - m] = a[i]
      /\ \A i \in (m + 1)..Len(b) : r[i - m] = b[i]
  BY RestPlaces
<1> HIDE DEF m, p, r
<1>4. /\ o \in Seq(Nat) /\ Len(o) = Len(p) + Len(r)
      /\ \A i \in 1..(Len(p) + Len(r)) :
           o[i] = IF i <= Len(p) THEN p[i] ELSE r[i - Len(p)]
  <2>1. /\ p \o r \in Seq(Nat) /\ Len(p \o r) = Len(p) + Len(r)
        /\ \A i \in 1..(Len(p) + Len(r)) :
             (p \o r)[i] = IF i <= Len(p) THEN p[i] ELSE r[i - Len(p)]
    BY <1>2, <1>3, ConcatProperties
  <2>2. o = p \o r
    BY DEF p, r
  <2> QED BY <2>1, <2>2
<1>5. Len(o) = Len(a) + Len(b)
  BY <1>1, <1>2, <1>3, <1>4
<1>6. DOMAIN o = 1..(Len(a) + Len(b))
  BY <1>4, <1>5, LenProperties
<1>7. ASSUME NEW i \in 1..Len(a)
      PROVE  LeadPlace(i, m) \in DOMAIN o /\ o[LeadPlace(i, m)] = a[i]
  <2>1. CASE i <= m
    <3>1. /\ 2 * i - 1 \in 1..(Len(a) + Len(b)) /\ 2 * i - 1 <= 2 * m
          /\ i \in 1..m
      BY <1>1, <1>7, <2>1
    <3>2. o[2 * i - 1] = p[2 * i - 1]
      BY <1>2, <1>4, <1>5, <3>1
    <3> QED BY <1>2, <1>6, <2>1, <3>1, <3>2 DEF LeadPlace
  <2>2. CASE ~(i <= m)
    <3>1. /\ i + m \in 1..(Len(a) + Len(b)) /\ ~(i + m <= 2 * m)
          /\ i \in (m + 1)..Len(a) /\ (i + m) - 2 * m = i - m
      BY <1>1, <1>7, <2>2
    <3>2. o[i + m] = r[i - m]
      BY <1>2, <1>4, <1>5, <3>1
    <3> QED BY <1>3, <1>6, <2>2, <3>1, <3>2 DEF LeadPlace
  <2> QED BY <2>1, <2>2
<1>8. ASSUME NEW i \in 1..Len(b)
      PROVE  OtherPlace(i, m) \in DOMAIN o /\ o[OtherPlace(i, m)] = b[i]
  <2>1. CASE i <= m
    <3>1. /\ 2 * i \in 1..(Len(a) + Len(b)) /\ 2 * i <= 2 * m
          /\ i \in 1..m
      BY <1>1, <1>8, <2>1
    <3>2. o[2 * i] = p[2 * i]
      BY <1>2, <1>4, <1>5, <3>1
    <3> QED BY <1>2, <1>6, <2>1, <3>1, <3>2 DEF OtherPlace
  <2>2. CASE ~(i <= m)
    <3>1. /\ i + m \in 1..(Len(a) + Len(b)) /\ ~(i + m <= 2 * m)
          /\ i \in (m + 1)..Len(b) /\ (i + m) - 2 * m = i - m
      BY <1>1, <1>8, <2>2
    <3>2. o[i + m] = r[i - m]
      BY <1>2, <1>4, <1>5, <3>1
    <3> QED BY <1>3, <1>6, <2>2, <3>1, <3>2 DEF OtherPlace
  <2> QED BY <2>1, <2>2
<1>9. ASSUME NEW k \in DOMAIN o
      PROVE  \/ \E i \in 1..Len(a) : k = LeadPlace(i, m)
             \/ \E i \in 1..Len(b) : k = OtherPlace(i, m)
  <2>1. k \in Nat /\ 1 <= k /\ k <= Len(a) + Len(b)
    BY <1>1, <1>6, <1>9
  <2>2. CASE k <= 2 * m
    <3> DEFINE i == (k + 1) \div 2
    <3>1. i \in 1..m /\ (k = 2 * i - 1 \/ k = 2 * i)
      <4>1. \A x, n \in Nat :
              1 <= x /\ x <= 2 * n
                => LET h == (x + 1) \div 2
                   IN  h \in 1..n /\ (x = 2 * h - 1 \/ x = 2 * h)
        OBVIOUS
      <4>2. m \in Nat /\ k \in Nat /\ 1 <= k /\ k <= 2 * m
        BY <1>1, <2>1, <2>2
      <4> QED BY <4>1, <4>2
    <3> HIDE DEF i
    <3>2. /\ i \in 1..Len(a) /\ i \in 1..Len(b) /\ i <= m
      BY <1>1, <3>1
    <3> QED BY <3>1, <3>2 DEF LeadPlace, OtherPlace
  <2>3. CASE ~(k <= 2 * m)
    <3> DEFINE i == k - m
    <3>1. /\ ~(i <= m) /\ i \in Nat /\ k = i + m /\ 1 <= i
          /\ (i <= Len(a) \/ i <= Len(b))
      <4>1. \A x, n, c, d \in Nat :
              (n = c \/ n = d) /\ x <= c + d /\ ~(x <= 2 * n)
                => LET h == x - n
                   IN  /\ ~(h <= n) /\ h \in Nat /\ x = h + n /\ 1 <= h
                       /\ (h <= c \/ h <= d)
        OBVIOUS
      <4>2. /\ m \in Nat /\ Len(a) \in Nat /\ Len(b) \in Nat /\ k \in Nat
            /\ (m = Len(a) \/ m = Len(b))
        BY <1>1, <2>1
      <4> QED BY <2>1, <2>3, <4>1, <4>2
    <3> HIDE DEF i
    <3>2. i \in 1..Len(a) \/ i \in 1..Len(b)
      BY <1>1, <3>1
    <3> QED BY <3>1, <3>2 DEF LeadPlace, OtherPlace
  <2> QED BY <2>2, <2>3
<1> QED BY <1>5, <1>6, <1>7, <1>8, <1>9 DEF m

\* Each half keeps its order, two of a half are neighbours only past the pairs,
\* and the pairs come before that.
LEMMA PlacesGrow ==
    ASSUME NEW m \in Nat, NEW x \in Nat, NEW y \in Nat
    PROVE  /\ LeadPlace(x, m) < LeadPlace(y, m) => x < y
           /\ OtherPlace(x, m) < OtherPlace(y, m) => x < y
           /\ LeadPlace(y, m) = LeadPlace(x, m) + 1 => m < y
           /\ OtherPlace(y, m) = OtherPlace(x, m) + 1 => m < y
           /\ x <= m /\ m < y => OtherPlace(x, m) < LeadPlace(y, m)
           /\ x <= m /\ m < y => LeadPlace(x, m) < OtherPlace(y, m)
BY DEF LeadPlace, OtherPlace

\* A half is a sequence of numbers.
LEMMA HalfInNat ==
    ASSUME NEW fam, Len(fam) \in Nat, NEW S
    PROVE  Half(fam, S) \in Seq(Nat)
<1>1. Half(fam, S) \in Seq(1..Len(fam))
  BY HalfSorted DEF Sorted
<1>2. \A i \in 1..Len(Half(fam, S)) : Half(fam, S)[i] \in Nat
  BY <1>1, ElementOfSeq
<1> QED BY <1>1, <1>2, IsASeq, LenProperties

\* What OrderAlternates says of an order and the answer it is of.
Alternating(fam, o) ==
    /\ Len(o) = Len(fam)
    /\ \A p \in DOMAIN fam : \E i \in DOMAIN o : o[i] = p
    /\ o[1] = 1
    /\ \A i, j \in DOMAIN o :
         /\ i < j /\ fam[o[i]] = fam[o[j]]
         => /\ o[i] < o[j]
            /\ j = i + 1 => \A k \in DOMAIN o :
                 k > j => fam[o[k]] = fam[o[j]]

\* interleave_families alternates, whatever the resolver's answer.
LEMMA Alternates ==
    ASSUME NEW fam \in Seq(Families), fam # <<>>,
           NEW o, o = InterleaveFamilies(fam)
    PROVE  /\ Alternating(fam, o)
           /\ DOMAIN o = 1..Len(fam)
           /\ \A i \in DOMAIN o : o[i] \in DOMAIN fam
<1> DEFINE n == Len(fam)
           a == Lead(fam)
           b == Other(fam)
           m == Shorter(a, b)
           first == {fam[1]}
           second == Families \ {fam[1]}
<1>1. n \in Nat /\ n # 0 /\ DOMAIN fam = 1..n /\ 1 \in 1..n
  <2>1. n \in Nat /\ n # 0 /\ DOMAIN fam = 1..n
    BY LenProperties, EmptySeq
  <2> QED BY <2>1
<1>2. \A p \in 1..n : fam[p] \in Families
  BY <1>1, ElementOfSeq
<1>3. \A p \in 1..n : fam[p] \in first <=> fam[p] \notin second
  BY <1>2
<1>4. \A f, g \in second : f = g
  BY <1>1, <1>2 DEF Families
<1>5. Sorted(fam, first, a, n) /\ Sorted(fam, second, b, n)
  BY <1>1, HalfSorted DEF Lead, Other
<1>6. Len(a) + Len(b) = n
  <2> HIDE DEF first, second
  <2>1. Len(Half(fam, first)) + Len(Half(fam, second)) = n
    BY <1>1, <1>3, HalvesCover
  <2> QED BY <2>1 DEF Lead, Other, first, second
<1>7. /\ a \in Seq(1..n) /\ b \in Seq(1..n)
      /\ Len(a) \in Nat /\ Len(b) \in Nat
      /\ \A i \in 1..Len(a) : a[i] \in 1..n
      /\ \A i \in 1..Len(b) : b[i] \in 1..n
  BY <1>5, LenProperties, ElementOfSeq DEF Sorted
<1>8. /\ \A i \in 1..Len(a) : fam[a[i]] \in first
      /\ \A i \in 1..Len(b) : fam[b[i]] \in second
      /\ \A i, j \in 1..Len(a) : i < j => a[i] < a[j]
      /\ \A i, j \in 1..Len(b) : i < j => b[i] < b[j]
      /\ \A p \in 1..n : fam[p] \in first => \E i \in 1..Len(a) : a[i] = p
      /\ \A p \in 1..n : fam[p] \in second => \E i \in 1..Len(b) : b[i] = p
  BY <1>5 DEF Sorted
<1>9. o = Pairs(a, b) \o Rest(a, b)
  BY DEF InterleaveFamilies
<1>10. a \in Seq(Nat) /\ b \in Seq(Nat)
  BY <1>1, HalfInNat DEF Lead, Other
<1> HIDE DEF n, a, b, first, second
<1>11. /\ Len(o) = Len(a) + Len(b) /\ DOMAIN o = 1..(Len(a) + Len(b))
       /\ \A i \in 1..Len(a) : /\ LeadPlace(i, m) \in DOMAIN o
                               /\ o[LeadPlace(i, m)] = a[i]
       /\ \A i \in 1..Len(b) : /\ OtherPlace(i, m) \in DOMAIN o
                               /\ o[OtherPlace(i, m)] = b[i]
       /\ \A k \in DOMAIN o :
            \/ \E i \in 1..Len(a) : k = LeadPlace(i, m)
            \/ \E i \in 1..Len(b) : k = OtherPlace(i, m)
  BY <1>9, <1>10, Interleaved
<1>12. /\ m \in Nat /\ m <= Len(a) /\ m <= Len(b)
       /\ (m = Len(a) \/ m = Len(b))
  BY <1>7 DEF Shorter
<1> HIDE DEF m
<1>13. \A p \in DOMAIN fam : \E i \in DOMAIN o : o[i] = p
  <2>1. ASSUME NEW p \in 1..n PROVE \E i \in DOMAIN o : o[i] = p
    <3>1. CASE fam[p] \in first
      BY <1>8, <1>11, <3>1
    <3>2. CASE fam[p] \in second
      BY <1>8, <1>11, <3>2
    <3> QED BY <1>3, <3>1, <3>2
  <2> QED BY <1>1, <2>1
<1>14. \A i \in DOMAIN o : o[i] \in DOMAIN fam
  BY <1>1, <1>7, <1>11
<1>15. o[1] = 1
  <2>1. fam[1] \in first
    BY DEF first
  <2>2. PICK i \in 1..Len(a) : a[i] = 1
    BY <1>1, <1>8, <2>1
  <2>3. 1 \in 1..Len(a) /\ (i = 1 \/ 1 < i)
    BY <1>7
  <2>4. ~(a[1] < 1)
    BY <1>7, <2>3
  <2>5. a[1] = 1
    BY <1>8, <2>2, <2>3, <2>4
  <2>6. LeadPlace(1, m) = 1
    BY <1>12 DEF LeadPlace
  <2> QED BY <1>11, <2>3, <2>5, <2>6
<1>16. ASSUME NEW k \in DOMAIN o
       PROVE  \/ /\ fam[o[k]] \in first
                 /\ \E x \in 1..Len(a) : k = LeadPlace(x, m)
              \/ /\ fam[o[k]] \in second
                 /\ \E x \in 1..Len(b) : k = OtherPlace(x, m)
  <2>1. ASSUME NEW x \in 1..Len(a), k = LeadPlace(x, m)
        PROVE  fam[o[k]] \in first
    BY <1>8, <1>11, <2>1
  <2>2. ASSUME NEW x \in 1..Len(b), k = OtherPlace(x, m)
        PROVE  fam[o[k]] \in second
    BY <1>8, <1>11, <2>2
  <2> QED BY <1>11, <1>16, <2>1, <2>2
<1>17. ASSUME NEW k \in DOMAIN o
       PROVE  fam[o[k]] \in first <=> fam[o[k]] \notin second
  BY <1>1, <1>3, <1>14, <1>17
<1>18. ASSUME NEW i \in DOMAIN o, NEW j \in DOMAIN o,
              i < j, fam[o[i]] = fam[o[j]]
       PROVE  /\ o[i] < o[j]
              /\ j = i + 1 => \A k \in DOMAIN o :
                   k > j => fam[o[k]] = fam[o[j]]
  <2>1. CASE fam[o[j]] \in first
    <3>1. PICK x \in 1..Len(a) : i = LeadPlace(x, m)
      BY <1>18, <1>16, <1>17, <2>1
    <3>2. PICK y \in 1..Len(a) : j = LeadPlace(y, m)
      BY <1>16, <1>17, <2>1
    <3>3. x \in Nat /\ y \in Nat
      BY <1>7
    <3>4. x < y /\ (j = i + 1 => m < y)
      BY <1>12, <1>18, <3>1, <3>2, <3>3, PlacesGrow
    <3>5. o[i] < o[j]
      BY <1>8, <1>11, <3>1, <3>2, <3>4
    <3>6. ASSUME j = i + 1, NEW k \in DOMAIN o, k > j
          PROVE  fam[o[k]] \in first
      <4>1. m < y /\ m = Len(b)
        BY <1>7, <1>12, <3>3, <3>4, <3>6
      <4>2. ASSUME NEW z \in 1..Len(b), k = OtherPlace(z, m) PROVE FALSE
        <5>1. z \in Nat /\ z <= m
          BY <1>7, <4>1, <4>2
        <5>2. OtherPlace(z, m) < LeadPlace(y, m)
          BY <1>12, <3>3, <4>1, <5>1, PlacesGrow
        <5>3. k \in Nat /\ j \in Nat
          BY <1>7, <1>11, <1>18, <3>6
        <5> QED BY <3>2, <3>6, <4>2, <5>2, <5>3
      <4>3. PICK z \in 1..Len(a) : k = LeadPlace(z, m)
        BY <1>11, <3>6, <4>2
      <4> QED BY <1>8, <1>11, <4>3
    <3>7. \A f, g \in first : f = g
      BY DEF first
    <3> QED BY <2>1, <3>5, <3>6, <3>7
  <2>2. CASE fam[o[j]] \in second
    <3>1. PICK x \in 1..Len(b) : i = OtherPlace(x, m)
      BY <1>18, <1>16, <1>17, <2>2
    <3>2. PICK y \in 1..Len(b) : j = OtherPlace(y, m)
      BY <1>16, <1>17, <2>2
    <3>3. x \in Nat /\ y \in Nat
      BY <1>7
    <3>4. x < y /\ (j = i + 1 => m < y)
      BY <1>12, <1>18, <3>1, <3>2, <3>3, PlacesGrow
    <3>5. o[i] < o[j]
      BY <1>8, <1>11, <3>1, <3>2, <3>4
    <3>6. ASSUME j = i + 1, NEW k \in DOMAIN o, k > j
          PROVE  fam[o[k]] \in second
      <4>1. m < y /\ m = Len(a)
        BY <1>7, <1>12, <3>3, <3>4, <3>6
      <4>2. ASSUME NEW z \in 1..Len(a), k = LeadPlace(z, m) PROVE FALSE
        <5>1. z \in Nat /\ z <= m
          BY <1>7, <4>1, <4>2
        <5>2. LeadPlace(z, m) < OtherPlace(y, m)
          BY <1>12, <3>3, <4>1, <5>1, PlacesGrow
        <5>3. k \in Nat /\ j \in Nat
          BY <1>7, <1>11, <1>18, <3>6
        <5> QED BY <3>2, <3>6, <4>2, <5>2, <5>3
      <4>3. PICK z \in 1..Len(b) : k = OtherPlace(z, m)
        BY <1>11, <3>6, <4>2
      <4> QED BY <1>8, <1>11, <4>3
    <3> QED BY <1>4, <2>2, <3>5, <3>6
  <2>3. fam[o[j]] \in first \/ fam[o[j]] \in second
    BY <1>1, <1>3, <1>14
  <2> QED BY <2>1, <2>2, <2>3
<1>19. Len(o) = Len(fam) /\ DOMAIN o = 1..Len(fam)
  BY <1>6, <1>11 DEF n
<1> QED BY <1>13, <1>14, <1>15, <1>18, <1>19 DEF Alternating

-----------------------------------------------------------------------------
(* The dial.                                                                *)

\* What every stage knows of the addresses.
DialTypeOK ==
    /\ stage \in {"lookup", "tcp", "upgrade", "over"}
    /\ family \in Seq(Families)
    /\ waiting \in Seq(Addresses) /\ flight \in Seq(Addresses)
    /\ failed \subseteq Addresses
    /\ order = InterleaveFamilies(family)
    /\ slept \in 0..Stagger /\ trying \in Nat

\* Nothing is known before the lookup is done; afterwards an address waits, is
\* in flight or has failed, and nobody waits twice.
AddressesKept ==
    /\ stage = "lookup" => /\ family = <<>> /\ failed = {}
                           /\ flight = <<>> /\ trying = 0
    /\ stage \in {"lookup", "tcp"} => winner = 0
    /\ stage = "upgrade" => winner # 0
    /\ stage = "tcp" =>
         \A p \in Addresses : \/ \E i \in DOMAIN waiting : waiting[i] = p
                              \/ \E i \in DOMAIN flight : flight[i] = p
                              \/ p \in failed
    /\ \A i, j \in DOMAIN waiting : waiting[i] = waiting[j] => i = j

\* Each start pays for one stagger; what the sleep has taken is part of it.
PaceKept ==
    stage = "tcp" =>
      \/ waiting = <<>>
      \/ top /\ trying <= Cardinality(Started) * Stagger
      \/ ~top /\ trying + Stagger <= Cardinality(Started) * Stagger + slept

DialInv ==
    /\ DialTypeOK /\ AddressesKept /\ PaceKept /\ FailsOnlyWhenAllFailed

\* What is left of the attempts in flight when one ends is the others.
LEMMA WithoutKeeps ==
    ASSUME NEW S, flight \in Seq(S), NEW i \in DOMAIN flight
    PROVE  /\ Without(i) \in Seq(S)
           /\ \A j \in DOMAIN flight :
                j # i => \E k \in DOMAIN Without(i) : Without(i)[k] = flight[j]
<1> DEFINE l == Len(flight)
           s == SubSeq(flight, 1, i - 1)
           t == SubSeq(flight, i + 1, l)
<1>1. l \in Nat /\ DOMAIN flight = 1..l /\ i \in 1..l
  BY LenProperties
<1>2. \A j \in 1..l : flight[j] \in S
  BY <1>1, ElementOfSeq
<1>3. /\ s \in Seq(S) /\ Len(s) = i - 1
      /\ \A j \in 1..(i - 1) : s[j] = flight[j]
  <2>1. 1 \in Int /\ i - 1 \in Int /\ \A j \in 1..(i - 1) : flight[j] \in S
    BY <1>1, <1>2
  <2>2. /\ s \in Seq(S)
        /\ Len(s) = IF 1 <= i - 1 THEN (i - 1) - 1 + 1 ELSE 0
        /\ \A j \in 1..Len(s) : s[j] = flight[1 + j - 1]
    BY <2>1, SubSeqProperties
  <2>3. Len(s) = i - 1
    BY <1>1, <2>2
  <2>4. \A j \in 1..(i - 1) : 1 + j - 1 = j
    BY <1>1
  <2> QED BY <2>2, <2>3, <2>4
<1>4. /\ t \in Seq(S) /\ Len(t) = l - i
      /\ \A j \in 1..(l - i) : t[j] = flight[i + j]
  <2>1. i + 1 \in Int /\ l \in Int /\ \A j \in (i + 1)..l : flight[j] \in S
    BY <1>1, <1>2
  <2>2. /\ t \in Seq(S)
        /\ Len(t) = IF i + 1 <= l THEN l - (i + 1) + 1 ELSE 0
        /\ \A j \in 1..Len(t) : t[j] = flight[(i + 1) + j - 1]
    BY <2>1, SubSeqProperties
  <2>3. Len(t) = l - i
    BY <1>1, <2>2
  <2>4. \A j \in 1..(l - i) : (i + 1) + j - 1 = i + j
    BY <1>1
  <2> QED BY <2>2, <2>3, <2>4
<1>5. Without(i) = s \o t
  BY DEF Without
<1> HIDE DEF s, t
<1>6. /\ s \o t \in Seq(S) /\ Len(s \o t) = Len(s) + Len(t)
      /\ \A j \in 1..(Len(s) + Len(t)) :
           (s \o t)[j] = IF j <= Len(s) THEN s[j] ELSE t[j - Len(s)]
  BY <1>3, <1>4, ConcatProperties
<1>7. DOMAIN (s \o t) = 1..(l - 1)
  <2>1. \A x, y \in Nat : (x - 1) + (y - x) = y - 1
    OBVIOUS
  <2>2. Len(s \o t) = l - 1
    BY <1>1, <1>3, <1>4, <1>6, <2>1
  <2> QED BY <1>6, <2>2, LenProperties
<1>8. ASSUME NEW j \in 1..l, j # i
      PROVE  \E k \in DOMAIN (s \o t) : (s \o t)[k] = flight[j]
  <2>1. CASE j < i
    <3>1. j \in 1..(l - 1) /\ j \in 1..(i - 1) /\ j <= i - 1
      BY <1>1, <2>1
    <3>2. j \in 1..(Len(s) + Len(t)) /\ j <= Len(s)
      BY <1>1, <1>3, <1>4, <3>1
    <3> QED BY <1>3, <1>6, <1>7, <3>1, <3>2
  <2>2. CASE j > i
    <3>1. /\ j - 1 \in 1..(l - 1) /\ ~(j - 1 <= i - 1)
          /\ (j - 1) - (i - 1) = j - i /\ j - i \in 1..(l - i)
          /\ i + (j - i) = j
      BY <1>1, <1>8, <2>2
    <3>2. j - 1 \in 1..(Len(s) + Len(t)) /\ ~(j - 1 <= Len(s))
      BY <1>1, <1>3, <1>4, <3>1
    <3>3. (s \o t)[j - 1] = flight[j]
      <4>1. (s \o t)[j - 1] = t[(j - 1) - Len(s)]
        BY <1>6, <3>2
      <4>2. (s \o t)[j - 1] = t[j - i]
        BY <1>3, <3>1, <4>1
      <4> QED BY <1>4, <3>1, <4>2
    <3> QED BY <1>7, <3>1, <3>3
  <2> QED BY <1>1, <1>8, <2>1, <2>2
<1> QED BY <1>1, <1>5, <1>6, <1>8

\* An answer is a sequence of families; with none there is nothing to order.
LEMMA AnswersAre ==
    /\ \A fam \in Answers : fam \in Seq(Families)
    /\ InterleaveFamilies(<<>>) = <<>>
<1>1. \A fam \in Answers : fam \in Seq(Families)
  <2>1. ASSUME NEW n \in 0..MaxAddrs, NEW fam \in [1..n -> Families]
        PROVE  fam \in Seq(Families)
    <3>1. n \in Nat
      BY DialAssumption
    <3>2. fam = [i \in 1..n |-> fam[i]] /\ \A i \in 1..n : fam[i] \in Families
      OBVIOUS
    <3>3. [i \in 1..n |-> fam[i]] \in Seq(Families)
      BY <3>1, <3>2, IsASeq
    <3> QED BY <3>2, <3>3
  <2> QED BY <2>1 DEF Answers
<1> QED BY <1>1 DEF InterleaveFamilies

\* The order has the addresses as its elements, each once.
LEMMA OrderOfAll ==
    ASSUME NEW fam \in Seq(Families), NEW o, o = InterleaveFamilies(fam)
    PROVE  /\ o \in Seq(DOMAIN fam)
           /\ \A p \in DOMAIN fam : \E i \in DOMAIN o : o[i] = p
           /\ \A i, j \in DOMAIN o : o[i] = o[j] => i = j
<1>1. CASE fam = <<>>
  <2>1. o = <<>> /\ DOMAIN fam = {} /\ DOMAIN o = {}
    BY <1>1, AnswersAre
  <2> QED BY <2>1, EmptySeq
<1>2. CASE fam # <<>>
  <2>1. /\ Len(o) = Len(fam) /\ DOMAIN o = 1..Len(fam)
        /\ \A p \in DOMAIN fam : \E i \in DOMAIN o : o[i] = p
        /\ \A i \in DOMAIN o : o[i] \in DOMAIN fam
        /\ \A i, j \in DOMAIN o :
             i < j /\ fam[o[i]] = fam[o[j]] => o[i] < o[j]
    BY <1>2, Alternates DEF Alternating
  <2>2. Len(fam) \in Nat /\ DOMAIN fam = 1..Len(fam)
    BY LenProperties
  <2>3. o \in Seq(DOMAIN fam)
    <3>1. o \in Seq(Nat)
      <4>1. /\ \A i \in 1..Len(fam) : o[i] \in 1..Len(fam)
        BY <2>1, <2>2
      <4>2. Lead(fam) \in Seq(Nat) /\ Other(fam) \in Seq(Nat)
        BY <2>2, HalfInNat DEF Lead, Other
      <4>3. /\ Pairs(Lead(fam), Other(fam)) \in Seq(Nat)
            /\ Rest(Lead(fam), Other(fam)) \in Seq(Nat)
        BY <4>2, PairPlaces, RestPlaces
      <4>4. o = Pairs(Lead(fam), Other(fam)) \o Rest(Lead(fam), Other(fam))
        BY <1>2 DEF InterleaveFamilies
      <4> QED BY <4>3, <4>4, ConcatProperties
    <3>2. o = [i \in 1..Len(fam) |-> o[i]]
      BY <2>1, <3>1, LenProperties
    <3>3. [i \in 1..Len(fam) |-> o[i]] \in Seq(DOMAIN fam)
      BY <2>1, <2>2, IsASeq
    <3> QED BY <3>2, <3>3
  <2>4. ASSUME NEW i \in DOMAIN o, NEW j \in DOMAIN o, o[i] = o[j], i # j
        PROVE  FALSE
    <3>1. i < j \/ j < i
      BY <2>1, <2>2, <2>4
    <3>2. ~(o[i] < o[j]) /\ ~(o[j] < o[i])
      BY <2>1, <2>2, <2>4
    <3> QED BY <2>1, <2>4, <3>1, <3>2
  <2> QED BY <2>1, <2>3, <2>4
<1> QED BY <1>1, <1>2

LEMMA DialInvInit == Init => DialInv
<1> SUFFICES ASSUME Init PROVE DialInv
  OBVIOUS
<1>1. DialTypeOK
  BY AnswersAre, EmptySeq, DialAssumption DEF Init, DialTypeOK, Addresses
<1>2. AddressesKept
  BY EmptySeq DEF Init, AddressesKept
<1> QED BY <1>1, <1>2 DEF Init, DialInv, PaceKept, FailsOnlyWhenAllFailed

\* Every step keeps the types.
LEMMA DialTypeKept == DialInv /\ [Next]_vars => DialTypeOK'
<1> SUFFICES ASSUME DialInv, [Next]_vars PROVE DialTypeOK'
  OBVIOUS
<1> USE DEF DialInv, DialTypeOK, Addresses
<1>1. ASSUME NEW fam \in Answers, LookupDone(fam) PROVE DialTypeOK'
  <2>1. fam \in Seq(Families) /\ order' \in Seq(DOMAIN fam)
    BY <1>1, AnswersAre, OrderOfAll DEF LookupDone
  <2>2. <<>> \in Seq(DOMAIN fam)
    BY EmptySeq
  <2> QED BY <1>1, <2>1, <2>2 DEF LookupDone, AddressesKept
<1>2. CASE LookupFails \/ UpgradeDone \/ Deadline
  BY <1>2 DEF LookupFails, UpgradeDone, Deadline, tcpVars
<1>3. CASE StartNext
  <2>1. /\ waiting # <<>> => /\ Head(waiting) \in Addresses
                             /\ Tail(waiting) \in Seq(Addresses)
    BY HeadTailProperties
  <2>2. waiting' \in Seq(Addresses) /\ flight' \in Seq(Addresses)
    BY <1>3, <2>1, AppendProperties DEF StartNext
  <2>3. 0 \in 0..Stagger
    BY DialAssumption
  <2> QED BY <1>3, <2>2, <2>3 DEF StartNext
<1>4. ASSUME NEW a \in 1..MaxAddrs, AttemptConnects(a) PROVE DialTypeOK'
  BY <1>4, EmptySeq DEF AttemptConnects
<1>5. ASSUME NEW a \in 1..MaxAddrs, AttemptFails(a) PROVE DialTypeOK'
  <2>1. PICK i \in DOMAIN flight : flight[i] = a /\ flight' = Without(i)
    BY <1>5 DEF AttemptFails
  <2>2. flight' \in Seq(Addresses)
    BY <2>1, WithoutKeeps
  <2>3. a \in Addresses
    BY <2>1, LenProperties, ElementOfSeq
  <2> QED BY <1>5, <2>2, <2>3 DEF AttemptFails
<1>6. CASE StaggerOver
  BY <1>6 DEF StaggerOver
<1>7. CASE Tick
  <2>1. slept' \in 0..Stagger /\ trying' \in Nat
    BY <1>7, DialAssumption DEF Tick
  <2> QED BY <1>7, <2>1 DEF Tick
<1>8. CASE UNCHANGED vars
  BY <1>8 DEF vars, tcpVars
<1> QED
  BY <1>1, <1>2, <1>3, <1>4, <1>5, <1>6, <1>7, <1>8 DEF Next, Over

\* Every step keeps account of every address.
LEMMA AddressesStayKept == DialInv /\ [Next]_vars => AddressesKept'
<1> SUFFICES ASSUME DialInv, [Next]_vars PROVE AddressesKept'
  OBVIOUS
<1> USE DEF DialInv, AddressesKept
<1>1. ASSUME NEW fam \in Answers, LookupDone(fam) PROVE AddressesKept'
  <2>1. /\ \A p \in DOMAIN fam : \E i \in DOMAIN order' : order'[i] = p
        /\ \A i, j \in DOMAIN order' : order'[i] = order'[j] => i = j
    BY <1>1, AnswersAre, OrderOfAll DEF LookupDone
  <2> QED BY <1>1, <2>1 DEF LookupDone, Addresses
<1>2. CASE LookupFails \/ UpgradeDone \/ Deadline
  BY <1>2 DEF LookupFails, UpgradeDone, Deadline, tcpVars, Addresses
<1>3. CASE StartNext
  <2>1. CASE waiting = <<>>
    BY <1>3, <2>1 DEF StartNext, Addresses
  <2>2. CASE waiting # <<>>
    <3> DEFINE l == Len(waiting)
    <3>1. /\ l \in Nat /\ l # 0 /\ DOMAIN waiting = 1..l
          /\ Head(waiting) = waiting[1]
          /\ Len(Tail(waiting)) = l - 1
          /\ Tail(waiting) \in Seq(Addresses)
          /\ \A i \in 1..(l - 1) : Tail(waiting)[i] = waiting[i + 1]
      BY <2>2, LenProperties, HeadTailProperties, EmptySeq DEF DialTypeOK
    <3>2. DOMAIN Tail(waiting) = 1..(l - 1)
      BY <3>1, LenProperties
    <3>3. /\ flight' = Append(flight, waiting[1]) /\ waiting' = Tail(waiting)
          /\ stage = "tcp" /\ failed' = failed
          /\ UNCHANGED <<family, winner>>
      BY <1>3, <2>2, <3>1 DEF StartNext
    <3>4. /\ Len(flight) \in Nat /\ DOMAIN flight = 1..Len(flight)
          /\ Len(flight') = Len(flight) + 1
          /\ flight'[Len(flight) + 1] = waiting[1]
          /\ \A i \in 1..Len(flight) : flight'[i] = flight[i]
          /\ DOMAIN flight' = 1..(Len(flight) + 1)
      <4>1. waiting[1] \in Addresses
        BY <3>1, ElementOfSeq DEF DialTypeOK
      <4> QED BY <3>3, <4>1, AppendProperties, LenProperties DEF DialTypeOK
    <3>5. stage' = "tcp"
      <4>1. flight' # <<>>
        BY <3>4, EmptySeq
      <4> QED BY <1>3, <3>3, <4>1 DEF StartNext
    <3> HIDE DEF l
    <3>6. ASSUME NEW p \in Addresses
          PROVE  \/ \E i \in DOMAIN waiting' : waiting'[i] = p
                 \/ \E i \in DOMAIN flight' : flight'[i] = p
                 \/ p \in failed'
      <4>1. CASE p \in failed
        BY <3>3, <4>1
      <4>2. CASE \E i \in DOMAIN flight : flight[i] = p
        <5>1. PICK i \in 1..Len(flight) : flight[i] = p
          BY <3>4, <4>2
        <5>2. i \in DOMAIN flight' /\ flight'[i] = p
          BY <3>4, <5>1
        <5> QED BY <5>2
      <4>3. CASE \E i \in DOMAIN waiting : waiting[i] = p
        <5>1. PICK i \in 1..l : waiting[i] = p
          BY <3>1, <4>3
        <5>2. CASE i = 1
          <6>1. Len(flight) + 1 \in DOMAIN flight'
            BY <3>4
          <6> QED BY <3>4, <5>1, <5>2, <6>1
        <5>3. CASE i # 1
          <6>1. i - 1 \in 1..(l - 1) /\ (i - 1) + 1 = i
            BY <3>1, <5>3
          <6>2. waiting'[i - 1] = waiting[i] /\ i - 1 \in DOMAIN waiting'
            BY <3>1, <3>2, <3>3, <6>1
          <6> QED BY <5>1, <6>2
        <5> QED BY <5>2, <5>3
      <4> QED BY <3>3, <4>1, <4>2, <4>3
    <3>7. ASSUME NEW i \in DOMAIN waiting', NEW j \in DOMAIN waiting',
                 waiting'[i] = waiting'[j]
          PROVE  i = j
      <4>1. i \in 1..(l - 1) /\ j \in 1..(l - 1)
        BY <3>2, <3>3, <3>7
      <4>2. i + 1 \in 1..l /\ j + 1 \in 1..l
        BY <3>1, <4>1
      <4>3. i + 1 = j + 1
        BY <3>1, <3>3, <3>7, <4>1, <4>2
      <4> QED BY <4>1, <4>3
    <3> QED BY <3>3, <3>5, <3>6, <3>7 DEF Addresses
  <2> QED BY <2>1, <2>2
<1>4. ASSUME NEW a \in 1..MaxAddrs, AttemptConnects(a) PROVE AddressesKept'
  <2>1. winner' # 0
    BY <1>4, DialAssumption DEF AttemptConnects
  <2> QED BY <1>4, <2>1 DEF AttemptConnects
<1>5. ASSUME NEW a \in 1..MaxAddrs, AttemptFails(a) PROVE AddressesKept'
  <2>1. PICK i \in DOMAIN flight : flight[i] = a /\ flight' = Without(i)
    BY <1>5 DEF AttemptFails
  <2>2. \A j \in DOMAIN flight :
          j # i => \E k \in DOMAIN flight' : flight'[k] = flight[j]
    BY <2>1, WithoutKeeps DEF DialTypeOK
  <2>3. ASSUME NEW p \in Addresses
        PROVE  \/ \E k \in DOMAIN waiting : waiting[k] = p
               \/ \E k \in DOMAIN flight' : flight'[k] = p
               \/ p \in failed'
    <3>1. CASE \E j \in DOMAIN flight : flight[j] = p
      BY <1>5, <2>1, <2>2, <3>1 DEF AttemptFails
    <3>2. CASE ~\E j \in DOMAIN flight : flight[j] = p
      BY <1>5, <3>2 DEF AttemptFails
    <3> QED BY <3>1, <3>2
  <2> QED BY <1>5, <2>3 DEF AttemptFails, Addresses
<1>6. CASE StaggerOver
  BY <1>6 DEF StaggerOver, Addresses
<1>7. CASE Tick
  BY <1>7 DEF Tick, Addresses
<1>8. CASE UNCHANGED vars
  BY <1>8 DEF vars, tcpVars, Addresses
<1> QED
  BY <1>1, <1>2, <1>3, <1>4, <1>5, <1>6, <1>7, <1>8 DEF Next, Over

\* Some of the addresses are a count.
LEMMA SomeCounted ==
    ASSUME NEW F, NEW fam \in Seq(F), NEW T \in SUBSET DOMAIN fam
    PROVE  IsFiniteSet(T) /\ Cardinality(T) \in Nat
<1>1. Len(fam) \in Nat /\ DOMAIN fam = 1..Len(fam)
  BY LenProperties
<1>2. IsFiniteSet(DOMAIN fam)
  BY <1>1, FS_Interval
<1> QED BY <1>2, FS_Subset, FS_CardinalityType

\* The addresses started are.
LEMMA StartedCount ==
    ASSUME DialTypeOK
    PROVE  IsFiniteSet(Started) /\ Cardinality(Started) \in Nat
<1>1. Started \in SUBSET DOMAIN family
  BY DEF Started, Addresses
<1> QED BY <1>1, SomeCounted DEF DialTypeOK

\* One of those waiting is started at the top of the loop.
LEMMA OneMoreStarted ==
    ASSUME DialTypeOK, AddressesKept, StartNext, waiting # <<>>
    PROVE  Cardinality(Started') = Cardinality(Started) + 1
<1> DEFINE l == Len(waiting)
<1>1. /\ l \in Nat /\ l # 0 /\ DOMAIN waiting = 1..l
      /\ Len(Tail(waiting)) = l - 1
      /\ Tail(waiting) \in Seq(Addresses)
      /\ \A i \in 1..(l - 1) : Tail(waiting)[i] = waiting[i + 1]
  BY LenProperties, HeadTailProperties, EmptySeq DEF DialTypeOK
<1>2. DOMAIN Tail(waiting) = 1..(l - 1)
  BY <1>1, LenProperties
<1>3. waiting' = Tail(waiting) /\ family' = family
  BY DEF StartNext
<1>4. waiting[1] \in Addresses /\ 1 \in 1..l
  BY <1>1, ElementOfSeq DEF DialTypeOK
<1> HIDE DEF l
<1>5. \A p : (\E i \in DOMAIN waiting' : waiting'[i] = p)
               <=> (p # waiting[1] /\ \E i \in DOMAIN waiting : waiting[i] = p)
  <2>1. ASSUME NEW i \in DOMAIN waiting'
        PROVE  /\ waiting'[i] # waiting[1]
               /\ \E j \in DOMAIN waiting : waiting[j] = waiting'[i]
    <3>1. i \in 1..(l - 1) /\ i + 1 \in 1..l /\ i + 1 # 1
      BY <1>1, <1>2, <1>3, <2>1
    <3>2. waiting'[i] = waiting[i + 1]
      BY <1>1, <1>3, <3>1
    <3> QED BY <1>1, <1>4, <3>1, <3>2 DEF AddressesKept
  <2>2. ASSUME NEW i \in DOMAIN waiting, waiting[i] # waiting[1]
        PROVE  \E j \in DOMAIN waiting' : waiting'[j] = waiting[i]
    <3>1. i \in 1..l /\ i # 1
      BY <1>1, <2>2
    <3>2. i - 1 \in 1..(l - 1) /\ (i - 1) + 1 = i
      BY <1>1, <3>1
    <3>3. waiting'[i - 1] = waiting[i] /\ i - 1 \in DOMAIN waiting'
      BY <1>1, <1>2, <1>3, <3>2
    <3> QED BY <3>3
  <2> QED BY <2>1, <2>2
<1>6. Started' = Started \cup {waiting[1]}
  <2>1. \A p : p \in Started <=>
          p \in Addresses /\ ~\E i \in DOMAIN waiting : waiting[i] = p
    BY DEF Started
  <2>2. \A p : p \in Started' <=>
          p \in Addresses' /\ ~\E i \in DOMAIN waiting' : waiting'[i] = p
    BY DEF Started
  <2>3. Addresses' = Addresses
    BY <1>3 DEF Addresses
  <2> QED BY <1>4, <1>5, <2>1, <2>2, <2>3
<1>7. waiting[1] \notin Started
  BY <1>1, <1>4 DEF Started
<1> QED BY <1>6, <1>7, StartedCount, FS_AddElement

\* Every step keeps the pace.
LEMMA PaceStaysKept == DialInv /\ [Next]_vars => PaceKept'
<1> SUFFICES ASSUME DialInv, [Next]_vars PROVE PaceKept'
  OBVIOUS
<1> USE DEF DialInv
<1> DEFINE n == Cardinality(Started)
<1>1. n \in Nat /\ Stagger \in Nat /\ trying \in Nat /\ slept \in Nat
      /\ n * Stagger \in Nat /\ slept <= Stagger
  <2>1. n \in Nat /\ Stagger \in Nat /\ trying \in Nat /\ slept \in Nat
        /\ slept <= Stagger
    BY StartedCount, DialAssumption DEF DialTypeOK
  <2> QED BY <2>1
<1>2. UNCHANGED <<family, waiting>> => Started' = Started
  BY DEF Started, Addresses
<1> HIDE DEF n
<1>3. ASSUME NEW fam \in Answers, LookupDone(fam) PROVE PaceKept'
  <2>1. top' /\ trying' = 0
    BY <1>3 DEF LookupDone, AddressesKept
  <2>2. order' \in Seq(DOMAIN fam) /\ fam \in Seq(Families)
    BY <1>3, AnswersAre, OrderOfAll DEF LookupDone
  <2>3. family' = fam /\ Started' \in SUBSET DOMAIN family'
    BY <1>3 DEF LookupDone, Started, Addresses
  <2>4. Cardinality(Started)' \in Nat
    BY <2>2, <2>3, SomeCounted
  <2>5. 0 <= Cardinality(Started)' * Stagger
    BY <1>1, <2>4
  <2> QED BY <2>1, <2>5 DEF PaceKept
<1>4. CASE LookupFails \/ UpgradeDone \/ Deadline
  BY <1>4 DEF LookupFails, UpgradeDone, Deadline, PaceKept
<1>5. CASE StartNext
  <2>1. CASE waiting = <<>>
    BY <1>5, <2>1 DEF StartNext, PaceKept
  <2>2. CASE waiting # <<>>
    <3>1. Cardinality(Started)' = n + 1
      BY <1>5, <2>2, OneMoreStarted DEF n
    <3>2. trying <= n * Stagger
      BY <1>5, <2>2 DEF StartNext, PaceKept, n
    <3>3. ~top' /\ slept' = 0 /\ trying' = trying
      BY <1>5 DEF StartNext
    <3>4. trying + Stagger <= (n + 1) * Stagger + 0
      <4>1. (n + 1) * Stagger = n * Stagger + Stagger
        BY <1>1
      <4> QED BY <1>1, <3>2, <4>1
    <3> QED BY <3>1, <3>3, <3>4 DEF PaceKept
  <2> QED BY <2>1, <2>2
<1>6. ASSUME NEW a \in 1..MaxAddrs, AttemptConnects(a) PROVE PaceKept'
  BY <1>6 DEF AttemptConnects, PaceKept
<1>7. CASE StaggerOver \/ \E a \in 1..MaxAddrs : AttemptFails(a)
  <2>1. /\ top' /\ trying' = trying /\ waiting' = waiting /\ family' = family
        /\ stage = "tcp" /\ ~top
    BY <1>7 DEF StaggerOver, AttemptFails
  <2>2. waiting = <<>> \/ trying + Stagger <= n * Stagger + slept
    BY <2>1 DEF PaceKept, n
  <2>3. waiting = <<>> \/ trying <= n * Stagger
    BY <1>1, <2>2
  <2>4. Cardinality(Started)' = n
    BY <1>2, <2>1 DEF n
  <2> QED BY <2>1, <2>3, <2>4 DEF PaceKept
<1>8. CASE Tick
  <2>1. CASE stage = "tcp" /\ waiting # <<>>
    <3>1. /\ trying' = trying + 1 /\ slept' = slept + 1 /\ ~top /\ ~top'
          /\ UNCHANGED <<family, waiting>>
      BY <1>8, <2>1 DEF Tick
    <3>2. trying + Stagger <= n * Stagger + slept
      BY <2>1, <3>1 DEF PaceKept, n
    <3>3. (trying + 1) + Stagger <= n * Stagger + (slept + 1)
      BY <1>1, <3>2
    <3>4. Cardinality(Started)' = n
      BY <1>2, <3>1 DEF n
    <3> QED BY <3>1, <3>3, <3>4 DEF PaceKept
  <2>2. CASE stage # "tcp" \/ waiting = <<>>
    BY <1>8, <2>2 DEF Tick, PaceKept
  <2> QED BY <2>1, <2>2
<1>9. CASE UNCHANGED vars
  <2>1. UNCHANGED <<stage, family, waiting, top, trying, slept>>
    BY <1>9 DEF vars, tcpVars
  <2> QED BY <1>2, <2>1 DEF PaceKept
<1> QED
  BY <1>3, <1>4, <1>5, <1>6, <1>7, <1>8, <1>9 DEF Next, Over

\* No step gives up while an address is left.
LEMMA GivesUpLate == DialInv /\ [Next]_vars => FailsOnlyWhenAllFailed'
<1> SUFFICES ASSUME DialInv, [Next]_vars PROVE FailsOnlyWhenAllFailed'
  OBVIOUS
<1> USE DEF DialInv, FailsOnlyWhenAllFailed, Addresses
<1>1. ASSUME NEW fam \in Answers, LookupDone(fam)
      PROVE  FailsOnlyWhenAllFailed'
  BY <1>1 DEF LookupDone
<1>2. CASE LookupFails
  <2>1. DOMAIN <<>> = {}
    BY EmptySeq
  <2> QED BY <1>2, <2>1 DEF LookupFails, tcpVars, AddressesKept
<1>3. CASE UpgradeDone \/ Deadline
  BY <1>3 DEF UpgradeDone, Deadline, tcpVars, AddressesKept
<1>4. CASE StartNext
  <2>1. CASE flight' = <<>>
    <3>1. waiting = <<>> /\ flight = <<>>
      <4>1. \A x \in Addresses : Append(flight, x) # <<>>
        BY AppendProperties, EmptySeq DEF DialTypeOK
      <4>2. waiting # <<>> => Head(waiting) \in Addresses
        BY HeadTailProperties DEF DialTypeOK
      <4> QED BY <1>4, <2>1, <4>1, <4>2 DEF StartNext
    <3>2. DOMAIN waiting = {} /\ DOMAIN flight = {}
      BY <3>1, EmptySeq
    <3>3. failed = Addresses
      BY <1>4, <3>2 DEF StartNext, AddressesKept, DialTypeOK
    <3> QED BY <1>4, <3>3 DEF StartNext
  <2>2. CASE flight' # <<>>
    BY <1>4, <2>2 DEF StartNext
  <2> QED BY <2>1, <2>2
<1>5. CASE \E a \in 1..MaxAddrs : AttemptConnects(a) \/ AttemptFails(a)
  BY <1>5 DEF AttemptConnects, AttemptFails
<1>6. CASE StaggerOver
  BY <1>6 DEF StaggerOver
<1>7. CASE Tick
  BY <1>7 DEF Tick
<1>8. CASE UNCHANGED vars
  BY <1>8 DEF vars, tcpVars
<1> QED
  BY <1>1, <1>2, <1>3, <1>4, <1>5, <1>6, <1>7, <1>8 DEF Next, Over

\* The inductive invariant.
LEMMA DialInvHolds == Spec => []DialInv
<1>1. DialInv /\ [Next]_vars => DialInv'
  BY DialTypeKept, AddressesStayKept, PaceStaysKept, GivesUpLate DEF DialInv
<1> QED BY DialInvInit, <1>1, PTL DEF Spec

\* Whatever the resolver answers, every address is tried once, the two families
\* take turns from the first address on, and each keeps the resolver's order
\* (interleave_families).
THEOREM AddressesAlternate == Spec => []OrderAlternates
<1>1. DialInv => OrderAlternates
  <2>1. ASSUME DialTypeOK, family # <<>> PROVE OrderAlternates
    <3>1. family \in Seq(Families) /\ order = InterleaveFamilies(family)
      BY <2>1 DEF DialTypeOK
    <3>2. Alternating(family, order)
      BY <2>1, <3>1, Alternates
    <3> QED BY <3>2 DEF Alternating, OrderAlternates, Addresses
  <2> QED BY <2>1 DEF DialInv, OrderAlternates
<1> QED BY DialInvHolds, <1>1, PTL

\* After k staggers k + 1 addresses have been started, or all of them, however
\* many stay silent (connect_staggered).
THEOREM SilentHoldsNobodyBack == Spec => []NobodyHeldBack
<1>1. DialInv => NobodyHeldBack
  <2> SUFFICES ASSUME DialInv, stage = "tcp", ~top, waiting # <<>>,
                      slept # Stagger
               PROVE  Cardinality(Started) > trying \div Stagger
    BY DEF NobodyHeldBack
  <2> DEFINE n == Cardinality(Started)
  <2>1. /\ n \in Nat /\ Stagger \in Nat \ {0} /\ trying \in Nat
        /\ slept \in Nat /\ slept < Stagger
    BY StartedCount, DialAssumption DEF DialInv, DialTypeOK
  <2>2. trying + Stagger <= n * Stagger + slept
    BY DEF DialInv, PaceKept
  <2> HIDE DEF n
  <2>3. trying < n * Stagger
    <3>1. n * Stagger \in Nat
      BY <2>1
    <3> QED BY <2>1, <2>2, <3>1
  <2>4. trying \div Stagger < n
    <3>1. \A k, t, s \in Nat : t # 0 /\ s < k * t => s \div t < k
      OBVIOUS
    <3> QED BY <2>1, <2>3, <3>1
  <2> QED BY <2>1, <2>4 DEF n
<1> QED BY DialInvHolds, <1>1, PTL

\* The TCP stage gives up before the deadline only when every address has
\* failed (connect_staggered).
THEOREM GivesUpWhenAllFailed == Spec => []FailsOnlyWhenAllFailed
<1>1. DialInv => FailsOnlyWhenAllFailed
  BY DEF DialInv
<1> QED BY DialInvHolds, <1>1, PTL
=============================================================================
