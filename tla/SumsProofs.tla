----------------------------- MODULE SumsProofs ------------------------------
(***************************************************************************)
(* What Total gives, from the well-foundedness of the naturals: induction  *)
(* in a form whose predicate is a set, the recursion that Total unfolds,   *)
(* and what a number more, one changed or one taken out does to a total.   *)
(***************************************************************************)
EXTENDS Sums, Integers, WellFoundedInduction, TLAPS

\* A set of naturals has a least.
LEMMA Least ==
    ASSUME NEW T \in SUBSET Nat, T # {}
    PROVE  \E x \in T : \A y \in T : x <= y
<1>1. IsWellFoundedOn(OpToRel(<, Nat), Nat)
  BY NatLessThanWellFounded, Zenon
<1>2. PICK x \in T : \A y \in T : ~(<<y, x>> \in OpToRel(<, Nat))
  BY <1>1, WFMin, Zenon
<1>3. \A y \in T : ~(y < x)
  BY <1>2 DEF OpToRel
<1> QED
  BY <1>3

\* Induction.
LEMMA Induction ==
    ASSUME NEW T, 0 \in T, \A n \in Nat : n \in T => n + 1 \in T
    PROVE  Nat \subseteq T
<1> SUFFICES ASSUME Nat \ T # {} PROVE FALSE
  OBVIOUS
<1>1. PICK x \in Nat \ T : \A y \in Nat \ T : x <= y
  BY Least
<1>2. x # 0 /\ x - 1 \in Nat /\ x - 1 \in T
  BY <1>1
<1> QED
  BY <1>1, <1>2

\* Induction, as far as m.
LEMMA InductionUpTo ==
    ASSUME NEW m \in Nat, NEW T, 0 \in T, \A n \in 1 .. m : n - 1 \in T => n \in T
    PROVE  0 .. m \subseteq T
<1> DEFINE U == {n \in Nat : n <= m => n \in T}
<1>1. 0 \in U
  OBVIOUS
<1>2. ASSUME NEW n \in Nat, n \in U PROVE n + 1 \in U
  <2> SUFFICES ASSUME n + 1 <= m PROVE n + 1 \in T
    OBVIOUS
  <2>1. n \in T /\ n + 1 \in 1 .. m /\ (n + 1) - 1 = n
    BY <1>2
  <2> QED
    BY <2>1
<1> HIDE DEF U
<1>3. Nat \subseteq U
  BY <1>1, <1>2, Induction
<1> QED
  BY <1>3 DEF U

\* f starts from c, and goes on by d[n] to its value at n.
Solves(f, c, d) == f[0] = c /\ \A n \in Nat \ {0} : f[n] = d[n][f[n - 1]]

\* A recursion on the naturals has a solution.
LEMMA Recursion ==
    ASSUME NEW S, NEW c \in S, NEW d \in [Nat -> [S -> S]]
    PROVE  \E f \in [Nat -> S] : Solves(f, c, d)
<1> DEFINE Runs(m, f) == f[0] = c /\ \A n \in 1 .. m : f[n] = d[n][f[n - 1]]
           T == {m \in Nat : \E f \in [Nat -> S] : Runs(m, f)}
<1>1. 0 \in T
  <2>1. [n \in Nat |-> c] \in [Nat -> S] /\ Runs(0, [n \in Nat |-> c])
    OBVIOUS
  <2> QED
    BY <2>1
<1>2. ASSUME NEW m \in Nat, m \in T PROVE m + 1 \in T
  <2>1. PICK f \in [Nat -> S] : Runs(m, f)
    BY <1>2
  <2> DEFINE g == [f EXCEPT ![m + 1] = d[m + 1][f[m]]]
  <2>2. g \in [Nat -> S] /\ g[m + 1] = d[m + 1][f[m]] /\ \A n \in 0 .. m : g[n] = f[n]
    OBVIOUS
  <2> HIDE DEF g
  <2>3. Runs(m + 1, g)
    <3> SUFFICES ASSUME NEW n \in 1 .. m + 1 PROVE g[n] = d[n][g[n - 1]]
      BY <2>1, <2>2
    <3>1. CASE n = m + 1
      <4>1. n - 1 = m /\ m \in 0 .. m
        BY <3>1
      <4> QED
        BY <3>1, <4>1, <2>2
    <3>2. CASE n # m + 1
      <4>1. n \in 1 .. m /\ n \in 0 .. m /\ n - 1 \in 0 .. m
        BY <3>2
      <4> QED
        BY <4>1, <2>1, <2>2
    <3> QED
      BY <3>1, <3>2
  <2> QED
    BY <2>2, <2>3
<1>3. \A m \in Nat : \E f \in [Nat -> S] : Runs(m, f)
  <2> HIDE DEF T
  <2>1. Nat \subseteq T
    BY <1>1, <1>2, Induction
  <2> QED
    BY <2>1 DEF T
<1> DEFINE F == [m \in Nat |-> CHOOSE f \in [Nat -> S] : Runs(m, f)]
<1>4. \A m \in Nat : F[m] \in [Nat -> S] /\ Runs(m, F[m])
  <2> HIDE DEF Runs
  <2> QED BY <1>3
<1> HIDE DEF F
<1>5. ASSUME NEW m \in Nat PROVE F[m + 1][m] = F[m][m]
  <2> DEFINE U == {n \in Nat : F[m + 1][n] = F[m][n]}
  <2>1. 0 \in U
    BY <1>4
  <2>2. ASSUME NEW n \in 1 .. m, n - 1 \in U PROVE n \in U
    <3>1. n \in 1 .. m + 1 /\ n \in Nat
      OBVIOUS
    <3>2. F[m + 1][n] = d[n][F[m + 1][n - 1]] /\ F[m][n] = d[n][F[m][n - 1]]
      BY <1>4, <3>1
    <3> QED
      BY <2>2, <3>1, <3>2
  <2> HIDE DEF U
  <2>3. 0 .. m \subseteq U
    BY <2>1, <2>2, InductionUpTo
  <2> QED
    BY <2>3 DEF U
<1> DEFINE h == [n \in Nat |-> F[n][n]]
<1>6. h \in [Nat -> S] /\ h[0] = c
  BY <1>4
<1>7. ASSUME NEW n \in Nat \ {0} PROVE h[n] = d[n][h[n - 1]]
  <2>1. n - 1 \in Nat /\ (n - 1) + 1 = n /\ n \in 1 .. n
    OBVIOUS
  <2>2. F[n][n] = d[n][F[n][n - 1]]
    BY <1>4, <2>1
  <2>3. F[n][n - 1] = F[n - 1][n - 1]
    BY <1>5, <2>1
  <2> QED
    BY <2>1, <2>2, <2>3
<1> QED
  BY <1>6, <1>7 DEF Solves

-----------------------------------------------------------------------------
(* Sums.                                                                   *)

\* A sum is the last of the sums of the first n.
LEMMA Partial ==
    ASSUME NEW s \in Seq(Nat)
    PROVE  \E f \in [0 .. Len(s) -> Nat] :
               /\ f[0] = 0 /\ Total(s) = f[Len(s)]
               /\ \A n \in 1 .. Len(s) : f[n] = f[n - 1] + s[n]
<1> DEFINE m == Len(s)
           Sums(f) == f = [n \in 0 .. m |-> IF n = 0 THEN 0 ELSE f[n - 1] + s[n]]
           d == [n \in Nat |-> [x \in Nat |-> IF n \in 1 .. m THEN x + s[n] ELSE x]]
<1>1. m \in Nat /\ \A n \in 1 .. m : s[n] \in Nat
  OBVIOUS
<1> HIDE DEF m
<1>2. \E f : Sums(f)
  <2>1. d \in [Nat -> [Nat -> Nat]]
    BY <1>1
  <2>2. \A n \in 1 .. m, x \in Nat : d[n][x] = x + s[n]
    BY <1>1
  <2> HIDE DEF d
  <2>3. PICK g \in [Nat -> Nat] : Solves(g, 0, d)
    <3>1. 0 \in Nat
      OBVIOUS
    <3> QED
      BY <2>1, <3>1, Recursion, Zenon
  <2>4. ASSUME NEW n \in 1 .. m PROVE g[n] = g[n - 1] + s[n]
    <3>1. n \in Nat \ {0} /\ n - 1 \in Nat
      BY <1>1
    <3>2. g[n] = d[n][g[n - 1]] /\ g[n - 1] \in Nat
      BY <2>3, <3>1 DEF Solves
    <3> QED
      BY <2>2, <3>2
  <2>5. Sums([n \in 0 .. m |-> g[n]])
    BY <1>1, <2>3, <2>4 DEF Solves
  <2> HIDE DEF Sums
  <2> QED
    BY <2>5
<1> DEFINE f == CHOOSE f : Sums(f)
<1>3. Sums(f)
  <2> HIDE DEF Sums
  <2> QED
    BY <1>2
<1>4. Total(s) = f[m]
  BY DEF Total, m
<1> HIDE DEF f
<1>5. DOMAIN f = 0 .. m /\ f = [n \in 0 .. m |-> f[n]] /\ f[0] = 0
  BY <1>1, <1>3
<1>6. \A n \in 1 .. m : f[n] = f[n - 1] + s[n]
  BY <1>1, <1>3
<1>7. \A n \in 0 .. m : f[n] \in Nat
  <2> DEFINE T == {n \in Nat : f[n] \in Nat}
  <2>1. 0 \in T
    BY <1>5
  <2>2. \A n \in 1 .. m : n - 1 \in T => n \in T
    BY <1>1, <1>6
  <2> HIDE DEF T
  <2>3. 0 .. m \subseteq T
    BY <1>1, <2>1, <2>2, InductionUpTo
  <2> QED
    BY <2>3 DEF T
<1>8. f \in [0 .. m -> Nat]
  BY <1>5, <1>7
<1> QED
  BY <1>4, <1>5, <1>6, <1>8 DEF m

\* What is summed up is a number.
LEMMA TotalTyped ==
    ASSUME NEW s \in Seq(Nat)
    PROVE  Total(s) \in Nat /\ (s = <<>> => Total(s) = 0)
<1>1. PICK f \in [0 .. Len(s) -> Nat] : f[0] = 0 /\ Total(s) = f[Len(s)]
  BY Partial
<1>2. Len(s) \in 0 .. Len(s) /\ (s = <<>> => Len(s) = 0)
  OBVIOUS
<1> QED
  BY <1>1, <1>2

\* One more at the end.
LEMMA TotalAppend ==
    ASSUME NEW s \in Seq(Nat), NEW x \in Nat
    PROVE  Total(Append(s, x)) = Total(s) + x
<1> DEFINE t == Append(s, x)
           m == Len(s)
<1>1. t \in Seq(Nat) /\ Len(t) = m + 1 /\ t[m + 1] = x /\ m \in Nat
  OBVIOUS
<1>2. \A n \in 1 .. m : t[n] = s[n]
  OBVIOUS
<1>3. PICK f \in [0 .. m -> Nat] :
         /\ f[0] = 0 /\ Total(s) = f[m]
         /\ \A n \in 1 .. m : f[n] = f[n - 1] + s[n]
  BY Partial
<1> HIDE DEF t
<1>4. PICK g \in [0 .. m + 1 -> Nat] :
         /\ g[0] = 0 /\ Total(t) = g[m + 1]
         /\ \A n \in 1 .. m + 1 : g[n] = g[n - 1] + t[n]
  BY <1>1, Partial
<1> HIDE DEF m
<1> DEFINE T == {n \in Nat : g[n] = f[n]}
<1>5. 0 \in T
  BY <1>3, <1>4
<1>6. ASSUME NEW n \in 1 .. m, n - 1 \in T PROVE n \in T
  <2>1. n \in Nat /\ n \in 1 .. m + 1 /\ g[n - 1] = f[n - 1]
    BY <1>1, <1>6
  <2> QED
    BY <1>2, <1>3, <1>4, <2>1
<1> HIDE DEF T
<1>7. 0 .. m \subseteq T
  BY <1>1, <1>5, <1>6, InductionUpTo
<1>8. g[m] = f[m] /\ m + 1 \in 1 .. m + 1 /\ (m + 1) - 1 = m
  BY <1>1, <1>7 DEF T
<1>9. g[m + 1] = g[m] + t[m + 1]
  BY <1>4, <1>8
<1>10. Total(t) = Total(s) + x
  BY <1>1, <1>3, <1>4, <1>8, <1>9
<1> QED
  BY <1>10 DEF t

\* One more of the first k.
LEMMA TotalUpTo ==
    ASSUME NEW s \in Seq(Nat), NEW k \in 1 .. Len(s)
    PROVE  Total(SubSeq(s, 1, k)) = Total(SubSeq(s, 1, k - 1)) + s[k]
<1> DEFINE t == SubSeq(s, 1, k - 1)
<1>1. k - 1 \in Nat /\ k - 1 <= Len(s) /\ s[k] \in Nat
  OBVIOUS
<1>2. t \in Seq(Nat) /\ Len(t) = k - 1 /\ \A i \in 1 .. k - 1 : t[i] = s[i]
  BY <1>1
<1>3. SubSeq(s, 1, k) = Append(t, s[k])
  BY <1>1, <1>2
<1>4. Total(Append(t, s[k])) = Total(t) + s[k]
  BY <1>1, <1>2, TotalAppend, Zenon
<1> QED
  BY <1>3, <1>4

\* One less in the middle.
LEMMA TotalRemove ==
    ASSUME NEW s \in Seq(Nat), NEW t \in Seq(Nat), NEW i \in 1 .. Len(s),
           Len(t) = Len(s) - 1,
           \A n \in 1 .. Len(t) : t[n] = IF n < i THEN s[n] ELSE s[n + 1]
    PROVE  Total(t) + s[i] = Total(s)
<1> DEFINE m == Len(t)
<1>1. m \in Nat /\ Len(s) = m + 1 /\ i \in 1 .. m + 1
  OBVIOUS
<1>2. \A n \in 1 .. m + 1 : s[n] \in Nat
  BY <1>1
<1>3. PICK f \in [0 .. m -> Nat] :
         /\ f[0] = 0 /\ Total(t) = f[m]
         /\ \A n \in 1 .. m : f[n] = f[n - 1] + t[n]
  BY Partial
<1>4. PICK g \in [0 .. m + 1 -> Nat] :
         /\ g[0] = 0 /\ Total(s) = g[m + 1]
         /\ \A n \in 1 .. m + 1 : g[n] = g[n - 1] + s[n]
  <2>1. PICK g \in [0 .. Len(s) -> Nat] :
           /\ g[0] = 0 /\ Total(s) = g[Len(s)]
           /\ \A n \in 1 .. Len(s) : g[n] = g[n - 1] + s[n]
    BY Partial
  <2> HIDE DEF m
  <2> QED
    BY <1>1, <2>1
<1>5. \A n \in 1 .. m : t[n] = IF n < i THEN s[n] ELSE s[n + 1]
  OBVIOUS
<1> HIDE DEF m
<1> DEFINE T == {n \in Nat : IF n < i THEN f[n] = g[n] ELSE f[n] + s[i] = g[n + 1]}
<1>6. 0 \in T
  BY <1>1, <1>3, <1>4
<1>7. ASSUME NEW n \in 1 .. m, n - 1 \in T PROVE n \in T
  <2>1. /\ n \in Nat /\ n \in 1 .. m + 1 /\ n + 1 \in 1 .. m + 1 /\ (n + 1) - 1 = n
        /\ n - 1 \in 0 .. m /\ n - 1 \in 0 .. m + 1 /\ n \in 0 .. m /\ n \in 0 .. m + 1
        /\ n + 1 \in 0 .. m + 1 /\ (n - 1) + 1 = n
    BY <1>1, <1>7
  <2>2. f[n] = f[n - 1] + t[n] /\ g[n] = g[n - 1] + s[n] /\ g[n + 1] = g[n] + s[n + 1]
    BY <1>3, <1>4, <2>1
  <2>3. /\ f[n - 1] \in Nat /\ f[n] \in Nat /\ g[n - 1] \in Nat /\ g[n] \in Nat
        /\ g[n + 1] \in Nat /\ s[n] \in Nat /\ s[n + 1] \in Nat /\ s[i] \in Nat
    BY <1>1, <1>2, <2>1
  <2>4. IF n - 1 < i THEN f[n - 1] = g[n - 1] ELSE f[n - 1] + s[i] = g[n]
    BY <1>7, <2>1
  <2>5. \A a, b, w, x, y, z \in Nat : b = a + x /\ y = a + w /\ z = y + x => b + w = z
    OBVIOUS
  <2>6. CASE n < i
    <3>1. t[n] = s[n] /\ f[n - 1] = g[n - 1]
      BY <1>1, <1>5, <2>4, <2>6
    <3> QED
      BY <2>1, <2>2, <2>6, <3>1
  <2>7. CASE n = i
    <3>1. t[n] = s[n + 1] /\ f[n - 1] = g[n - 1]
      BY <1>1, <1>5, <2>4, <2>7
    <3>2. f[n] = f[n - 1] + s[n + 1] /\ g[n] = f[n - 1] + s[i] /\ g[n + 1] = g[n] + s[n + 1]
      BY <2>2, <2>7, <3>1
    <3>3. f[n] + s[i] = g[n + 1]
      BY <1>1, <2>1, <2>3, <3>2
    <3> QED
      BY <2>1, <2>7, <3>3
  <2>8. CASE n > i
    <3>1. t[n] = s[n + 1] /\ f[n - 1] + s[i] = g[n]
      BY <1>1, <1>5, <2>4, <2>8
    <3>2. f[n] = f[n - 1] + s[n + 1] /\ g[n] = f[n - 1] + s[i] /\ g[n + 1] = g[n] + s[n + 1]
      BY <2>2, <3>1
    <3>3. f[n] + s[i] = g[n + 1]
      BY <1>1, <2>1, <2>3, <3>2
    <3> QED
      BY <1>1, <2>1, <2>8, <3>3
  <2> QED
    BY <1>1, <2>6, <2>7, <2>8
<1> HIDE DEF T
<1>8. 0 .. m \subseteq T
  BY <1>1, <1>6, <1>7, InductionUpTo
<1>9. m \in T
  BY <1>1, <1>8
<1>10. CASE m < i
  <2>1. i = m + 1 /\ f[m] = g[m]
    BY <1>1, <1>9, <1>10 DEF T
  <2>2. g[m + 1] = g[m] + s[m + 1]
    <3>1. m + 1 \in 1 .. m + 1 /\ (m + 1) - 1 = m
      BY <1>1
    <3> QED
      BY <1>4, <3>1
  <2> QED
    BY <1>3, <1>4, <2>1, <2>2
<1>11. CASE ~(m < i)
  BY <1>3, <1>4, <1>9, <1>11 DEF T
<1> QED
  BY <1>10, <1>11
=============================================================================
