---------------------------- MODULE DataInduction ----------------------------
(***************************************************************************)
(* Induction on the natural numbers, stated for sets instead of            *)
(* predicates: the provers can instantiate a set, S == {n \in Nat : P(n)}, *)
(* where they cannot instantiate an operator.  It rests on the fact that   *)
(* the order of the natural numbers is well founded, and gives what a      *)
(* recursive function needs before anything can be proved about it: that a *)
(* function with its recursion equation exists.                            *)
(***************************************************************************)
EXTENDS Sums, TLAPS, WellFoundedInduction, SequenceTheorems

\* A set of natural numbers that is not empty has a least element.
LEMMA LeastNatural ==
  ASSUME NEW T, T \subseteq Nat, T # {}
  PROVE  \E m \in T : \A n \in T : m <= n
<1> DEFINE R == OpToRel(<, Nat)
<1>1. IsWellFoundedOn(R, Nat)
  BY NatLessThanWellFounded
<1>2. \A m, n \in Nat : n < m => <<n, m>> \in R
  BY DEF OpToRel
<1> HIDE DEF R
<1>3. PICK m \in T : \A n \in T : ~(<<n, m>> \in R)
  BY <1>1, WFMin
<1>4. ASSUME NEW n \in T PROVE m <= n
  <2>1. m \in Nat /\ n \in Nat
    OBVIOUS
  <2>2. ~(n < m)
    BY <1>2, <1>3, <2>1
  <2> QED BY <2>1, <2>2
<1> QED
  BY <1>4

\* A set with 0 that with a number has the next one has them all.
LEMMA SetInduction ==
  ASSUME NEW S, 0 \in S, \A n \in Nat : n \in S => n + 1 \in S
  PROVE  \A n \in Nat : n \in S
<1> DEFINE T == Nat \ S
<1> SUFFICES ASSUME T # {} PROVE FALSE
  OBVIOUS
<1>1. PICK m \in T : \A n \in T : m <= n
  BY LeastNatural
<1>2. m \in Nat /\ m # 0 /\ m \notin S
  OBVIOUS
<1>3. m - 1 \in Nat /\ m - 1 \notin T
  BY <1>1, <1>2
<1> QED BY <1>2, <1>3

-----------------------------------------------------------------------------
(* Sums.                                                                   *)

\* The recursion equation of Sums, for the first n elements.
IsSum(f, x, n) == f = [k \in 0..n |-> IF k = 0 THEN 0 ELSE f[k - 1] + x[k]]

LEMMA SumExists ==
  ASSUME NEW n \in Nat, NEW x
  PROVE  \E f : IsSum(f, x, n)
<1> DEFINE S == {m \in Nat : \E f : IsSum(f, x, m)}
<1>1. 0 \in S
  <2> DEFINE f == [k \in 0..0 |-> 0]
  <2>1. IsSum(f, x, 0)
    BY DEF IsSum
  <2> QED BY <2>1
<1>2. ASSUME NEW m \in Nat, m \in S PROVE m + 1 \in S
  <2>1. PICK f : IsSum(f, x, m)
    BY <1>2
  <2> DEFINE g == [k \in 0..(m + 1) |-> IF k = m + 1 THEN f[m] + x[m + 1] ELSE f[k]]
  <2>2. \A k \in 0..(m + 1) : g[k] = IF k = 0 THEN 0 ELSE g[k - 1] + x[k]
    BY <2>1 DEF IsSum
  <2>3. g = [k \in 0..(m + 1) |-> g[k]]
    OBVIOUS
  <2>4. IsSum(g, x, m + 1)
    <3> HIDE DEF g
    <3> QED BY <2>2, <2>3 DEF IsSum
  <2> HIDE DEF g
  <2> QED BY <2>4
<1>3. \A m \in Nat : m \in S
  <2> HIDE DEF S
  <2> QED BY <1>1, <1>2, SetInduction
<1> QED BY <1>3

\* Sums is a function with its recursion equation.
LEMMA SumsEquation ==
  ASSUME NEW x, Len(x) \in Nat
  PROVE  /\ Sums(x)[0] = 0
         /\ \A k \in 1..Len(x) : Sums(x)[k] = Sums(x)[k - 1] + x[k]
<1>1. \E f : IsSum(f, x, Len(x))
  BY SumExists
<1> DEFINE s == Sums(x)
           n == Len(x)
<1>2. IsSum(s, x, n)
  BY <1>1 DEF IsSum, Sums
<1>3. n \in Nat
  OBVIOUS
<1>4. s[0] = 0 /\ \A k \in 1..n : s[k] = s[k - 1] + x[k]
  <2> HIDE DEF s, n
  <2> QED BY <1>2, <1>3 DEF IsSum
<1> QED BY <1>4

\* A sum of natural numbers is one, whatever follows them.
LEMMA SumsType ==
  ASSUME NEW x, Len(x) \in Nat,
         NEW m \in 0..Len(x), \A k \in 1..m : x[k] \in Nat
  PROVE  Sums(x)[m] \in Nat
<1> DEFINE n == Len(x)
           s == Sums(x)
           S == {k \in Nat : k <= m => s[k] \in Nat}
<1>1. /\ n \in Nat /\ m \in Nat /\ m <= n /\ s[0] = 0
      /\ \A k \in 1..n : s[k] = s[k - 1] + x[k]
  BY SumsEquation
<1> HIDE DEF s, n
<1>2. 0 \in S
  BY <1>1
<1>3. ASSUME NEW k \in Nat, k \in S PROVE k + 1 \in S
  <2> SUFFICES ASSUME k + 1 <= m PROVE s[k + 1] \in Nat
    OBVIOUS
  <2>1. k + 1 \in 1..n /\ k + 1 \in 1..m /\ (k + 1) - 1 = k
    BY <1>1
  <2>2. s[k] \in Nat /\ x[k + 1] \in Nat
    BY <1>1, <1>3, <2>1
  <2>3. s[k + 1] = s[k] + x[k + 1]
    BY <1>1, <2>1
  <2> QED BY <2>2, <2>3
<1>4. \A k \in Nat : k \in S
  <2> HIDE DEF S
  <2> QED BY <1>2, <1>3, SetInduction
<1> QED BY <1>1, <1>4 DEF s

\* What both lemmas say of a sequence of natural numbers.
LEMMA SumsOfNat ==
  ASSUME NEW x \in Seq(Nat)
  PROVE  /\ Len(x) \in Nat
         /\ \A k \in 0..Len(x) : Sums(x)[k] \in Nat
         /\ Sums(x)[0] = 0
         /\ \A k \in 1..Len(x) : Sums(x)[k] = Sums(x)[k - 1] + x[k]
         /\ \A k \in 1..Len(x) : x[k] \in Nat
<1>1. Len(x) \in Nat /\ \A k \in 1..Len(x) : x[k] \in Nat
  OBVIOUS
<1>2. ASSUME NEW m \in 0..Len(x) PROVE Sums(x)[m] \in Nat
  <2>1. \A k \in 1..m : x[k] \in Nat
    BY <1>1
  <2> QED BY <1>1, <2>1, SumsType
<1> QED BY <1>1, <1>2, SumsEquation

\* Sums never fall.
LEMMA SumsMonotone ==
  ASSUME NEW x \in Seq(Nat), NEW j \in 0..Len(x), NEW k \in j..Len(x)
  PROVE  Sums(x)[j] <= Sums(x)[k]
<1> DEFINE n == Len(x)
           s == Sums(x)
           S == {m \in Nat : j + m <= n => s[j] <= s[j + m]}
<1>0. n \in Nat /\ j \in Nat
  OBVIOUS
<1>1. /\ \A m \in 0..n : s[m] \in Nat
      /\ \A m \in 1..n : s[m] = s[m - 1] + x[m]
      /\ \A m \in 1..n : x[m] \in Nat
  BY SumsOfNat
<1>2. k - j \in Nat /\ j + (k - j) = k /\ k <= n
  BY <1>0
<1> HIDE DEF s, n
<1>3. 0 \in S
  BY <1>0, <1>1
<1>4. ASSUME NEW m \in Nat, m \in S PROVE m + 1 \in S
  <2> SUFFICES ASSUME j + (m + 1) <= n PROVE s[j] <= s[j + (m + 1)]
    OBVIOUS
  <2>1. s[j] <= s[j + m]
    BY <1>0, <1>4
  <2>2. /\ j + (m + 1) \in 1..n /\ (j + (m + 1)) - 1 = j + m
        /\ j + m \in 0..n /\ j \in 0..n
    BY <1>0
  <2>3. s[j + (m + 1)] = s[j + m] + x[j + (m + 1)] /\ x[j + (m + 1)] \in Nat
    BY <1>1, <2>2
  <2>4. s[j] \in Nat /\ s[j + m] \in Nat
    BY <1>1, <2>2
  <2> QED BY <2>1, <2>3, <2>4
<1>5. \A m \in Nat : m \in S
  <2> HIDE DEF S
  <2> QED BY <1>3, <1>4, SetInduction
<1>6. s[j] <= s[j + (k - j)]
  BY <1>2, <1>5
<1> QED BY <1>2, <1>6 DEF s

\* Sequences that differ in one element have sums that differ by as much from
\* there on.
LEMMA SumsChange ==
  ASSUME NEW x \in Seq(Nat), NEW y \in Seq(Nat), Len(x) = Len(y),
         NEW i \in 1..Len(x), \A k \in 1..Len(x) : k # i => x[k] = y[k],
         NEW k \in 0..Len(x)
  PROVE  Sums(y)[k] = IF k < i THEN Sums(x)[k] ELSE Sums(x)[k] - x[i] + y[i]
<1> DEFINE n == Len(x)
           s == Sums(x)
           t == Sums(y)
           S == {m \in Nat : m <= n => t[m] = IF m < i THEN s[m] ELSE s[m] - x[i] + y[i]}
<1>0. n \in Nat /\ i \in 1..n /\ k \in Nat /\ k <= n
  OBVIOUS
<1>1. /\ \A m \in 0..n : s[m] \in Nat /\ s[0] = 0
      /\ \A m \in 1..n : s[m] = s[m - 1] + x[m]
      /\ \A m \in 1..n : x[m] \in Nat
  BY SumsOfNat
<1>2. /\ \A m \in 0..Len(y) : t[m] \in Nat /\ t[0] = 0
      /\ \A m \in 1..Len(y) : t[m] = t[m - 1] + y[m]
      /\ \A m \in 1..Len(y) : y[m] \in Nat
  BY SumsOfNat
<1>3. Len(y) = n
  OBVIOUS
<1>4. \A m \in 1..n : m # i => x[m] = y[m]
  OBVIOUS
<1> HIDE DEF s, t, n
<1>5. 0 \in S
  BY <1>0, <1>1, <1>2
<1>6. ASSUME NEW m \in Nat, m \in S PROVE m + 1 \in S
  <2> SUFFICES ASSUME m + 1 <= n
               PROVE  t[m + 1] = IF m + 1 < i THEN s[m + 1] ELSE s[m + 1] - x[i] + y[i]
    OBVIOUS
  <2>1. /\ m + 1 \in 1..n /\ (m + 1) - 1 = m /\ m \in 0..n
    BY <1>0
  <2>2. t[m + 1] = t[m] + y[m + 1] /\ s[m + 1] = s[m] + x[m + 1]
    BY <1>1, <1>2, <1>3, <2>1
  <2>3. /\ t[m] \in Nat /\ s[m] \in Nat /\ x[i] \in Nat /\ y[i] \in Nat
        /\ x[m + 1] \in Nat /\ y[m + 1] \in Nat
    BY <1>0, <1>1, <1>2, <1>3, <2>1
  <2>4. t[m] = IF m < i THEN s[m] ELSE s[m] - x[i] + y[i]
    BY <1>0, <1>6
  <2>5. m + 1 # i => x[m + 1] = y[m + 1]
    BY <1>4, <2>1
  <2>6. i \in Nat
    BY <1>0
  <2>7. PICK a, b, c, d, u, v \in Nat :
          a = s[m] /\ b = x[i] /\ c = y[i] /\ d = x[m + 1] /\ u = t[m] /\ v = y[m + 1]
    BY <2>3
  <2>8. /\ u = IF m < i THEN a ELSE a - b + c
        /\ (m + 1 # i => d = v) /\ (m + 1 = i => d = b /\ v = c)
    BY <2>4, <2>5, <2>7
  <2>9. CASE m + 1 < i
    <3>1. u = a /\ d = v
      BY <2>6, <2>8, <2>9
    <3> QED BY <2>2, <2>7, <2>9, <3>1
  <2>10. CASE m + 1 = i
    <3>1. u = a /\ d = b /\ v = c
      BY <2>6, <2>8, <2>10
    <3>2. u + v = (a + d) - b + c
      BY <3>1
    <3>3. ~(m + 1 < i)
      BY <2>6, <2>10
    <3> QED BY <2>2, <2>7, <3>2, <3>3
  <2>11. CASE i < m + 1
    <3>1. u = a - b + c /\ d = v
      BY <2>6, <2>8, <2>11
    <3>2. u + v = (a + d) - b + c
      BY <3>1
    <3>3. ~(m + 1 < i)
      BY <2>6, <2>11
    <3> QED BY <2>2, <2>7, <3>2, <3>3
  <2> QED BY <2>6, <2>9, <2>10, <2>11
<1>7. \A m \in Nat : m \in S
  <2> HIDE DEF S
  <2> QED BY <1>5, <1>6, SetInduction
<1> QED BY <1>0, <1>7 DEF s, t

\* The sum of zeros.
LEMMA SumsOfZeros ==
  ASSUME NEW x \in Seq(Nat), \A k \in 1..Len(x) : x[k] = 0, NEW k \in 0..Len(x)
  PROVE  Sums(x)[k] = 0
<1> DEFINE n == Len(x)
           s == Sums(x)
           S == {m \in Nat : m <= n => s[m] = 0}
<1>1. /\ n \in Nat /\ s[0] = 0
      /\ \A m \in 1..n : s[m] = s[m - 1] + x[m]
      /\ \A m \in 1..n : x[m] = 0
      /\ k \in Nat /\ k <= n
  BY SumsOfNat
<1> HIDE DEF s, n
<1>2. 0 \in S
  BY <1>1
<1>3. ASSUME NEW m \in Nat, m \in S PROVE m + 1 \in S
  <2> SUFFICES ASSUME m + 1 <= n PROVE s[m + 1] = 0
    OBVIOUS
  <2>1. m + 1 \in 1..n /\ (m + 1) - 1 = m /\ s[m] = 0
    BY <1>1, <1>3
  <2>2. s[m + 1] = s[m] + x[m + 1] /\ x[m + 1] = 0
    BY <1>1, <2>1
  <2> QED BY <2>1, <2>2
<1>4. \A m \in Nat : m \in S
  <2> HIDE DEF S
  <2> QED BY <1>2, <1>3, SetInduction
<1> QED BY <1>1, <1>4 DEF s

\* Smaller elements have smaller sums.
LEMMA SumsLeq ==
  ASSUME NEW x \in Seq(Nat), NEW y \in Seq(Nat), Len(x) = Len(y),
         \A k \in 1..Len(x) : x[k] <= y[k], NEW k \in 0..Len(x)
  PROVE  Sums(x)[k] <= Sums(y)[k]
<1> DEFINE n == Len(x)
           s == Sums(x)
           t == Sums(y)
           S == {m \in Nat : m <= n => s[m] <= t[m]}
<1>1. /\ n \in Nat /\ s[0] = 0
      /\ \A m \in 0..n : s[m] \in Nat
      /\ \A m \in 1..n : s[m] = s[m - 1] + x[m]
      /\ \A m \in 1..n : x[m] \in Nat
      /\ \A m \in 1..n : x[m] <= y[m]
      /\ k \in Nat /\ k <= n
  BY SumsOfNat
<1>2. /\ t[0] = 0
      /\ \A m \in 0..n : t[m] \in Nat
      /\ \A m \in 1..n : t[m] = t[m - 1] + y[m]
      /\ \A m \in 1..n : y[m] \in Nat
  BY SumsOfNat
<1> HIDE DEF s, t, n
<1>3. 0 \in S
  BY <1>1, <1>2
<1>4. ASSUME NEW m \in Nat, m \in S PROVE m + 1 \in S
  <2> SUFFICES ASSUME m + 1 <= n PROVE s[m + 1] <= t[m + 1]
    OBVIOUS
  <2>1. m + 1 \in 1..n /\ (m + 1) - 1 = m /\ m \in 0..n
    BY <1>1
  <2>2. s[m + 1] = s[m] + x[m + 1] /\ t[m + 1] = t[m] + y[m + 1]
    BY <1>1, <1>2, <2>1
  <2>3. s[m] <= t[m] /\ x[m + 1] <= y[m + 1]
    BY <1>1, <1>4, <2>1
  <2>4. s[m] \in Nat /\ t[m] \in Nat /\ x[m + 1] \in Nat /\ y[m + 1] \in Nat
    BY <1>1, <1>2, <2>1
  <2> QED BY <2>2, <2>3, <2>4
<1>5. \A m \in Nat : m \in S
  <2> HIDE DEF S
  <2> QED BY <1>3, <1>4, SetInduction
<1> QED BY <1>1, <1>5 DEF s, t

\* The same of the sum of all elements.
LEMMA TotalType ==
  ASSUME NEW x \in Seq(Nat)
  PROVE  Total(x) \in Nat
<1>1. Len(x) \in 0..Len(x)
  OBVIOUS
<1> QED BY <1>1, SumsOfNat DEF Total

LEMMA TotalChange ==
  ASSUME NEW x \in Seq(Nat), NEW y \in Seq(Nat), Len(x) = Len(y),
         NEW i \in 1..Len(x), \A k \in 1..Len(x) : k # i => x[k] = y[k]
  PROVE  Total(y) = Total(x) - x[i] + y[i]
<1>1. Len(x) \in 0..Len(x) /\ ~(Len(x) < i)
  OBVIOUS
<1>2. Sums(y)[Len(x)] = Sums(x)[Len(x)] - x[i] + y[i]
  BY <1>1, SumsChange
<1> QED BY <1>2 DEF Total

LEMMA TotalOfZeros ==
  ASSUME NEW x \in Seq(Nat), \A k \in 1..Len(x) : x[k] = 0
  PROVE  Total(x) = 0
<1>1. Len(x) \in 0..Len(x)
  OBVIOUS
<1> QED BY <1>1, SumsOfZeros DEF Total

LEMMA TotalLeq ==
  ASSUME NEW x \in Seq(Nat), NEW y \in Seq(Nat), Len(x) = Len(y),
         \A k \in 1..Len(x) : x[k] <= y[k]
  PROVE  Total(x) <= Total(y)
<1>1. Len(x) \in 0..Len(x)
  OBVIOUS
<1>2. Sums(x)[Len(x)] <= Sums(y)[Len(x)]
  BY <1>1, SumsLeq
<1> QED BY <1>2 DEF Total

\* The first element comes first in the sums of a sequence.
LEMMA SumsFirst ==
  ASSUME NEW x \in Seq(Nat), NEW y \in Seq(Nat), Len(x) = Len(y) + 1,
         \A k \in 1..Len(y) : y[k] = x[k + 1]
  PROVE  Total(x) = x[1] + Total(y)
<1> DEFINE n == Len(y)
           s == Sums(x)
           t == Sums(y)
           S == {m \in Nat : m <= n => s[m + 1] = x[1] + t[m]}
<1>1. /\ n \in Nat /\ s[0] = 0
      /\ \A m \in 0..(n + 1) : s[m] \in Nat
      /\ \A m \in 1..(n + 1) : s[m] = s[m - 1] + x[m]
      /\ \A m \in 1..(n + 1) : x[m] \in Nat
  BY SumsOfNat
<1>2. /\ t[0] = 0
      /\ \A m \in 0..n : t[m] \in Nat
      /\ \A m \in 1..n : t[m] = t[m - 1] + y[m]
      /\ \A m \in 1..n : y[m] \in Nat
  BY SumsOfNat
<1>3. \A m \in 1..n : y[m] = x[m + 1]
  OBVIOUS
<1>4. Total(x) = s[n + 1] /\ Total(y) = t[n]
  BY DEF Total
<1> HIDE DEF s, t, n
<1>5. 0 \in S
  <2>1. 1 \in 1..(n + 1) /\ 1 - 1 = 0
    BY <1>1
  <2>2. s[1] = s[0] + x[1] /\ x[1] \in Nat
    BY <1>1, <2>1
  <2> QED BY <1>1, <1>2, <2>2
<1>6. ASSUME NEW m \in Nat, m \in S PROVE m + 1 \in S
  <2> SUFFICES ASSUME m + 1 <= n PROVE s[(m + 1) + 1] = x[1] + t[m + 1]
    OBVIOUS
  <2>1. /\ m + 1 \in 1..n /\ (m + 1) - 1 = m /\ m \in 0..n
        /\ (m + 1) + 1 \in 1..(n + 1) /\ ((m + 1) + 1) - 1 = m + 1 /\ 1 \in 1..(n + 1)
    BY <1>1
  <2>2. t[m + 1] = t[m] + y[m + 1] /\ s[(m + 1) + 1] = s[m + 1] + x[(m + 1) + 1]
    BY <1>1, <1>2, <2>1
  <2>3. s[m + 1] = x[1] + t[m] /\ y[m + 1] = x[(m + 1) + 1]
    BY <1>1, <1>3, <1>6, <2>1
  <2>4. x[1] \in Nat /\ t[m] \in Nat /\ y[m + 1] \in Nat
    BY <1>1, <1>2, <2>1
  <2> QED BY <2>2, <2>3, <2>4
<1>7. \A m \in Nat : m \in S
  <2> HIDE DEF S
  <2> QED BY <1>5, <1>6, SetInduction
<1> QED BY <1>1, <1>4, <1>7

-----------------------------------------------------------------------------
(* Sequences.                                                              *)

\* A function on 1..n is a sequence of n elements, whatever they are.
LEMMA FunctionIsSeq ==
  ASSUME NEW n \in Nat, NEW x, x = [k \in 1..n |-> x[k]]
  PROVE  Len(x) = n /\ DOMAIN x = 1..n
<1> DEFINE S == {x[k] : k \in 1..n}
<1>1. x \in [1..n -> S]
  OBVIOUS
<1>2. x \in Seq(S)
  <2> HIDE DEF S
  <2> QED BY <1>1
<1> HIDE DEF S
<1> QED BY <1>1, <1>2

-----------------------------------------------------------------------------
(* Recursion over any set.                                                 *)

\* f starts at base and follows a table of steps.
IsRun(f, S, base, N, step) ==
  /\ f \in [0..N -> S]
  /\ f[0] = base /\ \A k \in 1..N : f[k] = step[<<k, f[k - 1]>>]

\* There is such a function.
LEMMA RecursionExists ==
  ASSUME NEW S, NEW base \in S, NEW N \in Nat, NEW step,
         \A k \in 1..N : \A s \in S : step[<<k, s>>] \in S
  PROVE  \E f : IsRun(f, S, base, N, step)
<1> DEFINE Run(f, n) == f[0] = base /\ \A k \in 1..n : f[k] = step[<<k, f[k - 1]>>]
           T == {n \in Nat : n <= N => \E f \in [0..n -> S] : Run(f, n)}
<1>1. 0 \in T
  <2> DEFINE f == [k \in 0..0 |-> base]
  <2>1. f \in [0..0 -> S] /\ Run(f, 0)
    OBVIOUS
  <2> QED BY <2>1
<1>2. ASSUME NEW n \in Nat, n \in T PROVE n + 1 \in T
  <2> SUFFICES ASSUME n + 1 <= N PROVE \E f \in [0..(n + 1) -> S] : Run(f, n + 1)
    OBVIOUS
  <2>1. PICK f \in [0..n -> S] : Run(f, n)
    BY <1>2
  <2> DEFINE g == [k \in 0..(n + 1) |-> IF k = n + 1 THEN step[<<n + 1, f[n]>>] ELSE f[k]]
  <2>2. n + 1 \in 1..N /\ f[n] \in S
    OBVIOUS
  <2>3. step[<<n + 1, f[n]>>] \in S
    BY <2>2
  <2>4. g \in [0..(n + 1) -> S]
    BY <2>3
  <2>5. g[0] = base
    BY <2>1
  <2>6. ASSUME NEW k \in 1..(n + 1) PROVE g[k] = step[<<k, g[k - 1]>>]
    <3>1. CASE k = n + 1
      <4>1. k - 1 = n /\ k - 1 \in 0..(n + 1) /\ k - 1 # n + 1 /\ k \in 0..(n + 1)
        BY <3>1
      <4>2. g[k - 1] = f[n]
        BY <4>1
      <4>3. g[k] = step[<<n + 1, f[n]>>]
        BY <3>1, <4>1
      <4> QED BY <3>1, <4>2, <4>3
    <3>2. CASE k # n + 1
      <4>1. k \in 1..n /\ k - 1 \in 0..n /\ k - 1 # n + 1
        BY <3>2
      <4>2. g[k] = f[k] /\ g[k - 1] = f[k - 1]
        BY <4>1
      <4> QED BY <2>1, <4>1, <4>2
    <3> QED BY <3>1, <3>2
  <2> HIDE DEF g
  <2> QED BY <2>4, <2>5, <2>6
<1>3. \A n \in Nat : n \in T
  <2> HIDE DEF T
  <2> QED BY <1>1, <1>2, SetInduction
<1>4. \E f \in [0..N -> S] : Run(f, N)
  BY <1>3
<1> QED BY <1>4 DEF IsRun

-----------------------------------------------------------------------------
(* Sequences that are put together.                                        *)

\* One sequence and then another: \o, by its lengths and elements.
Followed(s, t) == s \o t

LEMMA FollowedIs ==
  ASSUME NEW S, NEW s \in Seq(S), NEW t \in Seq(S)
  PROVE  /\ Followed(s, t) \in Seq(S)
         /\ Len(s) \in Nat /\ Len(t) \in Nat
         /\ Len(Followed(s, t)) = Len(s) + Len(t)
         /\ DOMAIN Followed(s, t) = 1..(Len(s) + Len(t))
         /\ \A k \in 1..Len(s) + Len(t) :
              Followed(s, t)[k] = IF k <= Len(s) THEN s[k] ELSE t[k - Len(s)]
<1>1. /\ Followed(s, t) \in Seq(S)
      /\ Len(Followed(s, t)) = Len(s) + Len(t)
      /\ \A k \in 1..Len(s) + Len(t) :
           Followed(s, t)[k] = IF k <= Len(s) THEN s[k] ELSE t[k - Len(s)]
  BY ConcatProperties, Zenon DEF Followed
<1>2. DOMAIN Followed(s, t) = 1..Len(Followed(s, t))
  BY <1>1
<1>3. Len(s) \in Nat /\ Len(t) \in Nat
  OBVIOUS
<1> QED BY <1>1, <1>2, <1>3

LEMMA FollowedByNothing ==
  ASSUME NEW S, NEW s \in Seq(S)
  PROVE  Followed(s, <<>>) = s
  BY ConcatEmptySeq, Zenon DEF Followed

LEMMA FollowedByOne ==
  ASSUME NEW S, NEW s \in Seq(S), NEW e \in S
  PROVE  Followed(s, <<e>>) = Append(s, e)
  BY AppendIsConcat, Zenon DEF Followed

\* Chained(x)[n] is the first n sequences of x, one after the other.
Chained(x) ==
  LET chain[n \in 0..Len(x)] == IF n = 0 THEN <<>> ELSE Followed(chain[n - 1], x[n])
  IN  chain

\* Chained is a function with its recursion equation, to sequences.
LEMMA ChainedEquation ==
  ASSUME NEW S, NEW x \in Seq(Seq(S))
  PROVE  /\ Chained(x)[0] = <<>>
         /\ \A k \in 1..Len(x) : Chained(x)[k] = Followed(Chained(x)[k - 1], x[k])
         /\ \A k \in 0..Len(x) : Chained(x)[k] \in Seq(S)
<1> DEFINE n == Len(x)
           IsChain(f) == f = [k \in 0..n |-> IF k = 0 THEN <<>> ELSE Followed(f[k - 1], x[k])]
           Z == Seq(S)
           step == [p \in (1..n) \X Z |-> Followed(p[2], x[p[1]])]
<1>1. n \in Nat /\ \A k \in 1..n : x[k] \in Z
  OBVIOUS
<1>2. \A k \in 1..n : \A s \in Z : Followed(s, x[k]) \in Z
  BY <1>1, FollowedIs
<1>3. <<>> \in Z
  OBVIOUS
<1> HIDE DEF Z, n
<1>4. \A k \in 1..n : \A s \in Z : step[<<k, s>>] = Followed(s, x[k])
  OBVIOUS
<1>5. \A k \in 1..n : \A s \in Z : step[<<k, s>>] \in Z
  BY <1>2, <1>4
<1> HIDE DEF step
<1> DEFINE base == <<>>
<1>6. base \in Z
  BY <1>3
<1> HIDE DEF base
<1>f. PICK f : IsRun(f, Z, base, n, step)
  BY <1>1, <1>5, <1>6, RecursionExists
<1>7. IsChain(f)
  <2>1. ASSUME NEW k \in 0..n, k # 0 PROVE f[k] = Followed(f[k - 1], x[k])
    <3>1. k \in 1..n /\ k - 1 \in 0..n
      BY <1>1, <2>1
    <3>2. f[k - 1] \in Z
      BY <1>f, <3>1 DEF IsRun
    <3> QED BY <1>4, <1>f, <3>1, <3>2 DEF IsRun
  <2> QED BY <1>f, <2>1 DEF IsRun, base
<1> DEFINE c == Chained(x)
<1>8. IsChain(c)
  BY <1>7 DEF Chained, n
<1> HIDE DEF c
<1>9. c[0] = <<>> /\ \A k \in 1..n : c[k] = Followed(c[k - 1], x[k])
  BY <1>1, <1>8
<1> DEFINE T == {k \in Nat : k <= n => c[k] \in Z}
<1>10. 0 \in T
  BY <1>3, <1>9
<1>11. ASSUME NEW k \in Nat, k \in T PROVE k + 1 \in T
  <2> SUFFICES ASSUME k + 1 <= n PROVE c[k + 1] \in Z
    OBVIOUS
  <2>1. k + 1 \in 1..n /\ k + 1 - 1 = k /\ c[k] \in Z
    BY <1>1, <1>11
  <2> QED BY <1>2, <1>9, <2>1
<1>12. \A k \in Nat : k \in T
  <2> HIDE DEF T
  <2> QED BY <1>10, <1>11, SetInduction
<1> QED BY <1>9, <1>12 DEF c, n, Z

\* What is in the chain comes from one of its sequences, and all of it is there.
LEMMA ChainedElements ==
  ASSUME NEW S, NEW x \in Seq(Seq(S)), NEW n \in 0..Len(x)
  PROVE  /\ \A k \in DOMAIN Chained(x)[n] :
              \E i \in 1..n : \E m \in DOMAIN x[i] : Chained(x)[n][k] = x[i][m]
         /\ \A i \in 1..n : \A m \in DOMAIN x[i] :
              \E k \in DOMAIN Chained(x)[n] : Chained(x)[n][k] = x[i][m]
<1> DEFINE c == Chained(x)
           N == Len(x)
           Z == Seq(S)
           T == {j \in Nat : j <= N =>
                  /\ \A k \in DOMAIN c[j] : \E i \in 1..j : \E m \in DOMAIN x[i] : c[j][k] = x[i][m]
                  /\ \A i \in 1..j : \A m \in DOMAIN x[i] : \E k \in DOMAIN c[j] : c[j][k] = x[i][m]}
<1>0. N \in Nat /\ \A k \in 1..N : x[k] \in Z
  OBVIOUS
<1>1. /\ c[0] = <<>>
      /\ \A k \in 1..N : c[k] = Followed(c[k - 1], x[k])
      /\ \A k \in 0..N : c[k] \in Z
  BY ChainedEquation
<1>2. \A s, t \in Z :
        /\ Len(s) \in Nat /\ Len(t) \in Nat
        /\ DOMAIN s = 1..Len(s) /\ DOMAIN t = 1..Len(t)
        /\ DOMAIN Followed(s, t) = 1..(Len(s) + Len(t))
        /\ \A k \in 1..Len(s) + Len(t) :
             Followed(s, t)[k] = IF k <= Len(s) THEN s[k] ELSE t[k - Len(s)]
  <2> TAKE s, t \in Z
  <2>1. DOMAIN s = 1..Len(s) /\ DOMAIN t = 1..Len(t)
    OBVIOUS
  <2>2. s \in Seq(S) /\ t \in Seq(S)
    OBVIOUS
  <2> HIDE DEF Z
  <2> QED BY <2>1, <2>2, FollowedIs
<1>3. n \in Nat /\ n <= N
  OBVIOUS
<1> HIDE DEF c, N, Z
<1>4. 0 \in T
  BY <1>1
<1>5. ASSUME NEW j \in Nat, j \in T PROVE j + 1 \in T
  <2> SUFFICES ASSUME j + 1 <= N
               PROVE  /\ \A k \in DOMAIN c[j + 1] : \E i \in 1..(j + 1) : \E m \in DOMAIN x[i] : c[j + 1][k] = x[i][m]
                      /\ \A i \in 1..(j + 1) : \A m \in DOMAIN x[i] : \E k \in DOMAIN c[j + 1] : c[j + 1][k] = x[i][m]
    OBVIOUS
  <2>1. j + 1 \in 1..N /\ j \in 0..N /\ j + 1 - 1 = j
    BY <1>0
  <2>2. /\ \A k \in DOMAIN c[j] : \E i \in 1..j : \E m \in DOMAIN x[i] : c[j][k] = x[i][m]
        /\ \A i \in 1..j : \A m \in DOMAIN x[i] : \E k \in DOMAIN c[j] : c[j][k] = x[i][m]
    BY <1>0, <1>5
  <2> DEFINE a == c[j]
             b == x[j + 1]
             d == c[j + 1]
  <2>3. /\ Len(a) \in Nat /\ Len(b) \in Nat
        /\ DOMAIN a = 1..Len(a) /\ DOMAIN b = 1..Len(b)
        /\ DOMAIN d = 1..(Len(a) + Len(b))
        /\ \A k \in 1..Len(a) + Len(b) : d[k] = IF k <= Len(a) THEN a[k] ELSE b[k - Len(a)]
    <3>1. a \in Z /\ b \in Z /\ d = Followed(a, b)
      BY <1>0, <1>1, <2>1
    <3> HIDE DEF a, b, d
    <3> QED BY <1>2, <3>1
  <2>4. ASSUME NEW k \in DOMAIN d PROVE \E i \in 1..(j + 1) : \E m \in DOMAIN x[i] : d[k] = x[i][m]
    <3>1. CASE k <= Len(a)
      <4>1. k \in DOMAIN a /\ d[k] = a[k]
        <5> HIDE DEF a, b, d
        <5> QED BY <2>3, <2>4, <3>1
      <4>2. PICK i \in 1..j : \E m \in DOMAIN x[i] : a[k] = x[i][m]
        BY <2>2, <4>1
      <4>3. i \in 1..(j + 1)
        OBVIOUS
      <4> QED BY <4>1, <4>2, <4>3
    <3>2. CASE ~(k <= Len(a))
      <4>1. k - Len(a) \in DOMAIN b /\ d[k] = b[k - Len(a)]
        <5> HIDE DEF a, b, d
        <5> QED BY <2>3, <2>4, <3>2
      <4>2. j + 1 \in 1..(j + 1)
        OBVIOUS
      <4> QED BY <4>1, <4>2
    <3> QED BY <3>1, <3>2
  <2>5. ASSUME NEW i \in 1..(j + 1), NEW m \in DOMAIN x[i]
        PROVE  \E k \in DOMAIN d : d[k] = x[i][m]
    <3>1. CASE i = j + 1
      <4>1. m \in DOMAIN b /\ b[m] = x[i][m]
        BY <2>5, <3>1
      <4>2. Len(a) + m \in DOMAIN d /\ d[Len(a) + m] = b[m]
        <5> HIDE DEF a, b, d
        <5>1. m \in 1..Len(b)
          BY <2>3, <4>1
        <5>2. PICK q : q = Len(a) + m
          OBVIOUS
        <5>3. q \in 1..(Len(a) + Len(b)) /\ ~(q <= Len(a)) /\ q - Len(a) = m
          BY <2>3, <5>1, <5>2
        <5>4. q \in DOMAIN d /\ d[q] = b[m]
          BY <2>3, <5>3
        <5> QED BY <5>2, <5>4
      <4> QED BY <4>1, <4>2
    <3>2. CASE i # j + 1
      <4>1. i \in 1..j
        BY <3>2
      <4>2. PICK k \in DOMAIN a : a[k] = x[i][m]
        BY <2>2, <4>1
      <4>3. k \in DOMAIN d /\ d[k] = a[k]
        <5> HIDE DEF a, b, d
        <5> QED BY <2>3
      <4> QED BY <4>2, <4>3
    <3> QED BY <3>1, <3>2
  <2> QED BY <2>4, <2>5
<1>6. \A j \in Nat : j \in T
  <2> HIDE DEF T
  <2> QED BY <1>4, <1>5, SetInduction
<1>7. n \in T
  BY <1>3, <1>6
<1> QED BY <1>3, <1>7 DEF c, N

\* A chain is as long as the lengths of its sequences, which sizes adds up.
LEMMA ChainedLength ==
  ASSUME NEW S, NEW x \in Seq(Seq(S)), NEW sizes \in Seq(Nat), Len(sizes) = Len(x),
         \A k \in 1..Len(x) : Len(x[k]) = sizes[k], NEW n \in 0..Len(x)
  PROVE  Len(Chained(x)[n]) = Sums(sizes)[n]
<1> DEFINE c == Chained(x)
           s == Sums(sizes)
           N == Len(x)
           Z == Seq(S)
           T == {j \in Nat : j <= N => Len(c[j]) = s[j]}
<1>0. N \in Nat /\ \A k \in 1..N : x[k] \in Z
  OBVIOUS
<1>1. /\ c[0] = <<>>
      /\ \A k \in 1..N : c[k] = Followed(c[k - 1], x[k])
      /\ \A k \in 0..N : c[k] \in Z
  BY ChainedEquation
<1>2. /\ s[0] = 0
      /\ \A k \in 1..N : s[k] = s[k - 1] + sizes[k]
  BY SumsOfNat
<1>3. \A k \in 1..N : Len(x[k]) = sizes[k]
  OBVIOUS
<1>4. n \in Nat /\ n <= N
  OBVIOUS
<1>5. Len(c[0]) = 0
  BY <1>1
<1> HIDE DEF c, s, N
<1>6. 0 \in T
  BY <1>2, <1>5
<1>7. ASSUME NEW j \in Nat, j \in T PROVE j + 1 \in T
  <2> SUFFICES ASSUME j + 1 <= N PROVE Len(c[j + 1]) = s[j + 1]
    OBVIOUS
  <2>1. j + 1 \in 1..N /\ j \in 0..N /\ j + 1 - 1 = j
    BY <1>0
  <2> DEFINE a == c[j]
             d == c[j + 1]
             e == x[j + 1]
  <2>2. a \in Z /\ e \in Z /\ d = Followed(a, e)
    BY <1>0, <1>1, <2>1
  <2>3. Len(a) = s[j] /\ Len(e) = sizes[j + 1] /\ s[j + 1] = s[j] + sizes[j + 1]
    BY <1>0, <1>2, <1>3, <1>7, <2>1
  <2> HIDE DEF a, d, e
  <2>4. a \in Seq(S) /\ e \in Seq(S)
    BY <2>2
  <2>5. Len(Followed(a, e)) = Len(a) + Len(e)
    BY ONLY <2>4, FollowedIs
  <2> QED BY <2>2, <2>3, <2>5 DEF d
<1>8. \A j \in Nat : j \in T
  <2> HIDE DEF T
  <2> QED BY <1>6, <1>7, SetInduction
<1>9. n \in T
  BY <1>4, <1>8
<1> QED BY <1>4, <1>9 DEF c, s, N

\* The elements of the first n sequences of x are in c, each behind the s of
\* those before its own.
Placed(c, s, x, sizes, n) == \A m \in 1..n : \A b \in 1..sizes[m] : c[s[m - 1] + b] = x[m][b]

\* The elements of a chain are in order: each of its sequences comes behind
\* those before it, whose lengths sizes adds up.
LEMMA ChainedPositions ==
  ASSUME NEW S, NEW x \in Seq(Seq(S)), NEW sizes \in Seq(Nat), Len(sizes) = Len(x),
         \A k \in 1..Len(x) : Len(x[k]) = sizes[k], NEW n \in 0..Len(x)
  PROVE  Placed(Chained(x)[n], Sums(sizes), x, sizes, n)
<1> DEFINE c == Chained(x)
           s == Sums(sizes)
           N == Len(x)
           Z == Seq(S)
           T == {j \in Nat : j <= N =>
                  \A l \in 1..j : \A q \in 1..sizes[l] : c[j][s[l - 1] + q] = x[l][q]}
<1>0. N \in Nat /\ \A k \in 1..N : x[k] \in Z
  OBVIOUS
<1>1. /\ c[0] = <<>>
      /\ \A k \in 1..N : c[k] = Followed(c[k - 1], x[k])
      /\ \A k \in 0..N : c[k] \in Z
  BY ChainedEquation
<1>2. /\ \A k \in 0..N : s[k] \in Nat
      /\ s[0] = 0
      /\ \A k \in 1..N : s[k] = s[k - 1] + sizes[k]
      /\ \A k \in 1..N : sizes[k] \in Nat
  BY SumsOfNat
<1>3. ASSUME NEW j \in 0..N, NEW l \in 1..j PROVE s[l] <= s[j]
  <2>1. l \in 0..Len(sizes) /\ j \in l..Len(sizes)
    OBVIOUS
  <2> QED BY <2>1, SumsMonotone
<1>4. \A k \in 1..N : Len(x[k]) = sizes[k]
  OBVIOUS
<1>5. n \in Nat /\ n <= N
  OBVIOUS
<1>6. \A j \in 0..N : Len(c[j]) = s[j]
  BY ChainedLength
<1> HIDE DEF c, s, N
<1>7. 0 \in T
  OBVIOUS
<1>8. ASSUME NEW j \in Nat, j \in T PROVE j + 1 \in T
  <2> SUFFICES ASSUME j + 1 <= N
               PROVE  \A l \in 1..(j + 1) : \A q \in 1..sizes[l] : c[j + 1][s[l - 1] + q] = x[l][q]
    OBVIOUS
  <2>1. j + 1 \in 1..N /\ j \in 0..N /\ j + 1 - 1 = j
    BY <1>0
  <2>2. \A l \in 1..j : \A q \in 1..sizes[l] : c[j][s[l - 1] + q] = x[l][q]
    BY <1>0, <1>8
  <2> DEFINE a == c[j]
             d == c[j + 1]
             e == x[j + 1]
  <2>3. /\ Len(d) = Len(a) + Len(e) /\ Len(a) \in Nat /\ Len(e) \in Nat
        /\ \A k \in 1..Len(a) + Len(e) : d[k] = IF k <= Len(a) THEN a[k] ELSE e[k - Len(a)]
    <3>1. a \in Z /\ e \in Z /\ d = Followed(a, e)
      BY <1>0, <1>1, <2>1
    <3> HIDE DEF a, d, e
    <3>2. a \in Seq(S) /\ e \in Seq(S)
      BY <3>1
    <3>3. /\ Len(a) \in Nat /\ Len(e) \in Nat
          /\ Len(Followed(a, e)) = Len(a) + Len(e)
          /\ \A k \in 1..Len(a) + Len(e) :
               Followed(a, e)[k] = IF k <= Len(a) THEN a[k] ELSE e[k - Len(a)]
      BY ONLY <3>2, FollowedIs
    <3> QED BY <3>1, <3>3
  <2>4. Len(a) = s[j] /\ Len(e) = sizes[j + 1] /\ s[j + 1] = s[j] + sizes[j + 1]
    BY <1>2, <1>4, <1>6, <2>1
  <2>5. ASSUME NEW l \in 1..(j + 1), NEW q \in 1..sizes[l] PROVE d[s[l - 1] + q] = x[l][q]
    <3>1. l \in 1..N /\ l - 1 \in 0..N
      BY <1>0, <2>1
    <3>2. /\ s[l - 1] \in Nat /\ sizes[l] \in Nat /\ s[l] = s[l - 1] + sizes[l]
      BY <1>2, <3>1
    <3> DEFINE p == s[l - 1] + q
    <3>3. p \in Nat /\ p >= 1 /\ p <= s[l]
      BY <3>2
    <3>4. CASE l = j + 1
      <4>1. p - Len(a) = q /\ p \in 1..Len(a) + Len(e) /\ ~(p <= Len(a))
        <5>1. s[l - 1] = Len(a) /\ sizes[l] = Len(e)
          BY <2>1, <2>4, <3>4
        <5> HIDE DEF a, e
        <5> QED BY <2>3, <3>2, <5>1
      <4>2. d[p] = e[p - Len(a)]
        <5> HIDE DEF a, d, e, p
        <5> QED BY <2>3, <4>1
      <4>3. d[p] = e[q]
        BY <4>1, <4>2
      <4> QED BY <3>4, <4>3
    <3>5. CASE l # j + 1
      <4>1. l \in 1..j
        BY <3>5
      <4>2. s[l] <= s[j]
        BY <1>3, <2>1, <4>1
      <4>3. a[p] = x[l][q]
        BY <2>2, <4>1
      <4>4. p \in 1..Len(a) + Len(e) /\ p <= Len(a)
        <5> HIDE DEF p
        <5> DEFINE A == Len(a)
                   E == Len(e)
        <5>1. A \in Nat /\ E \in Nat /\ A = s[j]
          BY <2>3, <2>4
        <5>2. s[l] \in Nat
          <6>1. l \in 0..N
            BY <3>1, <1>0
          <6> QED BY <6>1, <1>2
        <5> HIDE DEF A, E
        <5>3. p <= A
          BY <3>3, <4>2, <5>1, <5>2
        <5>4. p \in 1..A + E
          BY <3>3, <5>1, <5>3
        <5> QED BY <5>3, <5>4 DEF A, E
      <4>5. d[p] = a[p]
        <5> HIDE DEF a, d, e, p
        <5> QED BY <2>3, <4>4
      <4> QED BY <4>3, <4>5
    <3> QED BY <3>4, <3>5
  <2> QED BY <2>5
<1>9. \A j \in Nat : j \in T
  <2> HIDE DEF T
  <2> QED BY <1>7, <1>8, SetInduction
<1>10. n \in T
  BY <1>5, <1>9
<1> QED BY <1>5, <1>10 DEF Placed, c, s, N

\* A position up to the total is in one of the elements that are added up.
LEMMA SumsReach ==
  ASSUME NEW x \in Seq(Nat), NEW p \in 1..Total(x)
  PROVE  \E k \in 1..Len(x) : Sums(x)[k - 1] < p /\ p <= Sums(x)[k]
<1> DEFINE n == Len(x)
           s == Sums(x)
           T == {k \in 0..n : p <= s[k]}
<1>1. n \in Nat /\ s[0] = 0 /\ \A k \in 0..n : s[k] \in Nat
  BY SumsOfNat
<1>2. p \in Nat /\ p >= 1 /\ p <= s[n]
  <2>1. Total(x) \in Nat
    BY TotalType
  <2> QED BY <2>1 DEF Total
<1> HIDE DEF n, s
<1>3. T \subseteq Nat /\ n \in T
  BY <1>1, <1>2
<1>4. PICK k \in T : \A m \in T : k <= m
  <2> HIDE DEF T
  <2> QED BY <1>3, LeastNatural
<1>5. k \in 1..n
  BY <1>1, <1>2, <1>4
<1>6. k - 1 \in 0..n /\ k - 1 \notin T
  <2>1. k \in Nat /\ k - 1 \in 0..n /\ ~(k <= k - 1)
    BY <1>1, <1>5
  <2> QED BY <1>4, <2>1
<1>7. s[k - 1] < p /\ p <= s[k]
  BY <1>1, <1>2, <1>4, <1>5, <1>6
<1> QED BY <1>5, <1>7 DEF n, s

=============================================================================
