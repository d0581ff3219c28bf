--------------------------- MODULE TransformProofs ---------------------------
(***************************************************************************)
(* What is done to the bytes and to the name of a file on their way to the *)
(* caller, for every size of a byte, an operand and a page: the filters    *)
(* lose nothing, a destination never leads out of the root, and cleaning   *)
(* it once is enough.                                                      *)
(***************************************************************************)
EXTENDS InstructionFilter, PathClean, DataInduction, SequenceTheorems, FiniteSetTheorems

-----------------------------------------------------------------------------
(* Division.                                                               *)

LEMMA Division ==
  ASSUME NEW a \in Int, NEW m \in Nat \ {0}
  PROVE  a % m \in 0..(m - 1) /\ a \div m \in Int /\ a = m * (a \div m) + (a % m)
OBVIOUS

LEMMA DivisionIs ==
  ASSUME NEW m \in Nat \ {0}, NEW q \in Int, NEW r \in 0..(m - 1)
  PROVE  (m * q + r) % m = r /\ (m * q + r) \div m = q
OBVIOUS

LEMMA QuotientOfNat ==
  ASSUME NEW a \in Nat, NEW m \in Nat \ {0}
  PROVE  a \div m \in Nat
OBVIOUS

LEMMA DivisionOfNat ==
  ASSUME NEW m \in Nat \ {0}
  PROVE  \A a \in Nat :
           a % m \in Nat /\ a % m \in 0..(m - 1) /\ a \div m \in Nat /\ a = m * (a \div m) + (a % m)
BY Division, QuotientOfNat

LEMMA RemainderType ==
  ASSUME NEW m \in Nat \ {0}
  PROVE  \A a \in Int : a % m \in Nat /\ a % m \in 0..(m - 1)
BY Division

-----------------------------------------------------------------------------
(* Powers.                                                                 *)

IsPower(f, n) == f = [k \in 0..n |-> IF k = 0 THEN 1 ELSE Base * f[k - 1]]

LEMMA PowerExists ==
  ASSUME NEW n \in Nat
  PROVE  \E f : IsPower(f, n)
<1> DEFINE S == {m \in Nat : \E f : IsPower(f, m)}
<1>1. 0 \in S
  <2> DEFINE f == [k \in 0..0 |-> 1]
  <2>1. IsPower(f, 0)
    BY DEF IsPower
  <2> QED BY <2>1
<1>2. ASSUME NEW m \in Nat, m \in S PROVE m + 1 \in S
  <2>1. PICK f : IsPower(f, m)
    BY <1>2
  <2> DEFINE g == [k \in 0..(m + 1) |-> IF k = m + 1 THEN Base * f[m] ELSE f[k]]
  <2>2. \A k \in 0..(m + 1) : g[k] = IF k = 0 THEN 1 ELSE Base * g[k - 1]
    BY <2>1 DEF IsPower
  <2>3. g = [k \in 0..(m + 1) |-> g[k]]
    OBVIOUS
  <2>4. IsPower(g, m + 1)
    <3> HIDE DEF g
    <3> QED BY <2>2, <2>3 DEF IsPower
  <2> HIDE DEF g
  <2> QED BY <2>4
<1>3. \A m \in Nat : m \in S
  <2> HIDE DEF S
  <2> QED BY <1>1, <1>2, SetInduction
<1> QED BY <1>3

LEMMA PowerEquation ==
  /\ Power[0] = 1
  /\ \A k \in 1..OperandLen : Power[k] = Base * Power[k - 1]
<1>1. OperandLen \in Nat
  BY FilterAssumption
<1>2. \E f : IsPower(f, OperandLen)
  BY <1>1, PowerExists
<1>3. IsPower(Power, OperandLen)
  BY <1>2 DEF IsPower, Power
<1> QED BY <1>1, <1>3 DEF IsPower

LEMMA PowerType ==
  \A k \in 0..OperandLen : Power[k] \in Nat \ {0}
<1> DEFINE S == {k \in Nat : k <= OperandLen => Power[k] \in Nat \ {0}}
<1>1. OperandLen \in Nat /\ Base \in Nat \ {0}
  BY FilterAssumption
<1>2. 0 \in S
  BY PowerEquation
<1>3. ASSUME NEW k \in Nat, k \in S PROVE k + 1 \in S
  <2> SUFFICES ASSUME k + 1 <= OperandLen PROVE Power[k + 1] \in Nat \ {0}
    OBVIOUS
  <2>1. Power[k] \in Nat \ {0} /\ Power[k + 1] = Base * Power[k]
    BY <1>1, <1>3, PowerEquation
  <2> QED BY <1>1, <2>1
<1>4. \A k \in Nat : k \in S
  <2> HIDE DEF S
  <2> QED BY <1>2, <1>3, SetInduction
<1> QED BY <1>1, <1>4

\* More bytes are a multiple of fewer.
LEMMA PowersDivide ==
  ASSUME NEW n \in 0..OperandLen, NEW k \in 0..n
  PROVE  \E c \in Nat \ {0} : Power[n] = Power[k] * c
<1> DEFINE S == {m \in Nat : k + m <= OperandLen => \E c \in Nat \ {0} : Power[k + m] = Power[k] * c}
<1>1. OperandLen \in Nat /\ Base \in Nat \ {0} /\ k \in Nat /\ n \in Nat
  BY FilterAssumption
<1>2. Power[k] \in Nat \ {0}
  BY <1>1, PowerType
<1>3. 0 \in S
  <2>1. Power[k + 0] = Power[k] * 1
    BY <1>1, <1>2
  <2> QED BY <2>1
<1>4. ASSUME NEW m \in Nat, m \in S PROVE m + 1 \in S
  <2> SUFFICES ASSUME k + (m + 1) <= OperandLen
               PROVE  \E c \in Nat \ {0} : Power[k + (m + 1)] = Power[k] * c
    OBVIOUS
  <2>1. PICK c \in Nat \ {0} : Power[k + m] = Power[k] * c
    BY <1>1, <1>4
  <2>2. Power[k + (m + 1)] = Base * Power[k + m]
    <3>1. k + (m + 1) \in 1..OperandLen /\ (k + (m + 1)) - 1 = k + m
      BY <1>1
    <3> QED BY <3>1, PowerEquation
  <2>3. Base * (Power[k] * c) = Power[k] * (Base * c)
    BY <1>1, <1>2
  <2>4. Base * c \in Nat \ {0}
    BY <1>1
  <2> QED BY <2>1, <2>2, <2>3, <2>4
<1>5. \A m \in Nat : m \in S
  <2> HIDE DEF S
  <2> QED BY <1>3, <1>4, SetInduction
<1>6. n - k \in Nat /\ k + (n - k) = n
  BY <1>1
<1> QED BY <1>1, <1>5, <1>6

-----------------------------------------------------------------------------
(* Bytes and the value they have together.                                 *)

\* The bytes of s that Value looks at.
HasBytes(s, n, m) == \A k \in 1..m : s[n + 1 + k] \in Byte

Terms(s, n, m) == [k \in 1..m |-> Power[k - 1] * s[n + 1 + k]]

LEMMA TermsType ==
  ASSUME NEW m \in 0..OperandLen, NEW n \in Nat, NEW s, HasBytes(s, n, m)
  PROVE  /\ Terms(s, n, m) \in Seq(Nat) /\ Len(Terms(s, n, m)) = m
         /\ \A k \in 1..m : Terms(s, n, m)[k] = Power[k - 1] * s[n + 1 + k]
<1>1. OperandLen \in Nat /\ Base \in Nat /\ m \in Nat
  BY FilterAssumption
<1>2. \A k \in 1..m : Power[k - 1] * s[n + 1 + k] \in Nat
  <2> TAKE k \in 1..m
  <2>1. k - 1 \in 0..OperandLen
    BY <1>1
  <2>2. Power[k - 1] \in Nat
    BY <2>1, PowerType
  <2>3. s[n + 1 + k] \in Nat
    BY <1>1 DEF HasBytes, Byte
  <2> QED BY <2>2, <2>3
<1>3. Terms(s, n, m) \in [1..m -> Nat]
  BY <1>2 DEF Terms
<1> QED BY <1>1, <1>3 DEF Terms

\* The sum of the first terms does not depend on the others.
LEMMA TermsPrefix ==
  ASSUME NEW m \in 0..OperandLen, NEW n \in Nat, NEW s, HasBytes(s, n, m), NEW j \in 0..m
  PROVE  Sums(Terms(s, n, m))[j] = Value(s, n, j)
<1> DEFINE x == Terms(s, n, m)
           y == Terms(s, n, j)
           S == {k \in Nat : k <= j => Sums(x)[k] = Sums(y)[k]}
<1>1. OperandLen \in Nat /\ m \in Nat /\ j \in Nat /\ j \in 0..OperandLen
  BY FilterAssumption
<1>2. HasBytes(s, n, j)
  BY <1>1 DEF HasBytes
<1>3. /\ x \in Seq(Nat) /\ Len(x) = m /\ y \in Seq(Nat) /\ Len(y) = j
      /\ \A k \in 1..j : x[k] = y[k]
  <2>1. x \in Seq(Nat) /\ Len(x) = m /\ \A k \in 1..m : x[k] = Power[k - 1] * s[n + 1 + k]
    BY TermsType
  <2>2. y \in Seq(Nat) /\ Len(y) = j /\ \A k \in 1..j : y[k] = Power[k - 1] * s[n + 1 + k]
    BY <1>1, <1>2, TermsType
  <2> HIDE DEF x, y
  <2> QED BY <1>1, <2>1, <2>2
<1> HIDE DEF x, y
<1>4. 0 \in S
  BY <1>3, SumsOfNat
<1>5. ASSUME NEW k \in Nat, k \in S PROVE k + 1 \in S
  <2> SUFFICES ASSUME k + 1 <= j PROVE Sums(x)[k + 1] = Sums(y)[k + 1]
    OBVIOUS
  <2>1. k + 1 \in 1..j /\ k + 1 \in 1..m /\ (k + 1) - 1 = k /\ k <= j
    BY <1>1
  <2>2. Sums(x)[k + 1] = Sums(x)[k] + x[k + 1] /\ Sums(y)[k + 1] = Sums(y)[k] + y[k + 1]
    BY <1>3, <2>1, SumsOfNat
  <2>3. Sums(x)[k] = Sums(y)[k] /\ x[k + 1] = y[k + 1]
    BY <1>3, <1>5, <2>1
  <2> QED BY <2>2, <2>3
<1>6. \A k \in Nat : k \in S
  <2> HIDE DEF S
  <2> QED BY <1>4, <1>5, SetInduction
<1>7. Sums(x)[j] = Sums(y)[j]
  BY <1>1, <1>6
<1>8. Value(s, n, j) = Sums(y)[Len(y)]
  BY DEF Value, Total, Terms, y
<1> QED BY <1>3, <1>7, <1>8 DEF x

LEMMA ValueEquation ==
  ASSUME NEW m \in 0..OperandLen, NEW n \in Nat, NEW s, HasBytes(s, n, m)
  PROVE  /\ Value(s, n, 0) = 0
         /\ \A k \in 0..m : Value(s, n, k) \in Nat
         /\ \A k \in 1..m : Value(s, n, k) = Value(s, n, k - 1) + Power[k - 1] * s[n + 1 + k]
<1> DEFINE x == Terms(s, n, m)
<1>1. m \in Nat
  OBVIOUS
<1>2. x \in Seq(Nat) /\ Len(x) = m /\ \A k \in 1..m : x[k] = Power[k - 1] * s[n + 1 + k]
  BY TermsType
<1>3. \A k \in 0..m : Sums(x)[k] = Value(s, n, k)
  BY TermsPrefix
<1> HIDE DEF x
<1>4. /\ \A k \in 0..m : Sums(x)[k] \in Nat
      /\ Sums(x)[0] = 0
      /\ \A k \in 1..m : Sums(x)[k] = Sums(x)[k - 1] + x[k]
  BY <1>2, SumsOfNat
<1>5. 0 \in 0..m /\ \A k \in 1..m : k \in 0..m /\ k - 1 \in 0..m
  BY <1>1
<1> QED BY <1>2, <1>3, <1>4, <1>5

\* Only the bytes of the operand count.
LEMMA ValueSame ==
  ASSUME NEW m \in Nat, NEW n \in Nat, NEW s, NEW t, \A k \in 1..m : s[n + 1 + k] = t[n + 1 + k]
  PROVE  Value(s, n, m) = Value(t, n, m)
<1>1. [k \in 1..m |-> Power[k - 1] * s[n + 1 + k]] = [k \in 1..m |-> Power[k - 1] * t[n + 1 + k]]
  OBVIOUS
<1> QED BY <1>1 DEF Value

\* m bytes make less than Power[m].
LEMMA ValueBelow ==
  ASSUME NEW m \in 0..OperandLen, NEW n \in Nat, NEW s, HasBytes(s, n, m)
  PROVE  \A k \in 0..m : Value(s, n, k) \in 0..(Power[k] - 1)
<1> DEFINE S == {k \in Nat : k <= m => Value(s, n, k) \in 0..(Power[k] - 1)}
<1>1. OperandLen \in Nat /\ Base \in Nat \ {0} /\ m \in Nat
  BY FilterAssumption
<1>2. 0 \in S
  <2>1. Value(s, n, 0) = 0 /\ Power[0] = 1
    BY ValueEquation, PowerEquation
  <2> QED BY <2>1
<1>3. ASSUME NEW k \in Nat, k \in S PROVE k + 1 \in S
  <2> SUFFICES ASSUME k + 1 <= m PROVE Value(s, n, k + 1) \in 0..(Power[k + 1] - 1)
    OBVIOUS
  <2>1. k + 1 \in 1..m /\ k + 1 \in 1..OperandLen /\ k \in 0..OperandLen /\ (k + 1) - 1 = k
    BY <1>1
  <2>2. PICK v \in Nat, w \in Nat, b \in 0..(Base - 1), p \in Nat \ {0}, q \in Nat :
          /\ v = Value(s, n, k) /\ w = Value(s, n, k + 1) /\ b = s[n + 1 + (k + 1)]
          /\ p = Power[k] /\ q = Power[k + 1]
    <3>1. Value(s, n, k) \in Nat /\ Value(s, n, k + 1) \in Nat
      BY <1>1, <2>1, ValueEquation
    <3>2. s[n + 1 + (k + 1)] \in 0..(Base - 1)
      BY <2>1 DEF HasBytes, Byte
    <3>3. Power[k] \in Nat \ {0} /\ Power[k + 1] \in Nat
      BY <1>1, <2>1, PowerType
    <3> QED BY <3>1, <3>2, <3>3
  <2>3. w = v + p * b /\ q = Base * p /\ v <= p - 1
    <3>1. Value(s, n, k + 1) = Value(s, n, k) + Power[k] * s[n + 1 + (k + 1)]
      <4>1. \A j \in 1..m : Value(s, n, j) = Value(s, n, j - 1) + Power[j - 1] * s[n + 1 + j]
        BY ValueEquation
      <4> QED BY <2>1, <4>1
    <3>2. Power[k + 1] = Base * Power[k]
      BY <2>1, PowerEquation
    <3>3. Value(s, n, k) \in 0..(Power[k] - 1)
      BY <1>1, <1>3, <2>1
    <3> QED BY <2>2, <3>1, <3>2, <3>3
  <2>4. p * b <= p * (Base - 1)
    BY <1>1
  <2>5. p * (Base - 1) = q - p
    BY <1>1, <2>3
  <2>6. w \in 0..(q - 1)
    <3> HIDE <2>2
    <3>1. p * b \in Nat
      BY <1>1
    <3> QED BY <2>3, <2>4, <2>5, <3>1
  <2> QED BY <2>2, <2>6
<1>4. \A k \in Nat : k \in S
  <2> HIDE DEF S
  <2> QED BY <1>2, <1>3, SetInduction
<1> QED BY <1>1, <1>4

\* What is above the first k bytes.
LEMMA ValueAbove ==
  ASSUME NEW m \in 0..OperandLen, NEW n \in Nat, NEW s, HasBytes(s, n, m), NEW k \in 0..m
  PROVE  \E w \in Nat : Value(s, n, m) = Value(s, n, k) + Power[k] * w
<1> DEFINE S == {j \in Nat : k + j <= m => \E w \in Nat : Value(s, n, k + j) = Value(s, n, k) + Power[k] * w}
<1>1. OperandLen \in Nat /\ Base \in Nat \ {0} /\ m \in Nat /\ k \in Nat /\ k \in 0..OperandLen
  BY FilterAssumption
<1>2. Power[k] \in Nat \ {0} /\ Value(s, n, k) \in Nat
  BY <1>1, PowerType, ValueEquation
<1>3. 0 \in S
  <2>1. Value(s, n, k + 0) = Value(s, n, k) + Power[k] * 0
    BY <1>1, <1>2
  <2> QED BY <2>1
<1>4. ASSUME NEW j \in Nat, j \in S PROVE j + 1 \in S
  <2> SUFFICES ASSUME k + (j + 1) <= m
               PROVE  \E w \in Nat : Value(s, n, k + (j + 1)) = Value(s, n, k) + Power[k] * w
    OBVIOUS
  <2>1. PICK w \in Nat : Value(s, n, k + j) = Value(s, n, k) + Power[k] * w
    BY <1>1, <1>4
  <2>2. k + (j + 1) \in 1..m /\ (k + (j + 1)) - 1 = k + j /\ k + j \in 0..OperandLen /\ k \in 0..(k + j)
    BY <1>1
  <2>3. PICK b \in Nat : b = s[n + 1 + (k + (j + 1))]
    <3>1. s[n + 1 + (k + (j + 1))] \in 0..(Base - 1)
      BY <2>2 DEF HasBytes, Byte
    <3> QED BY <1>1, <3>1
  <2>4. Value(s, n, k + (j + 1)) = Value(s, n, k + j) + Power[k + j] * b
    BY <2>2, <2>3, ValueEquation
  <2>5. PICK c \in Nat \ {0} : Power[k + j] = Power[k] * c
    BY <2>2, PowersDivide
  <2>6. Power[k] * w + (Power[k] * c) * b = Power[k] * (w + c * b)
    BY <1>2
  <2>7. w + c * b \in Nat
    OBVIOUS
  <2>8. /\ Value(s, n, k + (j + 1)) = (Value(s, n, k) + Power[k] * w) + (Power[k] * c) * b
        /\ Power[k] * w \in Nat /\ (Power[k] * c) * b \in Nat
    BY <1>2, <2>1, <2>4, <2>5
  <2>9. Value(s, n, k + (j + 1)) = Value(s, n, k) + Power[k] * (w + c * b)
    BY <1>2, <2>6, <2>8
  <2> QED BY <2>7, <2>9
<1>5. \A j \in Nat : j \in S
  <2> HIDE DEF S
  <2> QED BY <1>3, <1>4, SetInduction
<1>6. m - k \in Nat /\ k + (m - k) = m /\ m <= m
  BY <1>1
<1>7. m - k \in S
  <2> HIDE DEF S
  <2> QED BY <1>5, <1>6
<1> QED BY <1>1, <1>6, <1>7

\* Digits are bytes.
LEMMA DigitsType ==
  ASSUME NEW a \in Nat, NEW m \in 0..OperandLen
  PROVE  /\ Digits(a, m) \in Seq(Byte) /\ Len(Digits(a, m)) = m
         /\ \A k \in 1..m : Digits(a, m)[k] = (a \div Power[k - 1]) % Base
<1>1. OperandLen \in Nat /\ Base \in Nat \ {0} /\ m \in Nat
  BY FilterAssumption
<1>2. \A k \in 1..m : (a \div Power[k - 1]) % Base \in Byte
  <2> TAKE k \in 1..m
  <2>1. k - 1 \in 0..OperandLen
    BY <1>1
  <2>2. Power[k - 1] \in Nat \ {0}
    BY <2>1, PowerType
  <2>3. a \div Power[k - 1] \in Nat
    BY <2>2, QuotientOfNat
  <2>4. (a \div Power[k - 1]) % Base \in 0..(Base - 1)
    <3>1. \A j \in Nat : j % Base \in 0..(Base - 1)
      BY <1>1, Division
    <3> QED BY <2>3, <3>1
  <2> QED BY <2>4 DEF Byte
<1>3. Digits(a, m) \in [1..m -> Byte]
  BY <1>2 DEF Digits
<1> QED BY <1>1, <1>3 DEF Digits

\* The digits of the value of some bytes are these bytes.
LEMMA DigitsOfValue ==
  ASSUME NEW m \in 0..OperandLen, NEW n \in Nat, NEW s, HasBytes(s, n, m), NEW k \in 1..m
  PROVE  (Value(s, n, m) \div Power[k - 1]) % Base = s[n + 1 + k]
<1>1. OperandLen \in Nat /\ Base \in Nat \ {0} /\ m \in Nat /\ k \in Nat
      /\ k \in 0..m /\ k - 1 \in 0..m /\ k \in 1..OperandLen /\ k - 1 \in 0..OperandLen
  BY FilterAssumption
<1>2. PICK w \in Nat : Value(s, n, m) = Value(s, n, k) + Power[k] * w
  BY <1>1, ValueAbove
<1>3. PICK p \in Nat \ {0}, b \in 0..(Base - 1), v \in Nat :
        p = Power[k - 1] /\ b = s[n + 1 + k] /\ v = Value(s, n, k - 1) /\ v \in 0..(p - 1)
  <2>1. Power[k - 1] \in Nat \ {0}
    BY <1>1, PowerType
  <2>2. s[n + 1 + k] \in 0..(Base - 1)
    BY DEF HasBytes, Byte
  <2>3. Value(s, n, k - 1) \in 0..(Power[k - 1] - 1)
    BY <1>1, ValueBelow
  <2> QED BY <2>1, <2>2, <2>3
<1>4. Value(s, n, k) = v + p * b /\ Power[k] = Base * p
  BY <1>1, <1>3, ValueEquation, PowerEquation
<1>5. (v + p * b) + (Base * p) * w = p * (Base * w + b) + v
  BY <1>1
<1>6. Base * w + b \in Int
  BY <1>1
<1>7. (p * (Base * w + b) + v) \div p = Base * w + b
  <2>1. PICK q \in Int : q = Base * w + b
    BY <1>6
  <2>2. (p * q + v) \div p = q
    BY <1>3, DivisionIs
  <2> QED BY <2>1, <2>2
<1>8. (Base * w + b) % Base = b
  BY <1>1, DivisionIs
<1> QED BY <1>2, <1>3, <1>4, <1>5, <1>7, <1>8

\* The value of the digits of a is a, when there are enough of them.
LEMMA ValueOfDigits ==
  ASSUME NEW m \in 0..OperandLen, NEW n \in Nat, NEW s, NEW a \in 0..(Power[m] - 1),
         \A k \in 1..m : s[n + 1 + k] = Digits(a, m)[k]
  PROVE  Value(s, n, m) = a
<1> DEFINE S == {k \in Nat : k <= m => Value(s, n, k) = a % Power[k]}
<1>1. OperandLen \in Nat /\ Base \in Nat \ {0} /\ m \in Nat /\ Power[m] \in Nat \ {0} /\ a \in Nat
  BY FilterAssumption, PowerType
<1>2. /\ Len(Digits(a, m)) = m /\ Digits(a, m) \in Seq(Byte)
      /\ \A k \in 1..m : Digits(a, m)[k] = (a \div Power[k - 1]) % Base
  BY <1>1, DigitsType
<1>3. HasBytes(s, n, m)
  <2>1. \A k \in 1..m : Digits(a, m)[k] \in Byte
    BY <1>2, ElementOfSeq
  <2> QED BY <2>1 DEF HasBytes
<1>4. 0 \in S
  <2>1. Value(s, n, 0) = 0 /\ Power[0] = 1
    BY <1>3, ValueEquation, PowerEquation
  <2>2. a % 1 = 0
    BY <1>1
  <2> QED BY <2>1, <2>2
<1>5. ASSUME NEW k \in Nat, k \in S PROVE k + 1 \in S
  <2> SUFFICES ASSUME k + 1 <= m PROVE Value(s, n, k + 1) = a % Power[k + 1]
    OBVIOUS
  <2>1. k + 1 \in 1..m /\ k + 1 \in 1..OperandLen /\ k \in 0..OperandLen /\ (k + 1) - 1 = k
    BY <1>1
  <2>2. PICK p \in Nat \ {0} : p = Power[k]
    BY <2>1, PowerType
  <2>3. Power[k + 1] = Base * p
    BY <2>1, <2>2, PowerEquation
  <2>4. Value(s, n, k + 1) = (a % p) + p * ((a \div p) % Base)
    <3>1. Value(s, n, k + 1) = Value(s, n, k) + Power[k] * s[n + 1 + (k + 1)]
      <4>1. \A j \in 1..m : Value(s, n, j) = Value(s, n, j - 1) + Power[j - 1] * s[n + 1 + j]
        BY <1>3, ValueEquation
      <4> QED BY <2>1, <4>1
    <3>2. Value(s, n, k) = a % p
      BY <1>5, <1>1, <2>1, <2>2
    <3>3. s[n + 1 + (k + 1)] = (a \div p) % Base
      BY <1>2, <2>1, <2>2
    <3> QED BY <2>2, <3>1, <3>2, <3>3
  <2>5. PICK q \in Int, r \in 0..(p - 1) : a = p * q + r /\ a % p = r /\ a \div p = q
    <3>1. a % p \in 0..(p - 1) /\ a \div p \in Int /\ a = p * (a \div p) + (a % p)
      BY <1>1, Division
    <3> QED BY <3>1
  <2>6. PICK t \in Int, b \in 0..(Base - 1) : q = Base * t + b /\ q % Base = b
    BY <1>1, Division
  <2>7. a = (Base * p) * t + (r + p * b)
    <3>1. p * (Base * t + b) + r = (Base * p) * t + (r + p * b)
      BY <1>1
    <3> QED BY <2>5, <2>6, <3>1
  <2>8. r + p * b \in 0..(Base * p - 1) /\ Base * p \in Nat \ {0}
    <3>1. p * b <= p * (Base - 1)
      BY <1>1
    <3>2. p * (Base - 1) = Base * p - p /\ p * b \in Nat /\ Base * p \in Nat
      BY <1>1
    <3>3. Base * p # 0
      BY <1>1
    <3> QED BY <3>1, <3>2, <3>3
  <2>9. a % (Base * p) = r + p * b
    BY <2>7, <2>8, DivisionIs
  <2> QED BY <2>3, <2>4, <2>5, <2>6, <2>9
<1>6. \A k \in Nat : k \in S
  <2> HIDE DEF S
  <2> QED BY <1>4, <1>5, SetInduction
<1>7. a % Power[m] = a
  BY <1>1
<1> QED BY <1>1, <1>6, <1>7

-----------------------------------------------------------------------------
(* The filters backwards.                                                  *)

LEMMA FilterConstants ==
  /\ Base \in Nat \ {0} /\ OperandLen \in Nat \ {0, 1} /\ OperandLen - 1 \in 0..OperandLen
  /\ PageSize \in Nat \ {0} /\ PageSize > OperandLen
  /\ AddressRange \in Nat \ {0} /\ Word \in Nat \ {0}
<1>1. Base \in Nat \ {0} /\ OperandLen \in Nat \ {0, 1} /\ PageSize \in Nat \ {0} /\ PageSize > OperandLen
  BY FilterAssumption
<1>2. OperandLen - 1 \in 0..OperandLen /\ OperandLen \in 0..OperandLen
  BY <1>1
<1>3. Power[OperandLen - 1] \in Nat \ {0} /\ Power[OperandLen] \in Nat \ {0}
  BY <1>2, PowerType
<1> QED BY <1>1, <1>2, <1>3 DEF AddressRange, Word

\* The bytes behind n, as many as there are.
LEMMA BytesOf ==
  ASSUME NEW s \in Seq(Byte), NEW n \in Nat, NEW m \in Nat, n + 1 + m <= Len(s)
  PROVE  HasBytes(s, n, m)
BY DEF HasBytes

LEMMA RaiseOldType ==
  ASSUME NEW s \in Seq(Byte), NEW n \in 0..(Len(s) - 1)
  PROVE  RaiseOld(s, n) \in Seq(Byte) /\ Len(RaiseOld(s, n)) \in 1..(Len(s) - n)
<1> DEFINE m == Shorter(OperandLen, Len(s) - n - 1)
           a == (Value(s, n, m) + n + OperandLen + 1) % Power[m]
<1>1. Len(s) \in Nat /\ n \in Nat /\ OperandLen \in Nat
  BY FilterConstants
<1>2. m \in 0..OperandLen /\ m + n + 1 <= Len(s) /\ m \in Nat
  BY <1>1 DEF Shorter
<1> HIDE DEF m
<1>3. HasBytes(s, n, m)
  BY <1>1, <1>2, BytesOf
<1>4. Value(s, n, m) \in Nat
  <2>1. m \in 0..m
    BY <1>2
  <2> QED BY <1>1, <1>2, <1>3, <2>1, ValueEquation
<1>5. Power[m] \in Nat \ {0}
  BY <1>2, PowerType
<1>6. a \in Nat
  <2>1. PICK x \in Nat, p \in Nat \ {0} : x = Value(s, n, m) + n + OperandLen + 1 /\ p = Power[m]
    BY <1>1, <1>4, <1>5
  <2>2. x % p \in Nat
    BY RemainderType
  <2> QED BY <2>1, <2>2
<1>7. Digits(a, m) \in Seq(Byte) /\ Len(Digits(a, m)) = m
  <2> HIDE DEF a
  <2> QED BY <1>2, <1>6, DigitsType
<1>8. <<s[n + 1]>> \in Seq(Byte) /\ Len(<<s[n + 1]>>) = 1
  <2>1. s[n + 1] \in Byte
    BY <1>1, ElementOfSeq
  <2> QED BY <2>1
<1>9. RaiseOld(s, n) = <<s[n + 1]>> \o Digits(a, m)
  BY DEF RaiseOld, m, a
<1> HIDE DEF a
<1>10. RaiseOld(s, n) \in Seq(Byte) /\ Len(RaiseOld(s, n)) = 1 + m
  BY <1>7, <1>8, <1>9, ConcatProperties
<1> QED BY <1>1, <1>2, <1>10

LEMMA RaiseNewType ==
  ASSUME NEW s \in Seq(Byte), NEW n \in Nat, n + 1 + OperandLen <= Len(s), NEW f
  PROVE  RaiseNew(f, s, n) \in Seq(Byte) /\ Len(RaiseNew(f, s, n)) = OperandLen + 1
<1> DEFINE m == OperandLen - 1
           a == (Address(s, n) + n + OperandLen + 1) % AddressRange
           high == IF f = "5309" /\ IsNegative(Address(s, n)) THEN Base - 1 - High(s, n) ELSE High(s, n)
<1>1. OperandLen \in Nat /\ m \in 0..OperandLen /\ m \in Nat /\ n + 1 + m <= Len(s) /\ Len(s) \in Nat
  BY FilterConstants
<1>2. Address(s, n) \in Nat
  <2>1. HasBytes(s, n, m)
    BY <1>1, BytesOf
  <2>2. Value(s, n, m) \in Nat
    <3> HIDE DEF m
    <3>1. m \in 0..m
      BY <1>1
    <3> QED BY <1>1, <2>1, <3>1, ValueEquation
  <2> QED BY <2>2 DEF Address
<1>3. a \in Nat
  <2>1. PICK x \in Nat, p \in Nat \ {0} : x = Address(s, n) + n + OperandLen + 1 /\ p = AddressRange
    BY <1>1, <1>2, FilterConstants
  <2>2. x % p \in Nat
    BY RemainderType
  <2> QED BY <2>1, <2>2
<1>4. Digits(a, m) \in Seq(Byte) /\ Len(Digits(a, m)) = m
  <2> HIDE DEF a, m
  <2> QED BY <1>1, <1>3, DigitsType
<1>5. s[n + 1] \in Byte /\ High(s, n) \in Byte
  <2>1. n + 1 \in 1..Len(s) /\ n + 1 + OperandLen \in 1..Len(s)
    BY <1>1
  <2> QED BY <2>1, ElementOfSeq DEF High
<1>6. high \in Byte
  BY <1>5, FilterConstants DEF Byte
<1>7. RaiseNew(f, s, n) = (<<s[n + 1]>> \o Digits(a, m)) \o <<high>>
  BY DEF RaiseNew
<1> HIDE DEF a, high, m
<1>8. <<s[n + 1]>> \in Seq(Byte) /\ Len(<<s[n + 1]>>) = 1 /\ <<high>> \in Seq(Byte) /\ Len(<<high>>) = 1
  BY <1>5, <1>6
<1>9. <<s[n + 1]>> \o Digits(a, m) \in Seq(Byte) /\ Len(<<s[n + 1]>> \o Digits(a, m)) = 1 + m
  BY <1>4, <1>8, ConcatProperties
<1>10. RaiseNew(f, s, n) \in Seq(Byte) /\ Len(RaiseNew(f, s, n)) = (1 + m) + 1
  BY <1>7, <1>8, <1>9, ConcatProperties
<1> QED BY <1>1, <1>10 DEF m

\* An instruction takes at least one byte, and no more than there are.
LEMMA InstructionType ==
  ASSUME NEW s \in Seq(Byte), NEW n \in 0..(Len(s) - 1), NEW f
  PROVE  Instruction(f, s, n) \in Seq(Byte) /\ Len(Instruction(f, s, n)) \in 1..(Len(s) - n)
<1>1. Len(s) \in Nat /\ n \in Nat /\ OperandLen \in Nat /\ n + 1 \in 1..Len(s)
  BY FilterConstants
<1>2. <<s[n + 1]>> \in Seq(Byte) /\ Len(<<s[n + 1]>>) = 1 /\ 1 \in 1..(Len(s) - n)
  BY <1>1
<1>3. CASE f = "4108" /\ s[n + 1] \in Opcodes
  BY <1>3, RaiseOldType DEF Instruction
<1>4. CASE f = "4108" /\ s[n + 1] \notin Opcodes
  BY <1>2, <1>4 DEF Instruction
<1>5. CASE f # "4108" /\ ~HasOperand(s, n)
  BY <1>2, <1>5 DEF Instruction
<1>6. CASE f # "4108" /\ HasOperand(s, n) /\ n + 1 + OperandLen > Len(s)
  <2>1. Instruction(f, s, n) = SubSeq(s, n + 1, Len(s))
    BY <1>6 DEF Instruction
  <2>2. \A k \in (n + 1)..Len(s) : s[k] \in Byte
    BY <1>1
  <2>3. SubSeq(s, n + 1, Len(s)) \in Seq(Byte) /\ Len(SubSeq(s, n + 1, Len(s))) = Len(s) - n
    BY <1>1, <2>2, SubSeqProperties
  <2> QED BY <1>1, <2>1, <2>3
<1>7. CASE f # "4108" /\ HasOperand(s, n) /\ ~(n + 1 + OperandLen > Len(s)) /\ Far(s, n)
  <2>1. Instruction(f, s, n) = SubSeq(s, n + 1, n + 1 + OperandLen)
    BY <1>7 DEF Instruction
  <2>2. \A k \in (n + 1)..(n + 1 + OperandLen) : s[k] \in Byte
    BY <1>1, <1>7
  <2>3. /\ SubSeq(s, n + 1, n + 1 + OperandLen) \in Seq(Byte)
        /\ Len(SubSeq(s, n + 1, n + 1 + OperandLen)) = OperandLen + 1
    BY <1>1, <2>2, SubSeqProperties
  <2> QED BY <1>1, <1>7, <2>1, <2>3
<1>8. CASE f # "4108" /\ HasOperand(s, n) /\ ~(n + 1 + OperandLen > Len(s)) /\ ~Far(s, n)
  <2>1. Instruction(f, s, n) = RaiseNew(f, s, n)
    BY <1>8 DEF Instruction
  <2>2. n + 1 + OperandLen <= Len(s)
    BY <1>1, <1>8
  <2> QED BY <1>1, <2>1, <2>2, RaiseNewType
<1> QED BY <1>3, <1>4, <1>5, <1>6, <1>7, <1>8

\* The recursion of Encoded and of Walked, from the end: behind what is emitted
\* at k comes what is emitted from k + size[k] on.
IsRest(g, instr, size, n, all) ==
  g = [k \in n..all |-> IF k = all THEN <<>> ELSE instr[k] \o g[k + size[k]]]

LEMMA RestExists ==
  ASSUME NEW all \in Nat, NEW first \in 0..all, NEW instr, NEW size,
         \A n \in first..(all - 1) : size[n] \in 1..(all - n)
  PROVE  \E g : IsRest(g, instr, size, first, all)
<1> DEFINE S == {k \in Nat : k <= all - first => \E g : IsRest(g, instr, size, all - k, all)}
<1>1. 0 \in S
  <2> DEFINE g == [k \in all..all |-> <<>>]
  <2>1. \A k \in all..all : k = all
    OBVIOUS
  <2>2. g = [k \in (all - 0)..all |-> IF k = all THEN <<>> ELSE instr[k] \o g[k + size[k]]]
    BY <2>1
  <2> HIDE DEF g
  <2>3. IsRest(g, instr, size, all - 0, all)
    BY <2>2 DEF IsRest
  <2> QED BY <2>3
<1>2. ASSUME NEW k \in Nat, k \in S PROVE k + 1 \in S
  <2> SUFFICES ASSUME k + 1 <= all - first PROVE \E g : IsRest(g, instr, size, all - (k + 1), all)
    OBVIOUS
  <2>1. PICK g : IsRest(g, instr, size, all - k, all)
    BY <1>2
  <2> DEFINE n == all - (k + 1)
             h == [j \in n..all |-> IF j = n THEN instr[n] \o g[n + size[n]] ELSE g[j]]
  <2>2. n \in first..(all - 1) /\ all - k = n + 1 /\ n # all
    OBVIOUS
  <2>3. \A j \in n..all : h[j] = IF j = all THEN <<>> ELSE instr[j] \o h[j + size[j]]
    <3> SUFFICES ASSUME NEW j \in n..all
                 PROVE  h[j] = IF j = all THEN <<>> ELSE instr[j] \o h[j + size[j]]
      OBVIOUS
    <3>1. \A l \in (n + 1)..all : h[l] = g[l]
      OBVIOUS
    <3>2. \A l \in (n + 1)..all : g[l] = IF l = all THEN <<>> ELSE instr[l] \o g[l + size[l]]
      <4> HIDE DEF n
      <4> QED BY <2>1, <2>2 DEF IsRest
    <3>3. CASE j = n
      <4>1. h[n] = instr[n] \o g[n + size[n]]
        <5>1. n \in n..all
          BY <2>2
        <5> HIDE DEF n
        <5> QED BY <5>1
      <4>2. n + size[n] \in (n + 1)..all
        <5> HIDE DEF n
        <5> QED BY <2>2
      <4> HIDE DEF h, n
      <4> QED BY <2>2, <3>1, <3>3, <4>1, <4>2
    <3>4. CASE j = all
      <4>1. h[all] = g[all] /\ g[all] = <<>>
        <5>1. all \in (n + 1)..all
          BY <2>2
        <5> HIDE DEF h, n
        <5> QED BY <3>1, <3>2, <5>1
      <4> HIDE DEF h, n
      <4> QED BY <3>4, <4>1
    <3>5. CASE j # n /\ j # all
      <4>1. j \in (n + 1)..all /\ j \in first..(all - 1)
        BY <3>5, <2>2
      <4>2. j + size[j] \in (n + 1)..all
        BY <4>1
      <4> HIDE DEF h, n
      <4> QED BY <3>1, <3>2, <3>5, <4>1, <4>2
    <3> QED BY <3>3, <3>4, <3>5
  <2>4. h = [j \in n..all |-> h[j]]
    OBVIOUS
  <2>5. IsRest(h, instr, size, n, all)
    <3> HIDE DEF h, n
    <3> QED BY <2>3, <2>4 DEF IsRest
  <2> HIDE DEF h
  <2> QED BY <2>5
<1>3. \A k \in Nat : k \in S
  <2> HIDE DEF S
  <2> QED BY <1>1, <1>2, SetInduction
<1>4. all - (all - first) = first /\ all - first \in Nat
  OBVIOUS
<1>5. all - first \in S
  <2> HIDE DEF S
  <2> QED BY <1>3, <1>4
<1> QED BY <1>4, <1>5

\* Encoded is a function with its recursion equation.
LEMMA EncodedEquation ==
  ASSUME NEW s \in Seq(Byte), NEW f
  PROVE  /\ Encoded(f, s)[Len(s)] = <<>>
         /\ \A n \in 0..(Len(s) - 1) :
              Encoded(f, s)[n] = Instruction(f, s, n) \o Encoded(f, s)[n + Len(Instruction(f, s, n))]
<1> DEFINE all == Len(s)
           instr == [n \in 0..(all - 1) |-> Instruction(f, s, n)]
           size == [n \in 0..(all - 1) |-> Len(Instruction(f, s, n))]
<1>1. all \in Nat
  OBVIOUS
<1>2. \A n \in 0..(all - 1) : instr[n] = Instruction(f, s, n) /\ size[n] = Len(Instruction(f, s, n)) /\ size[n] \in 1..(all - n)
  BY InstructionType
<1>3. PICK g : IsRest(g, instr, size, 0, all)
  <2>1. 0 \in 0..all /\ \A n \in 0..(all - 1) : size[n] \in 1..(all - n)
    BY <1>1, <1>2
  <2> HIDE DEF instr, size, all
  <2> QED BY <1>1, <2>1, RestExists
<1> HIDE DEF instr, size
<1> DEFINE Rest(h) == [n \in 0..Len(s) |->
                         IF n = Len(s) THEN <<>>
                         ELSE Instruction(f, s, n) \o h[n + Len(Instruction(f, s, n))]]
<1>4. g = Rest(g)
  <2>1. \A n \in 0..all : n # all => n \in 0..(all - 1)
    BY <1>1
  <2>2. \A n \in 0..all : n # all => instr[n] = Instruction(f, s, n) /\ size[n] = Len(Instruction(f, s, n))
    BY <1>2, <2>1
  <2>3. [n \in 0..all |-> IF n = all THEN <<>> ELSE instr[n] \o g[n + size[n]]] = Rest(g)
    BY <2>2
  <2>4. g = [n \in 0..all |-> IF n = all THEN <<>> ELSE instr[n] \o g[n + size[n]]]
    <3> HIDE DEF all
    <3> QED BY <1>3 DEF IsRest
  <2> QED BY <2>3, <2>4
<1>5. Encoded(f, s) = Rest(Encoded(f, s))
  <2>1. Encoded(f, s) = CHOOSE h : h = Rest(h)
    BY DEF Encoded
  <2> HIDE DEF Rest
  <2> QED BY <1>4, <2>1
<1>6. \A n \in 0..Len(s) : Rest(Encoded(f, s))[n] =
        IF n = Len(s) THEN <<>>
        ELSE Instruction(f, s, n) \o Encoded(f, s)[n + Len(Instruction(f, s, n))]
  OBVIOUS
<1> HIDE DEF Rest
<1>7. \A n \in 0..(Len(s) - 1) : n \in 0..Len(s) /\ n # Len(s)
  BY <1>1
<1>8. Len(s) \in 0..Len(s)
  BY <1>1
<1> QED BY <1>5, <1>6, <1>7, <1>8

\* What is encoded is bytes.
LEMMA EncodedType ==
  ASSUME NEW s \in Seq(Byte), NEW f
  PROVE  \A n \in 0..Len(s) : Encoded(f, s)[n] \in Seq(Byte)
<1> DEFINE all == Len(s)
           E == Encoded(f, s)
           S == {k \in Nat : \A n \in 0..all : n >= all - k => E[n] \in Seq(Byte)}
<1>1. /\ all \in Nat /\ E[all] = <<>>
      /\ \A n \in 0..(all - 1) : E[n] = Instruction(f, s, n) \o E[n + Len(Instruction(f, s, n))]
  BY EncodedEquation
<1>2. \A n \in 0..(all - 1) : Instruction(f, s, n) \in Seq(Byte) /\ Len(Instruction(f, s, n)) \in 1..(all - n)
  BY InstructionType
<1> HIDE DEF all, E
<1>3. 0 \in S
  <2>1. <<>> \in Seq(Byte)
    OBVIOUS
  <2>2. \A n \in 0..all : n >= all - 0 => n = all
    BY <1>1
  <2> QED BY <1>1, <2>1, <2>2
<1>4. ASSUME NEW k \in Nat, k \in S PROVE k + 1 \in S
  <2> SUFFICES ASSUME NEW n \in 0..all, n >= all - (k + 1) PROVE E[n] \in Seq(Byte)
    OBVIOUS
  <2>1. CASE n >= all - k
    BY <1>4, <2>1
  <2>2. CASE n = all
    <3>1. E[n] = <<>>
      BY <1>1, <2>2
    <3> QED BY <3>1, EmptySeq
  <2>3. CASE n < all - k /\ n # all
    <3>1. n \in 0..(all - 1)
      BY <1>1, <2>3
    <3>2. PICK l \in 1..(all - n) : l = Len(Instruction(f, s, n))
      BY <1>2, <3>1
    <3>3. n + l \in 0..all /\ n + l >= all - k
      BY <1>1, <3>1
    <3>4. E[n + l] \in Seq(Byte)
      BY <1>4, <3>3
    <3>5. E[n] = Instruction(f, s, n) \o E[n + l] /\ Instruction(f, s, n) \in Seq(Byte)
      BY <1>1, <1>2, <3>1, <3>2
    <3> QED BY <3>4, <3>5, ConcatProperties
  <2> QED BY <1>1, <2>1, <2>2, <2>3
<1>5. \A k \in Nat : k \in S
  <2> HIDE DEF S
  <2> QED BY <1>3, <1>4, SetInduction
<1>6. \A n \in 0..all : n >= all - all
  BY <1>1
<1>7. \A n \in 0..all : E[n] \in Seq(Byte)
  <2>1. all \in S
    <3> HIDE DEF S
    <3> QED BY <1>1, <1>5
  <2> QED BY <1>6, <2>1
<1> QED BY <1>7 DEF E, all

-----------------------------------------------------------------------------
(* What has been decoded so far.                                           *)

Begins(s, d) == Len(d) <= Len(s) /\ \A k \in 1..Len(d) : s[k] = d[k]

\* Whatever follows d, it encodes to the first n bytes of a segment and what
\* is encoded behind them.
Whole(f, segment, d, n) ==
  \A s \in Seq(Byte) :
    Begins(s, d) /\ Len(s) <= Len(segment) =>
      Encoded(f, s)[0] = SubSeq(segment, 1, n) \o Encoded(f, s)[n]

Regroups(u, v, w) == (u \o v) \o w = u \o (v \o w)

LEMMA Associative ==
  \A u, v, w \in Seq(Byte) : Regroups(u, v, w)
<1> DEFINE B == Byte
<1> HIDE DEF B
<1>1. \A u, v, w \in Seq(B) : (u \o v) \o w = u \o (v \o w)
  BY ConcatAssociative
<1> QED BY <1>1 DEF B, Regroups

LEMMA BeginsLess ==
  ASSUME NEW d \in Seq(Byte), NEW e \in Seq(Byte), NEW s, Len(s) \in Nat, Begins(s, d \o e)
  PROVE  /\ Begins(s, d) /\ Len(d) + Len(e) <= Len(s)
         /\ \A k \in 1..Len(e) : s[Len(d) + k] = e[k]
<1>1. Len(d) \in Nat /\ Len(e) \in Nat /\ Len(d \o e) = Len(d) + Len(e)
  BY ConcatProperties
<1>2. \A k \in 1..(Len(d) + Len(e)) : (d \o e)[k] = IF k <= Len(d) THEN d[k] ELSE e[k - Len(d)]
  BY ConcatProperties
<1>3. \A k \in 1..(Len(d) + Len(e)) : s[k] = (d \o e)[k]
  BY <1>1 DEF Begins
<1>4. Len(d) + Len(e) <= Len(s)
  BY <1>1 DEF Begins
<1>5. \A k \in 1..Len(d) : s[k] = d[k]
  BY <1>1, <1>2, <1>3
<1>6. \A k \in 1..Len(e) : s[Len(d) + k] = e[k]
  <2> TAKE k \in 1..Len(e)
  <2>1. Len(d) + k \in 1..(Len(d) + Len(e)) /\ ~(Len(d) + k <= Len(d)) /\ (Len(d) + k) - Len(d) = k
    BY <1>1
  <2> QED BY <1>2, <1>3, <2>1
<1> QED BY <1>1, <1>4, <1>5, <1>6 DEF Begins

\* Bytes are added: nothing is said yet of the instruction they belong to.
LEMMA WholeStays ==
  ASSUME NEW f, NEW segment, NEW d \in Seq(Byte), NEW e \in Seq(Byte), NEW n, Whole(f, segment, d, n)
  PROVE  Whole(f, segment, d \o e, n)
<1> SUFFICES ASSUME NEW s \in Seq(Byte), Begins(s, d \o e), Len(s) <= Len(segment)
             PROVE  Encoded(f, s)[0] = SubSeq(segment, 1, n) \o Encoded(f, s)[n]
  BY DEF Whole
<1>1. Begins(s, d)
  <2>1. Len(s) \in Nat
    OBVIOUS
  <2> QED BY <2>1, BeginsLess
<1> QED BY <1>1 DEF Whole

LEMMA PartsInside ==
  ASSUME NEW n \in Nat, NEW l \in Nat, NEW all \in Nat, n < l, l <= all
  PROVE  (1..n) \subseteq 1..all /\ ((n + 1)..l) \subseteq 1..all
OBVIOUS

\* An instruction is complete: what it encodes to is what was read.
LEMMA WholeGrows ==
  ASSUME NEW f, NEW segment \in Seq(Byte), NEW d \in Seq(Byte), NEW e \in Seq(Byte),
         NEW n \in 0..Len(d), Whole(f, segment, d, n),
         n < Len(d \o e), Len(d \o e) <= Len(segment),
         \A s \in Seq(Byte) :
           Begins(s, d \o e) /\ Len(s) <= Len(segment) =>
             Instruction(f, s, n) = SubSeq(segment, n + 1, Len(d \o e))
  PROVE  Whole(f, segment, d \o e, Len(d \o e))
<1> SUFFICES ASSUME NEW s \in Seq(Byte), Begins(s, d \o e), Len(s) <= Len(segment)
             PROVE  Encoded(f, s)[0] = SubSeq(segment, 1, Len(d \o e)) \o Encoded(f, s)[Len(d \o e)]
  BY DEF Whole
<1>1. PICK l \in Nat, all \in Nat : l = Len(d \o e) /\ all = Len(s)
  BY ConcatProperties
<1>2. l <= all /\ Begins(s, d) /\ n \in Nat /\ n < l /\ Len(segment) \in Nat /\ l <= Len(segment)
  <2>1. l <= all
    BY <1>1 DEF Begins
  <2>2. Begins(s, d)
    BY <1>1, BeginsLess
  <2> QED BY <1>1, <2>1, <2>2
<1>3. Encoded(f, s)[0] = SubSeq(segment, 1, n) \o Encoded(f, s)[n]
  BY <1>2 DEF Whole
<1>4. Instruction(f, s, n) = SubSeq(segment, n + 1, l)
  BY <1>1
<1>5. Encoded(f, s)[n] = SubSeq(segment, n + 1, l) \o Encoded(f, s)[l]
  <2>1. n \in 0..(Len(s) - 1)
    BY <1>1, <1>2
  <2>2. Encoded(f, s)[n] = Instruction(f, s, n) \o Encoded(f, s)[n + Len(Instruction(f, s, n))]
    BY <2>1, EncodedEquation
  <2>3. \A k \in (n + 1)..l : segment[k] \in Byte
    BY <1>2
  <2>4. Len(SubSeq(segment, n + 1, l)) = l - n
    BY <1>2, <2>3, SubSeqProperties
  <2>5. n + (l - n) = l
    BY <1>2
  <2> QED BY <1>4, <2>2, <2>4, <2>5
<1>6. Encoded(f, s)[l] \in Seq(Byte)
  <2>1. l \in 0..Len(s)
    BY <1>1, <1>2
  <2> QED BY <2>1, EncodedType
<1>7. SubSeq(segment, 1, n) \in Seq(Byte) /\ SubSeq(segment, n + 1, l) \in Seq(Byte)
  <2>1. /\ \A k \in 1..n : segment[k] \in Byte
        /\ \A k \in (n + 1)..l : segment[k] \in Byte
    <3>1. \A k \in 1..Len(segment) : segment[k] \in Byte
      OBVIOUS
    <3>2. (1..n) \subseteq 1..Len(segment) /\ ((n + 1)..l) \subseteq 1..Len(segment)
      BY <1>2, PartsInside
    <3> QED BY <3>1, <3>2
  <2>2. SubSeq(segment, 1, n) \in Seq(Byte)
    BY <1>2, <2>1, SubSeqProperties
  <2>3. SubSeq(segment, n + 1, l) \in Seq(Byte)
    BY <1>2, <2>1, SubSeqProperties
  <2> QED BY <2>2, <2>3
<1>8. SubSeq(segment, 1, n) \o SubSeq(segment, n + 1, l) = SubSeq(segment, 1, l)
  <2>1. 1 \in 1..(Len(segment) + 1) /\ n \in (1 - 1)..Len(segment) /\ l \in n..Len(segment)
    BY <1>2
  <2> QED BY <2>1, ConcatAdjacentSubSeq
<1>9. SubSeq(segment, 1, n) \o (SubSeq(segment, n + 1, l) \o Encoded(f, s)[l])
        = (SubSeq(segment, 1, n) \o SubSeq(segment, n + 1, l)) \o Encoded(f, s)[l]
  <2>1. PICK u \in Seq(Byte), v \in Seq(Byte), w \in Seq(Byte) :
          u = SubSeq(segment, 1, n) /\ v = SubSeq(segment, n + 1, l) /\ w = Encoded(f, s)[l]
    BY <1>6, <1>7
  <2>2. Regroups(u, v, w)
    BY Associative, Zenon
  <2>3. (u \o v) \o w = u \o (v \o w)
    BY <2>2 DEF Regroups
  <2> QED BY <2>1, <2>3
<1> QED BY <1>1, <1>3, <1>5, <1>8, <1>9

-----------------------------------------------------------------------------
(* Parts of a segment.                                                     *)

\* l bytes behind n.
LEMMA PartIs ==
  ASSUME NEW s \in Seq(Byte), NEW n \in Nat, NEW l \in Nat \ {0}, n + l <= Len(s)
  PROVE  /\ SubSeq(s, n + 1, n + l) \in Seq(Byte) /\ Len(SubSeq(s, n + 1, n + l)) = l
         /\ \A k \in 1..l : SubSeq(s, n + 1, n + l)[k] = s[n + k]
<1>1. PICK a \in Int, b \in Int : a = n + 1 /\ b = n + l
  OBVIOUS
<1>2. a <= b /\ b - a + 1 = l /\ b <= Len(s) /\ a \in Nat \ {0} /\ b \in Nat /\ Len(s) \in Nat
  BY <1>1
<1>3. \A k \in a..b : s[k] \in Byte
  BY <1>2
<1>4. /\ SubSeq(s, a, b) \in Seq(Byte) /\ Len(SubSeq(s, a, b)) = b - a + 1
      /\ \A k \in 1..(b - a + 1) : SubSeq(s, a, b)[k] = s[a + k - 1]
  BY <1>2, <1>3, SubSeqProperties
<1>5. \A k \in 1..l : a + k - 1 = n + k
  BY <1>1
<1> QED BY <1>1, <1>2, <1>4, <1>5

\* Bytes that agree with l bytes behind n are these.
LEMMA PartEquals ==
  ASSUME NEW s \in Seq(Byte), NEW n \in Nat, NEW u \in Seq(Byte), Len(u) # 0, n + Len(u) <= Len(s),
         \A k \in 1..Len(u) : u[k] = s[n + k]
  PROVE  u = SubSeq(s, n + 1, n + Len(u))
<1>1. PICK l \in Nat \ {0} : l = Len(u)
  OBVIOUS
<1>2. PICK v \in Seq(Byte) : v = SubSeq(s, n + 1, n + l) /\ Len(v) = l /\ \A k \in 1..l : v[k] = s[n + k]
  BY <1>1, PartIs
<1>3. u = v
  BY <1>1, <1>2, SeqEqual
<1> QED BY <1>1, <1>2, <1>3

\* The first of these bytes and the others.
LEMMA FirstAndRest ==
  ASSUME NEW s \in Seq(Byte), NEW n \in Nat, NEW u \in Seq(Byte), n + 1 + Len(u) <= Len(s),
         \A k \in 1..Len(u) : s[n + 1 + k] = u[k]
  PROVE  <<s[n + 1]>> \o u = SubSeq(s, n + 1, n + 1 + Len(u))
<1>0. PICK m \in Nat : m = Len(u)
  OBVIOUS
<1>1. PICK v \in Seq(Byte) : v = <<s[n + 1]>> /\ Len(v) = 1 /\ v[1] = s[n + 1]
  <2>1. s[n + 1] \in Byte
    OBVIOUS
  <2>2. <<s[n + 1]>> \in Seq(Byte) /\ Len(<<s[n + 1]>>) = 1 /\ <<s[n + 1]>>[1] = s[n + 1]
    BY <2>1
  <2> QED BY <2>2
<1>2. /\ v \o u \in Seq(Byte) /\ Len(v \o u) = 1 + m
      /\ \A k \in 1..(1 + m) : (v \o u)[k] = IF k <= 1 THEN v[k] ELSE u[k - 1]
  BY <1>0, <1>1, ConcatProperties
<1>3. PICK w \in Seq(Byte) : w = v \o u
  BY <1>2
<1>4. \A k \in 1..(1 + m) : w[k] = s[n + k]
  <2> TAKE k \in 1..(1 + m)
  <2>1. CASE k = 1
    BY <1>0, <1>1, <1>2, <1>3, <2>1
  <2>2. CASE k # 1
    <3>1. k - 1 \in 1..m /\ ~(k <= 1) /\ n + 1 + (k - 1) = n + k
      BY <2>2
    <3>2. s[n + 1 + (k - 1)] = u[k - 1]
      BY <1>0, <3>1
    <3> QED BY <1>2, <1>3, <3>1, <3>2
  <2> QED BY <2>1, <2>2
<1>5. Len(w) = 1 + m /\ n + Len(w) = n + 1 + m /\ Len(w) # 0
  <2>1. Len(w) = 1 + m
    BY <1>2, <1>3
  <2> QED BY <2>1
<1>6. w = SubSeq(s, n + 1, n + Len(w))
  BY <1>0, <1>4, <1>5, PartEquals
<1> QED BY <1>0, <1>1, <1>3, <1>5, <1>6

-----------------------------------------------------------------------------
(* decodeInstruction4108 undone.                                           *)

\* Of an operand behind n, m bytes have been decoded: with what is still to be
\* added they are what was read without the place, but for whole words.
Added(d, segment, n, m, a) ==
  \E z \in Int : Value(d, n, m) + Power[m] * a = Value(segment, n, m) - (n + OperandLen + 1) + Word * z

LEMMA AddedStart ==
  ASSUME NEW d, NEW segment, NEW n \in Nat
  PROVE  Added(d, segment, n, 0, (-(n + OperandLen + 1)) % Word)
<1>1. PICK x \in Int, w \in Nat \ {0} : x = -(n + OperandLen + 1) /\ w = Word
  BY FilterConstants
<1>2. PICK q \in Int : x = w * q + (x % w)
  BY Division
<1>3. Value(d, n, 0) = 0 /\ Value(segment, n, 0) = 0 /\ Power[0] = 1
  <2>1. HasBytes(d, n, 0) /\ HasBytes(segment, n, 0)
    BY DEF HasBytes
  <2>2. 0 \in 0..OperandLen
    BY FilterConstants
  <2> QED BY <2>1, <2>2, ValueEquation, PowerEquation
<1>4. x % w \in Int
  BY RemainderType
<1>5. 0 + 1 * (x % w) = 0 + x + w * (-q)
  BY <1>2, <1>4
<1>6. 0 - (n + OperandLen + 1) = 0 + x
  BY <1>1, FilterConstants
<1>7. -q \in Int
  OBVIOUS
<1> QED BY <1>1, <1>3, <1>5, <1>6, <1>7 DEF Added

\* The sums of the loop: out is the byte that is written, a is shifted.
LEMMA AddedStep ==
  ASSUME NEW d, NEW e, NEW segment, NEW n \in Nat, NEW m \in 0..(OperandLen - 1), NEW a \in Nat,
         HasBytes(e, n, m + 1), HasBytes(segment, n, m + 1),
         \A k \in 1..m : e[n + 1 + k] = d[n + 1 + k],
         Added(d, segment, n, m, a),
         NEW sum, sum = (a + segment[n + 1 + (m + 1)]) % Word,
         e[n + 1 + (m + 1)] = sum % Base
  PROVE  Added(e, segment, n, m + 1, sum \div Base)
<1>1. /\ OperandLen \in Nat /\ Base \in Nat \ {0} /\ Word \in Nat \ {0} /\ m \in Nat /\ m + 1 \in 0..OperandLen
      /\ m \in 0..OperandLen /\ m + 1 \in 1..OperandLen /\ (m + 1) - 1 = m /\ m + 1 \in 1..(m + 1) /\ m \in 0..(m + 1)
  BY FilterConstants
<1>2. PICK z \in Int : Value(d, n, m) + Power[m] * a = Value(segment, n, m) - (n + OperandLen + 1) + Word * z
  BY DEF Added
<1>3. PICK p \in Nat \ {0}, v \in Nat, t \in Nat, b \in Nat, w \in Nat \ {0} :
        /\ p = Power[m] /\ v = Value(d, n, m) /\ t = Value(segment, n, m)
        /\ b = segment[n + 1 + (m + 1)] /\ w = Word
  <2>1. Power[m] \in Nat \ {0}
    BY <1>1, PowerType
  <2>2. Value(segment, n, m) \in Nat
    BY <1>1, ValueEquation
  <2>3. segment[n + 1 + (m + 1)] \in Nat
    <3>1. segment[n + 1 + (m + 1)] \in 0..(Base - 1)
      BY <1>1 DEF HasBytes, Byte
    <3> QED BY <1>1, <3>1
  <2>4. Value(d, n, m) \in Nat
    <3>1. Value(e, n, m) \in Nat
      BY <1>1, ValueEquation
    <3>2. Value(e, n, m) = Value(d, n, m)
      BY <1>1, ValueSame
    <3> QED BY <3>1, <3>2
  <2> QED BY <1>1, <2>1, <2>2, <2>3, <2>4
<1>4. PICK q \in Int, x \in Nat : sum = x /\ a + b = w * q + x
  <2>1. PICK j \in Nat : j = a + b
    OBVIOUS
  <2>2. j % w \in Nat /\ j \div w \in Nat /\ j = w * (j \div w) + (j % w)
    BY DivisionOfNat
  <2>3. sum = j % w
    BY <1>3, <2>1
  <2> QED BY <2>1, <2>2, <2>3
<1>5. PICK y \in Nat, o \in Nat : x \div Base = y /\ x % Base = o /\ x = Base * y + o
  <2>1. x \div Base \in Nat /\ x % Base \in Nat /\ x = Base * (x \div Base) + (x % Base)
    BY <1>1, DivisionOfNat
  <2> QED BY <2>1
<1>6. Value(e, n, m + 1) = v + p * o
  <2>1. Value(e, n, m + 1) = Value(e, n, m) + Power[m] * e[n + 1 + (m + 1)]
    <3>1. \A k \in 1..(m + 1) : Value(e, n, k) = Value(e, n, k - 1) + Power[k - 1] * e[n + 1 + k]
      BY <1>1, ValueEquation
    <3> QED BY <1>1, <3>1
  <2>2. Value(e, n, m) = v
    <3>1. Value(e, n, m) = Value(d, n, m)
      BY <1>1, ValueSame
    <3> QED BY <1>3, <3>1
  <2> QED BY <1>3, <1>4, <1>5, <2>1, <2>2
<1>7. Value(segment, n, m + 1) = t + p * b
  <2>1. \A k \in 1..(m + 1) : Value(segment, n, k) = Value(segment, n, k - 1) + Power[k - 1] * segment[n + 1 + k]
    BY <1>1, ValueEquation
  <2> QED BY <1>1, <1>3, <2>1
<1>8. Power[m + 1] = Base * p
  BY <1>1, <1>3, PowerEquation
<1>9. v + p * a = t - (n + OperandLen + 1) + w * z
  BY <1>2, <1>3
<1>10. (v + p * o) + (Base * p) * y = (t + p * b) - (n + OperandLen + 1) + w * (z - p * q)
  <2>1. (v + p * o) + (Base * p) * y = v + p * x
    BY <1>1, <1>5
  <2>2. p * x = p * a + p * b - p * (w * q)
    BY <1>4
  <2>3. w * (z - p * q) = w * z - p * (w * q)
    OBVIOUS
  <2>4. p * a \in Int /\ p * b \in Int /\ p * (w * q) \in Int /\ p * x \in Int /\ w * z \in Int
    OBVIOUS
  <2> HIDE <1>4, <1>5
  <2>5. v + p * x = (t + p * b) - (n + OperandLen + 1) + (w * z - p * (w * q))
    BY <1>1, <1>9, <2>2, <2>4
  <2> QED BY <2>1, <2>3, <2>5
<1>11. z - p * q \in Int
  OBVIOUS
<1> QED BY <1>3, <1>4, <1>5, <1>6, <1>7, <1>8, <1>10, <1>11 DEF Added

\* Adding the place again brings back what was read.
LEMMA OldUndone ==
  ASSUME NEW s \in Seq(Byte), NEW segment \in Seq(Byte), NEW n \in Nat, NEW m \in 0..OperandLen,
         n + 1 + m <= Len(s), n + 1 + m <= Len(segment),
         m = Shorter(OperandLen, Len(s) - n - 1),
         s[n + 1] = segment[n + 1],
         NEW a \in Nat, Added(s, segment, n, m, a)
  PROVE  RaiseOld(s, n) = SubSeq(segment, n + 1, n + 1 + m)
<1>1. /\ OperandLen \in Nat /\ m \in Nat /\ Word \in Nat \ {0} /\ m \in 0..m
      /\ Len(segment) \in Nat /\ Len(s) \in Nat
  BY FilterConstants
<1>2. HasBytes(s, n, m) /\ HasBytes(segment, n, m)
  BY <1>1, BytesOf
<1>3. PICK p \in Nat \ {0}, v \in Nat, t \in Nat :
        p = Power[m] /\ v = Value(s, n, m) /\ t = Value(segment, n, m) /\ t \in 0..(p - 1)
  <2>1. Power[m] \in Nat \ {0}
    BY PowerType
  <2>2. Value(s, n, m) \in Nat /\ Value(segment, n, m) \in Nat
    BY <1>1, <1>2, ValueEquation
  <2>3. Value(segment, n, m) \in 0..(Power[m] - 1)
    BY <1>1, <1>2, ValueBelow
  <2> QED BY <2>1, <2>2, <2>3
<1>4. PICK z \in Int : v + p * a = t - (n + OperandLen + 1) + Word * z
  BY <1>3 DEF Added
<1>5. PICK c \in Nat \ {0} : Word = p * c
  <2>1. OperandLen \in 0..OperandLen
    BY <1>1
  <2> QED BY <1>3, <2>1, PowersDivide DEF Word
<1>6. (v + n + OperandLen + 1) % p = t
  <2>1. (p * c) * z = p * (c * z)
    OBVIOUS
  <2>2. p * (c * z - a) = p * (c * z) - p * a /\ p * (c * z) \in Int /\ p * a \in Int
    OBVIOUS
  <2>3. v + n + OperandLen + 1 = p * (c * z - a) + t
    BY <1>1, <1>4, <1>5, <2>1, <2>2
  <2>4. PICK q \in Int : q = c * z - a
    OBVIOUS
  <2>5. (p * q + t) % p = t
    BY <1>3, DivisionIs
  <2> QED BY <2>3, <2>4, <2>5
<1>7. RaiseOld(s, n) = <<segment[n + 1]>> \o Digits(t, m)
  BY <1>3, <1>6 DEF RaiseOld
<1>8. /\ Len(Digits(t, m)) = m /\ Digits(t, m) \in Seq(Byte)
      /\ \A k \in 1..m : Digits(t, m)[k] = segment[n + 1 + k]
  <2>1. /\ Len(Digits(t, m)) = m /\ Digits(t, m) \in Seq(Byte)
        /\ \A k \in 1..m : Digits(t, m)[k] = (t \div Power[k - 1]) % Base
    BY DigitsType
  <2>2. \A k \in 1..m : (t \div Power[k - 1]) % Base = segment[n + 1 + k]
    BY <1>2, <1>3, DigitsOfValue
  <2> QED BY <2>1, <2>2
<1>9. segment[n + 1] \in Byte
  BY <1>1
<1>10. \A k \in 1..m : segment[n + 1 + k] = Digits(t, m)[k]
  BY <1>8
<1>11. n + (1 + m) = n + 1 + m /\ n + (1 + m) <= Len(segment)
  BY <1>1
<1>12. PICK u \in Seq(Byte) : u = Digits(t, m)
  BY <1>8
<1>13. <<segment[n + 1]>> \o u = SubSeq(segment, n + 1, n + 1 + m)
  <2>1. Len(u) = m /\ \A k \in 1..m : segment[n + 1 + k] = u[k]
    BY <1>8, <1>10, <1>12
  <2>2. n + 1 + Len(u) <= Len(segment) /\ \A k \in 1..Len(u) : segment[n + 1 + k] = u[k]
    BY <2>1
  <2>3. <<segment[n + 1]>> \o u = SubSeq(segment, n + 1, n + 1 + Len(u))
    BY <2>2, FirstAndRest
  <2> QED BY <2>1, <2>3
<1> QED BY <1>7, <1>12, <1>13

-----------------------------------------------------------------------------
(* decodeInstruction5200 undone.                                           *)

\* An address that was made relative, made absolute again.
LEMMA RelativeUndone ==
  ASSUME NEW p \in Nat \ {0}, NEW t \in 0..(p - 1), NEW n \in Int
  PROVE  /\ (t - n) % p \in 0..(p - 1)
         /\ (((t - n) % p) + n) % p = t
<1>1. PICK x \in Int : x = t - n
  OBVIOUS
<1>2. PICK r \in 0..(p - 1), q \in Int : x % p = r /\ x = p * q + r
  <2>1. x % p \in 0..(p - 1) /\ x \div p \in Int /\ x = p * (x \div p) + (x % p)
    BY Division
  <2> QED BY <2>1
<1>3. r + n = p * (-q) + t
  <2>1. p * (-q) = -(p * q) /\ p * q \in Int
    OBVIOUS
  <2>2. PICK y \in Int : y = p * q
    BY <2>1
  <2>3. t - n = y + r /\ t \in Int /\ r \in Int
    <3>1. x = y + r
      BY <1>2, <2>2
    <3>2. p \in Int /\ t \in Int /\ r \in Int
      OBVIOUS
    <3> QED BY <1>1, <3>1, <3>2
  <2>4. r + n = -y + t
    BY <2>3
  <2> QED BY <2>1, <2>2, <2>4
<1>4. PICK z \in Int : z = -q
  OBVIOUS
<1>5. (p * z + t) % p = t
  BY DivisionIs
<1> QED BY <1>1, <1>2, <1>3, <1>4, <1>5

\* The address behind n and what it is made of.
LEMMA AddressType ==
  ASSUME NEW s \in Seq(Byte), NEW n \in Nat, n + 1 + OperandLen <= Len(s)
  PROVE  /\ HasBytes(s, n, OperandLen - 1) /\ Address(s, n) \in 0..(AddressRange - 1)
         /\ High(s, n) \in Byte /\ s[n + 1] \in Byte
<1> DEFINE m == OperandLen - 1
<1>1. OperandLen \in Nat \ {0} /\ m \in Nat /\ m \in 0..OperandLen /\ m \in 0..m /\ n + 1 + m <= Len(s) /\ Len(s) \in Nat
  BY FilterConstants
<1> HIDE DEF m
<1>2. HasBytes(s, n, m)
  BY <1>1, BytesOf
<1>3. Value(s, n, m) \in 0..(Power[m] - 1)
  BY <1>1, <1>2, ValueBelow
<1>4. n + 1 \in 1..Len(s) /\ n + 1 + OperandLen \in 1..Len(s)
  BY <1>1
<1> QED BY <1>2, <1>3, <1>4, ElementOfSeq DEF m, Address, AddressRange, High

\* The high byte of an operand whose address has become rel.
HighOf(f, rel, s, n) == IF f = "5309" /\ IsNegative(rel) THEN Base - 1 - High(s, n) ELSE High(s, n)

\* The address behind n, counted from the end of the operand.
Relative(s, n) == (Address(s, n) - (n + OperandLen + 1)) % AddressRange

\* An operand of segment has been written to s.
Written(f, segment, s, n) ==
  /\ s[n + 1] = segment[n + 1] /\ High(s, n) = HighOf(f, Relative(segment, n), segment, n)
  /\ \A k \in 1..(OperandLen - 1) : s[n + 1 + k] = Digits(Relative(segment, n), OperandLen - 1)[k]

LEMMA NewUndone ==
  ASSUME NEW f, f # "4108", NEW segment \in Seq(Byte), NEW n \in Nat, n + 1 + OperandLen <= Len(segment),
         NEW s \in Seq(Byte), n + 1 + OperandLen <= Len(s),
         HasOperand(segment, n), ~Far(segment, n), Written(f, segment, s, n)
  PROVE  Instruction(f, s, n) = SubSeq(segment, n + 1, n + 1 + OperandLen)
<1> DEFINE m == OperandLen - 1
<1>0. PICK rel, high :
        /\ rel = (Address(segment, n) - (n + OperandLen + 1)) % AddressRange
        /\ high = HighOf(f, rel, segment, n)
        /\ s[n + 1] = segment[n + 1] /\ High(s, n) = high
        /\ \A k \in 1..(OperandLen - 1) : s[n + 1 + k] = Digits(rel, OperandLen - 1)[k]
  BY DEF Written, Relative
<1>1. /\ OperandLen \in Nat \ {0, 1} /\ m \in Nat \ {0} /\ m \in 0..OperandLen /\ Base \in Nat \ {0}
      /\ AddressRange \in Nat \ {0} /\ AddressRange = Power[m] /\ m \in 0..m /\ m + 1 = OperandLen
  BY FilterConstants DEF AddressRange
<1>2. PICK t \in Nat : t = Address(segment, n) /\ t \in 0..(AddressRange - 1)
  BY AddressType
<1>3. /\ rel \in 0..(AddressRange - 1)
      /\ (rel + n + OperandLen + 1) % AddressRange = t
  <2>1. PICK p \in Nat \ {0}, x \in Int : p = AddressRange /\ x = n + OperandLen + 1
    BY <1>1
  <2>2. (t - x) % p \in 0..(p - 1) /\ (((t - x) % p) + x) % p = t
    BY <1>2, <2>1, RelativeUndone
  <2>3. rel = (t - x) % p
    BY <1>0, <1>2, <2>1
  <2>4. rel \in Int
    BY <2>2, <2>3
  <2>5. rel + n + OperandLen + 1 = rel + x
    BY <1>1, <2>1, <2>4
  <2> QED BY <2>1, <2>2, <2>3, <2>5
<1>4. Address(s, n) = rel
  <2> HIDE DEF m
  <2>1. \A k \in 1..m : s[n + 1 + k] = Digits(rel, m)[k]
    BY <1>0 DEF m
  <2>2. rel \in 0..(Power[m] - 1)
    BY <1>1, <1>3
  <2>3. Value(s, n, m) = rel
    BY <1>1, <2>1, <2>2, ValueOfDigits
  <2> QED BY <2>3 DEF Address, m
<1>5. HasOperand(s, n)
  BY <1>0 DEF HasOperand
<1>6. High(segment, n) \in {0, Base - 1} /\ High(s, n) = high
  BY <1>0 DEF Far
<1>7. ~Far(s, n)
  <2>1. high \in {0, Base - 1}
    BY <1>0, <1>1, <1>6 DEF HighOf
  <2> QED BY <1>6, <2>1 DEF Far
<1>8. Instruction(f, s, n) = RaiseNew(f, s, n)
  <2>1. ~(n + 1 + OperandLen > Len(s))
    BY <1>1
  <2> QED BY <1>5, <1>7, <2>1 DEF Instruction
<1>9. RaiseNew(f, s, n) = (<<segment[n + 1]>> \o Digits(t, m)) \o <<High(segment, n)>>
  <2>1. (IF f = "5309" /\ IsNegative(rel) THEN Base - 1 - High(s, n) ELSE High(s, n)) = High(segment, n)
    BY <1>0, <1>1, <1>6 DEF HighOf
  <2>2. RaiseNew(f, s, n) = (<<s[n + 1]>> \o Digits((rel + n + OperandLen + 1) % AddressRange, OperandLen - 1))
           \o <<IF f = "5309" /\ IsNegative(rel) THEN Base - 1 - High(s, n) ELSE High(s, n)>>
    BY <1>4 DEF RaiseNew
  <2> QED BY <1>0, <1>3, <2>1, <2>2
<1> HIDE DEF m
<1>10. PICK u \in Seq(Byte) : u = Digits(t, m) /\ Len(u) = m /\ \A k \in 1..m : segment[n + 1 + k] = u[k]
  <2>1. /\ Len(Digits(t, m)) = m /\ Digits(t, m) \in Seq(Byte)
        /\ \A k \in 1..m : Digits(t, m)[k] = (t \div Power[k - 1]) % Base
    BY <1>1, DigitsType
  <2>2. HasBytes(segment, n, m)
    BY AddressType DEF m
  <2>3. t = Value(segment, n, m)
    BY <1>2 DEF Address, m
  <2>4. \A k \in 1..m : (t \div Power[k - 1]) % Base = segment[n + 1 + k]
    BY <1>1, <2>2, <2>3, DigitsOfValue
  <2> QED BY <2>1, <2>4
<1>11. <<segment[n + 1]>> \o u = SubSeq(segment, n + 1, n + OperandLen)
  <2>1. n + 1 + Len(u) <= Len(segment) /\ \A k \in 1..Len(u) : segment[n + 1 + k] = u[k]
    BY <1>1, <1>10
  <2>2. <<segment[n + 1]>> \o u = SubSeq(segment, n + 1, n + 1 + Len(u))
    BY <2>1, FirstAndRest
  <2>3. n + 1 + Len(u) = n + OperandLen
    BY <1>1, <1>10
  <2> QED BY <2>2, <2>3
<1>12. SubSeq(segment, n + 1, n + 1 + OperandLen)
         = SubSeq(segment, n + 1, n + OperandLen) \o <<segment[n + 1 + OperandLen]>>
  <2>1. PICK a \in Nat, b \in Nat : a = n + 1 /\ b = n + 1 + OperandLen
    BY <1>1
  <2>2. a \in 1..Len(segment) /\ b \in a..Len(segment) /\ b - 1 = n + OperandLen
    BY <1>1, <2>1
  <2>3. SubSeq(segment, a, b) = SubSeq(segment, a, b - 1) \o <<segment[b]>>
    BY <2>2, SubSeqRecursiveSecond
  <2> QED BY <2>1, <2>2, <2>3
<1> QED BY <1>8, <1>9, <1>10, <1>11, <1>12 DEF High

-----------------------------------------------------------------------------
(* The filters at work.                                                    *)

\* How many bytes of an operand 4108 has decoded, and where the instruction
\* begins whose bytes are at the end of dst, if it is not complete.
Passed == IF left = 0 THEN 0 ELSE OperandLen - left
Begun == IF left = 0 THEN Len(dst) ELSE Len(dst) - (OperandLen - left + 1)

\* TypeOK with what it rests on.
Typed ==
  /\ filter \in Filters /\ pc \in {"decode", "done"}
  /\ src \in Segments /\ dst \in Seq(Byte) /\ i = Len(dst) /\ i <= Len(src) /\ (pc = "done" => i = Len(src))
  /\ left \in 0..OperandLen /\ addr \in 0..(Word - 1)
  /\ left # 0 => filter = "4108"

\* An operand that is being decoded follows an opcode.
Opened ==
  left # 0 =>
    /\ Begun \in Nat /\ src[Begun + 1] \in Opcodes /\ dst[Begun + 1] = src[Begun + 1]
    /\ Added(dst, src, Begun, Passed, addr)

\* Whatever follows dst, the instructions that are complete are what was read.
Kept == Whole(filter, src, dst, Begun)

FInv == Typed /\ Opened /\ Kept

\* What a step appends is bytes, as many as there are.
LEMMA EmitTyped ==
  ASSUME Typed, NEW e \in Seq(Byte), Len(dst) + Len(e) <= Len(src), Emit(Len(e), e),
         left' \in 0..OperandLen, addr' \in 0..(Word - 1), left' # 0 => filter = "4108"
  PROVE  /\ Typed' /\ dst' = dst \o e /\ filter' = filter /\ src' = src
         /\ dst' \in Seq(Byte) /\ Len(dst') = Len(dst) + Len(e)
<1>1. /\ dst' = dst \o e /\ filter' = filter /\ src' = src /\ i' = i + Len(e)
      /\ pc' = (IF i' = Len(src) THEN "done" ELSE "decode")
  BY DEF Emit, Finish
<1>2. dst' \in Seq(Byte) /\ Len(dst') = Len(dst) + Len(e)
  BY <1>1, ConcatProperties DEF Typed
<1>3. i' = Len(dst') /\ i' <= Len(src') /\ (pc' = "done" => i' = Len(src'))
  BY <1>1, <1>2 DEF Typed
<1>4. pc' \in {"decode", "done"}
  BY <1>1
<1>5. filter' \in Filters /\ src' \in Segments
  BY <1>1 DEF Typed
<1> QED BY <1>1, <1>2, <1>3, <1>4, <1>5 DEF Typed

\* The segment is bytes.
LEMMA SourceType ==
  ASSUME Typed
  PROVE  src \in Seq(Byte) /\ Len(src) \in Nat /\ Len(dst) \in Nat /\ dst \in Seq(Byte) /\ i = Len(dst)
<1>1. src \in Seq(Byte)
  BY FilterAssumption DEF Typed
<1> QED BY <1>1 DEF Typed

\* A step that completes an instruction that began at Begun.
LEMMA CompleteStep ==
  ASSUME FInv, NEW e \in Seq(Byte), Len(e) # 0, Len(dst) + Len(e) <= Len(src), Emit(Len(e), e),
         left' = 0, addr' \in 0..(Word - 1),
         \A s \in Seq(Byte) :
           Begins(s, dst \o e) /\ Len(s) <= Len(src) =>
             Instruction(filter, s, Begun) = SubSeq(src, Begun + 1, Len(dst) + Len(e))
  PROVE  FInv'
<1>1. Typed /\ Kept /\ Opened
  BY DEF FInv
<1>2. src \in Seq(Byte) /\ Len(src) \in Nat /\ Len(dst) \in Nat /\ dst \in Seq(Byte) /\ Len(e) \in Nat
  BY <1>1, SourceType
<1>3. left' \in 0..OperandLen
  BY FilterConstants
<1>4. /\ Typed' /\ dst' = dst \o e /\ filter' = filter /\ src' = src
      /\ Len(dst') = Len(dst) + Len(e)
  BY <1>1, <1>3, EmitTyped
<1>5. Begun \in 0..Len(dst)
  <2>1. CASE left = 0
    BY <1>2, <2>1 DEF Begun
  <2>2. CASE left # 0
    <3>1. Begun \in Nat
      BY <1>1, <2>2 DEF Opened
    <3>2. left \in 0..OperandLen /\ OperandLen \in Nat
      BY <1>1, FilterConstants DEF Typed
    <3> QED BY <1>2, <2>2, <3>1, <3>2 DEF Begun
  <2> QED BY <2>1, <2>2
<1>6. PICK n \in 0..Len(dst) : n = Begun
  BY <1>5
<1>7. Whole(filter, src, dst \o e, Len(dst \o e))
  <2>1. Whole(filter, src, dst, n)
    BY <1>1, <1>6 DEF Kept
  <2>2. n < Len(dst \o e) /\ Len(dst \o e) <= Len(src) /\ Len(dst \o e) = Len(dst) + Len(e)
    BY <1>2, <1>4
  <2>3. \A s \in Seq(Byte) :
          Begins(s, dst \o e) /\ Len(s) <= Len(src) =>
            Instruction(filter, s, n) = SubSeq(src, n + 1, Len(dst \o e))
    BY <1>6, <2>2
  <2> QED BY <1>2, <2>1, <2>2, <2>3, WholeGrows
<1>8. Kept'
  <2>1. Begun' = Len(dst')
    BY DEF Begun
  <2> QED BY <1>4, <1>7, <2>1 DEF Kept
<1>9. Opened'
  BY DEF Opened
<1> QED BY <1>4, <1>8, <1>9 DEF FInv

LEMMA InitFInv ==
  Init => FInv
<1> SUFFICES ASSUME Init PROVE FInv
  OBVIOUS
<1>1. Typed
  <2>1. 0 \in 0..OperandLen /\ 0 \in 0..(Word - 1)
    BY FilterConstants
  <2>2. dst = <<>> /\ <<>> \in Seq(Byte) /\ Len(<<>>) = 0
    BY DEF Init
  <2>3. Len(src) \in Nat
    BY FilterAssumption DEF Init
  <2> QED BY <2>1, <2>2, <2>3 DEF Init, Typed
<1>2. Opened
  BY DEF Init, Opened
<1>3. Kept
  <2>1. Begun = 0
    BY DEF Init, Begun
  <2>2. \A s \in Seq(Byte) : Encoded(filter, s)[0] = SubSeq(src, 1, 0) \o Encoded(filter, s)[0]
    <3> SUFFICES ASSUME NEW s \in Seq(Byte)
                 PROVE  Encoded(filter, s)[0] = SubSeq(src, 1, 0) \o Encoded(filter, s)[0]
      OBVIOUS
    <3>1. SubSeq(src, 1, 0) = <<>>
      BY SubSeqEmpty
    <3>2. PICK u \in Seq(Byte) : u = Encoded(filter, s)[0]
      <4>1. 0 \in 0..Len(s)
        OBVIOUS
      <4> QED BY <4>1, EncodedType
    <3>3. <<>> \o u = u
      BY ConcatEmptySeq
    <3> QED BY <3>1, <3>2, <3>3
  <2> QED BY <2>1, <2>2 DEF Kept, Whole
<1> QED BY <1>1, <1>2, <1>3 DEF FInv

\* Bytes that agree are the same part.
LEMMA SamePart ==
  ASSUME NEW s \in Seq(Byte), NEW t \in Seq(Byte), NEW n \in Nat, NEW l \in Nat \ {0},
         n + l <= Len(s), n + l <= Len(t), \A k \in 1..l : s[n + k] = t[n + k]
  PROVE  SubSeq(s, n + 1, n + l) = SubSeq(t, n + 1, n + l)
<1>1. PICK u \in Seq(Byte) : u = SubSeq(s, n + 1, n + l) /\ Len(u) = l /\ \A k \in 1..l : u[k] = s[n + k]
  BY PartIs
<1>2. n + Len(u) <= Len(t) /\ Len(u) # 0 /\ \A k \in 1..Len(u) : u[k] = t[n + k]
  BY <1>1
<1>3. u = SubSeq(t, n + 1, n + Len(u))
  BY <1>2, PartEquals
<1> QED BY <1>1, <1>3

LEMMA OneByte ==
  ASSUME NEW s \in Seq(Byte), NEW n \in Nat, n + 1 <= Len(s)
  PROVE  /\ <<s[n + 1]>> = SubSeq(s, n + 1, n + 1)
         /\ <<s[n + 1]>> \in Seq(Byte) /\ Len(<<s[n + 1]>>) = 1 /\ <<s[n + 1]>>[1] = s[n + 1]
<1>1. s[n + 1] \in Byte
  OBVIOUS
<1>2. <<s[n + 1]>> \in Seq(Byte) /\ Len(<<s[n + 1]>>) = 1 /\ <<s[n + 1]>>[1] = s[n + 1]
  BY <1>1
<1>3. PICK u \in Seq(Byte) : u = <<s[n + 1]>>
  BY <1>2
<1>4. Len(u) # 0 /\ n + Len(u) <= Len(s) /\ \A k \in 1..Len(u) : u[k] = s[n + k]
  BY <1>2, <1>3
<1>5. u = SubSeq(s, n + 1, n + Len(u))
  BY <1>4, PartEquals
<1> QED BY <1>2, <1>3, <1>5

\* What a segment that begins with what there is and e has behind it.
LEMMA BytesBehind ==
  ASSUME NEW d \in Seq(Byte), NEW e \in Seq(Byte), NEW s \in Seq(Byte), Begins(s, d \o e)
  PROVE  /\ Len(d) + Len(e) <= Len(s)
         /\ \A k \in 1..Len(d) : s[k] = d[k]
         /\ \A k \in 1..Len(e) : s[Len(d) + k] = e[k]
<1>1. Begins(s, d) /\ Len(d) + Len(e) <= Len(s) /\ \A k \in 1..Len(e) : s[Len(d) + k] = e[k]
  <2>1. Len(s) \in Nat
    OBVIOUS
  <2> QED BY <2>1, BeginsLess
<1> QED BY <1>1 DEF Begins

LEMMA EmptyStep ==
  ASSUME FInv, Empty
  PROVE  FInv'
<1>1. UNCHANGED <<filter, src, dst, i, left, addr>> /\ src = <<>> /\ pc' = "done"
  BY DEF Empty
<1>2. Typed'
  <2>1. i = Len(dst) /\ i <= Len(src) /\ Len(dst) \in Nat /\ Len(src) = 0
    BY <1>1, SourceType DEF FInv, Typed
  <2>2. i' = Len(dst') /\ i' = Len(src')
    BY <1>1, <2>1
  <2> QED BY <1>1, <2>1, <2>2 DEF FInv, Typed
<1>3. Begun' = Begun /\ Passed' = Passed
  BY <1>1 DEF Begun, Passed
<1>4. Opened'
  BY <1>1, <1>3 DEF FInv, Opened
<1>5. Kept'
  BY <1>1, <1>3 DEF FInv, Kept
<1> QED BY <1>2, <1>4, <1>5 DEF FInv

\* A byte that is no opcode, or whose operand is not looked at.
LEMMA ByteStep ==
  ASSUME FInv, left = 0, i < Len(src), Emit(1, <<src[i + 1]>>), UNCHANGED <<left, addr>>,
         \A s \in Seq(Byte) : s[i + 1] = src[i + 1] => Instruction(filter, s, i) = <<s[i + 1]>>
  PROVE  FInv'
<1>1. /\ src \in Seq(Byte) /\ Len(src) \in Nat /\ Len(dst) \in Nat /\ dst \in Seq(Byte) /\ i = Len(dst)
      /\ addr \in 0..(Word - 1)
  BY SourceType DEF FInv, Typed
<1>2. PICK n \in Nat : n = Len(dst) /\ n = i
  BY <1>1
<1>3. PICK e \in Seq(Byte) : e = <<src[n + 1]>> /\ Len(e) = 1 /\ e[1] = src[n + 1] /\ e = SubSeq(src, n + 1, n + 1)
  <2>1. n + 1 <= Len(src)
    BY <1>1, <1>2
  <2>2. /\ <<src[n + 1]>> = SubSeq(src, n + 1, n + 1)
        /\ <<src[n + 1]>> \in Seq(Byte) /\ Len(<<src[n + 1]>>) = 1 /\ <<src[n + 1]>>[1] = src[n + 1]
    BY <1>1, <2>1, OneByte
  <2> QED BY <2>2
<1>4. Begun = n
  BY <1>2 DEF Begun
<1>5. ASSUME NEW s \in Seq(Byte), Begins(s, dst \o e)
      PROVE  Instruction(filter, s, Begun) = SubSeq(src, Begun + 1, Len(dst) + Len(e))
  <2>1. \A k \in 1..Len(e) : s[Len(dst) + k] = e[k]
    BY <1>1, <1>5, BytesBehind
  <2>2. s[n + 1] = src[n + 1]
    <3>1. 1 \in 1..Len(e)
      BY <1>3
    <3>2. s[Len(dst) + 1] = e[1]
      BY <2>1, <3>1
    <3> QED BY <1>2, <1>3, <3>2
  <2>3. Instruction(filter, s, n) = <<s[n + 1]>>
    BY <1>2, <2>2
  <2> QED BY <1>2, <1>3, <1>4, <2>2, <2>3
<1>6. Emit(Len(e), e) /\ Len(e) # 0 /\ Len(dst) + Len(e) <= Len(src) /\ left' = 0 /\ addr' \in 0..(Word - 1)
  BY <1>1, <1>2, <1>3
<1> QED BY <1>5, <1>6, CompleteStep

LEMMA PlainStep ==
  ASSUME FInv, Plain
  PROVE  FInv'
<1>1. New /\ ~HasOperand(src, i) /\ Emit(1, <<src[i + 1]>>)
  BY DEF Plain, opcode
<1>2. filter # "4108" /\ i < Len(src) /\ UNCHANGED <<left, addr>>
  BY <1>1 DEF New
<1>3. left = 0
  BY <1>2 DEF FInv, Typed
<1>4. ASSUME NEW s \in Seq(Byte), s[i + 1] = src[i + 1] PROVE Instruction(filter, s, i) = <<s[i + 1]>>
  <2>1. ~HasOperand(s, i)
    BY <1>1, <1>4 DEF HasOperand
  <2> QED BY <1>2, <2>1 DEF Instruction
<1> QED BY <1>1, <1>2, <1>3, <1>4, ByteStep

\* An operand that is copied: the rest of the segment, or one that is too far.
LEMMA CopyStep ==
  ASSUME FInv, New, NEW l \in Nat \ {0}, i + l <= Len(src), Emit(l, SubSeq(src, i + 1, i + l)),
         \A s \in Seq(Byte) :
           i + l <= Len(s) /\ Len(s) <= Len(src) /\ (\A k \in 1..l : s[i + k] = src[i + k])
             => Instruction(filter, s, i) = SubSeq(s, i + 1, i + l)
  PROVE  FInv'
<1>1. /\ src \in Seq(Byte) /\ Len(src) \in Nat /\ Len(dst) \in Nat /\ dst \in Seq(Byte) /\ i = Len(dst)
      /\ addr \in 0..(Word - 1)
  BY SourceType DEF FInv, Typed
<1>2. PICK n \in Nat : n = Len(dst) /\ n = i
  BY <1>1
<1>3. filter # "4108" /\ i < Len(src) /\ UNCHANGED <<left, addr>> /\ left = 0
  BY DEF New, FInv, Typed
<1>4. PICK e \in Seq(Byte) : e = SubSeq(src, n + 1, n + l) /\ Len(e) = l /\ \A k \in 1..l : e[k] = src[n + k]
  <2>1. n + l <= Len(src)
    BY <1>2
  <2>2. /\ SubSeq(src, n + 1, n + l) \in Seq(Byte) /\ Len(SubSeq(src, n + 1, n + l)) = l
        /\ \A k \in 1..l : SubSeq(src, n + 1, n + l)[k] = src[n + k]
    BY <1>1, <2>1, PartIs
  <2> QED BY <2>2
<1>5. Begun = n
  BY <1>2, <1>3 DEF Begun
<1>6. ASSUME NEW s \in Seq(Byte), Begins(s, dst \o e), Len(s) <= Len(src)
      PROVE  Instruction(filter, s, Begun) = SubSeq(src, Begun + 1, Len(dst) + Len(e))
  <2>1. Len(dst) + Len(e) <= Len(s) /\ \A k \in 1..Len(e) : s[Len(dst) + k] = e[k]
    BY <1>1, <1>6, BytesBehind
  <2>2. n + l <= Len(s) /\ \A k \in 1..l : s[n + k] = src[n + k]
    BY <1>2, <1>4, <2>1
  <2>3. Instruction(filter, s, n) = SubSeq(s, n + 1, n + l)
    BY <1>2, <1>6, <2>2
  <2>4. n + l <= Len(src)
    BY <1>2
  <2>5. SubSeq(s, n + 1, n + l) = SubSeq(src, n + 1, n + l)
    BY <1>1, <2>2, <2>4, SamePart
  <2> QED BY <1>2, <1>4, <1>5, <2>3, <2>5
<1>7. Emit(Len(e), e) /\ Len(e) # 0 /\ Len(dst) + Len(e) <= Len(src) /\ left' = 0 /\ addr' \in 0..(Word - 1)
  BY <1>1, <1>2, <1>3, <1>4
<1> QED BY <1>6, <1>7, CompleteStep

LEMMA CutOperandStep ==
  ASSUME FInv, CutOperand
  PROVE  FInv'
<1>1. New /\ HasOperand(src, i) /\ Len(src) - (i + 1) < OperandLen /\ Emit(Len(src) - i, SubSeq(src, i + 1, Len(src)))
  BY DEF CutOperand, RestOfSegment
<1>2. i \in Nat /\ Len(src) \in Nat /\ i < Len(src) /\ filter # "4108" /\ OperandLen \in Nat
  BY <1>1, SourceType, FilterConstants DEF FInv, New
<1>3. PICK l \in Nat \ {0} : l = Len(src) - i
  <2>1. Len(src) - i \in Nat \ {0}
    BY <1>2
  <2> QED BY <2>1
<1>4. i + l = Len(src)
  BY <1>2, <1>3
<1>5. ASSUME NEW s \in Seq(Byte), i + l <= Len(s), Len(s) <= Len(src), \A k \in 1..l : s[i + k] = src[i + k]
      PROVE  Instruction(filter, s, i) = SubSeq(s, i + 1, i + l)
  <2>1. Len(s) = i + l /\ i + 1 + OperandLen > Len(s)
    BY <1>1, <1>2, <1>4, <1>5
  <2>2. s[i + 1] = src[i + 1]
    <3>1. 1 \in 1..l
      OBVIOUS
    <3> QED BY <1>5, <3>1
  <2>3. HasOperand(s, i)
    BY <1>1, <2>2 DEF HasOperand
  <2> QED BY <1>2, <2>1, <2>3 DEF Instruction
<1> QED BY <1>1, <1>3, <1>4, <1>5, CopyStep

LEMMA FarOperandStep ==
  ASSUME FInv, FarOperand
  PROVE  FInv'
<1>1. /\ New /\ HasOperand(src, i) /\ Len(src) - (i + 1) >= OperandLen /\ Far(src, i)
      /\ Emit(OperandLen + 1, SubSeq(src, i + 1, i + 1 + OperandLen))
  BY DEF FarOperand
<1>2. i \in Nat /\ Len(src) \in Nat /\ filter # "4108" /\ OperandLen \in Nat \ {0}
  BY <1>1, SourceType, FilterConstants DEF FInv, New
<1>3. PICK l \in Nat \ {0} : l = OperandLen + 1
  BY <1>2
<1>4. i + l = i + 1 + OperandLen /\ i + l <= Len(src)
  BY <1>1, <1>2, <1>3
<1>5. ASSUME NEW s \in Seq(Byte), i + l <= Len(s), Len(s) <= Len(src), \A k \in 1..l : s[i + k] = src[i + k]
      PROVE  Instruction(filter, s, i) = SubSeq(s, i + 1, i + l)
  <2>1. ~(i + 1 + OperandLen > Len(s))
    BY <1>2, <1>4, <1>5
  <2>2. s[i + 1] = src[i + 1] /\ s[i + 1 + OperandLen] = src[i + 1 + OperandLen]
    <3>1. 1 \in 1..l /\ l \in 1..l
      BY <1>2, <1>3
    <3> QED BY <1>4, <1>5, <3>1
  <2>3. HasOperand(s, i) /\ Far(s, i)
    BY <1>1, <2>2 DEF HasOperand, Far, High
  <2> QED BY <1>2, <1>4, <2>1, <2>3 DEF Instruction
<1> QED BY <1>1, <1>3, <1>4, <1>5, CopyStep

\* A byte, some bytes and a byte.
LEMMA ThreeParts ==
  ASSUME NEW b \in Byte, NEW u \in Seq(Byte), NEW h \in Byte,
         NEW e, e = <<b>> \o u \o <<h>>
  PROVE  /\ e \in Seq(Byte) /\ Len(e) = Len(u) + 2
         /\ e[1] = b /\ e[Len(u) + 2] = h /\ \A k \in 1..Len(u) : e[1 + k] = u[k]
<1>1. PICK l \in Nat : l = Len(u)
  OBVIOUS
<1>2. PICK v \in Seq(Byte) : v = <<b>> /\ Len(v) = 1 /\ v[1] = b
  <2>1. <<b>> \in Seq(Byte) /\ Len(<<b>>) = 1 /\ <<b>>[1] = b
    OBVIOUS
  <2> QED BY <2>1
<1>3. PICK w \in Seq(Byte) : w = <<h>> /\ Len(w) = 1 /\ w[1] = h
  <2>1. <<h>> \in Seq(Byte) /\ Len(<<h>>) = 1 /\ <<h>>[1] = h
    OBVIOUS
  <2> QED BY <2>1
<1>4. PICK x \in Seq(Byte) : /\ x = v \o u /\ Len(x) = 1 + l
                             /\ \A k \in 1..(1 + l) : x[k] = IF k <= 1 THEN v[k] ELSE u[k - 1]
  <2>1. /\ v \o u \in Seq(Byte) /\ Len(v \o u) = 1 + l
        /\ \A k \in 1..(1 + l) : (v \o u)[k] = IF k <= 1 THEN v[k] ELSE u[k - 1]
    BY <1>1, <1>2, ConcatProperties
  <2> QED BY <2>1
<1>5. /\ e \in Seq(Byte) /\ Len(e) = (1 + l) + 1
      /\ \A k \in 1..((1 + l) + 1) : e[k] = IF k <= 1 + l THEN x[k] ELSE w[k - (1 + l)]
  <2>1. /\ x \o w \in Seq(Byte) /\ Len(x \o w) = (1 + l) + 1
        /\ \A k \in 1..((1 + l) + 1) : (x \o w)[k] = IF k <= 1 + l THEN x[k] ELSE w[k - (1 + l)]
    BY <1>3, <1>4, ConcatProperties
  <2>2. e = x \o w
    BY <1>2, <1>3, <1>4
  <2> QED BY <2>1, <2>2
<1>6. e[1] = b
  BY <1>2, <1>4, <1>5
<1>7. e[l + 2] = h
  <2>1. l + 2 \in 1..((1 + l) + 1) /\ ~(l + 2 <= 1 + l) /\ (l + 2) - (1 + l) = 1
    OBVIOUS
  <2> QED BY <1>3, <1>5, <2>1
<1>8. \A k \in 1..l : e[1 + k] = u[k]
  <2> TAKE k \in 1..l
  <2>1. 1 + k \in 1..(1 + l) /\ 1 + k \in 1..((1 + l) + 1) /\ 1 + k <= 1 + l /\ ~(1 + k <= 1) /\ (1 + k) - 1 = k
    OBVIOUS
  <2> QED BY <1>4, <1>5, <2>1
<1>9. Len(e) = l + 2
  BY <1>5
<1> QED BY <1>1, <1>5, <1>6, <1>7, <1>8, <1>9

\* What the operand that is made relative becomes.
LEMMA OperandEmits ==
  ASSUME FInv, Operand
  PROVE  \E e \in Seq(Byte) :
           /\ Len(e) = OperandLen + 1 /\ Emit(Len(e), e)
           /\ e[1] = src[i + 1] /\ e[OperandLen + 1] = HighOf(filter, Relative(src, i), src, i)
           /\ \A k \in 1..(OperandLen - 1) : e[1 + k] = Digits(Relative(src, i), OperandLen - 1)[k]
<1>1. New /\ HasOperand(src, i) /\ Len(src) - (i + 1) >= OperandLen /\ ~Far(src, i)
  BY DEF Operand
<1>2. /\ src \in Seq(Byte) /\ Len(src) \in Nat /\ Len(dst) \in Nat /\ dst \in Seq(Byte) /\ i = Len(dst)
      /\ addr \in 0..(Word - 1)
      /\ filter # "4108" /\ left = 0 /\ UNCHANGED <<left, addr>>
  BY <1>1, SourceType DEF FInv, Typed, New
<1>3. PICK n \in Nat : n = Len(dst) /\ n = i
  BY <1>2
<1>4. /\ OperandLen \in Nat \ {0, 1} /\ OperandLen - 1 \in 0..OperandLen /\ n + 1 + OperandLen <= Len(src)
      /\ AddressRange \in Nat \ {0} /\ Base \in Nat \ {0}
  BY <1>1, <1>2, <1>3, FilterConstants
<1>5. Address(src, n) \in 0..(AddressRange - 1) /\ High(src, n) \in Byte /\ src[n + 1] \in Byte
  BY <1>2, <1>4, AddressType
<1>6. PICK rel \in Nat : rel = (Address(src, n) - (n + OperandLen + 1)) % AddressRange
  <2>1. PICK p \in Nat \ {0}, x \in Int : p = AddressRange /\ x = Address(src, n) - (n + OperandLen + 1)
    <3>1. Address(src, n) \in Int
      BY <1>4, <1>5
    <3>2. Address(src, n) - (n + OperandLen + 1) \in Int
      BY <1>4, <3>1
    <3> QED BY <1>4, <3>2
  <2>2. x % p \in Nat
    BY RemainderType
  <2> QED BY <2>1, <2>2
<1>7. PICK high \in Byte : high = HighOf(filter, rel, src, n)
  <2>1. Base - 1 - High(src, n) \in Byte
    BY <1>4, <1>5 DEF Byte
  <2> QED BY <1>5, <2>1 DEF HighOf
<1>8. PICK u \in Seq(Byte) : u = Digits(rel, OperandLen - 1) /\ Len(u) = OperandLen - 1
  BY <1>4, DigitsType
<1>9. PICK e \in Seq(Byte) :
        /\ e = <<src[n + 1]>> \o u \o <<high>> /\ Len(e) = Len(u) + 2
        /\ e[1] = src[n + 1] /\ e[Len(u) + 2] = high /\ \A k \in 1..Len(u) : e[1 + k] = u[k]
  <2>1. PICK b \in Byte : b = src[n + 1]
    BY <1>5
  <2>2. PICK e : e = <<b>> \o u \o <<high>>
    OBVIOUS
  <2>3. /\ e \in Seq(Byte) /\ Len(e) = Len(u) + 2
        /\ e[1] = b /\ e[Len(u) + 2] = high /\ \A k \in 1..Len(u) : e[1 + k] = u[k]
    BY <2>2, ThreeParts
  <2> QED BY <2>1, <2>2, <2>3
<1>10. Emit(OperandLen + 1, e)
  BY <1>3, <1>6, <1>7, <1>8, <1>9 DEF Operand, opcode, Flips, HighOf
<1>11. Len(e) = OperandLen + 1 /\ Emit(Len(e), e)
  BY <1>4, <1>8, <1>9, <1>10
<1>12. e[OperandLen + 1] = high /\ high = HighOf(filter, Relative(src, n), src, n) /\ rel = Relative(src, n)
  <2>1. rel = Relative(src, n)
    BY <1>6 DEF Relative
  <2>2. OperandLen + 1 = Len(u) + 2
    BY <1>4, <1>8
  <2> QED BY <1>7, <1>9, <2>1, <2>2
<1>13. \A k \in 1..(OperandLen - 1) : e[1 + k] = Digits(Relative(src, n), OperandLen - 1)[k]
  BY <1>8, <1>9, <1>12
<1> QED BY <1>3, <1>9, <1>10, <1>11, <1>12, <1>13

LEMMA OperandStep ==
  ASSUME FInv, Operand
  PROVE  FInv'
<1>1. New /\ HasOperand(src, i) /\ Len(src) - (i + 1) >= OperandLen /\ ~Far(src, i)
  BY DEF Operand
<1>2. /\ src \in Seq(Byte) /\ Len(src) \in Nat /\ Len(dst) \in Nat /\ dst \in Seq(Byte) /\ i = Len(dst)
      /\ addr \in 0..(Word - 1)
      /\ filter # "4108" /\ left = 0 /\ UNCHANGED <<left, addr>>
  BY <1>1, SourceType DEF FInv, Typed, New
<1>3. PICK n \in Nat : n = Len(dst) /\ n = i
  BY <1>2
<1>4. /\ OperandLen \in Nat \ {0, 1} /\ OperandLen - 1 \in 0..OperandLen /\ n + 1 + OperandLen <= Len(src)
      /\ AddressRange \in Nat \ {0} /\ Base \in Nat \ {0}
  BY <1>1, <1>2, <1>3, FilterConstants
<1>5. PICK e \in Seq(Byte) :
        /\ Len(e) = OperandLen + 1 /\ Emit(Len(e), e)
        /\ e[1] = src[n + 1] /\ e[OperandLen + 1] = HighOf(filter, Relative(src, n), src, n)
        /\ \A k \in 1..(OperandLen - 1) : e[1 + k] = Digits(Relative(src, n), OperandLen - 1)[k]
  BY <1>3, OperandEmits
<1>6. Begun = n
  BY <1>2, <1>3 DEF Begun
<1>7. ASSUME NEW s \in Seq(Byte), Begins(s, dst \o e), Len(s) <= Len(src)
      PROVE  Instruction(filter, s, Begun) = SubSeq(src, Begun + 1, Len(dst) + Len(e))
  <2>1. Len(dst) + Len(e) <= Len(s) /\ \A k \in 1..Len(e) : s[Len(dst) + k] = e[k]
    BY <1>2, <1>7, BytesBehind
  <2>2. n + 1 + OperandLen <= Len(s) /\ \A k \in 1..(OperandLen + 1) : s[n + k] = e[k]
    BY <1>3, <1>4, <1>5, <2>1
  <2>3. s[n + 1] = src[n + 1]
    <3>1. 1 \in 1..(OperandLen + 1)
      BY <1>4
    <3> QED BY <1>5, <2>2, <3>1
  <2>4. s[n + 1 + OperandLen] = HighOf(filter, Relative(src, n), src, n)
    <3>1. OperandLen + 1 \in 1..(OperandLen + 1) /\ n + 1 + OperandLen = n + (OperandLen + 1)
      BY <1>4
    <3> QED BY <1>5, <2>2, <3>1
  <2>5. \A k \in 1..(OperandLen - 1) : s[n + 1 + k] = Digits(Relative(src, n), OperandLen - 1)[k]
    <3> TAKE k \in 1..(OperandLen - 1)
    <3>1. 1 + k \in 1..(OperandLen + 1) /\ n + (1 + k) = n + 1 + k
      BY <1>4
    <3>2. s[n + (1 + k)] = e[1 + k]
      BY <2>2, <3>1
    <3> QED BY <1>5, <3>1, <3>2
  <2>6. Written(filter, src, s, n)
    BY <2>3, <2>4, <2>5 DEF Written, High
  <2>7. PICK f : f = filter
    OBVIOUS
  <2>8. PICK segment \in Seq(Byte) : segment = src /\ f = filter
    BY <1>2, <2>7
  <2>9. /\ f # "4108" /\ n + 1 + OperandLen <= Len(segment)
        /\ HasOperand(segment, n) /\ ~Far(segment, n) /\ Written(f, segment, s, n)
    BY <1>1, <1>2, <1>3, <1>4, <2>6, <2>8
  <2>10. Instruction(f, s, n) = SubSeq(segment, n + 1, n + 1 + OperandLen)
    BY <2>2, <2>9, NewUndone
  <2>11. Len(dst) + Len(e) = n + 1 + OperandLen
    BY <1>3, <1>4, <1>5
  <2> QED BY <1>6, <2>8, <2>10, <2>11
<1>8. Len(e) # 0 /\ Len(dst) + Len(e) <= Len(src) /\ left' = 0 /\ addr' \in 0..(Word - 1)
  BY <1>2, <1>3, <1>4, <1>5
<1>9. Emit(Len(e), e)
  BY <1>5
<1> QED BY <1>7, <1>8, <1>9, CompleteStep

LEMMA OldOpcodeStep ==
  ASSUME FInv, OldOpcode
  PROVE  FInv'
<1>1. Old /\ left = 0 /\ Emit(1, <<src[i + 1]>>) /\ filter = "4108" /\ i < Len(src)
  BY DEF OldOpcode, Old
<1>2. /\ src \in Seq(Byte) /\ Len(src) \in Nat /\ Len(dst) \in Nat /\ dst \in Seq(Byte) /\ i = Len(dst)
      /\ Typed /\ Kept
  BY SourceType DEF FInv
<1>3. CASE src[i + 1] \notin Opcodes
  <2>1. UNCHANGED <<left, addr>>
    BY <1>3 DEF OldOpcode
  <2>2. ASSUME NEW s \in Seq(Byte), s[i + 1] = src[i + 1] PROVE Instruction(filter, s, i) = <<s[i + 1]>>
    BY <1>1, <1>3, <2>2 DEF Instruction
  <2> QED BY <1>1, <2>1, <2>2, ByteStep
<1>4. CASE src[i + 1] \in Opcodes
  <2>1. left' = OperandLen /\ addr' = (-(i + OperandLen + 1)) % Word
    BY <1>4 DEF OldOpcode
  <2>2. PICK n \in Nat : n = Len(dst) /\ n = i
    BY <1>2
  <2>3. PICK e \in Seq(Byte) : e = <<src[n + 1]>> /\ Len(e) = 1 /\ e[1] = src[n + 1]
    <3>1. n + 1 <= Len(src)
      BY <1>1, <1>2, <2>2
    <3>2. <<src[n + 1]>> \in Seq(Byte) /\ Len(<<src[n + 1]>>) = 1 /\ <<src[n + 1]>>[1] = src[n + 1]
      BY <1>2, <3>1, OneByte
    <3> QED BY <3>2
  <2>4. Emit(Len(e), e) /\ Len(dst) + Len(e) <= Len(src)
    BY <1>1, <1>2, <2>2, <2>3
  <2>5. OperandLen \in Nat \ {0} /\ Word \in Nat \ {0}
    BY FilterConstants
  <2>6. addr' \in 0..(Word - 1)
    <3>1. PICK x \in Int, w \in Nat \ {0} : x = -(i + OperandLen + 1) /\ w = Word
      BY <2>2, <2>5
    <3>2. x % w \in 0..(w - 1)
      BY RemainderType
    <3> QED BY <2>1, <3>1, <3>2
  <2>7. left' \in 0..OperandLen /\ left' # 0
    BY <2>1, <2>5
  <2>8. /\ Typed' /\ dst' = dst \o e /\ filter' = filter /\ src' = src
        /\ dst' \in Seq(Byte) /\ Len(dst') = n + 1
    BY <1>1, <1>2, <2>2, <2>3, <2>4, <2>6, <2>7, EmitTyped
  <2>9. Begun' = n /\ Passed' = 0
    BY <2>1, <2>5, <2>8 DEF Begun, Passed
  <2>10. dst'[n + 1] = src[n + 1]
    BY <1>2, <2>2, <2>3, <2>8, ConcatProperties
  <2>11. Added(dst', src, n, 0, addr')
    <3>1. Added(dst', src, n, 0, (-(n + OperandLen + 1)) % Word)
      BY AddedStart
    <3> QED BY <2>1, <2>2, <3>1
  <2>12. Opened'
    BY <1>4, <2>2, <2>8, <2>9, <2>10, <2>11 DEF Opened
  <2>13. Kept'
    <3>1. Begun = n
      BY <1>1, <2>2 DEF Begun
    <3>2. Whole(filter, src, dst \o e, n)
      BY <1>2, <3>1, WholeStays DEF Kept
    <3> QED BY <2>8, <2>9, <3>2 DEF Kept
  <2> QED BY <2>8, <2>12, <2>13 DEF FInv
<1> QED BY <1>3, <1>4

LEMMA OldOperandStep ==
  ASSUME FInv, OldOperand
  PROVE  FInv'
<1>1. /\ Old /\ left > 0 /\ filter = "4108" /\ i < Len(src) /\ left' = left - 1
      /\ Emit(1, <<((addr + src[i + 1]) % Word) % Base>>) /\ addr' = ((addr + src[i + 1]) % Word) \div Base
  BY DEF OldOperand, Old
<1>2. /\ src \in Seq(Byte) /\ Len(src) \in Nat /\ Len(dst) \in Nat /\ dst \in Seq(Byte) /\ i = Len(dst)
      /\ Typed /\ Opened /\ Kept /\ left \in 0..OperandLen /\ addr \in 0..(Word - 1)
  BY SourceType DEF FInv, Typed
<1>3. /\ OperandLen \in Nat \ {0, 1} /\ Word \in Nat \ {0} /\ Base \in Nat \ {0}
  BY FilterConstants
<1>4. PICK n \in Nat, m \in Nat, a \in Nat : n = Begun /\ m = Passed /\ a = addr
  <2>1. Begun \in Nat
    BY <1>1, <1>2 DEF Opened
  <2>2. Passed \in Nat
    BY <1>1, <1>2, <1>3 DEF Passed
  <2> QED BY <1>2, <1>3, <2>1, <2>2
<1>5. /\ src[n + 1] \in Opcodes /\ dst[n + 1] = src[n + 1] /\ Added(dst, src, n, m, a)
  BY <1>1, <1>2, <1>4 DEF Opened
<1>6. /\ m = OperandLen - left /\ Len(dst) = n + 1 + m /\ m \in 0..(OperandLen - 1)
      /\ i = n + 1 + m /\ n + 1 + (m + 1) <= Len(src)
  BY <1>1, <1>2, <1>3, <1>4 DEF Passed, Begun
<1>7. PICK b \in Nat : b = src[i + 1] /\ b = src[n + 1 + (m + 1)]
  <2>1. src[i + 1] \in 0..(Base - 1)
    <3>1. i + 1 \in 1..Len(src)
      BY <1>1, <1>2, <1>6
    <3>2. src[i + 1] \in Byte
      BY <1>2, <3>1
    <3> QED BY <3>2 DEF Byte
  <2>2. i + 1 = n + 1 + (m + 1)
    BY <1>6
  <2> QED BY <1>3, <2>1, <2>2
<1>8. PICK sum \in Nat : sum = (a + b) % Word /\ sum \in 0..(Word - 1)
  <2>1. PICK x \in Nat, w \in Nat \ {0} : x = a + b /\ w = Word
    BY <1>3
  <2>2. x % w \in 0..(w - 1) /\ x % w \in Nat
    BY DivisionOfNat
  <2> QED BY <2>1, <2>2
<1>9. PICK o \in Byte, y \in Nat : o = sum % Base /\ y = sum \div Base /\ y \in 0..(Word - 1)
  <2>1. PICK p \in Nat \ {0} : p = Base
    BY <1>3
  <2>2. sum % p \in 0..(p - 1) /\ sum \div p \in Nat /\ sum = p * (sum \div p) + (sum % p)
    BY DivisionOfNat
  <2>3. PICK z \in Nat, r \in 0..(p - 1) : z = sum \div p /\ r = sum % p /\ sum = p * z + r
    BY <2>2
  <2>4. z <= p * z /\ p * z \in Nat
    <3>1. p * z = z + (p - 1) * z /\ (p - 1) * z \in Nat
      OBVIOUS
    <3> QED BY <3>1
  <2>5. z <= sum
    BY <2>3, <2>4
  <2>6. z \in 0..(Word - 1)
    BY <1>3, <1>8, <2>5
  <2> QED BY <2>1, <2>3, <2>6 DEF Byte
<1>10. PICK e \in Seq(Byte) : e = <<o>> /\ Len(e) = 1 /\ e[1] = o
  <2>1. <<o>> \in Seq(Byte) /\ Len(<<o>>) = 1 /\ <<o>>[1] = o
    OBVIOUS
  <2> QED BY <2>1
<1>11. Emit(Len(e), e) /\ addr' = y /\ Len(dst) + Len(e) <= Len(src) /\ left' \in 0..OperandLen /\ addr' \in 0..(Word - 1)
  <2>1. Emit(Len(e), e) /\ addr' = y
    BY <1>1, <1>4, <1>7, <1>8, <1>9, <1>10
  <2>2. Len(dst) + Len(e) <= Len(src)
    BY <1>2, <1>6, <1>10
  <2>3. left' \in 0..OperandLen
    BY <1>1, <1>2, <1>3
  <2> QED BY <1>9, <2>1, <2>2, <2>3
<1>12. /\ Typed' /\ dst' = dst \o e /\ filter' = filter /\ src' = src
       /\ dst' \in Seq(Byte) /\ Len(dst') = n + 1 + (m + 1)
  <2>1. Emit(Len(e), e) /\ Len(dst) + Len(e) <= Len(src) /\ left' \in 0..OperandLen /\ addr' \in 0..(Word - 1)
    BY <1>11
  <2>2. /\ Typed' /\ dst' = dst \o e /\ filter' = filter /\ src' = src
        /\ dst' \in Seq(Byte) /\ Len(dst') = Len(dst) + Len(e)
    BY <1>1, <1>2, <2>1, EmitTyped
  <2> QED BY <1>6, <1>10, <2>2
\* What is decoded of the operand, in dst' and in every segment that begins with it.
<1>13. ASSUME NEW s \in Seq(Byte), Begins(s, dst \o e)
       PROVE  /\ n + 1 + (m + 1) <= Len(s) /\ s[n + 1] = src[n + 1]
              /\ Added(s, src, n, m + 1, y)
  <2>1. /\ Len(dst) + Len(e) <= Len(s)
        /\ \A k \in 1..Len(dst) : s[k] = dst[k]
        /\ \A k \in 1..Len(e) : s[Len(dst) + k] = e[k]
    BY <1>2, <1>13, BytesBehind
  <2>2. n + 1 + (m + 1) <= Len(s)
    BY <1>6, <1>10, <2>1
  <2>3. s[n + 1] = src[n + 1]
    <3>1. n + 1 \in 1..Len(dst)
      BY <1>6
    <3> QED BY <1>5, <2>1, <3>1
  <2>4. \A k \in 1..m : s[n + 1 + k] = dst[n + 1 + k]
    <3> TAKE k \in 1..m
    <3>1. n + 1 + k \in 1..Len(dst)
      BY <1>6
    <3> QED BY <2>1, <3>1
  <2>5. s[n + 1 + (m + 1)] = o
    <3>1. 1 \in 1..Len(e) /\ Len(dst) + 1 = n + 1 + (m + 1)
      BY <1>6, <1>10
    <3>2. s[Len(dst) + 1] = e[1]
      BY <2>1, <3>1
    <3> QED BY <1>10, <3>1, <3>2
  <2>6. HasBytes(s, n, m + 1) /\ HasBytes(src, n, m + 1)
    BY <1>2, <1>6, <2>2, BytesOf
  <2>7. sum = (a + src[n + 1 + (m + 1)]) % Word /\ s[n + 1 + (m + 1)] = sum % Base /\ y = sum \div Base
    BY <1>7, <1>8, <1>9, <2>5
  <2>8. Added(s, src, n, m + 1, sum \div Base)
    BY <1>5, <1>6, <2>4, <2>6, <2>7, AddedStep
  <2> QED BY <2>2, <2>3, <2>7, <2>8
<1>14. CASE left' = 0
  <2>1. m + 1 = OperandLen
    BY <1>1, <1>2, <1>3, <1>6, <1>14
  <2>2. ASSUME NEW s \in Seq(Byte), Begins(s, dst \o e), Len(s) <= Len(src)
        PROVE  Instruction(filter, s, Begun) = SubSeq(src, Begun + 1, Len(dst) + Len(e))
    <3>1. n + 1 + OperandLen <= Len(s) /\ s[n + 1] = src[n + 1] /\ Added(s, src, n, OperandLen, y)
      BY <1>13, <2>1, <2>2
    <3>2. Instruction(filter, s, n) = RaiseOld(s, n)
      BY <1>1, <1>5, <3>1 DEF Instruction
    <3>3. OperandLen = Shorter(OperandLen, Len(s) - n - 1) /\ OperandLen \in 0..OperandLen
      <4>1. Len(s) \in Nat
        OBVIOUS
      <4> QED BY <1>3, <3>1, <4>1 DEF Shorter
    <3>4. n + 1 + OperandLen <= Len(src)
      BY <1>6, <2>1
    <3>5. RaiseOld(s, n) = SubSeq(src, n + 1, n + 1 + OperandLen)
      <4>1. PICK segment \in Seq(Byte) : segment = src
        BY <1>2
      <4>2. /\ s[n + 1] = segment[n + 1] /\ Added(s, segment, n, OperandLen, y)
            /\ n + 1 + OperandLen <= Len(segment)
        BY <3>1, <3>4, <4>1
      <4>3. RaiseOld(s, n) = SubSeq(segment, n + 1, n + 1 + OperandLen)
        BY <3>1, <3>3, <4>2, OldUndone
      <4> QED BY <4>1, <4>3
    <3>6. Len(dst) + Len(e) = n + 1 + OperandLen
      BY <1>6, <1>10, <2>1
    <3> QED BY <1>4, <3>2, <3>5, <3>6
  <2>3. Len(e) # 0
    BY <1>10
  <2> QED BY <1>11, <1>14, <2>2, <2>3, CompleteStep
<1>15. CASE left' # 0
  <2>1. Begun' = n /\ Passed' = m + 1
    BY <1>1, <1>2, <1>3, <1>6, <1>12, <1>15 DEF Begun, Passed
  <2>2. Begins(dst', dst \o e)
    BY <1>12 DEF Begins
  <2>3. dst'[n + 1] = src[n + 1] /\ Added(dst', src, n, m + 1, y)
    BY <1>12, <1>13, <2>2
  <2>4. Opened'
    BY <1>5, <1>11, <1>12, <2>1, <2>3 DEF Opened
  <2>5. Kept'
    <3>1. Whole(filter, src, dst \o e, n)
      BY <1>2, <1>4, WholeStays DEF Kept
    <3> QED BY <1>12, <2>1, <3>1 DEF Kept
  <2> QED BY <1>12, <2>4, <2>5 DEF FInv
<1> QED BY <1>14, <1>15

\* FInv is inductive.
LEMMA NextFInv ==
  FInv /\ [Next]_fvars => FInv'
<1> SUFFICES ASSUME FInv, [Next]_fvars PROVE FInv'
  OBVIOUS
<1>1. CASE Empty
  BY <1>1, EmptyStep
<1>2. CASE OldOpcode
  BY <1>2, OldOpcodeStep
<1>3. CASE OldOperand
  BY <1>3, OldOperandStep
<1>4. CASE Plain
  BY <1>4, PlainStep
<1>5. CASE CutOperand
  BY <1>5, CutOperandStep
<1>6. CASE FarOperand
  BY <1>6, FarOperandStep
<1>7. CASE Operand
  BY <1>7, OperandStep
<1>8. CASE UNCHANGED fvars
  <2>1. UNCHANGED <<filter, src, dst, pc, i, left, addr>>
    BY <1>8 DEF fvars
  <2>2. Begun' = Begun /\ Passed' = Passed
    BY <2>1 DEF Begun, Passed
  <2>3. Typed'
    BY <2>1 DEF FInv, Typed
  <2>4. Opened'
    BY <2>1, <2>2 DEF FInv, Opened
  <2>5. Kept'
    BY <2>1, <2>2 DEF FInv, Kept
  <2> QED BY <2>3, <2>4, <2>5 DEF FInv
<1> QED BY <1>1, <1>2, <1>3, <1>4, <1>5, <1>6, <1>7, <1>8 DEF Next, Step, Decoded

LEMMA FInvHolds ==
  Spec => []FInv
<1>1. Init => FInv
  BY InitFInv
<1>2. FInv /\ [Next]_fvars => FInv'
  BY NextFInv
<1> QED BY <1>1, <1>2, PTL DEF Spec

\* A filter returns a byte for every byte it reads, and reads them all
\* (decodeInstruction4108, decodeInstruction5200), whatever the segment and the
\* sizes of a byte, an operand and a page.
THEOREM FilterTypes == Spec => []TypeOK
<1>1. FInv => TypeOK
  <2> SUFFICES ASSUME FInv PROVE TypeOK
    OBVIOUS
  <2>1. \A k \in DOMAIN dst : dst[k] \in Byte
    BY DEF FInv, Typed
  <2>2. i \in 0..Len(src)
    BY SourceType DEF FInv, Typed
  <2> QED BY <2>1, <2>2 DEF FInv, Typed, TypeOK
<1> QED BY <1>1, FInvHolds, PTL

\* Of the bytes that end dst, those behind Begun encode to what was read.
LEMMA RestIsKept ==
  ASSUME FInv
  PROVE  Begun \in 0..Len(dst) /\ Encoded(filter, dst)[Begun] = SubSeq(src, Begun + 1, Len(dst))
<1>1. /\ src \in Seq(Byte) /\ Len(src) \in Nat /\ Len(dst) \in Nat /\ dst \in Seq(Byte) /\ i = Len(dst)
      /\ Typed /\ Opened /\ left \in 0..OperandLen /\ addr \in 0..(Word - 1) /\ Len(dst) <= Len(src)
  BY SourceType DEF FInv, Typed
<1>2. Encoded(filter, dst)[Len(dst)] = <<>>
  BY <1>1, EncodedEquation
<1>3. CASE left = 0
  <2>1. Begun = Len(dst)
    BY <1>3 DEF Begun
  <2>2. SubSeq(src, Len(dst) + 1, Len(dst)) = <<>>
    <3>1. PICK a \in Int, b \in Int : a = Len(dst) + 1 /\ b = Len(dst) /\ b < a
      BY <1>1
    <3>2. SubSeq(src, a, b) = <<>>
      BY <3>1, SubSeqEmpty
    <3> QED BY <3>1, <3>2
  <2>3. Len(dst) \in 0..Len(dst)
    BY <1>1
  <2> QED BY <1>2, <2>1, <2>2, <2>3
<1>4. CASE left # 0
  <2>1. OperandLen \in Nat /\ Word \in Nat
    BY FilterConstants
  <2>2. PICK n \in Nat, m \in Nat, a \in Nat : n = Begun /\ m = Passed /\ a = addr
    <3>1. Begun \in Nat
      BY <1>1, <1>4 DEF Opened
    <3>2. Passed \in Nat
      BY <1>1, <1>4, <2>1 DEF Passed
    <3> QED BY <1>1, <2>1, <3>1, <3>2
  <2>3. Len(dst) = n + 1 + m /\ m \in 0..OperandLen
    BY <1>1, <1>4, <2>1, <2>2 DEF Passed, Begun
  <2>4. src[n + 1] \in Opcodes /\ dst[n + 1] = src[n + 1] /\ Added(dst, src, n, m, a) /\ filter = "4108"
    BY <1>1, <1>4, <2>2 DEF Opened, Typed
  <2>5. Instruction(filter, dst, n) = RaiseOld(dst, n)
    BY <2>4 DEF Instruction
  <2>6. PICK d \in Seq(Byte), segment \in Seq(Byte) : d = dst /\ segment = src
    BY <1>1
  <2>7. RaiseOld(d, n) = SubSeq(segment, n + 1, n + 1 + m)
    <3>1. n + 1 + m <= Len(d) /\ n + 1 + m <= Len(segment)
      BY <1>1, <2>3, <2>6
    <3>2. m = Shorter(OperandLen, Len(d) - n - 1)
      <4>1. Len(d) - n - 1 = m
        BY <2>3, <2>6
      <4> QED BY <2>1, <2>3, <4>1 DEF Shorter
    <3>3. d[n + 1] = segment[n + 1] /\ Added(d, segment, n, m, a)
      BY <2>4, <2>6
    <3>4. PICK j \in 0..OperandLen : j = m
      BY <2>3
    <3>5. RaiseOld(d, n) = SubSeq(segment, n + 1, n + 1 + j)
      <4> HIDE <3>4
      <4>1. n + 1 + j <= Len(d) /\ n + 1 + j <= Len(segment) /\ j = Shorter(OperandLen, Len(d) - n - 1)
        BY <3>1, <3>2, <3>4
      <4>2. d[n + 1] = segment[n + 1] /\ Added(d, segment, n, j, a)
        BY <3>3, <3>4
      <4> QED BY <4>1, <4>2, OldUndone
    <3> QED BY <3>4, <3>5
  <2>8. PICK u \in Seq(Byte) : u = SubSeq(segment, n + 1, n + 1 + m) /\ Len(u) = m + 1
    <3>1. PICK l \in Nat \ {0} : l = m + 1 /\ n + l = n + 1 + m
      OBVIOUS
    <3>2. n + l <= Len(segment)
      BY <1>1, <2>3, <2>6, <3>1
    <3>3. SubSeq(segment, n + 1, n + l) \in Seq(Byte) /\ Len(SubSeq(segment, n + 1, n + l)) = l
      BY <3>2, PartIs
    <3> QED BY <3>1, <3>3
  <2>9. Encoded(filter, dst)[n] = u \o Encoded(filter, dst)[n + Len(u)]
    <3>1. n \in 0..(Len(dst) - 1)
      BY <2>3
    <3>2. Encoded(filter, dst)[n] = Instruction(filter, dst, n) \o Encoded(filter, dst)[n + Len(Instruction(filter, dst, n))]
      BY <1>1, <3>1, EncodedEquation
    <3>3. Instruction(filter, dst, n) = u
      BY <2>5, <2>6, <2>7, <2>8
    <3> QED BY <3>2, <3>3
  <2>10. n + Len(u) = Len(dst)
    BY <2>3, <2>8
  <2>11. u \o <<>> = u
    BY ConcatEmptySeq
  <2>12. Encoded(filter, dst)[n] = u
    BY <1>2, <2>9, <2>10, <2>11
  <2>13. n \in 0..Len(dst)
    BY <2>3
  <2> QED BY <2>2, <2>3, <2>6, <2>8, <2>12, <2>13
<1> QED BY <1>3, <1>4

\* Nothing of a segment is lost: at every step what a filter has returned can be
\* turned back into what it has read (decodeInstruction4108,
\* decodeInstruction5200 with and without the flip), whatever the segment, the
\* number of values of a byte and the sizes of an operand and a page.
THEOREM NothingIsLost == Spec => []FilterIsLossless
<1>1. FInv => FilterIsLossless
  <2> SUFFICES ASSUME FInv PROVE FilterIsLossless
    OBVIOUS
  <2>1. /\ src \in Seq(Byte) /\ Len(src) \in Nat /\ Len(dst) \in Nat /\ dst \in Seq(Byte)
        /\ Len(dst) <= Len(src) /\ Kept
    BY SourceType DEF FInv, Typed
  <2>2. Begun \in 0..Len(dst) /\ Encoded(filter, dst)[Begun] = SubSeq(src, Begun + 1, Len(dst))
    BY RestIsKept
  <2>3. Encoded(filter, dst)[0] = SubSeq(src, 1, Begun) \o Encoded(filter, dst)[Begun]
    <3>1. Begins(dst, dst)
      BY <2>1 DEF Begins
    <3> QED BY <2>1, <3>1 DEF Kept, Whole
  <2>4. SubSeq(src, 1, Begun) \o SubSeq(src, Begun + 1, Len(dst)) = SubSeq(src, 1, Len(dst))
    <3>1. PICK n \in Nat, l \in Nat : n = Begun /\ l = Len(dst) /\ n <= l
      BY <2>1, <2>2
    <3>2. 1 \in 1..(Len(src) + 1) /\ n \in (1 - 1)..Len(src) /\ l \in n..Len(src)
      BY <2>1, <3>1
    <3>3. SubSeq(src, 1, n) \o SubSeq(src, n + 1, l) = SubSeq(src, 1, l)
      BY <2>1, <3>2, ConcatAdjacentSubSeq
    <3> QED BY <3>1, <3>3
  <2>5. i = Len(dst)
    BY DEF FInv, Typed
  <2> QED BY <2>2, <2>3, <2>4, <2>5 DEF FilterIsLossless
<1> QED BY <1>1, FInvHolds, PTL

-----------------------------------------------------------------------------
(* Pages.                                                                  *)

\* A step from n to n + c that ends a page ends with it.
LEMMA PageEnds ==
  ASSUME NEW p \in Nat \ {0}, NEW n \in Nat, NEW c \in Nat, c <= p - (n % p),
         (n + c) \div p > n \div p
  PROVE  (n + c) % p = 0
<1>1. PICK q \in Nat, r \in 0..(p - 1) : n = p * q + r /\ n % p = r /\ n \div p = q
  <2>1. n % p \in 0..(p - 1) /\ n \div p \in Nat /\ n = p * (n \div p) + (n % p)
    BY DivisionOfNat
  <2> QED BY <2>1
<1>2. CASE r + c < p
  <2>1. PICK x \in 0..(p - 1) : x = r + c
    BY <1>2
  <2>2. (p * q + x) \div p = q
    BY DivisionIs
  <2>3. n + c = p * q + x
    BY <1>1, <2>1
  <2> QED BY <1>1, <2>2, <2>3
<1>3. CASE ~(r + c < p)
  <2>1. r + c = p
    BY <1>1, <1>3
  <2>2. PICK y \in Int : y = q + 1
    OBVIOUS
  <2>3. (p * y + 0) % p = 0
    <3>1. 0 \in 0..(p - 1)
      OBVIOUS
    <3> QED BY <3>1, DivisionIs
  <2>4. n + c = p * y + 0
    <3>1. p * (q + 1) = p * q + p
      OBVIOUS
    <3> QED BY <1>1, <2>1, <2>2, <3>1
  <2> QED BY <2>3, <2>4
<1> QED BY <1>2, <1>3

\* decodeInstruction5200 looks for an opcode at the start of every page: no
\* instruction crosses one, whatever the size of a page.
THEOREM PagesKept == Spec => PagesAreSeparate
<1> DEFINE P == filter # "4108" /\ i' \div PageSize > i \div PageSize => i' % PageSize = 0
<1>1. FInv /\ [Next]_fvars => [P]_fvars
  <2> SUFFICES ASSUME FInv, Next PROVE P
    OBVIOUS
  <2>1. /\ src \in Seq(Byte) /\ Len(src) \in Nat /\ Len(dst) \in Nat /\ dst \in Seq(Byte) /\ i = Len(dst)
    BY SourceType DEF FInv
  <2>2. PageSize \in Nat \ {0} /\ OperandLen \in Nat \ {0, 1} /\ Base \in Nat \ {0} /\ OperandLen - 1 \in 0..OperandLen
        /\ AddressRange \in Nat \ {0}
    BY FilterConstants
  <2>3. ASSUME NEW c \in Nat, i' = i + c, c <= PageSize - (i % PageSize) PROVE P
    <3>1. PICK n \in Nat, p \in Nat \ {0} : n = i /\ p = PageSize
      BY <2>1, <2>2
    <3>2. (n + c) \div p > n \div p => (n + c) % p = 0
      BY <2>3, <3>1, PageEnds
    <3> QED BY <2>1, <2>3, <3>1, <3>2
  <2>4. PICK r \in 0..(PageSize - 1) : r = i % PageSize
    <3>1. PICK n \in Nat, p \in Nat \ {0} : n = i /\ p = PageSize
      BY <2>1, <2>2
    <3>2. n % p \in 0..(p - 1)
      BY DivisionOfNat
    <3> QED BY <3>1, <3>2
  <2>5. ASSUME NEW e \in Seq(Byte), Emit(Len(e), e), Len(e) <= PageSize - r PROVE P
    <3>1. PICK c \in Nat : c = Len(e)
      OBVIOUS
    <3>2. i' = i + c
      BY <2>5, <3>1 DEF Emit
    <3> QED BY <2>3, <2>4, <2>5, <3>1, <3>2
  <2>6. CASE Empty
    <3>1. i' = i + 0
      BY <2>1, <2>6 DEF Empty
    <3>2. 0 <= PageSize - r
      BY <2>2
    <3> QED BY <2>3, <2>4, <3>1, <3>2
  <2>7. CASE OldOpcode \/ OldOperand
    BY <2>7 DEF OldOpcode, OldOperand, Old
  <2>8. CASE Plain
    <3>1. Emit(1, <<src[i + 1]>>) /\ i < Len(src)
      BY <2>8 DEF Plain, New, opcode
    <3>2. <<src[i + 1]>> \in Seq(Byte) /\ Len(<<src[i + 1]>>) = 1
      <4>1. PICK n \in Nat : n = i /\ n + 1 <= Len(src)
        BY <2>1, <3>1
      <4> QED BY <2>1, <4>1, OneByte
    <3>3. 1 <= PageSize - r
      BY <2>2
    <3> QED BY <2>5, <3>1, <3>2, <3>3
  <2>9. CASE CutOperand
    <3>1. HasOperand(src, i) /\ Len(src) - (i + 1) < OperandLen /\ Emit(Len(src) - i, SubSeq(src, i + 1, Len(src))) /\ i < Len(src)
      BY <2>9 DEF CutOperand, New, RestOfSegment
    <3>2. PageSize - r >= OperandLen + 1
      BY <2>1, <2>4, <3>1 DEF HasOperand, FitsPage
    <3>3. PICK n \in Nat, l \in Nat \ {0} : n = i /\ n + l = Len(src) /\ l <= OperandLen
      <4>1. Len(src) - i \in Nat \ {0} /\ i + (Len(src) - i) = Len(src) /\ Len(src) - i <= OperandLen /\ i \in Nat
        BY <2>1, <2>2, <3>1
      <4> QED BY <4>1
    <3>4. PICK e \in Seq(Byte) : e = SubSeq(src, n + 1, n + l) /\ Len(e) = l
      <4>1. SubSeq(src, n + 1, n + l) \in Seq(Byte) /\ Len(SubSeq(src, n + 1, n + l)) = l
        <5>1. n + l <= Len(src)
          BY <2>1, <3>3
        <5> QED BY <2>1, <5>1, PartIs
      <4> QED BY <4>1
    <3>5. Emit(Len(e), e) /\ Len(e) <= PageSize - r
      BY <2>2, <3>1, <3>2, <3>3, <3>4
    <3> QED BY <2>5, <3>5
  <2>10. CASE FarOperand
    <3>1. HasOperand(src, i) /\ Len(src) - (i + 1) >= OperandLen /\ Emit(OperandLen + 1, SubSeq(src, i + 1, i + 1 + OperandLen))
      BY <2>10 DEF FarOperand
    <3>2. PageSize - r >= OperandLen + 1
      BY <2>1, <2>4, <3>1 DEF HasOperand, FitsPage
    <3>3. PICK n \in Nat, l \in Nat \ {0} : n = i /\ l = OperandLen + 1 /\ n + l = i + 1 + OperandLen /\ n + l <= Len(src)
      <4>1. i \in Nat /\ OperandLen + 1 \in Nat \ {0} /\ i + (OperandLen + 1) = i + 1 + OperandLen
            /\ i + (OperandLen + 1) <= Len(src)
        BY <2>1, <2>2, <3>1
      <4> QED BY <4>1
    <3>4. PICK e \in Seq(Byte) : e = SubSeq(src, n + 1, n + l) /\ Len(e) = l
      <4>1. SubSeq(src, n + 1, n + l) \in Seq(Byte) /\ Len(SubSeq(src, n + 1, n + l)) = l
        <5>1. n + l <= Len(src)
          BY <3>3
        <5> QED BY <2>1, <5>1, PartIs
      <4> QED BY <4>1
    <3>5. Emit(Len(e), e) /\ Len(e) <= PageSize - r
      BY <2>2, <3>1, <3>2, <3>3, <3>4
    <3> QED BY <2>5, <3>5
  <2>11. CASE Operand
    <3>1. HasOperand(src, i)
      BY <2>11 DEF Operand
    <3>2. PageSize - r >= OperandLen + 1
      BY <2>1, <2>4, <3>1 DEF HasOperand, FitsPage
    <3>3. \E e \in Seq(Byte) : Len(e) = OperandLen + 1 /\ Emit(Len(e), e)
      BY <2>11, OperandEmits
    <3> QED BY <2>5, <3>2, <3>3
  <2>12. CASE Decoded
    <3>1. i' = i + 0
      BY <2>1, <2>12 DEF Decoded, fvars
    <3>2. 0 <= PageSize - r
      BY <2>2
    <3> QED BY <2>3, <2>4, <3>1, <3>2
  <2> HIDE DEF P
  <2> QED BY <2>6, <2>7, <2>8, <2>9, <2>10, <2>11, <2>12 DEF Next, Step
<1> QED BY <1>1, FInvHolds, PTL DEF Spec, PagesAreSeparate

-----------------------------------------------------------------------------
(* Paths: what is expanded is a path again.                                *)

\* A brace that closes is behind the one that opens, and in the path.
LEMMA EndBehind ==
  ASSUME NEW t \in Path, NEW k \in 1..Len(t), findConstantEnd(t, k + 1) # 0
  PROVE  findConstantEnd(t, k + 1) \in (k + 1)..Len(t)
<1> DEFINE Depth(m) == Cardinality({j \in (k + 1)..m : t[j] = "{"}) - Cardinality({j \in (k + 1)..m : t[j] = "}"})
           Ends == {m \in (k + 1)..Len(t) : t[m] = "}" /\ Depth(m) = -1}
<1>1. Ends \subseteq (k + 1)..Len(t) /\ Ends \subseteq Nat
  <2>1. \A m \in (k + 1)..Len(t) : m \in Nat
    BY DEF Path
  <2>2. \A m \in Ends : m \in (k + 1)..Len(t)
    <3> HIDE DEF Depth
    <3> QED BY Zenon
  <2> HIDE DEF Ends
  <2> QED BY <2>1, <2>2
<1>2. findConstantEnd(t, k + 1) = IF Ends = {} THEN 0 ELSE Min(Ends)
  BY DEF findConstantEnd
<1> HIDE DEF Ends
<1>3. Ends # {}
  BY <1>2
<1>4. \E m \in Ends : \A n \in Ends : m <= n
  BY <1>1, <1>3, LeastNatural
<1>5. Min(Ends) \in Ends
  BY <1>4 DEF Min
<1> QED BY <1>1, <1>2, <1>3, <1>5

\* What Walked emits at a character, and how many characters it then skips.
Emitted(t, inner, k) ==
  LET end == findConstantEnd(t, k + 1) IN
  IF t[k] # "{" THEN <<t[k]>>
  ELSE IF end = 0 THEN <<"$">>
  ELSE IF end = k + 1 THEN <<"$">> ELSE inner[SubSeq(t, k + 1, end - 1)]
Skipped(t, k) ==
  IF t[k] = "{" /\ findConstantEnd(t, k + 1) # 0 THEN findConstantEnd(t, k + 1) + 1 - k ELSE 1

LEMMA SkippedType ==
  ASSUME NEW t \in Path, NEW k \in 1..Len(t)
  PROVE  Skipped(t, k) \in 1..(Len(t) + 1 - k)
<1>1. Len(t) \in Nat
  BY DEF Path
<1>2. CASE t[k] = "{" /\ findConstantEnd(t, k + 1) # 0
  <2>1. PICK end \in (k + 1)..Len(t) : end = findConstantEnd(t, k + 1)
    BY <1>2, EndBehind
  <2>2. Skipped(t, k) = end + 1 - k
    BY <1>2, <2>1 DEF Skipped
  <2> QED BY <1>1, <2>2
<1>3. CASE ~(t[k] = "{" /\ findConstantEnd(t, k + 1) # 0)
  <2>1. Skipped(t, k) = 1
    BY <1>3 DEF Skipped
  <2> QED BY <1>1, <2>1
<1> QED BY <1>2, <1>3

LEMMA EmittedType ==
  ASSUME NEW t \in Path, NEW inner \in [Path -> Path], NEW k \in 1..Len(t)
  PROVE  Emitted(t, inner, k) \in Path
<1>1. t[k] \in Characters /\ Len(t) \in Nat
  BY DEF Path
<1>2. <<t[k]>> \in Path /\ <<"$">> \in Path
  <2>1. "$" \in Characters
    BY DEF Characters
  <2> QED BY <1>1, <2>1 DEF Path
<1>3. CASE t[k] = "{" /\ findConstantEnd(t, k + 1) # 0 /\ findConstantEnd(t, k + 1) # k + 1
  <2>1. PICK end \in (k + 1)..Len(t) : end = findConstantEnd(t, k + 1)
    BY <1>3, EndBehind
  <2>2. \A j \in (k + 1)..(end - 1) : t[j] \in Characters
    BY <1>1, <2>1 DEF Path
  <2>3. SubSeq(t, k + 1, end - 1) \in Path
    BY <1>1, <2>1, <2>2, SubSeqProperties DEF Path
  <2>4. Emitted(t, inner, k) = inner[SubSeq(t, k + 1, end - 1)]
    BY <1>3, <2>1 DEF Emitted
  <2> QED BY <2>3, <2>4
<1>4. CASE ~(t[k] = "{" /\ findConstantEnd(t, k + 1) # 0 /\ findConstantEnd(t, k + 1) # k + 1)
  BY <1>2, <1>4 DEF Emitted
<1> QED BY <1>3, <1>4

\* Walked is a recursion of the form of IsRest.
Walk(t, inner, h) ==
  [k \in 1..(Len(t) + 1) |->
     IF k = Len(t) + 1 THEN <<>> ELSE Emitted(t, inner, k) \o h[k + Skipped(t, k)]]

LEMMA WalkedIs ==
  ASSUME NEW t \in Path, NEW inner \in [Path -> Path]
  PROVE  Walked(t, inner) = (CHOOSE h : h = Walk(t, inner, h))[1]
<1> DEFINE W(h) == [k \in 1..(Len(t) + 1) |->
                      LET end == findConstantEnd(t, k + 1) IN
                      IF k > Len(t) THEN <<>>
                      ELSE IF t[k] # "{" THEN <<t[k]>> \o h[k + 1]
                      ELSE IF end = 0 THEN <<"$">> \o h[k + 1]
                      ELSE (IF end = k + 1 THEN <<"$">> ELSE inner[SubSeq(t, k + 1, end - 1)]) \o h[end + 1]]
<1>1. ASSUME NEW h PROVE W(h) = Walk(t, inner, h)
  <2>1. Len(t) \in Nat
    BY DEF Path
  <2>2. ASSUME NEW k \in 1..(Len(t) + 1) PROVE W(h)[k] = Walk(t, inner, h)[k]
    <3>1. Walk(t, inner, h)[k] = IF k = Len(t) + 1 THEN <<>> ELSE Emitted(t, inner, k) \o h[k + Skipped(t, k)]
      BY DEF Walk
    <3>2. CASE k > Len(t)
      <4>1. k = Len(t) + 1
        BY <2>1, <3>2
      <4> QED BY <3>1, <3>2, <4>1
    <3>3. CASE ~(k > Len(t)) /\ (t[k] # "{" \/ findConstantEnd(t, k + 1) = 0)
      <4>1. k # Len(t) + 1
        <5>1. ~(k > Len(t))
          BY <3>3
        <5> QED BY <2>1, <5>1
      <4>2. Skipped(t, k) = 1
        BY <3>3 DEF Skipped
      <4>3. W(h)[k] = Emitted(t, inner, k) \o h[k + 1]
        BY <3>3 DEF Emitted
      <4> HIDE DEF W
      <4> QED BY <3>1, <4>1, <4>2, <4>3
    <3>4. CASE ~(k > Len(t)) /\ t[k] = "{" /\ findConstantEnd(t, k + 1) # 0
      <4>1. k \in 1..Len(t) /\ k # Len(t) + 1
        <5>1. ~(k > Len(t))
          BY <3>4
        <5> QED BY <2>1, <5>1
      <4>2. PICK end \in (k + 1)..Len(t) : end = findConstantEnd(t, k + 1)
        BY <3>4, <4>1, EndBehind
      <4>3. Skipped(t, k) = end + 1 - k
        BY <3>4, <4>2 DEF Skipped
      <4>4. k + Skipped(t, k) = end + 1
        BY <4>1, <4>2, <4>3
      <4>5. W(h)[k] = Emitted(t, inner, k) \o h[end + 1]
        BY <3>4, <4>2 DEF Emitted
      <4> HIDE DEF W
      <4> QED BY <3>1, <4>1, <4>4, <4>5
    <3> QED BY <3>2, <3>3, <3>4
  <2>3. W(h) = [k \in 1..(Len(t) + 1) |-> W(h)[k]]
    OBVIOUS
  <2>4. Walk(t, inner, h) = [k \in 1..(Len(t) + 1) |-> Walk(t, inner, h)[k]]
    BY DEF Walk
  <2> HIDE DEF W
  <2> QED BY <2>2, <2>3, <2>4
<1>2. Walked(t, inner) = (CHOOSE h : h = W(h))[1]
  BY DEF Walked
<1> HIDE DEF W
<1>3. (CHOOSE h : h = W(h)) = (CHOOSE h : h = Walk(t, inner, h))
  BY <1>1
<1> QED BY <1>2, <1>3

Walks(t, inner) == CHOOSE h : h = Walk(t, inner, h)

LEMMA WalkedEquation ==
  ASSUME NEW t \in Path, NEW inner \in [Path -> Path]
  PROVE  /\ Walked(t, inner) = Walks(t, inner)[1]
         /\ Walks(t, inner)[Len(t) + 1] = <<>>
         /\ \A k \in 1..Len(t) :
              /\ k + Skipped(t, k) \in (k + 1)..(Len(t) + 1)
              /\ Walks(t, inner)[k] = Emitted(t, inner, k) \o Walks(t, inner)[k + Skipped(t, k)]
<1> DEFINE all == Len(t) + 1
           instr == [k \in 1..Len(t) |-> Emitted(t, inner, k)]
           size == [k \in 1..Len(t) |-> Skipped(t, k)]
           w == Walks(t, inner)
<1>1. all \in Nat /\ 1 \in 1..all /\ 1 \in 0..all /\ Len(t) \in Nat /\ all - 1 = Len(t)
  BY DEF Path
<1>2. \A k \in 1..Len(t) : size[k] \in 1..(all - k) /\ size[k] = Skipped(t, k) /\ instr[k] = Emitted(t, inner, k)
  BY SkippedType
<1>3. w = Walk(t, inner, w)
  <2>1. \A k \in 1..(all - 1) : size[k] \in 1..(all - k)
    BY <1>1, <1>2
  <2>2. PICK g : IsRest(g, instr, size, 1, all)
    <3> HIDE DEF all, instr, size
    <3> QED BY <1>1, <2>1, RestExists
  <2>3. g = Walk(t, inner, g)
    <3>1. \A k \in 1..all : k # all => k \in 1..Len(t)
      BY <1>1
    <3>2. \A k \in 1..all : k # all => instr[k] = Emitted(t, inner, k) /\ size[k] = Skipped(t, k)
      BY <1>2, <3>1
    <3>3. [k \in 1..all |-> IF k = all THEN <<>> ELSE instr[k] \o g[k + size[k]]] = Walk(t, inner, g)
      <4> HIDE DEF instr, size
      <4> QED BY <3>2 DEF Walk
    <3>4. g = [k \in 1..all |-> IF k = all THEN <<>> ELSE instr[k] \o g[k + size[k]]]
      <4> HIDE DEF all, instr, size
      <4> QED BY <2>2 DEF IsRest
    <3> QED BY <3>3, <3>4
  <2> QED BY <2>3 DEF Walks
<1> HIDE DEF w
<1>4. w[all] = <<>> /\ \A k \in 1..Len(t) : w[k] = Emitted(t, inner, k) \o w[k + Skipped(t, k)]
  <2>1. \A k \in 1..all : Walk(t, inner, w)[k] = IF k = all THEN <<>> ELSE Emitted(t, inner, k) \o w[k + Skipped(t, k)]
    BY DEF Walk
  <2>2. all \in 1..all /\ \A k \in 1..Len(t) : k \in 1..all /\ k # all
    BY <1>1
  <2> HIDE DEF all
  <2> QED BY <1>3, <2>1, <2>2
<1>5. \A k \in 1..Len(t) : k + Skipped(t, k) \in (k + 1)..all
  <2> SUFFICES ASSUME NEW k \in 1..Len(t) PROVE k + Skipped(t, k) \in (k + 1)..all
    OBVIOUS
  <2>1. Skipped(t, k) \in 1..(Len(t) + 1 - k)
    BY SkippedType
  <2> QED BY <1>1, <2>1
<1> QED BY <1>4, <1>5, WalkedIs DEF w, Walks

\* The characters of what Walked returns are those of what it emits.
LEMMA WalkedIn ==
  ASSUME NEW t \in Path, NEW inner \in [Path -> Path], NEW C,
         \A k \in 1..Len(t) : Emitted(t, inner, k) \in Seq(C)
  PROVE  Walked(t, inner) \in Seq(C)
<1> DEFINE all == Len(t) + 1
           w == Walks(t, inner)
           S == {k \in Nat : \A n \in 1..all : n >= all - k => w[n] \in Seq(C)}
<1>1. all \in Nat /\ 1 \in 1..all /\ Len(t) \in Nat /\ all - 1 = Len(t)
  BY DEF Path
<1>2. w[all] = <<>> /\ \A k \in 1..Len(t) : w[k] = Emitted(t, inner, k) \o w[k + Skipped(t, k)]
  BY WalkedEquation
<1>3. \A k \in 1..Len(t) : k + Skipped(t, k) \in (k + 1)..all
  BY WalkedEquation
<1> HIDE DEF w, all
<1>4. 0 \in S
  <2>1. <<>> \in Seq(C)
    OBVIOUS
  <2>2. \A n \in 1..all : n >= all - 0 => n = all
    BY <1>1
  <2> QED BY <1>2, <2>1, <2>2
<1>5. ASSUME NEW k \in Nat, k \in S PROVE k + 1 \in S
  <2> SUFFICES ASSUME NEW n \in 1..all, n >= all - (k + 1) PROVE w[n] \in Seq(C)
    OBVIOUS
  <2>1. CASE n >= all - k
    BY <1>5, <2>1
  <2>2. CASE ~(n >= all - k)
    <3>1. n \in 1..Len(t) /\ n + 1 >= all - k
      BY <1>1, <2>2
    <3>2. n + Skipped(t, n) \in 1..all /\ n + Skipped(t, n) >= all - k
      BY <1>1, <1>3, <3>1
    <3>3. w[n + Skipped(t, n)] \in Seq(C)
      BY <1>5, <3>2
    <3>4. Emitted(t, inner, n) \in Seq(C) /\ w[n] = Emitted(t, inner, n) \o w[n + Skipped(t, n)]
      BY <1>2, <3>1
    <3> QED BY <3>3, <3>4, ConcatProperties
  <2> QED BY <2>1, <2>2
<1>6. \A k \in Nat : k \in S
  <2> HIDE DEF S
  <2> QED BY <1>4, <1>5, SetInduction
<1>7. w[1] \in Seq(C)
  <2>1. all \in S
    <3> HIDE DEF S
    <3> QED BY <1>1, <1>6
  <2>2. 1 >= all - all
    BY <1>1
  <2> QED BY <1>1, <2>1, <2>2
<1> QED BY <1>7, WalkedEquation DEF w

LEMMA WalkedType ==
  ASSUME NEW t \in Path, NEW inner \in [Path -> Path]
  PROVE  Walked(t, inner) \in Path
<1>1. \A k \in 1..Len(t) : Emitted(t, inner, k) \in Seq(Characters)
  BY EmittedType DEF Path
<1> QED BY <1>1, WalkedIn DEF Path

\* The recursion of expandConstants, from the depth where constants stay.
Itself == [t \in Path |-> t]
Inside(inner) == [t \in Path |-> Walked(t, inner)]
Expand(d, h) == [depth \in d..MaxDepth |-> IF depth = MaxDepth THEN Itself ELSE Inside(h[depth + 1])]

LEMMA ExpandExists == \E g : g = Expand(0, g)
<1> DEFINE S == {k \in Nat : k <= MaxDepth => \E g : g = Expand(MaxDepth - k, g)}
<1>1. MaxDepth \in Nat
  BY PathAssumption
<1>2. 0 \in S
  <2> DEFINE g == [depth \in MaxDepth..MaxDepth |-> Itself]
  <2>1. \A depth \in MaxDepth..MaxDepth : depth = MaxDepth
    BY <1>1
  <2>2. MaxDepth - 0 = MaxDepth
    BY <1>1
  <2>3. g = Expand(MaxDepth - 0, g)
    BY <2>1, <2>2 DEF Expand
  <2> HIDE DEF g
  <2> QED BY <2>3
<1>3. ASSUME NEW k \in Nat, k \in S PROVE k + 1 \in S
  <2> SUFFICES ASSUME k + 1 <= MaxDepth PROVE \E g : g = Expand(MaxDepth - (k + 1), g)
    OBVIOUS
  <2> DEFINE d == MaxDepth - (k + 1)
  <2>1. d \in Nat /\ d < MaxDepth /\ MaxDepth - k = d + 1
    BY <1>1
  <2> HIDE DEF d
  <2>2. PICK g : g = Expand(d + 1, g)
    BY <1>1, <1>3, <2>1
  <2> DEFINE h == [depth \in d..MaxDepth |-> IF depth = d THEN Inside(g[d + 1]) ELSE g[depth]]
  <2>3. \A depth \in (d + 1)..MaxDepth :
          /\ h[depth] = g[depth]
          /\ g[depth] = IF depth = MaxDepth THEN Itself ELSE Inside(g[depth + 1])
    <3>1. ASSUME NEW depth \in (d + 1)..MaxDepth PROVE h[depth] = g[depth]
      <4>1. depth \in d..MaxDepth /\ depth # d
        BY <1>1, <2>1
      <4> QED BY <4>1
    <3>2. ASSUME NEW depth \in (d + 1)..MaxDepth
          PROVE  g[depth] = IF depth = MaxDepth THEN Itself ELSE Inside(g[depth + 1])
      BY <2>2 DEF Expand
    <3> HIDE DEF h
    <3> QED BY <3>1, <3>2
  <2>4. d \in d..MaxDepth /\ d + 1 \in (d + 1)..MaxDepth
    BY <1>1, <2>1
  <2>5. h[d] = Inside(h[d + 1])
    <3>1. h[d] = Inside(g[d + 1])
      BY <2>4
    <3> HIDE DEF h
    <3> QED BY <2>3, <2>4, <3>1
  <2>6. ASSUME NEW depth \in d..MaxDepth
        PROVE  h[depth] = IF depth = MaxDepth THEN Itself ELSE Inside(h[depth + 1])
    <3> HIDE DEF h
    <3>1. CASE depth = d
      BY <2>1, <2>5, <3>1
    <3>2. CASE depth # d
      <4>1. depth \in (d + 1)..MaxDepth /\ (depth # MaxDepth => depth + 1 \in (d + 1)..MaxDepth)
        BY <1>1, <2>1, <3>2
      <4> QED BY <2>3, <4>1
    <3> QED BY <3>1, <3>2
  <2>7. h = [depth \in d..MaxDepth |-> h[depth]]
    OBVIOUS
  <2>8. h = Expand(d, h)
    <3> HIDE DEF h
    <3> QED BY <2>6, <2>7 DEF Expand
  <2> HIDE DEF h
  <2> QED BY <2>8 DEF d
<1>4. \A k \in Nat : k \in S
  <2> HIDE DEF S
  <2> QED BY <1>2, <1>3, SetInduction
<1>5. MaxDepth \in S /\ MaxDepth - MaxDepth = 0
  <2> HIDE DEF S
  <2> QED BY <1>1, <1>4
<1> QED BY <1>1, <1>5

\* The levels of expandConstants: what a constant becomes at each depth.
Levels == CHOOSE h : h = Expand(0, h)

LEMMA LevelsEquation ==
  /\ \A depth \in 0..MaxDepth :
       /\ Levels[depth] \in [Path -> Path]
       /\ Levels[depth] = IF depth = MaxDepth THEN Itself ELSE Inside(Levels[depth + 1])
  /\ \A s : expandConstants(s) = Levels[0][s]
<1> DEFINE E(h) == [depth \in 0..MaxDepth |-> [t \in Path |-> IF depth = MaxDepth THEN t ELSE Walked(t, h[depth + 1])]]
           w == Levels
           S == {k \in Nat : k <= MaxDepth => w[MaxDepth - k] \in [Path -> Path]}
<1>1. MaxDepth \in Nat
  BY PathAssumption
<1>2. ASSUME NEW h PROVE E(h) = Expand(0, h)
  <2>1. \A depth \in 0..MaxDepth :
          [t \in Path |-> IF depth = MaxDepth THEN t ELSE Walked(t, h[depth + 1])] =
          IF depth = MaxDepth THEN Itself ELSE Inside(h[depth + 1])
    BY DEF Itself, Inside
  <2> QED BY <2>1 DEF Expand
<1>3. \A s : expandConstants(s) = (CHOOSE h : h = E(h))[0][s]
  BY DEF expandConstants
<1> HIDE DEF E
<1>4. (CHOOSE h : h = E(h)) = w
  BY <1>2 DEF Levels
<1>5. w = Expand(0, w)
  BY ExpandExists DEF Levels
<1> HIDE DEF w
<1>6. \A depth \in 0..MaxDepth : w[depth] = IF depth = MaxDepth THEN Itself ELSE Inside(w[depth + 1])
  BY <1>5 DEF Expand
<1>7. 0 \in S
  <2>1. w[MaxDepth - 0] = Itself
    BY <1>1, <1>6
  <2>2. Itself \in [Path -> Path]
    BY DEF Itself
  <2> QED BY <2>1, <2>2
<1>8. ASSUME NEW k \in Nat, k \in S PROVE k + 1 \in S
  <2> SUFFICES ASSUME k + 1 <= MaxDepth PROVE w[MaxDepth - (k + 1)] \in [Path -> Path]
    OBVIOUS
  <2>1. PICK d \in 0..MaxDepth : d = MaxDepth - (k + 1) /\ d # MaxDepth /\ d + 1 = MaxDepth - k
    BY <1>1
  <2>2. w[d + 1] \in [Path -> Path]
    BY <1>1, <1>8, <2>1
  <2>3. w[d] = Inside(w[d + 1])
    BY <1>6, <2>1
  <2>4. \A t \in Path : Walked(t, w[d + 1]) \in Path
    BY <2>2, WalkedType
  <2>5. w[d] \in [Path -> Path]
    BY <2>3, <2>4 DEF Inside
  <2> QED BY <2>1, <2>5
<1>9. \A k \in Nat : k \in S
  <2> HIDE DEF S
  <2> QED BY <1>7, <1>8, SetInduction
<1>10. \A depth \in 0..MaxDepth : w[depth] \in [Path -> Path]
  <2> SUFFICES ASSUME NEW depth \in 0..MaxDepth PROVE w[depth] \in [Path -> Path]
    OBVIOUS
  <2>1. MaxDepth - depth \in Nat /\ MaxDepth - depth <= MaxDepth /\ MaxDepth - (MaxDepth - depth) = depth
    BY <1>1
  <2>2. MaxDepth - depth \in S
    <3> HIDE DEF S
    <3> QED BY <1>9, <2>1
  <2> QED BY <2>1, <2>2
<1> QED BY <1>3, <1>4, <1>6, <1>10 DEF w

LEMMA ExpandedType ==
  ASSUME NEW s \in Path
  PROVE  expandConstants(s) \in Path
<1>1. 0 \in 0..MaxDepth
  BY PathAssumption
<1> QED BY <1>1, LevelsEquation

LEMMA WithoutType ==
  ASSUME NEW C, NEW s \in Seq(C)
  PROVE  WithoutApp(s) \in Seq(C) /\ WithoutDrive(s) \in Seq(C)
<1>1. Len(s) \in Nat /\ \A k \in 1..Len(s) : s[k] \in C
  OBVIOUS
<1>2. \A n \in Nat \ {0} : SubSeq(s, n, Len(s)) \in Seq(C)
  <2> SUFFICES ASSUME NEW n \in Nat \ {0} PROVE SubSeq(s, n, Len(s)) \in Seq(C)
    OBVIOUS
  <2>1. \A k \in n..Len(s) : s[k] \in C
    BY <1>1
  <2> QED BY <1>1, <2>1, SubSeqProperties
<1>3. SubSeq(s, 4, Len(s)) \in Seq(C) /\ SubSeq(s, 3, Len(s)) \in Seq(C)
  BY <1>2
<1> QED BY <1>3 DEF WithoutApp, WithoutDrive

\* A path is cut before its first separator.
LEMMA CutAtSeparator ==
  ASSUME NEW C, NEW s \in Seq(C)
  PROVE  /\ firstPart(s) \in Seq(C) /\ otherParts(s) \in Seq(C)
         /\ \A k \in DOMAIN firstPart(s) : firstPart(s)[k] \notin Separators
<1> DEFINE Cuts == {Len(s) + 1} \cup {k \in DOMAIN s : s[k] \in Separators}
<1>1. Len(s) \in Nat /\ DOMAIN s = 1..Len(s) /\ \A k \in 1..Len(s) : s[k] \in C
  OBVIOUS
<1>2. Cuts \subseteq 1..(Len(s) + 1) /\ Cuts \subseteq Nat /\ Cuts # {}
  BY <1>1
<1>3. \E m \in Cuts : \A n \in Cuts : m <= n
  <2> HIDE DEF Cuts
  <2> QED BY <1>2, LeastNatural
<1>4. PICK end \in 1..(Len(s) + 1) : end = partEnd(s) /\ \A n \in Cuts : end <= n
  <2>1. partEnd(s) = Min(Cuts)
    BY DEF partEnd
  <2> HIDE DEF Cuts
  <2> QED BY <1>2, <1>3, <2>1 DEF Min
<1>5. firstPart(s) = SubSeq(s, 1, end - 1) /\ otherParts(s) = SubSeq(s, end + 1, Len(s))
  BY <1>4 DEF firstPart, otherParts
<1>6. \A k \in 1..(end - 1) : k \in 1..Len(s) /\ s[k] \in C /\ s[k] \notin Separators
  <2> SUFFICES ASSUME NEW k \in 1..(end - 1)
               PROVE  k \in 1..Len(s) /\ s[k] \in C /\ s[k] \notin Separators
    OBVIOUS
  <2>1. k \in 1..Len(s) /\ ~(end <= k)
    BY <1>1
  <2>2. k \notin Cuts
    <3> HIDE DEF Cuts
    <3> QED BY <1>4, <2>1
  <2> QED BY <1>1, <2>1, <2>2
<1>7. \A k \in (end + 1)..Len(s) : s[k] \in C
  BY <1>1
<1> HIDE DEF Cuts
<1>8. /\ SubSeq(s, 1, end - 1) \in Seq(C)
      /\ Len(SubSeq(s, 1, end - 1)) = end - 1
      /\ \A k \in 1..(end - 1) : SubSeq(s, 1, end - 1)[k] = s[k]
  <2>1. s \in Seq(C) /\ 1 \in Int /\ end - 1 \in Int /\ \A k \in 1..(end - 1) : s[k] \in C
    BY <1>6
  <2>2. (IF 1 <= end - 1 THEN end - 1 - 1 + 1 ELSE 0) = end - 1
    OBVIOUS
  <2> QED BY <2>1, <2>2, <1>6, SubSeqProperties
<1>9. SubSeq(s, end + 1, Len(s)) \in Seq(C)
  BY <1>1, <1>7, SubSeqProperties
<1>10. DOMAIN SubSeq(s, 1, end - 1) = 1..(end - 1)
  BY <1>8
<1> QED BY <1>5, <1>6, <1>8, <1>9, <1>10

\* What cleaning leaves of a part.
LEMMA CleanedPart ==
  ASSUME NEW C, "$" \in C, NEW p \in Seq(C), \A k \in DOMAIN p : p[k] \notin Separators
  PROVE  /\ cleanPart(p) \in Seq(C)
         /\ \A k \in DOMAIN cleanPart(p) : cleanPart(p)[k] \notin Separators \cup {":", "*"}
<1>1. Len(p) \in Nat /\ DOMAIN p = 1..Len(p) /\ \A k \in 1..Len(p) : p[k] \in C
  OBVIOUS
<1>2. cleanPart(p) = [k \in 1..Len(p) |-> IF p[k] \in {":", "*"} THEN "$" ELSE p[k]]
  BY <1>1 DEF cleanPart
<1>3. \A k \in 1..Len(p) : /\ (IF p[k] \in {":", "*"} THEN "$" ELSE p[k]) \in C
                           /\ (IF p[k] \in {":", "*"} THEN "$" ELSE p[k]) \notin Separators \cup {":", "*"}
  <2>1. "$" \in C /\ "$" \notin Separators \cup {":", "*"}
    BY DEF Separators
  <2> QED BY <1>1, <2>1
<1>4. cleanPart(p) \in [1..Len(p) -> C]
  BY <1>2, <1>3
<1>5. cleanPart(p) \in Seq(C)
  BY <1>1, <1>4
<1> QED BY <1>2, <1>3, <1>5

\* Join is a recursion of the form of IsRest too.
Joint(ps, h) ==
  [n \in 1..(Len(ps) + 1) |->
     IF n > Len(ps) THEN <<>> ELSE IF n = Len(ps) THEN ps[n] ELSE ps[n] \o <<"/">> \o h[n + 1]]
\* From(ps)[n] are the parts from the n-th on.
From(ps) == CHOOSE h : h = Joint(ps, h)

LEMMA FromEquation ==
  ASSUME NEW ps \in Seq(Path)
  PROVE  /\ Join(ps) = From(ps)[1]
         /\ From(ps)[Len(ps) + 1] = <<>>
         /\ \A n \in 1..Len(ps) :
              From(ps)[n] = IF n = Len(ps) THEN ps[n] ELSE ps[n] \o <<"/">> \o From(ps)[n + 1]
<1> DEFINE all == Len(ps) + 1
           instr == [n \in 1..Len(ps) |-> IF n = Len(ps) THEN ps[n] ELSE ps[n] \o <<"/">>]
           size == [n \in 1..Len(ps) |-> 1]
           w == From(ps)
<1>1. /\ Len(ps) \in Nat /\ all \in Nat /\ 1 \in 0..all /\ all - 1 = Len(ps)
      /\ \A n \in 1..Len(ps) : ps[n] \in Seq(Characters)
  BY DEF Path
<1>2. w = Joint(ps, w)
  <2>1. PICK g : IsRest(g, instr, size, 1, all)
    <3>1. \A n \in 1..(all - 1) : size[n] \in 1..(all - n)
      BY <1>1
    <3> HIDE DEF all, instr, size
    <3> QED BY <1>1, <3>1, RestExists
  <2>2. \A n \in 1..all : g[n] = IF n = all THEN <<>> ELSE instr[n] \o g[n + size[n]]
    <3> HIDE DEF instr, size, all
    <3> QED BY <2>1 DEF IsRest
  <2>3. g[all] = <<>>
    <3>1. all \in 1..all
      BY <1>1
    <3> HIDE DEF instr, size, all
    <3> QED BY <2>2, <3>1
  <2>4. ASSUME NEW n \in 1..all
        PROVE  g[n] = IF n > Len(ps) THEN <<>> ELSE IF n = Len(ps) THEN ps[n] ELSE ps[n] \o <<"/">> \o g[n + 1]
    <3>1. CASE n = all
      <4>1. n > Len(ps)
        BY <1>1, <3>1
      <4> QED BY <2>3, <3>1, <4>1
    <3>2. CASE n # all
      <4>1. n \in 1..Len(ps) /\ ~(n > Len(ps))
        BY <1>1, <3>2
      <4>2. g[n] = instr[n] \o g[n + 1]
        <5>1. size[n] = 1
          BY <4>1
        <5> HIDE DEF instr, size, all
        <5> QED BY <2>2, <3>2, <5>1
      <4>3. CASE n = Len(ps)
        <5>1. instr[n] = ps[n] /\ g[n + 1] = <<>>
          BY <2>3, <4>1, <4>3
        <5>2. g[n] = ps[n] \o <<>>
          BY <4>2, <5>1
        <5>3. g[n] = ps[n]
          BY <1>1, <4>1, <5>2, ConcatEmptySeq
        <5> QED BY <4>1, <4>3, <5>3
      <4>4. CASE n # Len(ps)
        <5>1. instr[n] = ps[n] \o <<"/">>
          BY <4>1, <4>4
        <5> HIDE DEF instr, size, all
        <5> QED BY <4>1, <4>2, <4>4, <5>1
      <4> QED BY <4>3, <4>4
    <3> QED BY <3>1, <3>2
  <2>5. g = [n \in 1..all |-> g[n]]
    <3> HIDE DEF instr, size, all
    <3> QED BY <2>1 DEF IsRest
  <2>6. g = Joint(ps, g)
    BY <2>4, <2>5 DEF Joint
  <2> QED BY <2>6 DEF From
<1>3. Join(ps) = w[1]
  BY DEF Join, From, Joint
<1> HIDE DEF w
<1>4. \A n \in 1..all : w[n] = IF n > Len(ps) THEN <<>> ELSE IF n = Len(ps) THEN ps[n] ELSE ps[n] \o <<"/">> \o w[n + 1]
  BY <1>2 DEF Joint
<1>5. all \in 1..all /\ all > Len(ps) /\ \A n \in 1..Len(ps) : n \in 1..all /\ ~(n > Len(ps))
  BY <1>1
<1>6. w[all] = <<>>
  <2> HIDE DEF all
  <2> QED BY <1>4, <1>5
<1>7. \A n \in 1..Len(ps) : w[n] = IF n = Len(ps) THEN ps[n] ELSE ps[n] \o <<"/">> \o w[n + 1]
  <2> HIDE DEF all
  <2> QED BY <1>4, <1>5
<1> QED BY <1>3, <1>6, <1>7 DEF w

LEMMA FromIn ==
  ASSUME NEW C, C \subseteq Characters, "/" \in C, NEW ps \in Seq(Seq(C))
  PROVE  \A n \in 1..(Len(ps) + 1) : From(ps)[n] \in Seq(C)
<1> DEFINE w == From(ps)
           S == {k \in Nat : \A n \in 1..(Len(ps) + 1) : n >= Len(ps) + 1 - k => w[n] \in Seq(C)}
<1>1. ps \in Seq(Path) /\ Len(ps) \in Nat /\ \A n \in 1..Len(ps) : ps[n] \in Seq(C)
  BY DEF Path
<1>2. /\ w[Len(ps) + 1] = <<>>
      /\ \A n \in 1..Len(ps) : w[n] = IF n = Len(ps) THEN ps[n] ELSE ps[n] \o <<"/">> \o w[n + 1]
  BY <1>1, FromEquation
<1> HIDE DEF w
<1>3. 0 \in S
  <2>1. \A n \in 1..(Len(ps) + 1) : n >= Len(ps) + 1 - 0 => n = Len(ps) + 1
    BY <1>1
  <2>2. <<>> \in Seq(C)
    OBVIOUS
  <2> QED BY <1>2, <2>1, <2>2
<1>4. ASSUME NEW k \in Nat, k \in S PROVE k + 1 \in S
  <2> SUFFICES ASSUME NEW n \in 1..(Len(ps) + 1), n >= Len(ps) + 1 - (k + 1) PROVE w[n] \in Seq(C)
    OBVIOUS
  <2>1. CASE n >= Len(ps) + 1 - k
    BY <1>4, <2>1
  <2>2. CASE n = Len(ps) /\ ~(n >= Len(ps) + 1 - k)
    <3>1. n \in 1..Len(ps)
      BY <1>1, <2>2
    <3> QED BY <1>1, <1>2, <2>2, <3>1
  <2>3. CASE n # Len(ps) /\ ~(n >= Len(ps) + 1 - k)
    <3>1. n \in 1..Len(ps) /\ n + 1 \in 1..(Len(ps) + 1) /\ n + 1 >= Len(ps) + 1 - k
      BY <1>1, <2>3
    <3>2. w[n + 1] \in Seq(C) /\ ps[n] \in Seq(C) /\ <<"/">> \in Seq(C)
      BY <1>1, <1>4, <3>1
    <3>3. ps[n] \o <<"/">> \o w[n + 1] \in Seq(C)
      BY <3>2, ConcatProperties
    <3> QED BY <1>2, <2>3, <3>1, <3>3
  <2> QED BY <2>1, <2>2, <2>3
<1>5. \A k \in Nat : k \in S
  <2> HIDE DEF S
  <2> QED BY <1>3, <1>4, SetInduction
<1>6. Len(ps) + 1 \in S
  <2> HIDE DEF S
  <2> QED BY <1>1, <1>5
<1>7. \A n \in 1..(Len(ps) + 1) : n >= Len(ps) + 1 - (Len(ps) + 1)
  BY <1>1
<1>8. \A n \in 1..(Len(ps) + 1) : w[n] \in Seq(C)
  BY <1>6, <1>7
<1> QED BY <1>8 DEF w

LEMMA JoinType ==
  ASSUME NEW ps \in Seq(Path)
  PROVE  Join(ps) \in Path
<1>1. "/" \in Characters /\ ps \in Seq(Seq(Characters))
  BY DEF Characters, Path
<1>2. Len(ps) \in Nat /\ 1 \in 1..(Len(ps) + 1)
  OBVIOUS
<1>3. \A n \in 1..(Len(ps) + 1) : From(ps)[n] \in Seq(Characters)
  BY <1>1, FromIn
<1> QED BY <1>2, <1>3, FromEquation DEF Path

-----------------------------------------------------------------------------
(* Cleaning: whatever is still to be cut, the parts there are stay below   *)
(* the root.                                                               *)

Below(p) == p \notin {<<>>, <<".">>, <<".", ".">>}
            /\ \A j \in DOMAIN p : p[j] \notin Separators \cup {":", "*"}

\* The inductive invariant.
CleanInv ==
  /\ raw \in Path /\ todo \in Path /\ parts \in Seq(Path)
  /\ \A k \in DOMAIN parts : Below(parts[k])

LEMMA CleanInvHolds == PathSpec => []CleanInv
<1>1. PathInit => CleanInv
  <2> SUFFICES ASSUME PathInit PROVE CleanInv
    OBVIOUS
  <2>1. raw \in Path /\ todo = <<>> /\ parts = <<>>
    BY PathAssumption DEF PathInit
  <2>2. <<>> \in Path /\ <<>> \in Seq(Path) /\ DOMAIN <<>> = {}
    BY DEF Path
  <2> QED BY <2>1, <2>2 DEF CleanInv
<1>2. CleanInv /\ [PathStep \/ PathDone]_pvars => CleanInv'
  <2> SUFFICES ASSUME CleanInv, [PathStep \/ PathDone]_pvars PROVE CleanInv'
    OBVIOUS
  <2>1. raw \in Path /\ todo \in Path /\ parts \in Seq(Path) /\ \A k \in DOMAIN parts : Below(parts[k])
    BY DEF CleanInv
  <2>2. CASE Begin
    <3>1. todo' \in Path
      BY <2>1, <2>2, WithoutType, ExpandedType DEF Begin, Path
    <3> QED BY <2>1, <2>2, <3>1 DEF Begin, CleanInv
  <2>3. ASSUME Parting PROVE raw' \in Path /\ todo' \in Path
    BY <2>1, <2>3, CutAtSeparator DEF Parting, Path
  <2>4. CASE Pass
    BY <2>1, <2>3, <2>4 DEF Pass, CleanInv
  <2>5. CASE GoUp
    <3>1. CASE parts = <<>>
      BY <2>1, <2>3, <2>5, <3>1 DEF GoUp, CleanInv
    <3>2. CASE parts # <<>>
      <4>1. parts' = SubSeq(parts, 1, Len(parts) - 1) /\ Parting
        BY <2>5, <3>2 DEF GoUp, Front
      <4>2. Len(parts) \in Nat \ {0} /\ DOMAIN parts = 1..Len(parts)
        BY <2>1, <3>2, EmptySeq
      <4>3. /\ parts' \in Seq(Path) /\ Len(parts') = Len(parts) - 1
            /\ \A k \in 1..(Len(parts) - 1) : parts'[k] = parts[k]
        BY <2>1, <4>1, <4>2, SubSeqProperties
      <4>4. \A k \in DOMAIN parts' : k \in DOMAIN parts /\ parts'[k] = parts[k]
        BY <4>2, <4>3
      <4>5. \A k \in DOMAIN parts' : Below(parts'[k])
        BY <2>1, <4>4
      <4> QED BY <2>3, <4>1, <4>3, <4>5 DEF CleanInv
    <3> QED BY <3>1, <3>2
  <2>6. CASE Enter
    <3>1. Parting /\ todo # <<>> /\ part \notin {<<>>, <<".">>, <<".", ".">>} /\ parts' = Append(parts, part)
      BY <2>6 DEF Enter, Parting
    <3>2. part \in Path /\ Below(part)
      <4>1. firstPart(todo) \in Path /\ \A k \in DOMAIN firstPart(todo) : firstPart(todo)[k] \notin Separators
        BY <2>1, CutAtSeparator DEF Path
      <4>2. /\ cleanPart(firstPart(todo)) \in Path
            /\ \A k \in DOMAIN cleanPart(firstPart(todo)) :
                 cleanPart(firstPart(todo))[k] \notin Separators \cup {":", "*"}
        <5>1. "$" \in Characters
          BY DEF Characters
        <5> QED BY <4>1, <5>1, CleanedPart DEF Path
      <4> QED BY <3>1, <4>2 DEF part, Below
    <3>3. /\ parts' \in Seq(Path) /\ Len(parts') = Len(parts) + 1 /\ Len(parts) \in Nat
          /\ parts'[Len(parts) + 1] = part
          /\ \A k \in 1..Len(parts) : parts'[k] = parts[k]
      BY <2>1, <3>1, <3>2, AppendProperties
    <3>4. \A k \in DOMAIN parts' : Below(parts'[k])
      <4> SUFFICES ASSUME NEW k \in DOMAIN parts' PROVE Below(parts'[k])
        OBVIOUS
      <4>1. k \in 1..(Len(parts) + 1)
        BY <3>3
      <4>2. CASE k = Len(parts) + 1
        BY <3>2, <3>3, <4>2
      <4>3. CASE k # Len(parts) + 1
        <5>1. k \in 1..Len(parts) /\ k \in DOMAIN parts
          BY <2>1, <3>3, <4>1, <4>3
        <5> QED BY <2>1, <3>3, <5>1
      <4> QED BY <4>2, <4>3
    <3> QED BY <2>3, <3>1, <3>3, <3>4 DEF CleanInv
  <2>7. CASE Again
    <3>1. raw' \in Path
      BY <2>1, <2>7, JoinType DEF Again, result
    <3>2. <<>> \in Seq(Path) /\ DOMAIN <<>> = {}
      OBVIOUS
    <3> QED BY <2>1, <2>7, <3>1, <3>2 DEF Again, CleanInv
  <2>8. CASE UNCHANGED pvars
    BY <2>1, <2>8 DEF pvars, CleanInv
  <2>9. CASE PathDone
    BY <2>8, <2>9 DEF PathDone
  <2> QED BY <2>2, <2>4, <2>5, <2>6, <2>7, <2>8, <2>9 DEF PathStep
<1> QED BY <1>1, <1>2, PTL DEF PathSpec

\* However constants nest and wherever they expand to dots, drives or
\* separators: at no time does the path that is built hold a part that is empty,
\* leads up or is not the name of a file (path.go, Clean: "never returns an
\* absolute path").
THEOREM NeverAbsolute == PathSpec => []StaysBelowRoot
<1>1. CleanInv => StaysBelowRoot
  BY DEF CleanInv, Below, StaysBelowRoot
<1> QED BY <1>1, CleanInvHolds, PTL

-----------------------------------------------------------------------------
(* Cleaning twice.  A path with no more than MaxDepth braces has none when  *)
(* it has been expanded, and a path without braces stays as it is.         *)

BracesIn(t) == {k \in DOMAIN t : t[k] = "{"}
NoBrace == Characters \ {"{"}

LEMMA BracesFinite ==
  ASSUME NEW t \in Path
  PROVE  IsFiniteSet(BracesIn(t)) /\ Cardinality(BracesIn(t)) \in Nat
<1>1. Len(t) \in Nat /\ DOMAIN t = 1..Len(t)
  BY DEF Path
<1>2. IsFiniteSet(1..Len(t))
  BY <1>1, FS_Interval
<1>3. BracesIn(t) \in SUBSET (1..Len(t))
  BY <1>1 DEF BracesIn
<1>4. IsFiniteSet(BracesIn(t))
  BY <1>2, <1>3, FS_Subset
<1> QED BY <1>4, FS_CardinalityType

\* A part of a path has no more braces than the places they come from.
LEMMA BracesOfPart ==
  ASSUME NEW t \in Path, NEW m \in 1..(Len(t) + 1), NEW n \in 0..Len(t),
         NEW T, T \subseteq BracesIn(t), BracesIn(t) \cap (m..n) \subseteq T
  PROVE  /\ SubSeq(t, m, n) \in Path
         /\ Cardinality(BracesIn(SubSeq(t, m, n))) <= Cardinality(T)
<1>1. Len(t) \in Nat /\ DOMAIN t = 1..Len(t) /\ t \in Seq(Characters) /\ \A k \in 1..Len(t) : t[k] \in Characters
  BY DEF Path
<1> DEFINE p == SubSeq(t, m, n)
           B == BracesIn(p)
<1>2. \A k \in m..n : t[k] \in Characters /\ k \in 1..Len(t)
  BY <1>1
<1>3. p \in Seq(Characters) /\ \A k \in 1..(n - m + 1) : p[k] = t[m + k - 1]
  BY <1>1, <1>2, SubSeqProperties
<1>4. Len(p) = IF m <= n THEN n - m + 1 ELSE 0
  BY <1>1, <1>2, SubSeqProperties
<1> HIDE DEF p
<1>5. DOMAIN p = 1..Len(p)
  BY <1>3
<1>6. \A k \in B : k \in 1..(n - m + 1) /\ m + k - 1 \in T
  <2> SUFFICES ASSUME NEW k \in B PROVE k \in 1..(n - m + 1) /\ m + k - 1 \in T
    OBVIOUS
  <2>1. k \in 1..Len(p) /\ p[k] = "{"
    BY <1>5 DEF BracesIn
  <2>2. k \in 1..(n - m + 1) /\ m + k - 1 \in m..n
    <3>1. m <= n
      <4> SUFFICES ASSUME ~(m <= n) PROVE FALSE
        OBVIOUS
      <4>1. Len(p) = 0
        BY <1>4
      <4>2. k \in 1..0
        BY <2>1, <4>1
      <4> QED BY <4>2
    <3>2. Len(p) = n - m + 1
      BY <1>4, <3>1
    <3>3. k \in 1..(n - m + 1)
      BY <2>1, <3>2
    <3> QED BY <3>3
  <2>3. t[m + k - 1] = "{" /\ m + k - 1 \in 1..Len(t)
    BY <1>2, <1>3, <2>1, <2>2
  <2>4. m + k - 1 \in BracesIn(t)
    BY <1>1, <2>3 DEF BracesIn
  <2> QED BY <2>2, <2>4
<1> DEFINE f == [k \in B |-> m + k - 1]
<1>7. f \in Injection(B, T)
  <2>1. f \in [B -> T]
    BY <1>6
  <2>2. \A a, b \in B : m + a - 1 = m + b - 1 => a = b
    BY <1>6
  <2>3. \A a, b \in B : f[a] = f[b] => a = b
    BY <2>2
  <2> HIDE DEF f, B
  <2>4. DOMAIN f = B
    BY <2>1
  <2> QED BY <2>1, <2>3, <2>4 DEF Injection, IsInjective
<1>8. IsFiniteSet(T)
  BY BracesFinite, FS_Subset
<1>9. Cardinality(B) <= Cardinality(T)
  <2> HIDE DEF f, B
  <2> QED BY <1>7, <1>8, FS_Injection
<1>10. p \in Path
  BY <1>3 DEF Path
<1> QED BY <1>9, <1>10 DEF p

LEMMA NoBraces ==
  ASSUME NEW t \in Path
  PROVE  t \in Seq(NoBrace) <=> BracesIn(t) = {}
<1>1. Len(t) \in Nat /\ DOMAIN t = 1..Len(t) /\ t \in [1..Len(t) -> Characters]
  BY DEF Path
<1>2. ASSUME BracesIn(t) = {} PROVE t \in Seq(NoBrace)
  <2>1. \A k \in 1..Len(t) : t[k] \in NoBrace
    BY <1>1, <1>2 DEF BracesIn, NoBrace
  <2>2. t \in [1..Len(t) -> NoBrace]
    BY <1>1, <2>1
  <2> QED BY <1>1, <2>2
<1>3. ASSUME t \in Seq(NoBrace) PROVE BracesIn(t) = {}
  <2>1. \A k \in 1..Len(t) : t[k] \in NoBrace
    BY <1>3
  <2> QED BY <1>1, <2>1 DEF BracesIn, NoBrace
<1> QED BY <1>2, <1>3

\* Each level of constants has a brace less to expand.
LEMMA LevelsLeaveNone ==
  \A k \in 0..MaxDepth : \A t \in Path :
    Cardinality(BracesIn(t)) <= k => Levels[MaxDepth - k][t] \in Seq(NoBrace)
<1> DEFINE S == {k \in Nat : k <= MaxDepth => \A t \in Path :
                   Cardinality(BracesIn(t)) <= k => Levels[MaxDepth - k][t] \in Seq(NoBrace)}
<1>1. MaxDepth \in Nat
  BY PathAssumption
<1>2. 0 \in S
  <2>1. \A t \in Path : Levels[MaxDepth - 0][t] = t
    <3>1. MaxDepth - 0 = MaxDepth /\ MaxDepth \in 0..MaxDepth
      BY <1>1
    <3>2. Levels[MaxDepth] = Itself
      BY <3>1, LevelsEquation
    <3> QED BY <3>1, <3>2 DEF Itself
  <2>2. ASSUME NEW t \in Path, Cardinality(BracesIn(t)) <= 0 PROVE t \in Seq(NoBrace)
    <3>1. Cardinality(BracesIn(t)) = 0
      BY <2>2, BracesFinite
    <3>2. BracesIn(t) = {}
      BY <3>1, BracesFinite, FS_EmptySet
    <3> QED BY <3>2, NoBraces
  <2> QED BY <2>1, <2>2
<1>3. ASSUME NEW k \in Nat, k \in S PROVE k + 1 \in S
  <2> SUFFICES ASSUME k + 1 <= MaxDepth, NEW t \in Path, Cardinality(BracesIn(t)) <= k + 1
               PROVE  Levels[MaxDepth - (k + 1)][t] \in Seq(NoBrace)
    OBVIOUS
  <2>1. PICK d \in 0..MaxDepth : d = MaxDepth - (k + 1) /\ d # MaxDepth /\ d + 1 = MaxDepth - k /\ d + 1 \in 0..MaxDepth
    BY <1>1
  <2>2. PICK inner \in [Path -> Path] : inner = Levels[d + 1] /\ Levels[d] = Inside(inner)
    BY <2>1, LevelsEquation
  <2>3. \A s \in Path : Cardinality(BracesIn(s)) <= k => inner[s] \in Seq(NoBrace)
    BY <1>1, <1>3, <2>1, <2>2
  <2>4. ASSUME NEW n \in 1..Len(t) PROVE Emitted(t, inner, n) \in Seq(NoBrace)
    <3>1. Len(t) \in Nat /\ t[n] \in Characters /\ DOMAIN t = 1..Len(t)
      BY DEF Path
    <3>2. "$" \in NoBrace
      BY DEF NoBrace, Characters
    <3>3. CASE t[n] # "{"
      <4>1. t[n] \in NoBrace /\ Emitted(t, inner, n) = <<t[n]>>
        BY <3>1, <3>3 DEF NoBrace, Emitted
      <4> QED BY <4>1
    <3>4. CASE t[n] = "{" /\ (findConstantEnd(t, n + 1) = 0 \/ findConstantEnd(t, n + 1) = n + 1)
      <4>1. Emitted(t, inner, n) = <<"$">>
        BY <3>4 DEF Emitted
      <4> QED BY <3>2, <4>1
    <3>5. CASE t[n] = "{" /\ findConstantEnd(t, n + 1) # 0 /\ findConstantEnd(t, n + 1) # n + 1
      <4>1. PICK end \in (n + 1)..Len(t) : end = findConstantEnd(t, n + 1)
        BY <3>5, EndBehind
      <4> DEFINE T == BracesIn(t) \ {n}
                 p == SubSeq(t, n + 1, end - 1)
      <4>2. Emitted(t, inner, n) = inner[p]
        BY <3>5, <4>1 DEF Emitted
      <4>3. n \in BracesIn(t)
        BY <3>1, <3>5 DEF BracesIn
      <4>4. Cardinality(T) = Cardinality(BracesIn(t)) - 1
        BY <4>3, BracesFinite, FS_RemoveElement
      <4>5. n + 1 \in 1..(Len(t) + 1) /\ end - 1 \in 0..Len(t) /\ n \notin (n + 1)..(end - 1)
        BY <3>1
      <4>6. p \in Path /\ Cardinality(BracesIn(p)) <= Cardinality(T)
        <5>1. T \subseteq BracesIn(t) /\ BracesIn(t) \cap ((n + 1)..(end - 1)) \subseteq T
          BY <4>5
        <5> QED BY <4>5, <5>1, BracesOfPart
      <4> HIDE DEF p, T
      <4>7. Cardinality(BracesIn(p)) <= k
        <5>1. Cardinality(BracesIn(p)) \in Nat /\ Cardinality(BracesIn(t)) \in Nat
          BY <4>6, BracesFinite
        <5> QED BY <4>4, <4>6, <5>1
      <4> QED BY <2>3, <4>2, <4>6, <4>7
    <3> QED BY <3>3, <3>4, <3>5
  <2>5. Walked(t, inner) \in Seq(NoBrace)
    BY <2>4, WalkedIn
  <2>6. Levels[d][t] = Walked(t, inner)
    BY <2>2 DEF Inside
  <2> QED BY <2>1, <2>5, <2>6
<1>4. \A k \in Nat : k \in S
  <2> HIDE DEF S
  <2> QED BY <1>2, <1>3, SetInduction
<1> QED BY <1>4

LEMMA PathOf ==
  ASSUME NEW C, C \subseteq Characters, NEW t \in Seq(C)
  PROVE  t \in Path /\ Len(t) \in Nat /\ DOMAIN t = 1..Len(t) /\ \A k \in 1..Len(t) : t[k] \in C
<1>1. Len(t) \in Nat /\ DOMAIN t = 1..Len(t) /\ t \in [1..Len(t) -> C]
  OBVIOUS
<1>2. t \in [1..Len(t) -> Characters]
  BY <1>1
<1>3. t \in Seq(Characters)
  BY <1>1, <1>2
<1> QED BY <1>1, <1>3 DEF Path

\* A path without braces is walked as it is.
LEMMA PlainWalks ==
  ASSUME NEW t \in Seq(NoBrace), NEW inner \in [Path -> Path]
  PROVE  Walked(t, inner) = t
<1> DEFINE w == Walks(t, inner)
           S == {k \in Nat : \A n \in 1..(Len(t) + 1) : n >= Len(t) + 1 - k => w[n] = SubSeq(t, n, Len(t))}
<1>0. NoBrace \subseteq Characters /\ \A c \in NoBrace : c # "{"
  BY DEF NoBrace
<1>1. Len(t) \in Nat
  OBVIOUS
<1>8. t \in Path /\ \A k \in 1..Len(t) : t[k] # "{"
  BY <1>0, PathOf
<1>2. w[Len(t) + 1] = <<>> /\ w[1] = Walked(t, inner)
  BY <1>8, WalkedEquation
<1>3. \A k \in 1..Len(t) : w[k] = <<t[k]>> \o w[k + 1]
  <2> SUFFICES ASSUME NEW k \in 1..Len(t) PROVE w[k] = <<t[k]>> \o w[k + 1]
    OBVIOUS
  <2>1. Emitted(t, inner, k) = <<t[k]>> /\ Skipped(t, k) = 1
    BY <1>8 DEF Emitted, Skipped
  <2> QED BY <1>8, <2>1, WalkedEquation
<1> HIDE DEF w
<1>4. 0 \in S
  <2>1. \A n \in 1..(Len(t) + 1) : n >= Len(t) + 1 - 0 => n = Len(t) + 1
    BY <1>1
  <2>2. SubSeq(t, Len(t) + 1, Len(t)) = <<>>
    BY <1>1, SubSeqEmpty
  <2> QED BY <1>2, <2>1, <2>2
<1>5. ASSUME NEW k \in Nat, k \in S PROVE k + 1 \in S
  <2> SUFFICES ASSUME NEW n \in 1..(Len(t) + 1), n >= Len(t) + 1 - (k + 1) PROVE w[n] = SubSeq(t, n, Len(t))
    OBVIOUS
  <2>1. CASE n >= Len(t) + 1 - k
    BY <1>5, <2>1
  <2>2. CASE ~(n >= Len(t) + 1 - k)
    <3>1. n \in 1..Len(t) /\ n + 1 \in 1..(Len(t) + 1) /\ n + 1 >= Len(t) + 1 - k
      BY <1>1, <2>2
    <3>2. w[n + 1] = SubSeq(t, n + 1, Len(t))
      BY <1>5, <3>1
    <3>3. SubSeq(t, n, Len(t)) = <<t[n]>> \o SubSeq(t, n + 1, Len(t))
      <4>1. n \in 1..Len(t) /\ Len(t) \in n..Len(t)
        BY <1>1, <3>1
      <4> QED BY <4>1, SubSeqRecursiveFirst
    <3> QED BY <1>3, <3>1, <3>2, <3>3
  <2> QED BY <2>1, <2>2
<1>6. \A k \in Nat : k \in S
  <2> HIDE DEF S
  <2> QED BY <1>4, <1>5, SetInduction
<1>7. w[1] = SubSeq(t, 1, Len(t))
  <2>1. Len(t) \in S
    <3> HIDE DEF S
    <3> QED BY <1>1, <1>6
  <2>2. 1 \in 1..(Len(t) + 1) /\ 1 >= Len(t) + 1 - Len(t)
    BY <1>1
  <2> QED BY <2>1, <2>2
<1>9. SubSeq(t, 1, Len(t)) = t
  BY SubSeqFull
<1> QED BY <1>2, <1>7, <1>9

LEMMA PlainExpands ==
  ASSUME NEW t \in Seq(NoBrace)
  PROVE  expandConstants(t) = t
<1>1. MaxDepth \in Nat /\ MaxDepth # 0 /\ 0 \in 0..MaxDepth /\ 0 + 1 \in 0..MaxDepth
  BY PathAssumption
<1>2. PICK inner \in [Path -> Path] : Levels[0] = Inside(inner)
  <2>1. Levels[0 + 1] \in [Path -> Path] /\ Levels[0] = Inside(Levels[0 + 1])
    BY <1>1, LevelsEquation
  <2> QED BY <2>1
<1>3. t \in Path
  <2>1. NoBrace \subseteq Characters
    BY DEF NoBrace
  <2> QED BY <2>1, PathOf
<1>4. Levels[0][t] = Walked(t, inner)
  BY <1>2, <1>3 DEF Inside
<1>5. expandConstants(t) = Levels[0][t]
  BY LevelsEquation
<1> QED BY <1>4, <1>5, PlainWalks

LEMMA PrefixStarts ==
  ASSUME NEW C, NEW D, NEW s \in Seq(C), NEW t \in Seq(D), IsPrefix(s, t), NEW k \in 1..Len(s)
  PROVE  k \in 1..Len(t) /\ t[k] = s[k]
<1>1. Len(s) \in Nat /\ Len(t) \in Nat /\ Len(s) <= Len(t)
  BY DEF IsPrefix
<1>2. SubSeq(s, 1, Len(s)) = SubSeq(t, 1, Len(s))
  BY DEF IsPrefix
<1>3. SubSeq(s, 1, Len(s))[k] = s[k]
  BY <1>1
<1>4. SubSeq(t, 1, Len(s))[k] = t[k]
  BY <1>1
<1>5. k \in 1..Len(t)
  BY <1>1
<1> QED BY <1>2, <1>3, <1>4, <1>5

\* Prefixes are looked for where a path begins.
LEMMA PlainBegins ==
  ASSUME NEW t \in Seq(NoBrace \ {":"})
  PROVE  WithoutApp(t) = t /\ WithoutDrive(t) = t
<1>0. (NoBrace \ {":"}) \subseteq Characters /\ \A c \in NoBrace \ {":"} : c # "{" /\ c # ":"
  BY DEF NoBrace
<1>1. \A k \in 1..Len(t) : t[k] # "{" /\ t[k] # ":"
  BY <1>0, PathOf
<1> DEFINE app == <<"{", "app", "}">>
           drive == <<"a", ":">>
           letters == {"{", "app", "}", "a", ":"}
<1>2. app \in Seq(letters)
  OBVIOUS
<1>3. 1 \in 1..Len(app) /\ app[1] = "{"
  OBVIOUS
<1>4. drive \in Seq(letters)
  OBVIOUS
<1>5. 2 \in 1..Len(drive) /\ drive[2] = ":"
  OBVIOUS
<1>6. WithoutApp(t) = t \/ IsPrefix(app, t)
  BY DEF WithoutApp
<1>7. WithoutDrive(t) = t \/ IsPrefix(drive, t)
  BY DEF WithoutDrive
<1> HIDE DEF app, drive, letters
<1>8. ~IsPrefix(app, t)
  <2> SUFFICES ASSUME IsPrefix(app, t) PROVE FALSE
    OBVIOUS
  <2>1. 1 \in 1..Len(t) /\ t[1] = app[1]
    BY <1>2, <1>3, PrefixStarts
  <2> QED BY <1>1, <1>3, <2>1
<1>9. ~IsPrefix(drive, t)
  <2> SUFFICES ASSUME IsPrefix(drive, t) PROVE FALSE
    OBVIOUS
  <2>1. 2 \in 1..Len(t) /\ t[2] = drive[2]
    BY <1>4, <1>5, PrefixStarts
  <2> QED BY <1>1, <1>5, <2>1
<1> QED BY <1>6, <1>7, <1>8, <1>9

LEMMA PartEndIs ==
  ASSUME NEW s \in Path, NEW e \in 1..(Len(s) + 1), e = Len(s) + 1 \/ s[e] \in Separators,
         \A k \in 1..(e - 1) : s[k] \notin Separators
  PROVE  partEnd(s) = e
<1> DEFINE Cuts == {Len(s) + 1} \cup {k \in DOMAIN s : s[k] \in Separators}
<1>1. Len(s) \in Nat /\ DOMAIN s = 1..Len(s)
  BY DEF Path
<1>2. e \in Cuts
  BY <1>1
<1>3. \A k \in Cuts : k \in Nat /\ e <= k
  <2> SUFFICES ASSUME NEW k \in Cuts PROVE k \in Nat /\ e <= k
    OBVIOUS
  <2>1. CASE k = Len(s) + 1
    BY <1>1, <2>1
  <2>2. CASE k \in 1..Len(s) /\ s[k] \in Separators
    <3>1. k \notin 1..(e - 1)
      BY <2>2
    <3>2. k \in 1..Len(s)
      BY <2>2
    <3> QED BY <1>1, <3>1, <3>2
  <2> QED BY <1>1, <2>1, <2>2
<1>4. partEnd(s) = Min(Cuts)
  BY DEF partEnd
<1> HIDE DEF Cuts
<1>5. Min(Cuts) \in Cuts /\ \A k \in Cuts : Min(Cuts) <= k
  BY <1>2, <1>3 DEF Min
<1>6. Min(Cuts) <= e /\ e <= Min(Cuts) /\ Min(Cuts) \in Nat
  BY <1>2, <1>3, <1>5
<1> QED BY <1>4, <1>6

\* A part behind which nothing comes, and one in front of others.
LEMMA CutLast ==
  ASSUME NEW p \in Path, p # <<>>, \A k \in 1..Len(p) : p[k] \notin Separators
  PROVE  firstPart(p) = p /\ otherParts(p) = <<>>
<1>1. Len(p) \in Nat /\ p \in Seq(Characters)
  BY DEF Path
<1>2. partEnd(p) = Len(p) + 1
  <2>1. Len(p) + 1 \in 1..(Len(p) + 1) /\ Len(p) + 1 - 1 = Len(p)
    BY <1>1
  <2> QED BY <2>1, PartEndIs
<1>3. Len(p) + 1 - 1 = Len(p) /\ Len(p) + 1 + 1 \in Int /\ Len(p) < Len(p) + 1 + 1 /\ Len(p) \in Int
  BY <1>1
<1>4. firstPart(p) = SubSeq(p, 1, Len(p)) /\ otherParts(p) = SubSeq(p, Len(p) + 1 + 1, Len(p))
  BY <1>2, <1>3 DEF firstPart, otherParts
<1>5. SubSeq(p, 1, Len(p)) = p
  BY <1>1, SubSeqFull
<1>6. SubSeq(p, Len(p) + 1 + 1, Len(p)) = <<>>
  BY <1>3, SubSeqEmpty
<1> QED BY <1>4, <1>5, <1>6

LEMMA CutFirst ==
  ASSUME NEW p \in Path, NEW r \in Path, \A k \in 1..Len(p) : p[k] \notin Separators
  PROVE  /\ p \o <<"/">> \o r # <<>>
         /\ firstPart(p \o <<"/">> \o r) = p
         /\ otherParts(p \o <<"/">> \o r) = r
<1> DEFINE s == p \o <<"/">> \o r
<1>1. "/" \in Characters /\ "/" \in Separators
  BY DEF Characters, Separators
<1>2. PICK x \in Seq(Characters) : x = <<"/">> /\ Len(x) = 1 /\ x[1] = "/"
  <2>1. <<"/">> \in Seq(Characters) /\ Len(<<"/">>) = 1 /\ <<"/">>[1] = "/"
    BY <1>1
  <2> QED BY <2>1
<1>3. PICK a \in Nat, b \in Nat : a = Len(p) /\ b = Len(r)
  BY DEF Path
<1>4. p \in Seq(Characters) /\ r \in Seq(Characters)
  BY DEF Path
<1>5. /\ p \o x \in Seq(Characters) /\ Len(p \o x) = a + 1
      /\ \A k \in 1..(a + 1) : (p \o x)[k] = IF k <= a THEN p[k] ELSE x[k - a]
  BY <1>2, <1>3, <1>4, ConcatProperties
<1>6. /\ s \in Seq(Characters) /\ Len(s) = a + 1 + b
      /\ \A k \in 1..(a + 1 + b) : s[k] = IF k <= a + 1 THEN (p \o x)[k] ELSE r[k - (a + 1)]
  <2>1. s = (p \o x) \o r
    BY <1>2
  <2>2. PICK q \in Seq(Characters) : q = p \o x /\ Len(q) = a + 1
    BY <1>5
  <2> HIDE DEF s
  <2>3. s = q \o r
    BY <2>1, <2>2
  <2>4. /\ q \o r \in Seq(Characters) /\ Len(q \o r) = Len(q) + Len(r)
        /\ \A k \in 1..(Len(q) + Len(r)) : (q \o r)[k] = IF k <= Len(q) THEN q[k] ELSE r[k - Len(q)]
    BY <1>4, ConcatProperties
  <2>5. Len(q) = a + 1 /\ Len(r) = b
    BY <1>3, <2>2
  <2>6. /\ s \in Seq(Characters) /\ Len(s) = a + 1 + b
        /\ \A k \in 1..(a + 1 + b) : s[k] = IF k <= a + 1 THEN q[k] ELSE r[k - (a + 1)]
    BY <2>3, <2>4, <2>5
  <2> QED BY <2>2, <2>6
<1> HIDE DEF s
<1>7. \A k \in 1..a : s[k] = p[k]
  <2> SUFFICES ASSUME NEW k \in 1..a PROVE s[k] = p[k]
    OBVIOUS
  <2>1. k \in 1..(a + 1 + b) /\ k <= a + 1 /\ k \in 1..(a + 1) /\ k <= a
    BY <1>3
  <2> QED BY <1>5, <1>6, <2>1
<1>8. s[a + 1] = "/"
  <2>1. a + 1 \in 1..(a + 1 + b) /\ a + 1 <= a + 1 /\ a + 1 \in 1..(a + 1) /\ ~(a + 1 <= a) /\ a + 1 - a = 1
    BY <1>3
  <2> QED BY <1>2, <1>5, <1>6, <2>1
<1>9. \A k \in 1..b : s[a + 1 + k] = r[k]
  <2> SUFFICES ASSUME NEW k \in 1..b PROVE s[a + 1 + k] = r[k]
    OBVIOUS
  <2>1. a + 1 + k \in 1..(a + 1 + b) /\ ~(a + 1 + k <= a + 1) /\ a + 1 + k - (a + 1) = k
    BY <1>3
  <2> QED BY <1>6, <2>1
<1>10. partEnd(s) = a + 1
  <2>1. s \in Path /\ a + 1 \in 1..(Len(s) + 1) /\ a + 1 - 1 = a
    BY <1>3, <1>6 DEF Path
  <2>2. s[a + 1] \in Separators /\ \A k \in 1..a : s[k] \notin Separators
    BY <1>1, <1>3, <1>7, <1>8
  <2> QED BY <2>1, <2>2, PartEndIs
<1>11. firstPart(s) = SubSeq(s, 1, a) /\ otherParts(s) = SubSeq(s, a + 2, a + 1 + b)
  <2>1. a + 1 - 1 = a /\ a + 1 + 1 = a + 2
    BY <1>3
  <2> QED BY <1>6, <1>10, <2>1 DEF firstPart, otherParts
<1>12. SubSeq(s, 1, a) = p
  <2>1. \A k \in 1..a : s[k] \in Characters
    BY <1>3, <1>4, <1>7
  <2>2. /\ SubSeq(s, 1, a) \in Seq(Characters) /\ Len(SubSeq(s, 1, a)) = a
        /\ \A k \in 1..a : SubSeq(s, 1, a)[k] = s[k]
    BY <1>3, <1>6
  <2>3. \A k \in 1..a : SubSeq(s, 1, a)[k] = p[k]
    BY <1>7, <2>2
  <2> QED BY <1>3, <1>4, <2>2, <2>3, SeqEqual
<1>13. SubSeq(s, a + 2, a + 1 + b) = r
  <2>1. /\ SubSeq(s, a + 2, a + 1 + b) \in Seq(Characters) /\ Len(SubSeq(s, a + 2, a + 1 + b)) = b
        /\ \A k \in 1..b : SubSeq(s, a + 2, a + 1 + b)[k] = s[a + 1 + k]
    BY <1>3, <1>6
  <2>2. \A k \in 1..b : SubSeq(s, a + 2, a + 1 + b)[k] = r[k]
    BY <1>9, <2>1
  <2> QED BY <1>3, <1>4, <2>1, <2>2, SeqEqual
<1>14. s # <<>>
  <2>1. Len(s) # 0
    BY <1>3, <1>6
  <2> QED BY <2>1
<1> QED BY <1>11, <1>12, <1>13, <1>14 DEF s

\* Cutting takes a joined path apart again.
LEMMA CutOfFrom ==
  ASSUME NEW ps \in Seq(Path), \A k \in 1..Len(ps) : Below(ps[k]), NEW n \in 1..Len(ps)
  PROVE  /\ From(ps)[n] # <<>>
         /\ firstPart(From(ps)[n]) = ps[n]
         /\ otherParts(From(ps)[n]) = From(ps)[n + 1]
<1>1. PICK p \in Path : p = ps[n]
  OBVIOUS
<1>2. p # <<>> /\ \A k \in 1..Len(p) : p[k] \notin Separators
  <2>1. Below(p) /\ DOMAIN p = 1..Len(p)
    BY <1>1 DEF Path
  <2> QED BY <2>1 DEF Below
<1>3. CASE n = Len(ps)
  <2>1. From(ps)[n] = p /\ From(ps)[n + 1] = <<>>
    BY <1>1, <1>3, FromEquation
  <2> QED BY <1>1, <1>2, <2>1, CutLast
<1>4. CASE n # Len(ps)
  <2>1. From(ps)[n] = p \o <<"/">> \o From(ps)[n + 1]
    BY <1>1, <1>4, FromEquation
  <2>2. From(ps)[n + 1] \in Path
    <3>1. "/" \in Characters
      BY DEF Characters
    <3>2. ps \in Seq(Seq(Characters))
      BY DEF Path
    <3>3. \A k \in 1..(Len(ps) + 1) : From(ps)[k] \in Seq(Characters)
      BY <3>1, <3>2, FromIn
    <3>4. n + 1 \in 1..(Len(ps) + 1)
      OBVIOUS
    <3> QED BY <3>3, <3>4 DEF Path
  <2> QED BY <1>1, <1>2, <2>1, <2>2, CutFirst
<1> QED BY <1>3, <1>4

LEMMA CleanedSame ==
  ASSUME NEW p \in Path, Below(p)
  PROVE  cleanPart(p) = p
<1>1. \A k \in DOMAIN p : p[k] \notin {":", "*"}
  BY DEF Below
<1>2. p = [k \in DOMAIN p |-> p[k]]
  BY DEF Path
<1>3. cleanPart(p) = [k \in DOMAIN p |-> p[k]]
  BY <1>1 DEF cleanPart
<1> QED BY <1>2, <1>3

\* Up to MaxDepth braces, the first run leaves none.
LEMMA FirstExpands ==
  ASSUME NEW t \in Path, Cardinality(BracesIn(t)) <= MaxDepth
  PROVE  WithoutDrive(expandConstants(WithoutApp(t))) \in Seq(NoBrace)
<1>1. PICK s \in Path : s = WithoutApp(t)
  BY WithoutType DEF Path
<1>2. MaxDepth \in Nat /\ Cardinality(BracesIn(s)) \in Nat /\ Cardinality(BracesIn(t)) \in Nat
  BY PathAssumption, BracesFinite
<1>3. Cardinality(BracesIn(s)) <= Cardinality(BracesIn(t))
  <2> DEFINE app == <<"{", "app", "}">>
  <2>1. s = t \/ (IsPrefix(app, t) /\ s = SubSeq(t, 4, Len(t)))
    BY <1>1 DEF WithoutApp
  <2>2. Len(app) = 3
    OBVIOUS
  <2> HIDE DEF app
  <2>3. CASE s = t
    BY <1>2, <2>3
  <2>4. CASE IsPrefix(app, t) /\ s = SubSeq(t, 4, Len(t))
    <3>1. 3 <= Len(t) /\ Len(t) \in Nat
      BY <2>2, <2>4 DEF IsPrefix, Path
    <3>2. 4 \in 1..(Len(t) + 1) /\ Len(t) \in 0..Len(t)
      BY <3>1
    <3>3. Cardinality(BracesIn(SubSeq(t, 4, Len(t)))) <= Cardinality(BracesIn(t))
      BY <3>2, BracesOfPart
    <3> QED BY <2>4, <3>3
  <2> QED BY <2>1, <2>3, <2>4
<1>4. Cardinality(BracesIn(s)) <= MaxDepth
  BY <1>2, <1>3
<1>5. MaxDepth \in 0..MaxDepth /\ MaxDepth - MaxDepth = 0
  BY <1>2
<1>6. Levels[0][s] \in Seq(NoBrace)
  BY <1>4, <1>5, LevelsLeaveNone
<1>7. expandConstants(s) = Levels[0][s]
  BY LevelsEquation
<1> QED BY <1>1, <1>6, <1>7, WithoutType

\* The second run has nothing to expand.
LEMMA SecondExpands ==
  ASSUME NEW ps \in Seq(Path), \A k \in 1..Len(ps) : Below(ps[k]) /\ ps[k] \in Seq(NoBrace)
  PROVE  WithoutDrive(expandConstants(WithoutApp(Join(ps)))) = From(ps)[1]
<1> DEFINE C == NoBrace \ {":"}
<1>1. C \subseteq Characters /\ "/" \in C
  BY DEF NoBrace, Characters
<1>2. ps \in Seq(Seq(C))
  <2>1. ASSUME NEW k \in 1..Len(ps) PROVE ps[k] \in Seq(C)
    <3>1. PICK p \in Seq(NoBrace) : p = ps[k] /\ Below(p)
      OBVIOUS
    <3>2. Len(p) \in Nat /\ DOMAIN p = 1..Len(p) /\ \A j \in 1..Len(p) : p[j] \in NoBrace /\ p[j] # ":"
      BY <3>1 DEF Below
    <3>3. p \in [1..Len(p) -> C]
      BY <3>2
    <3> HIDE DEF C
    <3> QED BY <3>1, <3>2, <3>3
  <2> HIDE DEF C
  <2>2. Len(ps) \in Nat /\ ps \in [1..Len(ps) -> Seq(C)]
    BY <2>1
  <2> QED BY <2>2
<1>3. Join(ps) = From(ps)[1]
  BY FromEquation
<1>4. Join(ps) \in Seq(C)
  <2>1. \A n \in 1..(Len(ps) + 1) : From(ps)[n] \in Seq(C)
    <3> HIDE DEF C
    <3> QED BY <1>1, <1>2, FromIn
  <2>2. 1 \in 1..(Len(ps) + 1)
    OBVIOUS
  <2> QED BY <1>3, <2>1, <2>2
<1>5. Join(ps) \in Seq(NoBrace)
  <2>1. PICK t \in Seq(C) : t = Join(ps)
    BY <1>4
  <2>2. Len(t) \in Nat /\ t \in [1..Len(t) -> C]
    OBVIOUS
  <2>3. t \in [1..Len(t) -> NoBrace]
    BY <2>2
  <2>4. t \in Seq(NoBrace)
    BY <2>2, <2>3
  <2> QED BY <2>1, <2>4
<1>6. WithoutApp(Join(ps)) = Join(ps) /\ WithoutDrive(Join(ps)) = Join(ps)
  BY <1>4, PlainBegins
<1>7. expandConstants(Join(ps)) = Join(ps)
  BY <1>5, PlainExpands
<1> QED BY <1>3, <1>6, <1>7

\* The inductive invariant: the first run builds parts without braces, and the
\* second one takes the joined parts apart again.
TwiceInv ==
  /\ step \in {"begin", "part"}
  /\ step = "begin" => todo = <<>> /\ parts = <<>>
  /\ earlier = <<>> /\ step = "part" /\ Cardinality(BracesIn(raw)) <= MaxDepth =>
       todo \in Seq(NoBrace) /\ parts \in Seq(Seq(NoBrace))
  /\ earlier # <<>> => \E given \in Path, ps \in Seq(Path) :
       /\ earlier = <<given, Join(ps)>> /\ raw = Join(ps)
       /\ Cardinality(BracesIn(given)) <= MaxDepth =>
            /\ \A k \in 1..Len(ps) : Below(ps[k]) /\ ps[k] \in Seq(NoBrace)
            /\ step = "part" => \E n \in 0..Len(ps) : parts = SubSeq(ps, 1, n) /\ todo = From(ps)[n + 1]

\* Cutting a part keeps out the braces.
LEMMA CutKeepsNoBrace ==
  ASSUME NEW s \in Seq(NoBrace)
  PROVE  otherParts(s) \in Seq(NoBrace) /\ cleanPart(firstPart(s)) \in Seq(NoBrace)
<1>1. "$" \in NoBrace
  BY DEF NoBrace, Characters
<1>2. firstPart(s) \in Seq(NoBrace) /\ otherParts(s) \in Seq(NoBrace)
      /\ \A k \in DOMAIN firstPart(s) : firstPart(s)[k] \notin Separators
  BY CutAtSeparator
<1> QED BY <1>1, <1>2, CleanedPart

\* Where the first run cuts a part, the parts stay without braces.
LEMMA FirstCuts ==
  ASSUME CleanInv, Pass \/ GoUp \/ Enter, todo \in Seq(NoBrace), parts \in Seq(Seq(NoBrace))
  PROVE  todo' \in Seq(NoBrace) /\ parts' \in Seq(Seq(NoBrace))
<1>1. todo' = otherParts(todo)
  BY DEF Pass, GoUp, Enter, Parting
<1>2. todo' \in Seq(NoBrace) /\ part \in Seq(NoBrace)
  BY <1>1, CutKeepsNoBrace DEF part
<1>3. CASE Pass
  BY <1>2, <1>3 DEF Pass
<1>4. CASE GoUp
  <2>1. CASE parts = <<>>
    BY <1>2, <1>4, <2>1 DEF GoUp
  <2>2. CASE parts # <<>>
    <3>1. parts' = SubSeq(parts, 1, Len(parts) - 1)
      BY <1>4, <2>2 DEF GoUp, Front
    <3>2. Len(parts) \in Nat \ {0} /\ \A k \in 1..(Len(parts) - 1) : parts[k] \in Seq(NoBrace)
      BY <2>2, EmptySeq
    <3>3. SubSeq(parts, 1, Len(parts) - 1) \in Seq(Seq(NoBrace))
      BY <3>2, SubSeqProperties
    <3> QED BY <1>2, <3>1, <3>3
  <2> QED BY <2>1, <2>2
<1>5. CASE Enter
  <2>1. parts' = Append(parts, part)
    BY <1>5 DEF Enter
  <2> QED BY <1>2, <2>1, AppendProperties
<1> QED BY <1>3, <1>4, <1>5

\* Where the second run cuts a part, it is the next one of the first.
LEMMA SecondCuts ==
  ASSUME NEW ps \in Seq(Path), \A k \in 1..Len(ps) : Below(ps[k]),
         NEW n \in 0..Len(ps), parts = SubSeq(ps, 1, n), todo = From(ps)[n + 1],
         Pass \/ GoUp \/ Enter
  PROVE  \E m \in 0..Len(ps) : parts' = SubSeq(ps, 1, m) /\ todo' = From(ps)[m + 1]
<1>1. todo # <<>> /\ todo' = otherParts(todo)
  BY DEF Pass, GoUp, Enter, Parting
<1>2. PICK m \in 1..Len(ps) : m = n + 1
  <2>1. n # Len(ps)
    BY <1>1, FromEquation
  <2>2. Len(ps) \in Nat
    OBVIOUS
  <2> QED BY <2>1, <2>2
<1>3. firstPart(todo) = ps[m] /\ todo' = From(ps)[m + 1]
  BY <1>1, <1>2, CutOfFrom
<1>4. part = ps[m] /\ Below(part)
  <2>1. ps[m] \in Path /\ Below(ps[m])
    BY <1>2
  <2>2. cleanPart(ps[m]) = ps[m]
    BY <2>1, CleanedSame
  <2> QED BY <1>3, <2>1, <2>2 DEF part
<1>5. parts' = Append(parts, part)
  <2>1. part \notin {<<>>, <<".">>, <<".", ".">>}
    BY <1>4 DEF Below
  <2> QED BY <2>1 DEF Pass, GoUp, Enter
<1>6. SubSeq(ps, 1, m) = Append(SubSeq(ps, 1, n), ps[m])
  <2>1. 1 \in 1..Len(ps) /\ m \in 1..Len(ps) /\ m - 1 = n /\ Len(ps) \in Nat
    BY <1>2
  <2>2. SubSeq(ps, 1, m) = SubSeq(ps, 1, m - 1) \o <<ps[m]>>
    BY <2>1, SubSeqRecursiveSecond
  <2>3. SubSeq(ps, 1, n) \in Seq(Path) /\ ps[m] \in Path
    <3>1. \A k \in 1..n : ps[k] \in Path
      BY <2>1
    <3> QED BY <3>1, <2>1, SubSeqProperties
  <2>4. Append(SubSeq(ps, 1, n), ps[m]) = SubSeq(ps, 1, n) \o <<ps[m]>>
    BY <2>3, AppendIsConcat
  <2> QED BY <2>1, <2>2, <2>4
<1>7. m \in 0..Len(ps)
  BY <1>2
<1> QED BY <1>3, <1>4, <1>5, <1>6, <1>7

LEMMA TwiceInvHolds == PathSpec => []TwiceInv
<1>1. PathInit => TwiceInv
  BY DEF PathInit, TwiceInv
<1>2. CleanInv /\ TwiceInv /\ [PathStep \/ PathDone]_pvars => TwiceInv'
  <2> SUFFICES ASSUME CleanInv, TwiceInv, [PathStep \/ PathDone]_pvars PROVE TwiceInv'
    OBVIOUS
  <2>1. raw \in Path /\ parts \in Seq(Path) /\ \A k \in DOMAIN parts : Below(parts[k])
    BY DEF CleanInv
  <2>2. CASE Begin
    <3>1. step = "begin" /\ step' = "part" /\ todo = <<>> /\ parts = <<>> /\ UNCHANGED <<raw, parts, earlier>>
      BY <2>2 DEF Begin, TwiceInv
    <3>2. todo' = WithoutDrive(expandConstants(WithoutApp(raw)))
      BY <2>2 DEF Begin
    <3>3. CASE earlier = <<>>
      <4>1. Cardinality(BracesIn(raw)) <= MaxDepth => todo' \in Seq(NoBrace)
        BY <2>1, <3>2, FirstExpands
      <4>2. <<>> \in Seq(Seq(NoBrace))
        OBVIOUS
      <4> QED BY <3>1, <3>3, <4>1, <4>2 DEF TwiceInv
    <3>4. CASE earlier # <<>>
      <4>1. PICK given \in Path, ps \in Seq(Path) :
              /\ earlier = <<given, Join(ps)>> /\ raw = Join(ps)
              /\ Cardinality(BracesIn(given)) <= MaxDepth =>
                   \A k \in 1..Len(ps) : Below(ps[k]) /\ ps[k] \in Seq(NoBrace)
        BY <3>4 DEF TwiceInv
      <4>2. ASSUME Cardinality(BracesIn(given)) <= MaxDepth
            PROVE  \E n \in 0..Len(ps) : parts' = SubSeq(ps, 1, n) /\ todo' = From(ps)[n + 1]
        <5>1. todo' = From(ps)[1]
          BY <3>2, <4>1, <4>2, SecondExpands
        <5>2. SubSeq(ps, 1, 0) = <<>> /\ 0 \in 0..Len(ps) /\ 0 + 1 = 1
          BY SubSeqEmpty
        <5> QED BY <3>1, <5>1, <5>2
      <4> QED BY <3>1, <3>4, <4>1, <4>2 DEF TwiceInv
    <3> QED BY <3>3, <3>4
  <2>3. CASE Pass \/ GoUp \/ Enter
    <3>1. step = "part" /\ UNCHANGED <<raw, step, earlier>>
      BY <2>3 DEF Pass, GoUp, Enter, Parting
    <3>2. CASE earlier = <<>>
      <4>1. Cardinality(BracesIn(raw)) <= MaxDepth => todo' \in Seq(NoBrace) /\ parts' \in Seq(Seq(NoBrace))
        BY <2>3, <3>1, <3>2, FirstCuts DEF TwiceInv
      <4> QED BY <3>1, <3>2, <4>1 DEF TwiceInv
    <3>3. CASE earlier # <<>>
      <4>1. PICK given \in Path, ps \in Seq(Path) :
              /\ earlier = <<given, Join(ps)>> /\ raw = Join(ps)
              /\ Cardinality(BracesIn(given)) <= MaxDepth =>
                   /\ \A k \in 1..Len(ps) : Below(ps[k]) /\ ps[k] \in Seq(NoBrace)
                   /\ \E n \in 0..Len(ps) : parts = SubSeq(ps, 1, n) /\ todo = From(ps)[n + 1]
        BY <3>1, <3>3 DEF TwiceInv
      <4>2. Cardinality(BracesIn(given)) <= MaxDepth =>
              \E n \in 0..Len(ps) : parts' = SubSeq(ps, 1, n) /\ todo' = From(ps)[n + 1]
        BY <2>3, <4>1, SecondCuts
      <4> QED BY <3>1, <3>3, <4>1, <4>2 DEF TwiceInv
    <3> QED BY <3>2, <3>3
  <2>4. CASE Again
    <3>1. /\ step = "part" /\ todo = <<>> /\ earlier = <<>> /\ earlier' = <<raw, Join(parts)>>
          /\ raw' = Join(parts) /\ step' = "begin" /\ parts' = <<>> /\ todo' = <<>>
      BY <2>4 DEF Again, result
    <3>2. PICK ps \in Seq(Path) : ps = parts
      BY <2>1
    <3>3. Cardinality(BracesIn(raw)) <= MaxDepth => \A k \in 1..Len(ps) : Below(ps[k]) /\ ps[k] \in Seq(NoBrace)
      BY <2>1, <3>1, <3>2 DEF TwiceInv
    <3>4. earlier' = <<raw, Join(ps)>> /\ raw' = Join(ps) /\ earlier' # <<>> /\ step' # "part"
      BY <3>1, <3>2
    <3> QED BY <2>1, <3>1, <3>3, <3>4 DEF TwiceInv
  <2>5. CASE UNCHANGED pvars
    BY <2>5 DEF pvars, TwiceInv
  <2>6. CASE PathDone
    BY <2>5, <2>6 DEF PathDone
  <2> QED BY <2>2, <2>3, <2>4, <2>5, <2>6 DEF PathStep
<1> QED BY <1>1, <1>2, CleanInvHolds, PTL DEF PathSpec

\* A path that Clean has returned is one that Clean leaves alone, for paths of
\* every length: a second run takes apart what the first one joined, part by
\* part, and finds no constant, drive or dots in it.  The one exception is a path
\* with more than MaxDepth braces (path.go, Clean and expandConstants).
THEOREM CleanOnceEnough == PathSpec => []CleanIsIdempotent
<1>1. CleanInv /\ TwiceInv => CleanIsIdempotent
  <2> SUFFICES ASSUME CleanInv, TwiceInv, step = "part", todo = <<>>, earlier # <<>>
               PROVE  result = earlier[2] \/ Cardinality(BracesIn(earlier[1])) > MaxDepth
    BY DEF CleanIsIdempotent, BracesIn
  <2>1. PICK given \in Path, ps \in Seq(Path) :
          /\ earlier = <<given, Join(ps)>>
          /\ Cardinality(BracesIn(given)) <= MaxDepth =>
               /\ \A k \in 1..Len(ps) : Below(ps[k])
               /\ \E n \in 0..Len(ps) : parts = SubSeq(ps, 1, n) /\ todo = From(ps)[n + 1]
    BY DEF TwiceInv
  <2>2. earlier[1] = given /\ earlier[2] = Join(ps)
    BY <2>1
  <2>3. MaxDepth \in Nat /\ Cardinality(BracesIn(given)) \in Nat
    BY PathAssumption, BracesFinite
  <2>4. ASSUME Cardinality(BracesIn(given)) <= MaxDepth PROVE result = Join(ps)
    <3>1. PICK n \in 0..Len(ps) : parts = SubSeq(ps, 1, n) /\ todo = From(ps)[n + 1]
      BY <2>1, <2>4
    <3>2. Len(ps) \in Nat
      OBVIOUS
    <3>3. n = Len(ps)
      <4> SUFFICES ASSUME n # Len(ps) PROVE FALSE
        OBVIOUS
      <4>1. n + 1 \in 1..Len(ps)
        BY <3>2
      <4>2. From(ps)[n + 1] # <<>>
        BY <2>1, <2>4, <4>1, CutOfFrom
      <4> QED BY <3>1, <4>2
    <3>4. parts = ps
      BY <3>1, <3>3, SubSeqFull
    <3> QED BY <3>4 DEF result
  <2>5. CASE Cardinality(BracesIn(given)) <= MaxDepth
    BY <2>2, <2>4, <2>5
  <2>6. CASE ~(Cardinality(BracesIn(given)) <= MaxDepth)
    BY <2>2, <2>3, <2>6
  <2> QED BY <2>5, <2>6
<1> QED BY <1>1, CleanInvHolds, TwiceInvHolds, PTL

=============================================================================
