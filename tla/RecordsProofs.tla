--------------------------- MODULE RecordsProofs ---------------------------
(***************************************************************************)
(* Proofs about amounts and about what Records says of the database.       *)
(***************************************************************************)
EXTENDS Records, DataLemmas

-----------------------------------------------------------------------------
(* Divisors.                                                               *)

\* What one step of the algorithm for the greatest common divisor does.
GcdStep(g) ==
    [p \in Nat \X Nat |-> IF p[2] = 0 THEN p[1] ELSE g[<<p[2], p[1] % p[2]>>]]

\* The algorithm comes to an end, because the second number becomes smaller.
GcdRank == [p \in Nat \X Nat |-> p[2]]
GcdEnds == {p \in Nat \X Nat : p[2] = 0}
GcdNext == [p \in (Nat \X Nat) \ GcdEnds |-> <<p[2], p[1] % p[2]>>]
LEMMA GcdDescends ==
    /\ Descends(Nat \X Nat, GcdEnds, GcdRank, GcdNext)
    /\ \A p \in (Nat \X Nat) \ GcdEnds :
          p[1] \in Nat /\ p[2] \in Nat \ {0} /\ p[1] % p[2] \in Nat
<1>1. ASSUME NEW p \in (Nat \X Nat) \ GcdEnds
      PROVE  /\ p[1] \in Nat /\ p[2] \in Nat \ {0}
             /\ p[1] % p[2] \in Nat /\ p[1] % p[2] < p[2]
  <2>1. p[1] \in Nat /\ p[2] \in Nat \ {0}
    BY DEF GcdEnds
  <2> QED
    BY <2>1
<1> QED
  BY <1>1 DEF Descends, GcdRank, GcdEnds, GcdNext

LEMMA GcdEquation ==
    \A p \in Nat \X Nat :
        Gcd[p] = IF p[2] = 0 THEN p[1] ELSE Gcd[<<p[2], p[1] % p[2]>>]
<1> DEFINE D == Nat \X Nat
           base == [p \in GcdEnds |-> p[1]]
           step == [p \in D \ GcdEnds |-> [v \in Nat |-> v]]
<1>1. Recursion(D, Nat, GcdEnds, GcdRank, GcdNext, base, step)
  BY GcdDescends DEF Recursion, GcdEnds
<1> HIDE DEF base, step
<1>2. PICK f \in [D -> Nat] :
          \A p \in D :
             f[p] = IF p \in GcdEnds THEN base[p] ELSE step[p][f[GcdNext[p]]]
  <2> HIDE DEF D
  <2> QED
    BY <1>1, RecursionExists
<1>3. ASSUME NEW p \in D
      PROVE  f[p] = IF p[2] = 0 THEN p[1] ELSE f[<<p[2], p[1] % p[2]>>]
  <2>1. CASE p \in GcdEnds
    BY <1>2, <2>1 DEF base, GcdEnds
  <2>2. CASE p \notin GcdEnds
    <3>1. f[p] = step[p][f[GcdNext[p]]] /\ GcdNext[p] = <<p[2], p[1] % p[2]>>
      BY <1>2, <2>2 DEF GcdNext
    <3>2. GcdNext[p] \in D /\ p[2] # 0
      BY GcdDescends, <2>2, <3>1
    <3> QED
      BY <2>2, <3>1, <3>2 DEF step
  <2> QED
    BY <2>1, <2>2
<1>4. f = GcdStep(f)
  BY <1>3 DEF GcdStep
<1>5. Gcd = CHOOSE g : g = GcdStep(g)
  BY DEF Gcd, GcdStep
<1> DEFINE c == CHOOSE g : g = GcdStep(g)
<1>6. c = GcdStep(c)
  BY <1>4
<1>7. Gcd = GcdStep(Gcd)
  BY <1>5, <1>6
<1>8. ASSUME NEW p \in D PROVE Gcd[p] = GcdStep(Gcd)[p]
  BY <1>7
<1> QED
  BY <1>8 DEF GcdStep

\* g divides n.
Divides(g, n) == \E k \in Int : n = k * g

\* It is a divisor of both numbers.
LEMMA GcdDivides ==
    ASSUME NEW a \in Nat, NEW b \in Nat
    PROVE  /\ Gcd[<<a, b>>] \in Nat
           /\ Divides(Gcd[<<a, b>>], a) /\ Divides(Gcd[<<a, b>>], b)
           /\ b # 0 => Gcd[<<a, b>>] # 0
<1> DEFINE Good(p) == /\ Gcd[p] \in Nat
                      /\ Divides(Gcd[p], p[1]) /\ Divides(Gcd[p], p[2])
           P == {p \in Nat \X Nat : Good(p)}
<1>1. GcdEnds \subseteq P
  <2> SUFFICES ASSUME NEW p \in GcdEnds PROVE Good(p)
    BY DEF GcdEnds
  <2>1. p \in Nat \X Nat /\ Gcd[p] = p[1] /\ p[1] \in Nat /\ p[2] = 0
    BY GcdEquation DEF GcdEnds
  <2>2. PICK g : g = p[1]
    OBVIOUS
  <2>3. g = 1 * g /\ 0 = 0 * g /\ 0 \in Int /\ 1 \in Int
    BY <2>1, <2>2
  <2>4. Divides(g, g) /\ Divides(g, 0)
    BY <2>3 DEF Divides
  <2> QED
    BY <2>1, <2>2, <2>4
<1>2. ASSUME NEW p \in (Nat \X Nat) \ GcdEnds, GcdNext[p] \in P PROVE p \in P
  <2>1. p[1] \in Nat /\ p[2] \in Nat \ {0} /\ p[1] % p[2] \in Nat
    BY GcdDescends
  <2>2. PICK q : q = <<p[2], p[1] % p[2]>>
    OBVIOUS
  <2>3. GcdNext[p] = q /\ q[1] = p[2] /\ q[2] = p[1] % p[2]
    BY <2>2 DEF GcdNext
  <2>4. Gcd[p] = Gcd[q]
    BY <2>1, <2>2, GcdEquation
  <2>5. PICK g : g = Gcd[p]
    OBVIOUS
  <2>6. g \in Nat /\ Divides(g, p[2]) /\ Divides(g, p[1] % p[2])
    BY <1>2, <2>3, <2>4, <2>5
  <2>7. PICK k \in Int, l \in Int : p[2] = k * g /\ p[1] % p[2] = l * g
    BY <2>6 DEF Divides
  <2>8. PICK t \in Int : p[1] = p[2] * t + (p[1] % p[2])
    <3>1. PICK x, y : x = p[1] /\ y = p[2]
      OBVIOUS
    <3>2. x \div y \in Int /\ x = y * (x \div y) + (x % y)
      BY <2>1, <3>1
    <3> QED
      BY <3>1, <3>2
  <2>9. p[1] = (k * t + l) * g
    <3>1. p[1] = (k * g) * t + l * g
      BY <2>7, <2>8
    <3> QED
      BY <2>6, <2>7, <2>8, <3>1
  <2>10. Divides(g, p[1])
    BY <2>7, <2>8, <2>9 DEF Divides
  <2> QED
    BY <2>5, <2>6, <2>10
<1>3. Nat \X Nat \subseteq P
  <2> HIDE DEF P
  <2> QED
    BY <1>1, <1>2, GcdDescends, DescendingInduction
<1>4. Good(<<a, b>>)
  BY <1>3
<1>5. ASSUME b # 0 PROVE Gcd[<<a, b>>] # 0
  BY <1>4, <1>5 DEF Divides
<1> QED
  BY <1>4, <1>5

\* A rational in lowest terms is one, and its sign is that of its numerator.
LEMMA NumberFacts ==
    ASSUME NEW n \in Int, NEW d \in Nat \ {0}
    PROVE  /\ ZR_Number(n, d) \in ZR_Numbers
           /\ ZR_Number(-n, d) = Minus(ZR_Number(n, d))
<1>1. Magnitude(n) \in Nat /\ Magnitude(-n) = Magnitude(n)
  BY DEF Magnitude
<1>2. PICK g : g = Gcd[<<Magnitude(n), d>>]
  OBVIOUS
<1>3. g \in Nat \ {0} /\ Divides(g, Magnitude(n)) /\ Divides(g, d)
  BY <1>1, <1>2, GcdDivides
<1>4. PICK k \in Int, l \in Int : Magnitude(n) = k * g /\ d = l * g
  BY <1>3 DEF Divides
<1>5. PICK s \in Int : n = s * g
  <2>1. n = k * g \/ n = (-k) * g
    BY <1>3, <1>4 DEF Magnitude
  <2> QED
    BY <1>4, <2>1
<1>6. n \div g = s /\ (-n) \div g = -s
  BY <1>3, <1>5
<1>7. d \div g = l /\ l > 0
  <2>1. d \div g = l
    BY <1>3, <1>4
  <2>2. l > 0
    BY <1>3, <1>4
  <2> QED
    BY <2>1, <2>2
<1>8. ZR_Number(n, d) = [n |-> s, d |-> l] /\ ZR_Number(-n, d) = [n |-> -s, d |-> l]
  BY <1>1, <1>2, <1>6, <1>7 DEF ZR_Number
<1> QED
  BY <1>5, <1>7, <1>8 DEF ZR_Numbers, Minus

\* What calculations do.
LEMMA ZeroFacts == Zero \in ZR_Numbers /\ Minus(Zero) = Zero
<1>1. PICK z \in Int : z = 0
  OBVIOUS
<1>2. z <= 0 /\ z >= 0
  BY <1>1
<1>3. -z = z
  BY <1>2
<1>4. ZR_Number(-z, 1) = Minus(ZR_Number(z, 1)) /\ ZR_Number(z, 1) \in ZR_Numbers
  BY <1>1, NumberFacts
<1>5. Zero = ZR_Number(z, 1)
  BY <1>1 DEF Zero
<1> QED
  BY <1>3, <1>4, <1>5

LEMMA MinusFacts ==
    ASSUME NEW a \in ZR_Numbers
    PROVE  /\ Minus(a) \in ZR_Numbers /\ Minus(Minus(a)) = a
           /\ Minus(a).n = -a.n /\ Minus(a).d = a.d
<1>1. PICK n \in Int, d \in Nat \ {0} : a = [n |-> n, d |-> d]
  BY DEF ZR_Numbers
<1>2. PICK b : b = Minus(a)
  OBVIOUS
<1>3. b = [n |-> -n, d |-> d]
  BY <1>1, <1>2 DEF Minus
<1>4. PICK k \in Int : k = -n
  OBVIOUS
<1>5. b = [n |-> k, d |-> d] /\ -k = n
  BY <1>3, <1>4
<1>6. Minus(b) = [n |-> -k, d |-> d]
  BY <1>5 DEF Minus
<1> QED
  BY <1>1, <1>2, <1>3, <1>5, <1>6 DEF ZR_Numbers

LEMMA PlusFacts ==
    ASSUME NEW a \in ZR_Numbers, NEW b \in ZR_Numbers
    PROVE  /\ Plus(a, b) \in ZR_Numbers
           /\ Plus(Minus(a), Minus(b)) = Minus(Plus(a, b))
<1>1. /\ a.n \in Int /\ b.n \in Int /\ a.d \in Nat \ {0} /\ b.d \in Nat \ {0}
      /\ Minus(a).n = -a.n /\ Minus(b).n = -b.n
      /\ Minus(a).d = a.d /\ Minus(b).d = b.d
  BY MinusFacts DEF ZR_Numbers
<1>2. PICK g : g = Gcd[<<a.d, b.d>>]
  OBVIOUS
<1>3. g \in Nat \ {0} /\ Divides(g, a.d) /\ Divides(g, b.d)
  BY <1>1, <1>2, GcdDivides
<1>4. PICK k \in Int, l \in Int : a.d = k * g /\ b.d = l * g
  BY <1>3 DEF Divides
<1>5. k > 0 /\ a.d \div g = k /\ b.d \div g = l /\ l \in Int
  <2>1. PICK x, y : x = a.d /\ y = b.d
    OBVIOUS
  <2>2. x \div g = k /\ y \div g = l
    BY <1>3, <1>4, <2>1
  <2>3. k > 0
    BY <1>1, <1>3, <1>4
  <2> QED
    BY <2>1, <2>2, <2>3
<1>6. PICK n, d : n = a.n * l + b.n * k /\ d = k * b.d
  OBVIOUS
<1>7. n \in Int /\ d \in Nat \ {0}
  BY <1>1, <1>5, <1>6
<1>8. -a.n * l + -b.n * k = -n
  BY <1>1, <1>4, <1>6
<1>9. Plus(a, b) = ZR_Number(n, d) /\ Plus(Minus(a), Minus(b)) = ZR_Number(-n, d)
  BY <1>1, <1>2, <1>5, <1>6, <1>8 DEF Plus
<1> QED
  BY <1>7, <1>9, NumberFacts

-----------------------------------------------------------------------------
(* Digits.                                                                 *)

\* What multiplies the whole part of a decimal is a number.
PowerStep(f) == [p \in Nat |-> IF p = 0 THEN 1 ELSE 10 * f[p - 1]]
CountDown == [p \in Nat \ {0} |-> p - 1]
LEMMA CountDownDescends == Descends(Nat, {0}, [p \in Nat |-> p], CountDown)
BY DEF Descends, CountDown

LEMMA PowerFacts ==
    ASSUME NEW p \in Nat
    PROVE  PowerOfTen[p] \in Nat \ {0}
<1> DEFINE V == Nat \ {0}
           base == [q \in {0} |-> 1]
           step == [q \in Nat \ {0} |-> [v \in V |-> 10 * v]]
<1>1. Recursion(Nat, V, {0}, [q \in Nat |-> q], CountDown, base, step)
  BY CountDownDescends DEF Recursion
<1> HIDE DEF base, step
<1>2. PICK f \in [Nat -> V] :
          \A q \in Nat :
             f[q] = IF q \in {0} THEN base[q] ELSE step[q][f[CountDown[q]]]
  BY <1>1, RecursionExists
<1>3. ASSUME NEW q \in Nat PROVE f[q] = IF q = 0 THEN 1 ELSE 10 * f[q - 1]
  <2>1. CASE q = 0
    BY <1>2, <2>1 DEF base
  <2>2. CASE q # 0
    <3>1. f[q] = step[q][f[q - 1]] /\ q - 1 \in Nat
      BY <1>2, <2>2 DEF CountDown
    <3> QED
      BY <2>2, <3>1 DEF step
  <2> QED
    BY <2>1, <2>2
<1>4. f = PowerStep(f)
  BY <1>3 DEF PowerStep
<1>5. PowerOfTen = CHOOSE g : g = PowerStep(g)
  BY DEF PowerOfTen, PowerStep
<1> DEFINE c == CHOOSE g : g = PowerStep(g)
<1>6. c = PowerStep(c)
  BY <1>4
<1>7. PowerOfTen = PowerStep(PowerOfTen)
  BY <1>5, <1>6
<1>8. \A q \in Nat : PowerOfTen[q] = IF q = 0 THEN 1 ELSE 10 * PowerOfTen[q - 1]
  <2> SUFFICES ASSUME NEW q \in Nat
               PROVE  PowerOfTen[q] = IF q = 0 THEN 1 ELSE 10 * PowerOfTen[q - 1]
    OBVIOUS
  <2>1. PowerOfTen[q] = PowerStep(PowerOfTen)[q]
    BY <1>7
  <2> QED
    BY <2>1 DEF PowerStep
<1> DEFINE P == {q \in Nat : PowerOfTen[q] \in V}
<1>9. {0} \subseteq P
  BY <1>8
<1>10. \A q \in Nat \ {0} : CountDown[q] \in P => q \in P
  BY <1>8 DEF CountDown
<1>11. Nat \subseteq P
  <2> HIDE DEF P
  <2> QED
    BY <1>9, <1>10, CountDownDescends, DescendingInduction
<1> QED
  BY <1>11

\* A number has digits.
DigitsStep(f) == [i \in Nat |-> IF i < 10 THEN 1 ELSE 1 + f[i \div 10]]
OneDigit == {i \in Nat : i < 10}
Tenth == [i \in Nat \ OneDigit |-> i \div 10]
LEMMA TenthDescends == Descends(Nat, OneDigit, [i \in Nat |-> i], Tenth)
<1>1. ASSUME NEW i \in Nat \ OneDigit
      PROVE  i \div 10 \in Nat /\ i \div 10 < i
  BY DEF OneDigit
<1> QED
  BY <1>1 DEF Descends, OneDigit, Tenth

LEMMA NumberOfDigitsFacts ==
    ASSUME NEW i \in Nat
    PROVE  NumberOfDigits[i] \in Nat \ {0}
<1> DEFINE V == Nat \ {0}
           base == [j \in OneDigit |-> 1]
           step == [j \in Nat \ OneDigit |-> [v \in V |-> 1 + v]]
<1>1. Recursion(Nat, V, OneDigit, [j \in Nat |-> j], Tenth, base, step)
  BY TenthDescends DEF Recursion
<1> HIDE DEF base, step
<1>2. PICK f \in [Nat -> V] :
          \A j \in Nat :
             f[j] = IF j \in OneDigit THEN base[j] ELSE step[j][f[Tenth[j]]]
  BY <1>1, RecursionExists
<1>3. ASSUME NEW j \in Nat PROVE f[j] = IF j < 10 THEN 1 ELSE 1 + f[j \div 10]
  <2>1. CASE j < 10
    BY <1>2, <2>1 DEF base, OneDigit
  <2>2. CASE ~(j < 10)
    <3>1. j \in Nat \ OneDigit
      BY <2>2 DEF OneDigit
    <3>2. Tenth[j] = j \div 10 /\ j \div 10 \in Nat
      BY <3>1 DEF Tenth
    <3>3. f[j] = step[j][f[j \div 10]] /\ f[j \div 10] \in V
      BY <1>2, <3>1, <3>2
    <3> QED
      BY <2>2, <3>1, <3>3 DEF step
  <2> QED
    BY <2>1, <2>2
<1>4. f = DigitsStep(f)
  BY <1>3 DEF DigitsStep
<1>5. NumberOfDigits = CHOOSE g : g = DigitsStep(g)
  BY DEF NumberOfDigits, DigitsStep
<1> DEFINE c == CHOOSE g : g = DigitsStep(g)
<1>6. c = DigitsStep(c)
  BY <1>4
<1>7. NumberOfDigits = DigitsStep(NumberOfDigits)
  BY <1>5, <1>6
<1>8. ASSUME NEW j \in Nat
      PROVE  NumberOfDigits[j] = IF j < 10 THEN 1 ELSE 1 + NumberOfDigits[j \div 10]
  <2>1. NumberOfDigits[j] = DigitsStep(NumberOfDigits)[j]
    BY <1>7
  <2> QED
    BY <2>1 DEF DigitsStep
<1> DEFINE P == {j \in Nat : NumberOfDigits[j] \in V}
<1>9. OneDigit \subseteq P
  BY <1>8 DEF OneDigit
<1>10. \A j \in Nat \ OneDigit : Tenth[j] \in P => j \in P
  BY <1>8 DEF Tenth, OneDigit
<1>11. Nat \subseteq P
  <2> HIDE DEF P
  <2> QED
    BY <1>9, <1>10, TenthDescends, DescendingInduction
<1> QED
  BY <1>11

\* A number that is not 0 has a first digit behind the point.
ZerosStep(f) ==
    [q \in (Nat \ {0}) \X Nat |->
        IF 10 * q[1] >= q[2] THEN 0 ELSE 1 + f[<<10 * q[1], q[2]>>]]
Shown == {q \in (Nat \ {0}) \X Nat : 10 * q[1] >= q[2]}
Shifted == [q \in ((Nat \ {0}) \X Nat) \ Shown |-> <<10 * q[1], q[2]>>]
Missing == [q \in (Nat \ {0}) \X Nat |-> IF q[1] < q[2] THEN q[2] - q[1] ELSE 0]
LEMMA ShiftedDescends == Descends((Nat \ {0}) \X Nat, Shown, Missing, Shifted)
<1>1. ASSUME NEW q \in ((Nat \ {0}) \X Nat) \ Shown
      PROVE  /\ Shifted[q] \in (Nat \ {0}) \X Nat
             /\ Missing[Shifted[q]] < Missing[q]
  <2>1. PICK n \in Nat \ {0}, d \in Nat : q = <<n, d>>
    OBVIOUS
  <2>2. 10 * n < d /\ Shifted[q] = <<10 * n, d>>
    BY <2>1 DEF Shown, Shifted
  <2>3. Missing[q] = d - n /\ Missing[Shifted[q]] = d - 10 * n
    BY <2>1, <2>2 DEF Missing
  <2> QED
    BY <2>1, <2>2, <2>3
<1>2. Missing \in [(Nat \ {0}) \X Nat -> Nat]
  <2>1. ASSUME NEW q \in (Nat \ {0}) \X Nat
        PROVE  (IF q[1] < q[2] THEN q[2] - q[1] ELSE 0) \in Nat
    <3>1. PICK n \in Nat, d \in Nat : q = <<n, d>>
      OBVIOUS
    <3> QED
      BY <3>1
  <2> QED
    BY <2>1 DEF Missing
<1>3. Shifted \in [((Nat \ {0}) \X Nat) \ Shown -> (Nat \ {0}) \X Nat]
  BY <1>1 DEF Shifted
<1> QED
  BY <1>1, <1>2, <1>3 DEF Descends, Shown

LEMMA LeadingZerosFacts ==
    ASSUME NEW n \in Nat \ {0}, NEW d \in Nat
    PROVE  LeadingZeros[<<n, d>>] \in Nat
<1> DEFINE D == (Nat \ {0}) \X Nat
           base == [q \in Shown |-> 0]
           step == [q \in D \ Shown |-> [v \in Nat |-> 1 + v]]
<1>1. Recursion(D, Nat, Shown, Missing, Shifted, base, step)
  BY ShiftedDescends DEF Recursion
<1> HIDE DEF base, step
<1>2. PICK f \in [D -> Nat] :
          \A q \in D :
             f[q] = IF q \in Shown THEN base[q] ELSE step[q][f[Shifted[q]]]
  BY <1>1, RecursionExists
<1>3. ASSUME NEW q \in D
      PROVE  f[q] = IF 10 * q[1] >= q[2] THEN 0 ELSE 1 + f[<<10 * q[1], q[2]>>]
  <2>1. CASE q \in Shown
    BY <1>2, <2>1 DEF base, Shown
  <2>2. CASE q \notin Shown
    <3>1. /\ f[q] = step[q][f[Shifted[q]]]
          /\ Shifted[q] = <<10 * q[1], q[2]>> /\ Shifted[q] \in D
      BY <1>2, <2>2, ShiftedDescends DEF Shifted, Descends
    <3>2. ~(10 * q[1] >= q[2]) /\ f[Shifted[q]] \in Nat
      BY <1>2, <2>2, <3>1 DEF Shown
    <3> QED
      BY <2>2, <3>1, <3>2 DEF step
  <2> QED
    BY <2>1, <2>2
<1>4. f = ZerosStep(f)
  BY <1>3 DEF ZerosStep
<1>5. LeadingZeros = CHOOSE g : g = ZerosStep(g)
  BY DEF LeadingZeros, ZerosStep
<1> DEFINE c == CHOOSE g : g = ZerosStep(g)
<1>6. c = ZerosStep(c)
  BY <1>4
<1>7. LeadingZeros = ZerosStep(LeadingZeros)
  BY <1>5, <1>6
<1>8. ASSUME NEW q \in D
      PROVE  LeadingZeros[q] =
                IF 10 * q[1] >= q[2] THEN 0 ELSE 1 + LeadingZeros[<<10 * q[1], q[2]>>]
  <2>1. LeadingZeros[q] = ZerosStep(LeadingZeros)[q]
    BY <1>7
  <2> QED
    BY <2>1 DEF ZerosStep
<1> DEFINE P == {q \in D : LeadingZeros[q] \in Nat}
<1>9. Shown \subseteq P
  <2> SUFFICES ASSUME NEW q \in Shown PROVE q \in D /\ LeadingZeros[q] \in Nat
    OBVIOUS
  <2>1. q \in D /\ (10 * q[1] >= q[2]) = TRUE
    BY DEF Shown
  <2>2. LeadingZeros[q] =
           IF 10 * q[1] >= q[2] THEN 0 ELSE 1 + LeadingZeros[<<10 * q[1], q[2]>>]
    BY <1>8, <2>1
  <2>3. LeadingZeros[q] = 0
    BY <2>1, <2>2
  <2> QED
    BY <2>1, <2>3
<1>10. ASSUME NEW q \in D \ Shown, Shifted[q] \in P PROVE q \in P
  <2>1. ~(10 * q[1] >= q[2]) /\ Shifted[q] = <<10 * q[1], q[2]>>
    BY DEF Shifted, Shown
  <2>2. LeadingZeros[Shifted[q]] \in Nat
    BY <1>10
  <2>3. LeadingZeros[q] = 1 + LeadingZeros[Shifted[q]]
    BY <1>8, <2>1
  <2> QED
    BY <2>2, <2>3
<1>11. D \subseteq P
  <2> HIDE DEF P, D
  <2>1. \A q \in D \ Shown : Shifted[q] \in P => q \in P
    BY <1>10
  <2>2. Descends(D, Shown, Missing, Shifted)
    BY ShiftedDescends DEF D
  <2> QED
    BY <1>9, <2>1, <2>2, DescendingInduction
<1> QED
  BY <1>11

\* Decimal places are a number.
ExpandStep(f) ==
    [s \in Nat \X (Nat \ {0}) \X Nat |->
        LET n == s[1]  d == s[2]  p == s[3]
        IN IF p = 0 THEN n \div d
           ELSE (IF n < d THEN 0 ELSE (n \div d) * PowerOfTen[p])
                   + f[<<10 * (n % d), d, p - 1>>]]
Unexpanded == Nat \X (Nat \ {0}) \X Nat
Expanded == {s \in Unexpanded : s[3] = 0}
Remainder == [s \in Unexpanded \ Expanded |-> <<10 * (s[1] % s[2]), s[2], s[3] - 1>>]
LEMMA RemainderDescends ==
    /\ Descends(Unexpanded, Expanded, [s \in Unexpanded |-> s[3]], Remainder)
    /\ \A s \in Unexpanded \ Expanded :
          /\ Remainder[s] = <<10 * (s[1] % s[2]), s[2], s[3] - 1>>
          /\ Remainder[s] \in Unexpanded
<1>1. ASSUME NEW s \in Unexpanded \ Expanded
      PROVE  /\ <<10 * (s[1] % s[2]), s[2], s[3] - 1>> \in Unexpanded
             /\ s[3] - 1 < s[3]
  <2>1. PICK n \in Nat, d \in Nat \ {0}, p \in Nat : s = <<n, d, p>>
    BY DEF Unexpanded
  <2>2. p # 0
    BY <2>1 DEF Expanded
  <2>3. n % d \in Nat /\ p - 1 \in Nat /\ p - 1 < p
    BY <2>1, <2>2
  <2>4. 10 * (n % d) \in Nat
    BY <2>3
  <2> QED
    BY <2>1, <2>3, <2>4 DEF Unexpanded
<1>2. Remainder \in [Unexpanded \ Expanded -> Unexpanded]
  BY <1>1 DEF Remainder
<1>3. [s \in Unexpanded |-> s[3]] \in [Unexpanded -> Nat]
  BY DEF Unexpanded
<1>4. \A s \in Unexpanded \ Expanded :
          /\ Remainder[s] = <<10 * (s[1] % s[2]), s[2], s[3] - 1>>
          /\ Remainder[s] \in Unexpanded
          /\ Remainder[s][3] < s[3]
  BY <1>1 DEF Remainder
<1>5. Expanded \subseteq Unexpanded
  BY DEF Expanded
<1> QED
  BY <1>2, <1>3, <1>4, <1>5 DEF Descends

\* The digit that a step adds.
Digit(s) == IF s[1] < s[2] THEN 0 ELSE (s[1] \div s[2]) * PowerOfTen[s[3]]
LEMMA DigitFacts ==
    ASSUME NEW s \in Unexpanded
    PROVE  s[1] \div s[2] \in Nat /\ Digit(s) \in Nat
<1>1. PICK n \in Nat, d \in Nat \ {0}, p \in Nat : s = <<n, d, p>>
  BY DEF Unexpanded
<1>2. n \div d \in Nat
  OBVIOUS
<1>3. PICK q, t : q = n \div d /\ t = PowerOfTen[p]
  OBVIOUS
<1>4. q \in Nat /\ t \in Nat
  BY <1>2, <1>3, PowerFacts
<1>5. q * t \in Nat
  BY <1>4
<1> QED
  BY <1>1, <1>3, <1>4, <1>5 DEF Digit

LEMMA ExpandFacts ==
    ASSUME NEW n \in Nat, NEW d \in Nat \ {0}, NEW p \in Nat
    PROVE  Expand[<<n, d, p>>] \in Nat
<1> DEFINE rank == [s \in Unexpanded |-> s[3]]
           base == [s \in Expanded |-> s[1] \div s[2]]
           step == [s \in Unexpanded \ Expanded |-> [v \in Nat |-> Digit(s) + v]]
<1>1. Recursion(Unexpanded, Nat, Expanded, rank, Remainder, base, step)
  BY RemainderDescends, DigitFacts DEF Recursion, Expanded
<1> HIDE DEF base, step, rank
<1>2. PICK f \in [Unexpanded -> Nat] :
          \A s \in Unexpanded :
             f[s] = IF s \in Expanded THEN base[s] ELSE step[s][f[Remainder[s]]]
  BY <1>1, RecursionExists
<1>3. ASSUME NEW s \in Unexpanded
      PROVE  f[s] = IF s[3] = 0 THEN s[1] \div s[2]
                    ELSE Digit(s) + f[<<10 * (s[1] % s[2]), s[2], s[3] - 1>>]
  <2>1. CASE s \in Expanded
    BY <1>2, <2>1 DEF base, Expanded
  <2>2. CASE s \notin Expanded
    <3>1. /\ f[s] = step[s][f[Remainder[s]]]
          /\ Remainder[s] = <<10 * (s[1] % s[2]), s[2], s[3] - 1>>
          /\ Remainder[s] \in Unexpanded
      BY <1>2, <2>2, RemainderDescends
    <3>2. s[3] # 0 /\ f[Remainder[s]] \in Nat
      BY <1>2, <2>2, <3>1 DEF Expanded
    <3> QED
      BY <2>2, <3>1, <3>2 DEF step
  <2> QED
    BY <2>1, <2>2
<1>4. f = ExpandStep(f)
  BY <1>3 DEF ExpandStep, Unexpanded, Digit
<1>5. Expand = CHOOSE g : g = ExpandStep(g)
  BY DEF Expand, ExpandStep
<1> DEFINE c == CHOOSE g : g = ExpandStep(g)
<1>6. c = ExpandStep(c)
  BY <1>4
<1>7. Expand = ExpandStep(Expand)
  BY <1>5, <1>6
<1>8. ASSUME NEW s \in Unexpanded
      PROVE  Expand[s] = IF s[3] = 0 THEN s[1] \div s[2]
                         ELSE Digit(s) + Expand[<<10 * (s[1] % s[2]), s[2], s[3] - 1>>]
  <2>1. Expand[s] = ExpandStep(Expand)[s]
    BY <1>7
  <2> QED
    BY <2>1 DEF ExpandStep, Unexpanded, Digit
<1> DEFINE P == {s \in Unexpanded : Expand[s] \in Nat}
<1>9. Expanded \subseteq P
  <2> SUFFICES ASSUME NEW s \in Expanded PROVE s \in Unexpanded /\ Expand[s] \in Nat
    OBVIOUS
  <2>1. s \in Unexpanded /\ s[3] = 0
    BY DEF Expanded
  <2> QED
    BY <1>8, <2>1, DigitFacts
<1>10. ASSUME NEW s \in Unexpanded \ Expanded, Remainder[s] \in P PROVE s \in P
  <2>1. Expand[Remainder[s]] \in Nat /\ s[3] # 0 /\ s \in Unexpanded
    BY <1>10 DEF Expanded
  <2>2. Remainder[s] = <<10 * (s[1] % s[2]), s[2], s[3] - 1>>
    BY <1>10, RemainderDescends
  <2>3. Expand[s] = Digit(s) + Expand[Remainder[s]]
    BY <1>8, <2>1, <2>2
  <2>4. Digit(s) \in Nat
    BY <2>1, DigitFacts
  <2> QED
    BY <2>1, <2>3, <2>4
<1>11. Unexpanded \subseteq P
  <2> HIDE DEF P
  <2>1. Descends(Unexpanded, Expanded, rank, Remainder)
    BY RemainderDescends DEF rank
  <2> QED
    BY <1>9, <1>10, <2>1, DescendingInduction
<1>12. <<n, d, p>> \in Unexpanded
  BY DEF Unexpanded
<1> QED
  BY <1>11, <1>12

\* Digits lose their zeros at the end.
StrippedStep(f) ==
    [s \in Nat \X Nat |->
        IF s[2] > 1 /\ s[1] % 10 = 0 THEN f[<<s[1] \div 10, s[2] - 1>>] ELSE s]
Bare == {s \in Nat \X Nat : ~(s[2] > 1 /\ s[1] % 10 = 0)}
Cut == [s \in (Nat \X Nat) \ Bare |-> <<s[1] \div 10, s[2] - 1>>]
LEMMA CutDescends ==
    /\ Descends(Nat \X Nat, Bare, [s \in Nat \X Nat |-> s[2]], Cut)
    /\ \A s \in (Nat \X Nat) \ Bare :
          /\ Cut[s] = <<s[1] \div 10, s[2] - 1>>
          /\ Cut[s] \in Nat \X Nat
<1>1. ASSUME NEW s \in (Nat \X Nat) \ Bare
      PROVE  <<s[1] \div 10, s[2] - 1>> \in Nat \X Nat /\ s[2] - 1 < s[2]
  <2>1. PICK m \in Nat, p \in Nat : s = <<m, p>>
    OBVIOUS
  <2>2. p > 1
    BY <2>1 DEF Bare
  <2>3. m \div 10 \in Nat /\ p - 1 \in Nat /\ p - 1 < p
    BY <2>1, <2>2
  <2> QED
    BY <2>1, <2>3
<1>2. Cut \in [(Nat \X Nat) \ Bare -> Nat \X Nat]
  BY <1>1 DEF Cut
<1>3. [s \in Nat \X Nat |-> s[2]] \in [Nat \X Nat -> Nat]
  OBVIOUS
<1>4. \A s \in (Nat \X Nat) \ Bare :
          /\ Cut[s] = <<s[1] \div 10, s[2] - 1>>
          /\ Cut[s] \in Nat \X Nat
          /\ Cut[s][2] < s[2]
  BY <1>1 DEF Cut
<1>5. Bare \subseteq Nat \X Nat
  BY DEF Bare
<1> QED
  BY <1>2, <1>3, <1>4, <1>5 DEF Descends

LEMMA StrippedFacts ==
    ASSUME NEW m \in Nat, NEW p \in Nat
    PROVE  Stripped[<<m, p>>] \in Nat \X Nat
<1> DEFINE D == Nat \X Nat
           rank == [s \in D |-> s[2]]
           base == [s \in Bare |-> s]
           step == [s \in D \ Bare |-> [v \in D |-> v]]
<1>1. Recursion(D, D, Bare, rank, Cut, base, step)
  BY CutDescends DEF Recursion, Bare
<1> HIDE DEF base, step, rank
<1>2. PICK f \in [D -> D] :
          \A s \in D :
             f[s] = IF s \in Bare THEN base[s] ELSE step[s][f[Cut[s]]]
  <2> HIDE DEF D
  <2> QED
    BY <1>1, RecursionExists
<1>3. ASSUME NEW s \in D
      PROVE  f[s] = IF s[2] > 1 /\ s[1] % 10 = 0 THEN f[<<s[1] \div 10, s[2] - 1>>] ELSE s
  <2>1. CASE s \in Bare
    BY <1>2, <2>1 DEF base, Bare
  <2>2. CASE s \notin Bare
    <3>1. /\ f[s] = step[s][f[Cut[s]]]
          /\ Cut[s] = <<s[1] \div 10, s[2] - 1>>
          /\ Cut[s] \in D
      BY <1>2, <2>2, CutDescends
    <3>2. s[2] > 1 /\ s[1] % 10 = 0 /\ f[Cut[s]] \in D
      BY <1>2, <2>2, <3>1 DEF Bare
    <3> QED
      BY <2>2, <3>1, <3>2 DEF step
  <2> QED
    BY <2>1, <2>2
<1>4. f = StrippedStep(f)
  BY <1>3 DEF StrippedStep
<1>5. Stripped = CHOOSE g : g = StrippedStep(g)
  BY DEF Stripped, StrippedStep
<1> DEFINE c == CHOOSE g : g = StrippedStep(g)
<1>6. c = StrippedStep(c)
  BY <1>4
<1>7. Stripped = StrippedStep(Stripped)
  BY <1>5, <1>6
<1>8. ASSUME NEW s \in D
      PROVE  Stripped[s] = IF s[2] > 1 /\ s[1] % 10 = 0
                           THEN Stripped[<<s[1] \div 10, s[2] - 1>>] ELSE s
  <2>1. Stripped[s] = StrippedStep(Stripped)[s]
    BY <1>7
  <2> QED
    BY <2>1 DEF StrippedStep
<1> DEFINE P == {s \in D : Stripped[s] \in D}
<1>9. Bare \subseteq P
  <2> SUFFICES ASSUME NEW s \in Bare PROVE s \in D /\ Stripped[s] \in D
    OBVIOUS
  <2>1. s \in D /\ (s[2] > 1 /\ s[1] % 10 = 0) = FALSE
    BY DEF Bare
  <2>2. Stripped[s] = s
    BY <1>8, <2>1
  <2> QED
    BY <2>1, <2>2
<1>10. ASSUME NEW s \in D \ Bare, Cut[s] \in P PROVE s \in P
  <2>1. Stripped[Cut[s]] \in D /\ s[2] > 1 /\ s[1] % 10 = 0
    BY <1>10 DEF Bare
  <2>2. Cut[s] = <<s[1] \div 10, s[2] - 1>>
    BY <1>10, CutDescends
  <2>3. Stripped[s] = Stripped[Cut[s]]
    BY <1>8, <2>1, <2>2
  <2> QED
    BY <2>1, <2>3
<1>11. D \subseteq P
  <2> HIDE DEF P
  <2>1. Descends(D, Bare, rank, Cut)
    BY CutDescends DEF rank
  <2>2. \A s \in D \ Bare : Cut[s] \in P => s \in P
    BY <1>10
  <2> HIDE DEF D
  <2> QED
    BY <1>9, <2>1, <2>2, DescendingInduction
<1>12. <<m, p>> \in D
  OBVIOUS
<1> QED
  BY <1>11, <1>12

-----------------------------------------------------------------------------
(* Decimals.                                                               *)

LEMMA RoundedFacts ==
    ASSUME NEW n \in Nat, NEW d \in Nat \ {0}, NEW p \in Nat
    PROVE  Rounded(n, d, p) \in Nat
<1>1. p + 1 \in Nat
  OBVIOUS
<1>2. PICK e : e = Expand[<<n, d, p + 1>>]
  OBVIOUS
<1>3. e \in Nat
  BY <1>1, <1>2, ExpandFacts
<1>4. (e + 5) \div 10 \in Nat
  BY <1>3
<1> QED
  BY <1>2, <1>4 DEF Rounded

\* A number and its negative have the same digits.
LEMMA DigitsFacts ==
    ASSUME NEW a \in ZR_Numbers
    PROVE  \E i \in Nat, f \in Nat, p \in Nat :
              /\ a.n = 0 => i = 0 /\ f = 0
              /\ Digits(a, 6) = Decimal(a.n < 0, i, f, p)
              /\ Digits(Minus(a), 6) = Decimal(Minus(a).n < 0, i, f, p)
<1>1. PICK b : b = Minus(a)
  OBVIOUS
<1>2. PICK n, d : n = Magnitude(a.n) /\ d = a.d
  OBVIOUS
<1>3. /\ a.n \in Int /\ d \in Nat \ {0} /\ b.n = -a.n /\ b.d = d
  BY <1>1, <1>2, MinusFacts DEF ZR_Numbers
<1>4. /\ n \in Nat /\ n = Magnitude(b.n)
      /\ (a.n = 0) <=> (n = 0)
      /\ (b.n = 0) <=> (n = 0)
  BY <1>2, <1>3 DEF Magnitude
<1>5. PICK tenth \in Nat : tenth = (d - 1) \div 10000 /\ tenth < d
  BY <1>3
<1> DEFINE small == n <= tenth
<1>6. n # 0 => (IsTiny(a) <=> small) /\ (IsTiny(b) <=> small)
  BY <1>2, <1>3, <1>4, <1>5 DEF IsTiny
<1>7. PICK whole : whole = n \div d
  OBVIOUS
<1>8. whole \in Nat /\ (n < d => whole = 0) /\ (small => whole = 0)
  BY <1>3, <1>4, <1>5, <1>7
<1>23. n = 0 => ~IsTiny(a) /\ ~IsTiny(b) /\ ~(whole > 0)
  BY <1>3, <1>4, <1>8 DEF IsTiny
<1>9. PICK size : size = NumberOfDigits[whole]
  OBVIOUS
<1>10. size \in Nat \ {0}
  BY <1>8, <1>9, NumberOfDigitsFacts
<1>11. PICK places : places = IF whole > 0 THEN 6 - size ELSE 6 + LeadingZeros[<<n, d>>]
  OBVIOUS
<1>12. PICK m, unit : m = Rounded(n, d, places) /\ unit = PowerOfTen[size - 6]
  OBVIOUS
<1>13. PICK s : s = Stripped[<<m, 6 - 1>>]
  OBVIOUS
<1>14. PICK point : point = PowerOfTen[s[2]]
  OBVIOUS
<1>15. PICK x, y, z, h, u, v :
           /\ x = s[1] \div point /\ y = s[1] % point /\ z = s[2] + 4
           /\ h = ((Rounded(n, d, 0) + unit \div 2) \div unit) * unit
           /\ u = m \div PowerOfTen[places] /\ v = m % PowerOfTen[places]
  OBVIOUS
<1> DEFINE Value(c) ==
      CASE c.n = 0 -> Decimal(FALSE, 0, 0, 0)
        [] IsTiny(c) -> Decimal(c.n < 0, x, y, z)
        [] whole > 0 /\ size >= 6 -> Decimal(c.n < 0, h, 0, 0)
        [] OTHER -> Decimal(c.n < 0, u, v, places)
<1>20. Digits(a, 6) = Value(a) /\ Digits(b, 6) = Value(b)
  <2>1. Digits(a, 6) = Value(a)
    BY <1>2, <1>7, <1>9, <1>11, <1>12, <1>13, <1>14, <1>15, ZenonT(60) DEF Digits
  <2>2. Digits(b, 6) = Value(b)
    BY <1>2, <1>3, <1>4, <1>7, <1>9, <1>11, <1>12, <1>13, <1>14, <1>15,
       ZenonT(60) DEF Digits
  <2> QED
    BY <2>1, <2>2
<1>21. ASSUME NEW c \in {a, b}
       PROVE  /\ n = 0 => Digits(c, 6) = Decimal(FALSE, 0, 0, 0)
              /\ n # 0 /\ small => Digits(c, 6) = Decimal(c.n < 0, x, y, z)
              /\ n # 0 /\ ~small /\ whole > 0 /\ size >= 6 =>
                    Digits(c, 6) = Decimal(c.n < 0, h, 0, 0)
              /\ n # 0 /\ ~small /\ ~(whole > 0 /\ size >= 6) =>
                    Digits(c, 6) = Decimal(c.n < 0, u, v, places)
  <2>1. c.n = 0 <=> n = 0
    BY <1>4
  <2>2. n # 0 => (IsTiny(c) <=> small)
    BY <1>6
  <2>3. Digits(c, 6) = Value(c)
    BY <1>20
  <2>4. (n = 0 => ~IsTiny(c) /\ ~(whole > 0)) /\ (small => ~(whole > 0))
    BY <1>8, <1>23
  <2> HIDE DEF small
  <2>5. ASSUME n = 0 PROVE Value(c) = Decimal(FALSE, 0, 0, 0)
    BY <2>1, <2>4, <2>5
  <2>6. ASSUME n # 0, small PROVE Value(c) = Decimal(c.n < 0, x, y, z)
    BY <2>1, <2>2, <2>4, <2>6
  <2>7. ASSUME n # 0, ~small, whole > 0 /\ size >= 6
        PROVE  Value(c) = Decimal(c.n < 0, h, 0, 0)
    BY <2>1, <2>2, <2>7
  <2>8. ASSUME n # 0, ~small, ~(whole > 0 /\ size >= 6)
        PROVE  Value(c) = Decimal(c.n < 0, u, v, places)
    BY <2>1, <2>2, <2>8
  <2> HIDE DEF Value
  <2> QED
    BY <2>3, <2>5, <2>6, <2>7, <2>8
<1> DEFINE Good(i, f, p) ==
      /\ i \in Nat /\ f \in Nat /\ p \in Nat
      /\ n = 0 => i = 0 /\ f = 0
      /\ Digits(a, 6) = Decimal(a.n < 0, i, f, p)
      /\ Digits(b, 6) = Decimal(b.n < 0, i, f, p)
<1>22. ASSUME NEW i, NEW f, NEW p, Good(i, f, p)
       PROVE  \E i_1 \in Nat, f_1 \in Nat, p_1 \in Nat :
                 /\ a.n = 0 => i_1 = 0 /\ f_1 = 0
                 /\ Digits(a, 6) = Decimal(a.n < 0, i_1, f_1, p_1)
                 /\ Digits(Minus(a), 6) = Decimal(Minus(a).n < 0, i_1, f_1, p_1)
  BY <1>1, <1>4, <1>22
<1>16. CASE n = 0
  <2>1. (a.n < 0) = FALSE /\ (b.n < 0) = FALSE
    BY <1>4, <1>16
  <2>2. Good(0, 0, 0)
    BY <1>16, <1>21, <2>1
  <2> QED
    BY <1>22, <2>2
<1>17. CASE n # 0 /\ small
  <2>2. n < d
    BY <1>3, <1>4, <1>5, <1>17
  <2>3. places = 6 + LeadingZeros[<<n, d>>]
    BY <1>8, <1>11, <2>2
  <2>4. LeadingZeros[<<n, d>>] \in Nat
    BY <1>3, <1>4, <1>17, LeadingZerosFacts
  <2>5. places \in Nat
    BY <2>3, <2>4
  <2>6. m \in Nat
    BY <1>3, <1>4, <1>12, <2>5, RoundedFacts
  <2>7. s \in Nat \X Nat
    <3>1. 6 - 1 \in Nat
      OBVIOUS
    <3> QED
      BY <1>13, <2>6, <3>1, StrippedFacts
  <2>8. point \in Nat \ {0}
    BY <1>14, <2>7, PowerFacts
  <2>9. PICK j \in Nat, k \in Nat : s = <<j, k>>
    BY <2>7
  <2>10. j \div point \in Nat /\ j % point \in Nat /\ k + 4 \in Nat
    BY <2>8, <2>9
  <2>11. x \in Nat /\ y \in Nat /\ z \in Nat
    BY <1>15, <2>9, <2>10
  <2>12. Good(x, y, z)
    BY <1>17, <1>21, <2>11
  <2> QED
    BY <1>22, <2>12
<1>18. CASE n # 0 /\ ~small /\ whole > 0 /\ size >= 6
  <2>2. PICK r : r = Rounded(n, d, 0)
    OBVIOUS
  <2>3. r \in Nat
    BY <1>3, <1>4, <2>2, RoundedFacts
  <2>4. size - 6 \in Nat
    BY <1>10, <1>18
  <2>5. unit \in Nat \ {0}
    BY <1>12, <2>4, PowerFacts
  <2>6. unit \div 2 \in Nat
    BY <2>5
  <2>7. PICK e : e = r + unit \div 2
    OBVIOUS
  <2>8. e \in Nat
    BY <2>3, <2>6, <2>7
  <2>9. e \div unit \in Nat
    BY <2>5, <2>8
  <2>10. (e \div unit) * unit \in Nat
    BY <2>5, <2>9
  <2>11. h \in Nat
    BY <1>15, <2>2, <2>7, <2>10
  <2>12. Good(h, 0, 0)
    BY <1>18, <1>21, <2>11
  <2> QED
    BY <1>22, <2>12
<1>19. CASE n # 0 /\ ~small /\ ~(whole > 0 /\ size >= 6)
  <2>2. LeadingZeros[<<n, d>>] \in Nat
    BY <1>3, <1>4, <1>19, LeadingZerosFacts
  <2>3. places \in Nat
    <3>1. CASE whole > 0
      BY <1>10, <1>11, <1>19, <3>1
    <3>2. CASE ~(whole > 0)
      BY <1>11, <2>2, <3>2
    <3> QED
      BY <3>1, <3>2
  <2>4. m \in Nat
    BY <1>3, <1>4, <1>12, <2>3, RoundedFacts
  <2>5. PICK t : t = PowerOfTen[places]
    OBVIOUS
  <2>6. t \in Nat \ {0}
    BY <2>3, <2>5, PowerFacts
  <2>7. m \div t \in Nat /\ m % t \in Nat
    BY <2>4, <2>6
  <2>8. u \in Nat /\ v \in Nat
    BY <1>15, <2>5, <2>7
  <2>9. Good(u, v, places)
    BY <1>19, <1>21, <2>3, <2>8
  <2> QED
    BY <1>22, <2>9
<1> QED
  BY <1>16, <1>17, <1>18, <1>19

\* What is stored of a number is one, and it is rounded like its negative.
LEMMA StoredFacts ==
    ASSUME NEW a \in ZR_Numbers
    PROVE  Stored(a) \in ZR_Numbers /\ Stored(Minus(a)) = Minus(Stored(a))
<1>1. PICK i \in Nat, f \in Nat, p \in Nat :
         /\ a.n = 0 => i = 0 /\ f = 0
         /\ Digits(a, 6) = Decimal(a.n < 0, i, f, p)
         /\ Digits(Minus(a), 6) = Decimal(Minus(a).n < 0, i, f, p)
  BY DigitsFacts
<1>2. PICK b, t : b = Minus(a) /\ t = PowerOfTen[p]
  OBVIOUS
<1>3. a.n \in Int /\ b \in ZR_Numbers /\ b.n = -a.n /\ Minus(b) = a
  BY <1>2, MinusFacts DEF ZR_Numbers
<1>4. t \in Nat \ {0}
  BY <1>2, PowerFacts
<1>5. PICK k : k = i * t + f
  OBVIOUS
<1>6. k \in Nat /\ (-i) * t + (-f) = -k
  BY <1>4, <1>5
<1>7. ASSUME NEW c \in {a, b}
      PROVE  /\ c.n < 0 => Stored(c) = ZR_Number(-k, t)
             /\ ~(c.n < 0) => Stored(c) = ZR_Number(k, t)
  <2>1. Digits(c, 6) = Decimal(c.n < 0, i, f, p)
    BY <1>1, <1>2
  <2>2. PICK e : e = Digits(c, 6)
    OBVIOUS
  <2>3. (e.minus <=> c.n < 0) /\ e.int = i /\ e.frac = f /\ e.places = p
    <3>1. e = [minus |-> c.n < 0, int |-> i, frac |-> f, places |-> p]
      BY <2>1, <2>2 DEF Decimal
    <3> QED
      BY <3>1
  <2>4. Stored(c) = FromDecimalString(e)
    BY <2>2 DEF Stored
  <2>5. ASSUME c.n < 0 PROVE Stored(c) = ZR_Number((-i) * t + (-f), t)
    BY <1>2, <2>3, <2>4, <2>5 DEF FromDecimalString
  <2>6. ASSUME ~(c.n < 0) PROVE Stored(c) = ZR_Number(i * t + f, t)
    BY <1>2, <2>3, <2>4, <2>6 DEF FromDecimalString
  <2> QED
    BY <1>5, <1>6, <2>5, <2>6
<1>8. ZR_Number(k, t) \in ZR_Numbers /\ ZR_Number(-k, t) = Minus(ZR_Number(k, t))
  BY <1>4, <1>6, NumberFacts
<1>9. ZR_Number(-k, t) \in ZR_Numbers /\ Minus(ZR_Number(-k, t)) = ZR_Number(k, t)
  BY <1>8, MinusFacts
<1>10. CASE a.n < 0
  <2>1. ~(b.n < 0)
    BY <1>3, <1>10
  <2> QED
    BY <1>2, <1>7, <1>8, <1>9, <1>10, <2>1
<1>11. CASE a.n > 0
  <2>1. b.n < 0 /\ ~(a.n < 0)
    BY <1>3, <1>11
  <2> QED
    BY <1>2, <1>7, <1>8, <1>9, <1>11, <2>1
<1>12. CASE a.n = 0
  <2>1. ~(b.n < 0) /\ ~(a.n < 0)
    BY <1>3, <1>12
  <2>2. i <= 0 /\ f <= 0
    BY <1>1, <1>12
  <2>3. k <= 0
    <3>1. i = 0
      BY <2>2
    <3>2. i * t = 0
      BY <1>4, <3>1
    <3> QED
      BY <1>4, <1>5, <2>2, <3>2
  <2>4. -k = k
    BY <1>6, <2>3
  <2>5. Stored(a) = ZR_Number(k, t) /\ Stored(b) = ZR_Number(k, t)
    BY <1>7, <2>1
  <2>6. ZR_Number(k, t) = Minus(ZR_Number(k, t))
    BY <1>8, <2>4
  <2> QED
    BY <1>2, <1>8, <2>5, <2>6
<1> QED
  BY <1>3, <1>10, <1>11, <1>12

LEMMA StoredFractionFacts ==
    ASSUME NEW a \in ZR_Numbers
    PROVE  StoredFraction(a) \in ZR_Numbers
<1>1. a.n \in Int /\ a.d \in Nat \ {0} /\ Magnitude(a.n) \in Nat
  BY DEF ZR_Numbers, Magnitude
<1>2. PICK m, d : m = Magnitude(a.n) /\ d = a.d
  OBVIOUS
<1>3. m \div d \in Nat
  BY <1>1, <1>2
<1>4. PICK q : q = m \div d
  OBVIOUS
<1>5. q \in Int /\ -q \in Int /\ 1 \in Nat \ {0}
  BY <1>3, <1>4
<1>6. ZR_Number(q, 1) \in ZR_Numbers /\ ZR_Number(-q, 1) \in ZR_Numbers
  BY <1>5, NumberFacts
<1>7. StoredFraction(a) = ZR_Number(IF a.n < 0 THEN -q ELSE q, 1)
  BY <1>2, <1>4 DEF StoredFraction
<1> QED
  BY <1>6, <1>7

LEMMA FromDecimalFacts ==
    ASSUME NEW t \in Decimals
    PROVE  FromDecimalString(t) \in ZR_Numbers
<1>1. PICK i \in Int, f \in Int, p \in Nat :
         /\ t.places = p
         /\ i = IF t.minus THEN -t.int ELSE t.int
         /\ f = IF t.minus THEN -t.frac ELSE t.frac
  BY DEF Decimals
<1>2. PICK u : u = PowerOfTen[p]
  OBVIOUS
<1>3. u \in Nat \ {0}
  BY <1>2, PowerFacts
<1>4. PICK n : n = i * u + f
  OBVIOUS
<1>5. n \in Int
  BY <1>3, <1>4
<1>6. FromDecimalString(t) = ZR_Number(n, u)
  BY <1>1, <1>2, <1>4 DEF FromDecimalString
<1> QED
  BY <1>3, <1>5, <1>6, NumberFacts

-----------------------------------------------------------------------------
(* What a content is, and what statements leave alone.                     *)

Rows == [credit : ZR_Numbers, our_credit : ZR_Numbers, balance : ZR_Numbers]
Content(c) ==
    /\ c = [peers |-> c.peers, orders |-> c.orders, booked |-> c.booked]
    /\ c.peers \in {NoRow} \cup Rows
    /\ c.booked \in Seq(Payments)

\* e is c after statements that book nothing.
Keeps(c, e) ==
    /\ Content(e)
    /\ e.booked = c.booked
    /\ LoadPeer(e).balance = LoadPeer(c).balance
    /\ PeerExists(c) => PeerExists(e)

LEMMA RowFacts ==
    /\ NewRow \in Rows /\ NewRow.balance = Zero
    /\ \A r \in Rows :
          /\ r # NoRow
          /\ r = [credit |-> r.credit, our_credit |-> r.our_credit, balance |-> r.balance]
          /\ r.credit \in ZR_Numbers /\ r.our_credit \in ZR_Numbers
          /\ r.balance \in ZR_Numbers
<1>1. ASSUME NEW r \in Rows
      PROVE  /\ r = [credit |-> r.credit, our_credit |-> r.our_credit, balance |-> r.balance]
             /\ r.credit \in ZR_Numbers /\ r.our_credit \in ZR_Numbers
             /\ r.balance \in ZR_Numbers
  BY DEF Rows
<1>2. ASSUME NEW r \in Rows PROVE r # NoRow
  <2>1. DOMAIN r = {"credit", "our_credit", "balance"}
    BY <1>1
  <2>2. DOMAIN NoRow = {"credit"}
    BY DEF NoRow
  <2> QED
    BY <2>1, <2>2
<1>3. NewRow \in Rows /\ NewRow.balance = Zero
  BY ZeroFacts DEF NewRow, Rows
<1> QED
  BY <1>1, <1>2, <1>3

LEMMA LoadPeerFacts ==
    ASSUME NEW c, Content(c)
    PROVE  /\ LoadPeer(c) \in Rows
           /\ PeerExists(c) <=> c.peers \in Rows
           /\ PeerExists(c) => LoadPeer(c) = c.peers
           /\ ~PeerExists(c) => LoadPeer(c) = NewRow
BY RowFacts DEF Content, LoadPeer, PeerExists

\* The rows of orders are another matter.
LEMMA KeepsWithOtherOrders ==
    ASSUME NEW c, NEW e, Content(c), e = [c EXCEPT !.orders = e.orders]
    PROVE  Keeps(c, e)
<1>1. e = [peers |-> c.peers, orders |-> e.orders, booked |-> c.booked]
  BY DEF Content
<1>2. e.peers = c.peers /\ e.booked = c.booked
  BY <1>1
<1> QED
  BY <1>1, <1>2 DEF Keeps, Content, LoadPeer, PeerExists

LEMMA MadeKeeps ==
    ASSUME NEW c, Content(c)
    PROVE  Keeps(c, Made(c)) /\ PeerExists(Made(c)) /\ Made(c).orders = c.orders
<1>1. CASE PeerExists(c)
  BY <1>1 DEF Made, Keeps
<1>2. CASE ~PeerExists(c)
  <2>1. PICK e : e = [c EXCEPT !.peers = NewRow]
    OBVIOUS
  <2>2. e = [peers |-> NewRow, orders |-> c.orders, booked |-> c.booked]
    BY <2>1 DEF Content
  <2>3. e.peers = NewRow /\ e.orders = c.orders /\ e.booked = c.booked
    BY <2>2
  <2>4. Content(e)
    BY <2>2, <2>3, RowFacts DEF Content
  <2>5. PeerExists(e) /\ LoadPeer(e) = NewRow /\ LoadPeer(c) = NewRow
    BY <1>2, <2>3, <2>4, LoadPeerFacts, RowFacts
  <2>6. Made(c) = e
    BY <1>2, <2>1 DEF Made, CreatePeerRecord
  <2> QED
    BY <2>3, <2>4, <2>5, <2>6 DEF Keeps
<1> QED
  BY <1>1, <1>2

LEMMA UpdateLineKeeps ==
    ASSUME NEW c, Content(c), PeerExists(c), NEW v \in ZR_Numbers,
           NEW column \in {"credit", "our_credit"}
    PROVE  /\ Keeps(c, UpdatePeerCredit(c, column, v))
           /\ UpdatePeerCredit(c, column, v).orders = c.orders
<1>1. PICK r, w : r = c.peers /\ w = Stored(v)
  OBVIOUS
<1>2. r \in Rows /\ w \in ZR_Numbers
  BY <1>1, LoadPeerFacts, StoredFacts
<1>3. PICK s : s = [r EXCEPT ![column] = w]
  OBVIOUS
<1>4. s \in Rows /\ s.balance = r.balance
  <2>1. r = [credit |-> r.credit, our_credit |-> r.our_credit, balance |-> r.balance]
    BY <1>2, RowFacts
  <2>2. CASE column = "credit"
    <3>1. s = [credit |-> w, our_credit |-> r.our_credit, balance |-> r.balance]
      BY <1>3, <2>1, <2>2
    <3> QED
      BY <1>2, <3>1, RowFacts DEF Rows
  <2>3. CASE column = "our_credit"
    <3>1. s = [credit |-> r.credit, our_credit |-> w, balance |-> r.balance]
      BY <1>3, <2>1, <2>3
    <3> QED
      BY <1>2, <3>1, RowFacts DEF Rows
  <2> QED
    BY <2>2, <2>3
<1>5. PICK e : e = [c EXCEPT !.peers = s]
  OBVIOUS
<1>6. UpdatePeerCredit(c, column, v) = e
  BY <1>1, <1>3, <1>5 DEF UpdatePeerCredit
<1>7. e = [peers |-> s, orders |-> c.orders, booked |-> c.booked]
  BY <1>5 DEF Content
<1>8. e.peers = s /\ e.orders = c.orders /\ e.booked = c.booked
  BY <1>7
<1>9. Content(e)
  BY <1>4, <1>7, <1>8 DEF Content
<1>10. LoadPeer(e) = s /\ PeerExists(e) /\ LoadPeer(c) = r
  BY <1>1, <1>4, <1>8, <1>9, LoadPeerFacts
<1> QED
  BY <1>4, <1>6, <1>8, <1>9, <1>10 DEF Keeps

\* Lines of credit.
LEMMA UpdateCreditKeeps ==
    ASSUME NEW c, Content(c), NEW v \in ZR_Numbers
    PROVE  /\ Keeps(c, UpdateCredit(c, v)) /\ UpdateCredit(c, v).orders = c.orders
           /\ Keeps(c, UpdateOurCredit(c, v)) /\ UpdateOurCredit(c, v).orders = c.orders
<1>1. PICK d : d = Made(c)
  OBVIOUS
<1>2. Keeps(c, d) /\ PeerExists(d) /\ d.orders = c.orders /\ Content(d)
  BY <1>1, MadeKeeps DEF Keeps
<1>3. ASSUME NEW column \in {"credit", "our_credit"}
      PROVE  /\ Keeps(c, UpdatePeerCredit(d, column, v))
             /\ UpdatePeerCredit(d, column, v).orders = c.orders
  <2>1. /\ Keeps(d, UpdatePeerCredit(d, column, v))
        /\ UpdatePeerCredit(d, column, v).orders = d.orders
    BY <1>2, UpdateLineKeeps
  <2> QED
    BY <1>2, <2>1 DEF Keeps
<1> QED
  BY <1>1, <1>3 DEF UpdateCredit, UpdateOurCredit

\* Orders.
LEMMA OrderStatementsKeep ==
    ASSUME NEW c, Content(c), NEW o, NEW id, NEW network
    PROVE  /\ Keeps(c, AddOrder(network, c, o))
           /\ Keeps(c, UpdateOrder(c, o))
           /\ Keeps(c, DeleteOrder(c, id))
           /\ Keeps(c, c)
<1>1. ASSUME NEW x PROVE Keeps(c, [c EXCEPT !.orders = x])
  <2>1. PICK e : e = [c EXCEPT !.orders = x]
    OBVIOUS
  <2>2. e = [peers |-> c.peers, orders |-> x, booked |-> c.booked]
    BY <2>1 DEF Content
  <2>3. e.orders = x
    BY <2>2
  <2>4. Keeps(c, e)
    BY <2>1, <2>3, KeepsWithOtherOrders
  <2> QED
    BY <2>1, <2>4
<1>2. Keeps(c, AddOrder(network, c, o))
  BY <1>1 DEF AddOrder
<1>3. Keeps(c, DeleteOrder(c, id))
  BY <1>1 DEF DeleteOrder
<1>4. Keeps(c, c)
  BY DEF Keeps
<1>5. Keeps(c, UpdateOrder(c, o))
  <2>1. PICK x : x = [c.orders EXCEPT ![o.id].amount = StoredFraction(o.amount)]
    OBVIOUS
  <2>2. [c EXCEPT !.orders[o.id].amount = StoredFraction(o.amount)]
           = [c EXCEPT !.orders = x]
    BY <2>1
  <2> QED
    BY <1>1, <1>4, <2>2 DEF UpdateOrder
<1> QED
  BY <1>2, <1>3, <1>4, <1>5

\* A payment is booked.
LEMMA BookFacts ==
    ASSUME NEW c, Content(c), PeerExists(c), NEW amount \in Payments
    PROVE  /\ Content(Book(c, amount)) /\ PeerExists(Book(c, amount))
           /\ Book(c, amount).booked = Append(c.booked, amount)
           /\ Book(c, amount).orders = c.orders
           /\ LoadPeer(Book(c, amount)).balance = Stored(Plus(LoadPeer(c).balance, amount))
<1>1. PICK r, w : r = c.peers /\ w = Stored(Plus(r.balance, amount))
  OBVIOUS
<1>2. r \in Rows /\ LoadPeer(c) = r
  BY <1>1, LoadPeerFacts
<1>3. w \in ZR_Numbers
  <2>1. amount \in ZR_Numbers /\ r.balance \in ZR_Numbers
    BY <1>2, RowFacts, AmountsAssumption
  <2>2. Plus(r.balance, amount) \in ZR_Numbers
    BY <2>1, PlusFacts
  <2> QED
    BY <1>1, <2>2, StoredFacts
<1>4. PICK s : s = [r EXCEPT !.balance = w]
  OBVIOUS
<1>5. s \in Rows /\ s.balance = w
  <2>1. r = [credit |-> r.credit, our_credit |-> r.our_credit, balance |-> r.balance]
    BY <1>2, RowFacts
  <2>2. s = [credit |-> r.credit, our_credit |-> r.our_credit, balance |-> w]
    BY <1>4, <2>1
  <2> QED
    BY <1>2, <1>3, <2>2, RowFacts DEF Rows
<1>6. PICK d : d = [c EXCEPT !.peers = s]
  OBVIOUS
<1>7. UpdatePeerCredit(c, "balance", Plus(LoadPeer(c).balance, amount)) = d
  BY <1>1, <1>2, <1>4, <1>6 DEF UpdatePeerCredit
<1>8. d = [peers |-> s, orders |-> c.orders, booked |-> c.booked]
  BY <1>6 DEF Content
<1>9. PICK e : e = [d EXCEPT !.booked = Append(@, amount)]
  OBVIOUS
<1>10. Book(c, amount) = e
  BY <1>7, <1>9 DEF Book
<1>11. e = [peers |-> s, orders |-> c.orders, booked |-> Append(c.booked, amount)]
  BY <1>8, <1>9
<1>12. e.peers = s /\ e.orders = c.orders /\ e.booked = Append(c.booked, amount)
  BY <1>11
<1>13. Append(c.booked, amount) \in Seq(Payments)
  BY DEF Content
<1>14. Content(e)
  BY <1>5, <1>11, <1>12, <1>13 DEF Content
<1>15. LoadPeer(e) = s /\ PeerExists(e)
  BY <1>5, <1>12, <1>14, LoadPeerFacts
<1> QED
  BY <1>1, <1>2, <1>5, <1>10, <1>12, <1>14, <1>15

-----------------------------------------------------------------------------
(* The payment log.                                                        *)

LEMMA TimesFacts ==
    ASSUME NEW s \in Seq(Payments), NEW x \in Payments, NEW y
    PROVE  /\ Times(<<>>, y) = 0
           /\ Times(s, y) \in Nat
           /\ Times(Append(s, x), y) = IF x = y THEN Times(s, y) + 1 ELSE Times(s, y)
<1> DEFINE At(list) == {i \in DOMAIN list : list[i] = y}
<1>1. PICK n, t : n = Len(s) /\ t = Append(s, x)
  OBVIOUS
<1>9. n \in Nat
  BY <1>1
<1>2. DOMAIN s = 1..n /\ IsFiniteSet(1..n)
  BY <1>1, <1>9, FS_Interval
<1>3. IsFiniteSet(At(s)) /\ n + 1 \notin At(s)
  <2>1. At(s) \subseteq 1..n
    BY <1>2
  <2> QED
    BY <1>2, <1>9, <2>1, FS_Subset
<1>4. Cardinality(At(s)) \in Nat
  BY <1>3, FS_CardinalityType
<1>5. /\ DOMAIN t = 1..(n + 1)
      /\ t[n + 1] = x
      /\ \A i \in 1..n : t[i] = s[i]
  BY <1>1, <1>9
<1>6. ASSUME x = y PROVE Cardinality(At(t)) = Cardinality(At(s)) + 1
  <2>1. At(t) = At(s) \cup {n + 1}
    BY <1>2, <1>5, <1>6, <1>9
  <2> QED
    BY <1>3, <2>1, FS_AddElement
<1>7. ASSUME x # y PROVE Cardinality(At(t)) = Cardinality(At(s))
  <2>1. At(t) = At(s)
    BY <1>2, <1>5, <1>7, <1>9
  <2> QED
    BY <2>1
<1>8. Cardinality(At(<<>>)) = 0
  <2>1. At(<<>>) = {}
    OBVIOUS
  <2> QED
    BY <2>1, FS_EmptySet
<1> QED
  BY <1>1, <1>4, <1>6, <1>7, <1>8 DEF Times

\* Everything in the list is in the log as often.
Logged(list, rows) == \A amount \in Payments : Times(list, amount) <= Times(rows, amount)

LEMMA LoggedFacts ==
    ASSUME NEW list \in Seq(Payments), NEW rows \in Seq(Payments), NEW x \in Payments
    PROVE  /\ Logged(<<>>, rows)
           /\ Logged(list, rows) => /\ Logged(list, Append(rows, x))
                                    /\ Logged(Append(list, x), Append(rows, x))
<1>1. ASSUME NEW a
      PROVE  /\ Times(<<>>, a) = 0
             /\ Times(list, a) \in Nat /\ Times(rows, a) \in Nat
             /\ Times(Append(list, x), a)
                   = IF x = a THEN Times(list, a) + 1 ELSE Times(list, a)
             /\ Times(Append(rows, x), a)
                   = IF x = a THEN Times(rows, a) + 1 ELSE Times(rows, a)
  BY TimesFacts
<1>2. Logged(<<>>, rows)
  BY <1>1 DEF Logged
<1>3. ASSUME Logged(list, rows), NEW a \in Payments
      PROVE  /\ Times(list, a) <= Times(Append(rows, x), a)
             /\ Times(Append(list, x), a) <= Times(Append(rows, x), a)
  <2>1. Times(list, a) <= Times(rows, a)
    BY <1>3 DEF Logged
  <2> QED
    BY <1>1, <2>1
<1> QED
  BY <1>2, <1>3 DEF Logged

-----------------------------------------------------------------------------
(* The balances on the way.                                                *)

\* h are the balances, after so many payments, that both friends have or had.
Chain(h, now, kept, balance, count) ==
    /\ h \in [Nat -> ZR_Numbers]
    /\ h[0] = Zero
    /\ \A k \in 1..Len(now.booked) : h[k] = Stored(Plus(h[k - 1], now.booked[k]))
    /\ LoadPeer(now).balance = h[Len(now.booked)]
    /\ Len(kept.booked) <= Len(now.booked)
    /\ \A k \in 1..Len(kept.booked) : kept.booked[k] = now.booked[k]
    /\ LoadPeer(kept).balance = h[Len(kept.booked)]
    /\ count \in 0..Len(kept.booked)
    /\ balance = Minus(h[count])
Alike(now, kept, balance, count) ==
    \E h : Chain(h, now, kept, balance, count)

\* Nothing booked is taken back but by a rollback.
LEMMA AlikeWhenKept ==
    ASSUME NEW now, NEW kept, NEW balance, NEW count, NEW e,
           Alike(now, kept, balance, count), Keeps(now, e)
    PROVE  Alike(e, kept, balance, count)
BY DEF Alike, Chain, Keeps

LEMMA AlikeWhenCommitted ==
    ASSUME NEW now, NEW kept, NEW balance, NEW count,
           Content(now), Content(kept), Alike(now, kept, balance, count)
    PROVE  /\ Alike(now, now, balance, count)
           /\ Alike(kept, kept, balance, count)
<1>1. PICK h : Chain(h, now, kept, balance, count)
  BY DEF Alike
<1>2. PICK n \in Nat, m \in Nat : n = Len(now.booked) /\ m = Len(kept.booked)
  BY DEF Content
<1>3. count \in 0..n
  BY <1>1, <1>2 DEF Chain
<1>4. Chain(h, now, now, balance, count)
  BY <1>1, <1>2, <1>3 DEF Chain
<1>5. ASSUME NEW k \in 1..m PROVE h[k] = Stored(Plus(h[k - 1], kept.booked[k]))
  BY <1>1, <1>2, <1>5 DEF Chain
<1>6. Chain(h, kept, kept, balance, count)
  BY <1>1, <1>2, <1>5 DEF Chain
<1> QED
  BY <1>4, <1>6 DEF Alike

LEMMA AlikeWhenBooked ==
    ASSUME NEW now, NEW kept, NEW balance, NEW count, NEW amount \in Payments,
           Content(now), Content(kept), PeerExists(now), Alike(now, kept, balance, count)
    PROVE  Alike(Book(now, amount), kept, balance, count)
<1>1. PICK h : Chain(h, now, kept, balance, count)
  BY DEF Alike
<1>2. PICK e, n, m : e = Book(now, amount) /\ n = Len(now.booked) /\ m = Len(kept.booked)
  OBVIOUS
<1>3. /\ Content(e)
      /\ e.booked = Append(now.booked, amount)
      /\ LoadPeer(e).balance = Stored(Plus(LoadPeer(now).balance, amount))
  BY <1>2, BookFacts
<1>4. /\ n \in Nat /\ m \in Nat /\ m <= n
      /\ Len(e.booked) = n + 1 /\ e.booked[n + 1] = amount
      /\ \A k \in 1..n : e.booked[k] = now.booked[k]
  BY <1>1, <1>2, <1>3 DEF Content, Chain
<1>5. PICK w : w = Stored(Plus(h[n], amount))
  OBVIOUS
<1>6. w \in ZR_Numbers /\ LoadPeer(e).balance = w
  <2>1. h[n] \in ZR_Numbers /\ amount \in ZR_Numbers /\ LoadPeer(now).balance = h[n]
    BY <1>1, <1>2, <1>4, AmountsAssumption DEF Chain
  <2>2. Plus(h[n], amount) \in ZR_Numbers
    BY <2>1, PlusFacts
  <2> QED
    BY <1>3, <1>5, <2>1, <2>2, StoredFacts
<1>7. PICK g : g = [h EXCEPT ![n + 1] = w]
  OBVIOUS
<1>8. h \in [Nat -> ZR_Numbers]
  BY <1>1 DEF Chain
<1>9. g \in [Nat -> ZR_Numbers] /\ g[n + 1] = w /\ \A k \in 0..n : g[k] = h[k]
  BY <1>4, <1>6, <1>7, <1>8
<1>10. ASSUME NEW k \in 1..(n + 1) PROVE g[k] = Stored(Plus(g[k - 1], e.booked[k]))
  <2>1. CASE k = n + 1
    <3>1. g[k - 1] = h[n]
      BY <1>4, <1>9, <2>1
    <3> QED
      BY <1>4, <1>5, <1>9, <2>1, <3>1
  <2>2. CASE k # n + 1
    <3>1. k \in 1..n /\ k - 1 \in 0..n /\ k \in 0..n
      BY <1>4, <2>2
    <3>2. h[k] = Stored(Plus(h[k - 1], now.booked[k]))
      BY <1>1, <1>2, <3>1 DEF Chain
    <3> QED
      BY <1>4, <1>9, <3>1, <3>2
  <2> QED
    BY <2>1, <2>2
<1>11. /\ h[0] = Zero
       /\ \A k \in 1..m : kept.booked[k] = now.booked[k]
       /\ LoadPeer(kept).balance = h[m]
       /\ count \in 0..m /\ balance = Minus(h[count])
  BY <1>1, <1>2 DEF Chain
<1>12. /\ g[0] = Zero
       /\ \A k \in 1..m : kept.booked[k] = e.booked[k]
       /\ LoadPeer(kept).balance = g[m]
       /\ balance = Minus(g[count])
  BY <1>4, <1>9, <1>11
<1>13. Chain(g, e, kept, balance, count)
  BY <1>2, <1>4, <1>6, <1>9, <1>10, <1>11, <1>12 DEF Chain
<1> QED
  BY <1>2, <1>13 DEF Alike

LEMMA AlikeWhenFriendBooks ==
    ASSUME NEW now, NEW kept, NEW balance, NEW count,
           Content(now), Content(kept), Alike(now, kept, balance, count),
           count < Len(kept.booked)
    PROVE  Alike(now, kept, Stored(Plus(balance, Minus(kept.booked[count + 1]))), count + 1)
<1>1. PICK h : Chain(h, now, kept, balance, count)
  BY DEF Alike
<1>2. PICK a, x, m, n : /\ a = kept.booked[count + 1] /\ x = h[count]
                        /\ m = Len(kept.booked) /\ n = Len(now.booked)
  OBVIOUS
<1>3. n \in Nat /\ m \in Nat /\ m <= n /\ count \in 0..(m - 1)
  BY <1>1, <1>2 DEF Chain, Content
<1>4. a \in ZR_Numbers /\ x \in ZR_Numbers
  <2>1. kept.booked[count + 1] \in Payments
    BY <1>2, <1>3 DEF Content
  <2> QED
    BY <1>1, <1>2, <1>3, <2>1, AmountsAssumption DEF Chain
<1>5. balance = Minus(x) /\ h[count + 1] = Stored(Plus(x, a))
  <2>1. count + 1 \in 1..m /\ count + 1 \in 1..n /\ (count + 1) - 1 = count
    BY <1>3
  <2>2. now.booked[count + 1] = a
    BY <1>1, <1>2, <2>1 DEF Chain
  <2> QED
    BY <1>1, <1>2, <2>1, <2>2 DEF Chain
<1>6. Stored(Plus(balance, Minus(a))) = Minus(h[count + 1])
  <2>1. Plus(Minus(x), Minus(a)) = Minus(Plus(x, a)) /\ Plus(x, a) \in ZR_Numbers
    BY <1>4, PlusFacts
  <2>2. Stored(Minus(Plus(x, a))) = Minus(Stored(Plus(x, a)))
    BY <2>1, StoredFacts
  <2> QED
    BY <1>5, <2>1, <2>2
<1>7. count + 1 \in 0..m
  BY <1>3
<1>8. Chain(h, now, kept, Minus(h[count + 1]), count + 1)
  BY <1>1, <1>2, <1>7 DEF Chain
<1> QED
  BY <1>2, <1>6, <1>8 DEF Alike

-----------------------------------------------------------------------------
(* What steps do to the books.                                             *)

\* Bookings are made in transactions, of a node that runs and has a row for its
\* friend; before the file is complete there are none.
Bookable ==
    /\ Content(db) /\ Content(disk) /\ log \in Seq(Payments)
    /\ made \in Nat
    /\ poll = "idle" => db = disk
    /\ poll # "idle" => stage = "up" /\ PeerExists(db)
    /\ stage \in {"up", "creating"} => made > 0
    /\ stage = "creating" \/ made = 0 => db.booked = <<>> /\ disk.booked = <<>>
Covers ==
    ~torn /\ Has(made, "TXLOGPATH") =>
        Logged(db.booked, log) /\ Logged(disk.booked, log)
BookingsInv ==
    /\ Bookable
    /\ Covers
    /\ Alike(db, disk, there.balance, there.count)

\* A step that books nothing, and one after which nothing is left but the file.
Rewrites ==
    /\ Keeps(db, db')
    /\ disk' = IF poll = "idle" THEN db' ELSE disk
    /\ UNCHANGED <<made, stage, poll, log, there, torn>>
Restores ==
    /\ db' = disk /\ disk' = disk /\ poll' = "idle"
    /\ stage' = "off" /\ log' = OpenTxLog
    /\ UNCHANGED <<made, there, torn>>

LEMMA WriteRewrites ==
    ASSUME BookingsInv, NEW e, Keeps(db, e), Write(e)
    PROVE  Keeps(db, db') /\ disk' = IF poll = "idle" THEN db' ELSE disk
BY DEF Write, Hold

LEMMA NothingRewrites ==
    ASSUME BookingsInv, UNCHANGED <<db, disk>>
    PROVE  Keeps(db, db') /\ disk' = IF poll = "idle" THEN db' ELSE disk
BY DEF BookingsInv, Bookable, Keeps

LEMMA WriteLineRewrites ==
    ASSUME BookingsInv, NEW e, Keeps(db, e), WriteLine(e)
    PROVE  Keeps(db, db') /\ disk' = IF poll = "idle" THEN db' ELSE disk
<1>1. Keeps(db, db) /\ Keeps(db, Made(db))
  BY MadeKeeps, OrderStatementsKeep DEF BookingsInv, Bookable
<1>2. PICK c \in {e, db, Made(db)} : Write(c)
  BY DEF WriteLine
<1> QED
  BY <1>1, <1>2, WriteRewrites

LEMMA UserSteps ==
    ASSUME BookingsInv, NEW id \in DOMAIN Entries
    PROVE  /\ DoOrder(id) \/ CancelOrder(id) \/ SellRest(id) \/ BuyRest(id) => Rewrites
           /\ \A part \in Parts : SellPart(id, part) => Rewrites
           /\ CancelFails(id) => Restores
           /\ TimeoutOrder(id) => Rewrites \/ Restores
<1>1. Content(db)
  BY DEF BookingsInv, Bookable
<1>2. /\ \A o : Keeps(db, AddOrder(build, db, o)) /\ Keeps(db, UpdateOrder(db, o))
      /\ Keeps(db, DeleteOrder(db, id))
  BY <1>1, OrderStatementsKeep
<1>3. ASSUME NEW e, Keeps(db, e), Write(e) \/ WriteFails
      PROVE  Keeps(db, db') /\ disk' = IF poll = "idle" THEN db' ELSE disk
  BY <1>3, WriteRewrites, NothingRewrites DEF WriteFails
<1>4. ASSUME DoOrder(id) PROVE Rewrites
  <2>1. Write(AddOrder(build, db, NewOrder(id))) \/ WriteFails
    BY <1>4 DEF DoOrder
  <2>2. Keeps(db, db') /\ disk' = IF poll = "idle" THEN db' ELSE disk
    BY <1>2, <1>3, <2>1
  <2>3. UNCHANGED <<made, stage, poll, log, there, torn>>
    BY <1>4 DEF DoOrder, fileVars
  <2> QED
    BY <2>2, <2>3 DEF Rewrites
<1>5. ASSUME CancelOrder(id) PROVE Rewrites
  <2>1. Keeps(db, db') /\ disk' = IF poll = "idle" THEN db' ELSE disk
    BY <1>2, <1>3, <1>5 DEF CancelOrder
  <2> QED
    BY <1>5, <2>1 DEF CancelOrder, Rewrites, fileVars, ghostVars
<1>6. ASSUME SellRest(id) \/ BuyRest(id) PROVE Rewrites
  <2>1. Write(DeleteOrder(db, id)) \/ WriteFails
    BY <1>6 DEF SellRest, BuyRest, Removed, NotRemoved
  <2>2. Keeps(db, db') /\ disk' = IF poll = "idle" THEN db' ELSE disk
    BY <1>2, <1>3, <2>1
  <2>3. UNCHANGED <<made, stage, poll, log, there, torn>>
    BY <1>6 DEF SellRest, BuyRest, fileVars
  <2> QED
    BY <2>2, <2>3 DEF Rewrites
<1>7. ASSUME NEW part \in Parts, SellPart(id, part) PROVE Rewrites
  <2> DEFINE o == [orders[id] EXCEPT !.purpose = "PARTLY_FILLED",
                                     !.amount = Plus(@, Minus(part))]
  <2>1. Write(UpdateOrder(db, o)) \/ WriteFails
    BY <1>7 DEF SellPart
  <2> HIDE DEF o
  <2>2. Keeps(db, db') /\ disk' = IF poll = "idle" THEN db' ELSE disk
    BY <1>2, <1>3, <2>1
  <2> QED
    BY <1>7, <2>2 DEF SellPart, Rewrites, fileVars
<1>8. CancelFails(id) => Restores
  BY DEF CancelFails, Ends, Restores
<1>9. ASSUME TimeoutOrder(id) PROVE Rewrites \/ Restores
  <2>1. CASE Write(DeleteOrder(db, id)) /\ UNCHANGED <<fileVars, poll, log, there, ghostVars>>
    BY <1>2, <1>3, <2>1 DEF Rewrites, fileVars, ghostVars
  <2>2. CASE log' = OpenTxLog /\ Ends
    BY <2>2 DEF Ends, Restores
  <2> QED
    BY <1>9, <2>1, <2>2 DEF TimeoutOrder
<1> QED
  BY <1>4, <1>5, <1>6, <1>7, <1>8, <1>9

LEMMA OtherSteps ==
    ASSUME BookingsInv
    PROVE  /\ \A text \in Texts : EditFriend(text) \/ PayTo(text) => Rewrites
           /\ \A item \in Conversation : SendTxItem(item) => Rewrites
           /\ StatusChange \/ SendOrderBook \/ HandleCredit => Rewrites
           /\ UNCHANGED vars => Rewrites
           /\ Die => Restores
<1>1. Content(db)
  BY DEF BookingsInv, Bookable
<1>2. ASSUME NEW text \in Texts, EditFriend(text) PROVE Rewrites
  <2>1. PICK line \in ZR_Numbers : line = FromDecimalString(text)
    BY FromDecimalFacts, AmountsAssumption
  <2>2. WriteLine(UpdateCredit(db, line))
    BY <1>2, <2>1 DEF EditFriend
  <2>3. Keeps(db, db') /\ disk' = IF poll = "idle" THEN db' ELSE disk
    BY <1>1, <2>2, UpdateCreditKeeps, WriteLineRewrites
  <2> QED
    BY <1>2, <2>3 DEF EditFriend, Rewrites, fileVars, ghostVars
<1>3. ASSUME HandleCredit PROVE Rewrites
  <2>1. FriendsLine \in ZR_Numbers
    BY AmountsAssumption
  <2>2. Keeps(db, db') /\ disk' = IF poll = "idle" THEN db' ELSE disk
    BY <1>1, <1>3, <2>1, UpdateCreditKeeps, WriteLineRewrites DEF HandleCredit
  <2> QED
    BY <1>3, <2>2 DEF HandleCredit, Rewrites, fileVars, ghostVars
<1>4. ASSUME NEW text \in Texts, PayTo(text) PROVE Rewrites
  <2>1. UNCHANGED <<fileVars, disk, db, poll, log, there, ghostVars>>
    BY <1>4 DEF PayTo
  <2> QED
    BY <2>1, NothingRewrites DEF Rewrites, fileVars, ghostVars
<1>5. ASSUME NEW item \in Conversation, SendTxItem(item) PROVE Rewrites
  BY <1>5, NothingRewrites DEF SendTxItem, Rewrites, fileVars, ghostVars
<1>6. ASSUME StatusChange \/ SendOrderBook PROVE Rewrites
  <2>1. UNCHANGED <<fileVars, disk, db, poll, log, there, ghostVars>>
    BY <1>6 DEF StatusChange, SendOrderBook
  <2> QED
    BY <2>1, NothingRewrites DEF Rewrites, fileVars, ghostVars
<1>7. UNCHANGED vars => Rewrites
  BY NothingRewrites DEF vars, Rewrites
<1>8. Die => Restores
  BY DEF Die, Ends, Restores
<1> QED
  BY <1>2, <1>3, <1>4, <1>5, <1>6, <1>7, <1>8

\* The log is the same, if it is anywhere.
LEMMA OpenTxLogFacts ==
    ASSUME log \in Seq(Payments)
    PROVE  /\ OpenTxLog \in Seq(Payments)
           /\ Has(made, "TXLOGPATH") => OpenTxLog = log
BY DEF OpenTxLog

LEMMA BookingsRewritten ==
    ASSUME BookingsInv, Rewrites PROVE BookingsInv'
<1>1. Bookable'
  <2>1. Content(db') /\ db'.booked = db.booked /\ (PeerExists(db) => PeerExists(db'))
    BY DEF Rewrites, Keeps
  <2> QED
    BY <2>1 DEF BookingsInv, Bookable, Rewrites
<1>2. Covers'
  <2>1. db'.booked = db.booked /\ disk'.booked \in {db.booked, disk.booked}
    BY DEF Rewrites, Keeps
  <2>2. Logged(db.booked, log) /\ Logged(disk.booked, log)
           => Logged(db'.booked, log) /\ Logged(disk'.booked, log)
    BY <2>1
  <2> QED
    BY <2>2 DEF BookingsInv, Covers, Rewrites
<1>3. Alike(db, disk, there.balance, there.count)'
  <2>1. PICK b, n : b = there.balance /\ n = there.count
    OBVIOUS
  <2>2. Alike(db', disk, b, n)
    BY <2>1, AlikeWhenKept DEF BookingsInv, Rewrites
  <2>3. CASE poll = "idle"
    <3>1. Content(db') /\ Content(disk)
      BY DEF BookingsInv, Bookable, Rewrites, Keeps
    <3>2. Alike(db', db', b, n)
      BY <2>2, <3>1, AlikeWhenCommitted
    <3> QED
      BY <2>1, <2>3, <3>2 DEF Rewrites
  <2>4. CASE poll # "idle"
    BY <2>1, <2>2, <2>4 DEF Rewrites
  <2> QED
    BY <2>3, <2>4
<1> QED
  BY <1>1, <1>2, <1>3 DEF BookingsInv

\* The connection forgets what was not committed, or commits it.
LEMMA BookingsSettled ==
    ASSUME BookingsInv, NEW c \in {db, disk}, db' = c, disk' = c,
           log' \in Seq(Payments), Has(made', "TXLOGPATH") => log' = log,
           poll' = "idle", made' = made, there' = there, torn' = torn,
           stage' \in {"up", "creating"} => made > 0,
           stage' = "creating" => c.booked = <<>>
    PROVE  BookingsInv'
<1>1. Content(c) /\ Content(db) /\ Content(disk)
  BY DEF BookingsInv, Bookable
<1>2. Bookable'
  BY <1>1 DEF BookingsInv, Bookable
<1>3. Covers'
  BY DEF BookingsInv, Covers
<1>4. Alike(c, c, there.balance, there.count)
  BY <1>1, AlikeWhenCommitted DEF BookingsInv
<1>5. Alike(db, disk, there.balance, there.count)'
  BY <1>4
<1> QED
  BY <1>2, <1>3, <1>5 DEF BookingsInv

LEMMA BookingsBooked ==
    ASSUME BookingsInv, NEW amount \in Payments, Execute(amount)
    PROVE  BookingsInv'
<1>1. /\ stage = "up" /\ poll = "begun" /\ poll' = "booked"
      /\ db' = Book(db, amount) /\ disk' = disk
      /\ \/ log' = Append(log, amount) /\ torn' = torn
         \/ torn' = TRUE /\ log' = log
      /\ made' = made /\ stage' = stage /\ there' = there
  BY DEF Execute, Hold, fileVars
<1>2. Content(db) /\ Content(disk) /\ PeerExists(db) /\ log \in Seq(Payments)
  BY <1>1 DEF BookingsInv, Bookable
<1>3. /\ Content(db') /\ PeerExists(db')
      /\ db'.booked = Append(db.booked, amount)
  BY <1>1, <1>2, BookFacts
<1>4. log' \in Seq(Payments)
  BY <1>1, <1>2
<1>5. Bookable'
  BY <1>1, <1>2, <1>3, <1>4 DEF BookingsInv, Bookable
<1>6. Covers'
  <2> SUFFICES ASSUME ~torn', Has(made, "TXLOGPATH")
               PROVE  Logged(db'.booked, log') /\ Logged(disk'.booked, log')
    BY <1>1 DEF Covers
  <2>1. torn' = torn /\ log' = Append(log, amount)
    BY <1>1
  <2>2. Logged(db.booked, log) /\ Logged(disk.booked, log)
    BY <2>1 DEF BookingsInv, Covers
  <2>3. db.booked \in Seq(Payments) /\ disk.booked \in Seq(Payments)
    BY <1>2 DEF Content
  <2>4. /\ Logged(Append(db.booked, amount), Append(log, amount))
        /\ Logged(disk.booked, Append(log, amount))
    BY <1>2, <2>2, <2>3, LoggedFacts
  <2> QED
    BY <1>1, <1>3, <2>1, <2>4
<1>7. Alike(db, disk, there.balance, there.count)'
  <2>1. Alike(db, disk, there.balance, there.count)
    BY DEF BookingsInv
  <2>2. Alike(Book(db, amount), disk, there.balance, there.count)
    BY <1>2, <2>1, AlikeWhenBooked
  <2> QED
    BY <1>1, <2>2
<1> QED
  BY <1>5, <1>6, <1>7 DEF BookingsInv

LEMMA BookingsThere ==
    ASSUME BookingsInv, FriendBooks PROVE BookingsInv'
<1>1. UNCHANGED <<made, stage, disk, db, poll, log, torn>>
  BY DEF FriendBooks, fileVars, ghostVars
<1>2. Bookable' /\ Covers'
  BY <1>1 DEF BookingsInv, Bookable, Covers
<1>3. Alike(db, disk, there.balance, there.count)'
  <2>1. PICK b, n : b = there.balance /\ n = there.count
    OBVIOUS
  <2>2. there' = [balance |-> Stored(Plus(b, Minus(disk.booked[n + 1]))), count |-> n + 1]
    BY <2>1 DEF FriendBooks
  <2>3. Alike(db, disk, Stored(Plus(b, Minus(disk.booked[n + 1]))), n + 1)
    BY <2>1, AlikeWhenFriendBooks DEF FriendBooks, BookingsInv, Bookable
  <2>4. there'.balance = Stored(Plus(b, Minus(disk.booked[n + 1]))) /\ there'.count = n + 1
    BY <2>2
  <2> QED
    BY <1>1, <2>3, <2>4
<1> QED
  BY <1>2, <1>3 DEF BookingsInv

LEMMA BookingsCreate ==
    ASSUME BookingsInv, Create \/ CreateFails PROVE BookingsInv'
<1>1. UNCHANGED <<disk, db, poll, log, there, torn>>
  BY DEF Create, CreateFails, ghostVars
<1>2. /\ db.booked = <<>> /\ disk.booked = <<>> /\ poll = "idle"
      /\ Content(db) /\ Content(disk) /\ log \in Seq(Payments) /\ db = disk
  BY DEF BookingsInv, Bookable, Create, CreateFails
<1>3. made' \in Nat /\ made' > 0 /\ stage' \in {"creating", "hung"}
  BY DEF BookingsInv, Bookable, Create, CreateFails
<1>4. Bookable'
  BY <1>1, <1>2, <1>3 DEF Bookable
<1>5. Covers'
  <2>1. Logged(<<>>, log)
    BY <1>2, TimesFacts DEF Logged
  <2> QED
    BY <1>1, <1>2, <2>1 DEF Covers
<1>6. Alike(db, disk, there.balance, there.count)'
  BY <1>1 DEF BookingsInv
<1> QED
  BY <1>4, <1>5, <1>6 DEF BookingsInv

LEMMA BookingsStep ==
    ASSUME BookingsInv, [Next]_vars PROVE BookingsInv'
<1>1. CASE Rewrites
  BY <1>1, BookingsRewritten
<1>2. CASE Restores
  <2>1. /\ db' = disk /\ disk' = disk /\ poll' = "idle" /\ stage' = "off"
        /\ log' = OpenTxLog /\ made' = made /\ there' = there /\ torn' = torn
    BY <1>2 DEF Restores
  <2>2. log' \in Seq(Payments) /\ (Has(made', "TXLOGPATH") => log' = log)
    BY <2>1, OpenTxLogFacts DEF BookingsInv, Bookable
  <2> QED
    BY <2>1, <2>2, BookingsSettled
<1>3. CASE Create \/ CreateFails
  BY <1>3, BookingsCreate
<1>4. CASE Start
  <2>1. /\ db' = disk /\ disk' = disk /\ poll' = poll /\ stage' \in {"up", "hung"}
        /\ made' = made /\ there' = there /\ torn' = torn
        /\ log' \in {OpenTxLog, log}
    BY <1>4 DEF Start, ghostVars
  <2>2. log' \in Seq(Payments) /\ (Has(made', "TXLOGPATH") => log' = log)
    BY <2>1, OpenTxLogFacts DEF BookingsInv, Bookable
  <2>3. poll' = "idle" /\ made > 0
    BY <1>4, <2>1 DEF BookingsInv, Bookable, Start
  <2> QED
    BY <2>1, <2>2, <2>3, BookingsSettled
<1>5. CASE BeginTx
  <2>1. /\ stage = "up" /\ PeerExists(db) /\ poll' = "begun"
        /\ UNCHANGED <<made, stage, disk, db, log, there, torn>>
    BY <1>5 DEF BeginTx, Idle, fileVars, ghostVars
  <2> QED
    BY <2>1 DEF BookingsInv, Bookable, Covers
<1>6. CASE CommitTx
  <2>1. /\ db' = db /\ disk' = db /\ poll' = "idle" /\ stage = "up"
        /\ UNCHANGED <<made, stage, log, there, torn>>
    BY <1>6 DEF CommitTx, fileVars, ghostVars
  <2>2. made > 0 /\ log' \in Seq(Payments)
    BY <2>1 DEF BookingsInv, Bookable
  <2> QED
    BY <2>1, <2>2, BookingsSettled
<1>7. CASE RollbackTx
  <2>1. /\ db' = disk /\ disk' = disk /\ poll' = "idle" /\ stage = "up"
        /\ UNCHANGED <<made, stage, log, there, torn>>
    BY <1>7 DEF RollbackTx, fileVars
  <2>2. made > 0 /\ log' \in Seq(Payments)
    BY <2>1 DEF BookingsInv, Bookable
  <2> QED
    BY <2>1, <2>2, BookingsSettled
<1>8. CASE \E amount \in Payments : Execute(amount)
  BY <1>8, BookingsBooked
<1>9. CASE FriendBooks
  BY <1>9, BookingsThere
<1>10. \/ Rewrites \/ Restores \/ Create \/ CreateFails \/ Start
       \/ BeginTx \/ CommitTx \/ RollbackTx \/ FriendBooks
       \/ \E amount \in Payments : Execute(amount)
  BY UserSteps, OtherSteps DEF Next
<1> QED
  BY <1>1, <1>2, <1>3, <1>4, <1>5, <1>6, <1>7, <1>8, <1>9, <1>10

LEMMA BookingsInit ==
    ASSUME Init PROVE BookingsInv
<1>1. Content(Empty) /\ Empty.booked = <<>>
  <2>1. Empty.peers = NoRow /\ Empty.booked = <<>>
    BY DEF Empty
  <2>2. <<>> \in Seq(Payments)
    OBVIOUS
  <2> QED
    BY <2>1, <2>2 DEF Content, Empty
<1>2. LoadPeer(Empty).balance = Zero
  BY RowFacts DEF Empty, LoadPeer, PeerExists
<1>3. there.balance = Zero /\ there.count = 0 /\ db = Empty /\ disk = Empty
  BY DEF Init
<1>4. Bookable
  BY <1>1, <1>3 DEF Init, Bookable
<1>5. Covers
  <2>1. <<>> \in Seq(Payments)
    OBVIOUS
  <2>2. Logged(<<>>, <<>>)
    BY <2>1, LoggedFacts DEF Logged
  <2> QED
    BY <1>1, <1>3, <2>2 DEF Init, Covers
<1>6. Alike(db, disk, there.balance, there.count)
  <2>1. PICK h : h = [k \in Nat |-> Zero]
    OBVIOUS
  <2>2. h \in [Nat -> ZR_Numbers] /\ h[0] = Zero
    BY <2>1, ZeroFacts
  <2>3. Len(Empty.booked) = 0
    BY <1>1
  <2>4. Chain(h, Empty, Empty, Zero, 0)
    BY <1>2, <2>2, <2>3, ZeroFacts DEF Chain
  <2> QED
    BY <1>3, <2>4 DEF Alike
<1> QED
  BY <1>4, <1>5, <1>6 DEF BookingsInv

\* Bookings are made and undone as BookingsInv says, in every state.
THEOREM BookingsInvariant == Spec => []BookingsInv
BY BookingsInit, BookingsStep, PTL DEF Spec

\* LogCoversBookings: the log, which no rollback reaches, has every payment as
\* often as it was booked.
THEOREM LogHasEveryBooking == Spec => []LogCoversBookings
<1>1. BookingsInv => LogCoversBookings
  BY DEF BookingsInv, Covers, Logged, LogCoversBookings
<1> QED
  BY <1>1, BookingsInvariant, PTL

\* FriendsRoundAlike: whatever the amounts, six digits and the way in which SQLite
\* prints and fromDecimalString reads them cost both friends the same.
THEOREM FriendsLoseTheSame == Spec => []FriendsRoundAlike
<1>1. ASSUME BookingsInv PROVE FriendsRoundAlike
  <2>1. PICK h : Chain(h, db, disk, there.balance, there.count)
    BY <1>1 DEF BookingsInv, Alike
  <2> QED
    BY <2>1 DEF Chain, FriendsRoundAlike
<1> QED
  BY <1>1, BookingsInvariant, PTL

-----------------------------------------------------------------------------
(* Orders and their rows.                                                  *)

\* Whatever the word, a currency has a number of the network.
LEMMA LookupFacts ==
    ASSUME NEW network \in Builds, NEW word,
           NEW table \in {CurrencyNames[network], CurrencySymbols[network]}
    PROVE  Lookup(network, table, word) \in Numbers(network)
<1>1. PICK n \in Nat : n = Len(CurrencySymbols[network])
  BY TablesAssumption
<1>2. DOMAIN table \subseteq 1..n /\ Invalid[network] = 1 + n
  <2>1. PICK k \in Nat : k = Len(CurrencyNames[network])
    BY TablesAssumption
  <2>2. k <= n
    BY <1>1, <2>1, TablesAssumption
  <2>3. DOMAIN CurrencyNames[network] = 1..k /\ DOMAIN CurrencySymbols[network] = 1..n
    BY <1>1, <2>1, TablesAssumption
  <2>4. 1..k \subseteq 1..n
    BY <2>2
  <2>5. CASE table = CurrencyNames[network]
    BY <1>1, <2>3, <2>4, <2>5 DEF Invalid
  <2>6. CASE table = CurrencySymbols[network]
    BY <1>1, <2>3, <2>6 DEF Invalid
  <2> QED
    BY <2>5, <2>6
<1>3. PICK places : places = {i \in DOMAIN table : table[i] = word}
  OBVIOUS
<1>4. places \subseteq 1..n
  BY <1>2, <1>3
<1>5. ASSUME places # {} PROVE Min(places) \in places
  <2>1. places \subseteq Nat
    BY <1>4
  <2>2. PICK i \in places : \A j \in places : ~(j < i)
    BY <1>5, <2>1, SmallestNat
  <2>3. \A j \in places : i <= j
    BY <2>1, <2>2
  <2>4. \E x \in places : \A y \in places : x <= y
    BY <2>3
  <2> QED
    BY <2>4 DEF Min
<1>6. Lookup(network, table, word) = IF places = {} THEN Invalid[network] ELSE Min(places)
  BY <1>3 DEF Lookup
<1>7. Numbers(network) = 1..(n + 1)
  BY <1>1, <1>2 DEF Numbers
<1>8. CASE places = {}
  BY <1>1, <1>2, <1>6, <1>7, <1>8
<1>9. CASE places # {}
  <2>1. PICK m : m = Min(places)
    OBVIOUS
  <2>2. m \in places
    BY <1>5, <1>9, <2>1
  <2>3. m \in 1..n
    BY <1>4, <2>2
  <2>4. m \in 1..(n + 1)
    BY <2>3
  <2> QED
    BY <1>6, <1>7, <1>9, <2>1, <2>4
<1> QED
  BY <1>8, <1>9

OrderOK(network, o) ==
    /\ o = [id |-> o.id, orderType |-> o.orderType, amount |-> o.amount,
            price |-> o.price, currency |-> o.currency, timeStamp |-> o.timeStamp,
            purpose |-> o.purpose]
    /\ o.amount \in ZR_Numbers /\ o.price \in ZR_Numbers
    /\ o.currency \in Numbers(network)
RowOK(r) ==
    /\ r = [orderType |-> r.orderType, amount |-> r.amount, price |-> r.price,
            currency |-> r.currency, timeStamp |-> r.timeStamp, purpose |-> r.purpose]
    /\ r.amount \in ZR_Numbers /\ r.price \in ZR_Numbers
TableOK(c, ids) ==
    /\ DOMAIN c.orders \subseteq ids
    /\ \A i \in DOMAIN c.orders : RowOK(c.orders[i])

LEMMA OrderRowFacts ==
    ASSUME NEW network \in Builds, NEW o, OrderOK(network, o)
    PROVE  RowOK(OrderRow(network, o))
<1>1. PICK r : r = OrderRow(network, o)
  OBVIOUS
<1>2. /\ r = [orderType |-> o.orderType, amount |-> Stored(o.amount),
              price |-> Stored(o.price), currency |-> SymbolOf(network, o.currency),
              timeStamp |-> o.timeStamp, purpose |-> o.purpose]
      /\ Stored(o.amount) \in ZR_Numbers /\ Stored(o.price) \in ZR_Numbers
  BY <1>1, StoredFacts DEF OrderRow, OrderOK
<1> QED
  BY <1>1, <1>2 DEF RowOK

LEMMA LoadedOrderFacts ==
    ASSUME NEW network \in Builds, NEW id, NEW r, RowOK(r)
    PROVE  OrderOK(network, LoadedOrder(network, id, r))
<1>1. PICK o, n : o = LoadedOrder(network, id, r) /\ n = BySymbol(network, r.currency)
  OBVIOUS
<1>2. n \in Numbers(network)
  BY <1>1, LookupFacts DEF BySymbol
<1>3. o = [id |-> id, orderType |-> r.orderType, amount |-> r.amount,
           price |-> r.price, currency |-> n, timeStamp |-> r.timeStamp,
           purpose |-> r.purpose]
  BY <1>1 DEF LoadedOrder
<1> QED
  BY <1>1, <1>2, <1>3 DEF OrderOK, RowOK

LEMMA NewOrderFacts ==
    ASSUME build \in Builds, NEW id \in DOMAIN Entries
    PROVE  OrderOK(build, NewOrder(id)) /\ NewOrder(id).id = id
<1>1. PICK e, o : e = Entries[id] /\ o = NewOrder(id)
  OBVIOUS
<1>2. PICK a, p, n : /\ a = FromDecimalString(e.amount) /\ p = FromDecimalString(e.price)
                     /\ n = ByName(build, e.currency[build])
  OBVIOUS
<1>3. a \in ZR_Numbers /\ p \in ZR_Numbers
  BY <1>1, <1>2, FromDecimalFacts, AmountsAssumption
<1>4. n \in Numbers(build)
  BY <1>2, LookupFacts DEF ByName
<1>5. o = [id |-> id, orderType |-> e.orderType, amount |-> a, price |-> p,
           currency |-> n, timeStamp |-> e.timeStamp, purpose |-> "NEW"]
  BY <1>1, <1>2 DEF NewOrder
<1> QED
  BY <1>1, <1>3, <1>4, <1>5 DEF OrderOK

\* What is sold leaves a number, and may leave another purpose.
LEMMA SoldOrderFacts ==
    ASSUME NEW network, NEW o, OrderOK(network, o), NEW part \in Parts, NEW purpose
    PROVE  /\ OrderOK(network, [o EXCEPT !.purpose = purpose,
                                         !.amount = Plus(@, Minus(part))])
           /\ OrderOK(network, [o EXCEPT !.purpose = purpose])
           /\ [o EXCEPT !.purpose = purpose, !.amount = Plus(@, Minus(part))].id = o.id
<1>1. PICK s, a : s = [o EXCEPT !.purpose = purpose] /\ a = Plus(o.amount, Minus(part))
  OBVIOUS
<1>2. a \in ZR_Numbers
  <2>1. part \in ZR_Numbers /\ o.amount \in ZR_Numbers
    BY AmountsAssumption DEF OrderOK
  <2> QED
    BY <1>1, <2>1, MinusFacts, PlusFacts
<1>3. s = [id |-> o.id, orderType |-> o.orderType, amount |-> o.amount,
           price |-> o.price, currency |-> o.currency, timeStamp |-> o.timeStamp,
           purpose |-> purpose]
  BY <1>1 DEF OrderOK
<1>4. OrderOK(network, s)
  BY <1>3 DEF OrderOK
<1>5. PICK t : t = [o EXCEPT !.purpose = purpose, !.amount = Plus(@, Minus(part))]
  OBVIOUS
<1>6. t = [s EXCEPT !.amount = a]
  BY <1>1, <1>3, <1>5 DEF OrderOK
<1>7. t = [id |-> o.id, orderType |-> o.orderType, amount |-> a,
           price |-> o.price, currency |-> o.currency, timeStamp |-> o.timeStamp,
           purpose |-> purpose]
  BY <1>3, <1>6
<1>8. OrderOK(network, t) /\ t.id = o.id
  BY <1>2, <1>7 DEF OrderOK
<1> QED
  BY <1>1, <1>4, <1>5, <1>8

LEMMA TableFacts ==
    ASSUME NEW network \in Builds, NEW ids, NEW c, Content(c), TableOK(c, ids),
           NEW o, OrderOK(network, o), NEW id
    PROVE  /\ TableOK(AddOrder(network, c, o), ids \cup {o.id})
           /\ TableOK(UpdateOrder(c, o), ids)
           /\ TableOK(DeleteOrder(c, id), ids)
<1>1. ASSUME NEW x PROVE [c EXCEPT !.orders = x].orders = x
  BY DEF Content
<1>2. PICK t : t = c.orders
  OBVIOUS
<1>3. DOMAIN t \subseteq ids /\ \A i \in DOMAIN t : RowOK(t[i])
  BY <1>2 DEF TableOK
<1>4. TableOK(AddOrder(network, c, o), ids \cup {o.id})
  <2>1. PICK r : r = OrderRow(network, o)
    OBVIOUS
  <2>2. RowOK(r)
    BY <2>1, OrderRowFacts
  <2>3. PICK x : x = With(t, o.id, r)
    OBVIOUS
  <2>4. /\ DOMAIN x = {o.id} \cup DOMAIN t
        /\ \A i \in DOMAIN x : x[i] = IF i = o.id THEN r ELSE t[i]
    BY <2>3 DEF With
  <2>5. AddOrder(network, c, o).orders = x
    BY <1>1, <1>2, <2>1, <2>3 DEF AddOrder
  <2> QED
    BY <1>3, <2>2, <2>4, <2>5 DEF TableOK
<1>5. TableOK(DeleteOrder(c, id), ids)
  <2>1. PICK x : x = [i \in DOMAIN t \ {id} |-> t[i]]
    OBVIOUS
  <2>2. DeleteOrder(c, id).orders = x
    BY <1>1, <1>2, <2>1 DEF DeleteOrder
  <2> QED
    BY <1>3, <2>1, <2>2 DEF TableOK
<1>6. TableOK(UpdateOrder(c, o), ids)
  <2>1. CASE o.id \notin DOMAIN t
    BY <1>2, <2>1 DEF UpdateOrder
  <2>2. CASE o.id \in DOMAIN t
    <3>1. PICK r, a, s : r = t[o.id] /\ a = StoredFraction(o.amount)
                         /\ s = [r EXCEPT !.amount = a]
      OBVIOUS
    <3>2. RowOK(r) /\ a \in ZR_Numbers
      BY <1>3, <2>2, <3>1, StoredFractionFacts DEF OrderOK
    <3>3. s = [orderType |-> r.orderType, amount |-> a, price |-> r.price,
               currency |-> r.currency, timeStamp |-> r.timeStamp, purpose |-> r.purpose]
      BY <3>1, <3>2 DEF RowOK
    <3>4. RowOK(s)
      BY <3>2, <3>3 DEF RowOK
    <3>5. PICK x : x = [t EXCEPT ![o.id] = s]
      OBVIOUS
    <3>6. DOMAIN x = DOMAIN t /\ \A i \in DOMAIN x : x[i] = IF i = o.id THEN s ELSE t[i]
      BY <3>5
    <3>7. x = [t EXCEPT ![o.id].amount = a]
      BY <3>1, <3>5
    <3>8. UpdateOrder(c, o) = [c EXCEPT !.orders = x]
      BY <1>2, <2>2, <3>1, <3>7 DEF UpdateOrder
    <3>9. UpdateOrder(c, o).orders = x
      BY <1>1, <3>8
    <3> QED
      BY <1>3, <3>4, <3>6, <3>9 DEF TableOK
  <2> QED
    BY <2>1, <2>2
<1> QED
  BY <1>4, <1>5, <1>6

-----------------------------------------------------------------------------
(* Types.                                                                  *)

LEMMA PopulationFacts == Len(Population) \in Nat \ {0}
BY DEF Population

Progress ==
    /\ build \in Builds
    /\ made \in 0..Len(Population)
    /\ stage \in {"off", "creating", "up", "hung"}
    /\ poll \in {"idle", "begun", "booked"}
Tables == TableOK(db, entered) /\ TableOK(disk, entered)
Orders ==
    /\ DOMAIN orders \cup astray \cup unlisted \subseteq entered
    /\ \A id \in DOMAIN orders : OrderOK(build, orders[id])
TypeInv == BookingsInv /\ Progress /\ Tables /\ Orders

LEMMA TypedOrders ==
    ASSUME TypeInv
    PROVE  /\ Content(db) /\ Content(disk) /\ build \in Builds
           /\ \A id \in Mine \cup Listed : id \in DOMAIN orders
           /\ \A id : DOMAIN Without(id) \subseteq DOMAIN orders
           /\ \A id : \A i \in DOMAIN Without(id) : Without(id)[i] = orders[i]
BY DEF TypeInv, BookingsInv, Bookable, Progress, Mine, Listed, Without

\* The network is the same, and stages come as they must.
LEMMA ProgressStep ==
    ASSUME TypeInv, [Next]_vars PROVE Progress'
<1>1. Progress
  BY DEF TypeInv
<1>2. ASSUME NEW id \in DOMAIN Entries,
             \/ DoOrder(id) \/ CancelOrder(id) \/ CancelFails(id) \/ SellRest(id)
             \/ BuyRest(id) \/ TimeoutOrder(id) \/ \E part \in Parts : SellPart(id, part)
      PROVE  Progress'
  <2>1. build' = build /\ made' = made /\ stage' \in {stage, "off"} /\ poll' \in {poll, "idle"}
    BY <1>2 DEF DoOrder, CancelOrder, CancelFails, SellRest, BuyRest, TimeoutOrder,
                SellPart, Ends, fileVars
  <2> QED
    BY <1>1, <2>1 DEF Progress
<1>3. ASSUME \/ \E text \in Texts : EditFriend(text) \/ PayTo(text)
             \/ StatusChange \/ SendOrderBook \/ HandleCredit
             \/ \E item \in Conversation : SendTxItem(item)
             \/ FriendBooks
             \/ UNCHANGED vars
      PROVE  Progress'
  <2>1. build' = build /\ made' = made /\ stage' = stage /\ poll' = poll
    <3>1. CASE \E text \in Texts : EditFriend(text) \/ PayTo(text)
      BY <3>1 DEF EditFriend, PayTo, fileVars
    <3>2. CASE StatusChange \/ SendOrderBook
      BY <3>2 DEF StatusChange, SendOrderBook, fileVars
    <3>3. CASE HandleCredit \/ FriendBooks
      BY <3>3 DEF HandleCredit, FriendBooks, fileVars
    <3>4. CASE \E item \in Conversation : SendTxItem(item)
      BY <3>4 DEF SendTxItem, fileVars
    <3>5. CASE UNCHANGED vars
      BY <3>5 DEF vars
    <3> QED
      BY <1>3, <3>1, <3>2, <3>3, <3>4, <3>5
  <2> QED
    BY <1>1, <2>1 DEF Progress
<1>4. ASSUME Create \/ CreateFails PROVE Progress'
  <2>1. PICK n \in Nat \ {0} : n = Len(Population)
    BY PopulationFacts
  <2>2. made \in 0..n
    BY <1>1, <2>1 DEF Progress
  <2>3. made' \in 0..n
    BY <1>4, <2>1, <2>2 DEF Create, CreateFails
  <2>4. build' = build /\ stage' \in {"creating", "hung"} /\ poll' = poll
    BY <1>4 DEF Create, CreateFails
  <2> QED
    BY <1>1, <2>1, <2>3, <2>4 DEF Progress
<1>5. ASSUME Start \/ Die PROVE Progress'
  BY <1>1, <1>5 DEF Progress, Start, Die, Ends
<1>6. ASSUME BeginTx \/ CommitTx \/ RollbackTx PROVE Progress'
  BY <1>1, <1>6 DEF Progress, BeginTx, CommitTx, RollbackTx, fileVars
<1>7. ASSUME NEW amount \in Payments, Execute(amount) PROVE Progress'
  BY <1>1, <1>7 DEF Progress, Execute, fileVars
<1> QED
  BY <1>2, <1>3, <1>4, <1>5, <1>6, <1>7 DEF Next

\* A statement leaves tables of orders, in the connection and in the file.
LEMMA TablesWritten ==
    ASSUME Tables, NEW ids, entered \subseteq ids, NEW e, TableOK(e, ids),
           Write(e) \/ WriteFails
    PROVE  TableOK(db', ids) /\ TableOK(disk', ids)
BY DEF Tables, TableOK, Write, WriteFails, Hold

LEMMA TablesWithLine ==
    ASSUME Tables, Content(db), NEW e, e.orders = db.orders, WriteLine(e)
    PROVE  TableOK(db', entered) /\ TableOK(disk', entered)
<1>1. PICK c \in {e, db, Made(db)} : Write(c)
  BY DEF WriteLine
<1>2. c.orders = db.orders
  BY MadeKeeps
<1>3. TableOK(c, entered)
  BY <1>2 DEF Tables, TableOK
<1> QED
  BY <1>1, <1>3, TablesWritten

\* What the user and the seller do to orders.
LEMMA OrdersMade ==
    ASSUME TypeInv, NEW id \in DOMAIN Entries, DoOrder(id)
    PROVE  Tables' /\ Orders'
<1>1. PICK o : o = NewOrder(id)
  OBVIOUS
<1>2. OrderOK(build, o) /\ o.id = id /\ Content(db) /\ build \in Builds
  BY <1>1, NewOrderFacts, TypedOrders
<1>3. /\ \/ Write(AddOrder(build, db, o)) /\ orders' = With(orders, id, o)
         \/ WriteFails /\ orders' = orders
      /\ entered' = entered \cup {id} /\ UNCHANGED <<astray, unlisted, build>>
  BY <1>1 DEF DoOrder, fileVars
<1>4. Tables /\ Orders
  BY DEF TypeInv
<1>5. TableOK(db, entered \cup {id}) /\ TableOK(AddOrder(build, db, o), entered \cup {id})
  <2>1. TableOK(db, entered)
    BY <1>4 DEF Tables
  <2>2. TableOK(AddOrder(build, db, o), entered \cup {o.id})
    BY <1>2, <2>1, TableFacts
  <2> QED
    BY <1>2, <2>1, <2>2 DEF TableOK
<1>6. TableOK(db', entered \cup {id}) /\ TableOK(disk', entered \cup {id})
  BY <1>3, <1>4, <1>5, TablesWritten
<1>7. Tables'
  BY <1>3, <1>6 DEF Tables
<1>8. Orders'
  <2>1. CASE orders' = orders
    BY <1>3, <1>4, <2>1 DEF Orders
  <2>2. CASE orders' = With(orders, id, o)
    <3>1. /\ DOMAIN orders' = DOMAIN orders \cup {id}
          /\ \A i \in DOMAIN orders' : orders'[i] = IF i = id THEN o ELSE orders[i]
      BY <2>2 DEF With
    <3> QED
      BY <1>2, <1>3, <1>4, <3>1 DEF Orders
  <2> QED
    BY <1>3, <2>1, <2>2
<1> QED
  BY <1>7, <1>8

LEMMA OrdersRestored ==
    ASSUME TypeInv, Ends PROVE Tables' /\ Orders'
<1>1. /\ db' = disk /\ disk' = disk /\ entered' = entered
      /\ DOMAIN orders' = {} /\ astray' = {} /\ unlisted' = {}
  BY DEF Ends
<1> QED
  BY <1>1 DEF TypeInv, Tables, Orders

LEMMA OrdersChanged ==
    ASSUME TypeInv, NEW id \in DOMAIN Entries,
           \/ CancelOrder(id) \/ CancelFails(id) \/ SellRest(id)
           \/ BuyRest(id) \/ TimeoutOrder(id) \/ \E part \in Parts : SellPart(id, part)
    PROVE  Tables' /\ Orders'
<1>1. Tables /\ Orders /\ Content(db) /\ build \in Builds
  BY TypedOrders DEF TypeInv
<1>2. TableOK(db, entered) /\ TableOK(disk, entered)
  BY <1>1 DEF Tables
<1>3. ASSUME NEW e, TableOK(e, entered), Write(e) \/ WriteFails
      PROVE  TableOK(db', entered) /\ TableOK(disk', entered)
  BY <1>1, <1>3, TablesWritten
<1>4. CASE Ends
  BY <1>4, OrdersRestored
<1>5. ASSUME id \in DOMAIN orders PROVE TableOK(DeleteOrder(db, id), entered)
  <2>1. PICK o : OrderOK(build, o)
    BY <1>1, <1>5 DEF Orders
  <2> QED
    BY <1>1, <1>2, <2>1, TableFacts
<1>6. ASSUME id \in DOMAIN orders, Write(DeleteOrder(db, id)),
             orders' = Without(id), UNCHANGED <<build, entered, astray, unlisted>>
      PROVE  Tables' /\ Orders'
  <2>1. Tables'
    BY <1>3, <1>5, <1>6 DEF Tables
  <2>2. Orders'
    BY <1>1, <1>6, TypedOrders DEF Orders
  <2> QED
    BY <2>1, <2>2
<1>7. ASSUME id \in DOMAIN orders, NEW o, OrderOK(build, o),
             orders' = [orders EXCEPT ![id] = o],
             UNCHANGED <<build, entered>>,
             astray' \cup unlisted' \subseteq astray \cup unlisted \cup {id}
      PROVE  Orders'
  <2>1. /\ DOMAIN orders' = DOMAIN orders
        /\ \A i \in DOMAIN orders' : orders'[i] = IF i = id THEN o ELSE orders[i]
    BY <1>7
  <2> QED
    BY <1>1, <1>7, <2>1 DEF Orders
<1>8. CASE CancelOrder(id)
  BY <1>6, <1>8, TypedOrders DEF CancelOrder, fileVars, ghostVars
<1>9. CASE CancelFails(id)
  BY <1>4, <1>9 DEF CancelFails
<1>10. CASE TimeoutOrder(id)
  BY <1>4, <1>6, <1>10, TypedOrders DEF TimeoutOrder, fileVars, ghostVars
<1>11. ASSUME SellRest(id) \/ BuyRest(id) PROVE Tables' /\ Orders'
  <2>1. id \in DOMAIN orders /\ UNCHANGED <<build, entered>>
    BY <1>11, TypedOrders DEF SellRest, BuyRest, fileVars
  <2>2. CASE Removed(id)
    BY <1>6, <2>1, <2>2 DEF Removed
  <2>3. CASE /\ NotRemoved(id)
             /\ orders' \in {orders, Without(id), [orders EXCEPT ![id] = Filled(id)]}
             /\ unlisted' \subseteq unlisted \cup {id}
    <3>1. /\ WriteFails /\ id \in entered
          /\ astray' \cup unlisted' \subseteq astray \cup unlisted \cup {id}
      BY <1>1, <2>1, <2>3 DEF NotRemoved, Orders
    <3>2. Tables'
      BY <1>2, <1>3, <2>1, <3>1 DEF Tables
    <3>3. CASE orders' = [orders EXCEPT ![id] = Filled(id)]
      <4>1. OrderOK(build, Filled(id))
        <5>1. PICK q : q = orders[id] /\ OrderOK(build, q)
          BY <1>1, <2>1 DEF Orders
        <5>2. Filled(id) = [q EXCEPT !.purpose = "FILLED"]
          BY <5>1 DEF Filled
        <5>3. Filled(id) = [id |-> q.id, orderType |-> q.orderType, amount |-> q.amount,
                            price |-> q.price, currency |-> q.currency,
                            timeStamp |-> q.timeStamp, purpose |-> "FILLED"]
          BY <5>1, <5>2 DEF OrderOK
        <5> QED
          BY <5>1, <5>3 DEF OrderOK
      <4> QED
        BY <1>7, <2>1, <3>1, <3>2, <3>3, <4>1
    <3>4. CASE orders' \in {orders, Without(id)}
      BY <1>1, <2>1, <3>1, <3>2, <3>4, TypedOrders DEF Orders
    <3> QED
      BY <2>3, <3>3, <3>4
  <2>4. CASE SellRest(id)
    BY <2>2, <2>3, <2>4 DEF SellRest
  <2>5. CASE BuyRest(id)
    BY <2>2, <2>3, <2>5 DEF BuyRest
  <2> QED
    BY <1>11, <2>4, <2>5
<1>12. ASSUME NEW part \in Parts, SellPart(id, part) PROVE Tables' /\ Orders'
  <2> DEFINE o == [orders[id] EXCEPT !.purpose = "PARTLY_FILLED",
                                     !.amount = Plus(@, Minus(part))]
  <2>1. /\ id \in DOMAIN orders /\ UNCHANGED <<build, entered>>
        /\ orders' = [orders EXCEPT ![id] = o]
        /\ Write(UpdateOrder(db, o)) \/ WriteFails
        /\ astray' \cup unlisted' \subseteq astray \cup unlisted \cup {id}
    BY <1>12, TypedOrders DEF SellPart, fileVars
  <2>2. OrderOK(build, orders[id])
    BY <1>1, <2>1 DEF Orders
  <2>3. OrderOK(build, o)
    BY <2>2, SoldOrderFacts
  <2> HIDE DEF o
  <2>4. TableOK(UpdateOrder(db, o), entered)
    BY <1>1, <1>2, <2>3, TableFacts
  <2>5. Tables'
    BY <1>3, <2>1, <2>4, <1>2 DEF Tables
  <2>6. Orders'
    BY <1>7, <2>1, <2>3
  <2> QED
    BY <2>5, <2>6
<1> QED
  BY <1>8, <1>9, <1>10, <1>11, <1>12

LEMMA OrdersStep ==
    ASSUME TypeInv, [Next]_vars PROVE Tables' /\ Orders'
<1>1. Tables /\ Orders /\ Content(db) /\ Content(disk) /\ build \in Builds
  BY TypedOrders DEF TypeInv
<1>2. ASSUME UNCHANGED <<build, orders, entered, astray, unlisted>>,
             TableOK(db', entered) /\ TableOK(disk', entered)
      PROVE  Tables' /\ Orders'
  BY <1>1, <1>2 DEF Tables, Orders
<1>3. ASSUME UNCHANGED <<build, orders, entered, astray, unlisted, db, disk>>
      PROVE  Tables' /\ Orders'
  BY <1>1, <1>2, <1>3 DEF Tables
<1>4. ASSUME NEW text \in Texts, EditFriend(text) PROVE Tables' /\ Orders'
  <2>1. PICK line \in ZR_Numbers : line = FromDecimalString(text)
    BY FromDecimalFacts, AmountsAssumption
  <2>2. WriteLine(UpdateCredit(db, line)) /\ UNCHANGED <<build, orders, entered, astray, unlisted>>
    BY <1>4, <2>1 DEF EditFriend, fileVars, ghostVars
  <2>3. UpdateCredit(db, line).orders = db.orders
    BY <1>1, UpdateCreditKeeps
  <2> QED
    BY <1>1, <1>2, <2>2, <2>3, TablesWithLine
<1>5. CASE HandleCredit
  <2>1. FriendsLine \in ZR_Numbers
    BY AmountsAssumption
  <2>2. /\ WriteLine(UpdateOurCredit(db, FriendsLine))
        /\ UNCHANGED <<build, orders, entered, astray, unlisted>>
    BY <1>5 DEF HandleCredit, fileVars, ghostVars
  <2>3. UpdateOurCredit(db, FriendsLine).orders = db.orders
    BY <1>1, <2>1, UpdateCreditKeeps
  <2> QED
    BY <1>1, <1>2, <2>2, <2>3, TablesWithLine
<1>6. ASSUME NEW amount \in Payments, Execute(amount) PROVE Tables' /\ Orders'
  <2>1. /\ db' = Book(db, amount) /\ disk' = disk
        /\ UNCHANGED <<build, orders, entered, astray, unlisted>>
    BY <1>6 DEF Execute, Hold, fileVars
  <2>2. PeerExists(db)
    BY <1>6 DEF Execute, TypeInv, BookingsInv, Bookable
  <2>3. db'.orders = db.orders
    BY <1>1, <2>1, <2>2, BookFacts
  <2>4. TableOK(db', entered) /\ TableOK(disk', entered)
    BY <1>1, <2>1, <2>3 DEF Tables, TableOK
  <2> QED
    BY <1>2, <2>1, <2>4
<1>7. CASE CommitTx
  BY <1>1, <1>7 DEF CommitTx, Tables, Orders, fileVars, ghostVars
<1>8. CASE RollbackTx
  <2>1. /\ db' = disk /\ disk' = disk /\ astray' = astray \cup Pending
        /\ UNCHANGED <<build, orders, entered, unlisted>>
    BY <1>8 DEF RollbackTx, fileVars
  <2>2. Pending \subseteq entered
    BY DEF Pending
  <2> QED
    BY <1>1, <2>1, <2>2 DEF Tables, Orders
<1>9. CASE Start
  <2>1. /\ db' = disk /\ disk' = disk /\ UNCHANGED <<build, entered, astray, unlisted>>
        /\ orders' \in {LoadOrders(build, disk), orders}
    BY <1>9 DEF Start, ghostVars
  <2>2. /\ DOMAIN LoadOrders(build, disk) \subseteq entered
        /\ \A id \in DOMAIN LoadOrders(build, disk) :
              OrderOK(build, LoadOrders(build, disk)[id])
    BY <1>1, LoadedOrderFacts DEF Tables, TableOK, LoadOrders
  <2>3. Tables'
    BY <1>1, <2>1 DEF Tables
  <2>4. Orders'
    BY <1>1, <2>1, <2>2 DEF Orders
  <2> QED
    BY <2>3, <2>4
<1>10. CASE Die
  BY <1>10, OrdersRestored DEF Die
<1>11. CASE UNCHANGED <<build, orders, entered, astray, unlisted, db, disk>>
  BY <1>3, <1>11
<1>12. \/ Create \/ CreateFails \/ StatusChange \/ SendOrderBook \/ BeginTx \/ FriendBooks
       \/ (\E text \in Texts : PayTo(text)) \/ (\E item \in Conversation : SendTxItem(item))
       \/ UNCHANGED vars
       => UNCHANGED <<build, orders, entered, astray, unlisted, db, disk>>
  <2>1. Create \/ CreateFails => UNCHANGED <<build, orders, entered, astray, unlisted, db, disk>>
    BY DEF Create, CreateFails, ghostVars
  <2>2. StatusChange \/ SendOrderBook
           => UNCHANGED <<build, orders, entered, astray, unlisted, db, disk>>
    BY DEF StatusChange, SendOrderBook, ghostVars, fileVars
  <2>3. BeginTx \/ FriendBooks => UNCHANGED <<build, orders, entered, astray, unlisted, db, disk>>
    BY DEF BeginTx, FriendBooks, ghostVars, fileVars
  <2>4. ASSUME NEW text \in Texts, PayTo(text)
        PROVE  UNCHANGED <<build, orders, entered, astray, unlisted, db, disk>>
    BY <2>4 DEF PayTo, ghostVars, fileVars
  <2>5. ASSUME NEW item \in Conversation, SendTxItem(item)
        PROVE  UNCHANGED <<build, orders, entered, astray, unlisted, db, disk>>
    BY <2>5 DEF SendTxItem, ghostVars, fileVars
  <2>6. UNCHANGED vars => UNCHANGED <<build, orders, entered, astray, unlisted, db, disk>>
    BY DEF vars
  <2> QED
    BY <2>1, <2>2, <2>3, <2>4, <2>5, <2>6
<1> QED
  BY <1>4, <1>5, <1>6, <1>7, <1>8, <1>9, <1>10, <1>11, <1>12, OrdersMade, OrdersChanged
     DEF Next

LEMMA TypeInit ==
    ASSUME Init PROVE TypeInv
<1>1. BookingsInv
  BY BookingsInit
<1>2. Progress
  <2>1. PICK n \in Nat : n = Len(Population)
    BY PopulationFacts
  <2> QED
    BY <2>1 DEF Init, Progress
<1>3. Tables /\ Orders
  <2>1. DOMAIN Empty.orders = {}
    BY DEF Empty
  <2> QED
    BY <2>1 DEF Init, Tables, TableOK, Orders
<1> QED
  BY <1>1, <1>2, <1>3 DEF TypeInv

\* What TypeOK says, and what it takes to stay so.
THEOREM TypeInvariant == Spec => []TypeInv
<1>1. ASSUME TypeInv, [Next]_vars PROVE TypeInv'
  <2>1. BookingsInv'
    BY <1>1, BookingsStep DEF TypeInv
  <2> QED
    BY <1>1, <2>1, ProgressStep, OrdersStep DEF TypeInv
<1> QED
  BY <1>1, TypeInit, PTL DEF Spec

\* TypeOK: amounts and prices are numbers after all the texts they were, and an
\* order has a currency of the network.
THEOREM TypeCorrect == Spec => []TypeOK
<1>1. ASSUME TypeInv PROVE TypeOK
  <2>1. /\ made \in 0..Len(Population)
        /\ stage \in {"off", "creating", "up", "hung"}
        /\ poll \in {"idle", "begun", "booked"}
        /\ poll = "idle" => db = disk
    BY <1>1 DEF TypeInv, Progress, BookingsInv, Bookable
  <2>2. DOMAIN orders \cup DOMAIN db.orders \cup astray \cup unlisted \subseteq entered
    BY <1>1 DEF TypeInv, Tables, TableOK, Orders
  <2>3. \A id \in DOMAIN orders :
           /\ orders[id].amount \in ZR_Numbers /\ orders[id].price \in ZR_Numbers
           /\ orders[id].currency \in Numbers(build)
    BY <1>1 DEF TypeInv, Orders, OrderOK
  <2>4. LoadPeer(db).balance \in ZR_Numbers /\ LoadPeer(db).credit \in ZR_Numbers
    BY <1>1, LoadPeerFacts, RowFacts DEF TypeInv, BookingsInv, Bookable
  <2>5. there.balance \in ZR_Numbers
    <3>1. PICK h : Chain(h, db, disk, there.balance, there.count)
      BY <1>1 DEF TypeInv, BookingsInv, Alike
    <3>2. there.count \in Nat
      BY <1>1, <3>1 DEF Chain, TypeInv, BookingsInv, Bookable, Content
    <3> QED
      BY <3>1, <3>2, MinusFacts DEF Chain
  <2> QED
    BY <2>1, <2>2, <2>3, <2>4, <2>5 DEF TypeOK
<1> QED
  BY <1>1, TypeInvariant, PTL
=============================================================================
