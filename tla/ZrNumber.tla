------------------------------ MODULE ZrNumber ------------------------------
(***************************************************************************)
(* Amounts (class ZR_Number): rationals in lowest terms, and what becomes  *)
(* of them on the wire, where they are fractions, and in the database,     *)
(* where they are decimals of six digits that SQLite reads, keeps as a     *)
(* number and prints again.  A decimal text is what fromDecimalString      *)
(* takes from it: its sign, the numbers that strtoll finds before and      *)
(* behind the point, and the characters behind the point.                  *)
(*                                                                         *)
(* Amounts are small enough for 64 bits and have no more than seven        *)
(* decimal places; no rounding meets a tie.                                *)
(***************************************************************************)
EXTENDS Integers, Sequences

\* The numbers, and what a decimal text may be.
ZR_Numbers == [n : Int, d : Nat \ {0}]
Decimals == [minus : BOOLEAN, int : Nat, frac : Nat, places : Nat]

Magnitude(i) == IF i < 0 THEN -i ELSE i

\* The greatest common divisor of two numbers.
Gcd[p \in Nat \X Nat] == IF p[2] = 0 THEN p[1] ELSE Gcd[<<p[2], p[1] % p[2]>>]

\* The rational n/d, d > 0, in lowest terms as boost::rational keeps it.
ZR_Number(n, d) ==
    LET g == Gcd[<<Magnitude(n), d>>] IN [n |-> n \div g, d |-> d \div g]
Zero == ZR_Number(0, 1)

Plus(a, b) ==
    LET g == Gcd[<<a.d, b.d>>]
    IN ZR_Number(a.n * (b.d \div g) + b.n * (a.d \div g), (a.d \div g) * b.d)
Minus(a) == [a EXCEPT !.n = -@]
Less(a, b) == Plus(a, Minus(b)).n < 0

-----------------------------------------------------------------------------
(* Fractions.                                                              *)

\* toStdString and fromFractionString, exact both ways.
ToStdString(a) == <<a.n, "/", a.d>>
FromFractionString(s) == ZR_Number(s[1], s[3])

NumberOfDigits[i \in Nat] == IF i < 10 THEN 1 ELSE 1 + NumberOfDigits[i \div 10]
\* ZR_Number::length()
TextLength(a) ==
    NumberOfDigits[Magnitude(a.n)] + 1 + NumberOfDigits[a.d] + (IF a.n < 0 THEN 1 ELSE 0)

-----------------------------------------------------------------------------
(* Decimals.                                                               *)

PowerOfTen[p \in Nat] == IF p = 0 THEN 1 ELSE 10 * PowerOfTen[p - 1]

Decimal(minus, int, frac, places) ==
    [minus |-> minus, int |-> int, frac |-> frac, places |-> places]

\* Every character behind the point counts as a digit, those of an exponent
\* too.  The fraction has no sign of its own and takes it from the text.
FromUnsignedDecimal(t) ==
    LET int == IF t.minus THEN -t.int ELSE t.int
    IN ZR_Number(int * PowerOfTen[t.places] + t.frac, PowerOfTen[t.places])
FromDecimalString(t) ==
    LET int == IF t.minus THEN -t.int ELSE t.int
        frac == IF t.minus THEN -t.frac ELSE t.frac
    IN ZR_Number(int * PowerOfTen[t.places] + frac, PowerOfTen[t.places])

\* The first p decimal places of n/d as a number; a step is <<n, d, p>>.
Expand[s \in Nat \X (Nat \ {0}) \X Nat] ==
    LET n == s[1]  d == s[2]  p == s[3]
    IN IF p = 0 THEN n \div d
       ELSE (IF n < d THEN 0 ELSE (n \div d) * PowerOfTen[p])
               + Expand[<<10 * (n % d), d, p - 1>>]
Rounded(n, d, p) == (Expand[<<n, d, p + 1>>] + 5) \div 10

\* The zeros behind the point before the first digit of n/d < 1.
LeadingZeros[q \in (Nat \ {0}) \X Nat] ==
    IF 10 * q[1] >= q[2] THEN 0 ELSE 1 + LeadingZeros[<<10 * q[1], q[2]>>]

\* p digits without the zeros at their end, but for one digit.
Stripped[s \in Nat \X Nat] ==
    IF s[2] > 1 /\ s[1] % 10 = 0 THEN Stripped[<<s[1] \div 10, s[2] - 1>>] ELSE s

\* Below 0.0001 a number is written with an exponent, "e-05", of four characters.
IsTiny(a) == a.n # 0 /\ Magnitude(a.n) <= (a.d - 1) \div 10000

\* What a number looks like that was written with so many significant digits
\* and went through SQLite: "1.5", "1234570", "1.0e-05".
Digits(a, significant) ==
    LET n == Magnitude(a.n)
        whole == n \div a.d
        size == NumberOfDigits[whole]
        unit == PowerOfTen[size - significant]
        places == IF whole > 0 THEN significant - size
                  ELSE significant + LeadingZeros[<<n, a.d>>]
        m == Rounded(n, a.d, places)
        mantissa == Stripped[<<m, significant - 1>>]
        point == PowerOfTen[mantissa[2]]
    IN CASE a.n = 0 -> Decimal(FALSE, 0, 0, 0)
         [] IsTiny(a) -> Decimal(a.n < 0, mantissa[1] \div point, mantissa[1] % point,
                                 mantissa[2] + 4)
         [] whole > 0 /\ size >= significant ->
               Decimal(a.n < 0, ((Rounded(n, a.d, 0) + unit \div 2) \div unit) * unit, 0, 0)
         [] OTHER -> Decimal(a.n < 0, m \div PowerOfTen[places], m % PowerOfTen[places],
                             places)

\* A number that was written as a fraction into an SQL statement: SQLite
\* divides two integers, and drops the remainder.
StoredFraction(a) ==
    LET q == Magnitude(a.n) \div a.d IN ZR_Number(IF a.n < 0 THEN -q ELSE q, 1)

\* A number that was written by "<< toDouble()" into an SQL statement and is
\* read back by a callback.
Stored(a) == FromDecimalString(Digits(a, 6))
=============================================================================
