-------------------------- MODULE Quantities_proofs --------------------------
(***************************************************************************)
(* The arithmetic of Quantities.tla, for every amount and factor: what is    *)
(* scaled comes back, over the exact ratios of the model (a Decimal of the  *)
(* code keeps 28 digits); the number shown grows with the amount, is never  *)
(* nothing of something and, as a fraction, is near it.                     *)
(*                                                                         *)
(* Gcd and Tens are recursive functions.  What they compute is shown by     *)
(* least counterexamples over Nat.                                         *)
(***************************************************************************)
EXTENDS Quantities, NaturalsInduction, WellFoundedInduction, TLAPS

-----------------------------------------------------------------------------
(* Least elements, greatest common divisors, lowest terms.                 *)
LEMMA LeastExists == ASSUME NEW T \in SUBSET Nat, T # {} PROVE \E x \in T : \A y \in T : x =< y
<1>1. PICK x \in T : \A y \in T : ~(<<y, x>> \in OpToRel(<, Nat))
  BY NatLessThanWellFounded, WFMin, Zenon
<1>2. \A y \in T : ~(y < x)
  BY <1>1, Zenon DEF OpToRel
<1> QED
  BY <1>2

LEMMA Cancelled == ASSUME NEW a \in Nat, NEW b \in Nat, NEW c \in Nat \ {0}, a * c = b * c PROVE a = b
  OBVIOUS

Divides(g, a) == \E k \in Nat : a = g * k
IsGcd(g, a, b) ==
  g \in Nat /\ Divides(g, a) /\ Divides(g, b) /\ \E s, t \in Int : g = s * a + t * b

ByEuclid(f) == f = [p \in Nat \X Nat |-> IF p[2] = 0 THEN p[1] ELSE f[<<p[2], p[1] % p[2]>>]]

LEMMA Division ==
  ASSUME NEW a \in Nat, NEW b \in Nat \ {0}
  PROVE  a = b * (a \div b) + (a % b) /\ a % b \in 0..(b - 1) /\ a \div b \in Nat
OBVIOUS

LEMMA GcdStays ==
  ASSUME NEW a \in Nat, NEW b \in Nat \ {0}, NEW g
  PROVE  IsGcd(g, a, b) <=> IsGcd(g, b, a % b)
<1> DEFINE q == a \div b
           r == a % b
<1>1. q \in Nat /\ r \in Nat /\ a = b * q + r
  BY Division
<1> HIDE DEF q, r
<1>2. ASSUME IsGcd(g, a, b) PROVE IsGcd(g, b, r)
  <2>1. PICK k \in Nat, l \in Nat, s \in Int, t \in Int : a = g * k /\ b = g * l /\ g = s * a + t * b
    BY <1>2 DEF IsGcd, Divides
  <2>2. g \in Nat
    BY <1>2 DEF IsGcd
  <2>3. r = g * (k - l * q)
    BY <1>1, <2>1, <2>2
  <2>4. k - l * q \in Int
    BY <1>1, <2>1
  <2>5. Divides(g, r)
    <3>1. CASE k - l * q >= 0
      BY <2>3, <2>4, <3>1 DEF Divides
    <3>2. CASE k - l * q < 0
      <4>1. r = 0
        BY <1>1, <2>2, <2>3, <2>4, <3>2
      <4> QED
        BY <2>2, <4>1 DEF Divides
    <3> QED
      BY <2>4, <3>1, <3>2
  <2>6. g = (s * q + t) * b + s * r
    BY <1>1, <2>1, <2>2
  <2>7. s * q + t \in Int /\ Divides(g, b)
    BY <1>1, <2>1 DEF Divides
  <2> QED
    BY <2>1, <2>2, <2>5, <2>6, <2>7 DEF IsGcd
<1>3. ASSUME IsGcd(g, b, r) PROVE IsGcd(g, a, b)
  <2>1. PICK k \in Nat, l \in Nat, s \in Int, t \in Int : b = g * k /\ r = g * l /\ g = s * b + t * r
    BY <1>3 DEF IsGcd, Divides
  <2>2. g \in Nat
    BY <1>3 DEF IsGcd
  <2>3. a = g * (k * q + l)
    BY <1>1, <2>1, <2>2
  <2>4. g = t * a + (s - t * q) * b
    BY <1>1, <2>1, <2>2
  <2>5. k * q + l \in Nat /\ s - t * q \in Int
    BY <1>1, <2>1
  <2> QED
    BY <2>1, <2>2, <2>3, <2>4, <2>5 DEF IsGcd, Divides
<1> QED
  BY <1>2, <1>3 DEF r

LEMMA GcdOfZero == ASSUME NEW a \in Nat, NEW g PROVE IsGcd(g, a, 0) <=> g = a
<1>1. ASSUME IsGcd(g, a, 0) PROVE g = a
  <2>1. PICK k \in Nat, s \in Int, t \in Int : a = g * k /\ g = s * a + t * 0
    BY <1>1 DEF IsGcd, Divides
  <2>2. g \in Nat
    BY <1>1 DEF IsGcd
  <2>3. a * (s * k) = a /\ g = s * a
    BY <2>1, <2>2
  <2> QED
    BY <2>1, <2>2, <2>3
<1>2. IsGcd(a, a, 0)
  <2>1. a = a * 1 /\ 0 = a * 0 /\ a = 1 * a + 0 * 0
    OBVIOUS
  <2> QED
    BY <2>1 DEF IsGcd, Divides
<1> QED
  BY <1>1, <1>2

LEMMA GcdIsByEuclid == ByEuclid(Gcd)
<1> DEFINE G == [p \in Nat \X Nat |-> CHOOSE g \in {h \in Nat : IsGcd(h, p[1], p[2])} : TRUE]
<1>1. \A a, b \in Nat : G[<<a, b>>] = CHOOSE g \in {h \in Nat : IsGcd(h, a, b)} : TRUE
  OBVIOUS
<1>2. \A a, b \in Nat : G[<<a, b>>] = IF b = 0 THEN a ELSE G[<<b, a % b>>]
  <2> SUFFICES ASSUME NEW a \in Nat, NEW b \in Nat PROVE G[<<a, b>>] = IF b = 0 THEN a ELSE G[<<b, a % b>>]
    OBVIOUS
  <2>1. CASE b = 0
    <3>1. {h \in Nat : IsGcd(h, a, b)} = {a}
      BY <2>1, GcdOfZero
    <3>2. G[<<a, b>>] \in {a}
      BY <1>1, <3>1
    <3> QED
      BY <2>1, <3>2
  <2>2. CASE b # 0
    <3>1. {h \in Nat : IsGcd(h, a, b)} = {h \in Nat : IsGcd(h, b, a % b)}
      BY <2>2, GcdStays
    <3>2. a % b \in Nat
      BY <2>2, Division
    <3> HIDE DEF G
    <3> QED
      BY <1>1, <2>2, <3>1, <3>2
  <2> QED
    BY <2>1, <2>2
<1>3. ByEuclid(G)
  <2> HIDE DEF G
  <2> SUFFICES G = [p \in Nat \X Nat |-> IF p[2] = 0 THEN p[1] ELSE G[<<p[2], p[1] % p[2]>>]]
    BY DEF ByEuclid
  <2>1. G = [p \in Nat \X Nat |-> G[p]]
    BY DEF G
  <2> QED
    BY <1>2, <2>1
<1>4. Gcd = CHOOSE f : ByEuclid(f)
  BY DEF Gcd, ByEuclid
<1> QED
  BY <1>3, <1>4, Zenon

LEMMA GcdDivides == \A a, b \in Nat : IsGcd(Gcd[<<a, b>>], a, b)
<1> DEFINE Right(b) == \A a \in Nat : IsGcd(Gcd[<<a, b>>], a, b)
           wrong == {b \in Nat : ~Right(b)}
<1>1. \A a, b \in Nat : Gcd[<<a, b>>] = IF b = 0 THEN a ELSE Gcd[<<b, a % b>>]
  BY GcdIsByEuclid DEF ByEuclid
<1>2. ASSUME NEW b \in Nat, \A c \in 0..(b - 1) : Right(c) PROVE Right(b)
  <2> SUFFICES ASSUME NEW a \in Nat PROVE IsGcd(Gcd[<<a, b>>], a, b)
    OBVIOUS
  <2>1. CASE b = 0
    BY <1>1, <2>1, GcdOfZero
  <2>2. CASE b # 0
    <3>1. a % b \in 0..(b - 1)
      BY <2>2, Division
    <3>2. IsGcd(Gcd[<<b, a % b>>], b, a % b)
      BY <1>2, <3>1
    <3> QED
      BY <1>1, <2>2, <3>2, GcdStays
  <2> QED
    BY <2>1, <2>2
<1>3. wrong = {}
  <2> SUFFICES ASSUME wrong # {} PROVE FALSE
    OBVIOUS
  <2>1. PICK b \in wrong : \A c \in wrong : b =< c
    BY LeastExists
  <2>2. \A c \in 0..(b - 1) : Right(c)
    <3> SUFFICES ASSUME NEW c \in 0..(b - 1), ~Right(c) PROVE FALSE
      OBVIOUS
    <3>1. c \in wrong /\ b \in Nat
      OBVIOUS
    <3> QED
      BY <2>1, <3>1
  <2>3. b \in Nat /\ ~Right(b)
    OBVIOUS
  <2> HIDE DEF Right
  <2> QED
    BY <1>2, <2>2, <2>3
<1> HIDE DEF Right
<1>4. \A b \in Nat : Right(b)
  BY <1>3
<1> QED
  BY <1>4 DEF Right

-----------------------------------------------------------------------------
Coprime(a, b) == \E s, t \in Int : s * a + t * b = 1

LEMMA CoprimeIsGcdOne == ASSUME NEW a \in Nat, NEW b \in Nat PROVE Gcd[<<a, b>>] = 1 <=> Coprime(a, b)
<1> DEFINE g == Gcd[<<a, b>>]
<1>1. IsGcd(g, a, b)
  BY GcdDivides
<1>2. PICK k \in Nat, l \in Nat : a = g * k /\ b = g * l
  BY <1>1 DEF IsGcd, Divides
<1>3. g \in Nat /\ \E s, t \in Int : g = s * a + t * b
  BY <1>1 DEF IsGcd
<1> HIDE DEF g
<1>4. ASSUME Coprime(a, b) PROVE g = 1
  <2>1. PICK s \in Int, t \in Int : s * a + t * b = 1
    BY <1>4 DEF Coprime
  <2>2. g * (s * k + t * l) = 1
    BY <1>2, <1>3, <2>1
  <2>3. PICK m \in Int : g * m = 1
    BY <1>2, <2>1, <2>2
  <2>4. m > 0 /\ g > 0
    BY <1>3, <2>3
  <2> QED
    BY <1>3, <2>3, <2>4
<1> QED
  BY <1>3, <1>4 DEF g, Coprime

(* What divides two coprime numbers is coprime as well, and so is a product. *)
LEMMA CoprimeFactors ==
  ASSUME NEW a \in Int, NEW b \in Int, NEW g \in Int, NEW h \in Int, Coprime(g * a, h * b)
  PROVE  Coprime(a, b)
<1>1. PICK s \in Int, t \in Int : s * (g * a) + t * (h * b) = 1
  BY DEF Coprime
<1>2. (s * g) * a + (t * h) * b = 1
  BY <1>1
<1>3. s * g \in Int /\ t * h \in Int
  BY <1>1
<1> QED
  BY <1>2, <1>3 DEF Coprime

LEMMA CoprimeProduct ==
  ASSUME NEW a \in Int, NEW b \in Int, NEW c \in Int, Coprime(a, b), Coprime(a, c)
  PROVE  Coprime(a, b * c)
<1>1. PICK s \in Int, t \in Int : s * a + t * b = 1
  BY DEF Coprime
<1>2. PICK u \in Int, v \in Int : u * a + v * c = 1
  BY DEF Coprime
<1>3. (s * a + t * b) * (u * a + v * c) = (s * u * a + s * v * c + t * b * u) * a + (t * v) * (b * c)
  BY <1>1, <1>2
<1>4. s * u * a + s * v * c + t * b * u \in Int /\ t * v \in Int
  BY <1>1, <1>2
<1> QED
  <2> DEFINE p == s * u * a + s * v * c + t * b * u
             q == t * v
  <2>1. p \in Int /\ q \in Int
    BY <1>4
  <2>2. p * a + q * (b * c) = 1
    BY <1>1, <1>2, <1>3
  <2> HIDE DEF p, q
  <2> QED
    BY <2>1, <2>2 DEF Coprime

LEMMA CoprimeTurned == ASSUME NEW a \in Int, NEW b \in Int, Coprime(a, b) PROVE Coprime(b, a)
  BY DEF Coprime

(* Two decimals of one value are one.                                      *)
LEMMA SameDecimal ==
  ASSUME NEW x, NEW y, Decimal(x), Decimal(y), x.n * y.d = y.n * x.d PROVE x = y
<1> DEFINE a == x.n
           b == x.d
           c == y.n
           e == y.d
<1>1. a \in Nat /\ b \in Nat /\ c \in Nat /\ e \in Nat /\ b > 0 /\ e > 0 /\ a * e = c * b
  BY DEF Decimal
<1>2. Coprime(a, b) /\ Coprime(c, e)
  BY CoprimeIsGcdOne DEF Decimal
<1>3. x = [n |-> a, d |-> b] /\ y = [n |-> c, d |-> e]
  BY DEF Decimal
<1> HIDE DEF a, b, c, e
<1>4. PICK k \in Int : e = b * k
  <2>1. PICK s \in Int, t \in Int : s * a + t * b = 1
    BY <1>2 DEF Coprime
  <2>2. e = b * (s * c + t * e)
    BY <1>1, <2>1
  <2>3. s * c + t * e \in Int
    BY <1>1, <2>1
  <2> QED
    BY <2>2, <2>3
<1>5. PICK l \in Int : b = e * l
  <2>1. PICK s \in Int, t \in Int : s * c + t * e = 1
    BY <1>2 DEF Coprime
  <2>2. b = e * (s * a + t * b)
    BY <1>1, <2>1
  <2>3. s * a + t * b \in Int
    BY <1>1, <2>1
  <2> QED
    BY <2>2, <2>3
<1>6. k > 0 /\ l > 0
  BY <1>1, <1>4, <1>5
<1>7. b = e
  BY <1>1, <1>4, <1>5, <1>6
<1>8. a = c
  BY <1>1, <1>7
<1> QED
  BY <1>3, <1>7, <1>8

LEMMA RatioIsExact ==
  ASSUME NEW n \in Nat, NEW d \in Nat \ {0}
  PROVE  LET r == Ratio(n, d) IN
         Decimal(r) /\ r.n * d = n * r.d /\ \E g \in Nat \ {0} : n = g * r.n /\ d = g * r.d
<1> DEFINE g == Gcd[<<n, d>>]
<1>1. IsGcd(g, n, d)
  BY GcdDivides
<1>2. PICK k \in Nat, l \in Nat : n = g * k /\ d = g * l
  BY <1>1 DEF IsGcd, Divides
<1>3. PICK s \in Int, t \in Int : g = s * n + t * d
  BY <1>1 DEF IsGcd
<1>4. g \in Nat /\ g # 0 /\ l # 0
  BY <1>1, <1>2 DEF IsGcd
<1>5. Ratio(n, d) = [n |-> n \div g, d |-> d \div g]
  BY DEF Ratio
<1> HIDE DEF g
<1>6. n \div g = k /\ d \div g = l
  BY <1>2, <1>4
<1>7. Coprime(k, l)
  <2>1. g * 1 = g * (s * k + t * l)
    BY <1>2, <1>3, <1>4
  <2>2. s * k + t * l \in Int
    BY <1>2, <1>3
  <2>3. 1 = s * k + t * l
    BY <1>4, <2>1, <2>2
  <2> QED
    BY <1>3, <2>3 DEF Coprime
<1>8. Gcd[<<k, l>>] = 1
  BY <1>2, <1>7, CoprimeIsGcdOne
<1>9. k * d = n * l
  BY <1>2, <1>4
<1>10. Ratio(n, d) = [n |-> k, d |-> l]
  BY <1>5, <1>6
<1> QED
  BY <1>2, <1>4, <1>8, <1>9, <1>10 DEF Decimal

LEMMA TimesIsExact ==
  ASSUME NEW x, NEW y, Decimal(x), Decimal(y)
  PROVE  LET z == Times(x, y) IN Decimal(z) /\ z.n * (x.d * y.d) = (x.n * y.n) * z.d
<1> DEFINE a == Ratio(x.n, y.d)
           b == Ratio(y.n, x.d)
<1>1. x.n \in Nat /\ x.d \in Nat \ {0} /\ y.n \in Nat /\ y.d \in Nat \ {0}
  BY DEF Decimal
<1>2. Decimal(a) /\ a.n * y.d = x.n * a.d /\ \E g \in Nat \ {0} : x.n = g * a.n /\ y.d = g * a.d
  BY <1>1, RatioIsExact
<1>3. Decimal(b) /\ b.n * x.d = y.n * b.d /\ \E g \in Nat \ {0} : y.n = g * b.n /\ x.d = g * b.d
  BY <1>1, RatioIsExact
<1>4. Times(x, y) = [n |-> a.n * b.n, d |-> a.d * b.d]
  BY DEF Times
<1> HIDE DEF a, b
<1>5. PICK g \in Nat \ {0} : x.n = g * a.n /\ y.d = g * a.d
  BY <1>2
<1>6. PICK h \in Nat \ {0} : y.n = h * b.n /\ x.d = h * b.d
  BY <1>3
<1>7. a.n \in Nat /\ a.d \in Nat \ {0} /\ b.n \in Nat /\ b.d \in Nat \ {0}
  BY <1>2, <1>3 DEF Decimal
<1>8. Coprime(a.n, a.d) /\ Coprime(b.n, b.d) /\ Coprime(x.n, x.d) /\ Coprime(y.n, y.d)
  BY <1>2, <1>3, CoprimeIsGcdOne DEF Decimal
<1>9. Coprime(a.n, b.d)
  BY <1>5, <1>6, <1>7, <1>8, CoprimeFactors
<1>10. Coprime(b.n, a.d)
  BY <1>5, <1>6, <1>7, <1>8, CoprimeFactors
<1>11. Coprime(a.d * b.d, a.n) /\ Coprime(a.d * b.d, b.n)
  <2>1. a.n \in Int /\ b.n \in Int /\ a.d \in Int /\ b.d \in Int /\ a.d * b.d \in Int
    BY <1>7
  <2>2. Coprime(a.n, a.d * b.d)
    BY <1>8, <1>9, <2>1, CoprimeProduct
  <2>3. Coprime(b.n, a.d * b.d)
    BY <1>8, <1>10, <2>1, CoprimeProduct
  <2> QED
    BY <2>1, <2>2, <2>3, CoprimeTurned
<1>12. Coprime(a.n * b.n, a.d * b.d)
  <2>1. a.n \in Int /\ b.n \in Int /\ a.d * b.d \in Int /\ a.n * b.n \in Int
    BY <1>7
  <2>2. Coprime(a.d * b.d, a.n * b.n)
    BY <1>11, <2>1, CoprimeProduct
  <2> QED
    BY <2>1, <2>2, CoprimeTurned
<1>13. a.n * b.n \in Nat /\ a.d * b.d \in Nat \ {0}
  BY <1>7
<1>14. Gcd[<<a.n * b.n, a.d * b.d>>] = 1
  BY <1>12, <1>13, CoprimeIsGcdOne
<1>15. (a.n * b.n) * (x.d * y.d) = (x.n * y.n) * (a.d * b.d)
  <2>1. (a.n * b.n) * (x.d * y.d) = (a.n * y.d) * (b.n * x.d)
    BY <1>1, <1>7
  <2>2. (x.n * a.d) * (y.n * b.d) = (x.n * y.n) * (a.d * b.d)
    BY <1>1, <1>7
  <2> QED
    BY <1>2, <1>3, <2>1, <2>2
<1> QED
  BY <1>4, <1>13, <1>14, <1>15 DEF Decimal

LEMMA TimesOne == ASSUME NEW x, Decimal(x) PROVE Times(x, Whole(1)) = x
<1>1. Decimal(Whole(1)) /\ Whole(1).n = 1 /\ Whole(1).d = 1
  <2>1. Coprime(1, 1)
    <3>1. 0 * 1 + 1 * 1 = 1
      OBVIOUS
    <3> QED
      BY <3>1 DEF Coprime
  <2> QED
    BY <2>1, CoprimeIsGcdOne DEF Decimal, Whole
<1> DEFINE z == Times(x, Whole(1))
<1>2. Decimal(z) /\ z.n * (x.d * 1) = (x.n * 1) * z.d
  BY <1>1, TimesIsExact
<1> HIDE DEF z
<1>3. z.n * x.d = x.n * z.d
  BY <1>2 DEF Decimal
<1> QED
  BY <1>2, <1>3, SameDecimal DEF z

(* Of three factors, the order of the last two does not matter.             *)
LEMMA ProductOfThree ==
  ASSUME NEW x, NEW y, NEW z, Decimal(x), Decimal(y), Decimal(z)
  PROVE  LET w == Times(Times(x, y), z) IN
         Decimal(w) /\ w.n * (x.d * (y.d * z.d)) = (x.n * (y.n * z.n)) * w.d
<1> DEFINE v == Times(x, y)
           w == Times(v, z)
<1>1. Decimal(v) /\ v.n * (x.d * y.d) = (x.n * y.n) * v.d
  BY TimesIsExact
<1>2. Decimal(w) /\ w.n * (v.d * z.d) = (v.n * z.n) * w.d
  BY <1>1, TimesIsExact
<1> HIDE DEF v, w
<1>3. /\ x.n \in Nat /\ x.d \in Nat \ {0} /\ y.n \in Nat /\ y.d \in Nat \ {0} /\ z.n \in Nat /\ z.d \in Nat \ {0}
      /\ v.n \in Nat /\ v.d \in Nat \ {0} /\ w.n \in Nat /\ w.d \in Nat \ {0}
  BY <1>1, <1>2 DEF Decimal
<1>4. w.n * (x.d * (y.d * z.d)) = (x.n * (y.n * z.n)) * w.d
  <2> DEFINE l == w.n * (x.d * (y.d * z.d))
             r == (x.n * (y.n * z.n)) * w.d
  <2>1. l * v.d = (w.n * (v.d * z.d)) * (x.d * y.d)
    BY <1>3
  <2>2. ((v.n * z.n) * w.d) * (x.d * y.d) = (v.n * (x.d * y.d)) * (z.n * w.d)
    BY <1>3
  <2>3. ((x.n * y.n) * v.d) * (z.n * w.d) = r * v.d
    BY <1>3
  <2>4. l * v.d = r * v.d
    BY <1>1, <1>2, <2>1, <2>2, <2>3
  <2>5. l \in Nat /\ r \in Nat
    BY <1>3
  <2> HIDE DEF l, r
  <2>6. l = r
    BY <1>3, <2>4, <2>5, Cancelled
  <2> QED
    BY <2>6 DEF l, r
<1> QED
  BY <1>2, <1>4 DEF v, w

(* Multiplied by a factor and by its inverse, an amount is what it was.      *)
LEMMA TimesInverse ==
  ASSUME NEW x, NEW y, NEW z, Decimal(x), Decimal(y), Decimal(z), y.n * z.n = y.d * z.d
  PROVE  Times(Times(x, y), z) = x
<1> DEFINE w == Times(Times(x, y), z)
           m == y.d * z.d
<1>1. Decimal(w) /\ w.n * (x.d * m) = (x.n * m) * w.d
  BY ProductOfThree
<1>2. /\ x.n \in Nat /\ x.d \in Nat \ {0} /\ w.n \in Nat /\ w.d \in Nat \ {0} /\ m \in Nat \ {0}
  <2>1. y.d \in Nat \ {0} /\ z.d \in Nat \ {0}
    BY DEF Decimal
  <2>2. m \in Nat \ {0}
    BY <2>1
  <2> HIDE DEF m, w
  <2> QED
    BY <1>1, <2>2 DEF Decimal
<1> HIDE DEF w, m
<1>3. w.n * x.d = x.n * w.d
  <2>1. (w.n * x.d) * m = w.n * (x.d * m) /\ (x.n * w.d) * m = (x.n * m) * w.d
    BY <1>2
  <2>2. w.n * x.d \in Nat /\ x.n * w.d \in Nat
    BY <1>2
  <2> QED
    BY <1>1, <1>2, <2>1, <2>2
<1>4. w = x
  BY <1>1, <1>3, SameDecimal
<1> QED
  BY <1>4 DEF w

Inverted(x) == [n |-> x.d, d |-> x.n]

LEMMA InverseIsADecimal ==
  ASSUME NEW x, Decimal(x), x # Zero
  PROVE  Decimal(Inverted(x)) /\ x.n * Inverted(x).n = x.d * Inverted(x).d
<1>1. x = [n |-> x.n, d |-> x.d] /\ x.n \in Nat /\ x.d \in Nat \ {0} /\ Coprime(x.n, x.d)
  BY CoprimeIsGcdOne DEF Decimal
<1>2. x.n # 0
  <2> SUFFICES ASSUME x.n = 0 PROVE FALSE
    OBVIOUS
  <2>1. PICK s \in Int, t \in Int : s * x.n + t * x.d = 1
    BY <1>1 DEF Coprime
  <2>2. t * x.d = 1
    BY <1>1, <2>1
  <2>3. x.d = 1
    BY <1>1, <2>1, <2>2
  <2>4. x = [n |-> 0, d |-> 1]
    BY <1>1, <2>3
  <2> QED
    BY <2>4 DEF Zero, Whole
<1>3. Gcd[<<x.d, x.n>>] = 1
  <2>1. Coprime(x.d, x.n)
    BY <1>1, CoprimeTurned
  <2> QED
    BY <1>1, <2>1, CoprimeIsGcdOne
<1>4. x.n * x.d = x.d * x.n
  BY <1>1
<1> QED
  BY <1>1, <1>2, <1>3, <1>4 DEF Decimal, Inverted

LEMMA RatiosInvert ==
  ASSUME NEW f \in Nat \ {0}, NEW t \in Nat \ {0}
  PROVE  Ratio(f, t).n * Ratio(t, f).n = Ratio(f, t).d * Ratio(t, f).d
<1> DEFINE R == Ratio(f, t)
           S == Ratio(t, f)
<1>1. Decimal(R) /\ R.n * t = f * R.d
  BY RatioIsExact
<1>2. Decimal(S) /\ S.n * f = t * S.d
  BY RatioIsExact
<1> HIDE DEF R, S
<1>3. R.n \in Nat /\ R.d \in Nat \ {0} /\ S.n \in Nat /\ S.d \in Nat \ {0}
  BY <1>1, <1>2 DEF Decimal
<1>4. (t * f) * (R.n * S.n) = (R.n * t) * (S.n * f)
  BY <1>3
<1>5. (f * R.d) * (t * S.d) = (t * f) * (R.d * S.d)
  BY <1>3
<1>6. (t * f) * (R.n * S.n) = (t * f) * (R.d * S.d)
  BY <1>1, <1>2, <1>4, <1>5
<1>7. t * f # 0 /\ t * f \in Nat /\ R.n * S.n \in Nat /\ R.d * S.d \in Nat
  BY <1>3
<1>8. R.n * S.n = R.d * S.d
  BY <1>6, <1>7
<1> QED
  BY <1>8 DEF R, S

LEMMA ThereAndBack ==
  ASSUME NEW x, Decimal(x), NEW f \in Nat \ {0}, NEW t \in Nat \ {0}
  PROVE  Times(Times(x, Ratio(f, t)), Ratio(t, f)) = x
  BY RatioIsExact, RatiosInvert, TimesInverse

-----------------------------------------------------------------------------
(* Units and factors.                                                      *)
LEMMA SizesArePositive == \A u \in Units : UnitDefs[u].size \in Nat \ {0}
  BY DEF Units, UnitDefs, UnitRecord

(* Between two units of one dimension an amount is multiplied by a ratio.    *)
LEMMA ConversionIsAProduct ==
  ASSUME NEW x, NEW u \in Units, NEW t \in Units, UnitDefs[u].dim = UnitDefs[t].dim
  PROVE  ConvertValue(x, u, t, NoDensity).value = Times(x, Ratio(UnitDefs[u].size, UnitDefs[t].size))
  BY DEF ConvertValue, Converted

(* A factor scales a quantity that follows it, and keeps its unit.          *)
LEMMA ScaledAmount ==
  ASSUME NEW spec, NEW f, Amount(spec.quantity), Decimal(f), ~ScaleSpec(spec, f).raised,
         spec.quantity.kind # "approx"
  PROVE  LET q == ScaleSpec(spec, f).quantity IN
         /\ Amount(q) /\ q.unit = spec.quantity.unit
         /\ q.high = IF spec.scaling = "LINEAR" THEN Times(spec.quantity.high, f) ELSE spec.quantity.high
<1> DEFINE p == spec.quantity
           q == ScaleSpec(spec, f).quantity
<1>1. p = [kind |-> p.kind, low |-> p.low, high |-> p.high, unit |-> p.unit] /\ Decimal(p.low) /\ Decimal(p.high)
  BY DEF Amount
<1>2. Decimal(Times(p.low, f)) /\ Decimal(Times(p.high, f))
  BY <1>1, TimesIsExact
<1>3. CASE spec.scaling = "LINEAR" /\ f # Whole(1)
  <2>1. f # Zero
    BY <1>3 DEF ScaleSpec, ScalesWithFactor
  <2>2. q = [p EXCEPT !.low = Times(@, f), !.high = Times(@, f)]
    BY <1>3, <2>1 DEF ScaleSpec, ScalesWithFactor, ScaleQuantity
  <2> HIDE DEF p, q
  <2>3. q = [kind |-> p.kind, low |-> Times(p.low, f), high |-> Times(p.high, f), unit |-> p.unit]
    BY <1>1, <2>2
  <2> QED
    BY <1>2, <1>3, <2>3 DEF Amount, p, q
<1>4. CASE ~(spec.scaling = "LINEAR" /\ f # Whole(1))
  <2>1. q = p
    BY <1>4 DEF ScaleSpec, ScalesWithFactor
  <2>2. spec.scaling = "LINEAR" => Times(p.high, f) = p.high
    BY <1>1, <1>4, TimesOne
  <2> HIDE DEF q
  <2> QED
    BY <2>1, <2>2 DEF q
<1> QED
  BY <1>3, <1>4

(* "scale(scale(q, 2), Decimal("0.5")) returns the original value rather     *)
(* than something that has drifted": what is scaled comes back.              *)
THEOREM ScalingComesBack ==
  ASSUME NEW q, NEW f, Amount(q), Decimal(f), f # Zero
  PROVE  ScaleQuantity(ScaleQuantity(q, f), Inverted(f)) = q
<1> DEFINE g == Inverted(f)
<1>1. Decimal(g) /\ f.n * g.n = f.d * g.d
  BY InverseIsADecimal
<1>2. q = [kind |-> q.kind, low |-> q.low, high |-> q.high, unit |-> q.unit] /\ Decimal(q.low) /\ Decimal(q.high)
  BY DEF Amount
<1> HIDE DEF g
<1>3. CASE q.kind = "approx"
  BY <1>3 DEF ScaleQuantity, g
<1>4. CASE q.kind # "approx"
  <2> DEFINE p == [kind |-> q.kind, low |-> Times(q.low, f), high |-> Times(q.high, f), unit |-> q.unit]
             o == [kind |-> q.kind, low |-> Times(Times(q.low, f), g), high |-> Times(Times(q.high, f), g), unit |-> q.unit]
  <2>1. ScaleQuantity(q, f) = p
    <3>1. ScaleQuantity(q, f) = [q EXCEPT !.low = Times(@, f), !.high = Times(@, f)]
      BY <1>4 DEF ScaleQuantity
    <3> QED
      BY <1>2, <3>1
  <2>2. ScaleQuantity(p, g) = o
    BY <1>4 DEF ScaleQuantity
  <2>3. Times(Times(q.low, f), g) = q.low /\ Times(Times(q.high, f), g) = q.high
    BY <1>1, <1>2, TimesInverse
  <2>4. o = q
    BY <1>2, <2>3
  <2> QED
    BY <2>1, <2>2, <2>4 DEF g
<1> QED
  BY <1>3, <1>4

-----------------------------------------------------------------------------
(* The powers of ten.                                                      *)
PowersTo(f, n) == f = [k \in 0..n |-> IF k = 0 THEN 1 ELSE 10 * f[k - 1]]
Powers(f)      == f = [k \in Nat |-> IF k = 0 THEN 1 ELSE 10 * f[k - 1]]

LEMMA PowersExist == \A n \in Nat : \E f : PowersTo(f, n)
<1> DEFINE wrong == {n \in Nat : ~\E f : PowersTo(f, n)}
<1> SUFFICES ASSUME wrong # {} PROVE FALSE
  OBVIOUS
<1>1. PICK n \in wrong : \A m \in wrong : n =< m
  BY LeastExists
<1>2. CASE n = 0
  <2> DEFINE f == [k \in 0..0 |-> 1]
  <2>1. f = [k \in 0..0 |-> IF k = 0 THEN 1 ELSE 10 * f[k - 1]]
    OBVIOUS
  <2> HIDE DEF f
  <2>2. PowersTo(f, 0)
    BY <2>1 DEF PowersTo
  <2> QED
    BY <1>2, <2>2
<1>3. CASE n # 0
  <2>1. n \in Nat /\ n - 1 \in Nat /\ n - 1 \notin wrong
    BY <1>1, <1>3
  <2>2. PICK f : PowersTo(f, n - 1)
    BY <2>1
  <2> DEFINE g == [k \in 0..n |-> IF k = n THEN 10 * f[n - 1] ELSE f[k]]
  <2>3. \A k \in 0..(n - 1) : f[k] = IF k = 0 THEN 1 ELSE 10 * f[k - 1]
    BY <2>2, Zenon DEF PowersTo
  <2>4. \A k \in 0..n : g[k] = IF k = 0 THEN 1 ELSE 10 * g[k - 1]
    BY <1>3, <2>1, <2>3
  <2>5. g = [k \in 0..n |-> g[k]]
    OBVIOUS
  <2> HIDE DEF g
  <2>6. g = [k \in 0..n |-> IF k = 0 THEN 1 ELSE 10 * g[k - 1]]
    BY <2>4, <2>5
  <2>7. PowersTo(g, n)
    BY <2>6 DEF PowersTo
  <2> QED
    BY <2>7
<1> QED
  BY <1>2, <1>3

LEMMA PowersAgree ==
  ASSUME NEW m \in Nat, NEW n \in Nat, NEW f, NEW g, PowersTo(f, m), PowersTo(g, n)
  PROVE  \A k \in Nat : k =< m /\ k =< n => f[k] = g[k]
<1> DEFINE wrong == {k \in Nat : k =< m /\ k =< n /\ f[k] # g[k]}
<1> SUFFICES ASSUME wrong # {} PROVE FALSE
  OBVIOUS
<1>1. PICK k \in wrong : \A l \in wrong : k =< l
  BY LeastExists
<1>2. f[k] = (IF k = 0 THEN 1 ELSE 10 * f[k - 1]) /\ g[k] = (IF k = 0 THEN 1 ELSE 10 * g[k - 1])
  <2>1. k \in 0..m /\ k \in 0..n
    OBVIOUS
  <2> HIDE DEF wrong
  <2> QED
    BY <2>1, Zenon DEF PowersTo
<1>3. k # 0 => f[k - 1] = g[k - 1]
  BY <1>1
<1> QED
  BY <1>2, <1>3

LEMMA TensArePowers == Powers(Tens)
<1> DEFINE Upto(n) == CHOOSE f : PowersTo(f, n)
           F == [n \in Nat |-> Upto(n)[n]]
<1>1. \A n \in Nat : PowersTo(Upto(n), n)
  BY PowersExist, Zenon
<1> HIDE DEF Upto
<1>2. \A n \in Nat : F[n] = IF n = 0 THEN 1 ELSE 10 * F[n - 1]
  <2> SUFFICES ASSUME NEW n \in Nat PROVE Upto(n)[n] = IF n = 0 THEN 1 ELSE 10 * F[n - 1]
    OBVIOUS
  <2>1. Upto(n)[n] = IF n = 0 THEN 1 ELSE 10 * Upto(n)[n - 1]
    <3>1. n \in 0..n
      OBVIOUS
    <3> QED
      BY <1>1, <3>1, Zenon DEF PowersTo
  <2>2. n # 0 => Upto(n)[n - 1] = Upto(n - 1)[n - 1]
    <3> SUFFICES ASSUME n # 0 PROVE Upto(n)[n - 1] = Upto(n - 1)[n - 1]
      OBVIOUS
    <3>1. n - 1 \in Nat /\ n - 1 =< n /\ n - 1 =< n - 1
      OBVIOUS
    <3> QED
      BY <1>1, <3>1, PowersAgree
  <2> QED
    BY <2>1, <2>2
<1>3. F = [n \in Nat |-> F[n]]
  OBVIOUS
<1> HIDE DEF F
<1>4. Powers(F)
  <2>1. F = [n \in Nat |-> IF n = 0 THEN 1 ELSE 10 * F[n - 1]]
    BY <1>2, <1>3
  <2> QED
    BY <2>1 DEF Powers
<1>5. Tens = CHOOSE f : Powers(f)
  BY DEF Tens, Powers
<1> QED
  BY <1>4, <1>5, Zenon

LEMMA TensGrow ==
  /\ Tens[0] = 1
  /\ \A k \in Nat : Tens[k] \in Nat /\ Tens[k] > k /\ Tens[k + 1] = 10 * Tens[k]
<1>1. \A k \in Nat : Tens[k] = IF k = 0 THEN 1 ELSE 10 * Tens[k - 1]
  BY TensArePowers, Zenon DEF Powers
<1> DEFINE wrong == {k \in Nat : ~(Tens[k] \in Nat /\ Tens[k] > k)}
<1>2. wrong = {}
  <2> SUFFICES ASSUME wrong # {} PROVE FALSE
    OBVIOUS
  <2>1. PICK k \in wrong : \A l \in wrong : k =< l
    BY LeastExists
  <2>2. k # 0
    BY <1>1
  <2>3. k - 1 \in Nat /\ k - 1 \notin wrong
    BY <2>1, <2>2
  <2>4. Tens[k] = 10 * Tens[k - 1]
    BY <1>1, <2>2
  <2> QED
    BY <2>2, <2>3, <2>4
<1>3. \A k \in Nat : Tens[k + 1] = 10 * Tens[k]
  <2> SUFFICES ASSUME NEW k \in Nat PROVE Tens[k + 1] = 10 * Tens[k]
    OBVIOUS
  <2>1. k + 1 \in Nat /\ k + 1 # 0 /\ (k + 1) - 1 = k
    OBVIOUS
  <2> QED
    BY <1>1, <2>1
<1> QED
  BY <1>1, <1>2, <1>3

LEMMA TensOrdered == \A j, k \in Nat : j =< k => Tens[j] =< Tens[k]
<1> SUFFICES ASSUME NEW j \in Nat PROVE \A k \in Nat : j =< k => Tens[j] =< Tens[k]
  OBVIOUS
<1> DEFINE wrong == {k \in Nat : j =< k /\ ~(Tens[j] =< Tens[k])}
<1> SUFFICES ASSUME wrong # {} PROVE FALSE
  OBVIOUS
<1>1. PICK k \in wrong : \A l \in wrong : k =< l
  BY LeastExists
<1>2. k # j
  BY TensGrow
<1>3. k - 1 \in Nat /\ j =< k - 1 /\ k - 1 \notin wrong
  BY <1>1, <1>2
<1>4. Tens[(k - 1) + 1] = 10 * Tens[k - 1] /\ Tens[k - 1] \in Nat
  BY <1>3, TensGrow
<1>5. (k - 1) + 1 = k
  OBVIOUS
<1>6. Tens[j] =< Tens[k - 1] /\ Tens[j] \in Nat
  BY <1>3, TensGrow
<1> QED
  BY <1>4, <1>5, <1>6

-----------------------------------------------------------------------------
(* Order.  A fraction need not be in lowest terms.                         *)
Fraction(x)  == x.n \in Nat /\ x.d \in Nat \ {0}
AtMost(x, y) == x.n * y.d =< y.n * x.d

LEMMA AtMostIsTransitive ==
  ASSUME NEW x, NEW y, NEW z, Fraction(x), Fraction(y), Fraction(z), AtMost(x, y), AtMost(y, z)
  PROVE  AtMost(x, z)
<1> DEFINE a == x.n  b == x.d  c == y.n  e == y.d  f == z.n  g == z.d
<1>1. a \in Nat /\ b \in Nat \ {0} /\ c \in Nat /\ e \in Nat \ {0} /\ f \in Nat /\ g \in Nat \ {0}
      /\ a * e =< c * b /\ c * g =< f * e
  BY DEF Fraction, AtMost
<1> HIDE DEF a, b, c, e, f, g
<1>2. (a * g) * e =< (f * b) * e
  <2>1. (a * e) * g =< (c * b) * g
    BY <1>1
  <2>2. (c * g) * b =< (f * e) * b
    BY <1>1
  <2>3. (a * e) * g = (a * g) * e /\ (c * b) * g = (c * g) * b /\ (f * e) * b = (f * b) * e
    BY <1>1
  <2>4. (a * e) * g \in Nat /\ (c * b) * g \in Nat /\ (f * e) * b \in Nat
    BY <1>1
  <2> QED
    BY <2>1, <2>2, <2>3, <2>4
<1>3. a * g \in Nat /\ f * b \in Nat
  BY <1>1
<1>4. a * g =< f * b
  BY <1>1, <1>2, <1>3
<1> QED
  BY <1>4 DEF AtMost, a, b, f, g

(* r is the number a / b rounded half up.                                  *)
Nearest(r, a, b) == r \in Nat /\ 2 * a < (2 * r + 1) * b /\ (2 * r - 1) * b =< 2 * a

LEMMA RoundsToNearest ==
  ASSUME NEW a \in Nat, NEW b \in Nat \ {0}
  PROVE  Nearest(RoundHalfUp([n |-> a, d |-> b]), a, b)
<1> DEFINE m == 2 * a + b
           q == m \div (2 * b)
<1>1. m \in Nat /\ 2 * b \in Nat \ {0}
  OBVIOUS
<1>2. m = (2 * b) * q + (m % (2 * b)) /\ m % (2 * b) \in 0..(2 * b - 1) /\ q \in Nat
  <2> HIDE DEF m
  <2> QED
    BY <1>1, Division
<1>3. RoundHalfUp([n |-> a, d |-> b]) = q
  BY DEF RoundHalfUp
<1> HIDE DEF q
<1>4. (2 * b) * q = 2 * (q * b) /\ (2 * q + 1) * b = 2 * (q * b) + b /\ (2 * q - 1) * b = 2 * (q * b) - b
  BY <1>2
<1>5. q * b \in Nat
  BY <1>2
<1> QED
  BY <1>2, <1>3, <1>4, <1>5 DEF Nearest

(* A number is rounded by its value, and the greater to the greater.         *)
LEMMA NearestOfEqual ==
  ASSUME NEW r, NEW a \in Nat, NEW b \in Nat \ {0}, NEW c \in Nat, NEW e \in Nat \ {0},
         Nearest(r, a, b), a * e = c * b
  PROVE  Nearest(r, c, e)
<1>1. r \in Nat /\ 2 * a < (2 * r + 1) * b /\ (2 * r - 1) * b =< 2 * a
  BY DEF Nearest
<1> DEFINE u == 2 * r + 1
           v == 2 * r - 1
<1>2. u \in Int /\ v \in Int /\ 2 * a < u * b /\ v * b =< 2 * a
  BY <1>1
<1> HIDE DEF u, v
<1>3. (2 * c) * b = (2 * a) * e
  OBVIOUS
<1>4. (2 * a) * e < (u * b) * e /\ (v * b) * e =< (2 * a) * e
  BY <1>2
<1>5. (u * b) * e = (u * e) * b /\ (v * b) * e = (v * e) * b
  BY <1>2
<1>6. (2 * c) * b < (u * e) * b /\ (v * e) * b =< (2 * c) * b
  BY <1>3, <1>4, <1>5
<1>7. u * e \in Int /\ v * e \in Int /\ 2 * c \in Int
  BY <1>2
<1>8. 2 * c < u * e /\ v * e =< 2 * c
  BY <1>6, <1>7
<1> QED
  BY <1>1, <1>8 DEF Nearest, u, v

LEMMA NearestIsMonotone ==
  ASSUME NEW r, NEW s, NEW a \in Nat, NEW b \in Nat \ {0}, NEW c \in Nat, NEW e \in Nat \ {0},
         Nearest(r, a, b), Nearest(s, c, e), a * e =< c * b
  PROVE  r =< s
<1>1. r \in Nat /\ s \in Nat /\ (2 * r - 1) * b =< 2 * a /\ 2 * c < (2 * s + 1) * e
  BY DEF Nearest
<1> DEFINE u == 2 * r - 1
           v == 2 * s + 1
<1>2. u \in Int /\ v \in Int /\ u * b =< 2 * a /\ 2 * c < v * e
  BY <1>1
<1> HIDE DEF u, v
<1>3. (u * e) * b < (v * e) * b
  <2>1. (u * b) * e =< (2 * a) * e
    BY <1>2
  <2>2. (2 * c) * b < (v * e) * b
    BY <1>2
  <2>3. (2 * a) * e = 2 * (a * e) /\ (2 * c) * b = 2 * (c * b) /\ (u * b) * e = (u * e) * b
    BY <1>2
  <2>4. a * e \in Nat /\ c * b \in Nat /\ (u * e) * b \in Int /\ (v * e) * b \in Int
    BY <1>2
  <2> QED
    BY <2>1, <2>2, <2>3, <2>4
<1>4. u < v
  <2>1. (u * e) * b = u * (e * b) /\ (v * e) * b = v * (e * b)
    BY <1>2
  <2>2. e * b \in Nat \ {0}
    OBVIOUS
  <2> DEFINE m == e * b
  <2>3. u * m < v * m /\ m \in Nat \ {0}
    BY <1>3, <2>1, <2>2
  <2> HIDE DEF m
  <2> QED
    BY <1>2, <2>3
<1> QED
  BY <1>1, <1>4 DEF u, v

LEMMA NearestIsAtLeast ==
  ASSUME NEW r, NEW m \in Nat, NEW a \in Nat, NEW b \in Nat \ {0}, Nearest(r, a, b)
  PROVE  (m * b =< a => m =< r) /\ (a =< m * b => r =< m)
<1>1. Nearest(m, m, 1)
  BY DEF Nearest
<1>2. m * b =< a * 1 => m =< r
  BY <1>1, NearestIsMonotone
<1>3. a * 1 =< m * b => r =< m
  BY <1>1, NearestIsMonotone
<1> QED
  BY <1>2, <1>3

LEMMA RoundedByValue ==
  ASSUME NEW z, Decimal(z), NEW c \in Nat, NEW e \in Nat \ {0}, z.n * e = c * z.d
  PROVE  Nearest(RoundHalfUp(z), c, e)
<1>1. z = [n |-> z.n, d |-> z.d] /\ z.n \in Nat /\ z.d \in Nat \ {0}
  BY DEF Decimal
<1>2. Nearest(RoundHalfUp([n |-> z.n, d |-> z.d]), z.n, z.d)
  BY <1>1, RoundsToNearest
<1>3. RoundHalfUp([n |-> z.n, d |-> z.d]) = RoundHalfUp(z)
  BY DEF RoundHalfUp
<1> QED
  BY <1>1, <1>2, <1>3, NearestOfEqual

LEMMA WholeIsADecimal == \A k \in Nat : Decimal(Whole(k)) /\ Whole(k).n = k /\ Whole(k).d = 1
<1> SUFFICES ASSUME NEW k \in Nat PROVE Decimal(Whole(k)) /\ Whole(k).n = k /\ Whole(k).d = 1
  OBVIOUS
<1>1. 0 * k + 1 * 1 = 1
  OBVIOUS
<1>2. Coprime(k, 1)
  BY <1>1 DEF Coprime
<1> QED
  BY <1>2, CoprimeIsGcdOne DEF Decimal, Whole

LEMMA OneOverIsADecimal == \A k \in Nat \ {0} : Decimal([n |-> 1, d |-> k]) /\ Ratio(1, k) = [n |-> 1, d |-> k]
<1> SUFFICES ASSUME NEW k \in Nat \ {0} PROVE Decimal([n |-> 1, d |-> k]) /\ Ratio(1, k) = [n |-> 1, d |-> k]
  OBVIOUS
<1>1. 1 * 1 + 0 * k = 1
  OBVIOUS
<1>2. Coprime(1, k)
  BY <1>1 DEF Coprime
<1>3. Decimal([n |-> 1, d |-> k])
  BY <1>2, CoprimeIsGcdOne DEF Decimal
<1>4. Decimal(Ratio(1, k)) /\ Ratio(1, k).n * k = 1 * Ratio(1, k).d
  BY RatioIsExact
<1>5. Ratio(1, k) = [n |-> 1, d |-> k]
  BY <1>3, <1>4, SameDecimal
<1> QED
  BY <1>3, <1>5

(* A number on the grid of p / q.                                          *)
OnGrid(v, r, p, q) == Decimal(v) /\ v.n * q = (r * p) * v.d

(* Multiples of a step.                                                    *)
LEMMA RoundedToAStep ==
  ASSUME NEW x, NEW s, Decimal(x), Decimal(s), s # Zero
  PROVE  LET r == RoundHalfUp(Divided(x, s))
             v == Times(s, Whole(r)) IN
         s.n \in Nat \ {0} /\ Nearest(r, x.n * s.d, x.d * s.n) /\ OnGrid(v, r, s.n, s.d)
<1> DEFINE z == Divided(x, s)
           r == RoundHalfUp(z)
           v == Times(s, Whole(r))
<1>1. Decimal(Inverted(s)) /\ Inverted(s).n = s.d /\ Inverted(s).d = s.n
  BY InverseIsADecimal DEF Inverted
<1>2. x.n \in Nat /\ x.d \in Nat \ {0} /\ s.n \in Nat \ {0} /\ s.d \in Nat \ {0}
  <2>1. Inverted(s).d \in Nat \ {0}
    BY <1>1 DEF Decimal
  <2> QED
    BY <1>1, <2>1 DEF Decimal
<1>3. z = Times(x, Inverted(s))
  BY DEF Divided, Inverted
<1>4. Decimal(z) /\ z.n * (x.d * s.n) = (x.n * s.d) * z.d
  BY <1>1, <1>3, TimesIsExact
<1>5. Nearest(r, x.n * s.d, x.d * s.n)
  <2> HIDE DEF z
  <2>1. x.n * s.d \in Nat /\ x.d * s.n \in Nat \ {0}
    BY <1>2
  <2> QED
    BY <1>4, <2>1, RoundedByValue
<1>6. r \in Nat
  BY <1>5 DEF Nearest
<1> HIDE DEF r, z
<1>7. Decimal(v) /\ v.n * (s.d * 1) = (s.n * r) * v.d
  BY <1>6, WholeIsADecimal, TimesIsExact
<1>8. v.n * s.d = (r * s.n) * v.d
  BY <1>2, <1>6, <1>7
<1> QED
  BY <1>2, <1>5, <1>7, <1>8 DEF OnGrid, r, z

(* The bands: from lo up to hi, if any, in steps of p / q.                  *)
Band(lo, hi, p, q) == [lo |-> lo, hi |-> hi, p |-> p, q |-> q]
Bands == {Band(0, 1, 1, 10), Band(1, 10, 1, 2), Band(10, 100, 1, 1), Band(100, 1000, 5, 1), Band(1000, 0, 25, 1)}
Within(x, b) == b.lo * x.d =< x.n /\ (b.hi = 0 \/ x.n < b.hi * x.d)

LEMMA BandsAre ==
  /\ \A b \in Bands : b.lo \in Nat /\ b.hi \in Nat /\ b.p \in Nat \ {0} /\ b.q \in Nat \ {0}
  /\ \A b \in Bands : \E l \in Nat : l * b.p = b.lo * b.q /\ (b.lo # 0 => l # 0)
  /\ \A b \in Bands : \E h \in Nat : h * b.p = b.hi * b.q
  /\ \A b, c \in Bands : b = c \/ (b.hi # 0 /\ b.hi =< c.lo) \/ (c.hi # 0 /\ c.hi =< b.lo)
  /\ \A b \in Bands : b.lo = 0 => b.p = 1 /\ b.q = 10 /\ b.hi = 1
<1>1. \A b \in Bands : \/ b.lo = 0 /\ b.hi = 1 /\ b.p = 1 /\ b.q = 10
                       \/ b.lo = 1 /\ b.hi = 10 /\ b.p = 1 /\ b.q = 2
                       \/ b.lo = 10 /\ b.hi = 100 /\ b.p = 1 /\ b.q = 1
                       \/ b.lo = 100 /\ b.hi = 1000 /\ b.p = 5 /\ b.q = 1
                       \/ b.lo = 1000 /\ b.hi = 0 /\ b.p = 25 /\ b.q = 1
  BY DEF Bands, Band
<1>2. \A b \in Bands : \E l \in Nat : l * b.p = b.lo * b.q /\ (b.lo # 0 => l # 0)
  <2> SUFFICES ASSUME NEW b \in Bands PROVE \E l \in {0, 2, 10, 20, 40} : l * b.p = b.lo * b.q /\ (b.lo # 0 => l # 0)
    OBVIOUS
  <2> QED
    BY <1>1
<1>3. \A b \in Bands : \E h \in Nat : h * b.p = b.hi * b.q
  <2> SUFFICES ASSUME NEW b \in Bands PROVE \E h \in {10, 20, 100, 200, 0} : h * b.p = b.hi * b.q
    OBVIOUS
  <2> QED
    BY <1>1
<1>4. \A b, c \in Bands : b = c \/ (b.hi # 0 /\ b.hi =< c.lo) \/ (c.hi # 0 /\ c.hi =< b.lo)
  BY DEF Bands, Band
<1> QED
  BY <1>1, <1>2, <1>3, <1>4

LEMMA StepOfBand ==
  ASSUME NEW x, Decimal(x)
  PROVE  \E b \in Bands : /\ Within(x, b) /\ MetricStep(x) = [n |-> b.p, d |-> b.q]
                          /\ Decimal(MetricStep(x)) /\ MetricStep(x) # Zero
<1> DEFINE s == MetricStep(x)
<1>1. x.n \in Nat /\ x.d \in Nat \ {0}
  BY DEF Decimal
<1>2. /\ Less(x, Whole(1)) <=> x.n < 1 * x.d
      /\ Less(x, Whole(10)) <=> x.n < 10 * x.d
      /\ Less(x, Whole(100)) <=> x.n < 100 * x.d
      /\ Less(x, Whole(1000)) <=> x.n < 1000 * x.d
  BY <1>1 DEF Less, Whole
<1>3. Ratio(1, 10) = [n |-> 1, d |-> 10] /\ Ratio(1, 2) = [n |-> 1, d |-> 2]
  <2>1. 10 \in Nat \ {0} /\ 2 \in Nat \ {0}
    OBVIOUS
  <2> QED
    BY <2>1, OneOverIsADecimal, Zenon
<1>4. \A k : Whole(k) = [n |-> k, d |-> 1]
  BY DEF Whole
<1>5. \E b \in Bands : Within(x, b) /\ s = [n |-> b.p, d |-> b.q]
  <2>1. CASE x.n < 1 * x.d
    <3>1. s = [n |-> 1, d |-> 10]
      BY <1>2, <1>3, <2>1 DEF MetricStep
    <3>2. Within(x, Band(0, 1, 1, 10))
      BY <1>1, <2>1 DEF Within, Band
    <3> QED
      BY <3>1, <3>2 DEF Bands, Band
  <2>2. CASE ~(x.n < 1 * x.d) /\ x.n < 10 * x.d
    <3>1. s = [n |-> 1, d |-> 2]
      BY <1>2, <1>3, <2>2 DEF MetricStep
    <3>2. Within(x, Band(1, 10, 1, 2))
      BY <1>1, <2>2 DEF Within, Band
    <3> QED
      BY <3>1, <3>2 DEF Bands, Band
  <2>3. CASE ~(x.n < 10 * x.d) /\ x.n < 100 * x.d
    <3>1. ~(x.n < 1 * x.d)
      BY <1>1, <2>3
    <3>2. s = [n |-> 1, d |-> 1]
      BY <1>2, <1>4, <2>3, <3>1 DEF MetricStep
    <3>3. Within(x, Band(10, 100, 1, 1))
      BY <1>1, <2>3 DEF Within, Band
    <3> QED
      BY <3>2, <3>3 DEF Bands, Band
  <2>4. CASE ~(x.n < 100 * x.d) /\ x.n < 1000 * x.d
    <3>1. ~(x.n < 1 * x.d) /\ ~(x.n < 10 * x.d)
      BY <1>1, <2>4
    <3>2. s = [n |-> 5, d |-> 1]
      BY <1>2, <1>4, <2>4, <3>1 DEF MetricStep
    <3>3. Within(x, Band(100, 1000, 5, 1))
      BY <1>1, <2>4 DEF Within, Band
    <3> QED
      BY <3>2, <3>3 DEF Bands, Band
  <2>5. CASE ~(x.n < 1000 * x.d)
    <3>1. ~(x.n < 1 * x.d) /\ ~(x.n < 10 * x.d) /\ ~(x.n < 100 * x.d)
      BY <1>1, <2>5
    <3>2. s = [n |-> 25, d |-> 1]
      BY <1>2, <1>4, <2>5, <3>1 DEF MetricStep
    <3>3. Within(x, Band(1000, 0, 25, 1))
      BY <1>1, <2>5 DEF Within, Band
    <3> QED
      BY <3>2, <3>3 DEF Bands, Band
  <2> QED
    BY <1>1, <2>1, <2>2, <2>3, <2>4, <2>5
<1> HIDE DEF s
<1>6. PICK b \in Bands : Within(x, b) /\ s = [n |-> b.p, d |-> b.q]
  BY <1>5
<1>7. s \in {[n |-> 1, d |-> 10], [n |-> 1, d |-> 2], Whole(1), Whole(5), Whole(25)}
  BY <1>6 DEF Bands, Band, Whole
<1>8. Decimal(s)
  BY <1>7, OneOverIsADecimal, WholeIsADecimal
<1>9. s.n # 0
  BY <1>7 DEF Whole
<1>10. s # Zero
  BY <1>9 DEF Zero, Whole
<1> QED
  BY <1>6, <1>8, <1>10 DEF s

(* Two significant digits.                                                 *)
Digits(x, v, k, r) ==
  /\ k \in Nat \ {0} /\ Decimal(v)
  /\ x.d =< x.n * Tens[k] /\ x.n * Tens[k - 1] < x.d
  /\ Nearest(r, x.n * Tens[k + 1], x.d) /\ v.n * Tens[k + 1] = r * v.d

LEMMA FirstDigitExists ==
  ASSUME NEW n \in Nat \ {0}, NEW d \in Nat \ {0}, n < d
  PROVE  \E k \in 1..d : d =< n * Tens[k] /\ n * Tens[k - 1] < d
<1> DEFINE T == {k \in Nat : d =< n * Tens[k]}
<1>1. d \in T
  <2>1. Tens[d] \in Nat /\ Tens[d] > d
    BY TensGrow
  <2> DEFINE m == Tens[d]
  <2> HIDE DEF m
  <2>2. m \in Nat /\ m > d
    BY <2>1 DEF m
  <2>3. d =< n * m
    BY <2>2
  <2> QED
    BY <2>3 DEF m
<1>2. PICK k \in T : \A l \in T : k =< l
  BY <1>1, LeastExists
<1>3. k # 0
  BY TensGrow
<1>4. k - 1 \in Nat /\ k - 1 \notin T
  BY <1>2, <1>3
<1>5. Tens[k - 1] \in Nat
  BY <1>4, TensGrow
<1>6. n * Tens[k - 1] < d
  BY <1>4, <1>5
<1> QED
  BY <1>1, <1>2, <1>3, <1>6

LEMMA TwoDigitsAre ==
  ASSUME NEW x, Decimal(x), x # Zero, x.n < x.d
  PROVE  \E k, r : Digits(x, TwoDigits(x), k, r)
<1> DEFINE k == CHOOSE k \in 1..x.d : x.d =< x.n * Tens[k] /\ x.n * Tens[k - 1] < x.d
           t == Tens[k + 1]
           z == Times(x, Whole(t))
           r == RoundHalfUp(z)
           v == TwoDigits(x)
<1>1. x.n \in Nat \ {0} /\ x.d \in Nat \ {0}
  <2>1. Decimal(Inverted(x)) /\ Inverted(x).d = x.n
    BY InverseIsADecimal DEF Inverted
  <2> QED
    BY <2>1 DEF Decimal
<1>2. k \in 1..x.d /\ x.d =< x.n * Tens[k] /\ x.n * Tens[k - 1] < x.d
  BY <1>1, FirstDigitExists
<1>3. v = Ratio(r, t)
  BY DEF TwoDigits
<1> HIDE DEF k, v
<1>4. k \in Nat \ {0} /\ t \in Nat \ {0}
  <2>1. k \in Nat \ {0} /\ k + 1 \in Nat
    BY <1>1, <1>2
  <2> QED
    BY <2>1, TensGrow
<1> HIDE DEF t
<1>5. Decimal(z) /\ z.n * (x.d * 1) = (x.n * t) * z.d
  BY <1>4, WholeIsADecimal, TimesIsExact
<1> HIDE DEF z
<1>6. Nearest(r, x.n * t, x.d)
  <2>1. x.n * t \in Nat /\ x.d * 1 = x.d
    BY <1>1, <1>4
  <2> QED
    BY <1>1, <1>5, <2>1, RoundedByValue
<1>7. r \in Nat
  BY <1>6 DEF Nearest
<1> HIDE DEF r
<1>8. Decimal(v) /\ v.n * t = r * v.d
  BY <1>3, <1>4, <1>7, RatioIsExact
<1>9. Digits(x, v, k, r)
  BY <1>2, <1>4, <1>6, <1>8 DEF Digits, t
<1> QED
  BY <1>9 DEF v

(* The first digit is there.                                               *)
LEMMA DigitsShow ==
  ASSUME NEW x, Decimal(x), NEW v, NEW k, NEW r, Digits(x, v, k, r)
  PROVE  r >= 10 /\ v.n > 0
<1> DEFINE t == Tens[k]
           u == Tens[k + 1]
<1>1. k \in Nat \ {0} /\ x.d =< x.n * t /\ Nearest(r, x.n * u, x.d) /\ v.n * u = r * v.d
  BY DEF Digits
<1>2. x.n \in Nat /\ x.d \in Nat \ {0} /\ v.n \in Nat /\ v.d \in Nat \ {0}
  BY DEF Digits, Decimal
<1>3. t \in Nat /\ u \in Nat \ {0} /\ u = 10 * t
  BY <1>1, TensGrow
<1> HIDE DEF t, u
<1>4. 10 * x.d =< x.n * u
  <2>1. x.n * u = 10 * (x.n * t)
    BY <1>2, <1>3
  <2> QED
    BY <1>1, <1>2, <1>3, <2>1
<1>5. 10 =< r
  <2>1. x.n * u \in Nat /\ 10 \in Nat
    BY <1>2, <1>3
  <2> QED
    BY <1>1, <1>2, <1>4, <2>1, NearestIsAtLeast
<1>6. r \in Nat
  BY <1>1 DEF Nearest
<1> QED
  BY <1>1, <1>2, <1>3, <1>5, <1>6

(* What is below a tenth or a half stays there.                             *)
LEMMA DigitsStayBelow ==
  ASSUME NEW x, Decimal(x), NEW v, NEW k, NEW r, Digits(x, v, k, r),
         NEW m \in {1, 5}, 10 * x.n =< m * x.d
  PROVE  10 * v.n =< m * v.d
<1> DEFINE t == Tens[k]
           u == Tens[k + 1]
<1>1. k \in Nat \ {0} /\ Nearest(r, x.n * u, x.d) /\ v.n * u = r * v.d
  BY DEF Digits
<1>2. x.n \in Nat /\ x.d \in Nat \ {0} /\ v.n \in Nat /\ v.d \in Nat \ {0}
  BY DEF Digits, Decimal
<1>3. t \in Nat \ {0} /\ u \in Nat \ {0} /\ u = 10 * t
  BY <1>1, TensGrow
<1> HIDE DEF t, u
<1>4. x.n * u =< (m * t) * x.d
  <2>1. (10 * x.n) * t =< (m * x.d) * t
    BY <1>2, <1>3
  <2>2. (10 * x.n) * t = x.n * u /\ (m * x.d) * t = (m * t) * x.d
    BY <1>2, <1>3
  <2> QED
    BY <2>1, <2>2
<1>5. r =< m * t
  <2>1. x.n * u \in Nat /\ m * t \in Nat
    BY <1>2, <1>3
  <2> QED
    BY <1>1, <1>2, <1>4, <2>1, NearestIsAtLeast
<1>6. (10 * v.n) * t =< (m * v.d) * t
  <2>1. r \in Nat /\ m * t \in Nat
    BY <1>1, <1>3 DEF Nearest
  <2>2. r * v.d =< (m * t) * v.d
    BY <1>2, <1>5, <2>1
  <2>3. (10 * v.n) * t = v.n * u /\ (m * v.d) * t = (m * t) * v.d
    BY <1>2, <1>3
  <2> QED
    BY <1>1, <2>2, <2>3
<1> QED
  BY <1>2, <1>3, <1>6

LEMMA DigitsAreMonotone ==
  ASSUME NEW x, NEW y, Decimal(x), Decimal(y), AtMost(x, y),
         NEW v, NEW k, NEW r, Digits(x, v, k, r), NEW w, NEW l, NEW s, Digits(y, w, l, s)
  PROVE  AtMost(v, w)
<1>1. /\ k \in Nat \ {0} /\ Nearest(r, x.n * Tens[k + 1], x.d) /\ v.n * Tens[k + 1] = r * v.d
      /\ l \in Nat \ {0} /\ Nearest(s, y.n * Tens[l + 1], y.d) /\ w.n * Tens[l + 1] = s * w.d
      /\ x.d =< x.n * Tens[k] /\ y.n * Tens[l - 1] < y.d /\ x.n * Tens[k - 1] < x.d
  BY DEF Digits
<1>2. /\ x.n \in Nat /\ x.d \in Nat \ {0} /\ v.n \in Nat /\ v.d \in Nat \ {0}
      /\ y.n \in Nat /\ y.d \in Nat \ {0} /\ w.n \in Nat /\ w.d \in Nat \ {0}
      /\ x.n * y.d =< y.n * x.d
  BY DEF Digits, Decimal, AtMost
<1>3. r \in Nat /\ s \in Nat
  BY <1>1 DEF Nearest
<1>4. CASE k = l
  <2> DEFINE u == Tens[k + 1]
  <2>1. u \in Nat \ {0}
    BY <1>1, TensGrow
  <2>2. Nearest(r, x.n * u, x.d) /\ v.n * u = r * v.d /\ Nearest(s, y.n * u, y.d) /\ w.n * u = s * w.d
    BY <1>1, <1>4
  <2> HIDE DEF u
  <2>3. (x.n * u) * y.d =< (y.n * u) * x.d
    <3>1. (x.n * y.d) * u =< (y.n * x.d) * u
      BY <1>2, <2>1
    <3>2. (x.n * y.d) * u = (x.n * u) * y.d /\ (y.n * x.d) * u = (y.n * u) * x.d
      BY <1>2, <2>1
    <3> QED
      BY <3>1, <3>2
  <2>4. r =< s
    <3>1. x.n * u \in Nat /\ y.n * u \in Nat
      BY <1>2, <2>1
    <3> QED
      BY <1>2, <2>2, <2>3, <3>1, NearestIsMonotone
  <2>5. (v.n * w.d) * u =< (w.n * v.d) * u
    <3>1. (v.n * w.d) * u = r * (v.d * w.d) /\ (w.n * v.d) * u = s * (v.d * w.d)
      <4>1. (v.n * w.d) * u = (v.n * u) * w.d /\ (w.n * v.d) * u = (w.n * u) * v.d
        BY <1>2, <2>1
      <4>2. (r * v.d) * w.d = r * (v.d * w.d) /\ (s * w.d) * v.d = s * (v.d * w.d)
        BY <1>2, <1>3
      <4> QED
        BY <2>2, <4>1, <4>2
    <3> DEFINE c == v.d * w.d
    <3>2. c \in Nat
      BY <1>2
    <3> HIDE DEF c
    <3>3. r * c =< s * c
      BY <1>3, <2>4, <3>2
    <3> QED
      BY <3>1, <3>3 DEF c
  <2>6. v.n * w.d \in Nat /\ w.n * v.d \in Nat
    BY <1>2
  <2>7. v.n * w.d =< w.n * v.d
    BY <2>1, <2>5, <2>6
  <2> QED
    BY <2>7 DEF AtMost
<1>5. CASE k > l
  (* x is below the power of ten that y reaches, and so are their digits.   *)
  <2> DEFINE a == Tens[k - 1]
             b == Tens[l]
  <2>1. k - 1 \in Nat /\ l =< k - 1
    BY <1>1, <1>5
  <2>2. a \in Nat \ {0} /\ b \in Nat \ {0} /\ b =< a
    BY <1>1, <2>1, TensGrow, TensOrdered
  <2>3. Tens[k + 1] = 100 * a /\ Tens[l + 1] = 10 * b
    <3>1. \A j \in Nat : Tens[j + 1] = 10 * Tens[j]
      BY TensGrow
    <3>2. (k - 1) + 1 = k
      BY <1>1
    <3>3. Tens[k] = 10 * a
      BY <2>1, <3>1, <3>2
    <3>4. Tens[k + 1] = 10 * Tens[k] /\ Tens[l + 1] = 10 * b
      BY <1>1, <3>1
    <3> QED
      BY <2>2, <3>3, <3>4
  <2>4. x.n * a < x.d
    BY <1>1
  <2> HIDE DEF a, b
  <2>5. r =< 100
    <3>1. x.n * (100 * a) =< 100 * x.d /\ x.n * (100 * a) \in Nat
      <4>1. x.n * (100 * a) = 100 * (x.n * a) /\ x.n * a \in Nat
        BY <1>2, <2>2
      <4> QED
        BY <1>2, <2>4, <4>1
    <3>2. Nearest(r, x.n * (100 * a), x.d) /\ 100 \in Nat
      BY <1>1, <2>3
    <3> QED
      BY <1>2, <3>1, <3>2, NearestIsAtLeast
  <2>6. s >= 10
    BY DigitsShow
  <2>7. v.n * a =< v.d
    <3>1. v.n * (100 * a) = r * v.d
      BY <1>1, <2>3
    <3>2. r * v.d =< 100 * v.d
      BY <1>2, <1>3, <2>5
    <3>3. v.n * (100 * a) = 100 * (v.n * a) /\ v.n * a \in Nat
      BY <1>2, <2>2
    <3> QED
      BY <1>2, <3>1, <3>2, <3>3
  <2>8. w.d =< w.n * b
    <3>1. w.n * (10 * b) = s * w.d
      BY <1>1, <2>3
    <3>2. 10 * w.d =< s * w.d
      BY <1>2, <1>3, <2>6
    <3>3. w.n * (10 * b) = 10 * (w.n * b) /\ w.n * b \in Nat
      BY <1>2, <2>2
    <3> QED
      BY <1>2, <3>1, <3>2, <3>3
  <2>9. v.n * b =< v.d
    <3>1. v.n * b =< v.n * a
      BY <1>2, <2>2
    <3>2. v.n * b \in Nat /\ v.n * a \in Nat
      BY <1>2, <2>2
    <3> QED
      BY <1>2, <2>7, <3>1, <3>2
  <2>10. v.n * w.d =< w.n * v.d
    <3>1. v.n * w.d =< v.n * (w.n * b)
      BY <1>2, <2>2, <2>8
    <3>2. v.n * (w.n * b) = w.n * (v.n * b)
      BY <1>2, <2>2
    <3>3. w.n * (v.n * b) =< w.n * v.d
      BY <1>2, <2>2, <2>9
    <3>4. v.n * w.d \in Nat /\ v.n * (w.n * b) \in Nat /\ w.n * v.d \in Nat
      BY <1>2, <2>2
    <3> QED
      BY <3>1, <3>2, <3>3, <3>4
  <2> QED
    BY <2>10 DEF AtMost
<1>6. CASE k < l
  <2> DEFINE a == Tens[k]
             b == Tens[l - 1]
  <2>1. l - 1 \in Nat /\ k =< l - 1
    BY <1>1, <1>6
  <2>2. a \in Nat \ {0} /\ b \in Nat \ {0} /\ a =< b
    BY <1>1, <2>1, TensGrow, TensOrdered
  <2>3. x.d =< x.n * a /\ y.n * b < y.d
    BY <1>1
  <2> HIDE DEF a, b
  <2>4. x.d =< x.n * b
    <3>1. x.n * a =< x.n * b /\ x.n * a \in Nat /\ x.n * b \in Nat
      BY <1>2, <2>2
    <3> QED
      BY <1>2, <2>3, <3>1
  <2>5. y.n * x.d =< y.n * (x.n * b)
    BY <1>2, <2>2, <2>4
  <2>6. y.n * (x.n * b) = x.n * (y.n * b)
    BY <1>2, <2>2
  <2>7. x.n # 0
    BY <1>2, <2>2, <2>4
  <2>8. x.n * (y.n * b) < x.n * y.d
    BY <1>2, <2>2, <2>3, <2>7
  <2>9. y.n * x.d \in Nat /\ x.n * (y.n * b) \in Nat /\ x.n * y.d \in Nat
    BY <1>2, <2>2
  <2>10. FALSE
    BY <1>2, <2>5, <2>6, <2>8, <2>9
  <2> QED
    BY <2>10
<1> QED
  BY <1>1, <1>4, <1>5, <1>6

(* What SnapMetric shows: a multiple of its band's step, or the digits of    *)
(* what would be none.                                                     *)
Snapped(x, v, b, r) ==
  /\ b \in Bands /\ Within(x, b) /\ Nearest(r, x.n * b.q, x.d * b.p) /\ OnGrid(v, r, b.p, b.q)
  /\ r = 0 => x = Zero

LEMMA SnapMetricIs ==
  ASSUME NEW x, Decimal(x)
  PROVE  \/ \E b, r : Snapped(x, SnapMetric(x), b, r)
         \/ x # Zero /\ 20 * x.n < x.d /\ \E k, r : Digits(x, SnapMetric(x), k, r)
<1> DEFINE s == MetricStep(x)
           r == RoundHalfUp(Divided(x, s))
           v == Times(s, Whole(r))
<1>1. PICK b \in Bands : Within(x, b) /\ s = [n |-> b.p, d |-> b.q] /\ Decimal(s) /\ s # Zero
  BY StepOfBand
<1>2. x.n \in Nat /\ x.d \in Nat \ {0}
  BY DEF Decimal
<1>3. s.n = b.p /\ s.d = b.q
  BY <1>1
<1>4. SnapMetric(x) = IF x # Zero /\ v = Zero THEN TwoDigits(x) ELSE v
  BY DEF SnapMetric
<1> HIDE DEF s
<1>5. Nearest(r, x.n * b.q, x.d * b.p) /\ OnGrid(v, r, b.p, b.q)
  <2>1. Nearest(r, x.n * s.d, x.d * s.n) /\ OnGrid(v, r, s.n, s.d)
    BY <1>1, RoundedToAStep
  <2> HIDE DEF r, v
  <2> QED
    BY <1>3, <2>1
<1> HIDE DEF r, v
<1>6. r \in Nat /\ b.p \in Nat \ {0} /\ b.q \in Nat \ {0} /\ b.lo \in Nat /\ v.n \in Nat /\ v.d \in Nat \ {0}
  BY <1>5, BandsAre DEF Nearest, OnGrid, Decimal
<1>7. CASE r # 0 \/ x = Zero
  <2>1. v # Zero \/ x = Zero
    <3> SUFFICES ASSUME r # 0, v = Zero PROVE FALSE
      BY <1>7
    <3>1. v.n = 0
      BY DEF Zero, Whole
    <3>2. r * b.p # 0
      BY <1>6
    <3>3. 0 = (r * b.p) * v.d
      BY <1>5, <1>6, <3>1 DEF OnGrid
    <3> DEFINE m == r * b.p
    <3>4. m \in Nat \ {0} /\ m * v.d = 0
      BY <1>6, <3>2, <3>3
    <3> HIDE DEF m
    <3> QED
      BY <1>6, <3>4
  <2>2. SnapMetric(x) = v
    BY <1>4, <2>1
  <2>3. Snapped(x, v, b, r)
    BY <1>1, <1>5, <1>7 DEF Snapped
  <2> QED
    BY <2>2, <2>3
<1>8. CASE r = 0 /\ x # Zero
  <2>1. b.lo = 0
    <3> SUFFICES ASSUME b.lo # 0 PROVE FALSE
      OBVIOUS
    <3>1. PICK l \in Nat : l * b.p = b.lo * b.q /\ l # 0
      BY BandsAre
    <3>2. l * (x.d * b.p) =< x.n * b.q
      <4>1. b.lo * x.d =< x.n
        BY <1>1 DEF Within
      <4>2. (b.lo * x.d) * b.q =< x.n * b.q
        <5> DEFINE m == b.lo * x.d
        <5>1. m \in Nat /\ m =< x.n
          BY <1>2, <1>6, <4>1
        <5> HIDE DEF m
        <5>2. m * b.q =< x.n * b.q
          BY <1>2, <1>6, <5>1
        <5> QED
          BY <5>2 DEF m
      <4>3. (b.lo * x.d) * b.q = (b.lo * b.q) * x.d /\ (l * b.p) * x.d = l * (x.d * b.p)
        BY <1>2, <1>6
      <4> QED
        BY <3>1, <4>2, <4>3
    <3>3. x.n * b.q \in Nat /\ x.d * b.p \in Nat \ {0}
      BY <1>2, <1>6
    <3>4. l =< r
      BY <1>5, <3>2, <3>3, NearestIsAtLeast
    <3> QED
      BY <1>8, <3>1, <3>4
  <2>2. b.p = 1 /\ b.q = 10
    BY <2>1, BandsAre
  <2>3. 20 * x.n < x.d
    BY <1>2, <1>5, <1>8, <2>2 DEF Nearest
  <2>4. v = Zero
    <3>1. v.n * 10 = 0
      BY <1>5, <1>6, <1>8, <2>2 DEF OnGrid
    <3>2. v.n = 0
      BY <1>6, <3>1
    <3>3. Decimal(v) /\ Decimal(Zero) /\ Zero.n = 0 /\ Zero.d = 1
      BY <1>5, WholeIsADecimal DEF OnGrid, Zero
    <3>4. v.n * Zero.d = Zero.n * v.d
      BY <1>6, <3>2, <3>3
    <3> QED
      BY <3>3, <3>4, SameDecimal
  <2>5. SnapMetric(x) = TwoDigits(x)
    BY <1>4, <1>8, <2>4
  <2>6. x.n < x.d
    BY <1>2, <2>3
  <2> QED
    BY <1>8, <2>3, <2>5, <2>6, TwoDigitsAre
<1> QED
  BY <1>7, <1>8

(* A number stays on its side of a multiple of the step.                    *)
LEMMA GridBounds ==
  ASSUME NEW v, NEW r \in Nat, NEW p \in Nat \ {0}, NEW q \in Nat \ {0}, OnGrid(v, r, p, q),
         NEW m \in Nat, NEW c \in Nat, m * p = c * q
  PROVE  (r =< m => v.n =< c * v.d) /\ (m =< r => c * v.d =< v.n)
<1>1. v.n \in Nat /\ v.d \in Nat \ {0} /\ v.n * q = (r * p) * v.d
  BY DEF OnGrid, Decimal
<1> DEFINE g == p * v.d
<1>2. g \in Nat
  BY <1>1
<1>3. v.n * q = r * g
  BY <1>1
<1>4. (c * v.d) * q = m * g
  <2>1. (c * v.d) * q = (c * q) * v.d /\ m * g = (m * p) * v.d
    BY <1>1
  <2> QED
    BY <2>1
<1> HIDE DEF g
<1>5. (r =< m => r * g =< m * g) /\ (m =< r => m * g =< r * g)
  BY <1>2
<1>6. c * v.d \in Nat
  BY <1>1
<1> QED
  BY <1>1, <1>3, <1>4, <1>5, <1>6

(* What is snapped stays in its band, and grows within it.                  *)
LEMMA SnappedStays ==
  ASSUME NEW x, Decimal(x), NEW v, NEW b, NEW r, Snapped(x, v, b, r)
  PROVE  b.lo * v.d =< v.n /\ (b.hi # 0 => v.n =< b.hi * v.d)
<1>1. /\ b \in Bands /\ Within(x, b) /\ Nearest(r, x.n * b.q, x.d * b.p) /\ OnGrid(v, r, b.p, b.q)
      /\ b.p \in Nat \ {0} /\ b.q \in Nat \ {0} /\ b.lo \in Nat /\ b.hi \in Nat
  BY BandsAre DEF Snapped
<1>2. x.n \in Nat /\ x.d \in Nat \ {0} /\ r \in Nat
  BY <1>1 DEF Decimal, Nearest
<1>3. x.n * b.q \in Nat /\ x.d * b.p \in Nat \ {0}
  BY <1>1, <1>2
<1>4. PICK l \in Nat : l * b.p = b.lo * b.q
  BY <1>1, BandsAre
<1>5. PICK h \in Nat : h * b.p = b.hi * b.q
  BY <1>1, BandsAre
<1>6. \A c, m \in Nat : m * b.p = c * b.q => (c * x.d) * b.q = m * (x.d * b.p)
  <2> SUFFICES ASSUME NEW c \in Nat, NEW m \in Nat, m * b.p = c * b.q
               PROVE  (c * x.d) * b.q = m * (x.d * b.p)
    OBVIOUS
  <2>1. (c * x.d) * b.q = (c * b.q) * x.d /\ m * (x.d * b.p) = (m * b.p) * x.d
    BY <1>1, <1>2
  <2> QED
    BY <2>1
<1>7. l =< r
  <2> DEFINE c == b.lo * x.d
  <2>1. c \in Nat /\ c =< x.n
    BY <1>1, <1>2 DEF Within
  <2>2. c * b.q = l * (x.d * b.p)
    BY <1>1, <1>4, <1>6
  <2> HIDE DEF c
  <2>3. c * b.q =< x.n * b.q
    BY <1>1, <1>2, <2>1
  <2> QED
    BY <1>1, <1>3, <2>2, <2>3, NearestIsAtLeast
<1>8. b.hi # 0 => r =< h
  <2> SUFFICES ASSUME b.hi # 0 PROVE r =< h
    OBVIOUS
  <2> DEFINE c == b.hi * x.d
  <2>1. c \in Nat /\ x.n =< c
    BY <1>1, <1>2 DEF Within
  <2>2. c * b.q = h * (x.d * b.p)
    BY <1>1, <1>5, <1>6
  <2> HIDE DEF c
  <2>3. x.n * b.q =< c * b.q
    BY <1>1, <1>2, <2>1
  <2> QED
    BY <1>1, <1>3, <2>2, <2>3, NearestIsAtLeast
<1> QED
  BY <1>1, <1>2, <1>4, <1>5, <1>7, <1>8, GridBounds

LEMMA GridOrder ==
  ASSUME NEW v, NEW w, NEW r \in Nat, NEW s \in Nat, NEW p \in Nat \ {0}, NEW q \in Nat \ {0},
         OnGrid(v, r, p, q), OnGrid(w, s, p, q), r =< s
  PROVE  AtMost(v, w)
<1>1. /\ v.n \in Nat /\ v.d \in Nat \ {0} /\ v.n * q = (r * p) * v.d
      /\ w.n \in Nat /\ w.d \in Nat \ {0} /\ w.n * q = (s * p) * w.d
  BY DEF OnGrid, Decimal
<1> DEFINE g == p * (v.d * w.d)
<1>2. g \in Nat
  <2>1. v.d * w.d \in Nat
    BY <1>1
  <2> QED
    BY <2>1
<1>3. (v.n * w.d) * q = r * g
  <2>1. (v.n * w.d) * q = (v.n * q) * w.d /\ ((r * p) * v.d) * w.d = r * g
    BY <1>1
  <2> QED
    BY <1>1, <2>1
<1>4. (w.n * v.d) * q = s * g
  <2>1. (w.n * v.d) * q = (w.n * q) * v.d
    BY <1>1
  <2>2. ((s * p) * w.d) * v.d = ((s * p) * v.d) * w.d
    BY <1>1
  <2>3. ((s * p) * v.d) * w.d = s * g
    BY <1>1
  <2> QED
    BY <1>1, <2>1, <2>2, <2>3
<1> HIDE DEF g
<1>5. r * g =< s * g
  BY <1>2
<1>6. v.n * w.d \in Nat /\ w.n * v.d \in Nat
  BY <1>1
<1>7. v.n * w.d =< w.n * v.d
  BY <1>3, <1>4, <1>5, <1>6
<1> QED
  BY <1>7 DEF AtMost

LEMMA SnappedGrows ==
  ASSUME NEW x, NEW y, Decimal(x), Decimal(y), AtMost(x, y),
         NEW v, NEW b, NEW r, Snapped(x, v, b, r), NEW w, NEW s, Snapped(y, w, b, s)
  PROVE  AtMost(v, w)
<1>1. /\ Nearest(r, x.n * b.q, x.d * b.p) /\ OnGrid(v, r, b.p, b.q)
      /\ Nearest(s, y.n * b.q, y.d * b.p) /\ OnGrid(w, s, b.p, b.q)
      /\ b.p \in Nat \ {0} /\ b.q \in Nat \ {0}
  BY BandsAre DEF Snapped
<1>2. x.n \in Nat /\ x.d \in Nat \ {0} /\ y.n \in Nat /\ y.d \in Nat \ {0} /\ x.n * y.d =< y.n * x.d
  BY DEF Decimal, AtMost
<1>3. r \in Nat /\ s \in Nat
  BY <1>1 DEF Nearest
<1>4. (x.n * b.q) * (y.d * b.p) =< (y.n * b.q) * (x.d * b.p)
  <2> DEFINE g == b.q * b.p
  <2>1. g \in Nat
    BY <1>1
  <2>2. (x.n * b.q) * (y.d * b.p) = (x.n * y.d) * g /\ (y.n * b.q) * (x.d * b.p) = (y.n * x.d) * g
    BY <1>1, <1>2
  <2> HIDE DEF g
  <2>3. (x.n * y.d) * g =< (y.n * x.d) * g
    BY <1>2, <2>1
  <2> QED
    BY <2>2, <2>3
<1>5. x.n * b.q \in Nat /\ x.d * b.p \in Nat \ {0} /\ y.n * b.q \in Nat /\ y.d * b.p \in Nat \ {0}
  BY <1>1, <1>2
<1>6. r =< s
  BY <1>1, <1>4, <1>5, NearestIsMonotone
<1> QED
  BY <1>1, <1>3, <1>6, GridOrder

(* The greater amount is shown as the greater number, or the same one.       *)
THEOREM SnapMetricIsMonotone ==
  ASSUME NEW x, NEW y, Decimal(x), Decimal(y), AtMost(x, y)
  PROVE  Decimal(SnapMetric(x)) /\ Decimal(SnapMetric(y)) /\ AtMost(SnapMetric(x), SnapMetric(y))
<1> DEFINE v == SnapMetric(x)
           w == SnapMetric(y)
           ByBand(z, u)   == \E b, r : Snapped(z, u, b, r)
           ByDigits(z, u) == z # Zero /\ 20 * z.n < z.d /\ \E k, r : Digits(z, u, k, r)
<1>1. (ByBand(x, v) \/ ByDigits(x, v)) /\ (ByBand(y, w) \/ ByDigits(y, w))
  BY SnapMetricIs
<1>2. Decimal(v) /\ Decimal(w)
  BY <1>1 DEF Snapped, OnGrid, Digits
<1> SUFFICES AtMost(v, w)
  BY <1>2
<1> HIDE DEF v, w
<1>3. /\ x.n \in Nat /\ x.d \in Nat \ {0} /\ y.n \in Nat /\ y.d \in Nat \ {0} /\ x.n * y.d =< y.n * x.d
      /\ v.n \in Nat /\ v.d \in Nat \ {0} /\ w.n \in Nat /\ w.d \in Nat \ {0}
  BY <1>2 DEF Decimal, AtMost
<1>4. \A c \in Nat, e \in Nat \ {0} : y.n * e < c * y.d => x.n * e < c * x.d
  <2> SUFFICES ASSUME NEW c \in Nat, NEW e \in Nat \ {0}, y.n * e < c * y.d PROVE x.n * e < c * x.d
    OBVIOUS
  <2>1. (x.n * y.d) * e =< (y.n * x.d) * e
    BY <1>3
  <2>2. (y.n * e) * x.d < (c * y.d) * x.d
    BY <1>3
  <2>3. (x.n * y.d) * e = (x.n * e) * y.d /\ (y.n * x.d) * e = (y.n * e) * x.d /\ (c * y.d) * x.d = (c * x.d) * y.d
    BY <1>3
  <2>4. (x.n * e) * y.d \in Nat /\ (y.n * e) * x.d \in Nat /\ (c * x.d) * y.d \in Nat
    BY <1>3
  <2>5. (x.n * e) * y.d < (c * x.d) * y.d
    BY <2>1, <2>2, <2>3, <2>4
  <2>6. x.n * e \in Nat /\ c * x.d \in Nat
    BY <1>3
  <2> QED
    BY <1>3, <2>5, <2>6
<1>5. \A c \in Nat, e \in Nat \ {0} : v.n * e =< c * v.d /\ c * w.d =< w.n * e => AtMost(v, w)
  <2> SUFFICES ASSUME NEW c \in Nat, NEW e \in Nat \ {0}, v.n * e =< c * v.d, c * w.d =< w.n * e
               PROVE  v.n * w.d =< w.n * v.d
    BY DEF AtMost
  <2>1. (v.n * e) * w.d =< (c * v.d) * w.d
    BY <1>3
  <2>2. (c * w.d) * v.d =< (w.n * e) * v.d
    BY <1>3
  <2>3. (v.n * e) * w.d = (v.n * w.d) * e /\ (c * v.d) * w.d = (c * w.d) * v.d /\ (w.n * e) * v.d = (w.n * v.d) * e
    BY <1>3
  <2>4. (v.n * w.d) * e \in Nat /\ (c * w.d) * v.d \in Nat /\ (w.n * v.d) * e \in Nat
    BY <1>3
  <2>5. (v.n * w.d) * e =< (w.n * v.d) * e
    BY <2>1, <2>2, <2>3, <2>4
  <2>6. v.n * w.d \in Nat /\ w.n * v.d \in Nat
    BY <1>3
  <2> QED
    BY <2>5, <2>6
<1>6. CASE ByBand(x, v) /\ ByBand(y, w)
  <2>1. PICK b, r, c, s : Snapped(x, v, b, r) /\ Snapped(y, w, c, s)
    BY <1>6
  <2>2. /\ b \in Bands /\ c \in Bands /\ Within(x, b) /\ Within(y, c)
        /\ b.lo \in Nat /\ b.hi \in Nat /\ c.lo \in Nat /\ c.hi \in Nat
    BY <2>1, BandsAre DEF Snapped
  <2>3. CASE b = c
    BY <2>1, <2>3, SnappedGrows
  <2>4. CASE b.hi # 0 /\ b.hi =< c.lo
    <3>1. v.n =< b.hi * v.d /\ c.lo * w.d =< w.n
      BY <2>1, <2>4, SnappedStays
    <3>2. b.hi * w.d =< c.lo * w.d /\ b.hi * w.d \in Nat /\ c.lo * w.d \in Nat
      BY <1>3, <2>2, <2>4
    <3>3. v.n * 1 =< b.hi * v.d /\ b.hi * w.d =< w.n * 1
      BY <1>3, <3>1, <3>2
    <3> QED
      BY <1>5, <2>2, <3>3
  <2>5. CASE c.hi # 0 /\ c.hi =< b.lo
    <3>1. y.n * 1 < c.hi * y.d
      BY <1>3, <2>2, <2>5 DEF Within
    <3>2. x.n * 1 < c.hi * x.d
      BY <1>4, <2>2, <3>1
    <3>3. c.hi * x.d =< b.lo * x.d /\ c.hi * x.d \in Nat /\ b.lo * x.d \in Nat
      BY <1>3, <2>2, <2>5
    <3>4. b.lo * x.d =< x.n
      BY <2>2 DEF Within
    <3>5. FALSE
      BY <1>3, <3>2, <3>3, <3>4
    <3> QED
      BY <3>5
  <2> QED
    BY <2>2, <2>3, <2>4, <2>5, BandsAre
<1>7. CASE ByDigits(x, v) /\ ByBand(y, w)
  <2>1. PICK k, r : Digits(x, v, k, r)
    BY <1>7
  <2>2. PICK c, s : Snapped(y, w, c, s)
    BY <1>7
  <2>3. /\ c \in Bands /\ OnGrid(w, s, c.p, c.q) /\ c.lo \in Nat /\ c.p \in Nat \ {0} /\ c.q \in Nat \ {0} /\ s \in Nat
        /\ s = 0 => y = Zero
    BY <2>2, BandsAre DEF Snapped, Nearest
  <2>4. y # Zero
    <3> SUFFICES ASSUME y = Zero PROVE FALSE
      OBVIOUS
    <3>1. y.n = 0 /\ y.d = 1
      BY DEF Zero, Whole
    <3>2. x.n = 0
      BY <1>3, <3>1
    <3>3. x.n * Zero.d = Zero.n * x.d /\ Decimal(Zero)
      BY <1>3, <3>2, WholeIsADecimal DEF Zero, Whole
    <3>4. x = Zero
      BY <3>3, SameDecimal
    <3> QED
      BY <1>7, <3>4
  <2>5. v.n * 10 =< 1 * v.d
    <3>1. 10 * x.n =< 1 * x.d
      BY <1>3, <1>7
    <3>2. 10 * v.n =< 1 * v.d
      BY <2>1, <3>1, DigitsStayBelow
    <3> QED
      BY <1>3, <3>2
  <2>6. 1 * w.d =< w.n * 10
    <3>1. CASE c.lo = 0
      <4>1. c.p = 1 /\ c.q = 10
        BY <2>3, <3>1, BandsAre
      <4>2. w.n * 10 = s * w.d
        BY <1>3, <2>3, <4>1 DEF OnGrid
      <4>3. s >= 1
        BY <2>3, <2>4
      <4>4. 1 * w.d =< s * w.d
        BY <1>3, <2>3, <4>3
      <4> QED
        BY <4>2, <4>4
    <3>2. CASE c.lo # 0
      <4>1. c.lo * w.d =< w.n
        BY <2>2, SnappedStays
      <4>2. w.d =< c.lo * w.d /\ c.lo * w.d \in Nat
        <5> DEFINE m == c.lo
        <5>1. m \in Nat \ {0}
          BY <2>3, <3>2
        <5> HIDE DEF m
        <5>2. w.d =< m * w.d /\ m * w.d \in Nat
          BY <1>3, <5>1
        <5> QED
          BY <5>2 DEF m
      <4> QED
        BY <1>3, <4>1, <4>2
    <3> QED
      BY <3>1, <3>2
  <2> QED
    BY <1>5, <2>5, <2>6
<1>8. CASE ByBand(x, v) /\ ByDigits(y, w)
  <2>1. PICK b, r : Snapped(x, v, b, r)
    BY <1>8
  <2>2. /\ b \in Bands /\ Within(x, b) /\ Nearest(r, x.n * b.q, x.d * b.p) /\ OnGrid(v, r, b.p, b.q)
        /\ b.lo \in Nat /\ b.p \in Nat \ {0} /\ b.q \in Nat \ {0} /\ r \in Nat
    BY <2>1, BandsAre DEF Snapped, Nearest
  <2>3. x.n * 20 < 1 * x.d
    <3>1. y.n * 20 < 1 * y.d
      BY <1>3, <1>8
    <3>2. 1 \in Nat /\ 20 \in Nat \ {0}
      OBVIOUS
    <3> QED
      BY <1>4, <3>1, <3>2
  <2>4. b.lo = 0
    <3> SUFFICES ASSUME b.lo # 0 PROVE FALSE
      OBVIOUS
    <3>1. b.lo * x.d =< x.n /\ x.d =< b.lo * x.d /\ b.lo * x.d \in Nat
      BY <1>3, <2>2 DEF Within
    <3> QED
      BY <1>3, <2>3, <3>1
  <2>5. b.p = 1 /\ b.q = 10
    BY <2>2, <2>4, BandsAre
  <2>6. r = 0
    <3> SUFFICES ASSUME r >= 1 PROVE FALSE
      BY <2>2
    <3>1. (2 * r - 1) * x.d =< 20 * x.n
      BY <1>3, <2>2, <2>5 DEF Nearest
    <3> DEFINE m == 2 * r - 1
    <3>2. m \in Nat /\ m >= 1 /\ m * x.d =< 20 * x.n
      BY <2>2, <3>1
    <3> HIDE DEF m
    <3>3. x.d =< m * x.d /\ m * x.d \in Nat
      BY <1>3, <3>2
    <3> QED
      BY <1>3, <2>3, <3>2, <3>3
  <2>7. v.n = 0
    <3>1. v.n * 10 = 0
      BY <1>3, <2>2, <2>5, <2>6 DEF OnGrid
    <3> QED
      BY <1>3, <3>1
  <2> QED
    BY <1>3, <2>7 DEF AtMost
<1>9. CASE ByDigits(x, v) /\ ByDigits(y, w)
  <2>1. PICK k, r, l, s : Digits(x, v, k, r) /\ Digits(y, w, l, s)
    BY <1>9
  <2> QED
    BY <2>1, DigitsAreMonotone
<1> QED
  BY <1>1, <1>6, <1>7, <1>8, <1>9

LEMMA ZeroIsNothing == ASSUME NEW x, Decimal(x) PROVE x = Zero <=> x.n = 0
<1>1. Decimal(Zero) /\ Zero.n = 0 /\ Zero.d = 1
  BY WholeIsADecimal DEF Zero
<1>2. ASSUME x.n = 0 PROVE x = Zero
  <2>1. x.n * Zero.d = Zero.n * x.d
    BY <1>1, <1>2 DEF Decimal
  <2> QED
    BY <1>1, <2>1, SameDecimal
<1> QED
  BY <1>1, <1>2

(* Never "0 g of saffron".                                                 *)
THEOREM SnapMetricShows ==
  ASSUME NEW x, Decimal(x), x # Zero PROVE SnapMetric(x).n > 0
<1> DEFINE v == SnapMetric(x)
<1>1. CASE \E b, r : Snapped(x, v, b, r)
  <2>1. PICK b, r : Snapped(x, v, b, r)
    BY <1>1
  <2> HIDE DEF v
  <2>2. /\ r \in Nat \ {0} /\ b.p \in Nat \ {0} /\ b.q \in Nat \ {0}
        /\ v.n \in Nat /\ v.d \in Nat \ {0} /\ v.n * b.q = (r * b.p) * v.d
    BY <2>1, BandsAre DEF Snapped, Nearest, OnGrid, Decimal
  <2>3. r * b.p \in Nat \ {0}
    BY <2>2
  <2> DEFINE m == r * b.p
  <2>4. m \in Nat \ {0} /\ v.n * b.q = m * v.d
    BY <2>2, <2>3
  <2> HIDE DEF m
  <2>5. m * v.d > 0
    BY <2>2, <2>4
  <2>6. v.n # 0
    BY <2>2, <2>4, <2>5
  <2> QED
    BY <2>2, <2>6 DEF v
<1>2. CASE \E k, r : Digits(x, v, k, r)
  BY <1>2, DigitsShow
<1> QED
  BY <1>1, <1>2, SnapMetricIs

(* format_count: whole pieces, or halves.                                  *)
THEOREM CountsGrow ==
  ASSUME NEW x, NEW y, Decimal(x), Decimal(y), AtMost(x, y), NEW divisible \in BOOLEAN
  PROVE  LET v == FormatCount(x, divisible)
             w == FormatCount(y, divisible) IN
         /\ Decimal(v) /\ Decimal(w) /\ AtMost(v, w)
         /\ x # Zero => v.n > 0
<1> DEFINE Pieces(z) == RoundHalfUp(z)
           Twice(z)  == Times(z, Whole(2))
           Halves(z) == RoundHalfUp(Twice(z))
           v == FormatCount(x, divisible)
           w == FormatCount(y, divisible)
<1>1. x.n \in Nat /\ x.d \in Nat \ {0} /\ y.n \in Nat /\ y.d \in Nat \ {0} /\ x.n * y.d =< y.n * x.d
  BY DEF Decimal, AtMost
<1>2. x # Zero => y # Zero
  <2> SUFFICES ASSUME y = Zero PROVE x = Zero
    OBVIOUS
  <2>1. y.n = 0
    BY ZeroIsNothing
  <2>2. x.n = 0
    BY <1>1, <2>1
  <2> QED
    BY <2>2, ZeroIsNothing
<1>3. CASE ~divisible
  <2>1. Nearest(Pieces(x), x.n, x.d) /\ Nearest(Pieces(y), y.n, y.d)
    BY <1>1, RoundedByValue
  <2>2. Pieces(x) =< Pieces(y)
    BY <1>1, <2>1, NearestIsMonotone
  <2>3. Pieces(x) \in Nat /\ Pieces(y) \in Nat
    BY <2>1 DEF Nearest
  <2> DEFINE a == IF Pieces(x) = 0 /\ x # Zero THEN 1 ELSE Pieces(x)
             b == IF Pieces(y) = 0 /\ y # Zero THEN 1 ELSE Pieces(y)
  <2>4. v = Whole(a) /\ w = Whole(b)
    BY <1>3 DEF FormatCount
  <2> HIDE DEF Pieces, v, w
  <2>5. a \in Nat /\ b \in Nat /\ a =< b /\ (x # Zero => a > 0)
    BY <1>2, <2>2, <2>3
  <2> HIDE DEF a, b
  <2>6. Decimal(v) /\ v.n = a /\ v.d = 1 /\ Decimal(w) /\ w.n = b /\ w.d = 1
    BY <2>4, <2>5, WholeIsADecimal
  <2>7. AtMost(v, w)
    BY <2>5, <2>6 DEF AtMost
  <2> QED
    BY <2>5, <2>6, <2>7 DEF v, w
<1>4. CASE divisible
  <2> DEFINE Half(z) == Ratio(Halves(z), 2)
             Shows(z, u) == \/ u = Half(z) /\ (Halves(z) = 0 => z = Zero)
                            \/ z # Zero /\ u = TwoDigits(z) /\ Halves(z) = 0
  <2>1. ASSUME NEW z, Decimal(z)
        PROVE  /\ Nearest(Halves(z), z.n * 2, z.d) /\ Halves(z) \in Nat
               /\ OnGrid(Half(z), Halves(z), 1, 2) /\ Shows(z, FormatCount(z, divisible))
    <3>1. z.n \in Nat /\ z.d \in Nat \ {0}
      BY <2>1 DEF Decimal
    <3>2. Decimal(Twice(z)) /\ Twice(z).n * (z.d * 1) = (z.n * 2) * Twice(z).d
      BY <2>1, WholeIsADecimal, TimesIsExact
    <3> HIDE DEF Twice
    <3>3. Nearest(Halves(z), z.n * 2, z.d)
      <4>1. z.n * 2 \in Nat /\ z.d * 1 = z.d
        BY <3>1
      <4> QED
        BY <3>1, <3>2, <4>1, RoundedByValue
    <3>4. Halves(z) \in Nat
      BY <3>3 DEF Nearest
    <3>5. FormatCount(z, divisible) = IF Half(z) = Zero /\ z # Zero THEN TwoDigits(z) ELSE Half(z)
      BY <1>4 DEF FormatCount, Twice
    <3> HIDE DEF Halves
    <3>6. Decimal(Half(z)) /\ Half(z).n * 2 = Halves(z) * Half(z).d
      BY <3>4, RatioIsExact
    <3> HIDE DEF Half
    <3>7. OnGrid(Half(z), Halves(z), 1, 2)
      BY <3>4, <3>6 DEF OnGrid
    <3>8. Half(z) = Zero <=> Halves(z) = 0
      <4>1. Half(z).n \in Nat /\ Half(z).d \in Nat \ {0}
        BY <3>6 DEF Decimal
      <4>2. Half(z).n = 0 <=> Halves(z) = 0
        BY <3>4, <3>6, <4>1
      <4> QED
        BY <3>6, <4>2, ZeroIsNothing
    <3> QED
      BY <3>3, <3>4, <3>5, <3>7, <3>8
  <2>2. Shows(x, v) /\ Shows(y, w)
    BY <2>1
  <2>3. /\ Nearest(Halves(x), x.n * 2, x.d) /\ Halves(x) \in Nat /\ OnGrid(Half(x), Halves(x), 1, 2)
        /\ Nearest(Halves(y), y.n * 2, y.d) /\ Halves(y) \in Nat /\ OnGrid(Half(y), Halves(y), 1, 2)
    BY <2>1
  <2> HIDE DEF Halves, Half, v, w
  <2>4. Halves(x) =< Halves(y)
    <3>1. (x.n * 2) * y.d =< (y.n * 2) * x.d
      BY <1>1
    <3>2. x.n * 2 \in Nat /\ y.n * 2 \in Nat
      BY <1>1
    <3> QED
      BY <1>1, <2>3, <3>1, <3>2, NearestIsMonotone
  <2>5. \A z, u : Decimal(z) /\ Halves(z) \in Nat /\ Halves(z) = 0 /\ Nearest(Halves(z), z.n * 2, z.d)
                  => z.n < z.d /\ 10 * z.n =< 5 * z.d
    BY DEF Nearest, Decimal
  <2>6. CASE v = Half(x) /\ (Halves(x) = 0 => x = Zero) /\ w = Half(y)
    <3>1. Decimal(v) /\ Decimal(w) /\ AtMost(v, w)
      <4>1. OnGrid(v, Halves(x), 1, 2) /\ OnGrid(w, Halves(y), 1, 2)
        BY <2>3, <2>6
      <4>2. Decimal(v) /\ Decimal(w)
        BY <4>1 DEF OnGrid
      <4>3. 1 \in Nat \ {0} /\ 2 \in Nat \ {0}
        OBVIOUS
      <4>4. Halves(x) \in Nat /\ Halves(y) \in Nat
        BY <2>3
      <4>5. AtMost(v, w)
        BY <2>4, <4>1, <4>2, <4>3, <4>4, GridOrder
      <4> QED
        BY <4>2, <4>5
    <3>2. v.n * 2 = Halves(x) * v.d /\ v.n \in Nat /\ v.d \in Nat \ {0}
      BY <2>3, <2>6, <3>1 DEF OnGrid, Decimal
    <3>3. x # Zero => v.n > 0
      BY <2>3, <2>6, <3>2
    <3> QED
      BY <3>1, <3>3 DEF v, w
  <2>7. CASE x # Zero /\ v = TwoDigits(x) /\ Halves(x) = 0
    <3>1. x.n < x.d /\ 10 * x.n =< 5 * x.d
      BY <2>3, <2>5, <2>7
    <3>2. PICK k, r : Digits(x, v, k, r)
      BY <2>7, <3>1, TwoDigitsAre
    <3>3. Decimal(v) /\ v.n > 0
      BY <3>2, DigitsShow DEF Digits
    <3>4. CASE w = TwoDigits(y) /\ Halves(y) = 0
      <4>1. y.n < y.d /\ y # Zero
        BY <1>2, <2>3, <2>5, <2>7, <3>4
      <4>2. PICK l, s : Digits(y, w, l, s)
        BY <3>4, <4>1, TwoDigitsAre
      <4>3. AtMost(v, w) /\ Decimal(w)
        BY <3>2, <4>2, DigitsAreMonotone DEF Digits
      <4> QED
        BY <3>3, <4>3 DEF v, w
    <3>5. CASE w = Half(y) /\ Halves(y) # 0
      <4>1. 10 * v.n =< 5 * v.d
        BY <3>1, <3>2, DigitsStayBelow
      <4>2. Decimal(w) /\ w.n * 2 = Halves(y) * w.d
        BY <2>3, <3>5 DEF OnGrid
      <4>3. v.n \in Nat /\ v.d \in Nat \ {0} /\ w.n \in Nat /\ w.d \in Nat \ {0}
        BY <3>3, <4>2 DEF Decimal
      <4>4. w.d =< w.n * 2
        <5>1. w.d =< Halves(y) * w.d
          BY <2>3, <3>5, <4>3
        <5> QED
          BY <4>2, <5>1
      <4>5. (v.n * 2) * w.d =< v.d * (w.n * 2)
        <5>1. v.n * 2 =< v.d
          BY <4>1, <4>3
        <5>2. (v.n * 2) * w.d =< v.d * w.d
          BY <4>3, <5>1
        <5>3. v.d * w.d =< v.d * (w.n * 2)
          BY <4>3, <4>4
        <5>4. (v.n * 2) * w.d \in Nat /\ v.d * w.d \in Nat /\ v.d * (w.n * 2) \in Nat
          BY <4>3
        <5> QED
          BY <5>2, <5>3, <5>4
      <4>6. v.n * w.d =< w.n * v.d
        <5>1. (v.n * 2) * w.d = 2 * (v.n * w.d) /\ v.d * (w.n * 2) = 2 * (w.n * v.d)
          BY <4>3
        <5>2. v.n * w.d \in Nat /\ w.n * v.d \in Nat
          BY <4>3
        <5> QED
          BY <4>5, <5>1, <5>2
      <4> QED
        BY <3>3, <4>2, <4>6 DEF AtMost, v, w
    <3> QED
      BY <1>2, <2>2, <2>7, <3>4, <3>5
  <2>8. CASE v = Half(x) /\ (Halves(x) = 0 => x = Zero) /\ y # Zero /\ w = TwoDigits(y) /\ Halves(y) = 0
    <3>1. Halves(x) = 0 /\ x = Zero
      BY <2>3, <2>4, <2>8
    <3>2. Decimal(v) /\ v.n * 2 = 0 * v.d
      BY <2>3, <2>8, <3>1 DEF OnGrid
    <3>3. v.n = 0 /\ v.d \in Nat \ {0}
      BY <3>2 DEF Decimal
    <3>4. y.n < y.d
      BY <2>3, <2>5, <2>8
    <3>5. PICK l, s : Digits(y, w, l, s)
      BY <2>8, <3>4, TwoDigitsAre
    <3>6. Decimal(w) /\ w.n \in Nat /\ w.d \in Nat
      BY <3>5 DEF Digits, Decimal
    <3>7. AtMost(v, w)
      BY <3>3, <3>6 DEF AtMost
    <3> QED
      BY <3>1, <3>2, <3>6, <3>7 DEF v, w
  <2> QED
    BY <2>2, <2>6, <2>7, <2>8
<1> QED
  BY <1>3, <1>4

-----------------------------------------------------------------------------
(* Scaling and converting keep the order, and the numbers a reader is shown *)
(* stand in it.                                                            *)

(* A factor keeps the order of two amounts, and makes nothing of none.       *)
LEMMA TimesGrow ==
  ASSUME NEW x, NEW y, NEW f, Decimal(x), Decimal(y), Decimal(f), f.n > 0
  PROVE  /\ Decimal(Times(x, f)) /\ (x # Zero => Times(x, f) # Zero)
         /\ AtMost(x, y) => AtMost(Times(x, f), Times(y, f))
<1> DEFINE Product(z) == [n |-> z.n * f.n, d |-> z.d * f.d]
<1>1. ASSUME NEW z, Decimal(z)
      PROVE  /\ z.n \in Nat /\ z.d \in Nat \ {0} /\ f.n \in Nat \ {0} /\ f.d \in Nat \ {0}
             /\ Fraction(Product(z)) /\ Fraction(Times(z, f)) /\ Decimal(Times(z, f))
             /\ AtMost(Product(z), Times(z, f)) /\ AtMost(Times(z, f), Product(z))
             /\ Times(z, f).n * Product(z).d = Product(z).n * Times(z, f).d
  <2>1. z.n \in Nat /\ z.d \in Nat \ {0} /\ f.n \in Nat \ {0} /\ f.d \in Nat \ {0}
    BY <1>1 DEF Decimal
  <2> DEFINE w == Times(z, f)
  <2>2. Decimal(w) /\ w.n * (z.d * f.d) = (z.n * f.n) * w.d
    BY <1>1, TimesIsExact
  <2> HIDE DEF w
  <2>3. w.n \in Nat /\ w.d \in Nat \ {0}
    BY <2>2 DEF Decimal
  <2> DEFINE a == z.n * f.n
             b == z.d * f.d
  <2>4. a \in Nat /\ b \in Nat \ {0}
    BY <2>1
  <2>5. w.n * b = a * w.d
    BY <2>2
  <2>6. Product(z).n = a /\ Product(z).d = b
    OBVIOUS
  <2> HIDE DEF a, b, Product
  <2>7. AtMost(Product(z), w) /\ AtMost(w, Product(z))
    <3>1. w.n * b \in Nat /\ a * w.d \in Nat
      BY <2>3, <2>4
    <3> QED
      BY <2>5, <2>6, <3>1 DEF AtMost
  <2> QED
    BY <2>1, <2>2, <2>3, <2>4, <2>5, <2>6, <2>7 DEF Fraction, w
<1> DEFINE v == Times(x, f)
           w == Times(y, f)
<1>2. ASSUME x # Zero PROVE v # Zero
  <2>1. x.n # 0
    BY <1>2, ZeroIsNothing
  <2>2. v.n * Product(x).d = Product(x).n * v.d /\ v.n \in Nat /\ v.d \in Nat \ {0}
    BY <1>1 DEF Fraction
  <2>3. Product(x).n > 0 /\ Product(x).n \in Nat /\ Product(x).d \in Nat
    <3>1. x.n \in Nat \ {0} /\ x.d \in Nat \ {0} /\ f.n \in Nat \ {0} /\ f.d \in Nat \ {0}
      BY <2>1 DEF Decimal
    <3>2. x.n * f.n \in Nat \ {0} /\ x.d * f.d \in Nat
      BY <3>1
    <3> QED
      BY <3>2
  <2>4. Decimal(v)
    BY <1>1
  <2> HIDE DEF v, Product
  <2>5. v.n # 0
    <3>1. Product(x).n * v.d > 0
      BY <2>2, <2>3
    <3> QED
      BY <2>2, <2>3, <3>1
  <2> QED
    BY <2>4, <2>5, ZeroIsNothing
<1>3. ASSUME AtMost(x, y) PROVE AtMost(v, w)
  <2>1. AtMost(Product(x), Product(y))
    <3> DEFINE k == f.n * f.d
    <3>0. /\ x.n \in Nat /\ x.d \in Nat /\ y.n \in Nat /\ y.d \in Nat /\ f.n \in Nat /\ f.d \in Nat
          /\ x.n * y.d =< y.n * x.d
      BY <1>3 DEF Decimal, AtMost
    <3>1. k \in Nat /\ x.n * y.d \in Nat /\ y.n * x.d \in Nat /\ x.n * y.d =< y.n * x.d
      BY <3>0
    <3>2. (x.n * f.n) * (y.d * f.d) = (x.n * y.d) * k /\ (y.n * f.n) * (x.d * f.d) = (y.n * x.d) * k
      BY <3>0
    <3> HIDE DEF k
    <3>3. (x.n * y.d) * k =< (y.n * x.d) * k
      BY <3>1
    <3> QED
      BY <3>2, <3>3 DEF AtMost
  <2>2. /\ Fraction(Product(x)) /\ Fraction(Product(y)) /\ Fraction(v) /\ Fraction(w)
        /\ AtMost(v, Product(x)) /\ AtMost(Product(y), w)
    BY <1>1
  <2> HIDE DEF v, w, Product
  <2> QED
    BY <2>1, <2>2, AtMostIsTransitive
<1> QED
  BY <1>1, <1>2, <1>3

(* The ladder's number: the nearest of its steps, when near enough.         *)
LEMMA MixedNumberIs ==
  ASSUME NEW x, Decimal(x), x # Zero, NEW ladder \in SUBSET Nat
  PROVE  \/ MixedNumber(x, ladder) = NoFraction
         \/ \E b \in Nat \ {0} : /\ MixedNumber(x, ladder) = Shown(Ratio(b, 24), "fraction")
                                 /\ 20 * Abs(24 * x.n - b * x.d) =< 24 * x.n
<1> DEFINE steps1   == {24 * (x.n \div x.d) + c : c \in ladder \cup {0, 24}}
           Error(t) == Abs(24 * x.n - t * x.d)
           best     == CHOOSE t \in steps1 :
                         \A s \in steps1 : Error(t) < Error(s) \/ (Error(t) = Error(s) /\ t =< s)
<1>1. x.n \in Nat /\ x.d \in Nat \ {0}
  BY DEF Decimal
<1>2. MixedNumber(x, ladder) = IF 20 * Error(best) > 24 * x.n \/ best = 0 THEN NoFraction
                               ELSE Shown(Ratio(best, 24), "fraction")
  BY DEF MixedNumber
<1>3. steps1 \in SUBSET Nat /\ steps1 # {}
  <2>1. x.n \div x.d \in Nat
    BY <1>1
  <2> DEFINE m == x.n \div x.d
  <2> HIDE DEF m
  <2>2. m \in Nat
    BY <2>1 DEF m
  <2>3. \A c \in ladder \cup {0, 24} : 24 * m + c \in Nat
    BY <2>2
  <2> QED
    BY <2>3 DEF m
<1> HIDE DEF steps1
<1>4. \A t \in steps1 : Error(t) \in Nat
  <2> SUFFICES ASSUME NEW t \in steps1 PROVE Error(t) \in Nat
    OBVIOUS
  <2>1. 24 * x.n \in Int /\ t * x.d \in Int
    BY <1>1, <1>3
  <2> QED
    BY <2>1 DEF Abs
<1> HIDE DEF Error
<1>5. best \in steps1
  <2> DEFINE Errors == {Error(t) : t \in steps1}
  <2>1. Errors \in SUBSET Nat /\ Errors # {}
    BY <1>3, <1>4
  <2>2. PICK e \in Errors : \A g \in Errors : e =< g
    <3> HIDE DEF Errors
    <3> QED
      BY <2>1, LeastExists
  <2> DEFINE nearest == {t \in steps1 : Error(t) = e}
  <2>3. nearest \in SUBSET Nat /\ nearest # {}
    BY <1>3, <2>2
  <2>4. PICK t \in nearest : \A s \in nearest : t =< s
    <3> HIDE DEF nearest
    <3> QED
      BY <2>3, LeastExists
  <2>5. \A s \in steps1 : Error(t) < Error(s) \/ (Error(t) = Error(s) /\ t =< s)
    <3> SUFFICES ASSUME NEW s \in steps1 PROVE Error(t) < Error(s) \/ (Error(t) = Error(s) /\ t =< s)
      OBVIOUS
    <3>1. Error(t) = e /\ e =< Error(s) /\ t \in steps1
      BY <2>2, <2>4
    <3>2. Error(s) = e => t =< s
      BY <2>4
    <3> QED
      BY <1>4, <3>1, <3>2
  <2>6. \E u \in steps1 : \A s \in steps1 : Error(u) < Error(s) \/ (Error(u) = Error(s) /\ u =< s)
    BY <2>4, <2>5
  <2> QED
    BY <2>6, Zenon
<1> HIDE DEF best
<1>6. CASE ~(20 * Error(best) > 24 * x.n \/ best = 0)
  <2>1. best \in Nat \ {0} /\ Error(best) \in Nat
    BY <1>3, <1>4, <1>5, <1>6
  <2>2. 20 * Error(best) =< 24 * x.n
    BY <1>1, <1>6, <2>1
  <2> QED
    BY <1>2, <1>6, <2>1, <2>2 DEF Error
<1> QED
  BY <1>2, <1>6

LEMMA LaddersAre == \A u \in DOMAIN Ladders : u \in Units /\ Ladders[u] \in SUBSET Nat
  BY DEF Ladders, DefaultLadder, Units, UnitDefs

(* A spoon is off by a twentieth at most.                                  *)
LEMMA FractionIsClose ==
  ASSUME NEW x, Decimal(x), NEW b \in Nat, 20 * Abs(24 * x.n - b * x.d) =< 24 * x.n
  PROVE  LET v == Ratio(b, 24) IN 20 * Abs(v.n * x.d - x.n * v.d) =< x.n * v.d
<1> DEFINE v == Ratio(b, 24)
<1>1. x.n \in Nat /\ x.d \in Nat \ {0}
  BY DEF Decimal
<1>2. v.n \in Nat /\ v.d \in Nat \ {0} /\ v.n * 24 = b * v.d
  <2>1. 24 \in Nat \ {0}
    OBVIOUS
  <2>2. Decimal(v) /\ v.n * 24 = b * v.d
    BY <2>1, RatioIsExact
  <2> HIDE DEF v
  <2> QED
    BY <2>2 DEF Decimal
<1> HIDE DEF v
<1> DEFINE p == v.n * x.d
           q == x.n * v.d
           e == 24 * x.n - b * x.d
<1>3. p \in Nat /\ q \in Nat /\ e \in Int
  <2>1. b * x.d \in Int
    BY <1>1
  <2> QED
    BY <1>1, <1>2, <2>1
<1>4. 20 * e =< 24 * x.n /\ 20 * (-e) =< 24 * x.n
  <2> HIDE DEF p, q, e
  <2>1. 20 * Abs(e) =< 24 * x.n
    BY DEF e
  <2> QED
    BY <1>1, <1>3, <2>1 DEF Abs
<1>5. 24 * (q - p) = e * v.d
  <2> DEFINE g == b * x.d
  <2>1. 24 * p = g * v.d
    <3>1. 24 * p = (v.n * 24) * x.d
      BY <1>1, <1>2
    <3>2. (b * v.d) * x.d = g * v.d
      BY <1>1, <1>2
    <3> QED
      BY <1>2, <3>1, <3>2
  <2>2. 24 * q = (24 * x.n) * v.d
    BY <1>1, <1>2
  <2>3. g \in Int /\ 24 * x.n \in Int /\ e = 24 * x.n - g
    BY <1>1
  <2> HIDE DEF g, e
  <2>4. (24 * x.n - g) * v.d = (24 * x.n) * v.d - g * v.d
    <3> DEFINE h == 24 * x.n
    <3> HIDE DEF h
    <3>1. h \in Int
      BY <2>3 DEF h
    <3>2. (h - g) * v.d = h * v.d - g * v.d
      BY <1>2, <2>3, <3>1
    <3> QED
      BY <3>2 DEF h
  <2> HIDE DEF p, q
  <2> QED
    BY <1>3, <2>1, <2>2, <2>3, <2>4
<1> HIDE DEF e
<1>6. 20 * (e * v.d) =< 24 * q /\ 20 * (-(e * v.d)) =< 24 * q
  <2>1. (20 * e) * v.d =< (24 * x.n) * v.d
    <3> DEFINE s == 20 * e
               t == 24 * x.n
    <3>1. s \in Int /\ t \in Int /\ s =< t
      BY <1>1, <1>3, <1>4
    <3> HIDE DEF s, t
    <3>2. s * v.d =< t * v.d
      BY <1>2, <3>1
    <3> QED
      BY <3>2 DEF s, t
  <2>2. (20 * (-e)) * v.d =< (24 * x.n) * v.d
    <3> DEFINE s == 20 * (-e)
               t == 24 * x.n
    <3>1. s \in Int /\ t \in Int /\ s =< t
      BY <1>1, <1>3, <1>4
    <3> HIDE DEF s, t
    <3>2. s * v.d =< t * v.d
      BY <1>2, <3>1
    <3> QED
      BY <3>2 DEF s, t
  <2>3. (24 * x.n) * v.d = 24 * q
    BY <1>1, <1>2
  <2>4. (20 * e) * v.d = 20 * (e * v.d) /\ (20 * (-e)) * v.d = 20 * (-(e * v.d))
    BY <1>2, <1>3
  <2> QED
    BY <2>1, <2>2, <2>3, <2>4
<1>7. 20 * (q - p) =< q /\ 20 * (p - q) =< q
  <2> DEFINE h == e * v.d
  <2>1. h \in Int /\ h = 24 * (q - p) /\ 20 * h =< 24 * q /\ 20 * (-h) =< 24 * q
    BY <1>2, <1>3, <1>5, <1>6
  <2> HIDE DEF h, p, q
  <2> QED
    BY <1>3, <2>1
<1>8. 20 * Abs(p - q) =< q
  <2> HIDE DEF p, q
  <2> QED
    BY <1>3, <1>7 DEF Abs
<1> QED
  BY <1>8 DEF v

(* The number an amount is shown as.                                       *)
Number(x, kind, unit, fractions, divisible) ==
  IF kind = "count" THEN Shown(FormatCount(x, divisible), "decimal") ELSE FormatNumber(x, unit, fractions)

LEMMA ShownIs == ASSUME NEW v, NEW form PROVE Shown(v, form).n = v.n /\ Shown(v, form).d = v.d
  BY DEF Shown

LEMMA DecimalsAreNoFractions == ASSUME NEW v PROVE Shown(v, "decimal").form # "fraction"
  BY DEF Shown

LEMMA AmountsAreAtMostThemselves == ASSUME NEW x, Decimal(x) PROVE AtMost(x, x)
  BY DEF Decimal, AtMost

LEMMA FormatNumberIs ==
  ASSUME NEW x, Decimal(x), x # Zero, NEW unit, NEW fractions \in BOOLEAN
  PROVE  LET v == FormatNumber(x, unit, fractions) IN
         \/ v = Shown(SnapMetric(x), "decimal")
         \/ /\ unit \in Units
            /\ \E b \in Nat \ {0} : v = Shown(Ratio(b, 24), "fraction") /\ 20 * Abs(24 * x.n - b * x.d) =< 24 * x.n
<1> DEFINE v == FormatNumber(x, unit, fractions)
           mixed == MixedNumber(x, Ladders[unit])
<1>1. v = Shown(SnapMetric(x), "decimal") \/ (unit \in DOMAIN Ladders /\ mixed # NoFraction /\ v = mixed)
  BY DEF FormatNumber
<1>2. CASE unit \in DOMAIN Ladders /\ mixed # NoFraction /\ v = mixed
  <2>1. unit \in Units /\ Ladders[unit] \in SUBSET Nat
    BY <1>2, LaddersAre
  <2>2. \E b \in Nat \ {0} : mixed = Shown(Ratio(b, 24), "fraction") /\ 20 * Abs(24 * x.n - b * x.d) =< 24 * x.n
    BY <1>2, <2>1, MixedNumberIs
  <2> HIDE DEF v, mixed
  <2> QED
    BY <1>2, <2>1, <2>2 DEF v
<1> QED
  BY <1>1, <1>2

LEMMA FormatNumberOfZero ==
  ASSUME NEW unit, NEW fractions \in BOOLEAN PROVE FormatNumber(Zero, unit, fractions).form # "fraction"
<1> DEFINE mixed == MixedNumber(Zero, Ladders[unit])
<1>1. mixed = Shown(Zero, "whole")
  BY DEF MixedNumber
<1>2. FormatNumber(Zero, unit, fractions) \in {mixed, Shown(SnapMetric(Zero), "decimal")}
  BY DEF FormatNumber
<1>3. Shown(Zero, "whole").form # "fraction" /\ Shown(SnapMetric(Zero), "decimal").form # "fraction"
  BY DEF Shown
<1> HIDE DEF mixed
<1> QED
  BY <1>1, <1>2, <1>3

(* One number: never nothing of something, a fraction near what it stands  *)
(* for.                                                                    *)
LEMMA NumberIsFair ==
  ASSUME NEW x, Decimal(x), NEW kind, NEW unit, NEW fractions \in BOOLEAN, NEW divisible \in BOOLEAN
  PROVE  LET v == Number(x, kind, unit, fractions, divisible) IN
         /\ x # Zero => v.n > 0
         /\ v.form = "fraction" => /\ kind # "count" /\ unit \in Units
                                   /\ 20 * Abs(v.n * x.d - x.n * v.d) =< x.n * v.d
<1> DEFINE v == Number(x, kind, unit, fractions, divisible)
<1>1. CASE kind = "count"
  <2>1. v = Shown(FormatCount(x, divisible), "decimal")
    BY <1>1 DEF Number
  <2>2. x # Zero => FormatCount(x, divisible).n > 0
    BY AmountsAreAtMostThemselves, CountsGrow
  <2>3. v.form # "fraction" /\ v.n = FormatCount(x, divisible).n
    BY <2>1, ShownIs, DecimalsAreNoFractions
  <2> HIDE DEF v
  <2> QED
    BY <2>2, <2>3 DEF v
<1>2. CASE kind # "count" /\ x = Zero
  <2>1. v = FormatNumber(Zero, unit, fractions)
    BY <1>2 DEF Number
  <2> HIDE DEF v
  <2> QED
    BY <1>2, <2>1, FormatNumberOfZero DEF v
<1>3. CASE kind # "count" /\ x # Zero
  <2>1. v = FormatNumber(x, unit, fractions)
    BY <1>3 DEF Number
  <2> HIDE DEF v
  <2>2. CASE v = Shown(SnapMetric(x), "decimal")
    <3>1. v.n > 0 /\ v.form # "fraction"
      BY <1>3, <2>2, SnapMetricShows, ShownIs, DecimalsAreNoFractions
    <3> QED
      BY <3>1 DEF v
  <2>3. CASE /\ unit \in Units
             /\ \E b \in Nat \ {0} : v = Shown(Ratio(b, 24), "fraction") /\ 20 * Abs(24 * x.n - b * x.d) =< 24 * x.n
    <3>1. PICK b \in Nat \ {0} : v = Shown(Ratio(b, 24), "fraction") /\ 20 * Abs(24 * x.n - b * x.d) =< 24 * x.n
      BY <2>3
    <3> DEFINE w == Ratio(b, 24)
    <3>2. 20 * Abs(w.n * x.d - x.n * w.d) =< x.n * w.d
      BY <3>1, FractionIsClose
    <3>3. w.n > 0
      <4>1. 24 \in Nat \ {0}
        OBVIOUS
      <4>2. Decimal(w) /\ w.n * 24 = b * w.d
        BY <4>1, RatioIsExact
      <4> HIDE DEF w
      <4>3. w.n \in Nat /\ w.d \in Nat \ {0} /\ b * w.d > 0
        BY <4>2 DEF Decimal
      <4> QED
        BY <4>2, <4>3
    <3> HIDE DEF w
    <3>4. v.n = w.n /\ v.d = w.d
      BY <3>1, ShownIs DEF w
    <3> QED
      BY <1>3, <2>3, <3>2, <3>3, <3>4 DEF v
  <2> QED
    BY <1>3, <2>1, <2>2, <2>3, FormatNumberIs
<1> QED
  BY <1>1, <1>2, <1>3

(* Two numbers that differ stand in the order of what they stand for.       *)
LEMMA DecimalsStandInOrder ==
  ASSUME NEW a, NEW b, Decimal(a), Decimal(b), AtMost(a, b), Shown(a, "decimal") # Shown(b, "decimal")
  PROVE  Less(Shown(a, "decimal"), Shown(b, "decimal"))
<1> DEFINE v == Shown(a, "decimal")
           w == Shown(b, "decimal")
<1>1. v.n = a.n /\ v.d = a.d /\ w.n = b.n /\ w.d = b.d
  BY ShownIs
<1>2. a.n \in Nat /\ a.d \in Nat \ {0} /\ b.n \in Nat /\ b.d \in Nat \ {0} /\ a.n * b.d =< b.n * a.d
  BY DEF Decimal, AtMost
<1>3. a # b
  OBVIOUS
<1>4. a.n * b.d # b.n * a.d
  BY <1>3, SameDecimal
<1>5. a.n * b.d \in Nat /\ b.n * a.d \in Nat
  BY <1>2
<1>6. a.n * b.d < b.n * a.d
  BY <1>2, <1>4, <1>5
<1> HIDE DEF v, w
<1>7. Less(v, w)
  BY <1>1, <1>6 DEF Less
<1> QED
  BY <1>7 DEF v, w

LEMMA NumbersStandInOrder ==
  ASSUME NEW x, NEW y, Decimal(x), Decimal(y), AtMost(x, y), NEW kind, NEW unit, NEW divisible \in BOOLEAN,
         Number(x, kind, unit, FALSE, divisible) # Number(y, kind, unit, FALSE, divisible)
  PROVE  Less(Number(x, kind, unit, FALSE, divisible), Number(y, kind, unit, FALSE, divisible))
<1>1. CASE kind = "count"
  <2> DEFINE a == FormatCount(x, divisible)
             b == FormatCount(y, divisible)
  <2>1. /\ Number(x, kind, unit, FALSE, divisible) = Shown(a, "decimal")
        /\ Number(y, kind, unit, FALSE, divisible) = Shown(b, "decimal")
    BY <1>1 DEF Number
  <2>2. Decimal(a) /\ Decimal(b) /\ AtMost(a, b)
    BY CountsGrow
  <2> HIDE DEF a, b
  <2> QED
    BY <2>1, <2>2, DecimalsStandInOrder
<1>2. CASE kind # "count"
  <2> DEFINE a == SnapMetric(x)
             b == SnapMetric(y)
  <2>1. /\ Number(x, kind, unit, FALSE, divisible) = Shown(a, "decimal")
        /\ Number(y, kind, unit, FALSE, divisible) = Shown(b, "decimal")
    BY <1>2 DEF Number, FormatNumber
  <2>2. Decimal(a) /\ Decimal(b) /\ AtMost(a, b)
    BY SnapMetricIsMonotone
  <2> HIDE DEF a, b
  <2> QED
    BY <2>1, <2>2, DecimalsStandInOrder
<1> QED
  BY <1>1, <1>2

(* What format_quantity shows of a quantity whose ends are in order.        *)
THEOREM NumbersOfAreFair ==
  ASSUME NEW q, Amount(q), AtMost(q.low, q.high), NEW fractions \in BOOLEAN, NEW divisible \in BOOLEAN
  PROVE  LET numbers == FormatQuantity(q, fractions, divisible) IN
         /\ q.low # Zero => \A m \in DOMAIN numbers : numbers[m].n > 0
         /\ ~fractions /\ Len(numbers) = 2 => Less(numbers[1], numbers[2])
         /\ \A m \in DOMAIN numbers : numbers[m].form = "fraction" /\ m = Len(numbers) =>
              /\ q.unit \in Units
              /\ 20 * Abs(numbers[m].n * q.high.d - q.high.n * numbers[m].d) =< q.high.n * numbers[m].d
<1> DEFINE numbers == FormatQuantity(q, fractions, divisible)
           l == Number(q.low, q.kind, q.unit, fractions, divisible)
           h == Number(q.high, q.kind, q.unit, fractions, divisible)
<1>1. numbers = IF q.kind = "approx" THEN <<>> ELSE IF l = h THEN <<l>> ELSE <<l, h>>
  BY DEF FormatQuantity, Number
<1>2. Decimal(q.low) /\ Decimal(q.high)
  BY DEF Amount
<1>3. (q.low # Zero => l.n > 0) /\ (q.high # Zero => h.n > 0)
  BY <1>2, NumberIsFair
<1>4. q.low # Zero => q.high # Zero
  <2>1. q.low.n # 0 => q.high.n # 0
    <3>1. q.low.n \in Nat /\ q.low.d \in Nat \ {0} /\ q.high.n \in Nat /\ q.high.d \in Nat \ {0}
          /\ q.low.n * q.high.d =< q.high.n * q.low.d
      BY <1>2 DEF Decimal, AtMost
    <3> QED
      BY <3>1
  <2> QED
    BY <1>2, <2>1, ZeroIsNothing
<1>5. h.form = "fraction" => q.unit \in Units /\ 20 * Abs(h.n * q.high.d - q.high.n * h.d) =< q.high.n * h.d
  BY <1>2, NumberIsFair
<1>6. ~fractions /\ l # h => Less(l, h)
  BY <1>2, NumbersStandInOrder
<1> HIDE DEF l, h, numbers
<1>7. CASE q.kind = "approx"
  <2>1. numbers = <<>>
    BY <1>1, <1>7
  <2> QED
    BY <2>1 DEF numbers
<1>8. CASE q.kind # "approx" /\ l = h
  <2>1. numbers = <<l>>
    BY <1>1, <1>8
  <2>2. DOMAIN numbers = {1} /\ Len(numbers) = 1 /\ numbers[1] = h /\ numbers[1] = l
    BY <1>8, <2>1
  <2> QED
    BY <1>3, <1>5, <2>2 DEF numbers
<1>9. CASE q.kind # "approx" /\ l # h
  <2>1. numbers = <<l, h>>
    BY <1>1, <1>9
  <2>2. DOMAIN numbers = {1, 2} /\ Len(numbers) = 2 /\ numbers[1] = l /\ numbers[2] = h
    BY <2>1
  <2> QED
    BY <1>3, <1>4, <1>5, <1>6, <1>9, <2>2 DEF numbers
<1> QED
  BY <1>7, <1>8, <1>9

(* Scaling keeps the ends of a quantity in order, and something something.   *)
LEMMA ScalingKeepsTheOrder ==
  ASSUME NEW spec, NEW f, SpecOK(spec), Amount(spec.quantity), Decimal(f), ~ScaleSpec(spec, f).raised
  PROVE  LET q == ScaleSpec(spec, f).quantity IN
         Amount(q) /\ AtMost(q.low, q.high) /\ (spec.quantity.low # Zero => q.low # Zero)
<1> DEFINE p == spec.quantity
           q == ScaleSpec(spec, f).quantity
<1>1. p = [kind |-> p.kind, low |-> p.low, high |-> p.high, unit |-> p.unit] /\ Decimal(p.low) /\ Decimal(p.high)
  BY DEF Amount
<1>2. AtMost(p.low, p.high)
  <2>1. /\ p.low.n \in Nat /\ p.low.d \in Nat /\ p.high.n \in Nat /\ p.high.d \in Nat
        /\ ~(p.high.n * p.low.d < p.low.n * p.high.d)
    BY <1>1 DEF SpecOK, Ordered, Less, Decimal
  <2> DEFINE a == p.high.n * p.low.d
             b == p.low.n * p.high.d
  <2>2. a \in Nat /\ b \in Nat /\ ~(a < b)
    BY <2>1
  <2> HIDE DEF a, b
  <2>3. b =< a
    BY <2>2
  <2> QED
    BY <2>3 DEF AtMost, a, b
<1>3. CASE q = p
  BY <1>1, <1>2, <1>3
<1>4. CASE q # p
  <2>1. f # Zero /\ q = [p EXCEPT !.low = Times(@, f), !.high = Times(@, f)]
    BY <1>4 DEF ScaleSpec, ScalesWithFactor, ScaleQuantity
  <2>2. f.n > 0
    <3>1. f.n # 0 /\ f.n \in Nat
      BY <2>1, ZeroIsNothing DEF Decimal
    <3> QED
      BY <3>1
  <2>3. /\ Decimal(Times(p.low, f)) /\ Decimal(Times(p.high, f)) /\ (p.low # Zero => Times(p.low, f) # Zero)
        /\ AtMost(Times(p.low, f), Times(p.high, f))
    BY <1>1, <1>2, <2>2, TimesGrow
  <2> HIDE DEF p, q
  <2>4. q = [kind |-> p.kind, low |-> Times(p.low, f), high |-> Times(p.high, f), unit |-> p.unit]
    BY <1>1, <2>1
  <2> QED
    BY <2>3, <2>4 DEF Amount, p, q
<1> QED
  BY <1>3, <1>4

(* So does showing it in the unit of the reader.                            *)
LEMMA ConvertedKeepsTheOrder ==
  ASSUME NEW q, Amount(q), AtMost(q.low, q.high), NEW u \in Units, NEW t \in Units,
         UnitDefs[u].dim = UnitDefs[t].dim,
         NEW s, s = [kind |-> q.kind, low |-> ConvertValue(q.low, u, t, NoDensity).value,
                     high |-> ConvertValue(q.high, u, t, NoDensity).value, unit |-> t]
  PROVE  Amount(s) /\ AtMost(s.low, s.high) /\ (q.low # Zero => s.low # Zero)
<1> DEFINE l == ConvertValue(q.low, u, t, NoDensity).value
           h == ConvertValue(q.high, u, t, NoDensity).value
           f == Ratio(UnitDefs[u].size, UnitDefs[t].size)
<1>1. q = [kind |-> q.kind, low |-> q.low, high |-> q.high, unit |-> q.unit] /\ Decimal(q.low) /\ Decimal(q.high)
  BY DEF Amount
<1>2. l = Times(q.low, f) /\ h = Times(q.high, f)
  BY ConversionIsAProduct
<1>3. Decimal(f) /\ f.n > 0
  <2> DEFINE n == UnitDefs[u].size
             d == UnitDefs[t].size
  <2>1. n \in Nat \ {0} /\ d \in Nat \ {0}
    BY SizesArePositive
  <2> HIDE DEF n, d
  <2> DEFINE g == Ratio(n, d)
  <2>2. Decimal(g) /\ g.n * d = n * g.d
    BY <2>1, RatioIsExact
  <2> HIDE DEF g
  <2>3. g.n \in Nat /\ g.d \in Nat \ {0} /\ n * g.d > 0
    BY <2>1, <2>2 DEF Decimal
  <2>4. Decimal(g) /\ g.n > 0
    BY <2>1, <2>2, <2>3
  <2> QED
    BY <2>4 DEF g, n, d
<1>4. Decimal(l) /\ Decimal(h) /\ AtMost(l, h) /\ (q.low # Zero => l # Zero)
  <2> HIDE DEF f, l, h
  <2> QED
    BY <1>1, <1>2, <1>3, TimesGrow
<1>5. s = [kind |-> q.kind, low |-> l, high |-> h, unit |-> t]
  OBVIOUS
<1> HIDE DEF l, h
<1> QED
  BY <1>4, <1>5 DEF Amount

=============================================================================
