----------------------------- MODULE Quantities -----------------------------
(***************************************************************************)
(* The arithmetic of the kitchen: what a quantity is (schema/quantity.py), *)
(* how it scales (units/scaling.py), converts (units/density.py over the   *)
(* table of units/registry.py) and which number a reader is shown          *)
(* (units/rounding.py).                                                    *)
(*                                                                         *)
(* A Decimal is a ratio in lowest terms, and its arithmetic is exact.  The *)
(* code's Decimals round every product and quotient to 28 digits, so what  *)
(* is said here of exact values holds of the code up to the last of them   *)
(* (tests/property/test_units.py compares with a tolerance).  Amounts are  *)
(* not negative.  A displayed number is the number read off the page and   *)
(* the form it is written in.                                              *)
(***************************************************************************)
EXTENDS Integers, Sequences, FiniteSets

Gcd[p \in Nat \X Nat] == IF p[2] = 0 THEN p[1] ELSE Gcd[<<p[2], p[1] % p[2]>>]
Ratio(n, d)  == [n |-> n \div Gcd[<<n, d>>], d |-> d \div Gcd[<<n, d>>]]
Times(x, y)  == LET a == Ratio(x.n, y.d)
                    b == Ratio(y.n, x.d) IN [n |-> a.n * b.n, d |-> a.d * b.d]
Divided(x, y) == Times(x, [n |-> y.d, d |-> y.n])
Less(x, y)   == x.n * y.d < y.n * x.d
Whole(k)     == [n |-> k, d |-> 1]
Decimal(x)   == x = [n |-> x.n, d |-> x.d] /\ x.n \in Nat /\ x.d \in Nat \ {0} /\ Gcd[<<x.n, x.d>>] = 1
Zero         == Whole(0)

(* quantize(Decimal(1), ROUND_HALF_UP).                                    *)
RoundHalfUp(x) == (2 * x.n + x.d) \div (2 * x.d)

-----------------------------------------------------------------------------
(* Scalar, Range, Count and Approx in one shape: low = high unless two      *)
(* numbers are given.  unit is a unit id, NoUnit, or Unread when only the  *)
(* surface the author wrote is known.                                      *)
NoUnit == "no unit"
Unread == "unread"

Kinds    == {"scalar", "range", "count", "approx"}
Policies == {"LINEAR", "INVARIANT", "MANUAL", "NONLINEAR"}

Amount(q)  == q = [kind |-> q.kind, low |-> q.low, high |-> q.high, unit |-> q.unit] /\ Decimal(q.low) /\ Decimal(q.high)
Ordered(q) == ~Less(q.high, q.low)

(* QuantitySpec: an approximation has no number to multiply.               *)
SpecOK(spec) ==
  /\ spec.quantity.kind \in Kinds /\ spec.scaling \in Policies
  /\ Ordered(spec.quantity)
  /\ ~(spec.quantity.kind = "approx" /\ spec.scaling = "LINEAR")

(* NONLINEAR "behaves as MANUAL until real curve data exists".             *)
ScalesWithFactor(policy) == policy = "LINEAR"

(* Fault: the reserved policy is forgotten.                                *)
OnlyManual(policy) == policy = "MANUAL"

Reported(policy) == policy \in {"MANUAL", "NONLINEAR"}

(* Fault: the upper end of a range stays.                                  *)
ScaleLow(q, factor) == IF q.kind = "approx" THEN q ELSE [q EXCEPT !.low = Times(@, factor)]

ScaleQuantity(q, factor) ==
  IF q.kind = "approx" THEN q
  ELSE [q EXCEPT !.low = Times(@, factor), !.high = Times(@, factor)]

(* scale_spec: the quantity, whether it is reported as left alone, and      *)
(* whether the factor raises.                                              *)
ScaleSpec(spec, factor) ==
  LET same == factor = Whole(1) IN
  [quantity |-> IF same \/ ~ScalesWithFactor(spec.scaling) \/ factor = Zero THEN spec.quantity
                ELSE ScaleQuantity(spec.quantity, factor),
   warned   |-> ~same /\ Reported(spec.scaling),
   raised   |-> ~same /\ ScalesWithFactor(spec.scaling) /\ factor = Zero]

-----------------------------------------------------------------------------
(* The curated units.  size is in milligrams, microlitres or seconds, the  *)
(* ounce rounded so that sixteen make a pound.                             *)
UnitRecord(dim, size) == [dim |-> dim, size |-> size]
UnitDefs ==
  [g   |-> UnitRecord("mass", 1000),    kg   |-> UnitRecord("mass", 1000000),
   mg  |-> UnitRecord("mass", 1),       oz   |-> UnitRecord("mass", 28350),
   lb  |-> UnitRecord("mass", 453600),  ml   |-> UnitRecord("volume", 1000),
   l   |-> UnitRecord("volume", 1000000), dl |-> UnitRecord("volume", 100000),
   tsp |-> UnitRecord("volume", 5000),  tbsp |-> UnitRecord("volume", 15000),
   cup_us |-> UnitRecord("volume", 236588), cup_metric |-> UnitRecord("volume", 250000),
   cup_uk |-> UnitRecord("volume", 284131), cup_jp     |-> UnitRecord("volume", 200000),
   floz   |-> UnitRecord("volume", 29573), pint |-> UnitRecord("volume", 473176),
   quart  |-> UnitRecord("volume", 946353), s   |-> UnitRecord("time", 1),
   min    |-> UnitRecord("time", 60),   h    |-> UnitRecord("time", 3600),
   day    |-> UnitRecord("time", 86400)]

Units == DOMAIN UnitDefs

(* resolve_unit: a bare cup needs a locale; every other surface is one id.  *)
Cups == [us |-> "cup_us", metric |-> "cup_metric", uk |-> "cup_uk", jp |-> "cup_jp"]
ResolveUnit(surface, locale) ==
  IF surface = "cup" THEN IF locale \in DOMAIN Cups THEN Cups[locale] ELSE Unread
  ELSE IF surface \in Units \ {Cups[c] : c \in DOMAIN Cups} THEN surface ELSE Unread

(* convert_value: an amount or the exception.  Only mass and volume have a  *)
(* bridge, and only an ingredient of known density crosses it.  The code    *)
(* divides by the unit sizes and rounds; the ratio here is exact.           *)
NoDensity == Zero
Converted(x) == [value |-> x, error |-> "none"]
Refused(e)   == [value |-> Zero, error |-> e]

ConvertValue(x, from, to, density) ==
  IF from \notin Units \/ to \notin Units THEN Refused("IncompatibleDimensionsError")
  ELSE LET f == UnitDefs[from]
           t == UnitDefs[to]
           sized == Times(x, Ratio(f.size, t.size)) IN
       IF f.dim = t.dim THEN Converted(sized)
       ELSE IF {f.dim, t.dim} # {"mass", "volume"} THEN Refused("IncompatibleDimensionsError")
       ELSE IF density = NoDensity THEN Refused("NoDensityError")
       ELSE Converted(IF f.dim = "volume" THEN Times(sized, density) ELSE Divided(sized, density))

-----------------------------------------------------------------------------
(* FRACTION_LADDERS, in twenty-fourths.                                    *)
DefaultLadder == {3, 6, 8, 12, 16, 18}
Ladders ==
  [tsp |-> DefaultLadder, cup_us |-> DefaultLadder, cup_metric |-> DefaultLadder,
   cup_uk |-> DefaultLadder, cup_jp |-> DefaultLadder,
   tbsp |-> {6, 8, 12, 16, 18}, lb |-> {6, 8, 12, 16, 18},
   oz |-> {6, 12, 18}, pint |-> {6, 12, 18}, quart |-> {6, 12, 18}]

Shown(x, form) == [n |-> x.n, d |-> x.d, form |-> IF x.d = 1 THEN "whole" ELSE form]
NoFraction == [n |-> 0, d |-> 0, form |-> "none"]

(* _round_significant(value, 2), for values between zero and one: the first  *)
(* digit that is not zero and the next.                                    *)
Tens[k \in Nat] == IF k = 0 THEN 1 ELSE 10 * Tens[k - 1]
TwoDigits(x) ==
  LET k == CHOOSE k \in 1..x.d : x.d =< x.n * Tens[k] /\ x.n * Tens[k - 1] < x.d IN
  Ratio(RoundHalfUp(Times(x, Whole(Tens[k + 1]))), Tens[k + 1])

(* _METRIC_BANDS.                                                          *)
MetricStep(x) ==
  IF Less(x, Whole(1)) THEN Ratio(1, 10)
  ELSE IF Less(x, Whole(10)) THEN Ratio(1, 2)
  ELSE IF Less(x, Whole(100)) THEN Whole(1)
  ELSE IF Less(x, Whole(1000)) THEN Whole(5)
  ELSE Whole(25)

(* Fault: a small amount snaps away.                                       *)
SnapToZero(x) == Times(MetricStep(x), Whole(RoundHalfUp(Divided(x, MetricStep(x)))))

SnapMetric(x) ==
  LET snapped == Times(MetricStep(x), Whole(RoundHalfUp(Divided(x, MetricStep(x))))) IN
  IF x # Zero /\ snapped = Zero THEN TwoDigits(x) ELSE snapped

Abs(i) == IF i < 0 THEN -i ELSE i

(* to_mixed_number: the nearest of the ladder, 0 and 1 included, unless it  *)
(* is off by more than 5% of the amount or is nothing.                     *)
MixedNumber(x, ladder) ==
  LET steps    == {24 * (x.n \div x.d) + c : c \in ladder \cup {0, 24}}
      Error(t) == Abs(24 * x.n - t * x.d)
      best     == CHOOSE t \in steps :
                    \A s \in steps : Error(t) < Error(s) \/ (Error(t) = Error(s) /\ t =< s)
  IN IF x = Zero THEN Shown(x, "whole")
     ELSE IF 20 * Error(best) > 24 * x.n \/ best = 0 THEN NoFraction
     ELSE Shown(Ratio(best, 24), "fraction")

(* format_number, for a profile that has fractions or not.                 *)
FormatNumber(x, unit, fractions) ==
  LET mixed == IF fractions /\ unit \in DOMAIN Ladders THEN MixedNumber(x, Ladders[unit])
               ELSE NoFraction IN
  IF mixed # NoFraction THEN mixed ELSE Shown(SnapMetric(x), "decimal")

(* format_count: whole pieces of what cannot be divided, else halves.      *)
FormatCount(x, divisible) ==
  LET pieces == RoundHalfUp(x)
      halves == Ratio(RoundHalfUp(Times(x, Whole(2))), 2) IN
  IF ~divisible THEN Whole(IF pieces = 0 /\ x # Zero THEN 1 ELSE pieces)
  ELSE IF halves = Zero /\ x # Zero THEN TwoDigits(x) ELSE halves

(* format_quantity: the numbers shown, none for an approximation, one when  *)
(* both ends read the same.                                                *)
FormatQuantity(q, fractions, divisible) ==
  LET Number(x) == IF q.kind = "count" THEN Shown(FormatCount(x, divisible), "decimal")
                   ELSE FormatNumber(x, q.unit, fractions) IN
  IF q.kind = "approx" THEN <<>>
  ELSE IF Number(q.low) = Number(q.high) THEN <<Number(q.low)>>
  ELSE <<Number(q.low), Number(q.high)>>

=============================================================================
