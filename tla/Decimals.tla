---------------------------- MODULE Decimals ----------------------------
(***************************************************************************)
(* The decimal texts of runtime/builtin.rs and common/text.rs: rounding,   *)
(* padding, scaling and signing work digit by digit on text, so that no    *)
(* number passes through floating point.  A text is a record of its sign   *)
(* ("", "-" or "+"), its integer digits and its fraction digits.  An       *)
(* operator here is a loop or a slice of the source; what the number means *)
(* is stated by Units and the operators after it, which do arithmetic.     *)
(***************************************************************************)
EXTENDS Integers, Sequences

CONSTANTS MaxInt,    \* the largest i64
          MaxWide,   \* the largest i128
          None       \* Option::None

ASSUME WidthsAssumption == MaxInt \in Nat /\ MaxWide \in Nat /\ MaxInt <= MaxWide
ASSUME NoneIsNoCount == None \notin Nat

Zeros(n) == [i \in 1..n |-> 0]

(* The number of zeros a sequence of digits begins with, and how often the  *)
(* digit it ends with, if it is this one.                                    *)
LeadingZeros(ds) == CHOOSE n \in 0..Len(ds) : /\ \A i \in 1..n : ds[i] = 0
                                              /\ n = Len(ds) \/ ds[n + 1] # 0
Trailing(digit, ds) == CHOOSE n \in 0..Len(ds) : /\ \A i \in 1..n : ds[Len(ds) + 1 - i] = digit
                                                 /\ n = Len(ds) \/ ds[Len(ds) - n] # digit
WithoutTrailing(ds) == SubSeq(ds, 1, Len(ds) - Trailing(0, ds))

(* str::trim of leading zeros that keeps one integer digit *)
Canonical(ds) == LET n == LeadingZeros(ds)
                 IN  IF n = Len(ds) THEN <<0>> ELSE SubSeq(ds, n + 1, Len(ds))

Text(sign, int, frac) == [sign |-> sign, int |-> int, frac |-> frac]
Digits == Seq(0..9)
IsDecimal(d) == d = Text(d.sign, d.int, d.frac) /\ d.int \in Digits /\ d.frac \in Digits

(* is_zero_numeric_text *)
IsZero(d) == \A i \in 1..Len(d.int \o d.frac) : (d.int \o d.frac)[i] = 0

(* format_signed_string; an unsigned text is given a "+", a zero none *)
SignShown(display, d) ==
  IF display = "never" \/ ((display = "exceptZero" \/ display = "negative") /\ IsZero(d)) THEN ""
  ELSE IF (display = "always" \/ display = "exceptZero") /\ d.sign = "" THEN "+"
  ELSE IF display = "negative" /\ d.sign = "+" THEN "" ELSE d.sign
Signed(display, d) == [d EXCEPT !.sign = SignShown(display, d)]

-----------------------------------------------------------------------------
(* carry_fraction_digits, carry_integer_digits: trailing nines become zeros *)
(* and the digit before them is incremented, if there is one.               *)
Nines(ds) == Trailing(9, ds)
Carried(ds) == LET n == Nines(ds)
               IN  [i \in 1..Len(ds) |-> IF i > Len(ds) - n THEN 0
                                         ELSE IF i = Len(ds) - n THEN ds[i] + 1 ELSE ds[i]]
Overflows(ds) == Nines(ds) = Len(ds)
CarriedInteger(ds) == IF Overflows(ds) THEN <<1>> \o Carried(ds) ELSE Carried(ds)

(* round_decimal_numeric_text: half away from zero, on the digits *)
RoundsUp(frac, max) == frac[max + 1] >= 5
RoundTextNoCarry(d, max) ==      \* a mutant: the carry stops at the decimal separator
  IF Len(d.frac) <= max THEN d
  ELSE LET kept == SubSeq(d.frac, 1, max)
       IN  IF RoundsUp(d.frac, max) THEN Text(d.sign, d.int, Carried(kept)) ELSE Text(d.sign, d.int, kept)
RoundText(d, max) ==
  IF Len(d.frac) <= max THEN d
  ELSE LET kept == SubSeq(d.frac, 1, max)
       IN  IF ~ RoundsUp(d.frac, max) THEN Text(d.sign, d.int, kept)
           ELSE Text(d.sign, IF Overflows(kept) THEN CarriedInteger(d.int) ELSE d.int, Carried(kept))

(* apply_maximum_fraction_digits *)
AtMost(d, max) == IF max = None THEN d ELSE RoundText(d, max)

(* format_int_or_decimal_with_min_fraction_digits *)
AtLeast(d, min) == [d EXCEPT !.frac = @ \o Zeros(IF min > Len(@) THEN min - Len(@) ELSE 0)]

(* apply_minimum_integer_digits *)
Widened(d, min) == IF min = None \/ Len(d.int) >= min THEN d
                   ELSE [d EXCEPT !.int = Zeros(min - Len(@)) \o @]

(* multiply_decimal_by_100: shifts the separator, then drops the zeros that  *)
(* the shift left at either end; a zero has no sign                          *)
TimesHundred(d) ==
  LET digits == d.int \o d.frac
      point  == Len(d.int) + 2
      whole  == IF point >= Len(digits) THEN digits \o Zeros(point - Len(digits))
                ELSE SubSeq(digits, 1, point)
      rest   == WithoutTrailing(SubSeq(digits, point + 1, Len(digits)))
      zero   == IsZero(Text("", whole, rest))
  IN  Text(IF d.sign = "-" /\ ~ zero THEN "-" ELSE "", Canonical(whole), rest)

(* truncate_decimal_text: the fraction is cut off, the sign stays *)
Truncated(d) == [d EXCEPT !.frac = << >>]

-----------------------------------------------------------------------------
(* format_scientific_text: a mantissa of one to three integer digits and an *)
(* exponent, from the first digit that is not zero                          *)
Scientific(d, preserve, engineering) ==
  LET digits == d.int \o d.frac
      lead   == LeadingZeros(digits)
      signif == SubSeq(digits, lead + 1, Len(digits))
      exact  == Len(d.int) - lead - 1
      exp    == IF engineering THEN (exact \div 3) * 3 ELSE exact
      width  == exact - exp + 1
      padded == signif \o Zeros(IF Len(signif) < width THEN width - Len(signif) ELSE 0)
      rest   == SubSeq(padded, width + 1, Len(padded))
  IN  IF lead = Len(digits) THEN [mantissa |-> Text(d.sign, <<0>>, << >>), exp |-> 0]
      ELSE [mantissa |-> Text(d.sign, SubSeq(padded, 1, width), IF preserve THEN rest ELSE WithoutTrailing(rest)),
            exp      |-> exp]

-----------------------------------------------------------------------------
(* The parts of fixed_decimal::Decimal that builtin.rs uses: positions are  *)
(* powers of ten.  Rounding keeps the digits down to the position.          *)
NonzeroStart(d) == LET digits == d.int \o d.frac
                   IN  IF IsZero(d) THEN 0 ELSE Len(d.int) - LeadingZeros(digits) - 1

RoundAt(d, position) ==
  IF position <= 0 THEN RoundText(d, -position)
  ELSE LET padded == Zeros(IF position > Len(d.int) THEN position - Len(d.int) ELSE 0) \o d.int
           cut    == Len(padded) - position
           kept   == <<0>> \o SubSeq(padded, 1, cut)
           up     == padded[cut + 1] >= 5
       IN  Text(d.sign, Canonical((IF up THEN Carried(kept) ELSE kept) \o Zeros(position)), << >>)

PadTo(d, position) == IF position < 0 THEN AtLeast(d, -position) ELSE d

TrimEnd(d) == [d EXCEPT !.frac = WithoutTrailing(@)]

(* apply_significant_digits *)
Significant(d, min, max) ==
  LET rounded == IF max = None THEN d ELSE RoundAt(d, NonzeroStart(d) - (max - 1))
  IN  IF min = None THEN rounded ELSE PadTo(rounded, NonzeroStart(rounded) - (min - 1))

-----------------------------------------------------------------------------
(* What a text means: the integer it is after moving its separator `places` *)
(* places to the right, for places at least the length of its fraction.     *)
Natural(ds) == LET first[n \in 0..Len(ds)] == IF n = 0 THEN 0 ELSE 10 * first[n - 1] + ds[n]
               IN  first[Len(ds)]
Units(d, places) ==
  (IF d.sign = "-" THEN -1 ELSE 1) * Natural(d.int \o d.frac \o Zeros(places - Len(d.frac)))

TenTo[n \in Nat] == IF n = 0 THEN 1 ELSE 10 * TenTo[n - 1]

(* The text of an integer *)
DigitsOf[n \in Nat] == IF n < 10 THEN <<n>> ELSE Append(DigitsOf[n \div 10], n % 10)
Magnitude(n) == IF n < 0 THEN -n ELSE n
IntText(n) == Text(IF n < 0 THEN "-" ELSE "", DigitsOf[Magnitude(n)], << >>)

-----------------------------------------------------------------------------
(* checked_offset and decimal_scaled_integer: the sum in i128, failing where *)
(* an intermediate value does not fit.  A result of scale 0 that fits i64 is *)
(* an integer again.                                                         *)
NumericMagnitude == "NumericMagnitude"
FitsWide(n) == n \in -MaxWide - 1 .. MaxWide
FitsInt(n) == n \in -MaxInt - 1 .. MaxInt

(* The text of n with its separator moved scale places to the left *)
ScaledText(n, scale) ==
  LET digits == DigitsOf[Magnitude(n)]
      wide   == Zeros(IF Len(digits) <= scale THEN scale + 1 - Len(digits) ELSE 0) \o digits
      cut    == Len(wide) - scale
  IN  TrimEnd(Text(IF n < 0 THEN "-" ELSE "", SubSeq(wide, 1, cut), SubSeq(wide, cut + 1, Len(wide))))

Unscaled(adjustment, scale) == adjustment    \* a mutant: the adjustment is not scaled
Scaled(adjustment, scale) == adjustment * TenTo[scale]
Offset(d, adjustment, subtract) ==
  LET scale  == Len(d.frac)
      signed == Units(d, scale)
      scaled == Scaled(adjustment, scale)
      sum    == IF subtract THEN signed - scaled ELSE signed + scaled
  IN  IF \/ ~ FitsWide(Natural(d.int \o d.frac))
         \/ ~ FitsWide(TenTo[scale])
         \/ ~ FitsWide(scaled)
         \/ ~ FitsWide(sum) THEN [failed |-> NumericMagnitude]
      ELSE IF scale = 0 /\ FitsInt(sum) THEN [integer |-> sum]
      ELSE [decimal |-> ScaledText(sum, scale)]

=============================================================================
