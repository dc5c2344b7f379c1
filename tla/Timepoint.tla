------------------------------ MODULE Timepoint ------------------------------
(***************************************************************************)
(* Time points that wrap around: clock_timepoint.hpp.  A time point is one *)
(* of the Modulus values of an unsigned integer (2^64 in the code).        *)
(***************************************************************************)
EXTENDS Integers

CONSTANT Modulus

ASSUME ModulusAssumption == Modulus \in Nat \ {0} /\ Modulus % 2 = 0

Point == 0 .. Modulus - 1

Half == Modulus \div 2

\* Unsigned addition and subtraction.
Plus(a, b) == IF a + b < Modulus THEN a + b ELSE a + b - Modulus

Minus(a, b) == IF a >= b THEN a - b ELSE a - b + Modulus

\* advance and advance_from, by a whole number of microseconds.
advance(t, d) == Plus(t, d)

\* Mutant of is_after: points are compared as numbers.
is_after_plain(t, other) == t > other

\* The difference is more than numeric_limits<Base>::max() / 2 = Half - 1.
is_after(t, other) == Minus(other, t) > Half - 1

is_before(t, other) == Minus(t, other) > Half - 1

\* A duration is signed: the upper half of the values is negative.
Signed(v) == IF v >= Half THEN v - Modulus ELSE v

\* operator-
Difference(t, other) ==
    IF is_after(t, other) THEN Signed(Minus(t, other)) ELSE -Minus(other, t)
==============================================================================
