------------------------------ MODULE RevFloat ------------------------------
(***************************************************************************)
(* The floating-point functions of the F and D extensions that do not only *)
(* hand their operands to an operation of the host: conversion to integer, *)
(* sign injection, minimum and maximum, classification, the fused          *)
(* operations, and the registers that hold a float inside a double.        *)
(*                                                                         *)
(* A value is <<sign, magnitude>>, the magnitude counted in halves.  A     *)
(* format has P significant bits.  Magnitude 1 stands for the subnormal    *)
(* numbers; sums and products that are exact are enough here.              *)
(***************************************************************************)
EXTENDS Integers

Inf == 1000
QNaN == 1001
SNaN == 1002
IsNaN(v) == v[2] > Inf
Zero(v) == v[2] = 0
Val(v) == IF v[1] THEN -v[2] ELSE v[2]
Neg(v) == <<~v[1], v[2]>>
copysign(v, s) == <<s[1], v[2]>>
Canonical == <<FALSE, QNaN>>

\* P bits hold m; and what FP(m) rounds m to when they do not.  The limits of the integer types
\* have only ones, so that half way means up.
Holds(P, m) == \E e \in 0..12 : m % 2^e = 0 /\ m \div 2^e < 2^P
Nearest(P, m) ==
  LET e == CHOOSE k \in 0..12 : m \div 2^k < 2^P /\ (k = 0 \/ m \div 2^(k - 1) >= 2^P)
      low == m - (m % 2^e)
  IN IF 2 * (m - low) < 2^e THEN low ELSE low + 2^e

\* CvtFpToInt: NaN and what is above FP(max) is max, what is below min is min, and the rest is
\* cast, which C++ leaves undefined outside of the range of the type.
CvtFpToIntWraps(P, n, signed, v) == {(Val(v) \div 2) % 2^n}

CvtFpToInt(P, n, signed, v) ==
  LET max == IF signed THEN 2^(n - 1) - 1 ELSE 2^n - 1
      min == IF signed THEN -(2^(n - 1)) ELSE 0
      cast == IF v[1] THEN -(v[2] \div 2) ELSE v[2] \div 2
  IN CASE IsNaN(v) \/ Val(v) > Nearest(P, 2 * max) -> {max}
       [] ~IsNaN(v) /\ Val(v) < 2 * min -> {min}
       [] OTHER -> IF cast \in min..max THEN {cast} ELSE min..max

fsgnj(a, b) == copysign(a, b)
fsgnjn(a, b) == copysign(a, Neg(b))
fsgnjx(a, b) == copysign(a, IF a[1] THEN Neg(b) ELSE b)

\* std::fmin and std::fmax: the number when one operand is NaN; of two zeros, either.
FMin(a, b) ==
  CASE IsNaN(a) -> {b} [] IsNaN(b) -> {a}
    [] OTHER -> IF Val(a) < Val(b) THEN {a} ELSE IF Val(b) < Val(a) THEN {b} ELSE {a, b}
FMax(a, b) ==
  CASE IsNaN(a) -> {b} [] IsNaN(b) -> {a}
    [] OTHER -> IF Val(a) > Val(b) THEN {a} ELSE IF Val(b) > Val(a) THEN {b} ELSE {a, b}

\* The bit fclass sets.
fclass(v) ==
  CASE v[2] = Inf -> IF v[1] THEN 0 ELSE 7
    [] v[2] = QNaN -> 9 [] v[2] = SNaN -> 8
    [] v[2] \in 2..(Inf - 1) -> IF v[1] THEN 1 ELSE 6
    [] v[2] = 1 -> IF v[1] THEN 2 ELSE 5
    [] v[2] = 0 -> IF v[1] THEN 3 ELSE 4

\* a * b + c in whole numbers; a zero sum of unlike signs is positive.
fma(a, b, c) ==
  LET sign == a[1] # b[1]
      sum == (IF sign THEN -1 ELSE 1) * ((a[2] * b[2]) \div 2) + Val(c)
  IN IF sum # 0 THEN <<sum < 0, IF sum < 0 THEN -sum ELSE sum>>
     ELSE <<sign /\ c[1], 0>>

fmadd(a, b, c) == fma(a, b, c)
fmsub(a, b, c) == fma(a, b, Neg(c))
fnmsub(a, b, c) == fma(Neg(a), b, c)
fnmadd(a, b, c) == Neg(fma(a, b, c))

-----------------------------------------------------------------------------
(* A register of a core with D holds a double, or a float boxed by 32 ones; hi is the upper    *)
(* half ("ones", or that of a double) and lo the float its lower half reads as.                *)

BoxNaN(reg, f) == [reg EXCEPT !.hi = "ones", !.lo = f]

\* Without D the register is the float.
SetFPFloat(hasD, reg, f) == IF hasD THEN BoxNaN(reg, f) ELSE [reg EXCEPT !.lo = f]
GetFPFloat(hasD, reg, raw) == IF ~hasD \/ raw \/ reg.hi = "ones" THEN reg.lo ELSE Canonical
=============================================================================
