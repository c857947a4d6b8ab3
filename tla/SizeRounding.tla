----------------------------- MODULE SizeRounding -----------------------------
(***************************************************************************)
(* How the size of a queue becomes its capacity: roundNextPowerOfTwo of    *)
(* queue/BoundedTypedConcurrentAsyncQueue.h, on numbers of Width bits.     *)
(***************************************************************************)
EXTENDS Integers

CONSTANT Width  (* bits of size_t                                          *)

ASSUME WidthAssumption == Width \in Nat \ {0}

(* The powers of two, the last of which is no size any more.               *)
Power[k \in 0 .. Width] == IF k = 0 THEN 1 ELSE 2 * Power[k - 1]

SizeLimit == Power[Width]

Wrap(n) == n % SizeLimit

(* The ones of a number.                                                   *)
Bits(value) == { b \in 0 .. Width - 1 : (value \div Power[b]) % 2 = 1 }

Number(bits) == CHOOSE n \in 0 .. SizeLimit - 1 : Bits(n) = bits

(* The shifts of the loop: 1, 2, 4 and so on below the width.              *)
Shifts == { Power[k] : k \in 0 .. Width } \cap 1 .. Width - 1

ShiftRight(bits, i) == { b \in 0 .. Width - 1 : b + i \in bits }

(* Every bit below a one becomes one: what is shifted further than by one  *)
(* has been spread by the smaller shifts before.                           *)
Spread(bits) ==
  LET spread[i \in 0 .. Width] ==
        IF i = 0 THEN bits
        ELSE IF i \in Shifts THEN spread[i - 1] \cup ShiftRight(spread[i - 1], i)
        ELSE spread[i - 1]
  IN spread[Width]

IsPowerOfTwo(value) == value # 0 /\ Bits(value) \cap Bits(value - 1) = {}

(* A faulty rounding: powers of two are not told from the others, and one  *)
(* bit too many is cleared.                                                *)
RoundDown(value) == Wrap(Number(ShiftRight(Spread(Bits(value)), 1)) + 1)

RoundNextPowerOfTwo(value) ==
  IF value = 0 THEN 1
  ELSE IF IsPowerOfTwo(value) THEN value
  ELSE Wrap(Number(Spread(Bits(value - 1))) + 1)

=============================================================================
