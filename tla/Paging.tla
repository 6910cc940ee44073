------------------------------- MODULE Paging -------------------------------
(***************************************************************************)
(* The arithmetic of pages, as both listings do it: the number of the page *)
(* and its length, two integers of the request, become the OFFSET of a     *)
(* statement, which is an int of w bits.  MaxInt stands for 2^(w-1) - 1.   *)
(***************************************************************************)
EXTENDS Integers

CONSTANT MaxInt     \* the largest int

ASSUME MaxIntAssumption == MaxInt \in Nat \ {0}

Span == 2 * (MaxInt + 1)

(* What is left of an integer when its low w bits are read as an int: the *)
(* conversion in search_strategy.cpp, and the product of two int in        *)
(* history.cpp as the machine computes it.                                 *)
ToInt(x) == ((x + MaxInt + 1) % Span) - (MaxInt + 1)

OffsetOf(page, limit) == ToInt((page - 1) * limit)

(* No bit is lost.                                                         *)
Fits(page, limit) == (page - 1) * limit <= MaxInt

=============================================================================
