------------------------------- MODULE Pricing ------------------------------
(***************************************************************************)
(* What preparing for a hazard costs, and what curing one costs            *)
(* (shared/outages.js).  Prices follow the player's output, with a floor.  *)
(* The code rounds none of them, and the multiplier is 2.5 by default: a   *)
(* price or a multiplier is a ratio of whole numbers here.                 *)
(***************************************************************************)
EXTENDS Integers

Ratios == [num : Nat, den : Nat \ {0}]
Times(a, b) == [num |-> a.num * b.num, den |-> a.den * b.den]
AtLeast(a, b) == a.num * b.den >= b.num * a.den

\* The least whole number that is no smaller.
Ceiling(a) == (a.num + a.den - 1) \div a.den

SupplyPrice(seconds, floor, rate) ==
    IF rate * seconds >= floor THEN rate * seconds ELSE floor

\* price * multiplier * (1 + remaining/total)
CureCost(price, multiplier, remaining, total) ==
    Times(Times(price, multiplier), [num |-> total + remaining, den |-> total])
=============================================================================
