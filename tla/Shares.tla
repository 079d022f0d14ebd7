------------------------------- MODULE Shares -------------------------------
(***************************************************************************)
(* The share maps both web apps work with, and what they compute with      *)
(* them.                                                                   *)
(*                                                                         *)
(* A share is a fraction, and the shares of a map have one denominator.    *)
(* An amount counts half cents, so that one cent is the smallest amount    *)
(* the forms round to and half of one is still an amount that can be       *)
(* typed.  A percentage is of a hundred in the Angular form and of one     *)
(* everywhere else.  Rounding by the doubles of the two apps shows in one  *)
(* place only: a deviation that is the tolerance itself is within it or    *)
(* not.                                                                    *)
(***************************************************************************)
EXTENDS Integers, FiniteSets, FiniteSetsExt, Functions

CONSTANT People     \* the accounts of the group, by id
ASSUME PeopleAssumption == People \subseteq Nat /\ People # {} /\ IsFiniteSet(People)

Modes == {"shares", "percent", "absolute"}
Cent == 2
Unit == 100 * Cent    \* what the number 1 is as an amount
RoundCents(amount) == (amount + 1) \div Cent   \* Math.round of the cents of an amount

Magnitude(x) == IF x < 0 THEN -x ELSE x
Gcd[b \in Nat] == [a \in Nat |-> IF b = 0 THEN a ELSE Gcd[a % b][b]]
Common(num, den) == FoldFunction(LAMBDA n, d : Gcd[d][Magnitude(n)], den, num)

\* Fractions in lowest terms, so that equal share maps are one value.
Reduced(num, den) ==
  LET sign == IF den < 0 THEN -1 ELSE 1
      common == Common(num, Magnitude(den))
  IN  [num |-> [p \in DOMAIN num |-> (sign * num[p]) \div common], den |-> Magnitude(den) \div common]
Whole(num) == [num |-> num, den |-> 1]
Nobody == Whole(<< >>)
Scaled(s, by, over) == Reduced([p \in DOMAIN s.num |-> s.num[p] * by], s.den * over)
With(s, p, n, d) ==
  LET common == Gcd[d][Magnitude(n)]
      over == d \div common
  IN  Reduced([q \in DOMAIN s.num \cup {p} |->
                 IF q = p THEN (n \div common) * s.den ELSE s.num[q] * over], s.den * over)
Without(s, p) == Reduced([q \in DOMAIN s.num \ {p} |-> s.num[q]], s.den)
Holders(s) == DOMAIN s.num
sumShares(s) == SumFunction(s.num)    \* over s.den

\* Is deviation / den at most numer / denom?  At that value, edge says so.
Within(deviation, den, numer, denom, edge) ==
  deviation <= (den * numer - (IF edge THEN 0 ELSE 1)) \div denom

-----------------------------------------------------------------------------
(* domain/split.ts of the Angular frontend; people are taken in the order  *)
(* of their ids.                                                           *)

\* Slip: every share is rounded down.
SlipEvenly(value, people) ==
  LET cents == RoundCents(value)
  IN  Whole([p \in people |-> Cent * (cents \div Cardinality(people))])
splitEvenly(value, people) ==
  LET cents == RoundCents(value)
      base == cents \div Cardinality(people)
      last == cents - base * (Cardinality(people) - 1)
  IN  Whole([p \in people |-> Cent * (IF p = Max(people) THEN last ELSE base)])

PercentEach(people) ==
  LET each == 10000 \div Cardinality(people)
      last == 10000 - each * (Cardinality(people) - 1)
  IN  Reduced([p \in people |-> IF p = Max(people) THEN last ELSE each], 100)

respread(mode, people, value) ==
  IF people = {} THEN Nobody
  ELSE CASE mode = "shares" -> Whole([p \in people |-> 1])
         [] mode = "percent" -> PercentEach(people)
         [] mode = "absolute" -> splitEvenly(value, people)

\* How far a split is from what it has to add up to: the value, or all of it.
Off(mode, s, value, all) ==
  Magnitude(sumShares(s) - s.den * (IF mode = "absolute" THEN value ELSE all))

\* Slip: amounts may be off by a unit of the currency, not by a cent.
SlipValidate(mode, s, value, edge) ==
  /\ Holders(s) # {}
  /\ CASE mode = "shares" -> sumShares(s) > 0
       [] mode = "percent" -> Within(Off(mode, s, value, 100), s.den, 1, 100, edge)
       [] mode = "absolute" -> Within(Off(mode, s, value, 100), s.den, Unit, 1, edge)
validateSplit(mode, s, value, edge) ==
  /\ Holders(s) # {}
  /\ CASE mode = "shares" -> sumShares(s) > 0
       [] mode = "percent" -> Within(Off(mode, s, value, 100), s.den, 1, 100, edge)
       [] mode = "absolute" -> Within(Off(mode, s, value, 100), s.den, Cent, 1, edge)

toWire(mode, s) == IF mode = "percent" THEN Scaled(s, 1, 100) ELSE s
fromWire(mode, s) == IF mode = "percent" THEN Scaled(s, 100, 1) ELSE s

-----------------------------------------------------------------------------
(* libs/core of the React app.                                             *)

normalizeShares(s) ==
  IF sumShares(s) # 0 THEN Reduced(s.num, sumShares(s)) ELSE s

\* A share of an amount, as the code divides it: by 1 when the value is 0.
PartOf(s, value, by) ==
  IF value # 0 THEN Scaled(s, by, value) ELSE Scaled(s, by, Unit)

\* Slip: amounts are worked out without their total.
SlipAfterModeChange(prev, new, s, value) ==
  IF prev = new THEN s
  ELSE IF new = "evenly" THEN Whole([p \in Holders(s) |-> IF s.num[p] # 0 THEN 1 ELSE 0])
  ELSE IF new = "absolute" THEN
    IF sumShares(s) = 0 THEN s ELSE respread("absolute", Holders(s), value)
  ELSE IF prev = "absolute" THEN
    IF new = "percent" THEN normalizeShares(PartOf(s, value, 1)) ELSE PartOf(s, value, 10)
  ELSE IF prev = "shares" /\ new = "percent" THEN normalizeShares(s)
  ELSE IF prev = "percent" /\ new = "shares" THEN Scaled(s, 10, 1)
  ELSE s
\* The shares of getDebitorSharesAfterSplitModeChange; the mode is the new one,
\* "shares" for "evenly".
AfterModeChange(prev, new, s, value) ==
  IF prev = new THEN s
  ELSE IF new = "evenly" THEN Whole([p \in Holders(s) |-> IF s.num[p] # 0 THEN 1 ELSE 0])
  ELSE IF new = "absolute" THEN
    IF sumShares(s) = 0 THEN s
    ELSE Reduced([p \in Holders(s) |-> s.num[p] * value], sumShares(s))
  ELSE IF prev = "absolute" THEN
    IF new = "percent" THEN normalizeShares(PartOf(s, value, 1)) ELSE PartOf(s, value, 10)
  ELSE IF prev = "shares" /\ new = "percent" THEN normalizeShares(s)
  ELSE IF prev = "percent" /\ new = "shares" THEN Scaled(s, 10, 1)
  ELSE s

\* The two refinements of TransactionValidator.
AddsUp(mode, s, value, edge) ==
  CASE mode = "shares" -> TRUE
    [] mode = "percent" -> Within(Off(mode, s, value, 1), s.den, 1, 100000, edge)
    [] mode = "absolute" -> Within(Off(mode, s, value, 1), s.den, Unit, 100000, edge)
=============================================================================
