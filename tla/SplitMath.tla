----------------------------- MODULE SplitMath -----------------------------
(***************************************************************************)
(* The arithmetic of a split: rounding.engine.ts and the six split types   *)
(* of ExpenseSplitService.                                                 *)
(*                                                                         *)
(* Every decimal of the code is an integer count of its fourth decimal     *)
(* place, the precision of the columns (Decimal(19, 4)): One is 1, Sub is  *)
(* 0.01, the minor unit at the only scale the callers pass, 2.  A split    *)
(* is a function from its participants to what each owes; where the code   *)
(* throws an Error it is Refused.  Amounts are nonnegative.                *)
(*                                                                         *)
(* who is the order in which the request names the participants: it        *)
(* decides who gets the units that do not divide.                          *)
(***************************************************************************)
EXTENDS Integers, SequencesExt

One == 10000
Sub == 100
Eps == 1               \* EPS, 0.0001

Refused == [u \in {} |-> 0]

Distance(a, b) == IF a < b THEN b - a ELSE a - b

\* Minor units of an amount, ROUND_HALF_UP, which is away from zero.
Minor(x) == IF x >= 0 THEN (x + Sub \div 2) \div Sub ELSE -((Sub \div 2 - x) \div Sub)

-----------------------------------------------------------------------------
(* The order in which the left-over units are handed out.                   *)
Ahead_smallest(rem, k, l) == rem[k] < rem[l] \/ (rem[k] = rem[l] /\ k < l)
Ahead(rem, k, l) == rem[k] > rem[l] \/ (rem[k] = rem[l] /\ k < l)

(* Largest remainder: total minor units over positive total weight. *)
Distribute_floors(total, weights) ==
  [k \in DOMAIN weights |-> (total * weights[k]) \div SumFunction(weights)]
Distribute(total, weights) ==
  LET W == SumFunction(weights)
      floors == [k \in DOMAIN weights |-> (total * weights[k]) \div W]
      rem == [k \in DOMAIN weights |-> (total * weights[k]) % W]
      leftover == total - SumFunction(floors)
      Rank(k) == Cardinality({l \in DOMAIN weights : Ahead(rem, l, k)})
  IN  [k \in DOMAIN weights |-> floors[k] + (IF Rank(k) < leftover THEN 1 ELSE 0)]

DistributeMoney(total, who, weights) ==
  LET parts == Distribute(Minor(total), [k \in DOMAIN weights |-> Minor(weights[k])])
  IN  [u \in Range(who) |-> Sub * parts[CHOOSE k \in DOMAIN who : who[k] = u]]

DistributeEqual(total, who) == DistributeMoney(total, who, [k \in DOMAIN who |-> One])

-----------------------------------------------------------------------------
(* The last check of every split type. *)
Wrap(total, owed) ==
  IF Distance(SumFunction(owed), total) <= Eps THEN owed ELSE Refused

Equal(total, who) == Wrap(total, DistributeEqual(total, who))

Exact(total, who, amounts) ==
  IF Distance(SumFunction(amounts), total) > Eps THEN Refused
  ELSE Wrap(total, [u \in Range(who) |->
         Sub * Minor(amounts[CHOOSE k \in DOMAIN who : who[k] = u])])

\* A weight below half a minor unit is nothing; all of them so is an Error.
Weightless(who, values) == \A k \in DOMAIN who : Minor(values[k]) = 0

\* Percentages may miss 100 by 0.01 and weigh what they say.
Percentage(total, who, percentages) ==
  IF Distance(SumFunction(percentages), 100 * One) > Sub \/ Weightless(who, percentages)
  THEN Refused
  ELSE Wrap(total, DistributeMoney(total, who, percentages))

Shares(total, who, shares) ==
  IF (\E k \in DOMAIN who : shares[k] <= 0) \/ Weightless(who, shares) THEN Refused
  ELSE Wrap(total, DistributeMoney(total, who, shares))

\* fixed: user -> amount; the rest is shared equally.
Adjustment(total, fixed, rest) ==
  LET remainder == total - SumFunction(fixed)
      parts == DistributeEqual(remainder, rest)
  IN  IF remainder < 0 \/ DOMAIN fixed \cap Range(rest) # {} THEN Refused
      ELSE Wrap(total, [u \in DOMAIN fixed \cup Range(rest) |->
             IF u \in DOMAIN fixed THEN Sub * Minor(fixed[u]) ELSE parts[u]])

\* lines: a sequence of [amount, who], each shared equally.
Itemized(total, lines) ==
  LET OfLine(k, u) == IF u \in Range(lines[k].who)
                      THEN DistributeEqual(lines[k].amount, lines[k].who)[u] ELSE 0
      listed == UNION {Range(lines[k].who) : k \in DOMAIN lines}
  IN  IF Distance(SumFunction([k \in DOMAIN lines |-> lines[k].amount]), total) > Eps
      THEN Refused
      ELSE Wrap(total, [u \in listed |-> SumFunction([k \in DOMAIN lines |-> OfLine(k, u)])])
=============================================================================
