--------------------------- MODULE GroupBalances ---------------------------
(***************************************************************************)
(* From bills to settlements: a bill is split (SplitMath), netFromExpense  *)
(* moves the nets of its payer and participants, and BalanceEngine rounds  *)
(* the nets and has DebtSimplificationService match debtors with           *)
(* creditors, one round of whose loop is one action.                       *)
(*                                                                         *)
(* Debtors (and creditors) of one amount come in the order of the rows of  *)
(* a query without ORDER BY, so any order of them is possible.             *)
(*                                                                         *)
(* An operator Name_slip is Name with a mistake a change could make; no    *)
(* specification uses them, they only show that a property would notice.   *)
(***************************************************************************)
EXTENDS SplitMath

CONSTANTS
  Users,
  StartNets,      \* nets that earlier bills have left
  Totals,         \* totals of bills, and of fixed parts and lines
  ShareValues, Percentages,
  MaxBills,       \* bound on the bills added
  MaxParties      \* bound on the participants named in a list

ASSUME BalanceAssumption ==
  /\ IsFiniteSet(Users)
  /\ StartNets \subseteq [Users -> Int] /\ \A f \in StartNets : SumFunction(f) = 0
  /\ Totals \cup ShareValues \cup Percentages \subseteq Nat
  /\ MaxBills \in Nat /\ MaxParties \in Nat

VARIABLES
  net,        \* user -> amount; positive is owed money
  bills,      \* bills added
  last,       \* the last bill: what it was and what its split came to
  debtors,    \* of simplify: sequences of [id, amt] in minor units
  creditors,
  out,        \* the transfers found so far
  phase

vars == <<net, bills, last, debtors, creditors, out, phase>>
match == <<debtors, creditors, out>>

Party == [id : Users, amt : Nat]
Transfer == [from : Users, to : Users, amount : Nat \ {0}]
NoBill == [total |-> 0, weights |-> Refused, owed |-> Refused, sound |-> FALSE]

TypeOK ==
  /\ net \in [Users -> Int] /\ bills \in 0..MaxBills
  /\ DOMAIN last.owed \subseteq Users
  /\ \A u \in DOMAIN last.owed : last.owed[u] \in Nat
  /\ Range(debtors) \cup Range(creditors) \subseteq Party
  /\ Range(out) \subseteq Transfer
  /\ phase \in {"ledger", "match"}

\* The transfers come to this for u, and leave this of what u owes or is owed.
PaidBy(u) == SumFunction([k \in DOMAIN out |-> IF out[k].from = u THEN out[k].amount ELSE 0])
PaidTo(u) == SumFunction([k \in DOMAIN out |-> IF out[k].to = u THEN out[k].amount ELSE 0])

Init ==
  /\ net \in StartNets
  /\ bills = 0 /\ last = NoBill
  /\ debtors = <<>> /\ creditors = <<>> /\ out = <<>>
  /\ phase = "ledger"

-----------------------------------------------------------------------------
(* netFromExpense: participants owe their shares, the payer is owed all.    *)
Credited_onlyOthers(payer, total, owed) ==
  [u \in Users |-> net[u] + (IF u = payer THEN total ELSE 0)
                          - (IF u \in DOMAIN owed \ {payer} THEN owed[u] ELSE 0)]
Credited(payer, total, owed) ==
  [u \in Users |-> net[u] + (IF u = payer THEN total ELSE 0)
                          - (IF u \in DOMAIN owed THEN owed[u] ELSE 0)]

(* sound: the request is one the split type allows, in whole minor units.   *)
Post(payer, total, owed, weights, sound) ==
  /\ bills' = bills + 1
  /\ last' = [total |-> total, weights |-> weights, owed |-> owed, sound |-> sound]
  /\ net' = IF owed = Refused THEN net ELSE Credited(payer, total, owed)
  /\ UNCHANGED <<match, phase>>

Whole(x) == x % Sub = 0
Named(who, values) == [u \in Range(who) |-> Minor(values[CHOOSE k \in DOMAIN who : who[k] = u])]
Orders == UNION {SetToSeqs(S) : S \in {T \in SUBSET Users : Cardinality(T) \in 1..MaxParties}}
Values(who, values) == [DOMAIN who -> values]

EqualBill(payer, total, who) ==
  Post(payer, total, Equal(total, who), [u \in Range(who) |-> 1], Whole(total))

ExactBill(payer, total, who, amounts) ==
  Post(payer, total, Exact(total, who, amounts), Refused,
       (\A k \in DOMAIN amounts : Whole(amounts[k])) /\ SumFunction(amounts) = total)

PercentageBill(payer, total, who, percentages) ==
  Post(payer, total, Percentage(total, who, percentages), Named(who, percentages),
       /\ Whole(total) /\ Distance(SumFunction(percentages), 100 * One) <= Sub
       /\ ~Weightless(who, percentages))

SharesBill(payer, total, who, shares) ==
  Post(payer, total, Shares(total, who, shares), Named(who, shares),
       Whole(total) /\ \A k \in DOMAIN shares : shares[k] >= Sub)

AdjustmentBill(payer, total, fixed, rest) ==
  Post(payer, total, Adjustment(total, fixed, rest), Refused,
       /\ Whole(total) /\ \A u \in DOMAIN fixed : Whole(fixed[u])
       /\ DOMAIN fixed \cap Range(rest) = {} /\ SumFunction(fixed) <= total)

ItemizedBill(payer, total, lines) ==
  Post(payer, total, Itemized(total, lines), Refused,
       /\ \A k \in DOMAIN lines : Whole(lines[k].amount)
       /\ SumFunction([k \in DOMAIN lines |-> lines[k].amount]) = total)

Bill ==
  /\ phase = "ledger" /\ bills < MaxBills
  /\ \E payer \in Users, total \in Totals, who \in Orders :
       \/ EqualBill(payer, total, who)
       \/ \E amounts \in Values(who, Totals) : ExactBill(payer, total, who, amounts)
       \/ \E ps \in Values(who, Percentages) : PercentageBill(payer, total, who, ps)
       \/ \E shares \in Values(who, ShareValues) : SharesBill(payer, total, who, shares)
       \/ \E u \in Users, a \in Totals \cup {0} : AdjustmentBill(payer, total, [v \in {u} |-> a], who)
       \/ \E other \in Orders, a \in Totals :
            /\ a <= total
            /\ ItemizedBill(payer, total, <<[amount |-> a, who |-> who],
                                           [amount |-> total - a, who |-> other]>>)

-----------------------------------------------------------------------------
Rounded(u) == Minor(net[u])
Owing_signed(u) == [id |-> u, amt |-> Rounded(u)]
Owing(u) == [id |-> u, amt |-> -Rounded(u)]
Owed(u) == [id |-> u, amt |-> Rounded(u)]

Descending(parties) ==
  {s \in SetToSeqs(parties) : \A k, l \in DOMAIN s : k < l => s[k].amt >= s[l].amt}

(* computeGroupBalances and simplify up to the loop. *)
Simplify ==
  /\ phase = "ledger"
  /\ debtors' \in Descending({Owing(u) : u \in {v \in Users : Rounded(v) < 0}})
  /\ creditors' \in Descending({Owed(u) : u \in {v \in Users : Rounded(v) > 0}})
  /\ out' = <<>> /\ last' = NoBill
  /\ phase' = "match"
  /\ UNCHANGED <<net, bills>>

Dust_rupee == 100
Dust == 1

(* What simplify matches next: the first of each side above the dust.       *)
Open(parties) == {k \in DOMAIN parties : parties[k].amt > Dust}
Matching == phase = "match" /\ Open(debtors) # {} /\ Open(creditors) # {}
First(parties) == CHOOSE k \in Open(parties) : \A l \in Open(parties) : k <= l

Less(party, pay) == [party EXCEPT !.amt = @ - pay]

Transferred_twice(cs, j, pay) == cs
Transferred(cs, j, pay) == [cs EXCEPT ![j] = Less(@, pay)]

Match ==
  /\ Matching
  /\ LET i == First(debtors)
         j == First(creditors)
         pay == Min({debtors[i].amt, creditors[j].amt})
     IN  /\ out' = Append(out, [from |-> debtors[i].id, to |-> creditors[j].id, amount |-> pay])
         /\ debtors' = [debtors EXCEPT ![i] = Less(@, pay)]
         /\ creditors' = Transferred(creditors, j, pay)
  /\ UNCHANGED <<net, bills, last, phase>>

(* The loop ends when either side has nothing above the dust left. *)
Answer ==
  /\ phase = "match" /\ ~Matching
  /\ phase' = "ledger"
  /\ debtors' = <<>> /\ creditors' = <<>> /\ out' = <<>>
  /\ UNCHANGED <<net, bills, last>>

Next == Bill \/ Simplify \/ Match \/ Answer

Spec == Init /\ [][Next]_vars

-----------------------------------------------------------------------------
(* A split by weights gives everybody less than a minor unit more or less   *)
(* than the exact proportion, and nobody more than somebody of a larger     *)
(* weight.                                                                  *)
SplitIsFair ==
  last.weights # Refused /\ last.owed # Refused =>
    LET W == SumFunction(last.weights)
        w == last.weights
    IN  \A u \in DOMAIN w :
          /\ Distance((last.owed[u] \div Sub) * W, Minor(last.total) * w[u]) < W
          /\ \A v \in DOMAIN w : w[u] > w[v] => last.owed[u] >= last.owed[v]

(* A bill that its split type allows, in whole minor units, is never thrown *)
(* out by the check of the sum, and is shared out to the last unit.         *)
SoundBillsAreSplit ==
  last.sound => last.owed # Refused /\ SumFunction(last.owed) = last.total

(* Whatever bills are added, what is owed to users is what users owe, but   *)
(* for the 0.0001 by which the parts of each bill may miss its total.       *)
NetsBalance == Distance(SumFunction(net), 0) <= bills * Eps

\* What u owes, or is owed, before any transfer.
Debt(u) == Max({0, -Rounded(u)})
Credit(u) == Max({0, Rounded(u)})

(* No transfer asks a debtor for more than the debt, or brings a creditor   *)
(* more than the credit, and nobody is on both sides.                       *)
NobodyOverpays ==
  \A u \in Users : phase = "match" =>
    /\ PaidBy(u) <= Debt(u)
    /\ PaidTo(u) <= Credit(u)

(* The transfers are fewer than the users with a balance, as the comment on *)
(* simplify says, and leave less than a minor unit a user unsettled, beside *)
(* what the rounded nets fail to balance by.                                *)
SettlesInFewTransfers ==
  phase = "match" /\ ~Matching =>
    LET n == Cardinality({u \in Users : Rounded(u) # 0})
        off == Distance(SumFunction([u \in Users |-> Rounded(u)]), 0)
    IN  /\ Len(out) <= Max({0, n - 1})
        /\ SumFunction([u \in Users |-> Debt(u) - PaidBy(u)]) <= n + off
        /\ SumFunction([u \in Users |-> Credit(u) - PaidTo(u)]) <= n + off

(* The comment on BalanceEngine: minimal settlement transfers.  No set of   *)
(* transfers settles with fewer than one for each user less one for each    *)
(* group of users that balances by itself.  Refuted by the greedy matching. *)
TransfersAreMinimal ==
  phase = "match" /\ ~Matching =>
    \A S \in SUBSET {u \in Users : Rounded(u) # 0} :
      S # {} /\ SumFunction([u \in S |-> Rounded(u)]) = 0 /\ (\E u \in Users \ S : Rounded(u) # 0)
        => Len(out) <= Cardinality({u \in Users : Rounded(u) # 0}) - 2
=============================================================================
