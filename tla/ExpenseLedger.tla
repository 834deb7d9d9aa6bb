--------------------------- MODULE ExpenseLedger ---------------------------
(***************************************************************************)
(* The expenses of one group and the balance snapshot kept in Redis:       *)
(* createExpense, patchExpense, deleteExpense, reclassify, receipt upload  *)
(* and getGroupBalanceView of ExpensesService, as handlers that interleave *)
(* at every await.  A Prisma transaction is one action: the UPDATE of the  *)
(* expense row comes first in it and orders the transactions of one row.   *)
(*                                                                         *)
(* Of an expense the model keeps its title, its amount, what its           *)
(* participant rows add up to (owed) and what its payer row says (paid);   *)
(* that a split adds up to its amount is GroupBalances' business.  rev     *)
(* stands for updatedAt.  Permission checks only refuse and are left out.  *)
(*                                                                         *)
(* findMany with an include is two SELECTs in Prisma, so a view reads the  *)
(* expenses first and their participants after.                            *)
(*                                                                         *)
(* An operator Name_slip is Name with a mistake a change could make; no    *)
(* specification uses them, they only show that a property would notice.   *)
(***************************************************************************)
EXTENDS Naturals

CONSTANTS
  Expenses, Requests, Titles, Amounts,
  MaxRev,            \* bound on the writes to one expense
  Keep               \* a field the PATCH body leaves out

ASSUME AmountAssumption ==
  /\ Amounts \subseteq Nat \ {0} /\ MaxRev \in Nat
  /\ Keep \notin Amounts /\ Keep \notin Titles
ASSUME ValuesExist == Amounts # {} /\ Titles # {} /\ Expenses # {}

VARIABLES
  expense,   \* id -> row
  cache,     \* lb:group-balance:<group>: NoSnap or a snapshot
  req,       \* handler -> what it is at and what it has read or will write
  missed     \* history: a snapshot outlived a write whose handler failed

vars == <<expense, cache, req, missed>>

Writes == {"split", "scalar", "reclassify", "receipt", "delete"}
Places == {"idle", "commit", "drop", "rows", "shares", "fill"}

Row == [live : {"no", "yes", "deleted"}, title : Titles, amount : Amounts,
        owed : Amounts, paid : Amounts, rev : 0..MaxRev]
Sums == [Expenses -> Amounts \cup {0}]
NoSums == [x \in Expenses |-> 0]
Snap == [amounts : Sums, owed : Sums, raced : BOOLEAN, ttl : BOOLEAN]
NoSnap == [amounts |-> NoSums, owed |-> NoSums, raced |-> FALSE, ttl |-> FALSE]

\* op "view" and "create" have no expense read before; expects: expectedUpdatedAt
Handler == [at : Places, op : Writes \cup {"none", "create", "view"},
            x : Expenses, title : Titles, amount : Amounts, rev : 0..MaxRev,
            expects : BOOLEAN, amounts : Sums, owed : Sums, raced : BOOLEAN]

TypeOK ==
  /\ expense \in [Expenses -> Row]
  /\ cache \in Snap
  /\ req \in [Requests -> Handler]
  /\ missed \in BOOLEAN

-----------------------------------------------------------------------------
Idle == [at |-> "idle", op |-> "none", x |-> CHOOSE x \in Expenses : TRUE,
         title |-> CHOOSE t \in Titles : TRUE, amount |-> CHOOSE a \in Amounts : TRUE,
         rev |-> 0, expects |-> FALSE, amounts |-> NoSums, owed |-> NoSums,
         raced |-> FALSE]

NoRow == [live |-> "no", title |-> Idle.title, amount |-> Idle.amount,
          owed |-> Idle.amount, paid |-> Idle.amount, rev |-> 0]

Init ==
  /\ expense = [x \in Expenses |-> NoRow]
  /\ cache = NoSnap
  /\ req = [r \in Requests |-> Idle]
  /\ missed = FALSE

(* What a balance is computed from, as the tables stand. *)
Current(field) ==
  [x \in Expenses |-> IF expense[x].live = "yes" THEN expense[x][field] ELSE 0]

Fresh(snap) == snap.amounts = Current("amount") /\ snap.owed = Current("owed")

Or(given, existing) == IF given = Keep THEN existing ELSE given

-----------------------------------------------------------------------------
(* PATCH, DELETE, reclassify or a receipt: the handler reads the expense and *)
(* checks it.  A split without an amount is computed for the amount read,   *)
(* and every field the body leaves out will be written back as read.        *)
Read(r, op, x, title, amount, expects) ==
  /\ req[r].at = "idle"
  /\ expense[x].live = "yes"
  /\ op \notin {"split", "scalar"} => title = Keep /\ ~expects
  /\ op # "split" => amount = Keep
  /\ req' = [req EXCEPT ![r] =
       [Idle EXCEPT !.at = "commit", !.op = op, !.x = x, !.expects = expects,
          !.title = Or(title, expense[x].title),
          !.amount = Or(amount, expense[x].amount), !.rev = expense[x].rev]]
  /\ UNCHANGED <<expense, cache, missed>>

SplitRow_wholeRow(row, k) ==
  [row EXCEPT !.title = k.title, !.amount = k.amount, !.owed = k.amount,
              !.paid = k.amount, !.live = "yes"]
SplitRow(row, k) ==
  [row EXCEPT !.title = k.title, !.amount = k.amount, !.owed = k.amount,
              !.paid = k.amount]

ScalarRow_amount(row, k) == [row EXCEPT !.title = k.title, !.amount = k.amount]
ScalarRow(row, k) == [row EXCEPT !.title = k.title]

DeletedRow(row, k) == [row EXCEPT !.live = "deleted"]

Written(row, k) ==
  CASE k.op = "split"  -> SplitRow(row, k)
    [] k.op = "scalar" -> ScalarRow(row, k)
    [] k.op = "delete" -> DeletedRow(row, k)
    [] OTHER           -> row

Revised(row) == [row EXCEPT !.rev = @ + 1]

NewRow_untitled(title, amount) ==
  [live |-> "yes", title |-> Keep, amount |-> amount, owed |-> amount,
   paid |-> amount, rev |-> 0]
NewRow(title, amount) ==
  [live |-> "yes", title |-> title, amount |-> amount, owed |-> amount,
   paid |-> amount, rev |-> 0]

(* History: a view that has begun to read now holds rows of two moments. *)
Racing(k) == [k EXCEPT !.raced = @ \/ k.at \in {"shares", "fill"}]

\* Where a handler goes after its write; the upload of a receipt invalidates nothing.
AfterWrite_cached(k) ==
  IF k.op \in {"receipt", "delete"} THEN Idle ELSE [k EXCEPT !.at = "drop"]
AfterWrite(k) ==
  IF k.op = "receipt" THEN Idle ELSE [k EXCEPT !.at = "drop"]

(* The write, in a transaction or as a single UPDATE. *)
Commit(r) ==
  LET k == req[r] IN
  /\ k.at = "commit"
  /\ expense[k.x].rev < MaxRev
  /\ expense' = [expense EXCEPT ![k.x] = Revised(Written(@, k))]
  /\ req' = [q \in Requests |->
       IF q = r THEN AfterWrite(k)
       ELSE IF k.op \in {"split", "delete"} THEN Racing(req[q]) ELSE req[q]]
  /\ UNCHANGED <<cache, missed>>

(* createExpense: nothing is read of the table before the transaction.      *)
Create(r, x, title, amount) ==
  /\ req[r].at = "idle"
  /\ expense[x].live = "no"
  /\ expense' = [expense EXCEPT ![x] = NewRow(title, amount)]
  /\ req' = [q \in Requests |->
       IF q = r THEN [Idle EXCEPT !.at = "drop", !.op = "create", !.x = x]
       ELSE Racing(req[q])]
  /\ UNCHANGED <<cache, missed>>

(* DEL of the snapshot, the last step of every writer. *)
Drop(r) ==
  /\ req[r].at = "drop"
  /\ cache' = NoSnap
  /\ missed' = FALSE
  /\ req' = [req EXCEPT ![r] = Idle]
  /\ UNCHANGED expense

-----------------------------------------------------------------------------
(* A view answers from the snapshot.  One that finds none reads the         *)
(* expenses, then their participants, and stores what it computes.          *)
ViewHit(r) ==
  /\ req[r].at = "idle"
  /\ cache # NoSnap
  /\ UNCHANGED vars

ViewMiss(r) ==
  /\ req[r].at = "idle"
  /\ cache = NoSnap
  /\ req' = [req EXCEPT ![r] = [Idle EXCEPT !.at = "rows", !.op = "view"]]
  /\ UNCHANGED <<expense, cache, missed>>

ViewRows(r) ==
  /\ req[r].at = "rows"
  /\ req' = [req EXCEPT ![r].at = "shares", ![r].amounts = Current("amount")]
  /\ UNCHANGED <<expense, cache, missed>>

ViewShares(r) ==
  /\ req[r].at = "shares"
  /\ req' = [req EXCEPT ![r].at = "fill",
       ![r].owed = [x \in Expenses |->
                      IF req[r].amounts[x] = 0 THEN 0 ELSE expense[x].owed]]
  /\ UNCHANGED <<expense, cache, missed>>

Computed_forever(k) ==
  [amounts |-> k.amounts, owed |-> k.owed, raced |-> k.raced, ttl |-> FALSE]
Computed(k) ==
  [amounts |-> k.amounts, owed |-> k.owed, raced |-> k.raced, ttl |-> TRUE]

ViewFill(r) ==
  /\ req[r].at = "fill"
  /\ cache' = Computed(req[r])
  /\ req' = [req EXCEPT ![r] = Idle]
  /\ UNCHANGED <<expense, missed>>

(* The TTL of the snapshot. *)
Expire ==
  /\ cache # NoSnap /\ cache.ttl
  /\ cache' = NoSnap
  /\ missed' = FALSE
  /\ UNCHANGED <<expense, req>>

(* A call fails or the process dies.  After the commit the write stands and *)
(* the snapshot is not deleted.                                             *)
Fail(r) ==
  /\ req[r].at # "idle"
  /\ req' = [req EXCEPT ![r] = Idle]
  /\ missed' = (missed \/ (req[r].at = "drop" /\ cache # NoSnap))
  /\ UNCHANGED <<expense, cache>>

Step(r) ==
  \/ \E op \in Writes, x \in Expenses, title \in Titles \cup {Keep},
        amount \in Amounts \cup {Keep}, expects \in BOOLEAN :
          Read(r, op, x, title, amount, expects)
  \/ \E x \in Expenses, title \in Titles, amount \in Amounts : Create(r, x, title, amount)
  \/ Commit(r) \/ Drop(r)
  \/ ViewHit(r) \/ ViewMiss(r) \/ ViewRows(r) \/ ViewShares(r) \/ ViewFill(r)
  \/ Fail(r)

Next == Expire \/ \E r \in Requests : Step(r)

Spec == Init /\ [][Next]_vars

(* Redis lets the snapshot expire; nothing else need ever happen. *)
LiveSpec == Spec /\ WF_vars(Expire)

-----------------------------------------------------------------------------
(* In the tables, the participant rows add up to the amount of their        *)
(* expense and so does the payer row, however patches overlap.              *)
SharesMatchAmount ==
  \A x \in Expenses : expense[x].live # "no" =>
    expense[x].owed = expense[x].amount /\ expense[x].paid = expense[x].amount

(* A deleted expense stays deleted, also when a patch that read it before   *)
(* the deletion commits after it.                                           *)
DeletedStaysDeleted ==
  [][\A x \in Expenses :
       expense[x].live = "deleted" => expense'[x].live = "deleted"]_vars

(* Every operation that changes balances drops the snapshot.  So a snapshot *)
(* that was not read while such a write went on, and that no failed handler *)
(* left behind, is the balance of the tables, but for writes whose handler  *)
(* is still to drop it.                                                     *)
CacheIsFresh ==
  cache # NoSnap /\ ~cache.raced /\ ~missed /\ (\A r \in Requests : req[r].at # "drop")
    => Fresh(cache)

(* A stale snapshot does not last: when the writes have stopped, the TTL    *)
(* removes what races and failures left.                                    *)
StalenessEnds == <>[](cache = NoSnap \/ Fresh(cache))

(* The comment on expectedUpdatedAt: 409 if the row changed.  So a patch    *)
(* that carries it is only written to the version its client has seen.      *)
(* Refuted by a write between the check and the UPDATE.                     *)
NoLostUpdate ==
  [][\A r \in Requests :
       req[r].at = "commit" /\ req[r].expects /\ req'[r].at = "drop"
         => expense[req[r].x].rev = req[r].rev]_vars
=============================================================================
