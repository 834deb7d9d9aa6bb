---------------------- MODULE ExpenseLedger_proofs -----------------------
(***************************************************************************)
(* For any number of expenses and handlers: the rows and handlers are      *)
(* typed, shares match amounts, deleted expenses stay deleted, and an      *)
(* undisturbed snapshot is the balance of the tables.                      *)
(***************************************************************************)
EXTENDS ExpenseLedger, TLAPS

USE AmountAssumption, ValuesExist

-----------------------------------------------------------------------------
(* The records the actions build. *)
LEMMA IdleType == Idle \in Handler
  <1>1. /\ (CHOOSE x \in Expenses : TRUE) \in Expenses
        /\ (CHOOSE t \in Titles : TRUE) \in Titles
        /\ (CHOOSE a \in Amounts : TRUE) \in Amounts
    OBVIOUS
  <1>2. NoSums \in Sums
    BY DEF NoSums, Sums
  <1>3. QED
    BY <1>1, <1>2 DEF Idle, Handler, Places

LEMMA NoSnapType == NoSnap \in Snap
  BY DEF NoSnap, Snap, NoSums, Sums

\* What each kind of write leaves of a row.
LEMMA WrittenRow ==
  ASSUME NEW w \in Row, NEW k \in Handler
  PROVE  /\ Written(w, k) \in Row
         /\ Written(w, k).live = IF k.op = "delete" THEN "deleted" ELSE w.live
         /\ w.owed = w.amount /\ w.paid = w.amount =>
              Written(w, k).owed = Written(w, k).amount /\ Written(w, k).paid = Written(w, k).amount
         /\ k.op \notin {"split", "delete"} =>
              Written(w, k).amount = w.amount /\ Written(w, k).owed = w.owed
  BY DEF Written, SplitRow, ScalarRow, DeletedRow, Row, Handler

LEMMA RevType ==
  ASSUME NEW w \in Row, w.rev < MaxRev
  PROVE  /\ Revised(w) \in Row
         /\ Revised(w).live = w.live
         /\ Revised(w).amount = w.amount
         /\ Revised(w).owed = w.owed
         /\ Revised(w).paid = w.paid
  BY DEF Revised, Row

LEMMA AfterWriteType ==
  ASSUME NEW k \in Handler
  PROVE  AfterWrite(k) \in Handler /\ Racing(k) \in Handler
  BY IdleType, ZenonT(60) DEF AfterWrite, Racing, Handler, Places

LEMMA CurrentSums ==
  ASSUME TypeOK
  PROVE  Current("amount") \in Sums /\ Current("owed") \in Sums
  BY DEF TypeOK, Current, Sums, Row

-----------------------------------------------------------------------------
(* Types. *)
LEMMA TypesInit == Init => TypeOK
  <1>1. NoRow \in Row
    BY IdleType DEF NoRow, Row, Handler
  <1>2. QED
    BY <1>1, IdleType, NoSnapType DEF Init, TypeOK

LEMMA ReadTypes ==
  ASSUME TypeOK, NEW r \in Requests, NEW op \in Writes, NEW x \in Expenses,
         NEW title \in Titles \cup {Keep}, NEW amount \in Amounts \cup {Keep},
         NEW expects \in BOOLEAN, Read(r, op, x, title, amount, expects)
  PROVE  TypeOK'
  <1>1. expense[x] \in Row
    BY DEF TypeOK
  <1>2. Or(title, expense[x].title) \in Titles /\ Or(amount, expense[x].amount) \in Amounts
        /\ expense[x].rev \in 0..MaxRev
    BY <1>1 DEF Or, Row
  <1>3. [Idle EXCEPT !.at = "commit", !.op = op, !.x = x, !.expects = expects,
           !.title = Or(title, expense[x].title),
           !.amount = Or(amount, expense[x].amount), !.rev = expense[x].rev] \in Handler
    BY <1>2, IdleType DEF Handler, Places
  <1>4. QED
    BY <1>3 DEF Read, TypeOK

LEMMA CommitTypes ==
  ASSUME TypeOK, NEW r \in Requests, Commit(r)
  PROVE  TypeOK'
  <1> DEFINE k == req[r]
  <1>1. k \in Handler /\ k.x \in Expenses /\ expense[k.x] \in Row
    BY DEF TypeOK, Handler
  <1>2. Written(expense[k.x], k) \in Row
    BY <1>1, WrittenRow
  <1>3. Written(expense[k.x], k).rev = expense[k.x].rev
    BY <1>1 DEF Written, SplitRow, ScalarRow, DeletedRow, Row
  <1>4. Revised(Written(expense[k.x], k)) \in Row
    BY <1>1, <1>2, <1>3, RevType DEF Commit
  <1>5. expense' \in [Expenses -> Row]
    BY <1>1, <1>4 DEF Commit, TypeOK
  <1>6. req' \in [Requests -> Handler]
    BY AfterWriteType DEF Commit, TypeOK
  <1>7. QED
    BY <1>5, <1>6 DEF Commit, TypeOK

LEMMA CreateTypes ==
  ASSUME TypeOK, NEW r \in Requests, NEW x \in Expenses, NEW title \in Titles,
         NEW amount \in Amounts, Create(r, x, title, amount)
  PROVE  TypeOK'
  <1>1. NewRow(title, amount) \in Row
    BY DEF NewRow, Row
  <1>2. [Idle EXCEPT !.at = "drop", !.op = "create", !.x = x] \in Handler
    BY IdleType DEF Handler, Places
  <1>3. req' \in [Requests -> Handler]
    BY <1>2, AfterWriteType DEF Create, TypeOK
  <1>4. QED
    BY <1>1, <1>3 DEF Create, TypeOK

LEMMA ViewTypes ==
  ASSUME TypeOK, NEW r \in Requests,
         ViewHit(r) \/ ViewMiss(r) \/ ViewRows(r) \/ ViewShares(r) \/ ViewFill(r)
  PROVE  TypeOK'
  <1> req[r] \in Handler
    BY DEF TypeOK
  <1>1. CASE ViewHit(r)
    BY <1>1 DEF ViewHit, vars, TypeOK
  <1>2. CASE ViewMiss(r)
    <2>1. [Idle EXCEPT !.at = "rows", !.op = "view"] \in Handler
      BY IdleType DEF Handler, Places
    <2>2. QED
      BY <1>2, <2>1 DEF ViewMiss, TypeOK
  <1>3. CASE ViewRows(r)
    <2>1. [req[r] EXCEPT !.at = "shares", !.amounts = Current("amount")] \in Handler
      BY CurrentSums DEF Handler, Places
    <2>2. QED
      BY <1>3, <2>1 DEF ViewRows, TypeOK
  <1>4. CASE ViewShares(r)
    <2> DEFINE shares == [x \in Expenses |-> IF req[r].amounts[x] = 0 THEN 0 ELSE expense[x].owed]
    <2>1. shares \in Sums
      BY DEF TypeOK, Sums, Row
    <2>2. [req[r] EXCEPT !.at = "fill", !.owed = shares] \in Handler
      BY <2>1 DEF Handler, Places
    <2>3. QED
      BY <1>4, <2>2 DEF ViewShares, TypeOK
  <1>5. CASE ViewFill(r)
    <2>1. Computed(req[r]) \in Snap
      BY DEF Computed, Snap, Handler
    <2>2. QED
      BY <1>5, <2>1, IdleType DEF ViewFill, TypeOK
  <1>6. QED
    BY <1>1, <1>2, <1>3, <1>4, <1>5

LEMMA TypesStep == TypeOK /\ [Next]_vars => TypeOK'
  <1> SUFFICES ASSUME TypeOK, [Next]_vars PROVE TypeOK'
    OBVIOUS
  <1>1. CASE UNCHANGED vars
    BY <1>1 DEF vars, TypeOK
  <1>2. CASE Expire
    BY <1>2, NoSnapType DEF Expire, TypeOK
  <1>3. ASSUME NEW r \in Requests, Step(r) PROVE TypeOK'
    <2>1. CASE Drop(r)
      BY <2>1, NoSnapType, IdleType DEF Drop, TypeOK
    <2>2. CASE Fail(r)
      BY <2>2, IdleType DEF Fail, TypeOK
    <2>3. QED
      BY <1>3, <2>1, <2>2, ReadTypes, CreateTypes, CommitTypes, ViewTypes DEF Step
  <1>4. QED
    BY <1>1, <1>2, <1>3 DEF Next

(* Rows, handlers and the snapshot are well formed in every reachable       *)
(* state: no handler writes a field it has not read or been given.          *)
THEOREM LedgerTypeCorrect == Spec => []TypeOK
  BY TypesInit, TypesStep, PTL DEF Spec

-----------------------------------------------------------------------------
(* Every step but a creation and a commit leaves the rows alone.            *)
LEMMA RowSteps ==
  ASSUME [Next]_vars
  PROVE  \/ expense' = expense
         \/ \E r \in Requests : Commit(r)
         \/ \E r \in Requests, x \in Expenses, title \in Titles, amount \in Amounts :
              Create(r, x, title, amount)
  BY ZenonT(60) DEF Next, Step, Read, Drop, ViewHit, ViewMiss, ViewRows, ViewShares, ViewFill,
         Expire, Fail, vars

\* What a commit makes of the row it writes.
LEMMA CommitRow ==
  ASSUME TypeOK, NEW r \in Requests, Commit(r), NEW x \in Expenses
  PROVE  LET k == req[r]
             w == expense[x]
             n == expense'[x]
         IN  /\ x # k.x => n = w
             /\ n.live = IF x = k.x /\ k.op = "delete" THEN "deleted" ELSE w.live
             /\ w.owed = w.amount /\ w.paid = w.amount =>
                  n.owed = n.amount /\ n.paid = n.amount
             /\ k.op \notin {"split", "delete"} => n.amount = w.amount /\ n.owed = w.owed
  <1> DEFINE k == req[r]
             w == expense[x]
             n == expense'[x]
             v == Written(w, k)
  <1>1. k \in Handler /\ w \in Row
    BY DEF TypeOK
  <1>2. CASE x # k.x
    BY <1>1, <1>2 DEF Commit, TypeOK
  <1>3. CASE x = k.x
    <2>1. n = Revised(v)
      BY <1>3 DEF Commit, TypeOK
    <2>2. v \in Row /\ v.rev = w.rev
      BY <1>1, WrittenRow DEF Written, SplitRow, ScalarRow, DeletedRow, Row
    <2>3. n.live = v.live /\ n.amount = v.amount /\ n.owed = v.owed /\ n.paid = v.paid
      BY <2>1, <2>2, <1>3, RevType DEF Commit
    <2>4. QED
      BY <1>1, <1>3, <2>3, WrittenRow
  <1>4. QED
    BY <1>2, <1>3

\* True of rows that were never written, too.
AllMatch ==
  \A x \in Expenses :
    expense[x].owed = expense[x].amount /\ expense[x].paid = expense[x].amount

(* The participant rows and the payer row of an expense add up to its       *)
(* amount, for any number of overlapping patches and deletions.             *)
THEOREM SharesAlwaysMatch == Spec => []SharesMatchAmount
  <1>1. Init => AllMatch
    <2>1. NoRow.owed = NoRow.amount /\ NoRow.paid = NoRow.amount
      BY Zenon DEF NoRow
    <2>2. QED
      BY <2>1 DEF Init, AllMatch
  <1>2. TypeOK /\ AllMatch /\ [Next]_vars => AllMatch'
    <2> SUFFICES ASSUME TypeOK, AllMatch, [Next]_vars, NEW x \in Expenses
                 PROVE  expense'[x].owed = expense'[x].amount
                        /\ expense'[x].paid = expense'[x].amount
      BY DEF AllMatch
    <2>1. CASE expense' = expense
      BY <2>1 DEF AllMatch
    <2>2. ASSUME NEW r \in Requests, Commit(r)
          PROVE  expense'[x].owed = expense'[x].amount
                 /\ expense'[x].paid = expense'[x].amount
      BY <2>2, CommitRow DEF AllMatch
    <2>3. ASSUME NEW r \in Requests, NEW y \in Expenses, NEW title \in Titles,
                 NEW amount \in Amounts, Create(r, y, title, amount)
          PROVE  expense'[x].owed = expense'[x].amount
                 /\ expense'[x].paid = expense'[x].amount
      BY <2>3 DEF Create, NewRow, TypeOK, AllMatch
    <2>4. QED
      BY <2>1, <2>2, <2>3, RowSteps
  <1>3. AllMatch => SharesMatchAmount
    BY DEF AllMatch, SharesMatchAmount
  <1>4. QED
    BY <1>1, <1>2, <1>3, LedgerTypeCorrect, PTL DEF Spec

(* A deleted expense is never brought back, by patches that read it before  *)
(* its deletion or by anything else.                                        *)
THEOREM DeletionIsFinal == Spec => DeletedStaysDeleted
  <1>1. TypeOK /\ [Next]_vars =>
          [\A x \in Expenses :
             expense[x].live = "deleted" => expense'[x].live = "deleted"]_vars
    <2> SUFFICES ASSUME TypeOK, [Next]_vars, NEW x \in Expenses, expense[x].live = "deleted"
                 PROVE  expense'[x].live = "deleted"
      OBVIOUS
    <2>1. ASSUME NEW r \in Requests, Commit(r) PROVE expense'[x].live = "deleted"
      BY <2>1, CommitRow
    <2>2. ASSUME NEW r \in Requests, NEW y \in Expenses, NEW title \in Titles,
                 NEW amount \in Amounts, Create(r, y, title, amount)
          PROVE  expense'[x].live = "deleted"
      BY <2>2 DEF Create, TypeOK
    <2>3. QED
      BY <2>1, <2>2, RowSteps
  <1>2. QED
    BY <1>1, LedgerTypeCorrect, PTL DEF Spec, DeletedStaysDeleted

-----------------------------------------------------------------------------
(* The snapshot.  What an undisturbed view has read is what the tables      *)
(* hold, and a snapshot it has stored is so until somebody is to drop it.   *)
ReadsCurrent(k) ==
  ~k.raced =>
    /\ k.at \in {"shares", "fill"} => k.amounts = Current("amount")
    /\ k.at = "fill" => k.owed = Current("owed")

SnapshotHolds ==
  cache # NoSnap /\ ~cache.raced =>
    Fresh(cache) \/ missed \/ \E r \in Requests : req[r].at = "drop"

CacheInv == TypeOK /\ (\A r \in Requests : ReadsCurrent(req[r])) /\ SnapshotHolds

Balances == <<Current("amount"), Current("owed")>>

LEMMA IdleReadsNothing == ReadsCurrent(Idle)
  BY DEF ReadsCurrent, Idle

\* A step that leaves the balances and the snapshot alone, and lets at most
\* one handler go on to a place where it has read what there is.
LEMMA QuietStep ==
  ASSUME CacheInv, Balances' = Balances, cache' = cache, missed' = missed,
         NEW r \in Requests, NEW h, req' = [req EXCEPT ![r] = h],
         ReadsCurrent(h), req[r].at = "drop" => h.at = "drop", TypeOK'
  PROVE  CacheInv'
  <1>1. Current("amount")' = Current("amount") /\ Current("owed")' = Current("owed")
    BY DEF Balances
  <1>2. \A q \in Requests : req'[q] = IF q = r THEN h ELSE req[q]
    BY DEF CacheInv, TypeOK
  <1>3. ASSUME NEW q \in Requests PROVE ReadsCurrent(req[q])'
    <2>1. ReadsCurrent(req'[q])
      BY <1>2 DEF CacheInv
    <2>2. QED
      BY <1>1, <2>1 DEF ReadsCurrent
  <1>4. Fresh(cache) => Fresh(cache)'
    BY <1>1 DEF Fresh
  <1>5. (\E q \in Requests : req[q].at = "drop") => \E q \in Requests : req'[q].at = "drop"
    BY <1>2
  <1>6. SnapshotHolds'
    BY <1>4, <1>5 DEF CacheInv, SnapshotHolds
  <1>7. QED
    BY <1>3, <1>6 DEF CacheInv

LEMMA SameRows ==
  ASSUME \A x \in Expenses : /\ expense'[x].live = expense[x].live
                             /\ expense'[x].amount = expense[x].amount
                             /\ expense'[x].owed = expense[x].owed
  PROVE  Balances' = Balances
  BY DEF Balances, Current

\* A step after which somebody is to drop the snapshot, and every view under
\* way is marked.
LEMMA DirtyStep ==
  ASSUME TypeOK, TypeOK', NEW r \in Requests, req'[r].at = "drop",
         \A q \in Requests \ {r} : req'[q] = Racing(req[q])
  PROVE  CacheInv'
  <1>1. ASSUME NEW q \in Requests PROVE ReadsCurrent(req[q])'
    <2>1. CASE q = r
      BY <2>1 DEF ReadsCurrent
    <2>2. CASE q # r
      <3>1. req[q] \in Handler
        BY DEF TypeOK
      <3>2. Racing(req[q]).at = req[q].at
            /\ (req[q].at \in {"shares", "fill"} => Racing(req[q]).raced)
        BY <3>1 DEF Racing, Handler
      <3>3. QED
        BY <2>2, <3>2 DEF ReadsCurrent
    <2>3. QED
      BY <2>1, <2>2
  <1>2. SnapshotHolds'
    BY DEF SnapshotHolds
  <1>3. QED
    BY <1>1, <1>2 DEF CacheInv

LEMMA CommitKeepsCache ==
  ASSUME CacheInv, NEW r \in Requests, Commit(r), TypeOK'
  PROVE  CacheInv'
  <1> DEFINE k == req[r]
  <1>1. TypeOK /\ k \in Handler /\ k.at = "commit"
    BY DEF CacheInv, TypeOK, Commit
  <1>2. CASE k.op \in {"split", "delete"}
    <2>1. AfterWrite(k).at = "drop"
      BY <1>1, <1>2 DEF AfterWrite, Handler
    <2>2. req'[r].at = "drop" /\ \A q \in Requests \ {r} : req'[q] = Racing(req[q])
      BY <1>2, <2>1 DEF Commit
    <2>3. QED
      BY <1>1, <2>2, DirtyStep
  <1>3. CASE k.op \notin {"split", "delete"}
    <2>1. Balances' = Balances
      BY <1>1, <1>3, CommitRow, SameRows
    <2>2. req' = [req EXCEPT ![r] = AfterWrite(k)]
      BY <1>1, <1>3 DEF Commit, TypeOK
    <2>3. ReadsCurrent(AfterWrite(k))
      BY <1>1, IdleReadsNothing DEF AfterWrite, ReadsCurrent, Handler
    <2>4. QED
      BY <1>1, <2>1, <2>2, <2>3, QuietStep DEF Commit
  <1>4. QED
    BY <1>2, <1>3

LEMMA CreateKeepsCache ==
  ASSUME CacheInv, NEW r \in Requests, NEW x \in Expenses, NEW title \in Titles,
         NEW amount \in Amounts, Create(r, x, title, amount), TypeOK'
  PROVE  CacheInv'
  <1>1. req'[r].at = "drop" /\ \A q \in Requests \ {r} : req'[q] = Racing(req[q])
    BY IdleType DEF Create, Handler
  <1>2. QED
    BY <1>1, DirtyStep DEF CacheInv

LEMMA ViewSharesKeepsCache ==
  ASSUME CacheInv, NEW r \in Requests, ViewShares(r), TypeOK'
  PROVE  CacheInv'
  <1> DEFINE k == req[r]
             shares == [x \in Expenses |-> IF k.amounts[x] = 0 THEN 0 ELSE expense[x].owed]
             h == [k EXCEPT !.at = "fill", !.owed = shares]
  <1>1. TypeOK /\ k \in Handler /\ k.at = "shares" /\ ReadsCurrent(k)
    BY DEF CacheInv, TypeOK, ViewShares
  <1>2. req' = [req EXCEPT ![r] = h]
    BY DEF ViewShares
  <1>3. h.amounts = k.amounts /\ h.owed = shares /\ h.raced = k.raced /\ h.at = "fill"
    BY <1>1 DEF Handler
  <1>4. k.amounts = Current("amount") => shares = Current("owed")
    <2>1. \A x \in Expenses : expense[x].amount # 0
      BY <1>1 DEF TypeOK, Row
    <2>2. QED
      BY <2>1 DEF Current
  <1>5. ReadsCurrent(h)
    BY <1>1, <1>3, <1>4 DEF ReadsCurrent
  <1>6. Balances' = Balances
    BY DEF ViewShares, Balances, Current
  <1>7. QED
    BY <1>1, <1>2, <1>5, <1>6, QuietStep DEF ViewShares

LEMMA ViewFillKeepsCache ==
  ASSUME CacheInv, NEW r \in Requests, ViewFill(r), TypeOK'
  PROVE  CacheInv'
  <1>1. TypeOK /\ req[r] \in Handler /\ ReadsCurrent(req[r])
    BY DEF CacheInv, TypeOK
  <1>2. Current("amount")' = Current("amount") /\ Current("owed")' = Current("owed")
    BY DEF ViewFill, Current
  <1>3. ~cache'.raced => Fresh(cache)'
    BY <1>1, <1>2 DEF ViewFill, Computed, ReadsCurrent, Fresh
  <1>4. ASSUME NEW q \in Requests PROVE ReadsCurrent(req[q])'
    <2>1. ReadsCurrent(req'[q])
      BY <1>1, IdleReadsNothing DEF ViewFill, TypeOK, CacheInv
    <2>2. QED
      BY <1>2, <2>1 DEF ReadsCurrent
  <1>5. QED
    BY <1>3, <1>4 DEF CacheInv, SnapshotHolds

\* Drop, Expire: no snapshot is left.
LEMMA EmptyCache ==
  ASSUME CacheInv, cache' = NoSnap, expense' = expense, TypeOK',
         \A q \in Requests : req'[q] = req[q] \/ req'[q] = Idle
  PROVE  CacheInv'
  <1>1. Current("amount")' = Current("amount") /\ Current("owed")' = Current("owed")
    BY DEF Current
  <1>2. ASSUME NEW q \in Requests PROVE ReadsCurrent(req[q])'
    <2>1. ReadsCurrent(req'[q])
      BY IdleReadsNothing DEF CacheInv
    <2>2. QED
      BY <1>1, <2>1 DEF ReadsCurrent
  <1>3. QED
    BY <1>2 DEF CacheInv, SnapshotHolds

LEMMA FailKeepsCache ==
  ASSUME CacheInv, NEW r \in Requests, Fail(r), TypeOK'
  PROVE  CacheInv'
  <1>1. Balances' = Balances
    BY DEF Fail, Balances, Current
  <1>2. CASE req[r].at # "drop"
    BY <1>1, <1>2, IdleReadsNothing, QuietStep DEF Fail, CacheInv, TypeOK
  <1>3. CASE req[r].at = "drop" /\ cache = NoSnap
    <2>1. \A q \in Requests : req'[q] = req[q] \/ req'[q] = Idle
      BY DEF Fail, CacheInv, TypeOK
    <2>2. QED
      BY <1>3, <2>1, EmptyCache DEF Fail
  <1>4. CASE req[r].at = "drop" /\ cache # NoSnap
    <2>1. Current("amount")' = Current("amount") /\ Current("owed")' = Current("owed")
      BY <1>1 DEF Balances
    <2>2. ASSUME NEW q \in Requests PROVE ReadsCurrent(req[q])'
      <3>1. ReadsCurrent(req'[q])
        BY IdleReadsNothing DEF Fail, CacheInv, TypeOK
      <3>2. QED
        BY <2>1, <3>1 DEF ReadsCurrent
    <2>3. QED
      BY <1>4, <2>2 DEF Fail, CacheInv, SnapshotHolds
  <1>5. QED
    BY <1>2, <1>3, <1>4

LEMMA CacheStep == CacheInv /\ [Next]_vars => CacheInv'
  <1> SUFFICES ASSUME CacheInv, [Next]_vars PROVE CacheInv'
    OBVIOUS
  <1>1. TypeOK /\ TypeOK'
    BY TypesStep DEF CacheInv
  <1>2. CASE UNCHANGED vars
    BY <1>2 DEF vars, CacheInv, TypeOK, ReadsCurrent, SnapshotHolds, Fresh, Current
  <1>3. CASE Expire
    BY <1>1, <1>3, EmptyCache DEF Expire
  <1>4. ASSUME NEW r \in Requests, Step(r) PROVE CacheInv'
    <2>1. ASSUME NEW op \in Writes, NEW x \in Expenses, NEW title \in Titles \cup {Keep},
                 NEW amount \in Amounts \cup {Keep}, NEW expects \in BOOLEAN,
                 Read(r, op, x, title, amount, expects)
          PROVE  CacheInv'
      <3> DEFINE h == [Idle EXCEPT !.at = "commit", !.op = op, !.x = x, !.expects = expects,
                         !.title = Or(title, expense[x].title),
                         !.amount = Or(amount, expense[x].amount), !.rev = expense[x].rev]
      <3>1. h.at = "commit"
        BY DEF Idle
      <3>2. ReadsCurrent(h)
        BY <3>1 DEF ReadsCurrent
      <3>3. Balances' = Balances
        BY <2>1 DEF Read, Balances, Current
      <3>4. req' = [req EXCEPT ![r] = h]
        BY <2>1 DEF Read
      <3>5. QED
        BY <1>1, <2>1, <3>2, <3>3, <3>4, QuietStep DEF Read
    <2>2. CASE Drop(r)
      <3>1. \A q \in Requests : req'[q] = req[q] \/ req'[q] = Idle
        BY <1>1, <2>2 DEF Drop, TypeOK
      <3>2. QED
        BY <1>1, <2>2, <3>1, EmptyCache DEF Drop
    <2>3. CASE ViewHit(r)
      BY <2>3 DEF ViewHit, vars, CacheInv, TypeOK, ReadsCurrent, SnapshotHolds, Fresh, Current
    <2>4. CASE ViewMiss(r)
      <3> DEFINE h == [Idle EXCEPT !.at = "rows", !.op = "view"]
      <3>1. ReadsCurrent(h)
        BY DEF ReadsCurrent, Idle
      <3>2. Balances' = Balances
        BY <2>4 DEF ViewMiss, Balances, Current
      <3>3. QED
        BY <1>1, <2>4, <3>1, <3>2, QuietStep DEF ViewMiss
    <2>5. CASE ViewRows(r)
      <3> DEFINE h == [req[r] EXCEPT !.at = "shares", !.amounts = Current("amount")]
      <3>1. req[r] \in Handler
        BY <1>1 DEF TypeOK
      <3>2. h.at = "shares" /\ h.amounts = Current("amount")
        BY <3>1 DEF Handler
      <3>3. ReadsCurrent(h)
        BY <3>2 DEF ReadsCurrent
      <3>4. Balances' = Balances
        BY <2>5 DEF ViewRows, Balances, Current
      <3>5. req' = [req EXCEPT ![r] = h]
        BY <2>5 DEF ViewRows
      <3>6. QED
        BY <1>1, <2>5, <3>3, <3>4, <3>5, QuietStep DEF ViewRows
    <2>6. QED
      BY <1>1, <1>4, <2>1, <2>2, <2>3, <2>4, <2>5, CommitKeepsCache, CreateKeepsCache,
         ViewSharesKeepsCache, ViewFillKeepsCache, FailKeepsCache DEF Step
  <1>5. QED
    BY <1>2, <1>3, <1>4 DEF Next

(* For any number of writers and views: a snapshot that was not read while  *)
(* a write went on is the balance of the tables, unless somebody has still  *)
(* to drop it or a failed handler did not.                                  *)
THEOREM UndisturbedSnapshotIsFresh == Spec => []CacheIsFresh
  <1>1. Init => CacheInv
    BY TypesInit, IdleReadsNothing DEF Init, CacheInv, SnapshotHolds
  <1>2. CacheInv => CacheIsFresh
    BY DEF CacheInv, SnapshotHolds, CacheIsFresh
  <1>3. QED
    BY <1>1, <1>2, CacheStep, PTL DEF Spec
=============================================================================
