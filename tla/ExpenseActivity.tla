-------------------------- MODULE ExpenseActivity --------------------------
(***************************************************************************)
(* What happens around one expense of a group beside its amounts:          *)
(* createExpenseReaction, uploadExpenseReceipt, reclassify (and the same   *)
(* tail of createExpense and deleteExpense), UserLearningService's counter *)
(* of category hits, and the reports of AnalyticsService in Redis, which   *)
(* GroupAnalyticsCacheService.invalidateGroup sweeps away key by key.      *)
(*                                                                         *)
(* Handlers interleave at every await and may fail there.  The unique      *)
(* index (userId, categoryId, subcategoryId) of the counters lets through  *)
(* rows without a subcategory: NULLs are distinct.  Membership checks only *)
(* refuse and are left out; the balance snapshot is ExpenseLedger's, and   *)
(* what patchExpense does to the reports is what deleteExpense does.       *)
(*                                                                         *)
(* One expense is created once: a second create makes another expense.     *)
(* Left out: the feed's events, and the log entries of all but reactions.  *)
(***************************************************************************)
EXTENDS Integers, SequencesExt

CONSTANTS
  Requests,
  Marks,        \* a reaction: a user and an emoji
  Receipts,     \* an upload each: the uuid of its file
  Categories,   \* what one user classifies an expense as: [category, sub]
  NoSub,        \* no subcategory
  Keys,         \* the cached reports of the group, in SCAN's order
  MaxHits       \* bound on the classifications

ASSUME ActivityAssumption ==
  /\ MaxHits \in Nat
  /\ Keys \in Seq(STRING) /\ IsInjective(Keys)
  /\ \A c \in Categories : DOMAIN c = {"category", "sub"}

VARIABLES
  expense,      \* [live, choice, receipt]
  marks,        \* reactions: [rows, logged], logged counting entries of activity_logs
  receipts,     \* [stored, attached]: files, and rows of expense_attachments
  counters,     \* user_category_learning: [choice, hits] in order of creation
  bumped,       \* history: the hits that were counted without an error
  report,       \* Redis: key -> [kept, of, excused]
  req

activityVars == <<expense, marks, receipts, counters, bumped, report, req>>

KeySet == ToSet(Keys)
NoChoice == [category |-> "none", sub |-> NoSub]
None == "none"
Lives == {"no", "yes", "deleted"}
Tables == [live : Lives, choice : Categories \cup {NoChoice}]

\* What a report is computed from.
Table == [live |-> expense.live, choice |-> expense.choice]

NoTable == [live |-> "no", choice |-> NoChoice]

Idle == [at |-> "idle", mark |-> None, receipt |-> None, write |-> None,
         choice |-> NoChoice, row |-> 0, hits |-> 0, swept |-> 0, key |-> None,
         table |-> NoTable, raced |-> FALSE]

NoReport == [kept |-> FALSE, of |-> NoTable, excused |-> FALSE]

Places == {"idle", "react", "note", "attach", "point",
           "commit", "find", "bump", "sweep", "fill"}

Request == [at : Places, mark : Marks \cup {None}, receipt : Receipts \cup {None},
            write : {None, "create", "reclassify", "delete"},
            choice : Categories \cup {NoChoice}, row : Nat, hits : Nat, swept : Nat,
            key : KeySet \cup {None}, table : Tables, raced : BOOLEAN]

ActivityTypeOK ==
  /\ expense \in [live : Lives, choice : Categories \cup {NoChoice},
                  receipt : Receipts \cup {None}]
  /\ marks \in [rows : SUBSET Marks, logged : [Marks -> Nat]]
  /\ receipts \in [stored : SUBSET Receipts, attached : SUBSET Receipts]
  /\ counters \in Seq([choice : Categories, hits : Nat])
  /\ bumped \in [Categories -> Nat]
  /\ report \in [KeySet -> [kept : BOOLEAN, of : Tables, excused : BOOLEAN]]
  /\ req \in [Requests -> Request]

ActivityInit ==
  /\ expense = [live |-> "no", choice |-> NoChoice, receipt |-> None]
  /\ marks = [rows |-> {}, logged |-> [m \in Marks |-> 0]]
  /\ receipts = [stored |-> {}, attached |-> {}]
  /\ counters = <<>>
  /\ bumped = [c \in Categories |-> 0]
  /\ report = [k \in KeySet |-> NoReport]
  /\ req = [r \in Requests |-> Idle]

Go(r, k) == req' = [req EXCEPT ![r] = k]

-----------------------------------------------------------------------------
(***************************************************************************)
(* createExpenseReaction: found, or created and then logged.  The unique   *)
(* index is (expenseId, userId, emoji).                                    *)
(***************************************************************************)
React(r, mark) ==
  /\ req[r].at = "idle"
  /\ expense.live = "yes"
  /\ mark \notin marks.rows
  /\ Go(r, [Idle EXCEPT !.at = "react", !.mark = mark])
  /\ UNCHANGED <<expense, marks, receipts, counters, bumped, report>>

Insertable_always(mark) == TRUE

Insertable(mark) == mark \notin marks.rows

CreateReaction(r) ==
  /\ req[r].at = "react"
  /\ Insertable(req[r].mark)
  /\ marks' = [marks EXCEPT !.rows = @ \cup {req[r].mark}]
  /\ Go(r, [req[r] EXCEPT !.at = "note"])
  /\ UNCHANGED <<expense, receipts, counters, bumped, report>>

LogReaction(r) ==
  /\ req[r].at = "note"
  /\ marks' = [marks EXCEPT !.logged[req[r].mark] = @ + 1]
  /\ Go(r, Idle)
  /\ UNCHANGED <<expense, receipts, counters, bumped, report>>

(***************************************************************************)
(* uploadExpenseReceipt: the file is stored, then its row is created, and  *)
(* then receiptUrl is set, whether or not the expense is still there.      *)
(***************************************************************************)
Upload(r, receipt) ==
  /\ req[r].at = "idle"
  /\ expense.live = "yes"
  /\ receipt \notin receipts.stored
  /\ receipts' = [receipts EXCEPT !.stored = @ \cup {receipt}]
  /\ Go(r, [Idle EXCEPT !.at = "attach", !.receipt = receipt])
  /\ UNCHANGED <<expense, marks, counters, bumped, report>>

Attach(r) ==
  /\ req[r].at = "attach"
  /\ receipts' = [receipts EXCEPT !.attached = @ \cup {req[r].receipt}]
  /\ Go(r, [req[r] EXCEPT !.at = "point"])
  /\ UNCHANGED <<expense, marks, counters, bumped, report>>

Point(r) ==
  /\ req[r].at = "point"
  /\ expense' = [expense EXCEPT !.receipt = req[r].receipt]
  /\ Go(r, Idle)
  /\ UNCHANGED <<marks, receipts, counters, bumped, report>>

-----------------------------------------------------------------------------
(***************************************************************************)
(* reclassify: the expense and the choice are checked, the expense is      *)
(* written, the hit counted, the reports of the group swept.  The same     *)
(* tail ends createExpense, whose choice is the classifier's guess; and    *)
(* deleteExpense, which counts nothing.                                    *)
(***************************************************************************)
Start(r, write, choice) ==
  /\ req[r].at = "idle"
  /\ expense.live = (IF write = "create" THEN "no" ELSE "yes")
  /\ (choice = NoChoice) = (write = "delete")
  /\ Go(r, [Idle EXCEPT !.at = "commit", !.write = write, !.choice = choice])
  /\ UNCHANGED <<expense, marks, receipts, counters, bumped, report>>

Written(k) ==
  CASE k.write = "create"     -> [expense EXCEPT !.live = "yes", !.choice = k.choice]
    [] k.write = "reclassify" -> [expense EXCEPT !.choice = k.choice]
    [] k.write = "delete"     -> [expense EXCEPT !.live = "deleted"]

\* History: a report being computed now is of the table before the write.
Commit(r) ==
  /\ req[r].at = "commit"
  /\ req[r].write = "create" => expense.live = "no"
  /\ expense' = Written(req[r])
  /\ req' = [q \in Requests |->
       IF q = r THEN [req[r] EXCEPT !.at = IF req[r].write = "delete" THEN "sweep" ELSE "find"]
       ELSE [req[q] EXCEPT !.raced = @ \/ req[q].at = "fill"]]
  /\ UNCHANGED <<marks, receipts, counters, bumped, report>>

(***************************************************************************)
(* bumpCategoryHit: the row found is incremented, or one is created.  The  *)
(* unique index (userId, categoryId, subcategoryId) does not stop a second *)
(* row without a subcategory: NULLs are distinct.                          *)
(***************************************************************************)
RowsOf(c) == {i \in DOMAIN counters : counters[i].choice = c}

Hits == SumFunctionOnSet(bumped, Categories)

Find(r) ==
  /\ req[r].at = "find"
  /\ Hits < MaxHits
  /\ \/ RowsOf(req[r].choice) = {} /\ Go(r, [req[r] EXCEPT !.at = "bump"])
     \/ \E i \in RowsOf(req[r].choice) : Go(r, [req[r] EXCEPT !.at = "bump", !.row = i,
                                                             !.hits = counters[i].hits])
  /\ UNCHANGED <<expense, marks, receipts, counters, bumped, report>>

\* An increment in the database; and one of the value that was read.
Incremented_read(k, now) == k.hits + 1

Incremented(k, now) == now + 1

Increment(r) ==
  /\ req[r].at = "bump"
  /\ req[r].row # 0
  /\ counters' = [counters EXCEPT ![req[r].row].hits = Incremented(req[r], @)]
  /\ bumped' = [bumped EXCEPT ![req[r].choice] = @ + 1]
  /\ Go(r, [req[r] EXCEPT !.at = "sweep"])
  /\ UNCHANGED <<expense, marks, receipts, report>>

CreateCounter(r) ==
  /\ req[r].at = "bump"
  /\ req[r].row = 0
  /\ req[r].choice.sub # NoSub => RowsOf(req[r].choice) = {}
  /\ counters' = Append(counters, [choice |-> req[r].choice, hits |-> 1])
  /\ bumped' = [bumped EXCEPT ![req[r].choice] = @ + 1]
  /\ Go(r, [req[r] EXCEPT !.at = "sweep"])
  /\ UNCHANGED <<expense, marks, receipts, report>>

(***************************************************************************)
(* invalidateGroup: SCAN returns the keys batch by batch, and each batch   *)
(* is deleted before the next; and a sweep that ends with the first one.   *)
(***************************************************************************)
Swept_firstBatch(k) == k.swept + 1 >= 1

Swept(k) == k.swept + 1 >= Len(Keys)

Sweep(r) ==
  /\ req[r].at = "sweep"
  /\ report' = [report EXCEPT ![Keys[req[r].swept + 1]] = NoReport]
  /\ Go(r, IF Swept(req[r]) THEN Idle ELSE [req[r] EXCEPT !.swept = @ + 1])
  /\ UNCHANGED <<expense, marks, receipts, counters, bumped>>

-----------------------------------------------------------------------------
(* A report that is not in Redis is computed with one query, and stored.   *)

Query(r, key) ==
  /\ req[r].at = "idle"
  /\ ~report[key].kept
  /\ Go(r, [Idle EXCEPT !.at = "fill", !.key = key, !.table = Table])
  /\ UNCHANGED <<expense, marks, receipts, counters, bumped, report>>

Fill(r) ==
  /\ req[r].at = "fill"
  /\ report' = [report EXCEPT ![req[r].key] =
                  [kept |-> TRUE, of |-> req[r].table, excused |-> req[r].raced]]
  /\ Go(r, Idle)
  /\ UNCHANGED <<expense, marks, receipts, counters, bumped>>

ExpireReport(key) ==
  /\ report[key].kept
  /\ report' = [report EXCEPT ![key] = NoReport]
  /\ UNCHANGED <<expense, marks, receipts, counters, bumped, req>>

\* A call fails, on a unique index for one, or the process ends.  History:
\* a writer that has yet to sweep leaves what the reports are.
Fail(r) ==
  /\ req[r].at # "idle"
  /\ Go(r, Idle)
  /\ report' = IF req[r].at \in {"find", "bump", "sweep"}
               THEN [key \in KeySet |-> [report[key] EXCEPT !.excused = report[key].kept]]
               ELSE report
  /\ UNCHANGED <<expense, marks, receipts, counters, bumped>>

-----------------------------------------------------------------------------
Step(r) ==
  \/ CreateReaction(r) \/ LogReaction(r) \/ Attach(r) \/ Point(r)
  \/ Commit(r) \/ Find(r) \/ Increment(r) \/ CreateCounter(r) \/ Sweep(r)
  \/ Fill(r) \/ Fail(r)
  \/ \E mark \in Marks : React(r, mark)
  \/ \E receipt \in Receipts : Upload(r, receipt)
  \/ \E write \in {"create", "reclassify", "delete"}, choice \in Categories \cup {NoChoice} :
       Start(r, write, choice)
  \/ \E key \in KeySet : Query(r, key)

ActivityNext ==
  \/ \E r \in Requests : Step(r)
  \/ \E key \in KeySet : ExpireReport(key)

ActivitySpec == ActivityInit /\ [][ActivityNext]_activityVars

-----------------------------------------------------------------------------
(***************************************************************************)
(* Properties.                                                             *)
(***************************************************************************)

(***************************************************************************)
(* The trail is sound whatever overlaps, fails or is retried: a reaction   *)
(* is logged at most once, and only one that is there; the receipt of an   *)
(* expense is one of its attachments, and each of these has its file.      *)
(***************************************************************************)
TrailIsSound ==
  /\ \A m \in Marks : marks.logged[m] <= 1 /\ (marks.logged[m] = 1 => m \in marks.rows)
  /\ expense.receipt # None => expense.receipt \in receipts.attached
  /\ receipts.attached \subseteq receipts.stored

(***************************************************************************)
(* Every hit that was counted without an error is in the counters, also    *)
(* when two first hits made two rows of one choice: the increments are the *)
(* database's own.                                                         *)
(***************************************************************************)
NoHitIsLost ==
  \A c \in Categories :
    bumped[c] = SumFunctionOnSet([i \in DOMAIN counters |-> counters[i].hits], RowsOf(c))

(***************************************************************************)
(* Every write of the expense sweeps all reports of its group: one in      *)
(* Redis is of the table as it is, but for those that writers now sweeping *)
(* have not come to, and for what a failed writer, or a report computed    *)
(* during a write, has left until its TTL.                                 *)
(***************************************************************************)
ToSweep(key) ==
  \E r \in Requests :
    \/ req[r].at \in {"find", "bump"}
    \/ req[r].at = "sweep" /\ \E i \in DOMAIN Keys : i > req[r].swept /\ Keys[i] = key

ReportsAreSwept ==
  \A key \in KeySet :
    report[key].kept /\ ~report[key].excused /\ ~ToSweep(key) => report[key].of = Table

(***************************************************************************)
(* The unique index of the counters suggests one row for each choice.      *)
(***************************************************************************)
OneCounterPerChoice == \A c \in Categories : Cardinality(RowsOf(c)) <= 1
=============================================================================
