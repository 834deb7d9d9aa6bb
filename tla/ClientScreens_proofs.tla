------------------------ MODULE ClientScreens_proofs ------------------------
(***************************************************************************)
(* The two screens of the client kit.                                      *)
(*                                                                         *)
(* Keyset pagination tiles the rows: for any rows, sort and page size, the *)
(* rows beyond the cursor of a page are exactly the rows the page left.    *)
(* The comment list never locks up, shows its comments in the order of its *)
(* scope and skips none, for any number of overlapping requests, any order *)
(* of answers and any failures.  The inbox of invitations is right up to   *)
(* what changed since its rows were read, and its indicators end.          *)
(***************************************************************************)
EXTENDS CommentThread, InvitesInbox, FiniteSetTheorems, WellFoundedInduction, TLAPS

(* Keyset pagination. *)

\* The order of the rows is a strict total order, in both directions.
LEMMA OrderIsTotal ==
  ASSUME NEW sort \in Sorts
  PROVE  /\ \A a \in Positions : ~Precedes(sort, a, a)
         /\ \A a, b, c \in Positions :
              Precedes(sort, a, b) /\ Precedes(sort, b, c) => Precedes(sort, a, c)
         /\ \A a, b \in Positions :
              a = b \/ Precedes(sort, a, b) \/ Precedes(sort, b, a)
<1>1. \A a, b \in Positions : a.at = b.at /\ a.id = b.id => a = b
  BY DEF Positions
<1>2. \A a \in Positions : a.at \in Nat /\ a.id \in Nat
  BY DEF Positions
<1>. QED  BY <1>1, <1>2 DEF Precedes, Older, Sorts

\* A finite set of rows has a first one and, with rows, a last one.
LEMMA FirstAndLast ==
  ASSUME NEW sort \in Sorts, NEW rows \in SUBSET Positions,
         IsFiniteSet(rows), rows # {}
  PROVE  /\ \E r \in rows : \A s \in rows : s = r \/ Precedes(sort, r, s)
         /\ \E r \in rows : \A s \in rows : s = r \/ Precedes(sort, s, r)
<1>. DEFINE Before(r) == {s \in rows : Precedes(sort, s, r)}
            Following(r) == {s \in rows : Precedes(sort, r, s)}
<1>1. IsWellFoundedOn(StrictSubsetOrdering(rows), FiniteSubsetsOf(rows))
  BY FS_StrictSubsetOrderingWellFounded
<1>2. \E r \in rows : \A s \in rows : s = r \/ Precedes(sort, r, s)
  <2>. DEFINE T == {Before(r) : r \in rows}
  <2>1. T \subseteq FiniteSubsetsOf(rows)
    BY FS_Subset DEF FiniteSubsetsOf
  <2>2. PICK x \in T : \A y \in T : ~(<<y, x>> \in StrictSubsetOrdering(rows))
    <3>1. T # {}
      OBVIOUS
    <3>. HIDE DEF T
    <3>. QED  BY <1>1, <2>1, <3>1, WFMin
  <2>3. PICK r \in rows : x = Before(r)
    OBVIOUS
  <2>4. ASSUME NEW s \in rows, Precedes(sort, s, r)
        PROVE  FALSE
    <3>1. Before(s) \subseteq Before(r)
      BY <2>4, OrderIsTotal
    <3>2. s \in Before(r) /\ s \notin Before(s)
      BY <2>4, OrderIsTotal
    <3>3. <<Before(s), x>> \in StrictSubsetOrdering(rows)
      BY <3>1, <3>2, <2>3 DEF StrictSubsetOrdering
    <3>. QED  BY <3>3, <2>2
  <2>. QED  BY <2>4, OrderIsTotal
<1>3. \E r \in rows : \A s \in rows : s = r \/ Precedes(sort, s, r)
  <2>. DEFINE T == {Following(r) : r \in rows}
  <2>1. T \subseteq FiniteSubsetsOf(rows)
    BY FS_Subset DEF FiniteSubsetsOf
  <2>2. PICK x \in T : \A y \in T : ~(<<y, x>> \in StrictSubsetOrdering(rows))
    <3>1. T # {}
      OBVIOUS
    <3>. HIDE DEF T
    <3>. QED  BY <1>1, <2>1, <3>1, WFMin
  <2>3. PICK r \in rows : x = Following(r)
    OBVIOUS
  <2>4. ASSUME NEW s \in rows, Precedes(sort, r, s)
        PROVE  FALSE
    <3>1. Following(s) \subseteq Following(r)
      BY <2>4, OrderIsTotal
    <3>2. s \in Following(r) /\ s \notin Following(s)
      BY <2>4, OrderIsTotal
    <3>3. <<Following(s), x>> \in StrictSubsetOrdering(rows)
      BY <3>1, <3>2, <2>3 DEF StrictSubsetOrdering
    <3>. QED  BY <3>3, <2>2
  <2>. QED  BY <2>4, OrderIsTotal
<1>. QED  BY <1>2, <1>3

\* Each row of a finite set has a rank of its own, and the ranks have no gap.
LEMMA RanksAreExact ==
  ASSUME NEW sort \in Sorts, NEW rows \in SUBSET Positions, IsFiniteSet(rows),
         NEW rank, rank = [r \in rows |-> Cardinality({s \in rows : Precedes(sort, s, r)})]
  PROVE  /\ Cardinality(rows) \in Nat
         /\ \A r \in rows : rank[r] \in 0..(Cardinality(rows) - 1)
         /\ \A r, s \in rows : Precedes(sort, r, s) => rank[r] < rank[s]
         /\ \A n \in 0..(Cardinality(rows) - 1) : \E r \in rows : rank[r] = n
<1>. DEFINE Before(r) == {s \in rows : Precedes(sort, s, r)}
            top == Cardinality(rows) - 1
<1>1. Cardinality(rows) \in Nat
  BY FS_CardinalityType
<1>2. \A r \in rows : IsFiniteSet(Before(r)) /\ Cardinality(Before(r)) \in Nat
  BY FS_Subset, FS_CardinalityType
<1>3. ASSUME NEW r \in rows, NEW s \in rows, Precedes(sort, r, s)
      PROVE  Cardinality(Before(r)) < Cardinality(Before(s))
  <2>1. Before(r) \in SUBSET Before(s) /\ r \in Before(s) /\ r \notin Before(r)
    BY <1>3, OrderIsTotal
  <2>2. Before(r) # Before(s)
    BY <2>1
  <2>. HIDE DEF Before
  <2>3. Cardinality(Before(r)) <= Cardinality(Before(s))
        /\ Cardinality(Before(r)) # Cardinality(Before(s))
    BY <1>2, <2>1, <2>2, FS_Subset
  <2>. QED  BY <1>2, <2>3
<1>4. ASSUME NEW r \in rows
      PROVE  Cardinality(Before(r)) \in 0..top
  <2>1. Before(r) \in SUBSET rows /\ Before(r) # rows
    BY OrderIsTotal
  <2>. HIDE DEF Before
  <2>2. Cardinality(Before(r)) <= Cardinality(rows) /\ Cardinality(Before(r)) # Cardinality(rows)
    BY <2>1, FS_Subset
  <2>. QED  BY <1>1, <1>2, <2>2
<1>5. rank \in [rows -> 0..top]
  BY <1>4
<1>6. \A r \in rows : rank[r] = Cardinality(Before(r))
  OBVIOUS
<1>. HIDE DEF Before, top
<1>7. \A r, s \in rows : Precedes(sort, r, s) => rank[r] < rank[s]
  BY <1>3, <1>6
<1>8. \A r, s \in rows : rank[r] = rank[s] => r = s
  <2>1. \A r \in rows : rank[r] \in Nat
    BY <1>2, <1>6
  <2>. QED  BY <1>7, <2>1, OrderIsTotal
<1>9. rank \in Injection(rows, 0..top)
  BY <1>5, <1>8 DEF Injection, IsInjective
<1>10. IsFiniteSet(0..top) /\ Cardinality(0..top) = Cardinality(rows)
  BY <1>1, FS_Interval DEF top
<1>11. rank \in Surjection(rows, 0..top)
  BY <1>9, <1>10, FS_Injection
<1>12. \A n \in 0..top : \E r \in rows : rank[r] = n
  BY <1>11 DEF Surjection
<1>. QED  BY <1>1, <1>5, <1>7, <1>12 DEF top

\* The listing of a page has its rows, each once and in order.
LEMMA RowsAreListed ==
  ASSUME NEW sort \in Sorts, NEW page \in SUBSET Positions, IsFiniteSet(page),
         NEW list, list = RowsInOrder(sort, page)
  PROVE  /\ Cardinality(page) \in Nat
         /\ \A i \in 1..Cardinality(page) : list[i] \in page
         /\ \A r \in page : \E i \in 1..Cardinality(page) : list[i] = r
         /\ \A i, j \in 1..Cardinality(page) : i < j => Precedes(sort, list[i], list[j])
<1>. DEFINE n == Cardinality(page)
<1>1. PICK rank : rank = [r \in page |-> Cardinality({s \in page : Precedes(sort, s, r)})]
  OBVIOUS
<1>2. /\ n \in Nat
      /\ \A r \in page : rank[r] \in 0..(n - 1)
      /\ \A r, s \in page : Precedes(sort, r, s) => rank[r] < rank[s]
      /\ \A k \in 0..(n - 1) : \E r \in page : rank[r] = k
  BY <1>1, RanksAreExact
<1>3. \A i \in 1..n : list[i] = CHOOSE r \in page : rank[r] = i - 1
  BY <1>1 DEF RowsInOrder
<1>. HIDE DEF n
<1>4. \A i \in 1..n : list[i] \in page /\ rank[list[i]] = i - 1
  <2>. SUFFICES ASSUME NEW i \in 1..n PROVE list[i] \in page /\ rank[list[i]] = i - 1
    OBVIOUS
  <2>1. \E r \in page : rank[r] = i - 1
    BY <1>2
  <2>. QED  BY <1>3, <2>1
<1>5. \A r, s \in page : rank[r] = rank[s] => r = s
  BY <1>2, OrderIsTotal
<1>6. \A r \in page : \E i \in 1..n : list[i] = r
  <2>. SUFFICES ASSUME NEW r \in page PROVE \E i \in 1..n : list[i] = r
    OBVIOUS
  <2>1. PICK i \in 1..n : i = rank[r] + 1
    BY <1>2
  <2>. QED  BY <1>2, <1>4, <1>5, <2>1
<1>7. ASSUME NEW i \in 1..n, NEW j \in 1..n, i < j
      PROVE  Precedes(sort, list[i], list[j])
  <2>1. rank[list[i]] < rank[list[j]]
    BY <1>4, <1>7
  <2>2. ~Precedes(sort, list[j], list[i]) /\ list[i] # list[j]
    BY <1>2, <1>4, <2>1
  <2>. QED  BY <1>4, <2>2, OrderIsTotal
<1>. QED  BY <1>2, <1>4, <1>6, <1>7 DEF n

\* A page is closed under the order: nothing that precedes a row of it is left.
LEMMA PageIsInitial ==
  ASSUME NEW sort \in Sorts, NEW rows \in SUBSET Positions, IsFiniteSet(rows),
         NEW limit \in Nat, NEW r \in Page(sort, rows, limit),
         NEW s \in rows, Precedes(sort, s, r)
  PROVE  s \in Page(sort, rows, limit)
<1>. DEFINE Before(q) == {p \in rows : Precedes(sort, p, q)}
<1>1. r \in rows /\ Cardinality(Before(r)) < limit
  BY DEF Page
<1>2. Before(s) \in SUBSET Before(r)
  BY <1>1, OrderIsTotal
<1>3. IsFiniteSet(Before(r)) /\ IsFiniteSet(Before(s))
  BY FS_Subset
<1>4. Cardinality(Before(s)) <= Cardinality(Before(r))
  BY <1>2, <1>3, FS_Subset
<1>5. Cardinality(Before(s)) \in Nat /\ Cardinality(Before(r)) \in Nat
  BY <1>3, FS_CardinalityType
<1>. HIDE DEF Before
<1>6. Cardinality(Before(s)) < limit
  BY <1>1, <1>4, <1>5
<1>. QED  BY <1>6 DEF Before, Page

\* A page of at least one row is not empty while there are rows.
LEMMA PageIsNotEmpty ==
  ASSUME NEW sort \in Sorts, NEW rows \in SUBSET Positions, IsFiniteSet(rows),
         rows # {}, NEW limit \in Nat \ {0}
  PROVE  Page(sort, rows, limit) # {}
<1>1. PICK r \in rows : \A s \in rows : s = r \/ Precedes(sort, r, s)
  BY FirstAndLast
<1>2. {s \in rows : Precedes(sort, s, r)} = {}
  BY <1>1, OrderIsTotal
<1>3. Cardinality({s \in rows : Precedes(sort, s, r)}) = 0
  BY <1>2, FS_EmptySet
<1>. QED  BY <1>3 DEF Page

(***************************************************************************)
(* What listComments answers with a cursor is what the previous page left: *)
(* no row is listed twice and none is skipped between two pages, for every *)
(* table, sort and page size, rows of the same createdAt included.         *)
(***************************************************************************)
THEOREM PagesTile ==
  ASSUME NEW sort \in Sorts, NEW rows \in SUBSET Positions, IsFiniteSet(rows),
         rows # {}, NEW limit \in Nat \ {0}
  PROVE  Beyond(sort, LastRow(sort, Page(sort, rows, limit)), rows)
           = rows \ Page(sort, rows, limit)
<1>. DEFINE page == Page(sort, rows, limit)
            last == LastRow(sort, page)
<1>1. page \in SUBSET rows /\ page # {} /\ IsFiniteSet(page)
  <2>1. page \in SUBSET rows
    BY DEF Page
  <2>2. page # {}
    BY PageIsNotEmpty
  <2>3. IsFiniteSet(page)
    <3>. HIDE DEF page
    <3>. QED  BY <2>1, FS_Subset
  <2>. QED  BY <2>1, <2>2, <2>3
<1>2. \E r \in page : \A s \in page : s = r \/ Precedes(sort, s, r)
  <2>. HIDE DEF page
  <2>. QED  BY <1>1, FirstAndLast
<1>3. last \in page /\ \A s \in page : s = last \/ Precedes(sort, s, last)
  BY <1>2 DEF LastRow
<1>4. ASSUME NEW r \in rows, Precedes(sort, last, r)
      PROVE  r \notin page
  BY <1>1, <1>3, <1>4, OrderIsTotal
<1>5. ASSUME NEW r \in rows, r \notin page
      PROVE  Precedes(sort, last, r)
  <2>1. ~Precedes(sort, r, last)
    BY <1>3, <1>5, PageIsInitial
  <2>. QED  BY <2>1, <1>1, <1>3, <1>5, OrderIsTotal
<1>. QED  BY <1>4, <1>5 DEF Beyond
-----------------------------------------------------------------------------
(* The comment list. *)

\* The fields of the hook's state and of its requests, whatever they hold.
ViewFields == view = [items |-> view.items, cursor |-> view.cursor,
                      loading |-> view.loading, refreshing |-> view.refreshing,
                      loadingMore |-> view.loadingMore]

Fields(c) == c = [kind |-> c.kind, scope |-> c.scope, cursor |-> c.cursor,
                  page |-> c.page, ok |-> c.ok, table |-> c.table, orphan |-> c.orphan]

CallFields == call = [k \in Calls |-> call[k]] /\ \A k \in Calls : Fields(call[k])

IInv == ViewFields /\ CallFields /\ NeverStuck

LEMMA StuckInit == Init => IInv
<1>. SUFFICES ASSUME Init PROVE IInv
  OBVIOUS
<1>1. 1 \in Calls
  BY PagingAssumption DEF Calls
<1>2. ViewFields
  BY DEF Init, ViewFields
<1>3. CallFields
  BY DEF Init, CallFields, Fields, Request, NoRequest
<1>4. NeverStuck
  BY <1>1 DEF Init, NeverStuck, UnderWay, Request
<1>. QED  BY <1>2, <1>3, <1>4 DEF IInv

\* The next state has its fields.
LEMMA FieldsKept == IInv /\ [Next]_vars => ViewFields' /\ CallFields'
<1>. SUFFICES ASSUME IInv, [Next]_vars PROVE ViewFields' /\ CallFields'
  OBVIOUS
<1>. USE DEF IInv, ViewFields, CallFields, Fields, client, server
<1>1. ASSUME NEW k \in Calls, Serve(k) PROVE ViewFields' /\ CallFields'
  BY <1>1 DEF Serve
<1>2. ASSUME NEW k \in Calls, Refresh(k) PROVE ViewFields' /\ CallFields'
  BY <1>2 DEF Refresh, StartFirst, Request
<1>3. ASSUME NEW k \in Calls, LoadMore(k) PROVE ViewFields' /\ CallFields'
  BY <1>3 DEF LoadMore, Request
<1>4. ASSUME NEW k \in Calls, NEW s \in Screens, ChangeScope(k, s)
      PROVE ViewFields' /\ CallFields'
  BY <1>4 DEF ChangeScope, StartFirst, Request
<1>5. ASSUME NEW k \in Calls, Replace(k) PROVE ViewFields' /\ CallFields'
  BY <1>5 DEF Replace, Finish, Settled, Replaced, Request, NoRequest
<1>6. ASSUME NEW k \in Calls, FailFirst(k) PROVE ViewFields' /\ CallFields'
  BY <1>6 DEF FailFirst, Finish, Settled, Replaced, Request, NoRequest
<1>7. ASSUME NEW k \in Calls, AppendPage(k) PROVE ViewFields' /\ CallFields'
  BY <1>7 DEF AppendPage, Finish, Settled, Request, NoRequest
<1>8. ASSUME NEW k \in Calls, FailMore(k) PROVE ViewFields' /\ CallFields'
  BY <1>8 DEF FailMore, Finish, Settled, Request, NoRequest
<1>9. CASE UNCHANGED <<view, call>>
  BY <1>9
<1>. QED
  BY <1>1, <1>2, <1>3, <1>4, <1>5, <1>6, <1>7, <1>8, <1>9
  DEF Next, Ends, Tick, Render, Commit, Abort, Post, vars

\* A new list and cursor leave the flags alone.
LEMMA NewList ==
  ASSUME NEW w, NEW i, NEW c, NEW v, v = [w EXCEPT !.items = i, !.cursor = c],
         w = [items |-> w.items, cursor |-> w.cursor, loading |-> w.loading,
              refreshing |-> w.refreshing, loadingMore |-> w.loadingMore]
  PROVE  /\ v.loading = w.loading /\ v.refreshing = w.refreshing
         /\ v.loadingMore = w.loadingMore
         /\ v = [items |-> v.items, cursor |-> v.cursor, loading |-> v.loading,
                 refreshing |-> v.refreshing, loadingMore |-> v.loadingMore]
<1>1. v = [items |-> i, cursor |-> c, loading |-> w.loading,
           refreshing |-> w.refreshing, loadingMore |-> w.loadingMore]
  OBVIOUS
<1>. QED  BY ONLY <1>1

LEMMA StuckNext == IInv /\ [Next]_vars => NeverStuck'
<1>. SUFFICES ASSUME IInv, [Next]_vars PROVE NeverStuck'
  OBVIOUS
<1>. USE DEF IInv, ViewFields, CallFields, NeverStuck, UnderWay
<1>1. ASSUME NEW k \in Calls, Serve(k) PROVE NeverStuck'
  <2>1. \A j \in Calls : call'[j].kind = call[j].kind
    BY <1>1 DEF Serve, Fields
  <2>2. UNCHANGED <<view, tailBusy>>
    BY <1>1 DEF Serve
  <2>. QED  BY <2>1, <2>2
<1>2. ASSUME NEW k \in Calls, NEW s, NEW v, StartFirst(k, s, v),
             v.loadingMore = view.loadingMore
      PROVE  NeverStuck'
  <2>1. call'[k].kind = "first"
    BY <1>2 DEF StartFirst, Request
  <2>2. \A j \in Calls : call[j].kind = "more" => call'[j].kind = "more"
    BY <1>2 DEF StartFirst, Free, Request, NoRequest
  <2>3. view' = v
    BY <1>2 DEF StartFirst
  <2>. QED  BY <1>2, <2>1, <2>2, <2>3
<1>3. ASSUME NEW k \in Calls, LoadMore(k) PROVE NeverStuck'
  <2>1. call'[k].kind = "more"
    BY <1>3 DEF LoadMore, Request
  <2>2. \A j \in Calls : call[j].kind = "first" => call'[j].kind = "first"
    BY <1>3 DEF LoadMore, Free, Request, NoRequest
  <2>3. view'.loading = view.loading /\ view'.refreshing = view.refreshing
    BY <1>3 DEF LoadMore
  <2>. QED  BY <2>1, <2>2, <2>3
<1>4. ASSUME NEW k \in Calls, NEW v, NEW ok, Finish(k, v, ok), Replaced(k),
             call[k].kind = "first", v.loadingMore = view.loadingMore,
             v = [items |-> v.items, cursor |-> v.cursor, loading |-> v.loading,
                  refreshing |-> v.refreshing, loadingMore |-> v.loadingMore]
      PROVE  NeverStuck'
  <2>1. \A j \in Calls : call[j].kind = "more" => call'[j].kind = "more"
    BY <1>4 DEF Replaced, Fields, Request, NoRequest
  <2>2. /\ ~view'.loading /\ ~view'.refreshing
        /\ view'.loadingMore = view.loadingMore /\ ~tailBusy'
    BY <1>4 DEF Finish, Settled, StillBusy
  <2>. QED  BY <2>1, <2>2
<1>5. ASSUME NEW k \in Calls, NEW v, NEW ok, Finish(k, v, ok),
             call' = [call EXCEPT ![k] = NoRequest], call[k].kind = "more",
             v.loading = view.loading, v.refreshing = view.refreshing,
             v = [items |-> v.items, cursor |-> v.cursor, loading |-> v.loading,
                  refreshing |-> v.refreshing, loadingMore |-> v.loadingMore]
      PROVE  NeverStuck'
  <2>1. \A j \in Calls : call[j].kind = "first" => call'[j].kind = "first"
    BY <1>5
  <2>2. /\ ~view'.loadingMore /\ ~tailBusy'
        /\ view'.loading = view.loading /\ view'.refreshing = view.refreshing
    BY <1>5 DEF Finish, Settled, StillBusy
  <2>. QED  BY <2>1, <2>2
<1>6. ASSUME NEW k \in Calls, Ends(k) PROVE NeverStuck'
  <2>1. CASE Replace(k)
    <3>. DEFINE i == call[k].page.items
                c == call[k].page.cursor
                v == [view EXCEPT !.items = i, !.cursor = c]
    <3>1. Finish(k, v, TRUE) /\ Replaced(k) /\ call[k].kind = "first"
      BY <2>1 DEF Replace
    <3>2. v = [view EXCEPT !.items = i, !.cursor = c]
      OBVIOUS
    <3>. HIDE DEF i, c, v
    <3>3. /\ v.loadingMore = view.loadingMore
          /\ v = [items |-> v.items, cursor |-> v.cursor, loading |-> v.loading,
                  refreshing |-> v.refreshing, loadingMore |-> v.loadingMore]
      BY ONLY <3>2, ViewFields, NewList DEF ViewFields
    <3>. QED  BY <3>1, <3>3, <1>4
  <2>2. CASE FailFirst(k)
    <3>. DEFINE i == <<>>
                c == NoCursor
                v == [view EXCEPT !.items = i, !.cursor = c]
    <3>1. Finish(k, v, FALSE) /\ Replaced(k) /\ call[k].kind = "first"
      BY <2>2 DEF FailFirst
    <3>2. v = [view EXCEPT !.items = i, !.cursor = c]
      OBVIOUS
    <3>. HIDE DEF i, c, v
    <3>3. /\ v.loadingMore = view.loadingMore
          /\ v = [items |-> v.items, cursor |-> v.cursor, loading |-> v.loading,
                  refreshing |-> v.refreshing, loadingMore |-> v.loadingMore]
      BY ONLY <3>2, ViewFields, NewList DEF ViewFields
    <3>. QED  BY <3>1, <3>3, <1>4
  <2>3. CASE AppendPage(k)
    <3>. DEFINE i == view.items \o call[k].page.items
                c == call[k].page.cursor
                v == [view EXCEPT !.items = i, !.cursor = c]
    <3>1. /\ Finish(k, v, TRUE) /\ call[k].kind = "more"
          /\ call' = [call EXCEPT ![k] = NoRequest]
      BY <2>3 DEF AppendPage
    <3>2. v = [view EXCEPT !.items = i, !.cursor = c]
      OBVIOUS
    <3>. HIDE DEF i, c, v
    <3>3. /\ v.loading = view.loading /\ v.refreshing = view.refreshing
          /\ v = [items |-> v.items, cursor |-> v.cursor, loading |-> v.loading,
                  refreshing |-> v.refreshing, loadingMore |-> v.loadingMore]
      BY ONLY <3>2, ViewFields, NewList DEF ViewFields
    <3>. QED  BY <3>1, <3>3, <1>5
  <2>4. CASE FailMore(k)
    BY <2>4, <1>5 DEF FailMore
  <2>. QED  BY <1>6, <2>1, <2>2, <2>3, <2>4 DEF Ends
<1>7. ASSUME NEW k \in Calls, Refresh(k) PROVE NeverStuck'
  BY <1>7, <1>2 DEF Refresh
<1>8. ASSUME NEW k \in Calls, NEW s \in Screens, ChangeScope(k, s) PROVE NeverStuck'
  BY <1>8, <1>2 DEF ChangeScope
<1>9. CASE UNCHANGED <<view, call, tailBusy>>
  BY <1>9
<1>. QED
  BY <1>1, <1>3, <1>6, <1>7, <1>8, <1>9
  DEF Next, Tick, Render, Commit, Abort, Post, vars, client

(***************************************************************************)
(* For any number of overlapping requests, any answers and any failures,   *)
(* the tail guard and the indicators of the comment list are on only while *)
(* a request is under way that switches them off.                          *)
(***************************************************************************)
THEOREM ListNeverStuck == Spec => []NeverStuck
<1>1. IInv /\ [Next]_vars => IInv'
  BY FieldsKept, StuckNext DEF IInv
<1>2. IInv => NeverStuck
  BY DEF IInv
<1>. QED  BY StuckInit, <1>1, <1>2, PTL DEF Spec

-----------------------------------------------------------------------------
(***************************************************************************)
(* The list of comments is in order and skips nothing.                     *)
(***************************************************************************)

\* Where a cursor stands in the order, and what is on either side of it.
Mark(cursor) == [at |-> cursor.at, id |-> cursor.id]
Passed(s, cursor, p) == cursor = NoCursor \/ ~Precedes(s.sort, Mark(cursor), p)
Follows(s, cursor, p) == cursor = NoCursor \/ Precedes(s.sort, Mark(cursor), p)

\* Comments of a scope in its order, none of them behind the cursor.
IsList(s, items, cursor) ==
  /\ \A i \in DOMAIN items : items[i] \in InScope(s) /\ Passed(s, cursor, Position(items[i]))
  /\ \A i, j \in DOMAIN items :
       i < j => Precedes(s.sort, Position(items[i]), Position(items[j]))

\* No comment of a table that is between the two cursors is missing.
Covers(table, s, from, items, cursor) ==
  \A c \in table :
    thread[c].parent = s.parent /\ Follows(s, from, Position(c)) /\ Passed(s, cursor, Position(c))
    => c \in ToSet(items)

\* What the server answered is so as long as the comments that were stored stay.
IsPage(k) ==
  LET s == k.scope
      page == k.page
  IN  /\ k.table \subseteq InTable
      /\ IsList(s, page.items, page.cursor)
      /\ \A i \in DOMAIN page.items : Follows(s, k.cursor, Position(page.items[i]))
      /\ page.cursor # NoCursor => Follows(s, k.cursor, Mark(page.cursor))
      /\ Covers(k.table, s, k.cursor, page.items, page.cursor)

\* A first page has no cursor and is always answered; of a next page that
\* belongs to the list there is one, and it goes on where the list ends.
CallFits(k) ==
  /\ k.kind # "none" => k.scope \in Screens
  /\ k.kind = "first" => k.cursor = NoCursor /\ (k.page # NoPage => k.ok)
  /\ k.page # NoPage /\ k.ok => IsPage(k)
  /\ k.kind = "more" => view.loadingMore
  /\ k.kind = "more" /\ ~k.orphan =>
       /\ k.page # NoPage => base \subseteq k.table
       /\ ~torn => k.scope = scope /\ k.cursor = view.cursor /\ view.cursor # NoCursor

OneMore ==
  \A j, k \in Calls : call[j].kind = "more" /\ call[k].kind = "more" => j = k

ListInv ==
  /\ TypeOK
  /\ seen.cursor = view.cursor /\ (~tailBusy => seen = Seen(view))
  /\ base \subseteq InTable
  /\ OneMore
  /\ \A k \in Calls : CallFits(call[k])
  /\ ~torn => /\ IsList(scope, view.items, view.cursor)
              /\ Covers(base, scope, NoCursor, view.items, view.cursor)

\* What a screen and a cursor are made of.
LEMMA ScopesAndCursors ==
  /\ \A s \in Screens : s.sort \in Sorts /\ s.parent \in Parents
  /\ \A c \in Cursors : Mark(c) \in Positions
  /\ \A c \in Comments, at \in Nat : [at |-> at, id |-> c] \in Positions
  BY PagingAssumption, ScreensAssumption DEF Cursors, Mark, Positions, Parents

\* The positions of comments are rows, finitely many.
LEMMA RowsAre ==
  ASSUME TypeOK, NEW s \in Screens, NEW cursor \in Cursors \cup {NoCursor},
         NEW rows, rows = Rows(s, cursor)
  PROVE  /\ rows \in SUBSET Positions /\ IsFiniteSet(rows)
         /\ \A r \in rows : /\ r.id \in InScope(s) /\ r = Position(r.id)
                            /\ Follows(s, cursor, r)
         /\ \A c \in InScope(s) : Follows(s, cursor, Position(c)) => Position(c) \in rows
<1>1. PICK C : C = InScope(s)
  OBVIOUS
<1>2. C \in SUBSET Comments /\ IsFiniteSet(C)
  BY <1>1, PagingAssumption, FS_Subset DEF InScope, InTable
<1>3. \A c \in C : Position(c) \in Positions /\ Position(c).id = c
  BY <1>2, ScopesAndCursors DEF TypeOK, Position
<1>4. PICK all : all = {Position(c) : c \in C}
  OBVIOUS
<1>5. IsFiniteSet(all)
  <2>1. PICK f : f = [c \in C |-> Position(c)]
    OBVIOUS
  <2>2. f \in Surjection(C, all)
    BY <1>4, <2>1 DEF Surjection
  <2>. QED  BY ONLY <1>2, <2>2, FS_Surjection
<1>6. rows \in SUBSET all
  BY <1>1, <1>4 DEF Rows, Beyond
<1>7. \A r \in all : r \in rows <=> Follows(s, cursor, r)
  BY <1>1, <1>4 DEF Rows, Beyond, Follows, Mark
<1>8. rows \in SUBSET Positions /\ IsFiniteSet(rows)
  BY <1>3, <1>4, <1>5, <1>6, FS_Subset
<1>9. \A r \in all : r.id \in C /\ r = Position(r.id)
  BY <1>3, <1>4
<1>. QED  BY <1>1, <1>4, <1>6, <1>7, <1>8, <1>9

\* The cursor of a page is its last row, and leaves what the page leaves.
LEMMA NextCursorIs ==
  ASSUME NEW s \in Screens, NEW rows \in SUBSET Positions, IsFiniteSet(rows),
         \A r \in rows : r.id \in Comments,
         NEW page, page = Page(s.sort, rows, Limit),
         NEW cursor, cursor = NextCursor(s, rows, page)
  PROVE  /\ page \in SUBSET rows /\ IsFiniteSet(page)
         /\ cursor \in Cursors \cup {NoCursor}
         /\ cursor = NoCursor => page = rows
         /\ cursor # NoCursor =>
              /\ Mark(cursor) \in page
              /\ \A r \in rows : r \in page <=> ~Precedes(s.sort, Mark(cursor), r)
<1>1. s.sort \in Sorts /\ s.parent \in Parents /\ Limit \in Nat \ {0}
  BY ScopesAndCursors, PagingAssumption
<1>2. page \in SUBSET rows /\ IsFiniteSet(page)
  <2>1. page \in SUBSET rows
    BY DEF Page
  <2>. QED  BY <2>1, FS_Subset
<1>3. CASE rows = page
  BY <1>2, <1>3 DEF NextCursor
<1>4. CASE rows # page
  <2>1. PICK last : last = LastRow(s.sort, page)
    OBVIOUS
  <2>2. rows # {} /\ page # {}
    BY <1>1, <1>2, <1>4, PageIsNotEmpty
  <2>3. page \in SUBSET Positions
    BY <1>2
  <2>4. last \in page
    BY <1>1, <1>2, <2>1, <2>2, <2>3, FirstAndLast DEF LastRow
  <2>5. last \in Positions /\ last.id \in Comments
    BY <1>2, <2>4
  <2>6. cursor = [at |-> last.at, id |-> last.id, parent |-> s.parent, sort |-> s.sort]
    BY <1>4, <2>1 DEF NextCursor
  <2>7. cursor \in Cursors
    BY <1>1, <2>5, <2>6 DEF Cursors, Positions
  <2>8. cursor # NoCursor
    BY <2>7, ThreadNullAssumption
  <2>9. Mark(cursor) = last
    BY <2>5, <2>6 DEF Mark, Positions
  <2>10. Beyond(s.sort, last, rows) = rows \ page
    BY <1>1, <2>1, <2>2, PagesTile
  <2>11. \A r \in rows : r \in page <=> ~Precedes(s.sort, last, r)
    BY <2>10 DEF Beyond
  <2>. QED  BY <1>2, <2>4, <2>7, <2>8, <2>9, <2>11
<1>. QED  BY <1>3, <1>4

\* What listComments answers: the rows between the two cursors, in order.
LEMMA ListedIs ==
  ASSUME TypeOK, NEW s \in Screens, NEW from \in Cursors \cup {NoCursor},
         NEW items, items = Listed(s, from).items,
         NEW cursor, cursor = Listed(s, from).cursor
  PROVE  /\ items \in Seq(Comments) /\ cursor \in Cursors \cup {NoCursor}
         /\ Listed(s, from) = [items |-> items, cursor |-> cursor]
         /\ IsList(s, items, cursor)
         /\ \A i \in DOMAIN items : Follows(s, from, Position(items[i]))
         /\ cursor # NoCursor => Follows(s, from, Mark(cursor))
         /\ Covers(InTable, s, from, items, cursor)
<1>1. PICK rows, page, list, n :
        /\ rows = Rows(s, from) /\ page = Page(s.sort, rows, Limit)
        /\ list = RowsInOrder(s.sort, page) /\ n = Cardinality(page)
  OBVIOUS
<1>2. /\ items = [i \in 1..n |-> list[i].id] /\ cursor = NextCursor(s, rows, page)
      /\ Listed(s, from) = [items |-> items, cursor |-> cursor]
  <2>1. Listed(s, from) =
          [items |-> [i \in 1..Cardinality(Page(s.sort, Rows(s, from), Limit)) |->
                       RowsInOrder(s.sort, Page(s.sort, Rows(s, from), Limit))[i].id],
           cursor |-> NextCursor(s, Rows(s, from), Page(s.sort, Rows(s, from), Limit))]
    BY DEF Listed
  <2>2. Listed(s, from) = [items |-> [i \in 1..n |-> list[i].id],
                           cursor |-> NextCursor(s, rows, page)]
    BY <1>1, <2>1, Zenon
  <2>. QED  BY ONLY <2>2, items = Listed(s, from).items, cursor = Listed(s, from).cursor
<1>3. /\ rows \in SUBSET Positions /\ IsFiniteSet(rows)
      /\ \A r \in rows : /\ r.id \in InScope(s) /\ r = Position(r.id)
                         /\ Follows(s, from, r)
      /\ \A c \in InScope(s) : Follows(s, from, Position(c)) => Position(c) \in rows
  BY <1>1, RowsAre
<1>4. InScope(s) \subseteq Comments /\ \A c \in InScope(s) : Position(c).id = c
  BY DEF InScope, InTable, Position
<1>5. /\ page \in SUBSET rows /\ IsFiniteSet(page)
      /\ cursor \in Cursors \cup {NoCursor}
      /\ cursor = NoCursor => page = rows
      /\ cursor # NoCursor =>
           /\ Mark(cursor) \in page
           /\ \A r \in rows : r \in page <=> ~Precedes(s.sort, Mark(cursor), r)
  <2>1. \A r \in rows : r.id \in Comments
    BY <1>3, <1>4
  <2>. QED  BY <1>1, <1>2, <1>3, <2>1, NextCursorIs
<1>6. s.sort \in Sorts /\ page \in SUBSET Positions
  BY <1>3, <1>5, ScopesAndCursors
<1>7. /\ n \in Nat
      /\ \A i \in 1..n : list[i] \in page
      /\ \A r \in page : \E i \in 1..n : list[i] = r
      /\ \A i, j \in 1..n : i < j => Precedes(s.sort, list[i], list[j])
  BY <1>1, <1>5, <1>6, RowsAreListed
<1>8. DOMAIN items = 1..n
  BY <1>2
<1>9. \A i \in 1..n : items[i] \in InScope(s) /\ Position(items[i]) = list[i]
  BY <1>2, <1>3, <1>5, <1>7
<1>10. items \in Seq(Comments)
  BY <1>2, <1>4, <1>7, <1>9
<1>11. \A r \in rows : r \in page <=> Passed(s, cursor, r)
  BY <1>5 DEF Passed
<1>12. IsList(s, items, cursor)
  BY <1>5, <1>7, <1>8, <1>9, <1>11 DEF IsList
<1>13. \A i \in DOMAIN items : Follows(s, from, Position(items[i]))
  BY <1>3, <1>5, <1>7, <1>8, <1>9
<1>14. cursor # NoCursor => Follows(s, from, Mark(cursor))
  BY <1>3, <1>5
<1>15. Covers(InTable, s, from, items, cursor)
  <2>. SUFFICES ASSUME NEW c \in InTable, thread[c].parent = s.parent,
                       Follows(s, from, Position(c)), Passed(s, cursor, Position(c))
                PROVE  c \in ToSet(items)
    BY DEF Covers
  <2>1. c \in InScope(s)
    BY DEF InScope
  <2>2. Position(c) \in page
    BY <1>3, <1>11, <2>1
  <2>3. PICK i \in 1..n : list[i] = Position(c)
    BY <1>7, <2>2
  <2>4. items[i] = c
    BY <1>2, <1>4, <2>1, <2>3
  <2>. QED  BY <1>8, <2>4 DEF ToSet
<1>. QED  BY <1>2, <1>5, <1>10, <1>12, <1>13, <1>14, <1>15

\* What the types of a request, of the state and of the rendered state are.
CallType ==
  [kind : {"none", "first", "more"}, scope : Screens \cup {NoScope},
   cursor : Cursors \cup {NoCursor}, page : Pages \cup {NoPage},
   ok : BOOLEAN, table : SUBSET Comments, orphan : BOOLEAN]
ViewType ==
  [items : Seq(Comments), cursor : Cursors \cup {NoCursor},
   loading : BOOLEAN, refreshing : BOOLEAN, loadingMore : BOOLEAN]
SeenType ==
  [cursor : Cursors \cup {NoCursor}, loading : BOOLEAN,
   refreshing : BOOLEAN, loadingMore : BOOLEAN]

\* The type invariant says so.
LEMMA ClientTypes ==
  ASSUME TypeOK
  PROVE  /\ call \in [Calls -> CallType] /\ view \in ViewType /\ seen \in SeenType
         /\ scope \in Screens /\ tailBusy \in BOOLEAN /\ torn \in BOOLEAN
         /\ base \subseteq Comments
  BY DEF TypeOK, CallType, ViewType, SeenType

\* One request changes, and the others do not.
LEMMA NewCalls ==
  /\ NoRequest \in CallType /\ NoRequest.kind = "none" /\ NoRequest.page = NoPage
  /\ \A s \in Screens, c \in Cursors \cup {NoCursor}, kind \in {"first", "more"} :
       LET k == Request(kind, s, c)
       IN  /\ k \in CallType /\ k.kind = kind /\ k.scope = s /\ k.cursor = c
           /\ k.page = NoPage /\ k.ok = FALSE /\ k.table = {} /\ k.orphan = FALSE
<1>1. FALSE \in BOOLEAN /\ {} \in SUBSET Comments
  OBVIOUS
<1>. QED  BY <1>1 DEF NoRequest, Request, CallType

\* What the client's requests and state become.
LEMMA ServedCall ==
  ASSUME TypeOK, NEW k \in Calls, Serve(k), call[k].kind # "none" => call[k].scope \in Screens
  PROVE  /\ call' \in [Calls -> CallType]
         /\ \A j \in Calls \ {k} : call'[j] = call[j]
         /\ call[k].page = NoPage
         /\ call'[k].kind = call[k].kind /\ call'[k].scope = call[k].scope
         /\ call'[k].cursor = call[k].cursor /\ call'[k].orphan = call[k].orphan
         /\ call'[k].table = InTable
         /\ call'[k].ok = Decodes(call[k].scope, call[k].cursor)
         /\ call'[k].ok => call'[k].page = Listed(call[k].scope, call[k].cursor)
<1>1. PICK c : c = call[k]
  OBVIOUS
<1>2. call \in [Calls -> CallType] /\ c \in CallType
  BY <1>1, ClientTypes
<1>3. c.scope \in Screens /\ c.cursor \in Cursors \cup {NoCursor}
  BY <1>1, <1>2 DEF Serve, CallType
<1>4. Listed(c.scope, c.cursor) \in Pages
  BY <1>3, ListedIs DEF Pages
<1>5. Refusal \in Pages
  BY DEF Refusal, Pages
<1>6. PICK ok : ok = Decodes(c.scope, c.cursor)
  OBVIOUS
<1>7. ok \in BOOLEAN
  <2>1. Decodes(c.scope, c.cursor) \in BOOLEAN
    BY DEF Decodes
  <2>. QED  BY <1>6, <2>1
<1>8. PICK page : page = IF ok THEN Listed(c.scope, c.cursor) ELSE Refusal
  OBVIOUS
<1>9. page \in Pages
  BY <1>4, <1>5, <1>8
<1>10. PICK d : d = [c EXCEPT !.page = page, !.ok = ok, !.table = InTable]
  OBVIOUS
<1>11. /\ d \in CallType /\ d.page = page /\ d.ok = ok /\ d.table = InTable
       /\ d.kind = c.kind /\ d.scope = c.scope /\ d.cursor = c.cursor /\ d.orphan = c.orphan
  <2>1. InTable \in SUBSET Comments
    BY DEF InTable
  <2>. QED  BY ONLY <1>2, <1>7, <1>9, <1>10, <2>1 DEF CallType
<1>12. call' = [call EXCEPT ![k] = d]
  BY <1>1, <1>6, <1>8, <1>10 DEF Serve
<1>13. call[k].page = NoPage
  BY DEF Serve
<1>. QED  BY <1>1, <1>2, <1>6, <1>8, <1>11, <1>12, <1>13

\* What the start of a first page makes of the state.
LEMMA StartedFirst ==
  ASSUME TypeOK, NEW k \in Calls, NEW s \in Screens, NEW v, StartFirst(k, s, v),
         \/ v = [view EXCEPT !.loading = TRUE]
         \/ v = [view EXCEPT !.refreshing = TRUE]
  PROVE  /\ call' \in [Calls -> CallType]
         /\ \A j \in Calls \ {k} : call'[j] = call[j]
         /\ call'[k] = Request("first", s, NoCursor)
         /\ view' \in ViewType /\ view'.items = view.items /\ view'.cursor = view.cursor
         /\ view'.loadingMore = view.loadingMore /\ tailBusy' = TRUE
         /\ UNCHANGED <<thread, clock, base>>
<1>1. call \in [Calls -> CallType] /\ view \in ViewType
  BY ClientTypes
<1>2. Request("first", s, NoCursor) \in CallType
  BY NewCalls
<1>3. /\ v \in ViewType /\ v.items = view.items /\ v.cursor = view.cursor
      /\ v.loadingMore = view.loadingMore
  BY <1>1 DEF ViewType
<1>4. /\ call' = [call EXCEPT ![k] = Request("first", s, NoCursor)]
      /\ view' = v /\ tailBusy' = TRUE /\ UNCHANGED <<thread, clock, base>>
  BY DEF StartFirst, server
<1>. QED  BY <1>1, <1>2, <1>3, <1>4

\* What the start of a next page makes of it.
LEMMA StartedMore ==
  ASSUME TypeOK, NEW k \in Calls, LoadMore(k)
  PROVE  /\ call' \in [Calls -> CallType]
         /\ \A j \in Calls \ {k} : call'[j] = call[j]
         /\ call'[k] = Request("more", scope, seen.cursor)
         /\ view' \in ViewType /\ view'.items = view.items /\ view'.cursor = view.cursor
         /\ view'.loadingMore = TRUE /\ tailBusy' = TRUE
         /\ UNCHANGED <<thread, clock, base, scope, seen, torn>>
<1>1. call \in [Calls -> CallType] /\ view \in ViewType /\ seen \in SeenType /\ scope \in Screens
  BY ClientTypes
<1>2. seen.cursor \in Cursors \cup {NoCursor}
  BY <1>1 DEF SeenType
<1>3. Request("more", scope, seen.cursor) \in CallType
  BY <1>1, <1>2, NewCalls
<1>4. /\ call' = [call EXCEPT ![k] = Request("more", scope, seen.cursor)]
      /\ view' = [view EXCEPT !.loadingMore = TRUE]
      /\ tailBusy' = TRUE /\ UNCHANGED <<thread, clock, base, scope, seen, torn>>
  BY DEF LoadMore, server
<1>5. /\ view' \in ViewType /\ view'.items = view.items /\ view'.cursor = view.cursor
      /\ view'.loadingMore = TRUE
  BY <1>1, <1>4 DEF ViewType
<1>. QED  BY <1>1, <1>3, <1>4, <1>5

\* The end of a first page: new list, and the next pages are no longer its.
LEMMA EndedFirst ==
  ASSUME TypeOK, NEW k \in Calls, call[k].kind = "first", NEW ok,
         NEW items \in Seq(Comments), NEW cursor \in Cursors \cup {NoCursor},
         Finish(k, [view EXCEPT !.items = items, !.cursor = cursor], ok), Replaced(k)
  PROVE  /\ call' \in [Calls -> CallType]
         /\ call'[k] = NoRequest
         /\ \A j \in Calls : call[j] = NoRequest => call'[j] = NoRequest
         /\ \A j \in Calls \ {k} :
              /\ call'[j].kind = call[j].kind /\ call'[j].scope = call[j].scope
              /\ call'[j].cursor = call[j].cursor /\ call'[j].page = call[j].page
              /\ call'[j].ok = call[j].ok /\ call'[j].table = call[j].table
              /\ call[j].kind = "more" => call'[j].orphan
         /\ view' \in ViewType /\ view'.items = items /\ view'.cursor = cursor
         /\ view'.loadingMore = view.loadingMore
         /\ seen' = Seen(view') /\ tailBusy' = FALSE
         /\ UNCHANGED <<thread, clock, scope>>
<1>1. call \in [Calls -> CallType] /\ view \in ViewType
  BY ClientTypes
<1>2. PICK v : v = [view EXCEPT !.items = items, !.cursor = cursor]
  OBVIOUS
<1>3. v \in ViewType /\ v.items = items /\ v.cursor = cursor /\ v.loadingMore = view.loadingMore
  BY ONLY <1>1, <1>2, items \in Seq(Comments), cursor \in Cursors \cup {NoCursor} DEF ViewType
<1>4. /\ view' = [v EXCEPT !.loading = FALSE, !.refreshing = FALSE]
      /\ seen' = Seen(view') /\ tailBusy' = FALSE /\ UNCHANGED <<thread, clock, scope>>
  BY <1>2 DEF Finish, Settled, StillBusy, server
<1>5. /\ view' \in ViewType /\ view'.items = items /\ view'.cursor = cursor
      /\ view'.loadingMore = view.loadingMore
  BY ONLY <1>3, <1>4 DEF ViewType
<1>6. call' = [j \in Calls |->
                 IF j = k \/ call[j] = NoRequest THEN NoRequest
                 ELSE [call[j] EXCEPT !.orphan = (call[j].kind = "more")]]
  BY DEF Replaced
<1>7. NoRequest \in CallType /\ NoRequest.kind = "none"
  BY NewCalls
<1>8. call'[k] = NoRequest /\ \A j \in Calls : call[j] = NoRequest => call'[j] = NoRequest
  BY <1>6
<1>9. ASSUME NEW j \in Calls, j # k
      PROVE  /\ call'[j] \in CallType
             /\ call'[j].kind = call[j].kind /\ call'[j].scope = call[j].scope
             /\ call'[j].cursor = call[j].cursor /\ call'[j].page = call[j].page
             /\ call'[j].ok = call[j].ok /\ call'[j].table = call[j].table
             /\ call[j].kind = "more" => call'[j].orphan
  <2>1. CASE call[j] = NoRequest
    BY <1>7, <1>8, <2>1
  <2>2. CASE call[j] # NoRequest
    <3>1. PICK c, more : c = call[j] /\ more = (c.kind = "more")
      OBVIOUS
    <3>2. c \in CallType /\ more \in BOOLEAN
      BY <1>1, <3>1
    <3>3. call'[j] = [c EXCEPT !.orphan = more]
      BY <1>6, <1>9, <2>2, <3>1
    <3>4. /\ call'[j] \in CallType
          /\ call'[j].kind = c.kind /\ call'[j].scope = c.scope
          /\ call'[j].cursor = c.cursor /\ call'[j].page = c.page
          /\ call'[j].ok = c.ok /\ call'[j].table = c.table
          /\ call'[j].orphan = more
      BY ONLY <3>2, <3>3 DEF CallType
    <3>. QED  BY <3>1, <3>4
  <2>. QED  BY <2>1, <2>2
<1>10. call' \in [Calls -> CallType]
  BY <1>6, <1>7, <1>8, <1>9
<1>. QED  BY <1>4, <1>5, <1>8, <1>9, <1>10

\* The end of a next page: the list it leaves, and its indicator off.
LEMMA EndedMore ==
  ASSUME TypeOK, NEW k \in Calls, call[k].kind = "more", NEW ok,
         NEW items \in Seq(Comments), NEW cursor \in Cursors \cup {NoCursor},
         NEW v, v = view \/ v = [view EXCEPT !.items = items, !.cursor = cursor],
         Finish(k, v, ok), call' = [call EXCEPT ![k] = NoRequest]
  PROVE  /\ call' \in [Calls -> CallType]
         /\ call'[k] = NoRequest
         /\ \A j \in Calls \ {k} : call'[j] = call[j]
         /\ view' \in ViewType
         /\ view'.items = v.items /\ view'.cursor = v.cursor
         /\ \/ view'.items = view.items /\ view'.cursor = view.cursor
            \/ view'.items = items /\ view'.cursor = cursor
         /\ seen' = Seen(view') /\ tailBusy' = FALSE
         /\ UNCHANGED <<thread, clock, scope>>
<1>1. call \in [Calls -> CallType] /\ view \in ViewType
  BY ClientTypes
<1>2. /\ v \in ViewType
      /\ \/ v.items = view.items /\ v.cursor = view.cursor
         \/ v.items = items /\ v.cursor = cursor
  BY ONLY <1>1, v = view \/ v = [view EXCEPT !.items = items, !.cursor = cursor],
          items \in Seq(Comments), cursor \in Cursors \cup {NoCursor} DEF ViewType
<1>3. /\ view' = [v EXCEPT !.loadingMore = FALSE]
      /\ seen' = Seen(view') /\ tailBusy' = FALSE /\ UNCHANGED <<thread, clock, scope>>
  BY DEF Finish, Settled, StillBusy, server
<1>4. view' \in ViewType /\ view'.items = v.items /\ view'.cursor = v.cursor
  BY ONLY <1>2, <1>3 DEF ViewType
<1>5. call' \in [Calls -> CallType] /\ call'[k] = NoRequest /\ \A j \in Calls \ {k} : call'[j] = call[j]
  BY <1>1, NewCalls
<1>. QED  BY <1>2, <1>3, <1>4, <1>5

\* The type invariant from the types.
LEMMA TypesFollow ==
  ASSUME clock' \in 0..MaxClock,
         thread' \in [Comments -> [state : States, at : Nat, parent : Parents]],
         scope' \in Screens, view' \in ViewType, seen' \in SeenType, tailBusy' \in BOOLEAN,
         call' \in [Calls -> CallType], base' \subseteq Comments, torn' \in BOOLEAN
  PROVE  TypeOK'
  BY DEF TypeOK, CallType, ViewType, SeenType

\* What a render shows has its type and the cursor of the state.
LEMMA SeenIs ==
  ASSUME NEW v \in ViewType
  PROVE  /\ Seen(v) \in SeenType /\ Seen(v).cursor = v.cursor
         /\ Seen(v).loadingMore = v.loadingMore
  BY DEF Seen, ViewType, SeenType

\* What a step does on the server: the comments that are stored stay as they are.
LEMMA StoredStay ==
  ASSUME TypeOK, [Next]_vars
  PROVE  /\ clock' \in 0..MaxClock
         /\ thread' \in [Comments -> [state : States, at : Nat, parent : Parents]]
         /\ \A c \in InTable : c \in InTable' /\ thread'[c] = thread[c]
<1>1. /\ clock \in 0..MaxClock /\ MaxClock \in Nat
      /\ thread \in [Comments -> [state : States, at : Nat, parent : Parents]]
  BY PagingAssumption DEF TypeOK
<1>2. CASE UNCHANGED <<clock, thread>>
  BY <1>1, <1>2 DEF InTable
<1>3. CASE Tick
  BY <1>1, <1>3 DEF Tick, InTable
<1>4. ASSUME NEW c \in Comments, NEW p \in Parents, Post(c, p)
      PROVE  /\ clock' = clock
             /\ thread' \in [Comments -> [state : States, at : Nat, parent : Parents]]
             /\ \A d \in InTable : d \in InTable' /\ thread'[d] = thread[d]
  <2>1. [state |-> "pending", at |-> clock, parent |-> p]
          \in [state : States, at : Nat, parent : Parents]
    BY <1>1 DEF States
  <2>2. /\ thread[c].state = "none" /\ clock' = clock
        /\ thread' = [thread EXCEPT ![c] = [state |-> "pending", at |-> clock, parent |-> p]]
    BY <1>4 DEF Post
  <2>3. \A d \in InTable : d # c /\ thread'[d] = thread[d]
    BY <1>1, <2>2 DEF InTable
  <2>. QED  BY <1>1, <2>1, <2>2, <2>3 DEF InTable
<1>5. ASSUME NEW c \in Comments, NEW st \in States, thread[c].state = "pending", clock' = clock,
             thread' = [thread EXCEPT ![c].state = st]
      PROVE  /\ clock' = clock
             /\ thread' \in [Comments -> [state : States, at : Nat, parent : Parents]]
             /\ \A d \in InTable : d \in InTable' /\ thread'[d] = thread[d]
  <2>1. \A d \in InTable : d # c /\ thread'[d] = thread[d]
    BY <1>1, <1>5 DEF InTable
  <2>2. thread' \in [Comments -> [state : States, at : Nat, parent : Parents]]
    BY <1>1, <1>5
  <2>. QED  BY <1>1, <1>5, <2>1, <2>2 DEF InTable
<1>6. ASSUME NEW c \in Comments, Commit(c) \/ Abort(c)
      PROVE  /\ clock' = clock
             /\ thread' \in [Comments -> [state : States, at : Nat, parent : Parents]]
             /\ \A d \in InTable : d \in InTable' /\ thread'[d] = thread[d]
  <2>1. \E st \in States : /\ thread[c].state = "pending" /\ clock' = clock
                           /\ thread' = [thread EXCEPT ![c].state = st]
    BY <1>6 DEF Commit, Abort, States
  <2>. QED  BY <1>5, <2>1
<1>7. ASSUME NEW k \in Calls, Refresh(k) \/ LoadMore(k) \/ Serve(k) \/ Ends(k)
      PROVE  UNCHANGED <<clock, thread>>
  BY <1>7 DEF Refresh, LoadMore, Serve, Ends, Replace, AppendPage, FailFirst, FailMore, Finish,
              StartFirst, server
<1>8. ASSUME NEW k \in Calls, NEW s \in Screens, ChangeScope(k, s)
      PROVE  UNCHANGED <<clock, thread>>
  BY <1>8 DEF ChangeScope, StartFirst, server
<1>9. CASE Render
  BY <1>2, <1>9 DEF Render, server
<1>. QED  BY <1>1, <1>2, <1>3, <1>4, <1>6, <1>7, <1>8, <1>9 DEF Next, vars

\* So a list stays a list, and what covers a table goes on to.
LEMMA ListStays ==
  ASSUME \A c \in InTable : c \in InTable' /\ thread'[c] = thread[c]
  PROVE  /\ \A s, items, cursor : IsList(s, items, cursor) => IsList(s, items, cursor)'
         /\ \A table, s, from, items, cursor :
              table \subseteq InTable /\ Covers(table, s, from, items, cursor)
              => Covers(table, s, from, items, cursor)'
         /\ \A k : IsPage(k) => IsPage(k)'
<1>1. \A c \in InTable : c \in InTable' /\ thread'[c] = thread[c] /\ Position(c)' = Position(c)
  BY DEF Position
<1>2. \A s : \A c \in InScope(s) : c \in InTable /\ c \in InScope(s)' /\ Position(c)' = Position(c)
  BY <1>1 DEF InScope, InTable
<1>3. ASSUME NEW s, NEW items, NEW cursor, IsList(s, items, cursor)
      PROVE  IsList(s, items, cursor)'
  <2>1. \A i \in DOMAIN items : /\ items[i] \in InScope(s)'
                                /\ Position(items[i])' = Position(items[i])
                                /\ Passed(s, cursor, Position(items[i]))
    BY <1>2, <1>3 DEF IsList
  <2>2. \A i \in DOMAIN items : items[i] \in InScope(s)' /\ Passed(s, cursor, Position(items[i]))'
    BY <2>1 DEF Passed
  <2>3. \A i, j \in DOMAIN items :
          i < j => Precedes(s.sort, Position(items[i]), Position(items[j]))'
    BY <1>3, <2>1 DEF IsList
  <2>. QED  BY <2>2, <2>3 DEF IsList
<1>4. ASSUME NEW table, NEW s, NEW from, NEW items, NEW cursor,
             table \subseteq InTable, Covers(table, s, from, items, cursor)
      PROVE  Covers(table, s, from, items, cursor)'
  <2>. SUFFICES ASSUME NEW c \in table, thread'[c].parent = s.parent,
                       Follows(s, from, Position(c)'), Passed(s, cursor, Position(c)')
                PROVE  c \in ToSet(items)
    BY DEF Covers, Follows, Passed
  <2>1. thread'[c] = thread[c] /\ Position(c)' = Position(c)
    BY <1>1, <1>4
  <2>2. thread[c].parent = s.parent /\ Follows(s, from, Position(c)) /\ Passed(s, cursor, Position(c))
    BY <2>1
  <2>. QED  BY <1>4, <2>2 DEF Covers
<1>5. ASSUME NEW k, IsPage(k) PROVE IsPage(k)'
  <2>1. PICK s, items, cursor, from, table :
          /\ s = k.scope /\ items = k.page.items /\ cursor = k.page.cursor
          /\ from = k.cursor /\ table = k.table
    OBVIOUS
  <2>2. /\ table \subseteq InTable /\ IsList(s, items, cursor)
        /\ \A i \in DOMAIN items : Follows(s, from, Position(items[i]))
        /\ cursor # NoCursor => Follows(s, from, Mark(cursor))
        /\ Covers(table, s, from, items, cursor)
    BY <1>5, <2>1 DEF IsPage
  <2>3. IsList(s, items, cursor)' /\ Covers(table, s, from, items, cursor)'
    BY <1>3, <1>4, <2>2
  <2>4. \A i \in DOMAIN items : Position(items[i])' = Position(items[i])
    BY <1>2, <2>2 DEF IsList
  <2>5. \A i \in DOMAIN items : Follows(s, from, Position(items[i]))'
    BY <2>2, <2>4 DEF Follows
  <2>6. table \subseteq InTable'
    BY <1>1, <2>2
  <2>. QED  BY <2>1, <2>2, <2>3, <2>5, <2>6 DEF IsPage, Follows
<1>. QED  BY <1>3, <1>4, <1>5

\* A request that is not touched still fits.
LEMMA CallStays ==
  ASSUME \A c \in InTable : c \in InTable' /\ thread'[c] = thread[c],
         NEW k, CallFits(k),
         k.kind = "more" => view'.loadingMore,
         base' = base \/ (k.kind = "more" => k.orphan),
         k.kind = "more" /\ ~k.orphan /\ ~torn' =>
           ~torn /\ scope' = scope /\ view'.cursor = view.cursor
  PROVE  CallFits(k)'
<1>1. IsPage(k) => IsPage(k)'
  BY ListStays
<1>2. k.page # NoPage /\ k.ok => IsPage(k)'
  BY <1>1 DEF CallFits
<1>3. k.kind = "more" /\ ~k.orphan =>
        /\ k.page # NoPage => base' \subseteq k.table
        /\ ~torn' => k.scope = scope' /\ k.cursor = view'.cursor /\ view'.cursor # NoCursor
  BY DEF CallFits
<1>. QED  BY <1>2, <1>3 DEF CallFits

\* The list is empty at the start.
LEMMA ListStarts == Init => ListInv
<1>. SUFFICES ASSUME Init PROVE ListInv
  OBVIOUS
<1>1. scope \in Screens /\ MaxClock \in Nat /\ 1 \in Calls
  BY PagingAssumption DEF Init, Calls
<1>2. view \in ViewType /\ view.items = <<>> /\ view.cursor = NoCursor
  BY DEF Init, ViewType
<1>3. Request("first", scope, NoCursor) \in CallType /\ NoRequest \in CallType
  BY <1>1, NewCalls
<1>4. call \in [Calls -> CallType]
  BY <1>3 DEF Init
<1>5. thread \in [Comments -> [state : States, at : Nat, parent : Parents]]
  BY DEF Init, States
<1>6. TypeOK
  <2>1. seen \in SeenType
    BY <1>2, SeenIs DEF Init
  <2>2. clock \in 0..MaxClock /\ base \subseteq Comments
    BY <1>1 DEF Init
  <2>3. tailBusy \in BOOLEAN /\ torn \in BOOLEAN
    BY Zenon DEF Init
  <2>. QED  BY <1>1, <1>2, <1>4, <1>5, <2>1, <2>2, <2>3 DEF TypeOK, CallType, ViewType, SeenType
<1>7. seen = Seen(view) /\ seen.cursor = view.cursor
  BY <1>2, SeenIs DEF Init
<1>8. /\ base = {} /\ ~torn
      /\ \A k \in Calls : call[k] = NoRequest \/ call[k] = Request("first", scope, NoCursor)
  BY DEF Init
<1>9. \A k \in Calls : CallFits(call[k]) /\ call[k].kind # "more"
  BY <1>1, <1>8, NewCalls DEF CallFits
<1>10. IsList(scope, view.items, view.cursor) /\ Covers(base, scope, NoCursor, view.items, view.cursor)
  BY <1>2, <1>8 DEF IsList, Covers
<1>. QED  BY <1>6, <1>7, <1>8, <1>9, <1>10 DEF ListInv, OneMore

\* The two lists, and the list of which a request is the next page.
LEMMA ListJoins ==
  ASSUME TypeOK, NEW s \in Screens, NEW table, base \subseteq table, table \subseteq InTable,
         NEW old \in Seq(Comments), NEW from \in Cursors,
         NEW new \in Seq(Comments), NEW cursor \in Cursors \cup {NoCursor},
         IsList(s, old, from), IsList(s, new, cursor),
         Covers(base, s, NoCursor, old, from), Covers(table, s, from, new, cursor),
         \A i \in DOMAIN new : Follows(s, from, Position(new[i])),
         cursor # NoCursor => Follows(s, from, Mark(cursor))
  PROVE  /\ IsList(s, old \o new, cursor)
         /\ Covers(base, s, NoCursor, old \o new, cursor)
<1>1. PICK n, m, join : n = Len(old) /\ m = Len(new) /\ join = old \o new
  OBVIOUS
<1>13. n \in Nat /\ m \in Nat
  BY <1>1
<1>2. /\ DOMAIN old = 1..n /\ DOMAIN new = 1..m /\ DOMAIN join = 1..(n + m)
      /\ \A i \in 1..n : join[i] = old[i]
      /\ \A i \in (n + 1)..(n + m) : join[i] = new[i - n] /\ i - n \in 1..m
      /\ \A i \in 1..m : join[n + i] = new[i] /\ n + i \in 1..(n + m)
  BY <1>1, <1>13
<1>3. s.sort \in Sorts /\ Mark(from) \in Positions /\ from # NoCursor
      /\ (cursor # NoCursor => Mark(cursor) \in Positions)
  BY ScopesAndCursors, ThreadNullAssumption
<1>4. \A c \in InScope(s) : Position(c) \in Positions
  BY ScopesAndCursors DEF InScope, InTable, Position, TypeOK
<1>5. \A i \in 1..n : /\ old[i] \in InScope(s)
                      /\ ~Precedes(s.sort, Mark(from), Position(old[i]))
                      /\ Position(old[i]) \in Positions
  BY <1>2, <1>3, <1>4 DEF IsList, Passed
<1>6. \A i \in 1..m : /\ new[i] \in InScope(s) /\ Passed(s, cursor, Position(new[i]))
                      /\ Precedes(s.sort, Mark(from), Position(new[i]))
                      /\ Position(new[i]) \in Positions
  BY <1>2, <1>3, <1>4 DEF IsList, Follows
<1>7. \A i \in 1..n : Passed(s, cursor, Position(old[i]))
  <2>. SUFFICES ASSUME NEW i \in 1..n, cursor # NoCursor
                PROVE  ~Precedes(s.sort, Mark(cursor), Position(old[i]))
    BY DEF Passed
  <2>1. Precedes(s.sort, Mark(from), Mark(cursor))
    BY <1>3 DEF Follows
  <2>. QED  BY <1>3, <1>5, <2>1, OrderIsTotal
<1>8. \A i \in 1..n, j \in 1..m : Precedes(s.sort, Position(old[i]), Position(new[j]))
  <2>. SUFFICES ASSUME NEW i \in 1..n, NEW j \in 1..m
                PROVE  Precedes(s.sort, Position(old[i]), Position(new[j]))
    OBVIOUS
  <2>1. PICK a, b, c : a = Position(old[i]) /\ b = Mark(from) /\ c = Position(new[j])
    OBVIOUS
  <2>2. /\ a \in Positions /\ b \in Positions /\ c \in Positions
        /\ ~Precedes(s.sort, b, a) /\ Precedes(s.sort, b, c)
    BY <1>3, <1>5, <1>6, <2>1
  <2>. QED  BY <1>3, <2>1, <2>2, OrderIsTotal
<1>9. \A i \in 1..(n + m) : join[i] \in InScope(s) /\ Passed(s, cursor, Position(join[i]))
  <2>1. \A i \in 1..(n + m) : i \in 1..n \/ i \in (n + 1)..(n + m)
    BY <1>13
  <2>. QED  BY <1>2, <1>5, <1>6, <1>7, <2>1
<1>10. ASSUME NEW i \in 1..(n + m), NEW j \in 1..(n + m), i < j
       PROVE  Precedes(s.sort, Position(join[i]), Position(join[j]))
  <2>1. CASE j <= n
    <3>1. i \in 1..n /\ j \in 1..n /\ join[i] = old[i] /\ join[j] = old[j]
      BY <1>2, <1>10, <2>1, <1>13
    <3>. QED  BY <1>2, <1>10, <3>1 DEF IsList
  <2>2. CASE i <= n /\ j > n
    <3>1. i \in 1..n /\ j - n \in 1..m /\ join[i] = old[i] /\ join[j] = new[j - n]
      BY <1>2, <2>2, <1>13
    <3>. QED  BY <1>8, <3>1
  <2>3. CASE i > n
    <3>1. /\ i - n \in 1..m /\ j - n \in 1..m /\ i - n < j - n
          /\ join[i] = new[i - n] /\ join[j] = new[j - n]
      BY <1>2, <1>10, <2>3, <1>13
    <3>. QED  BY <1>2, <3>1 DEF IsList
  <2>. QED  BY <1>13, <2>1, <2>2, <2>3
<1>11. IsList(s, join, cursor)
  BY <1>2, <1>9, <1>10 DEF IsList
<1>12. Covers(base, s, NoCursor, join, cursor)
  <2>. SUFFICES ASSUME NEW c \in base, thread[c].parent = s.parent, Passed(s, cursor, Position(c))
                PROVE  c \in ToSet(join)
    BY DEF Covers
  <2>1. CASE Passed(s, from, Position(c))
    <3>1. c \in ToSet(old)
      BY <2>1 DEF Covers, Follows
    <3>2. PICK i \in 1..n : old[i] = c
      BY <1>2, <3>1 DEF ToSet
    <3>3. i \in DOMAIN join /\ join[i] = c
      BY <1>2, <1>13, <3>2
    <3>. QED  BY <3>3 DEF ToSet
  <2>2. CASE ~Passed(s, from, Position(c))
    <3>1. Follows(s, from, Position(c)) /\ c \in table
      BY <2>2 DEF Passed, Follows
    <3>2. c \in ToSet(new)
      BY <3>1 DEF Covers
    <3>3. PICK i \in 1..m : new[i] = c
      BY <1>2, <3>2 DEF ToSet
    <3>4. n + i \in DOMAIN join /\ join[n + i] = c
      BY <1>2, <3>3, <1>13
    <3>. QED  BY <3>4 DEF ToSet
  <2>. QED  BY <2>1, <2>2
<1>. QED  BY <1>1, <1>11, <1>12

\* What is left to show of a step.
LEMMA ListInvFollows ==
  ASSUME TypeOK, [Next]_vars,
         scope' \in Screens, view' \in ViewType, seen' \in SeenType, tailBusy' \in BOOLEAN,
         call' \in [Calls -> CallType], torn' \in BOOLEAN,
         seen'.cursor = view'.cursor, ~tailBusy' => seen' = Seen(view'),
         base' \subseteq InTable',
         \A i, j \in Calls : call'[i].kind = "more" /\ call'[j].kind = "more" => i = j,
         \A j \in Calls : \E k : k = call'[j] /\ CallFits(k)',
         ~torn' => \E s, items, cursor, table :
                     /\ s = scope' /\ items = view'.items /\ cursor = view'.cursor /\ table = base'
                     /\ IsList(s, items, cursor)' /\ Covers(table, s, NoCursor, items, cursor)'
  PROVE  ListInv'
<1>1. TypeOK'
  <2>1. base' \subseteq Comments
    BY DEF InTable
  <2>. QED  BY <2>1, StoredStay, TypesFollow
<1>2. ASSUME NEW j \in Calls PROVE CallFits(call[j])'
  <2>1. PICK k : k = call'[j] /\ CallFits(k)'
    OBVIOUS
  <2>. QED  BY <2>1
<1>3. ASSUME ~torn'
      PROVE  IsList(scope, view.items, view.cursor)' /\ Covers(base, scope, NoCursor, view.items, view.cursor)'
  <2>1. PICK s, items, cursor, table :
          /\ s = scope' /\ items = view'.items /\ cursor = view'.cursor /\ table = base'
          /\ IsList(s, items, cursor)' /\ Covers(table, s, NoCursor, items, cursor)'
    BY <1>3
  <2>. QED  BY <2>1
<1>4. OneMore'
  BY DEF OneMore
<1>5. seen.cursor' = view.cursor' /\ (~tailBusy' => (seen = Seen(view))')
  BY DEF Seen
<1>. QED  BY <1>1, <1>2, <1>3, <1>4, <1>5 DEF ListInv

\* The facts of the invariant, one by one.
LEMMA ListInvIs ==
  ASSUME ListInv, [Next]_vars
  PROVE  /\ TypeOK /\ seen.cursor = view.cursor /\ (~tailBusy => seen = Seen(view))
         /\ call \in [Calls -> CallType] /\ view \in ViewType /\ seen \in SeenType
         /\ scope \in Screens /\ tailBusy \in BOOLEAN /\ torn \in BOOLEAN
         /\ base \subseteq InTable /\ base \subseteq InTable'
         /\ \A i, j \in Calls : call[i].kind = "more" /\ call[j].kind = "more" => i = j
         /\ \A k \in Calls : CallFits(call[k])
         /\ ~torn => /\ IsList(scope, view.items, view.cursor)
                     /\ Covers(base, scope, NoCursor, view.items, view.cursor)
         /\ \A c \in InTable : c \in InTable' /\ thread'[c] = thread[c]
<1>1. TypeOK
  BY DEF ListInv
<1>. QED  BY <1>1, ClientTypes, StoredStay DEF ListInv, OneMore

\* The list on the screen and its scope have not changed.
LEMMA ScreenStays ==
  ASSUME ListInv, [Next]_vars, ~torn, scope' = scope, base' = base,
         view'.items = view.items, view'.cursor = view.cursor
  PROVE  \E s, items, cursor, table :
           /\ s = scope' /\ items = view'.items /\ cursor = view'.cursor /\ table = base'
           /\ IsList(s, items, cursor)' /\ Covers(table, s, NoCursor, items, cursor)'
<1>1. PICK s, items, cursor, table :
        s = scope /\ items = view.items /\ cursor = view.cursor /\ table = base
  OBVIOUS
<1>2. IsList(s, items, cursor) /\ Covers(table, s, NoCursor, items, cursor) /\ table \subseteq InTable
  BY <1>1, ListInvIs
<1>3. IsList(s, items, cursor)' /\ Covers(table, s, NoCursor, items, cursor)'
  BY <1>2, ListInvIs, ListStays
<1>. QED  BY <1>1, <1>3

\* Requests that a step does not touch.
LEMMA OthersStay ==
  ASSUME ListInv, [Next]_vars, NEW j \in Calls, call'[j] = call[j],
         call[j].kind = "more" => view'.loadingMore,
         base' = base \/ (call[j].kind = "more" => call[j].orphan),
         call[j].kind = "more" /\ ~call[j].orphan /\ ~torn' =>
           ~torn /\ scope' = scope /\ view'.cursor = view.cursor
  PROVE  \E k : k = call'[j] /\ CallFits(k)'
<1>1. PICK k : k = call[j]
  OBVIOUS
<1>2. /\ CallFits(k)
      /\ k.kind = "more" => view'.loadingMore
      /\ base' = base \/ (k.kind = "more" => k.orphan)
      /\ k.kind = "more" /\ ~k.orphan /\ ~torn' =>
           ~torn /\ scope' = scope /\ view'.cursor = view.cursor
  BY <1>1, ListInvIs
<1>3. CallFits(k)'
  BY <1>2, ListInvIs, CallStays
<1>. QED  BY <1>1, <1>3

\* A step that changes neither the client's list nor its requests.
LEMMA QuietKeeps ==
  ASSUME ListInv, [Next]_vars, UNCHANGED <<scope, view, tailBusy, call, base, torn>>,
         seen' = seen \/ seen' = Seen(view)
  PROVE  ListInv'
<1>1. seen' \in SeenType /\ seen'.cursor = view'.cursor /\ (~tailBusy' => seen' = Seen(view'))
  BY ListInvIs, SeenIs
<1>2. \A j \in Calls : call[j].kind = "more" => view.loadingMore
  BY ListInvIs DEF CallFits
<1>3. \A j \in Calls : \E k : k = call'[j] /\ CallFits(k)'
  BY <1>2, OthersStay
<1>4. ~torn' => \E s, items, cursor, table :
                  /\ s = scope' /\ items = view'.items /\ cursor = view'.cursor /\ table = base'
                  /\ IsList(s, items, cursor)' /\ Covers(table, s, NoCursor, items, cursor)'
  BY ScreenStays
<1>. QED  BY <1>1, <1>3, <1>4, ListInvIs, ListInvFollows

\* The server answers a request with a page.
LEMMA ServeKeeps ==
  ASSUME ListInv, [Next]_vars, NEW k \in Calls, Serve(k)
  PROVE  ListInv'
<1>1. /\ UNCHANGED <<scope, view, seen, tailBusy, base, torn, thread>>
      /\ call[k].kind # "none"
  BY DEF Serve, server
<1>2. CallFits(call[k]) /\ call[k].scope \in Screens
  BY <1>1, ListInvIs DEF CallFits
<1>3. /\ call' \in [Calls -> CallType]
      /\ \A j \in Calls \ {k} : call'[j] = call[j]
      /\ call[k].page = NoPage
      /\ call'[k].kind = call[k].kind /\ call'[k].scope = call[k].scope
      /\ call'[k].cursor = call[k].cursor /\ call'[k].orphan = call[k].orphan
      /\ call'[k].table = InTable
      /\ call'[k].ok = Decodes(call[k].scope, call[k].cursor)
      /\ call'[k].ok => call'[k].page = Listed(call[k].scope, call[k].cursor)
  BY <1>2, ListInvIs, ServedCall
<1>4. \A j \in Calls : call[j].kind = "more" => view.loadingMore
  BY ListInvIs DEF CallFits
<1>5. \A j \in Calls \ {k} : \E c : c = call'[j] /\ CallFits(c)'
  BY <1>1, <1>3, <1>4, OthersStay
<1>6. \E c : c = call'[k] /\ CallFits(c)'
  <2>1. PICK c, s, from, page :
          c = call'[k] /\ s = call[k].scope /\ from = call[k].cursor /\ page = Listed(s, from)
    OBVIOUS
  <2>2. /\ c.scope = s /\ c.cursor = from /\ c.kind = call[k].kind /\ c.orphan = call[k].orphan
        /\ c.table = InTable /\ (c.ok => c.page = page) /\ c.ok = Decodes(s, from)
    BY <1>3, <2>1
  <2>3. from \in Cursors \cup {NoCursor}
    BY <2>1, ListInvIs DEF CallType
  <2>4. /\ IsList(s, page.items, page.cursor)
        /\ \A i \in DOMAIN page.items : Follows(s, from, Position(page.items[i]))
        /\ page.cursor # NoCursor => Follows(s, from, Mark(page.cursor))
        /\ Covers(InTable, s, from, page.items, page.cursor)
    BY <1>2, <2>1, <2>3, ListInvIs, ListedIs
  <2>5. c.ok => IsPage(c)
    BY <2>2, <2>4 DEF IsPage
  <2>6. c.kind = "first" => c.cursor = NoCursor /\ c.ok
    BY <1>2, <2>1, <2>2 DEF CallFits, Decodes
  <2>7. CallFits(c)
    BY <1>2, <2>1, <2>2, <2>5, <2>6, ListInvIs DEF CallFits
  <2>8. CallFits(c)'
    BY <1>1, <1>4, <2>2, <2>7, ListInvIs, CallStays
  <2>. QED  BY <2>1, <2>8
<1>7. \A j \in Calls : \E c : c = call'[j] /\ CallFits(c)'
  BY <1>5, <1>6
<1>8. \A j \in Calls : call'[j].kind = call[j].kind
  BY <1>3
<1>9. \A i, j \in Calls : call'[i].kind = "more" /\ call'[j].kind = "more" => i = j
  BY <1>8, ListInvIs
<1>10. ~torn' => \E s, items, cursor, table :
                  /\ s = scope' /\ items = view'.items /\ cursor = view'.cursor /\ table = base'
                  /\ IsList(s, items, cursor)' /\ Covers(table, s, NoCursor, items, cursor)'
  BY <1>1, ScreenStays
<1>. QED  BY <1>1, <1>3, <1>7, <1>9, <1>10, ListInvIs, ListInvFollows

\* A first page starts: the list stays, of another scope perhaps.
LEMMA StartFirstKeeps ==
  ASSUME ListInv, [Next]_vars, NEW k \in Calls, Refresh(k) \/ \E s \in Screens : ChangeScope(k, s)
  PROVE  ListInv'
<1>1. PICK s, v :
        /\ s \in Screens /\ s = scope' /\ StartFirst(k, s, v)
        /\ v = [view EXCEPT !.loading = TRUE] \/ v = [view EXCEPT !.refreshing = TRUE]
        /\ seen' = seen \/ seen' = Seen(view)
        /\ torn' \in BOOLEAN /\ (~torn' => ~torn /\ scope' = scope)
  <2>1. CASE Refresh(k)
    BY <2>1, ListInvIs DEF Refresh
  <2>2. CASE \E s \in Screens : ChangeScope(k, s)
    BY <2>2 DEF ChangeScope
  <2>. QED  BY <2>1, <2>2
<1>2. /\ call' \in [Calls -> CallType]
      /\ \A j \in Calls \ {k} : call'[j] = call[j]
      /\ call'[k] = Request("first", s, NoCursor)
      /\ view' \in ViewType /\ view'.items = view.items /\ view'.cursor = view.cursor
      /\ view'.loadingMore = view.loadingMore /\ tailBusy' = TRUE
      /\ UNCHANGED <<thread, clock, base>>
  BY <1>1, ListInvIs, StartedFirst
<1>3. seen' \in SeenType /\ seen'.cursor = view'.cursor
  BY <1>1, <1>2, ListInvIs, SeenIs
<1>4. \A j \in Calls : call[j].kind = "more" => view.loadingMore
  BY ListInvIs DEF CallFits
<1>5. \A j \in Calls \ {k} : \E c : c = call'[j] /\ CallFits(c)'
  BY <1>1, <1>2, <1>4, OthersStay
<1>6. \E c : c = call'[k] /\ CallFits(c)'
  <2>1. PICK c : c = Request("first", s, NoCursor)
    OBVIOUS
  <2>2. c.kind = "first" /\ c.scope \in Screens /\ c.cursor = NoCursor /\ c.page = NoPage
    BY <1>1, <2>1, NewCalls
  <2>3. CallFits(c)'
    BY <2>2 DEF CallFits
  <2>. QED  BY <1>2, <2>1, <2>3
<1>7. call'[k].kind = "first"
  BY <1>1, <1>2, NewCalls
<1>8. \A i, j \in Calls : call'[i].kind = "more" /\ call'[j].kind = "more" => i = j
  BY <1>2, <1>7, ListInvIs
<1>9. ~torn' => \E t, items, cursor, table :
                  /\ t = scope' /\ items = view'.items /\ cursor = view'.cursor /\ table = base'
                  /\ IsList(t, items, cursor)' /\ Covers(table, t, NoCursor, items, cursor)'
  BY <1>1, <1>2, ScreenStays
<1>10. \A j \in Calls : \E c : c = call'[j] /\ CallFits(c)'
  BY <1>5, <1>6
<1>11. scope' \in Screens /\ tailBusy' \in BOOLEAN /\ base' \subseteq InTable'
  BY <1>1, <1>2, ListInvIs
<1>. QED  BY <1>1, <1>2, <1>3, <1>8, <1>9, <1>10, <1>11, ListInvIs, ListInvFollows

\* A next page starts, from the cursor that was rendered.
LEMMA LoadMoreKeeps ==
  ASSUME ListInv, [Next]_vars, NEW k \in Calls, LoadMore(k)
  PROVE  ListInv'
<1>1. /\ ~tailBusy /\ ~seen.loadingMore /\ seen.cursor # NoCursor
  BY DEF LoadMore
<1>2. seen = Seen(view) /\ seen.cursor = view.cursor /\ ~view.loadingMore
  BY <1>1, ListInvIs, SeenIs
<1>3. \A j \in Calls : call[j].kind # "more"
  BY <1>2, ListInvIs DEF CallFits
<1>4. /\ call' \in [Calls -> CallType]
      /\ \A j \in Calls \ {k} : call'[j] = call[j]
      /\ call'[k] = Request("more", scope, seen.cursor)
      /\ view' \in ViewType /\ view'.items = view.items /\ view'.cursor = view.cursor
      /\ view'.loadingMore = TRUE /\ tailBusy' = TRUE
      /\ UNCHANGED <<thread, clock, base, scope, seen, torn>>
  BY ListInvIs, StartedMore
<1>5. \A j \in Calls \ {k} : \E c : c = call'[j] /\ CallFits(c)'
  BY <1>3, <1>4, OthersStay
<1>6. \E c : c = call'[k] /\ CallFits(c)'
  <2>1. PICK c : c = Request("more", scope, seen.cursor)
    OBVIOUS
  <2>2. seen.cursor \in Cursors \cup {NoCursor}
    BY ListInvIs DEF SeenType
  <2>3. c.kind = "more" /\ c.scope = scope /\ c.cursor = seen.cursor /\ c.page = NoPage
    BY <2>1, <2>2, ListInvIs, NewCalls
  <2>4. CallFits(c)'
    BY <1>1, <1>2, <1>4, <2>3, ListInvIs DEF CallFits
  <2>. QED  BY <1>4, <2>1, <2>4
<1>7. \A i, j \in Calls : call'[i].kind = "more" /\ call'[j].kind = "more" => i = j
  BY <1>3, <1>4
<1>8. ~torn' => \E t, items, cursor, table :
                  /\ t = scope' /\ items = view'.items /\ cursor = view'.cursor /\ table = base'
                  /\ IsList(t, items, cursor)' /\ Covers(table, t, NoCursor, items, cursor)'
  BY <1>4, ScreenStays
<1>9. \A j \in Calls : \E c : c = call'[j] /\ CallFits(c)'
  BY <1>5, <1>6
<1>10. tailBusy' \in BOOLEAN /\ (~tailBusy' => seen' = Seen(view'))
  BY <1>4
<1>. QED  BY <1>2, <1>4, <1>7, <1>8, <1>9, <1>10, ListInvIs, ListInvFollows

\* A request whose page is no longer one of the list.
LEMMA OrphanFits ==
  ASSUME NEW c, NEW d, CallFits(c), d.kind = c.kind, d.scope = c.scope, d.cursor = c.cursor,
         d.page = c.page, d.ok = c.ok, d.table = c.table, c.kind = "more" => d.orphan
  PROVE  CallFits(d)
<1>1. IsPage(c) => IsPage(d)
  BY DEF IsPage
<1>. QED  BY <1>1 DEF CallFits

\* No request, nothing to fit.
LEMMA NoRequestFits == \A c : c = NoRequest => CallFits(c)'
  BY NewCalls DEF CallFits

\* The end of a first page, with whatever it makes of the list.
LEMMA EndFirstKeeps ==
  ASSUME ListInv, [Next]_vars, NEW k \in Calls, call[k].kind = "first", NEW ok,
         NEW items \in Seq(Comments), NEW cursor \in Cursors \cup {NoCursor},
         Finish(k, [view EXCEPT !.items = items, !.cursor = cursor], ok), Replaced(k),
         torn' \in BOOLEAN, NEW table, base' = table, table \subseteq InTable,
         ~torn' => \E s : s = scope /\ IsList(s, items, cursor)
                                    /\ Covers(table, s, NoCursor, items, cursor)
  PROVE  ListInv'
<1>1. /\ call' \in [Calls -> CallType]
      /\ call'[k] = NoRequest
      /\ \A j \in Calls : call[j] = NoRequest => call'[j] = NoRequest
      /\ \A j \in Calls \ {k} :
           /\ call'[j].kind = call[j].kind /\ call'[j].scope = call[j].scope
           /\ call'[j].cursor = call[j].cursor /\ call'[j].page = call[j].page
           /\ call'[j].ok = call[j].ok /\ call'[j].table = call[j].table
           /\ call[j].kind = "more" => call'[j].orphan
      /\ view' \in ViewType /\ view'.items = items /\ view'.cursor = cursor
      /\ view'.loadingMore = view.loadingMore
      /\ seen' = Seen(view') /\ tailBusy' = FALSE
      /\ UNCHANGED <<thread, clock, scope>>
  BY ListInvIs, EndedFirst
<1>2. \A j \in Calls : call[j].kind = "more" => view.loadingMore
  BY ListInvIs DEF CallFits
<1>3. ASSUME NEW j \in Calls, j # k
      PROVE  \E c : c = call'[j] /\ CallFits(c)'
  <2>1. PICK c, d : c = call[j] /\ d = call'[j]
    OBVIOUS
  <2>2. /\ d.kind = c.kind /\ d.scope = c.scope /\ d.cursor = c.cursor
        /\ d.page = c.page /\ d.ok = c.ok /\ d.table = c.table
        /\ c.kind = "more" => d.orphan
    BY <1>1, <1>3, <2>1
  <2>3. CallFits(d)
    BY <2>1, <2>2, ListInvIs, OrphanFits
  <2>4. d.kind = "more" => d.orphan /\ view'.loadingMore
    BY <1>1, <1>2, <2>1, <2>2
  <2>5. CallFits(d)'
    BY <2>3, <2>4, ListInvIs, CallStays
  <2>. QED  BY <2>1, <2>5
<1>4. \A j \in Calls : \E c : c = call'[j] /\ CallFits(c)'
  BY <1>1, <1>3, NoRequestFits
<1>5. call'[k].kind = "none"
  BY <1>1, NewCalls
<1>6. \A i, j \in Calls : call'[i].kind = "more" /\ call'[j].kind = "more" => i = j
  BY <1>1, <1>5, ListInvIs
<1>7. ASSUME ~torn'
      PROVE  \E s, is, c, t :
               /\ s = scope' /\ is = view'.items /\ c = view'.cursor /\ t = base'
               /\ IsList(s, is, c)' /\ Covers(t, s, NoCursor, is, c)'
  <2>1. PICK s : s = scope /\ IsList(s, items, cursor) /\ Covers(table, s, NoCursor, items, cursor)
    BY <1>7
  <2>2. IsList(s, items, cursor)' /\ Covers(table, s, NoCursor, items, cursor)'
    BY <2>1, ListInvIs, ListStays
  <2>. QED  BY <1>1, <2>1, <2>2
<1>8. seen' \in SeenType /\ seen'.cursor = view'.cursor
  BY <1>1, SeenIs
<1>9. scope' \in Screens /\ base' \subseteq InTable' /\ tailBusy' \in BOOLEAN
  BY <1>1, ListInvIs
<1>. QED  BY <1>1, <1>4, <1>6, <1>7, <1>8, <1>9, ListInvIs, ListInvFollows

\* A first page arrives and replaces the list.
LEMMA ReplaceKeeps ==
  ASSUME ListInv, [Next]_vars, NEW k \in Calls, Replace(k)
  PROVE  ListInv'
<1>1. PICK c, s, items, cursor, table :
        /\ c = call[k] /\ s = c.scope /\ items = c.page.items /\ cursor = c.page.cursor
        /\ table = c.table
  OBVIOUS
<1>2. /\ c.kind = "first" /\ c.page # NoPage
      /\ Finish(k, [view EXCEPT !.items = items, !.cursor = cursor], TRUE)
      /\ Replaced(k) /\ base' = table /\ torn' = (s # scope)
  BY <1>1 DEF Replace
<1>3. c \in CallType /\ CallFits(c)
  BY <1>1, ListInvIs
<1>4. items \in Seq(Comments) /\ cursor \in Cursors \cup {NoCursor}
  BY <1>1, <1>2, <1>3 DEF CallType, Pages
<1>5. IsPage(c) /\ c.cursor = NoCursor
  BY <1>2, <1>3 DEF CallFits
<1>6. table \subseteq InTable /\ IsList(s, items, cursor) /\ Covers(table, s, NoCursor, items, cursor)
  BY <1>1, <1>5 DEF IsPage
<1>7. torn' \in BOOLEAN
  BY <1>2, Zenon
<1>8. ~torn' => \E t : t = scope /\ IsList(t, items, cursor)
                                 /\ Covers(table, t, NoCursor, items, cursor)
  BY <1>2, <1>6
<1>. QED  BY <1>1, <1>2, <1>4, <1>6, <1>7, <1>8, EndFirstKeeps

\* A first page fails and empties the list.
LEMMA FailFirstKeeps ==
  ASSUME ListInv, [Next]_vars, NEW k \in Calls, FailFirst(k)
  PROVE  ListInv'
<1>1. PICK items, cursor, table : items = <<>> /\ cursor = NoCursor /\ table = {}
  OBVIOUS
<1>2. /\ call[k].kind = "first"
      /\ Finish(k, [view EXCEPT !.items = items, !.cursor = cursor], FALSE)
      /\ Replaced(k) /\ base' = table /\ torn' = FALSE
  BY <1>1 DEF FailFirst
<1>3. items \in Seq(Comments) /\ cursor \in Cursors \cup {NoCursor} /\ table \subseteq InTable
  BY <1>1
<1>4. \A s : IsList(s, items, cursor) /\ Covers(table, s, NoCursor, items, cursor)
  BY <1>1 DEF IsList, Covers
<1>5. torn' \in BOOLEAN
  BY <1>2, Zenon
<1>. QED  BY <1>2, <1>3, <1>4, <1>5, EndFirstKeeps

\* A next page arrives and is appended, or fails.
LEMMA AppendKeeps ==
  ASSUME ListInv, [Next]_vars, NEW k \in Calls, AppendPage(k) \/ FailMore(k)
  PROVE  ListInv'
<1>1. PICK c, old, new, items, cursor, from :
        /\ c = call[k] /\ old = view.items /\ from = view.cursor
        /\ IF AppendPage(k)
           THEN new = c.page.items /\ cursor = c.page.cursor /\ items = old \o new
           ELSE new = old /\ cursor = from /\ items = old
  OBVIOUS
<1>2. c \in CallType /\ CallFits(c) /\ c.kind = "more"
  BY <1>1, ListInvIs DEF AppendPage, FailMore
<1>3. old \in Seq(Comments) /\ from \in Cursors \cup {NoCursor}
  BY <1>1, ListInvIs DEF ViewType
<1>4. AppendPage(k) => new \in Seq(Comments) /\ cursor \in Cursors \cup {NoCursor}
  BY <1>1, <1>2 DEF AppendPage, CallType, Pages
<1>5. items \in Seq(Comments) /\ cursor \in Cursors \cup {NoCursor}
  <2>1. CASE AppendPage(k)
    <3>1. new \in Seq(Comments) /\ cursor \in Cursors \cup {NoCursor} /\ items = old \o new
      BY <1>1, <1>4, <2>1
    <3>. QED  BY ONLY <1>3, <3>1
  <2>2. CASE ~AppendPage(k)
    BY <1>1, <1>3, <2>2
  <2>. QED  BY <2>1, <2>2
<1>6. /\ call' = [call EXCEPT ![k] = NoRequest] /\ base' = base
      /\ \E v, ok : Finish(k, v, ok) /\ v = IF AppendPage(k) THEN [view EXCEPT !.items = items, !.cursor = cursor]
                                            ELSE view
      /\ torn' = IF AppendPage(k) THEN torn \/ c.orphan ELSE torn
  <2>1. CASE AppendPage(k)
    BY <1>1, <2>1 DEF AppendPage
  <2>2. CASE ~AppendPage(k)
    BY <1>1, <2>2 DEF FailMore
  <2>. QED  BY <2>1, <2>2
<1>7. PICK v, ok : Finish(k, v, ok) /\ v = IF AppendPage(k) THEN [view EXCEPT !.items = items, !.cursor = cursor]
                                           ELSE view
  BY <1>6
<1>8. /\ call' \in [Calls -> CallType]
      /\ call'[k] = NoRequest
      /\ \A j \in Calls \ {k} : call'[j] = call[j]
      /\ view' \in ViewType /\ view'.items = v.items /\ view'.cursor = v.cursor
      /\ seen' = Seen(view') /\ tailBusy' = FALSE
      /\ UNCHANGED <<thread, clock, scope>>
  <2>1. v = view \/ v = [view EXCEPT !.items = items, !.cursor = cursor]
    BY <1>7
  <2>2. call[k].kind = "more"
    BY <1>1, <1>2
  <2>3. TypeOK /\ Finish(k, v, ok) /\ call' = [call EXCEPT ![k] = NoRequest]
    BY <1>6, <1>7, ListInvIs
  <2>4. items \in Seq(Comments) /\ cursor \in Cursors \cup {NoCursor}
    BY <1>5
  <2>5. /\ call' \in [Calls -> CallType]
        /\ call'[k] = NoRequest
        /\ \A j \in Calls \ {k} : call'[j] = call[j]
        /\ view' \in ViewType
        /\ view'.items = v.items /\ view'.cursor = v.cursor
        /\ \/ view'.items = view.items /\ view'.cursor = view.cursor
           \/ view'.items = items /\ view'.cursor = cursor
        /\ seen' = Seen(view') /\ tailBusy' = FALSE
        /\ UNCHANGED <<thread, clock, scope>>
    BY ONLY <2>1, <2>2, <2>3, <2>4, EndedMore, Zenon
  <2>. QED  BY ONLY <2>5
<1>9. \A j \in Calls \ {k} : call[j].kind # "more"
  BY <1>1, <1>2, ListInvIs
<1>10. \A j \in Calls : \E d : d = call'[j] /\ CallFits(d)'
  <2>1. \A j \in Calls \ {k} : \E d : d = call'[j] /\ CallFits(d)'
    BY <1>6, <1>8, <1>9, OthersStay
  <2>. QED  BY <1>8, <2>1, NoRequestFits
<1>11. \A i, j \in Calls : call'[i].kind = "more" /\ call'[j].kind = "more" => i = j
  BY <1>8, <1>9, NewCalls
<1>12. ASSUME ~torn'
       PROVE  \E s, is, d, t :
                /\ s = scope' /\ is = view'.items /\ d = view'.cursor /\ t = base'
                /\ IsList(s, is, d)' /\ Covers(t, s, NoCursor, is, d)'
  <2>1. CASE AppendPage(k)
    <3>1. ~torn /\ ~c.orphan /\ c.page # NoPage /\ c.ok
      BY <1>1, <1>6, <1>12, <2>1 DEF AppendPage
    <3>2. PICK s, table, B : s = scope /\ table = c.table /\ B = base
      OBVIOUS
    <3>3. /\ s \in Screens /\ c.scope = s /\ c.cursor = from /\ from \in Cursors
          /\ base \subseteq table
      BY <1>1, <1>2, <1>3, <3>1, <3>2, ListInvIs DEF CallFits
    <3>4. IsPage(c)
      BY <1>2, <3>1 DEF CallFits
    <3>5. /\ table \subseteq InTable /\ IsList(s, new, cursor)
          /\ \A i \in DOMAIN new : Follows(s, from, Position(new[i]))
          /\ cursor # NoCursor => Follows(s, from, Mark(cursor))
          /\ Covers(table, s, from, new, cursor)
      BY <1>1, <2>1, <3>2, <3>3, <3>4 DEF IsPage
    <3>6. IsList(s, old, from) /\ Covers(base, s, NoCursor, old, from)
      BY <1>1, <3>1, <3>2, ListInvIs
    <3>7. IsList(s, old \o new, cursor) /\ Covers(base, s, NoCursor, old \o new, cursor)
      BY <1>3, <1>4, <1>5, <2>1, <3>3, <3>5, <3>6, ListInvIs, ListJoins
    <3>8. IsList(s, items, cursor) /\ Covers(B, s, NoCursor, items, cursor) /\ B \subseteq InTable
      BY <1>1, <2>1, <3>2, <3>7, ListInvIs
    <3>9. IsList(s, items, cursor)' /\ Covers(B, s, NoCursor, items, cursor)'
      BY <3>8, ListInvIs, ListStays
    <3>10. view'.items = items /\ view'.cursor = cursor
      BY <1>7, <1>8, <2>1, ListInvIs DEF ViewType
    <3>. QED  BY <1>6, <1>8, <3>2, <3>9, <3>10
  <2>2. CASE ~AppendPage(k)
    BY <1>6, <1>7, <1>8, <1>12, <2>2, ScreenStays
  <2>. QED  BY <2>1, <2>2
<1>13. seen' \in SeenType /\ seen'.cursor = view'.cursor
  BY <1>8, SeenIs
<1>14. torn' \in BOOLEAN
  <2>1. c.orphan \in BOOLEAN /\ torn \in BOOLEAN
    BY <1>2, ListInvIs DEF CallType
  <2>. QED  BY <1>6, <2>1, Zenon
<1>15. tailBusy' \in BOOLEAN
  BY <1>8
<1>. QED  BY <1>6, <1>8, <1>10, <1>11, <1>12, <1>13, <1>14, <1>15, ListInvIs, ListInvFollows

\* Every step keeps the invariant.
LEMMA ListKept == ListInv /\ [Next]_vars => ListInv'
<1>. SUFFICES ASSUME ListInv, [Next]_vars PROVE ListInv'
  OBVIOUS
<1>1. CASE UNCHANGED client
  BY <1>1, QuietKeeps DEF client
<1>2. CASE Render
  BY <1>2, QuietKeeps DEF Render
<1>3. CASE Tick \/ (\E c \in Comments : Commit(c) \/ Abort(c))
           \/ (\E c \in Comments, p \in Parents : Post(c, p)) \/ UNCHANGED vars
  BY <1>1, <1>3 DEF Tick, Commit, Abort, Post, vars, client
<1>4. ASSUME NEW k \in Calls, Ends(k) PROVE ListInv'
  BY <1>4, ReplaceKeeps, AppendKeeps, FailFirstKeeps DEF Ends
<1>5. ASSUME NEW k \in Calls, Refresh(k) \/ LoadMore(k) \/ Serve(k) PROVE ListInv'
  BY <1>5, StartFirstKeeps, LoadMoreKeeps, ServeKeeps
<1>6. ASSUME NEW k \in Calls, NEW s \in Screens, ChangeScope(k, s) PROVE ListInv'
  BY <1>6, StartFirstKeeps
<1>. QED  BY <1>2, <1>3, <1>4, <1>5, <1>6 DEF Next

(***************************************************************************)
(* For any number of comments, scopes and requests, page size, and order   *)
(* of answers, the list and the pages under way are what ListInv says.     *)
(***************************************************************************)
THEOREM ListIsSound == Spec => []ListInv
  BY ListStarts, ListKept, PTL DEF Spec

(***************************************************************************)
(* The list shows no comment twice and shows them in the order of its      *)
(* scope, unless an answer got into a list it was not asked for.           *)
(***************************************************************************)
THEOREM ListStaysInOrder == Spec => []InOrder
<1>1. ListInv => InOrder
  <2>. SUFFICES ASSUME ListInv, ~torn PROVE InOrder
    BY DEF InOrder
  <2>1. IsList(scope, view.items, view.cursor) /\ view.items \in Seq(Comments)
    BY ClientTypes DEF ListInv, ViewType
  <2>2. DOMAIN view.items = 1..Len(view.items)
    BY <2>1
  <2>. QED  BY <2>1, <2>2 DEF IsList, InOrder
<1>. QED  BY <1>1, ListIsSound, PTL

(***************************************************************************)
(* No comment that was there when the first page was read is missing       *)
(* before the cursor, rows of one moment and late ones included.           *)
(***************************************************************************)
THEOREM ListSkipsNothing == Spec => []NothingSkipped
<1>1. ListInv => NothingSkipped
  <2>. SUFFICES ASSUME ListInv, ~torn PROVE NothingSkipped
    BY DEF NothingSkipped
  <2>1. Covers(base, scope, NoCursor, view.items, view.cursor)
    BY DEF ListInv
  <2>. QED  BY <2>1 DEF Covers, Follows, Passed, Mark, NothingSkipped, Shown
<1>. QED  BY <1>1, ListIsSound, PTL

-----------------------------------------------------------------------------
(* The inbox. *)

\* The fields of the inbox's state and of its requests; a tap names a group.
TripFields(t) == t = [kind |-> t.kind, group |-> t.group, at |-> t.at,
                      list |-> t.list, missed |-> t.missed]

InboxFields ==
  /\ member = [g \in Groups |-> member[g]]
  /\ inbox = [invites |-> inbox.invites, loading |-> inbox.loading,
              refreshing |-> inbox.refreshing, busy |-> inbox.busy]
  /\ drawn = [invites |-> drawn.invites, busy |-> drawn.busy]
  /\ drawn.invites \subseteq Groups
  /\ inbox.invites \subseteq Groups
  /\ trip = [k \in Trips |-> trip[k]]
  /\ \A k \in Trips : /\ TripFields(trip[k])
                      /\ trip[k].list \subseteq Groups
                      /\ trip[k].kind \in {"none"} \cup Refreshes \cup Taps
                      /\ trip[k].kind \in Taps => trip[k].group \in Groups

\* What an answer that has not arrived says of a row that has not changed since.
AnswerIsRight(t) ==
  t.at = "ok" =>
    /\ t.kind \in Refreshes =>
         \A g \in Groups \ t.missed : g \in t.list <=> member[g] = "pending"
    /\ t.kind \in Taps => t.group \in t.missed \/ member[t.group] # "pending"

AnswersAreRight == \A k \in Trips : AnswerIsRight(trip[k])

InboxInv == InboxFields /\ AnswersAreRight /\ InboxIsRight /\ IndicatorsEnd

LEMMA InboxInvInit == InboxInit => InboxInv
<1>. SUFFICES ASSUME InboxInit PROVE InboxInv
  OBVIOUS
<1>1. 1 \in Trips
  BY InboxAssumption DEF Trips
<1>2. InboxFields
  BY DEF InboxInit, InboxFields, OnScreen, TripFields, Trip, NoTrip, Refreshes, Taps
<1>3. AnswersAreRight
  BY DEF InboxInit, AnswersAreRight, AnswerIsRight, Trip, NoTrip
<1>4. InboxIsRight
  BY DEF InboxInit, InboxIsRight
<1>5. IndicatorsEnd
  BY <1>1 DEF InboxInit, IndicatorsEnd, Trip
<1>. QED  BY <1>2, <1>3, <1>4, <1>5 DEF InboxInv

\* A row changes: the list and the answers which were read from it are behind.
LEMMA RowChanges ==
  ASSUME InboxInv, NEW g \in Groups, NEW s, NEW answered \in SUBSET Trips,
         Becomes(g, s, answered), UNCHANGED <<inbox, drawn>>,
         \A j \in answered : /\ trip[j].kind \in Taps
                             /\ trip[j].group = g
                             /\ s # "pending"
  PROVE  InboxInv'
<1>. USE DEF InboxInv
<1>1. member' = [member EXCEPT ![g] = s] /\ behind' = behind \cup {g}
  BY DEF Becomes
<1>2. \A h \in Groups \ {g} : member'[h] = member[h]
  BY <1>1 DEF InboxFields
<1>3. member'[g] = s
  BY <1>1 DEF InboxFields
<1>4. trip' = [j \in Trips |-> trip'[j]]
  BY DEF Becomes
<1>5. ASSUME NEW j \in Trips
      PROVE  /\ trip'[j].kind = trip[j].kind /\ trip'[j].group = trip[j].group
             /\ trip'[j].list = trip[j].list /\ TripFields(trip'[j])
             /\ AnswerIsRight(trip[j])' 
  <2>0. TripFields(trip[j]) /\ AnswerIsRight(trip[j])
    BY DEF InboxFields, AnswersAreRight
  <2>1. CASE j \in answered
    <3>1. trip'[j] = [trip[j] EXCEPT !.at = "ok", !.missed = {}]
      BY <2>1 DEF Becomes
    <3>2. /\ trip'[j] = [kind |-> trip[j].kind, group |-> trip[j].group, at |-> "ok",
                         list |-> trip[j].list, missed |-> {}]
      BY <3>1, <2>0 DEF TripFields
    <3>3. trip[j].kind \in Taps /\ trip[j].group = g /\ s # "pending"
      BY <2>1
    <3>. QED  BY <3>2, <3>3, <1>3 DEF TripFields, AnswerIsRight, Taps, Refreshes
  <2>2. CASE j \notin answered /\ Rests(j, g)
    <3>1. trip'[j] = [trip[j] EXCEPT !.missed = @ \cup {g}]
      BY <2>2 DEF Becomes
    <3>2. /\ trip'[j] = [kind |-> trip[j].kind, group |-> trip[j].group,
                         at |-> trip[j].at, list |-> trip[j].list,
                         missed |-> trip[j].missed \cup {g}]
      BY <3>1, <2>0 DEF TripFields
    <3>3. trip[j].kind \in Taps => trip[j].group = g
      BY <2>2 DEF Rests, Taps, Refreshes
    <3>. QED  BY <3>2, <3>3, <2>0, <1>2 DEF TripFields, AnswerIsRight
  <2>3. CASE j \notin answered /\ ~Rests(j, g)
    <3>1. trip'[j] = trip[j]
      BY <2>3 DEF Becomes
    <3>2. trip[j].at = "ok" => trip[j].kind \notin Refreshes /\ trip[j].group # g
      BY <2>3 DEF Rests
    <3>3. trip[j].kind \in Taps => trip[j].group \in Groups
      BY DEF InboxFields
    <3>. QED  BY <3>1, <3>2, <3>3, <2>0, <1>2 DEF AnswerIsRight
  <2>. QED  BY <2>1, <2>2, <2>3
<1>6. InboxFields'
  <2>1. member' = [h \in Groups |-> member'[h]]
    BY <1>1 DEF InboxFields
  <2>2. ASSUME NEW j \in Trips
        PROVE  /\ TripFields(trip'[j])
               /\ trip'[j].list \subseteq Groups
               /\ trip'[j].kind \in {"none"} \cup Refreshes \cup Taps
               /\ trip'[j].kind \in Taps => trip'[j].group \in Groups
    BY <1>5 DEF InboxFields
  <2>. QED  BY <1>4, <2>1, <2>2 DEF InboxFields, TripFields
<1>7. AnswersAreRight'
  BY <1>5 DEF AnswersAreRight
<1>8. InboxIsRight'
  BY <1>1, <1>2 DEF InboxIsRight
<1>9. IndicatorsEnd'
  BY <1>5 DEF IndicatorsEnd
<1>. QED  BY <1>6, <1>7, <1>8, <1>9

\* A request gets an answer that is right when it is given.
LEMMA Answers ==
  ASSUME InboxInv, NEW k \in Trips, NEW at, NEW list \in SUBSET Groups,
         Answer(k, at, list),
         at = "ok" =>
           /\ trip[k].kind \in Refreshes => list = Pending
           /\ trip[k].kind \in Taps => member[trip[k].group] # "pending"
  PROVE  InboxInv'
<1>. USE DEF InboxInv
<1>1. TripFields(trip[k])
  BY DEF InboxFields
<1>2. trip' = [trip EXCEPT ![k] = [kind |-> trip[k].kind, group |-> trip[k].group,
                                   at |-> at, list |-> list, missed |-> {}]]
  <2>1. PICK t : t = trip'[k]
    OBVIOUS
  <2>2. /\ trip' = [trip EXCEPT ![k] = t]
        /\ t = [[[trip[k] EXCEPT !.at = at] EXCEPT !.list = list] EXCEPT !.missed = {}]
    BY <2>1 DEF Answer, InboxFields
  <2>3. t = [kind |-> trip[k].kind, group |-> trip[k].group,
             at |-> at, list |-> list, missed |-> {}]
    BY <1>1, <2>2 DEF TripFields
  <2>. QED  BY <2>2, <2>3
<1>3. UNCHANGED <<member, inbox, drawn, behind>>
  BY DEF Answer
<1>4. \A j \in Trips : trip'[j].kind = trip[j].kind /\ trip'[j].group = trip[j].group
  BY <1>2 DEF InboxFields
<1>5. InboxFields'
  BY <1>2, <1>3 DEF InboxFields, TripFields
<1>6. AnswersAreRight'
  <2>. SUFFICES ASSUME NEW j \in Trips PROVE AnswerIsRight(trip[j])'
    BY DEF AnswersAreRight
  <2>1. CASE j = k
    BY <2>1, <1>2, <1>3 DEF AnswerIsRight, Pending, InboxFields
  <2>2. CASE j # k
    <3>1. trip'[j] = trip[j]
      BY <2>2, <1>2 DEF InboxFields
    <3>. QED  BY <3>1, <1>3 DEF AnswerIsRight, AnswersAreRight
  <2>. QED  BY <2>1, <2>2
<1>7. InboxIsRight'
  BY <1>3 DEF InboxIsRight
<1>8. IndicatorsEnd'
  BY <1>3, <1>4 DEF IndicatorsEnd
<1>. QED  BY <1>5, <1>6, <1>7, <1>8

\* A change of one field of the inbox.
LEMMA InboxChanges ==
  ASSUME NEW v, NEW x, v = [invites |-> v.invites, loading |-> v.loading,
                            refreshing |-> v.refreshing, busy |-> v.busy]
  PROVE  /\ [v EXCEPT !.invites = x] = [invites |-> x, loading |-> v.loading,
                                       refreshing |-> v.refreshing, busy |-> v.busy]
         /\ [v EXCEPT !.loading = x] = [invites |-> v.invites, loading |-> x,
                                       refreshing |-> v.refreshing, busy |-> v.busy]
         /\ [v EXCEPT !.refreshing = x] = [invites |-> v.invites, loading |-> v.loading,
                                          refreshing |-> x, busy |-> v.busy]
         /\ [v EXCEPT !.busy = x] = [invites |-> v.invites, loading |-> v.loading,
                                    refreshing |-> v.refreshing, busy |-> x]
  OBVIOUS

\* A request starts; what it switches on in the inbox ends with it.
LEMMA Starts ==
  ASSUME InboxInv, NEW k \in Trips, NEW kind \in Refreshes \cup Taps,
         NEW g \in Groups \cup {NoGroup}, kind \in Taps => g \in Groups,
         NEW loading, NEW refreshing, NEW busy,
         Start(k, kind, g, [invites |-> inbox.invites, loading |-> loading,
                            refreshing |-> refreshing, busy |-> busy]),
         loading = inbox.loading \/ kind = "full",
         refreshing = inbox.refreshing \/ kind = "silent",
         busy = inbox.busy \/ (kind \in Taps /\ busy = g)
  PROVE  InboxInv'
<1>. USE DEF InboxInv
<1>1. trip[k] = NoTrip /\ trip' = [trip EXCEPT ![k] = Trip(kind, g)]
  BY DEF Start, Idle
<1>2. /\ UNCHANGED <<member, drawn, behind>>
      /\ inbox' = [invites |-> inbox.invites, loading |-> loading,
                   refreshing |-> refreshing, busy |-> busy]
  BY DEF Start
<1>3. trip'[k] = Trip(kind, g) /\ \A j \in Trips \ {k} : trip'[j] = trip[j]
  BY <1>1 DEF InboxFields
<1>4. InboxFields'
  <2>1. trip' = [j \in Trips |-> trip'[j]]
    BY <1>1 DEF InboxFields
  <2>2. ASSUME NEW j \in Trips
        PROVE  /\ TripFields(trip'[j])
               /\ trip'[j].list \subseteq Groups
               /\ trip'[j].kind \in {"none"} \cup Refreshes \cup Taps
               /\ trip'[j].kind \in Taps => trip'[j].group \in Groups
    BY <1>3 DEF InboxFields, TripFields, Trip
  <2>. QED  BY <1>2, <2>1, <2>2 DEF InboxFields, TripFields
<1>5. AnswersAreRight'
  BY <1>2, <1>3 DEF AnswersAreRight, AnswerIsRight, Trip
<1>6. InboxIsRight'
  BY <1>2 DEF InboxIsRight
<1>7. IndicatorsEnd'
  <2>1. \A j \in Trips : trip[j].kind # "none" => trip'[j] = trip[j]
    BY <1>1, <1>3 DEF NoTrip, Trip
  <2>2. trip'[k].kind = kind /\ trip'[k].group = g
    BY <1>3 DEF Trip
  <2>. QED  BY <1>2, <2>1, <2>2 DEF IndicatorsEnd, Refreshes, Taps
<1>. QED  BY <1>4, <1>5, <1>6, <1>7

\* A request ends, with the list it leaves and what it switches off.
LEMMA TripEnds ==
  ASSUME InboxInv, NEW k \in Trips, trip[k].kind # "none",
         NEW invites \in SUBSET Groups, NEW missing, NEW ok,
         \A g \in Groups \ missing : g \in invites <=> member[g] = "pending",
         trip' = [trip EXCEPT ![k] = NoTrip], behind' = missing,
         inbox' = Calmed([invites |-> invites, loading |-> inbox.loading,
                          refreshing |-> inbox.refreshing, busy |-> inbox.busy],
                         trip[k].kind, ok),
         UNCHANGED <<member, drawn>>
  PROVE  InboxInv'
<1>. USE DEF InboxInv
<1>1. trip'[k] = NoTrip /\ \A j \in Trips \ {k} : trip'[j] = trip[j]
  BY DEF InboxFields
<1>2. trip[k].kind \in Refreshes \cup Taps
  BY DEF InboxFields
<1>3. \/ /\ trip[k].kind = "full"
         /\ inbox' = [invites |-> invites, loading |-> FALSE,
                      refreshing |-> FALSE, busy |-> inbox.busy]
      \/ /\ trip[k].kind = "silent"
         /\ inbox' = [invites |-> invites, loading |-> inbox.loading,
                      refreshing |-> FALSE, busy |-> inbox.busy]
      \/ /\ trip[k].kind \in Taps
         /\ inbox' = [invites |-> invites, loading |-> inbox.loading,
                      refreshing |-> inbox.refreshing, busy |-> NoGroup]
  BY <1>2 DEF Calmed, Refreshes, Taps
<1>4. InboxFields'
  <2>1. trip' = [j \in Trips |-> trip'[j]]
    BY DEF InboxFields
  <2>2. ASSUME NEW j \in Trips
        PROVE  /\ TripFields(trip'[j])
               /\ trip'[j].list \subseteq Groups
               /\ trip'[j].kind \in {"none"} \cup Refreshes \cup Taps
               /\ trip'[j].kind \in Taps => trip'[j].group \in Groups
    BY <1>1 DEF InboxFields, TripFields, NoTrip, Trip, Taps
  <2>. QED  BY <1>3, <2>1, <2>2 DEF InboxFields, TripFields
<1>5. AnswersAreRight'
  BY <1>1 DEF AnswersAreRight, AnswerIsRight, NoTrip, Trip
<1>6. InboxIsRight'
  BY <1>3 DEF InboxIsRight
<1>7. IndicatorsEnd'
  <2>1. inbox'.loading => inbox.loading /\ trip[k].kind # "full"
    BY <1>3 DEF Taps
  <2>2. inbox'.refreshing => inbox.refreshing /\ trip[k].kind # "silent"
    BY <1>3 DEF Taps
  <2>3. inbox'.busy # NoGroup =>
          \E j \in Trips : trip'[j].kind \in Taps /\ trip'[j].group = inbox'.busy
    BY <1>1, <1>3, InboxAssumption DEF IndicatorsEnd, Taps
  <2>. QED  BY <2>1, <2>2, <2>3, <1>1 DEF IndicatorsEnd
<1>. QED  BY <1>4, <1>5, <1>6, <1>7

LEMMA InboxInvNext == InboxInv /\ [InboxNext]_inboxVars => InboxInv'
<1>. SUFFICES ASSUME InboxInv, [InboxNext]_inboxVars PROVE InboxInv'
  OBVIOUS
<1>1. CASE Draw
  <2>1. /\ drawn' = [invites |-> inbox.invites, busy |-> inbox.busy]
        /\ UNCHANGED <<member, inbox, trip, behind>>
    BY <1>1 DEF Draw, OnScreen
  <2>. QED  BY <2>1 DEF InboxInv, InboxFields, TripFields, AnswersAreRight, AnswerIsRight,
                        InboxIsRight, IndicatorsEnd
<1>2. ASSUME NEW g \in Groups, ByOthers(g) PROVE InboxInv'
  <2>1. UNCHANGED <<inbox, drawn>> /\ \E s : Becomes(g, s, {})
    BY <1>2 DEF ByOthers, Invited, Removed
  <2>. QED  BY <2>1, RowChanges
<1>3. ASSUME NEW k \in Trips, ServeList(k) PROVE InboxInv'
  <2>1. trip[k].kind \in Refreshes /\ Answer(k, "ok", Pending)
    BY <1>3 DEF ServeList
  <2>2. Pending \subseteq Groups /\ trip[k].kind \notin Taps
    BY <2>1 DEF Pending, Refreshes, Taps
  <2>. QED  BY <2>1, <2>2, Answers
<1>4. ASSUME NEW k \in Trips, Find(k) PROVE InboxInv'
  <2>1. PICK at : at = Found(trip[k].kind, member[trip[k].group])
    OBVIOUS
  <2>2. trip[k].kind \in Taps /\ Answer(k, at, {})
    BY <1>4, <2>1 DEF Find
  <2>3. at = "ok" => member[trip[k].group] # "pending"
    BY <2>1, <2>2 DEF Found, Taps
  <2>4. trip[k].kind \notin Refreshes
    BY <2>2 DEF Taps, Refreshes
  <2>. QED  BY <2>2, <2>3, <2>4, Answers
<1>5. ASSUME NEW k \in Trips, Decide(k) PROVE InboxInv'
  <2>1. trip[k].kind \in Taps /\ trip[k].group \in Groups
    BY <1>5 DEF Decide, InboxInv, InboxFields
  <2>2. CASE member[trip[k].group] = "none"
    <3>1. Answer(k, "failed", {})
      BY <1>5, <2>2 DEF Decide
    <3>. QED  BY <3>1, Answers
  <2>3. CASE member[trip[k].group] # "none"
    <3>1. PICK s : s = After(trip[k].kind)
      OBVIOUS
    <3>2. Becomes(trip[k].group, s, {k}) /\ UNCHANGED <<inbox, drawn>>
      BY <1>5, <2>3, <3>1 DEF Decide
    <3>3. s # "pending"
      BY <3>1 DEF After
    <3>. QED  BY <2>1, <3>2, <3>3, RowChanges
  <2>. QED  BY <2>2, <2>3
<1>6. ASSUME NEW k \in Trips, Reload(k) PROVE InboxInv'
  <2>1. [inbox EXCEPT !.loading = TRUE] =
          [invites |-> inbox.invites, loading |-> TRUE,
           refreshing |-> inbox.refreshing, busy |-> inbox.busy]
    BY InboxChanges DEF InboxInv, InboxFields
  <2>. QED  BY <1>6, <2>1, Starts DEF Reload, Refreshes, Taps
<1>7. ASSUME NEW k \in Trips, PullRefresh(k) PROVE InboxInv'
  <2>1. [inbox EXCEPT !.refreshing = TRUE] =
          [invites |-> inbox.invites, loading |-> inbox.loading,
           refreshing |-> TRUE, busy |-> inbox.busy]
    BY InboxChanges DEF InboxInv, InboxFields
  <2>. QED  BY <1>7, <2>1, Starts DEF PullRefresh, Refreshes, Taps
<1>8. ASSUME NEW k \in Trips, NEW kind \in Taps, NEW g \in Groups, Tap(k, kind, g)
      PROVE  InboxInv'
  <2>1. [inbox EXCEPT !.busy = g] =
          [invites |-> inbox.invites, loading |-> inbox.loading,
           refreshing |-> inbox.refreshing, busy |-> g]
    BY InboxChanges DEF InboxInv, InboxFields
  <2>. QED  BY <1>8, <2>1, Starts DEF Tap
<1>9. ASSUME NEW k \in Trips, Arrive(k) PROVE InboxInv'
  <2>1. /\ trip[k].kind # "none" /\ trip[k].at = "ok"
        /\ trip' = [trip EXCEPT ![k] = NoTrip]
        /\ UNCHANGED <<member, drawn>>
    BY <1>9 DEF Arrive
  <2>2. PICK invites : invites = Listing(inbox.invites, trip[k])
    OBVIOUS
  <2>3. inbox' = Calmed([invites |-> invites, loading |-> inbox.loading,
                         refreshing |-> inbox.refreshing, busy |-> inbox.busy],
                        trip[k].kind, TRUE)
    <3>1. inbox' = Calmed([inbox EXCEPT !.invites = invites], trip[k].kind, TRUE)
      BY <1>9, <2>2 DEF Arrive
    <3>. QED  BY <3>1, InboxChanges DEF InboxInv, InboxFields
  <2>4. invites \in SUBSET Groups
    BY <2>2 DEF Listing, InboxInv, InboxFields
  <2>5. \A g \in Groups \ behind' : g \in invites <=> member[g] = "pending"
    <3>1. AnswerIsRight(trip[k]) /\ trip[k].kind \in Refreshes \cup Taps
      BY <2>1 DEF InboxInv, InboxFields, AnswersAreRight
    <3>2. CASE trip[k].kind \in Refreshes
      BY <1>9, <2>1, <2>2, <3>1, <3>2 DEF Arrive, Listing, AnswerIsRight
    <3>3. CASE trip[k].kind \in Taps
      <4>1. trip[k].kind \notin Refreshes
        BY <3>3 DEF Taps, Refreshes
      <4>2. trip[k].group \in trip[k].missed \/ member[trip[k].group] # "pending"
        BY <2>1, <3>1, <3>3 DEF AnswerIsRight
      <4>3. invites = inbox.invites \ {trip[k].group}
        BY <2>2, <4>1 DEF Listing
      <4>4. behind' = IF trip[k].group \in trip[k].missed
                      THEN behind \cup {trip[k].group} ELSE behind \ {trip[k].group}
        BY <1>9, <4>1 DEF Arrive
      <4>. QED  BY <4>2, <4>3, <4>4 DEF InboxInv, InboxIsRight
    <3>. QED  BY <3>1, <3>2, <3>3
  <2>. QED  BY <2>1, <2>3, <2>4, <2>5, TripEnds
<1>10. ASSUME NEW k \in Trips, Rejected(k) PROVE InboxInv'
  <2>1. /\ trip[k].kind # "none"
        /\ trip' = [trip EXCEPT ![k] = NoTrip]
        /\ UNCHANGED <<member, drawn, behind>>
    BY <1>10 DEF Rejected
  <2>2. inbox' = Calmed([invites |-> inbox.invites, loading |-> inbox.loading,
                         refreshing |-> inbox.refreshing, busy |-> inbox.busy],
                        trip[k].kind, FALSE)
    BY <1>10 DEF Rejected, InboxInv, InboxFields
  <2>3. /\ inbox.invites \in SUBSET Groups
        /\ \A g \in Groups \ behind : g \in inbox.invites <=> member[g] = "pending"
    BY DEF InboxInv, InboxFields, InboxIsRight
  <2>. QED  BY <2>1, <2>2, <2>3, TripEnds
<1>11. CASE UNCHANGED inboxVars
  BY <1>11 DEF inboxVars, InboxInv, InboxFields, TripFields, AnswersAreRight,
               AnswerIsRight, InboxIsRight, IndicatorsEnd
<1>. QED
  BY <1>1, <1>2, <1>3, <1>4, <1>5, <1>6, <1>7, <1>8, <1>9, <1>10, <1>11 DEF InboxNext

(***************************************************************************)
(* For any groups and any number of requests that overlap, are refused or  *)
(* get lost: the badge and the rows of the inbox show exactly the pending  *)
(* invitations, but for the groups whose row of group_members has changed  *)
(* since the read which decided whether they are in the list.              *)
(***************************************************************************)
THEOREM InboxAlwaysRight == InboxSpec => []InboxIsRight
<1>1. InboxInv => InboxIsRight
  BY DEF InboxInv
<1>. QED  BY InboxInvInit, InboxInvNext, <1>1, PTL DEF InboxSpec

(***************************************************************************)
(* And the inbox says that it loads, refreshes or waits for a tap on a row *)
(* only while a request which will switch that off is under way.           *)
(***************************************************************************)
THEOREM InboxIndicatorsEnd == InboxSpec => []IndicatorsEnd
<1>1. InboxInv => IndicatorsEnd
  BY DEF InboxInv
<1>. QED  BY InboxInvInit, InboxInvNext, <1>1, PTL DEF InboxSpec
=============================================================================
