--------------------------- MODULE CommentThread ---------------------------
(***************************************************************************)
(* The comments of one expense: ExpenseCommentsService.createComment and   *)
(* listComments on the server, and the client hook that pages through them *)
(* (useExpenseCommentsInfinite), with the requests between the two.        *)
(*                                                                         *)
(* A comment is stamped with createdAt before its INSERT commits, so one   *)
(* comment can become visible after a younger one has been read.  Answers  *)
(* arrive in any order; nothing cancels a request.  React renders an       *)
(* answer before it handles the next event; but a second event may come    *)
(* before the render of the first one: loadMore then sees the state of the *)
(* last render ("seen"), and only the ref tailBusy is current.             *)
(*                                                                         *)
(* The member and expense checks of both handlers only refuse (FailFirst,  *)
(* FailMore, Abort).  The row of activity_logs that a comment adds after   *)
(* its INSERT is read nowhere here.                                        *)
(***************************************************************************)
EXTENDS Keyset, Sequences, SequencesExt

CONSTANTS
  Comments,     \* ids of the comments, numbers in the order of their uuids
  Root,         \* the comment whose replies the client may open
  MaxCalls,     \* bound on the requests in flight at once
  Screens,      \* the scopes the screens open, as [parent, sort]
  Limit,        \* rows of a page
  MaxClock,     \* bound on the clock
  NoParent, NoCursor, NoPage

ASSUME PagingAssumption ==
  /\ Comments \subseteq Nat /\ IsFiniteSet(Comments)
  /\ Root \in Comments
  /\ MaxCalls \in Nat \ {0}
  /\ Limit \in Nat \ {0}
  /\ MaxClock \in Nat
ASSUME ScreensAssumption == Screens \subseteq [parent : {NoParent, Root}, sort : Sorts]

Parents == {NoParent, Root}
Cursors == [at : Nat, id : Comments, parent : Parents, sort : Sorts]
Pages == [items : Seq(Comments), cursor : Cursors \cup {NoCursor}]

ASSUME ThreadNullAssumption ==
  /\ NoParent \notin Comments
  /\ NoCursor \notin Cursors
  /\ NoPage \notin Pages

VARIABLES
  clock,        \* the database engine's clock
  thread,       \* comment -> [state, at, parent]
  scope,        \* the props of the hook: [parent, sort]
  view,         \* its React state: [items, cursor, loading, refreshing, loadingMore]
  seen,         \* what the callbacks of the last render closed over
  tailBusy,     \* tailBusyRef.current
  call,         \* request -> what was asked, and the answer once it was read
  base,         \* history: the comments in the table when the first page was read
  torn          \* history: an answer got into a list it was not asked for

server == <<clock, thread>>
client == <<scope, view, seen, tailBusy, call, base, torn>>
vars == <<clock, thread, scope, view, seen, tailBusy, call, base, torn>>

Calls == 1..MaxCalls
NoScope == [parent |-> NoParent, sort |-> "none"]
States == {"none", "pending", "stored"}

TypeOK ==
  /\ clock \in 0..MaxClock
  /\ thread \in [Comments -> [state : States, at : Nat, parent : Parents]]
  /\ scope \in Screens
  /\ view \in [items : Seq(Comments), cursor : Cursors \cup {NoCursor},
               loading : BOOLEAN, refreshing : BOOLEAN, loadingMore : BOOLEAN]
  /\ seen \in [cursor : Cursors \cup {NoCursor}, loading : BOOLEAN,
               refreshing : BOOLEAN, loadingMore : BOOLEAN]
  /\ tailBusy \in BOOLEAN
  /\ call \in [Calls -> [kind : {"none", "first", "more"}, scope : Screens \cup {NoScope},
                         cursor : Cursors \cup {NoCursor}, page : Pages \cup {NoPage},
                         ok : BOOLEAN, table : SUBSET Comments, orphan : BOOLEAN]]
  /\ base \subseteq Comments
  /\ torn \in BOOLEAN

-----------------------------------------------------------------------------
(* The server. *)

InTable == {c \in Comments : thread[c].state = "stored"}

Position(c) == [at |-> thread[c].at, id |-> c]

\* A parent must be a comment in the table that is not a reply itself.
MayReplyTo(p) == p = NoParent \/ (p \in InTable /\ thread[p].parent = NoParent)

\* createComment after its checks: the engine stamps createdAt.
Post(c, p) ==
  /\ thread[c].state = "none"
  /\ MayReplyTo(p)
  /\ thread' = [thread EXCEPT ![c] =
                  [state |-> "pending", at |-> clock, parent |-> p]]
  /\ UNCHANGED <<clock, client>>

\* The INSERT commits, or fails.
Commit(c) ==
  /\ thread[c].state = "pending"
  /\ thread' = [thread EXCEPT ![c].state = "stored"]
  /\ UNCHANGED <<clock, client>>

Abort(c) ==
  /\ thread[c].state = "pending"
  /\ thread' = [thread EXCEPT ![c].state = "none"]
  /\ UNCHANGED <<clock, client>>

Tick ==
  /\ clock < MaxClock
  /\ clock' = clock + 1
  /\ UNCHANGED <<thread, client>>

(***************************************************************************)
(* listComments: the rows of the scope beyond the cursor, one more than    *)
(* the limit, and a cursor if that one came.                               *)
(***************************************************************************)
InScope(s) == {c \in InTable : thread[c].parent = s.parent}

Rows(s, cursor) ==
  LET rows == {Position(c) : c \in InScope(s)}
  IN  IF cursor = NoCursor THEN rows
      ELSE Beyond(s.sort, [at |-> cursor.at, id |-> cursor.id], rows)

NextCursor(s, rows, page) ==
  IF rows = page THEN NoCursor
  ELSE LET last == LastRow(s.sort, page)
       IN  [at |-> last.at, id |-> last.id, parent |-> s.parent, sort |-> s.sort]

\* decodeExpenseCommentCursor without its checks of scope and sort.
Decodes_any(s, cursor) == TRUE

Decodes(s, cursor) ==
  \/ cursor = NoCursor
  \/ cursor.parent = s.parent /\ cursor.sort = s.sort

Listed(s, cursor) ==
  LET rows == Rows(s, cursor)
      page == Page(s.sort, rows, Limit)
  IN  [items |-> [i \in 1..Cardinality(page) |-> RowsInOrder(s.sort, page)[i].id],
       cursor |-> NextCursor(s, rows, page)]

Refusal == [items |-> <<>>, cursor |-> NoCursor]

\* The server reads the table for request k.
Serve(k) ==
  /\ call[k].kind # "none"
  /\ call[k].page = NoPage
  /\ LET ok == Decodes(call[k].scope, call[k].cursor)
     IN  call' = [call EXCEPT
           ![k].page  = IF ok THEN Listed(call[k].scope, call[k].cursor) ELSE Refusal,
           ![k].ok    = ok,
           ![k].table = InTable]
  /\ UNCHANGED <<server, scope, view, seen, tailBusy, base, torn>>

-----------------------------------------------------------------------------
(* The client. *)

Request(kind, s, cursor) ==
  [kind |-> kind, scope |-> s, cursor |-> cursor, page |-> NoPage,
   ok |-> FALSE, table |-> {}, orphan |-> FALSE]

NoRequest == Request("none", NoScope, NoCursor)

\* A request takes the first number that is free.
Free(k) == call[k] = NoRequest /\ \A j \in Calls : j < k => call[j] # NoRequest

Seen(v) == [cursor |-> v.cursor, loading |-> v.loading,
            refreshing |-> v.refreshing, loadingMore |-> v.loadingMore]

(***************************************************************************)
(* fetchFirstPage, by the effect of a change of props or by refresh().     *)
(***************************************************************************)
StartFirst(k, s, v) ==
  /\ Free(k)
  /\ view' = v
  /\ tailBusy' = TRUE
  /\ call' = [call EXCEPT ![k] = Request("first", s, NoCursor)]
  /\ UNCHANGED <<server, base>>

ChangeScope(k, s) ==
  /\ s # scope
  /\ scope' = s
  /\ StartFirst(k, s, [view EXCEPT !.loading = TRUE])
  /\ seen' = Seen(view)
  /\ torn' = TRUE

Refresh(k) ==
  /\ StartFirst(k, scope, [view EXCEPT !.refreshing = TRUE])
  /\ UNCHANGED <<scope, seen, torn>>

\* loadMore, with the state of the last render and the ref of now.
LoadMore(k) ==
  /\ Free(k)
  /\ ~seen.loading /\ ~seen.refreshing /\ ~seen.loadingMore
  /\ seen.cursor # NoCursor
  /\ ~tailBusy
  /\ tailBusy' = TRUE
  /\ view' = [view EXCEPT !.loadingMore = TRUE]
  /\ call' = [call EXCEPT ![k] = Request("more", scope, seen.cursor)]
  /\ UNCHANGED <<server, scope, seen, base, torn>>

Render ==
  /\ seen # Seen(view)
  /\ seen' = Seen(view)
  /\ UNCHANGED <<server, scope, view, tailBusy, call, base, torn>>

\* The finally blocks; and one that frees the tail only on success.
Settled(v, kind) ==
  IF kind = "first" THEN [v EXCEPT !.loading = FALSE, !.refreshing = FALSE]
  ELSE [v EXCEPT !.loadingMore = FALSE]

StillBusy_onError(ok) == ~ok

StillBusy(ok) == FALSE

Finish(k, v, ok) ==
  /\ view' = Settled(v, call[k].kind)
  /\ tailBusy' = StillBusy(ok)
  /\ seen' = Seen(view')
  /\ UNCHANGED <<server, scope>>

\* The next pages under way were asked for the list that is replaced.
Replaced(k) ==
  call' = [j \in Calls |->
             IF j = k \/ call[j] = NoRequest THEN NoRequest
             ELSE [call[j] EXCEPT !.orphan = (call[j].kind = "more")]]

Replace(k) ==
  /\ call[k].kind = "first"
  /\ call[k].page # NoPage
  /\ seen = Seen(view)
  /\ Finish(k, [view EXCEPT !.items = call[k].page.items,
                            !.cursor = call[k].page.cursor], TRUE)
  /\ Replaced(k)
  /\ base' = call[k].table
  /\ torn' = (call[k].scope # scope)

AppendPage(k) ==
  /\ call[k].kind = "more"
  /\ call[k].page # NoPage
  /\ call[k].ok
  /\ seen = Seen(view)
  /\ Finish(k, [view EXCEPT !.items = @ \o call[k].page.items,
                            !.cursor = call[k].page.cursor], TRUE)
  /\ call' = [call EXCEPT ![k] = NoRequest]
  /\ torn' = (torn \/ call[k].orphan)
  /\ UNCHANGED base

(***************************************************************************)
(* A request fails: on the way, at a check of the server, or because its   *)
(* cursor is of another scope.  The first page clears the list.            *)
(***************************************************************************)
FailFirst(k) ==
  /\ call[k].kind = "first"
  /\ seen = Seen(view)
  /\ Finish(k, [view EXCEPT !.items = <<>>, !.cursor = NoCursor], FALSE)
  /\ Replaced(k)
  /\ base' = {}
  /\ torn' = FALSE

FailMore(k) ==
  /\ call[k].kind = "more"
  /\ seen = Seen(view)
  /\ Finish(k, view, FALSE)
  /\ call' = [call EXCEPT ![k] = NoRequest]
  /\ UNCHANGED <<base, torn>>

-----------------------------------------------------------------------------
\* The table holds any thread; the hook is mounted and its effect has run.
Init ==
  /\ clock = 0
  /\ thread \in [Comments -> [state : {"none", "stored"}, at : {0}, parent : Parents]]
  /\ \A c \in Comments : thread[c].state = "none" => thread[c].parent = NoParent
  /\ thread[Root] = [state |-> "stored", at |-> 0, parent |-> NoParent]
  /\ scope \in Screens
  /\ view = [items |-> <<>>, cursor |-> NoCursor,
             loading |-> TRUE, refreshing |-> FALSE, loadingMore |-> FALSE]
  /\ seen = Seen(view)
  /\ tailBusy = TRUE
  /\ call = [k \in Calls |-> IF k = 1 THEN Request("first", scope, NoCursor) ELSE NoRequest]
  /\ base = {}
  /\ torn = FALSE

Ends(k) == Replace(k) \/ AppendPage(k) \/ FailFirst(k) \/ FailMore(k)

Next ==
  \/ Tick
  \/ Render
  \/ \E c \in Comments : Commit(c) \/ Abort(c)
  \/ \E c \in Comments, p \in Parents : Post(c, p)
  \/ \E k \in Calls : Refresh(k) \/ LoadMore(k) \/ Serve(k) \/ Ends(k)
  \/ \E k \in Calls, s \in Screens : ChangeScope(k, s)

Spec == Init /\ [][Next]_vars

-----------------------------------------------------------------------------
(***************************************************************************)
(* Properties.                                                             *)
(***************************************************************************)
Shown == ToSet(view.items)

(***************************************************************************)
(* No comment is listed twice (its id is the key of its row on the screen) *)
(* and the list is in its order, also when comments become visible late    *)
(* and when refreshes overlap with each other and with a next page, unless *)
(* an answer got into a list it was not asked for.                         *)
(***************************************************************************)
InOrder ==
  ~torn =>
    \A i, j \in 1..Len(view.items) :
      i < j => Precedes(scope.sort, Position(view.items[i]), Position(view.items[j]))

(***************************************************************************)
(* And every comment that was in the table when the first page was read,   *)
(* and that the cursor has passed, is in the list: comments of one moment, *)
(* and comments that become visible late, push none off a page boundary.   *)
(***************************************************************************)
NothingSkipped ==
  ~torn =>
    \A c \in base :
      /\ thread[c].parent = scope.parent
      /\ view.cursor = NoCursor
           \/ ~Precedes(scope.sort, [at |-> view.cursor.at, id |-> view.cursor.id],
                        Position(c))
      => c \in Shown

(***************************************************************************)
(* The list never locks up: whatever overlaps or fails, the guard on tail  *)
(* requests and the indicators on the screen are on only while a request   *)
(* that will switch them off is under way.                                 *)
(***************************************************************************)
UnderWay(kind) == \E k \in Calls : call[k].kind = kind

NeverStuck ==
  /\ tailBusy => UnderWay("first") \/ UnderWay("more")
  /\ view.loading \/ view.refreshing => UnderWay("first")
  /\ view.loadingMore => UnderWay("more")

(***************************************************************************)
(* The hook's comment says of a change of scope: reset list + load page 1. *)
(* An answer for the old scope that arrives later is shown all the same.   *)
(***************************************************************************)
ListIsOfItsScope ==
  ~view.loading => \A c \in Shown : thread[c].parent = scope.parent
=============================================================================
