------------------------------- MODULE Keyset -------------------------------
(***************************************************************************)
(* Keyset pagination, as GET .../comments and the expense feed do it: rows *)
(* are ordered by a time and then by id, a page is the first rows after a  *)
(* cursor, and the cursor of the next page names the last row of this one. *)
(* A row here is a record with the two fields of the order; an id is a     *)
(* number that stands for the rank of the uuid.                            *)
(***************************************************************************)
EXTENDS Integers, FiniteSets

Sorts == {"asc", "desc"}

Positions == [at : Nat, id : Nat]

(***************************************************************************)
(* orderBy: [createdAt, id], both ascending or both descending.            *)
(***************************************************************************)
Older(a, b) == a.at < b.at \/ (a.at = b.at /\ a.id < b.id)

Precedes(sort, a, b) == IF sort = "asc" THEN Older(a, b) ELSE Older(b, a)

\* The rows the condition of a cursor lets through; and what it would with
\* gte / lte on the id, which lists the cursor's row again, and without its
\* second case, which forgets rows of the same time.
Beyond_orSame(sort, c, rows) == {r \in rows : r = c \/ Precedes(sort, c, r)}

Beyond_noTie(sort, c, rows) == {r \in rows : Precedes(sort, c, r) /\ r.at # c.at}

Beyond(sort, c, rows) == {r \in rows : Precedes(sort, c, r)}

\* The first `limit` of the rows.
Page(sort, rows, limit) ==
  {r \in rows : Cardinality({s \in rows : Precedes(sort, s, r)}) < limit}

\* The rows of a page in their order: each comes after those that precede it.
RowsInOrder(sort, page) ==
  [i \in 1..Cardinality(page) |->
    CHOOSE r \in page : Cardinality({s \in page : Precedes(sort, s, r)}) = i - 1]

\* The row the next cursor is made of, and the rows it leaves.
LastRow(sort, page) ==
  CHOOSE r \in page : \A s \in page : s = r \/ Precedes(sort, s, r)
=============================================================================
