------------------------- MODULE ContactSync_proofs -------------------------
(***************************************************************************)
(* The stored contacts are whole uploads without a duplicate, and a sync   *)
(* that no other one overlapped with replaces the snapshot, for any number *)
(* of requests and any uploads.                                            *)
(*                                                                         *)
(* The argument: the rows of one request come and go together.  They come  *)
(* when it commits; a transaction that saw one of them saw all of them,    *)
(* and the locks give a row to one deleting transaction, and a phone to    *)
(* one inserting transaction, at a time.                                   *)
(***************************************************************************)
EXTENDS ContactSync, FiniteSetTheorems, TLAPS

SyncShape(x) ==
  x = [stage |-> x.stage, upload |-> x.upload, seen |-> x.seen, deletes |-> x.deletes,
       inserts |-> x.inserts, unregistered |-> x.unregistered,
       registered |-> x.registered, shared |-> x.shared]

Shapes ==
  /\ rows \subseteq Rows
  /\ sync = [s \in Syncs |-> sync[s]]
  /\ alone = [s \in Syncs |-> alone[s]]
  /\ \A s \in Syncs : /\ SyncShape(sync[s])
                      /\ sync[s].stage \in Stages
                      /\ sync[s].upload \in Uploads \cup {<<>>}

By(rs, s) == {r \in rs : r.by = s}

\* The rows that s stores; once it has committed they are there or have gone, all.
RowsOf(s) == {[phone |-> p, by |-> s] : p \in Uploaded(s)}

Committed(s) == sync[s].stage \in {"matching", "comparing", "filtering", "answered"}

WholeIn(rs) ==
  \A s \in Syncs : By(rs, s) = {} \/ (Committed(s) /\ By(rs, s) = RowsOf(s))

Whole ==
  /\ WholeIn(rows)
  /\ \A t \in Syncs : WholeIn(sync[t].seen) /\ WholeIn(sync[t].deletes)

\* What a transaction holds: rows that are still there, and its first phones.
FirstRows(s, n) == {[phone |-> sync[s].upload[i], by |-> s] : i \in 1..n}

HeldBy(s) ==
  /\ sync[s].stage \notin {"deleting", "inserting"} => sync[s].seen = {}
  /\ sync[s].stage # "inserting" => sync[s].deletes = {} /\ sync[s].inserts = {}
  /\ sync[s].deletes \subseteq rows
  /\ IsFiniteSet(sync[s].inserts)
  /\ \E n \in 0..Len(sync[s].upload) :
       /\ sync[s].inserts = FirstRows(s, n)
       /\ Cardinality(sync[s].inserts) = n

Held == \A s \in Syncs : HeldBy(s)

\* No row is deleted, and no phone inserted, by two of them.
Apart ==
  \A s, t \in Syncs : s # t =>
    /\ sync[s].deletes \cap sync[t].deletes = {}
    /\ PhonesOf(sync[s].inserts) \cap PhonesOf(sync[t].inserts) = {}

Unique ==
  /\ \A q, r \in rows : q.phone = r.phone => q = r
  /\ \A s \in Syncs : PhonesOf(sync[s].inserts) \cap PhonesOf(rows \ sync[s].deletes) = {}

\* Alone, a transaction deletes all there is.
AloneDeletesAll ==
  \A s \in Syncs : alone[s] /\ Open(s) =>
    /\ Others(s) = {}
    /\ sync[s].stage = "deleting" => sync[s].seen = rows
    /\ sync[s].stage = "inserting" => sync[s].deletes = rows

IInv == Shapes /\ Whole /\ Held /\ Apart /\ Unique /\ AloneDeletesAll

-----------------------------------------------------------------------------
\* An upload is a sequence of distinct phones.
LEMMA UploadsAreSequences ==
  ASSUME NEW u \in Uploads \cup {<<>>}
  PROVE  /\ u \in Seq(Phones)
         /\ \A i, j \in 1..Len(u) : u[i] = u[j] => i = j
<1>1. CASE u \in Uploads
  <2>1. u \in Seq(Phones) /\ IsInjective(u)
    BY <1>1, SyncAssumption
  <2>2. DOMAIN u = 1..Len(u)
    BY <2>1
  <2>. QED  BY <2>1, <2>2 DEF IsInjective
<1>2. CASE u = <<>>
  BY <1>2
<1>. QED  BY <1>1, <1>2

LEMMA IInvInit == Init => IInv
<1>. SUFFICES ASSUME Init PROVE IInv
  OBVIOUS
<1>1. PICK u \in Uploads \cup {<<>>} : rows = [phone : ToSet(u), by : {Before}]
  BY DEF Init
<1>2. u \in Seq(Phones)
  BY UploadsAreSequences
<1>3. ToSet(u) \subseteq Phones
  BY <1>2 DEF ToSet
<1>4. \A s \in Syncs : sync[s] = NoSync
  BY DEF Init
<1>5. Shapes
  BY <1>1, <1>3, <1>4 DEF Init, Shapes, SyncShape, NoSync, Rows, Stages
<1>6. \A s \in Syncs : s # Before
  BY SyncAssumption DEF Before
<1>7. Whole
  BY <1>1, <1>4, <1>6 DEF Whole, WholeIn, By, NoSync
<1>8. Held
  <2>. SUFFICES ASSUME NEW s \in Syncs PROVE HeldBy(s)
    BY DEF Held
  <2>1. sync[s].upload = <<>> /\ sync[s].inserts = {}
    BY <1>4 DEF NoSync
  <2>2. FirstRows(s, 0) = {}
    BY DEF FirstRows
  <2>3. 0 \in 0..Len(sync[s].upload)
    BY <2>1
  <2>. QED  BY <1>4, <2>1, <2>2, <2>3, FS_EmptySet DEF NoSync, HeldBy
<1>9. Apart
  BY <1>4 DEF Apart, NoSync, PhonesOf
<1>10. Unique
  BY <1>1, <1>4 DEF Unique, NoSync, PhonesOf
<1>11. AloneDeletesAll
  BY <1>4 DEF AloneDeletesAll, Open, NoSync
<1>. QED  BY <1>5, <1>7, <1>8, <1>9, <1>10, <1>11 DEF IInv

\* A set of rows stays whole while those that committed stay as they are.
LEMMA WholeStays ==
  ASSUME NEW rs, WholeIn(rs),
         \A t \in Syncs : Committed(t) => Committed(t)' /\ RowsOf(t)' = RowsOf(t)
  PROVE  WholeIn(rs)'
  BY DEF WholeIn, By

LEMMA UploadIsSeq ==
  ASSUME Shapes, NEW s \in Syncs
  PROVE  /\ sync[s].upload \in Seq(Phones)
         /\ Len(sync[s].upload) \in Nat
         /\ DOMAIN sync[s].upload = 1..Len(sync[s].upload)
         /\ \A i, j \in 1..Len(sync[s].upload) :
              sync[s].upload[i] = sync[s].upload[j] => i = j
<1>1. PICK u : u = sync[s].upload
  OBVIOUS
<1>2. u \in Uploads \cup {<<>>}
  BY <1>1 DEF Shapes
<1>3. /\ u \in Seq(Phones)
      /\ \A i, j \in 1..Len(u) : u[i] = u[j] => i = j
  BY <1>2, UploadsAreSequences
<1>4. Len(u) \in Nat /\ DOMAIN u = 1..Len(u)
  BY <1>3
<1>. QED  BY <1>1, <1>3, <1>4

\* A step of one request leaves the others alone.
LEMMA OneChanges ==
  ASSUME Shapes, NEW s \in Syncs, NEW x, SyncShape(x), x.stage \in Stages,
         x.upload \in Uploads \cup {<<>>}, sync' = [sync EXCEPT ![s] = x],
         rows' \subseteq Rows, alone' = [t \in Syncs |-> alone'[t]]
  PROVE  Shapes' /\ sync'[s] = x /\ \A t \in Syncs \ {s} : sync'[t] = sync[t]
  BY DEF Shapes, SyncShape

\* While nothing commits, what a snapshot sees and a transaction deletes is whole.
LEMMA WholeKept ==
  ASSUME Whole, UNCHANGED rows,
         \A t \in Syncs : Committed(t) => Committed(t)' /\ RowsOf(t)' = RowsOf(t),
         \A t \in Syncs :
           /\ sync'[t].seen \in {sync[t].seen, rows, {}}
           /\ sync'[t].deletes \in {sync[t].deletes, sync[t].seen \cap rows, {}}
  PROVE  Whole'
<1>1. ASSUME NEW t \in Syncs PROVE (WholeIn(sync[t].seen) /\ WholeIn(sync[t].deletes))'
  <2>1. PICK q, r : q = sync'[t].seen /\ r = sync'[t].deletes
    OBVIOUS
  <2>2. WholeIn(q)
    BY <2>1 DEF Whole, WholeIn, By
  <2>3. WholeIn(r)
    <3>1. WholeIn(sync[t].seen \cap rows)
      BY DEF Whole, WholeIn, By
    <3>2. WholeIn({})
      BY DEF WholeIn, By
    <3>. QED  BY <2>1, <3>1, <3>2 DEF Whole
  <2>4. WholeIn(q)' /\ WholeIn(r)'
    BY <2>2, <2>3, WholeStays
  <2>. QED  BY <2>1, <2>4
<1>2. WholeIn(rows)'
  <2>1. PICK r : r = rows
    OBVIOUS
  <2>2. WholeIn(r)'
    BY <2>1, WholeStays DEF Whole
  <2>. QED  BY <2>1, <2>2
<1>. QED  BY <1>1, <1>2 DEF Whole

\* What a transaction holds, while others step and leave its rows there.
LEMMA HeldElsewhere ==
  ASSUME NEW t \in Syncs, HeldBy(t), sync'[t] = sync[t], sync[t].deletes \subseteq rows'
  PROVE  HeldBy(t)'
<1>1. \A n : FirstRows(t, n)' = FirstRows(t, n)
  BY DEF FirstRows
<1>. QED  BY <1>1 DEF HeldBy

\* A request that has nothing in its hands.
LEMMA HoldsNothing ==
  ASSUME NEW t \in Syncs, NEW u \in Uploads \cup {<<>>}, sync'[t].upload = u,
         sync'[t].seen = {}, sync'[t].deletes = {}, sync'[t].inserts = {}
  PROVE  HeldBy(t)'
<1>1. 0 \in 0..Len(u)
  BY UploadsAreSequences
<1>2. FirstRows(t, 0)' = {}
  BY DEF FirstRows
<1>. QED  BY <1>1, <1>2, FS_EmptySet DEF HeldBy

LEMMA BeginKeeps ==
  ASSUME IInv, NEW s \in Syncs, NEW u \in Uploads, Begin(s, u)
  PROVE  IInv'
<1>. USE DEF IInv
<1>1. PICK w, x : w = sync[s] /\ x = [w EXCEPT !.stage = "begun", !.upload = u]
  OBVIOUS
<1>2. SyncShape(w) /\ w.stage = "none"
  BY <1>1 DEF Begin, Shapes
<1>3. x = [stage |-> "begun", upload |-> u, seen |-> w.seen, deletes |-> w.deletes,
           inserts |-> w.inserts, unregistered |-> w.unregistered,
           registered |-> w.registered, shared |-> w.shared]
  BY ONLY <1>1, <1>2 DEF SyncShape
<1>4. sync' = [sync EXCEPT ![s] = x] /\ UNCHANGED rows
  BY <1>1 DEF Begin, Shapes
<1>5. /\ alone' = [t \in Syncs |-> alone'[t]]
      /\ \A t \in Syncs : alone'[t] => IF t = s THEN Others(s) = {} ELSE alone[t] /\ ~Open(t)
  BY DEF Begin
<1>6. Shapes' /\ sync'[s] = x /\ \A t \in Syncs \ {s} : sync'[t] = sync[t]
  <2>1. SyncShape(x) /\ x.stage \in Stages /\ x.upload \in Uploads \cup {<<>>}
    BY <1>3 DEF SyncShape, Stages
  <2>2. rows' \subseteq Rows
    BY <1>4 DEF Shapes
  <2>. QED  BY <1>4, <1>5, <2>1, <2>2, OneChanges
<1>7. w.seen = {} /\ w.deletes = {} /\ w.inserts = {}
  BY <1>1, <1>2 DEF Held, HeldBy
<1>8. \A t \in Syncs : /\ sync'[t].seen = sync[t].seen
                         /\ sync'[t].deletes = sync[t].deletes
                         /\ sync'[t].inserts = sync[t].inserts
  <2>1. /\ sync'[s].seen = sync[s].seen /\ sync'[s].deletes = sync[s].deletes
        /\ sync'[s].inserts = sync[s].inserts
    BY <1>1, <1>3, <1>6
  <2>. QED  BY <1>6, <2>1
<1>9. Whole'
  <2>1. \A t \in Syncs : Committed(t) => Committed(t)' /\ RowsOf(t)' = RowsOf(t)
    BY <1>1, <1>2, <1>6 DEF Committed, RowsOf, Uploaded
  <2>. QED  BY <1>4, <1>8, <2>1, WholeKept
<1>10. Held'
  <2>1. HeldBy(s)'
    BY <1>3, <1>6, <1>7, HoldsNothing
  <2>2. \A t \in Syncs \ {s} : HeldBy(t)'
    BY <1>4, <1>6, HeldElsewhere DEF Held, HeldBy
  <2>. QED  BY <2>1, <2>2 DEF Held
<1>11. Apart'
  BY <1>8 DEF Apart
<1>12. Unique'
  BY <1>4, <1>8 DEF Unique
<1>13. AloneDeletesAll'
  <2>. SUFFICES ASSUME NEW t \in Syncs, alone'[t], Open(t)'
                PROVE  (/\ Others(t) = {}
                        /\ sync[t].stage = "deleting" => sync[t].seen = rows
                        /\ sync[t].stage = "inserting" => sync[t].deletes = rows)'
    BY DEF AloneDeletesAll
  <2>1. t = s
    BY <1>5, <1>6 DEF Open
  <2>2. Others(s)' = Others(s)
    BY <1>6 DEF Others, Open
  <2>. QED  BY <1>3, <1>5, <1>6, <2>1, <2>2
<1>. QED  BY <1>6, <1>9, <1>10, <1>11, <1>12, <1>13

\* A step that changes no hands: what s has deleted and inserted stays.
LEMMA AnswerKeeps ==
  ASSUME IInv, NEW s \in Syncs, NEW x, SyncShape(x), x.stage \in Stages,
         Committed(s), x.stage \in {"comparing", "filtering", "answered"},
         x.upload = sync[s].upload, x.seen = sync[s].seen,
         x.deletes = sync[s].deletes, x.inserts = sync[s].inserts,
         sync' = [sync EXCEPT ![s] = x], UNCHANGED <<rows, alone>>
  PROVE  IInv'
<1>. USE DEF IInv
<1>1. Shapes' /\ sync'[s] = x /\ \A t \in Syncs \ {s} : sync'[t] = sync[t]
  <2>1. x.upload \in Uploads \cup {<<>>} /\ rows' \subseteq Rows
        /\ alone' = [t \in Syncs |-> alone'[t]]
    BY DEF Shapes
  <2>. QED  BY <2>1, OneChanges
<1>2. \A t \in Syncs : /\ sync'[t].seen = sync[t].seen
                       /\ sync'[t].deletes = sync[t].deletes
                       /\ sync'[t].inserts = sync[t].inserts
                       /\ sync'[t].upload = sync[t].upload
                       /\ Committed(t)' <=> Committed(t)
                       /\ sync'[t].stage = sync[t].stage \/ (Committed(t) /\ Committed(t)')
  BY <1>1 DEF Committed
<1>3. Whole'
  <2>1. \A t \in Syncs : Committed(t) => Committed(t)' /\ RowsOf(t)' = RowsOf(t)
    BY <1>2 DEF RowsOf, Uploaded
  <2>. QED  BY <1>2, <2>1, WholeKept
<1>4. Held'
  <2>1. sync[s].seen = {} /\ sync[s].deletes = {} /\ sync[s].inserts = {}
        /\ sync[s].upload \in Uploads \cup {<<>>}
    BY DEF Held, HeldBy, Committed, Shapes
  <2>2. HeldBy(s)'
    BY <1>1, <2>1, HoldsNothing
  <2>3. \A t \in Syncs \ {s} : HeldBy(t)'
    BY <1>1, HeldElsewhere DEF Held, HeldBy
  <2>. QED  BY <2>2, <2>3 DEF Held
<1>5. Apart'
  BY <1>2 DEF Apart
<1>6. Unique'
  BY <1>2 DEF Unique
<1>7. AloneDeletesAll'
  <2>1. \A t \in Syncs : Open(t)' <=> Open(t)
    BY <1>2 DEF Open, Committed
  <2>2. \A t \in Syncs : Others(t)' = Others(t)
    BY <2>1 DEF Others
  <2>. QED  BY <1>2, <2>1, <2>2 DEF AloneDeletesAll, Committed
<1>. QED  BY <1>1, <1>3, <1>4, <1>5, <1>6, <1>7

LEMMA DeleteSeesKeeps ==
  ASSUME IInv, NEW s \in Syncs, DeleteSees(s)
  PROVE  IInv'
<1>. USE DEF IInv
<1>1. PICK w, x : w = sync[s] /\ x = [w EXCEPT !.stage = "deleting", !.seen = rows]
  OBVIOUS
<1>2. SyncShape(w) /\ w.stage = "begun"
  BY <1>1 DEF DeleteSees, Shapes
<1>3. x = [stage |-> "deleting", upload |-> w.upload, seen |-> rows, deletes |-> w.deletes,
           inserts |-> w.inserts, unregistered |-> w.unregistered,
           registered |-> w.registered, shared |-> w.shared]
  BY ONLY <1>1, <1>2 DEF SyncShape
<1>4. sync' = [sync EXCEPT ![s] = x] /\ UNCHANGED <<rows, alone>>
  BY <1>1 DEF DeleteSees, ToDelete, Shapes
<1>5. Shapes' /\ sync'[s] = x /\ \A t \in Syncs \ {s} : sync'[t] = sync[t]
  <2>1. SyncShape(x) /\ x.stage \in Stages /\ x.upload \in Uploads \cup {<<>>}
    BY <1>1, <1>3 DEF SyncShape, Stages, Shapes
  <2>2. rows' \subseteq Rows /\ alone' = [t \in Syncs |-> alone'[t]]
    BY <1>4 DEF Shapes
  <2>. QED  BY <1>4, <2>1, <2>2, OneChanges
<1>6. \A t \in Syncs : /\ sync'[t].deletes = sync[t].deletes
                       /\ sync'[t].inserts = sync[t].inserts
                       /\ sync'[t].upload = sync[t].upload
                       /\ sync'[t].seen \in {sync[t].seen, rows}
                       /\ Committed(t)' <=> Committed(t)
                       /\ Open(t)' <=> Open(t)
  <2>1. /\ sync'[s].deletes = sync[s].deletes /\ sync'[s].inserts = sync[s].inserts
        /\ sync'[s].upload = sync[s].upload /\ sync'[s].seen = rows
        /\ ~Committed(s)' /\ ~Committed(s) /\ Open(s) /\ Open(s)'
    BY <1>1, <1>2, <1>3, <1>5 DEF Committed, Open
  <2>. QED  BY <1>5, <2>1 DEF Committed, Open
<1>7. Whole'
  <2>1. \A t \in Syncs : Committed(t) => Committed(t)' /\ RowsOf(t)' = RowsOf(t)
    BY <1>6 DEF RowsOf, Uploaded
  <2>. QED  BY <1>4, <1>6, <2>1, WholeKept
<1>8. Held'
  <2>1. sync[s].deletes = {} /\ sync[s].inserts = {}
    BY <1>1, <1>2 DEF Held, HeldBy
  <2>2. HeldBy(s)'
    <3>1. \A n : FirstRows(s, n)' = FirstRows(s, n)
      BY <1>6 DEF FirstRows
    <3>. QED  BY <1>3, <1>5, <1>6, <2>1, <3>1 DEF Held, HeldBy
  <2>3. \A t \in Syncs \ {s} : HeldBy(t)'
    BY <1>4, <1>5, HeldElsewhere DEF Held, HeldBy
  <2>. QED  BY <2>2, <2>3 DEF Held
<1>9. Apart'
  BY <1>6 DEF Apart
<1>10. Unique'
  BY <1>4, <1>6 DEF Unique
<1>11. AloneDeletesAll'
  <2>1. \A t \in Syncs : Others(t)' = Others(t)
    BY <1>6 DEF Others
  <2>. QED  BY <1>3, <1>4, <1>5, <1>6, <2>1 DEF AloneDeletesAll
<1>. QED  BY <1>5, <1>7, <1>8, <1>9, <1>10, <1>11

LEMMA DeleteKeeps ==
  ASSUME IInv, NEW s \in Syncs, Delete(s)
  PROVE  IInv'
<1>. USE DEF IInv
<1>1. PICK w, x : /\ w = sync[s]
                  /\ x = [w EXCEPT !.stage = "inserting", !.deletes = w.seen \cap rows]
  OBVIOUS
<1>2. SyncShape(w) /\ w.stage = "deleting"
  BY <1>1 DEF Delete, Shapes
<1>3. x = [stage |-> "inserting", upload |-> w.upload, seen |-> w.seen,
           deletes |-> w.seen \cap rows,
           inserts |-> w.inserts, unregistered |-> w.unregistered,
           registered |-> w.registered, shared |-> w.shared]
  BY ONLY <1>1, <1>2 DEF SyncShape
<1>4. sync' = [sync EXCEPT ![s] = x] /\ UNCHANGED <<rows, alone>>
  BY <1>1 DEF Delete, Shapes
<1>5. Shapes' /\ sync'[s] = x /\ \A t \in Syncs \ {s} : sync'[t] = sync[t]
  <2>1. SyncShape(x) /\ x.stage \in Stages /\ x.upload \in Uploads \cup {<<>>}
    BY <1>1, <1>3 DEF SyncShape, Stages, Shapes
  <2>2. rows' \subseteq Rows /\ alone' = [t \in Syncs |-> alone'[t]]
    BY <1>4 DEF Shapes
  <2>. QED  BY <1>4, <2>1, <2>2, OneChanges
<1>6. \A t \in Syncs : /\ sync'[t].seen = sync[t].seen
                       /\ sync'[t].inserts = sync[t].inserts
                       /\ sync'[t].upload = sync[t].upload
                       /\ sync'[t].deletes \in {sync[t].deletes, sync[t].seen \cap rows}
                       /\ Committed(t)' <=> Committed(t)
                       /\ Open(t)' <=> Open(t)
  <2>1. /\ sync'[s].seen = sync[s].seen /\ sync'[s].inserts = sync[s].inserts
        /\ sync'[s].upload = sync[s].upload /\ sync'[s].deletes = sync[s].seen \cap rows
        /\ ~Committed(s)' /\ ~Committed(s) /\ Open(s) /\ Open(s)'
    BY <1>1, <1>2, <1>3, <1>5 DEF Committed, Open
  <2>. QED  BY <1>5, <2>1 DEF Committed, Open
<1>7. Whole'
  <2>1. \A t \in Syncs : Committed(t) => Committed(t)' /\ RowsOf(t)' = RowsOf(t)
    BY <1>6 DEF RowsOf, Uploaded
  <2>. QED  BY <1>4, <1>6, <2>1, WholeKept
<1>8. sync[s].inserts = {}
  BY <1>1, <1>2 DEF Held, HeldBy
<1>9. Held'
  <2>1. HeldBy(s)'
    <3>1. \A n : FirstRows(s, n)' = FirstRows(s, n)
      BY <1>6 DEF FirstRows
    <3>2. sync'[s].deletes \subseteq rows'
      BY <1>3, <1>4, <1>5
    <3>. QED  BY <1>3, <1>5, <1>6, <3>1, <3>2 DEF Held, HeldBy
  <2>2. \A t \in Syncs \ {s} : HeldBy(t)'
    BY <1>4, <1>5, HeldElsewhere DEF Held, HeldBy
  <2>. QED  BY <2>1, <2>2 DEF Held
<1>10. Apart'
  <2>1. ASSUME NEW t \in Syncs \ {s}
        PROVE  sync'[s].deletes \cap sync'[t].deletes = {}
    <3>1. sync[t].deletes \cap sync[s].seen = {}
      <4>1. CASE Open(t)
        BY <4>1 DEF Delete, Others
      <4>2. CASE ~Open(t)
        BY <4>2 DEF Open, Held, HeldBy
      <4>. QED  BY <4>1, <4>2
    <3>. QED  BY <1>1, <1>3, <1>5, <3>1
  <2>. QED  BY <1>5, <1>6, <2>1 DEF Apart
<1>11. Unique'
  <2>1. ASSUME NEW t \in Syncs
        PROVE  PhonesOf(sync'[t].inserts) \cap PhonesOf(rows' \ sync'[t].deletes) = {}
    <3>1. CASE t = s
      BY <1>6, <1>8, <3>1 DEF PhonesOf
    <3>2. CASE t # s
      BY <1>4, <1>5, <3>2 DEF Unique
    <3>. QED  BY <3>1, <3>2
  <2>. QED  BY <1>4, <2>1 DEF Unique
<1>12. AloneDeletesAll'
  <2>1. \A t \in Syncs : Others(t)' = Others(t)
    BY <1>6 DEF Others
  <2>. QED  BY <1>1, <1>2, <1>3, <1>4, <1>5, <1>6, <2>1 DEF AloneDeletesAll
<1>. QED  BY <1>5, <1>7, <1>9, <1>10, <1>11, <1>12

LEMMA InsertKeeps ==
  ASSUME IInv, NEW s \in Syncs, Insert(s)
  PROVE  IInv'
<1>. USE DEF IInv
<1>1. PICK w, x, r : /\ w = sync[s]
                     /\ r = [phone |-> NextPhone(s), by |-> s]
                     /\ x = [w EXCEPT !.inserts = w.inserts \cup {r}]
  OBVIOUS
<1>2. SyncShape(w) /\ w.stage = "inserting"
  BY <1>1 DEF Insert, Inserting, Shapes
<1>3. x = [stage |-> w.stage, upload |-> w.upload, seen |-> w.seen,
           deletes |-> w.deletes, inserts |-> w.inserts \cup {r},
           unregistered |-> w.unregistered,
           registered |-> w.registered, shared |-> w.shared]
  BY ONLY <1>1, <1>2 DEF SyncShape
<1>4. sync' = [sync EXCEPT ![s] = x] /\ UNCHANGED <<rows, alone>>
  BY <1>1 DEF Insert, Shapes
<1>5. Shapes' /\ sync'[s] = x /\ \A t \in Syncs \ {s} : sync'[t] = sync[t]
  <2>1. SyncShape(x) /\ x.stage \in Stages /\ x.upload \in Uploads \cup {<<>>}
    BY <1>1, <1>3 DEF SyncShape, Stages, Shapes
  <2>2. rows' \subseteq Rows /\ alone' = [t \in Syncs |-> alone'[t]]
    BY <1>4 DEF Shapes
  <2>. QED  BY <1>4, <2>1, <2>2, OneChanges
<1>6. \A t \in Syncs : /\ sync'[t].seen = sync[t].seen
                       /\ sync'[t].deletes = sync[t].deletes
                       /\ sync'[t].upload = sync[t].upload
                       /\ sync'[t].stage = sync[t].stage
  <2>1. /\ sync'[s].seen = sync[s].seen /\ sync'[s].deletes = sync[s].deletes
        /\ sync'[s].upload = sync[s].upload /\ sync'[s].stage = sync[s].stage
    BY <1>1, <1>3, <1>5
  <2>. QED  BY <1>5, <2>1
<1>7. Whole'
  <2>1. \A t \in Syncs : Committed(t) => Committed(t)' /\ RowsOf(t)' = RowsOf(t)
    BY <1>6 DEF RowsOf, Uploaded, Committed
  <2>. QED  BY <1>4, <1>6, <2>1, WholeKept
<1>8. PICK n \in 0..Len(sync[s].upload) :
        /\ sync[s].inserts = FirstRows(s, n)
        /\ Cardinality(sync[s].inserts) = n
  BY DEF Held, HeldBy
<1>9. r = [phone |-> sync[s].upload[n + 1], by |-> s]
      /\ Len(sync[s].upload) \in Nat /\ n < Len(sync[s].upload)
  BY <1>1, <1>8, UploadIsSeq DEF NextPhone, Insert, Inserting
<1>10. HeldBy(s)'
  <2>1. sync'[s].inserts = sync[s].inserts \cup {r}
    BY <1>1, <1>3, <1>5
  <2>2. r \notin sync[s].inserts
    <3>. SUFFICES ASSUME NEW i \in 1..n, r = [phone |-> sync[s].upload[i], by |-> s]
                  PROVE  FALSE
      BY <1>8 DEF FirstRows
    <3>1. sync[s].upload[i] = sync[s].upload[n + 1]
      BY <1>9
    <3>2. i \in 1..Len(sync[s].upload) /\ n + 1 \in 1..Len(sync[s].upload) /\ i # n + 1
      BY <1>9
    <3>. QED  BY <3>1, <3>2, UploadIsSeq
  <2>3. IsFiniteSet(sync'[s].inserts) /\ Cardinality(sync'[s].inserts) = n + 1
    BY <1>8, <2>1, <2>2, FS_AddElement DEF Held, HeldBy
  <2>4. FirstRows(s, n + 1)' = FirstRows(s, n) \cup {r}
    <3>1. 1..(n + 1) = (1..n) \cup {n + 1}
      BY <1>9
    <3>. QED  BY <1>6, <1>9, <3>1 DEF FirstRows
  <2>5. n + 1 \in 0..Len(sync'[s].upload)
    BY <1>6, <1>9
  <2>. QED  BY <1>2, <1>1, <1>4, <1>6, <1>8, <2>1, <2>3, <2>4, <2>5 DEF Held, HeldBy
<1>11. Held'
  <2>1. \A t \in Syncs \ {s} : HeldBy(t)'
    BY <1>4, <1>5, HeldElsewhere DEF Held, HeldBy
  <2>. QED  BY <1>10, <2>1 DEF Held
<1>12. PhonesOf(sync'[s].inserts) = PhonesOf(sync[s].inserts) \cup {NextPhone(s)}
  BY <1>1, <1>3, <1>5 DEF PhonesOf
<1>13. Apart'
  <2>1. ASSUME NEW t \in Syncs \ {s}
        PROVE  NextPhone(s) \notin PhonesOf(sync[t].inserts)
    <3>1. CASE Open(t)
      BY <3>1 DEF Insert, Inserting, Others, PhonesOf
    <3>2. CASE ~Open(t)
      BY <3>2 DEF Open, Held, HeldBy, PhonesOf
    <3>. QED  BY <3>1, <3>2
  <2>2. ASSUME NEW t \in Syncs \ {s}
        PROVE  PhonesOf(sync'[s].inserts) \cap PhonesOf(sync'[t].inserts) = {}
    BY <1>5, <1>12, <2>1 DEF Apart
  <2>3. ASSUME NEW t \in Syncs, NEW u \in Syncs, t # u
        PROVE  /\ sync'[t].deletes \cap sync'[u].deletes = {}
               /\ PhonesOf(sync'[t].inserts) \cap PhonesOf(sync'[u].inserts) = {}
    <3>1. sync'[t].deletes \cap sync'[u].deletes = {}
      BY <1>6, <2>3 DEF Apart
    <3>2. CASE t = s
      BY <2>2, <2>3, <3>1, <3>2
    <3>3. CASE u = s
      BY <2>2, <2>3, <3>1, <3>3
    <3>4. CASE t # s /\ u # s
      BY <1>5, <2>3, <3>1, <3>4 DEF Apart
    <3>. QED  BY <3>2, <3>3, <3>4
  <2>. QED  BY <2>3 DEF Apart
<1>14. Unique'
  <2>1. ASSUME NEW t \in Syncs
        PROVE  PhonesOf(sync'[t].inserts) \cap PhonesOf(rows' \ sync'[t].deletes) = {}
    <3>1. CASE t = s
      BY <1>4, <1>6, <1>12, <3>1 DEF Unique, Insert
    <3>2. CASE t # s
      BY <1>4, <1>5, <3>2 DEF Unique
    <3>. QED  BY <3>1, <3>2
  <2>. QED  BY <1>4, <2>1 DEF Unique
<1>15. AloneDeletesAll'
  BY <1>4, <1>6 DEF AloneDeletesAll, Others, Open
<1>. QED  BY <1>5, <1>7, <1>11, <1>13, <1>14, <1>15

\* A transaction ends: with or without its rows, nothing stays in its hands.
LEMMA EndedShape ==
  ASSUME IInv, NEW s \in Syncs, NEW stage \in Stages, sync' = Ended(s, stage),
         rows' \subseteq Rows, UNCHANGED alone
  PROVE  /\ Shapes'
         /\ sync'[s].seen = {} /\ sync'[s].deletes = {} /\ sync'[s].inserts = {}
         /\ sync'[s].upload = sync[s].upload /\ sync'[s].stage = stage
         /\ \A t \in Syncs \ {s} : sync'[t] = sync[t]
<1>. USE DEF IInv
<1>1. PICK w, x : /\ w = sync[s]
                  /\ x = [w EXCEPT !.stage = stage, !.seen = {},
                                   !.deletes = {}, !.inserts = {}]
  OBVIOUS
<1>2. SyncShape(w)
  BY <1>1 DEF Shapes
<1>3. x = [stage |-> stage, upload |-> w.upload, seen |-> {}, deletes |-> {}, inserts |-> {},
           unregistered |-> w.unregistered,
           registered |-> w.registered, shared |-> w.shared]
  BY ONLY <1>1, <1>2 DEF SyncShape
<1>4. sync' = [sync EXCEPT ![s] = x]
  BY <1>1 DEF Ended, Shapes
<1>5. SyncShape(x) /\ x.stage \in Stages /\ x.upload \in Uploads \cup {<<>>}
  BY <1>1, <1>3 DEF SyncShape, Stages, Shapes
<1>6. alone' = [t \in Syncs |-> alone'[t]]
  BY DEF Shapes
<1>7. Shapes' /\ sync'[s] = x /\ \A t \in Syncs \ {s} : sync'[t] = sync[t]
  BY <1>4, <1>5, <1>6, OneChanges
<1>. QED  BY <1>1, <1>3, <1>7

LEMMA EndedStage ==
  ASSUME Shapes, NEW s \in Syncs, NEW stage, sync' = Ended(s, stage)
  PROVE  sync'[s].stage = stage
<1>1. PICK w, x : /\ w = sync[s]
                  /\ x = [w EXCEPT !.stage = stage, !.seen = {},
                                   !.deletes = {}, !.inserts = {}]
  OBVIOUS
<1>2. SyncShape(w)
  BY <1>1 DEF Shapes
<1>3. x.stage = stage
  BY ONLY <1>1, <1>2 DEF SyncShape
<1>4. sync' = [sync EXCEPT ![s] = x]
  BY <1>1 DEF Ended, Shapes
<1>. QED  BY <1>3, <1>4 DEF Shapes

LEMMA RollbackKeeps ==
  ASSUME IInv, NEW s \in Syncs, Open(s), rows' = rows, sync' = Ended(s, "failed"),
         UNCHANGED alone
  PROVE  IInv'
<1>. USE DEF IInv
<1>1. /\ Shapes'
      /\ sync'[s].seen = {} /\ sync'[s].deletes = {} /\ sync'[s].inserts = {}
      /\ sync'[s].upload = sync[s].upload /\ sync'[s].stage = "failed"
      /\ \A t \in Syncs \ {s} : sync'[t] = sync[t]
  BY EndedShape DEF Stages, Shapes
<1>2. Whole'
  <2>1. \A t \in Syncs : Committed(t) => Committed(t)' /\ RowsOf(t)' = RowsOf(t)
    BY <1>1 DEF RowsOf, Uploaded, Committed, Open
  <2>. QED  BY <1>1, <2>1, WholeKept
<1>3. Held'
  <2>1. HeldBy(s)'
    BY <1>1, HoldsNothing DEF Shapes
  <2>2. \A t \in Syncs \ {s} : HeldBy(t)'
    BY <1>1, HeldElsewhere DEF Held, HeldBy
  <2>. QED  BY <2>1, <2>2 DEF Held
<1>4. Apart'
  BY <1>1 DEF Apart, PhonesOf
<1>5. Unique'
  BY <1>1 DEF Unique, PhonesOf
<1>6. AloneDeletesAll'
  BY <1>1 DEF AloneDeletesAll, Others, Open
<1>. QED  BY <1>1, <1>2, <1>3, <1>4, <1>5, <1>6

\* A complete transaction has inserted its whole upload.
LEMMA CompleteInserts ==
  ASSUME IInv, NEW s \in Syncs, Complete(s)
  PROVE  sync[s].inserts = RowsOf(s)
<1>1. PICK n \in 0..Len(sync[s].upload) :
        /\ sync[s].inserts = FirstRows(s, n)
        /\ Cardinality(sync[s].inserts) = n
  BY DEF IInv, Held, HeldBy
<1>2. n = Len(sync[s].upload)
  BY <1>1 DEF Complete
<1>3. DOMAIN sync[s].upload = 1..n
  BY <1>2, UploadIsSeq DEF IInv
<1>. QED  BY <1>1, <1>3 DEF FirstRows, RowsOf, Uploaded, ToSet

\* What a commit stores is well typed.
LEMMA RowsOfAreRows ==
  ASSUME Shapes, NEW s \in Syncs
  PROVE  RowsOf(s) \subseteq Rows
<1>1. Uploaded(s) \subseteq Phones
  BY UploadIsSeq DEF Uploaded, ToSet
<1>. QED  BY <1>1 DEF RowsOf, Rows

LEMMA CommitKeeps ==
  ASSUME IInv, NEW s \in Syncs, Commit(s)
  PROVE  IInv'
<1>. USE DEF IInv
<1>1. /\ sync[s].stage = "inserting" /\ UNCHANGED alone
      /\ sync' = Ended(s, "matching")
      /\ rows' = (rows \ sync[s].deletes) \cup RowsOf(s)
      /\ sync[s].inserts = RowsOf(s)
  BY CompleteInserts DEF Commit
<1>2. /\ Shapes'
      /\ sync'[s].seen = {} /\ sync'[s].deletes = {} /\ sync'[s].inserts = {}
      /\ sync'[s].upload = sync[s].upload /\ sync'[s].stage = "matching"
      /\ \A t \in Syncs \ {s} : sync'[t] = sync[t]
  <2>1. rows' \subseteq Rows
    BY <1>1, RowsOfAreRows DEF Shapes
  <2>. QED  BY <1>1, <2>1, EndedShape DEF Stages
<1>3. Whole'
  <2>1. \A t \in Syncs : Committed(t) => Committed(t)' /\ RowsOf(t)' = RowsOf(t)
    BY <1>1, <1>2 DEF RowsOf, Uploaded, Committed
  <2>2. Committed(s)' /\ RowsOf(s)' = RowsOf(s)
    BY <1>2 DEF RowsOf, Uploaded, Committed
  <2>3. ASSUME NEW t \in Syncs
        PROVE  (By(rows, t) = {} \/ (Committed(t) /\ By(rows, t) = RowsOf(t)))'
    <3>1. CASE t = s
      <4>1. By(rows, s) = {}
        BY <1>1 DEF Whole, WholeIn, Committed
      <4>2. By(rows, s)' = RowsOf(s)
        BY <1>1, <4>1 DEF By, RowsOf
      <4>. QED  BY <2>2, <3>1, <4>2
    <3>2. CASE t # s
      <4>1. By(rows, t)' = By(rows, t) \ By(sync[s].deletes, t)
        BY <1>1, <3>2 DEF By, RowsOf
      <4>2. /\ By(rows, t) = {} \/ (Committed(t) /\ By(rows, t) = RowsOf(t))
            /\ \/ By(sync[s].deletes, t) = {}
               \/ Committed(t) /\ By(sync[s].deletes, t) = RowsOf(t)
        BY DEF Whole, WholeIn
      <4>. QED  BY <2>1, <4>1, <4>2
    <3>. QED  BY <3>1, <3>2
  <2>4. ASSUME NEW t \in Syncs PROVE (WholeIn(sync[t].seen) /\ WholeIn(sync[t].deletes))'
    <3>1. PICK q, r : q = sync'[t].seen /\ r = sync'[t].deletes
      OBVIOUS
    <3>2. WholeIn(q) /\ WholeIn(r)
      <4>1. CASE t = s
        BY <1>2, <3>1, <4>1 DEF WholeIn, By
      <4>2. CASE t # s
        BY <1>2, <3>1, <4>2 DEF Whole
      <4>. QED  BY <4>1, <4>2
    <3>3. WholeIn(q)' /\ WholeIn(r)'
      BY <2>1, <3>2, WholeStays
    <3>. QED  BY <3>1, <3>3
  <2>. QED  BY <2>3, <2>4 DEF Whole, WholeIn
<1>4. Held'
  <2>1. HeldBy(s)'
    BY <1>2, HoldsNothing DEF Shapes
  <2>2. ASSUME NEW t \in Syncs \ {s} PROVE HeldBy(t)'
    <3>1. sync[t].deletes \subseteq rows'
      BY <1>1 DEF Apart, Held, HeldBy
    <3>. QED  BY <1>2, <3>1, HeldElsewhere DEF Held
  <2>. QED  BY <2>1, <2>2 DEF Held
<1>5. Apart'
  BY <1>2 DEF Apart, PhonesOf
<1>6. Unique'
  <2>1. ASSUME NEW q \in rows', NEW r \in rows', q.phone = r.phone
        PROVE  q = r
    <3>1. CASE q \in rows \ sync[s].deletes /\ r \in rows \ sync[s].deletes
      BY <2>1, <3>1 DEF Unique
    <3>2. CASE q \in RowsOf(s) /\ r \in RowsOf(s)
      BY <2>1, <3>2 DEF RowsOf
    <3>3. ASSUME NEW a \in RowsOf(s), NEW b \in rows \ sync[s].deletes
          PROVE  a.phone # b.phone
      BY <1>1 DEF Unique, PhonesOf
    <3>. QED  BY <1>1, <2>1, <3>1, <3>2, <3>3
  <2>2. ASSUME NEW t \in Syncs
        PROVE  PhonesOf(sync'[t].inserts) \cap PhonesOf(rows' \ sync'[t].deletes) = {}
    <3>1. CASE t = s
      BY <1>2, <3>1 DEF PhonesOf
    <3>2. CASE t # s
      <4>1. PhonesOf(rows' \ sync[t].deletes)
              \subseteq PhonesOf(rows \ sync[t].deletes) \cup PhonesOf(sync[s].inserts)
        BY <1>1 DEF PhonesOf
      <4>2. /\ PhonesOf(sync[t].inserts) \cap PhonesOf(rows \ sync[t].deletes) = {}
            /\ PhonesOf(sync[t].inserts) \cap PhonesOf(sync[s].inserts) = {}
        BY <3>2 DEF Unique, Apart
      <4>. QED  BY <1>2, <3>2, <4>1, <4>2
    <3>. QED  BY <3>1, <3>2
  <2>. QED  BY <2>1, <2>2 DEF Unique
<1>7. AloneDeletesAll'
  <2>. SUFFICES ASSUME NEW t \in Syncs, alone'[t], Open(t)' PROVE FALSE
    BY DEF AloneDeletesAll
  <2>1. t # s /\ Open(t) /\ alone[t] /\ s \in Others(t)
    BY <1>1, <1>2 DEF Open, Others
  <2>. QED  BY <2>1 DEF AloneDeletesAll
<1>. QED  BY <1>2, <1>3, <1>4, <1>5, <1>6, <1>7

LEMMA MatchKeeps ==
  ASSUME IInv, NEW s \in Syncs, Match(s)
  PROVE  IInv'
<1>1. PICK w, m : w = sync[s] /\ m = Matches(s)
  OBVIOUS
<1>2. SyncShape(w) /\ w.stage \in {"matching", "comparing"}
  BY <1>1 DEF Match, Reads, IInv, Shapes
<1>3. UNCHANGED <<rows, alone>>
  BY DEF Match
<1>4. CASE w.stage = "matching"
  <2>1. PICK x : x = [[w EXCEPT !.stage = "comparing"] EXCEPT !.unregistered = m.unregistered]
    OBVIOUS
  <2>2. sync' = [sync EXCEPT ![s] = x]
    <3>1. Reads[w.stage] = "unregistered" /\ After[w.stage] = "comparing"
      BY <1>4 DEF Reads, After
    <3>2. sync' = [sync EXCEPT ![s].stage = "comparing", ![s].unregistered = m.unregistered]
      BY <1>1, <3>1 DEF Match
    <3>. QED  BY <1>1, <2>1, <3>2 DEF IInv, Shapes
  <2>3. x = [stage |-> "comparing", upload |-> w.upload, seen |-> w.seen,
             deletes |-> w.deletes, inserts |-> w.inserts,
             unregistered |-> m.unregistered,
             registered |-> w.registered, shared |-> w.shared]
    BY ONLY <1>2, <2>1 DEF SyncShape
  <2>. QED  BY <1>1, <1>3, <1>4, <2>2, <2>3, AnswerKeeps DEF SyncShape, Stages, Committed
<1>5. CASE w.stage = "comparing"
  <2>1. PICK x : x = [[w EXCEPT !.stage = "filtering"] EXCEPT !.registered = m.registered]
    OBVIOUS
  <2>2. sync' = [sync EXCEPT ![s] = x]
    <3>1. Reads[w.stage] = "registered" /\ After[w.stage] = "filtering"
      BY <1>5 DEF Reads, After
    <3>2. sync' = [sync EXCEPT ![s].stage = "filtering", ![s].registered = m.registered]
      BY <1>1, <3>1 DEF Match
    <3>. QED  BY <1>1, <2>1, <3>2 DEF IInv, Shapes
  <2>3. x = [stage |-> "filtering", upload |-> w.upload, seen |-> w.seen,
             deletes |-> w.deletes, inserts |-> w.inserts,
             unregistered |-> w.unregistered,
             registered |-> m.registered, shared |-> w.shared]
    BY ONLY <1>2, <2>1 DEF SyncShape
  <2>. QED  BY <1>1, <1>3, <1>5, <2>2, <2>3, AnswerKeeps DEF SyncShape, Stages, Committed
<1>. QED  BY <1>2, <1>4, <1>5

LEMMA FilterKeeps ==
  ASSUME IInv, NEW s \in Syncs, NEW shared \in SUBSET Phones, Filter(s, shared)
  PROVE  IInv'
<1>1. PICK w, x : /\ w = sync[s]
                  /\ x = [w EXCEPT !.stage = "answered", !.shared = shared,
                                   !.registered = w.registered \ shared]
  OBVIOUS
<1>2. SyncShape(w) /\ w.stage = "filtering"
  BY <1>1 DEF Filter, IInv, Shapes
<1>3. sync' = [sync EXCEPT ![s] = x] /\ UNCHANGED <<rows, alone>>
  BY <1>1 DEF Filter, IInv, Shapes
<1>4. x = [stage |-> "answered", upload |-> w.upload, seen |-> w.seen,
           deletes |-> w.deletes, inserts |-> w.inserts,
           unregistered |-> w.unregistered,
           registered |-> w.registered \ shared, shared |-> shared]
  BY ONLY <1>1, <1>2 DEF SyncShape
<1>. QED  BY <1>1, <1>2, <1>3, <1>4, AnswerKeeps DEF SyncShape, Stages, Committed

LEMMA IInvNext == IInv /\ [Next]_vars => IInv'
<1>. SUFFICES ASSUME IInv, [Next]_vars PROVE IInv'
  OBVIOUS
<1>1. ASSUME NEW s \in Syncs, UniqueViolation(s) PROVE IInv'
  BY <1>1, RollbackKeeps DEF UniqueViolation, Inserting, Open, RolledBack
<1>2. ASSUME NEW s \in Syncs, Fail(s) PROVE IInv'
  BY <1>2, RollbackKeeps DEF Fail, RolledBack
<1>3. CASE UNCHANGED <<rows, sync, alone>>
  <2>1. Shapes'
    BY <1>3 DEF IInv, Shapes, SyncShape
  <2>2. Whole'
    <3>1. \A t \in Syncs : Committed(t) => Committed(t)' /\ RowsOf(t)' = RowsOf(t)
      BY <1>3 DEF Committed, RowsOf, Uploaded
    <3>. QED  BY <1>3, <3>1, WholeKept DEF IInv
  <2>3. Held'
    BY <1>3, HeldElsewhere DEF IInv, Held, HeldBy
  <2>4. Apart' /\ Unique'
    BY <1>3 DEF IInv, Apart, Unique
  <2>5. AloneDeletesAll'
    BY <1>3 DEF IInv, AloneDeletesAll, Others, Open
  <2>. QED  BY <2>1, <2>2, <2>3, <2>4, <2>5 DEF IInv
<1>4. CASE \E s \in Syncs, u \in Uploads : Begin(s, u)
  BY <1>4, BeginKeeps
<1>5. CASE \E s \in Syncs : \/ DeleteSees(s) \/ Delete(s) \/ Insert(s) \/ UniqueViolation(s)
                            \/ Commit(s) \/ Fail(s) \/ Match(s)
  BY <1>1, <1>2, <1>5, DeleteSeesKeeps, DeleteKeeps, InsertKeeps, CommitKeeps, MatchKeeps
<1>6. CASE \E s \in Syncs, shared \in SUBSET Phones : Filter(s, shared)
  BY <1>6, FilterKeeps
<1>7. CASE \E p \in Phones : SignUp(p)
  BY <1>3, <1>7 DEF SignUp
<1>8. CASE UNCHANGED vars
  BY <1>3, <1>8 DEF vars
<1>. QED  BY <1>4, <1>5, <1>6, <1>7, <1>8 DEF Next

\* The phones of the rows that a request stores.
LEMMA PhonesOfRows ==
  ASSUME NEW s \in Syncs
  PROVE  PhonesOf(RowsOf(s)) = Uploaded(s)
<1>1. ASSUME NEW p \in Uploaded(s) PROVE p \in PhonesOf(RowsOf(s))
  <2>1. PICK r : r = [phone |-> p, by |-> s]
    OBVIOUS
  <2>2. r \in RowsOf(s) /\ r.phone = p
    BY <2>1 DEF RowsOf
  <2>. QED  BY <2>2 DEF PhonesOf
<1>2. ASSUME NEW p \in PhonesOf(RowsOf(s)) PROVE p \in Uploaded(s)
  BY DEF PhonesOf, RowsOf
<1>. QED  BY <1>1, <1>2

(***************************************************************************)
(* For any number of syncs of a user, any uploads, and whatever waits and  *)
(* failures: of no upload is a part stored, and no phone is stored twice.  *)
(***************************************************************************)
THEOREM UploadsStayWhole == Spec => []UploadsAreWhole
<1>1. IInv => UploadsAreWhole
  <2>. SUFFICES ASSUME IInv PROVE UploadsAreWhole
    OBVIOUS
  <2>1. ASSUME NEW s \in Syncs, {r \in rows : r.by = s} # {}
        PROVE  {r.phone : r \in {q \in rows : q.by = s}} = Uploaded(s)
    <3>1. {q \in rows : q.by = s} = RowsOf(s)
      BY <2>1 DEF IInv, Whole, WholeIn, By
    <3>. QED  BY <3>1, PhonesOfRows DEF PhonesOf
  <2>. QED  BY <2>1 DEF UploadsAreWhole, IInv, Unique
<1>. QED  BY IInvInit, IInvNext, <1>1, PTL DEF Spec

(***************************************************************************)
(* A sync that commits has stored its upload; and nothing else if no other *)
(* sync of the user was open while it was.                                 *)
(***************************************************************************)
THEOREM CommitReplaces == Spec => SyncReplaces
<1>1. ASSUME IInv, Next, NEW s \in Syncs,
             sync[s].stage = "inserting", sync'[s].stage = "matching"
      PROVE  /\ Uploaded(s) \subseteq PhonesOf(rows')
             /\ alone[s] => PhonesOf(rows') = Uploaded(s)
  <2>1. Commit(s)
    <3>1. sync = [t \in Syncs |-> sync[t]]
      BY <1>1 DEF IInv, Shapes
    <3>2. ASSUME NEW t \in Syncs, NEW u \in Uploads, Begin(t, u) PROVE FALSE
      BY <1>1, <3>1, <3>2 DEF Begin
    <3>3. ASSUME NEW t \in Syncs, DeleteSees(t) PROVE FALSE
      BY <1>1, <3>1, <3>3 DEF DeleteSees
    <3>4. ASSUME NEW t \in Syncs, Delete(t) PROVE FALSE
      BY <1>1, <3>1, <3>4 DEF Delete
    <3>5. ASSUME NEW t \in Syncs, Insert(t) PROVE FALSE
      BY <1>1, <3>1, <3>5 DEF Insert
    <3>6. ASSUME NEW t \in Syncs, sync' = Ended(t, "failed") PROVE FALSE
      <4>1. \A r \in Syncs \ {t} : sync'[r] = sync[r]
        BY <3>1, <3>6 DEF Ended
      <4>2. t \in Syncs /\ sync'[t].stage = "failed"
        BY <1>1, <3>6, EndedStage DEF IInv
      <4>. QED  BY <1>1, <4>1, <4>2
    <3>7. ASSUME NEW t \in Syncs, Match(t) PROVE FALSE
      <4>1. t # s
        BY <1>1, <3>7 DEF Match, Reads
      <4>. QED  BY <1>1, <3>1, <3>7, <4>1 DEF Match
    <3>8. ASSUME NEW t \in Syncs, NEW shared \in SUBSET Phones, Filter(t, shared) PROVE FALSE
      BY <1>1, <3>1, <3>8 DEF Filter
    <3>9. ASSUME NEW t \in Syncs, Commit(t) PROVE t = s
      BY <1>1, <3>1, <3>9 DEF Commit, Ended
    <3>. QED
      BY <1>1, <3>2, <3>3, <3>4, <3>5, <3>6, <3>7, <3>8, <3>9
      DEF Next, UniqueViolation, Fail, SignUp
  <2>2. rows' = (rows \ sync[s].deletes) \cup RowsOf(s)
    BY <1>1, <2>1, CompleteInserts DEF Commit
  <2>3. alone[s] => sync[s].deletes = rows
    BY <1>1 DEF IInv, AloneDeletesAll, Open
  <2>4. PhonesOf(RowsOf(s)) = Uploaded(s)
    BY PhonesOfRows
  <2>. QED  BY <2>2, <2>3, <2>4 DEF PhonesOf
<1>2. IInv /\ [Next]_vars =>
        [\A s \in Syncs : sync[s].stage = "inserting" /\ sync'[s].stage = "matching" =>
           /\ Uploaded(s) \subseteq PhonesOf(rows')
           /\ alone[s] => PhonesOf(rows') = Uploaded(s)]_vars
  BY <1>1
<1>. QED  BY IInvInit, IInvNext, <1>2, PTL DEF Spec, SyncReplaces
=============================================================================
