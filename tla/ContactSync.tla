---------------------------- MODULE ContactSync ----------------------------
(***************************************************************************)
(* POST /contacts/sync for one user: ContactsService.syncContacts replaces *)
(* the user's rows of user_synced_contacts in one transaction, and then    *)
(* matches the uploaded phones with the accounts, in separate reads.       *)
(*                                                                         *)
(* The transaction runs at the database's default isolation, READ          *)
(* COMMITTED: each statement sees the rows committed when it starts; a     *)
(* DELETE waits for rows that another transaction is deleting, an INSERT   *)
(* for phones another one is inserting or deleting under the unique index  *)
(* (userId, phone).  createMany inserts its rows one by one, so its chunks *)
(* add no step.  A transaction that waits too long, or for one that waits  *)
(* for it, is rolled back (Fail).                                          *)
(*                                                                         *)
(* Phones are already normalised and free of duplicates; a phone that can  *)
(* not be parsed, or an account that is missing or inactive, refuses the   *)
(* request before it has an effect.                                        *)
(***************************************************************************)
EXTENDS Integers, Sequences, FiniteSets, SequencesExt

CONSTANTS
  Syncs,      \* the requests, numbers
  Phones,     \* normalised phones
  Me,         \* the phone of the user who syncs
  Uploads     \* what the client may upload: sequences of distinct phones

ASSUME SyncAssumption ==
  /\ Syncs \subseteq Nat \ {0}
  /\ Me \in Phones
  /\ Uploads \subseteq {u \in Seq(Phones) : IsInjective(u)}

VARIABLES
  rows,       \* the committed rows of the user: [phone, by]
  users,      \* the phones of the active accounts
  sync,       \* the requests
  alone       \* history: no other transaction was open while this one was

vars == <<rows, users, sync, alone>>

\* The snapshot stored before; its rows are of no request here.
Before == 0

Rows == [phone : Phones, by : Syncs \cup {Before}]

Stages == {"none", "begun", "deleting", "inserting",
           "matching", "comparing", "filtering", "answered", "failed"}

TypeOK ==
  /\ rows \subseteq Rows
  /\ users \subseteq Phones
  /\ sync \in [Syncs -> [stage : Stages, upload : Uploads \cup {<<>>},
                         seen : SUBSET Rows, deletes : SUBSET Rows,
                         inserts : SUBSET Rows, unregistered : SUBSET Phones,
                         registered : SUBSET Phones, shared : SUBSET Phones]]
  /\ alone \in [Syncs -> BOOLEAN]

PhonesOf(rs) == {r.phone : r \in rs}
Uploaded(s) == ToSet(sync[s].upload)

Open(s) == sync[s].stage \in {"begun", "deleting", "inserting"}
Others(s) == {t \in Syncs \ {s} : Open(t)}

-----------------------------------------------------------------------------
(* The transaction. *)

Begin(s, upload) ==
  /\ sync[s].stage = "none"
  /\ sync' = [sync EXCEPT ![s].stage = "begun", ![s].upload = upload]
  /\ alone' = [t \in Syncs |-> IF t = s THEN Others(s) = {} ELSE alone[t] /\ ~Open(t)]
  /\ UNCHANGED <<rows, users>>

\* deleteMany takes its snapshot; and one that is left out for no contacts.
ToDelete_unlessEmpty(s) == IF sync[s].upload = <<>> THEN {} ELSE rows

ToDelete(s) == rows

DeleteSees(s) ==
  /\ sync[s].stage = "begun"
  /\ sync' = [sync EXCEPT ![s].stage = "deleting", ![s].seen = ToDelete(s)]
  /\ UNCHANGED <<rows, users, alone>>

\* It has the lock of every row that is still there.
Delete(s) ==
  /\ sync[s].stage = "deleting"
  /\ \A t \in Others(s) : sync[t].deletes \cap sync[s].seen = {}
  /\ sync' = [sync EXCEPT ![s].stage = "inserting",
                          ![s].deletes = sync[s].seen \cap rows]
  /\ UNCHANGED <<rows, users, alone>>

\* A failing chunk rolls all back; and one that keeps the chunks before it.
RolledBack_chunks(s) == (rows \ sync[s].deletes) \cup sync[s].inserts

RolledBack(s) == rows

\* The transaction is over; its snapshot and locks are gone.
Ended(s, stage) ==
  [sync EXCEPT ![s].stage = stage, ![s].seen = {}, ![s].deletes = {}, ![s].inserts = {}]

(***************************************************************************)
(* The next phone of the upload.  It waits while another transaction has a *)
(* row of the phone in its hands, and fails on a row it did not delete.    *)
(***************************************************************************)
NextPhone(s) == sync[s].upload[Cardinality(sync[s].inserts) + 1]

Inserting(s) ==
  /\ sync[s].stage = "inserting"
  /\ Cardinality(sync[s].inserts) < Len(sync[s].upload)
  /\ \A t \in Others(s) : NextPhone(s) \notin PhonesOf(sync[t].inserts \cup sync[t].deletes)

Insert(s) ==
  /\ Inserting(s)
  /\ NextPhone(s) \notin PhonesOf(rows \ sync[s].deletes)
  /\ sync' = [sync EXCEPT ![s].inserts = @ \cup {[phone |-> NextPhone(s), by |-> s]}]
  /\ UNCHANGED <<rows, users, alone>>

UniqueViolation(s) ==
  /\ Inserting(s)
  /\ NextPhone(s) \in PhonesOf(rows \ sync[s].deletes)
  /\ rows' = RolledBack(s)
  /\ sync' = Ended(s, "failed")
  /\ UNCHANGED <<users, alone>>

Complete(s) == Cardinality(sync[s].inserts) = Len(sync[s].upload)

Commit(s) ==
  /\ sync[s].stage = "inserting"
  /\ Complete(s)
  /\ rows' = (rows \ sync[s].deletes) \cup sync[s].inserts
  /\ sync' = Ended(s, "matching")
  /\ UNCHANGED <<users, alone>>

Fail(s) ==
  /\ Open(s)
  /\ rows' = RolledBack(s)
  /\ sync' = Ended(s, "failed")
  /\ UNCHANGED <<users, alone>>

-----------------------------------------------------------------------------
(* The answer: three reads, while other people sign up. *)

SignUp(p) ==
  /\ p \notin users
  /\ users' = users \cup {p}
  /\ UNCHANGED <<rows, sync, alone>>

(***************************************************************************)
(* findActiveIdentifiersInPhoneList gives the phones without an account,   *)
(* and after it findUsersByPhoneIdentifiers those of others with one.      *)
(***************************************************************************)
Reads_swapped == [matching |-> "registered", comparing |-> "unregistered"]

Reads == [matching |-> "unregistered", comparing |-> "registered"]

Matches(s) == [unregistered |-> Uploaded(s) \ users,
               registered   |-> (Uploaded(s) \cap users) \ {Me}]

After == [matching |-> "comparing", comparing |-> "filtering"]

Match(s) ==
  /\ sync[s].stage \in DOMAIN Reads
  /\ LET list == Reads[sync[s].stage]
     IN  sync' = [sync EXCEPT ![s].stage = After[@], ![s][list] = Matches(s)[list]]
  /\ UNCHANGED <<rows, users, alone>>

\* findUserIdsWithSharedGroupContext, whatever groups there are.
Filter(s, shared) ==
  /\ sync[s].stage = "filtering"
  /\ shared \subseteq sync[s].registered
  /\ sync' = [sync EXCEPT ![s].stage = "answered", ![s].shared = shared,
                          ![s].registered = @ \ shared]
  /\ UNCHANGED <<rows, users, alone>>

-----------------------------------------------------------------------------
NoSync == [stage |-> "none", upload |-> <<>>, seen |-> {}, deletes |-> {}, inserts |-> {},
           unregistered |-> {}, registered |-> {}, shared |-> {}]

Init ==
  /\ rows \in {[phone : ToSet(u), by : {Before}] : u \in Uploads \cup {<<>>}}
  /\ users = {Me}
  /\ sync = [s \in Syncs |-> NoSync]
  /\ alone = [s \in Syncs |-> TRUE]

Next ==
  \/ \E s \in Syncs, u \in Uploads : Begin(s, u)
  \/ \E s \in Syncs : \/ DeleteSees(s) \/ Delete(s) \/ Insert(s) \/ UniqueViolation(s)
                      \/ Commit(s) \/ Fail(s) \/ Match(s)
  \/ \E s \in Syncs, shared \in SUBSET Phones : Filter(s, shared)
  \/ \E p \in Phones : SignUp(p)

Spec == Init /\ [][Next]_vars

-----------------------------------------------------------------------------
(***************************************************************************)
(* Properties.                                                             *)
(***************************************************************************)

(***************************************************************************)
(* However syncs overlap, wait for each other and fail, the stored phones  *)
(* are whole uploads: of none is a part left, and no phone is there twice. *)
(***************************************************************************)
UploadsAreWhole ==
  /\ \A s \in Syncs : {r \in rows : r.by = s} # {} =>
       {r.phone : r \in {q \in rows : q.by = s}} = Uploaded(s)
  /\ \A q, r \in rows : q.phone = r.phone => q = r

(***************************************************************************)
(* A sync that commits has stored its upload, and nothing else if no other *)
(* sync of the user overlapped with it: the snapshot is replaced, also by  *)
(* an empty one.                                                           *)
(***************************************************************************)
SyncReplaces ==
  [][\A s \in Syncs : sync[s].stage = "inserting" /\ sync'[s].stage = "matching" =>
       /\ Uploaded(s) \subseteq PhonesOf(rows')
       /\ alone[s] => PhonesOf(rows') = Uploaded(s)]_vars

(***************************************************************************)
(* A contact that signs up while the answer is put together is not lost:   *)
(* every uploaded phone is reported as registered or not, or it is the     *)
(* caller's or of somebody he shares a group with.                         *)
(***************************************************************************)
NoContactLost ==
  \A s \in Syncs : sync[s].stage = "answered" =>
    Uploaded(s) \subseteq sync[s].registered \cup sync[s].unregistered
                            \cup sync[s].shared \cup {Me}

(***************************************************************************)
(* The comment of syncContacts: it replaces the stored snapshot.           *)
(***************************************************************************)
SnapshotIsOneUpload ==
  (\A s \in Syncs : ~Open(s)) =>
    \A q, r \in rows : q.by = r.by
=============================================================================
