------------------------- MODULE RequestGates_proofs -------------------------
(***************************************************************************)
(* What stands between a request and its effect: the idempotency key, the  *)
(* rate limits and the order of the steps of every endpoint, and the check *)
(* of the access token.  The three models share nothing but the request;   *)
(* each has its own section, its own inductive invariant and its theorems. *)
(***************************************************************************)
EXTENDS AccessTokens, Idempotency, HttpApi, FiniteSetTheorems, TLAPS

(***************************************************************************)
(* The idempotency key, for any number of parallel requests and retries,   *)
(* when no handler outlives the TTL of its lock. The argument: whoever is  *)
(* past the lock is the one the key names, so a completed or free key has  *)
(* nobody behind it who could still delete it.                             *)
(***************************************************************************)

HolderIsNamed ==
  \A r \in Requests : req[r] \in Holding => key.state = "processing" /\ key.by = r

KeyInv == KeyTypeOK /\ HolderIsNamed

LEMMA KeyRecords ==
  /\ Free.state = "free"
  /\ \A r \in Requests :
       /\ Lock(r) \in [state : {"processing", "completed"}, by : Requests, ttl : BOOLEAN]
       /\ Lock(r).state = "processing" /\ Lock(r).by = r
       /\ Completed(r) \in [state : {"processing", "completed"}, by : Requests, ttl : BOOLEAN]
       /\ Completed(r).state = "completed"
BY DEF Free, Lock, Completed

LEMMA KeyTypes ==
  ASSUME KeyTypeOK, [KeyNext]_keyVars
  PROVE  KeyTypeOK'
<1> USE KeyRecords DEF KeyTypeOK, Places
<1>1. ASSUME NEW r \in Requests, NEW place \in Places, Goto(r, place)
      PROVE  req' \in [Requests -> Places]
  BY <1>1 DEF Goto
<1>2. ASSUME NEW r \in Requests, Arrive(r) PROVE KeyTypeOK'
  BY <1>1, <1>2, ZenonT(60) DEF Arrive, Cached, Refused
<1>3. ASSUME NEW r \in Requests, Acquire(r) PROVE KeyTypeOK'
  BY <1>1, <1>3 DEF Acquire
<1>4. ASSUME NEW r \in Requests, Recheck(r) PROVE KeyTypeOK'
  BY <1>1, <1>4, ZenonT(60) DEF Recheck, Cached, Refused
<1>5. ASSUME NEW r \in Requests, Verify(r) \/ SignIn(r) \/ Complete(r) PROVE KeyTypeOK'
  BY <1>1, <1>5, ZenonT(60) DEF Verify, SignIn, Complete
<1>6. ASSUME NEW r \in Requests, Throw(r) \/ Release(r) \/ Crash(r) PROVE KeyTypeOK'
  BY <1>1, <1>6 DEF Throw, Release, Crash
<1>7. ASSUME ExpireLock \/ ExpireCompleted \/ UNCHANGED keyVars PROVE KeyTypeOK'
  BY <1>7 DEF ExpireLock, ExpireCompleted, keyVars
<1>8. QED BY <1>2, <1>3, <1>4, <1>5, <1>6, <1>7 DEF KeyNext, Step

(* One step keeps the holder named.  Slow appears in one place only: a lock *)
(* may expire under its holder's feet.                                      *)
LEMMA HolderStaysNamed ==
  ASSUME Slow = FALSE, KeyInv, [KeyNext]_keyVars
  PROVE  HolderIsNamed'
<1> USE KeyRecords DEF KeyInv, KeyTypeOK, HolderIsNamed, Holding, Goto
<1>1. ASSUME NEW r \in Requests, Arrive(r) PROVE HolderIsNamed'
  BY <1>1 DEF Arrive, Cached, Refused
<1>2. ASSUME NEW r \in Requests, Acquire(r) PROVE HolderIsNamed'
  <2>1. CASE key = Free
    <3>1. \A q \in Requests : req[q] \notin Holding
      BY <2>1
    <3>2. QED BY <1>2, <2>1, <3>1 DEF Acquire, Acquirable
  <2>2. CASE key # Free
    BY <1>2, <2>2 DEF Acquire, Acquirable
  <2>3. QED BY <2>1, <2>2
<1>3. ASSUME NEW r \in Requests, Recheck(r) PROVE HolderIsNamed'
  BY <1>3 DEF Recheck, Cached, Refused
<1>4. ASSUME NEW r \in Requests, Verify(r) \/ SignIn(r) \/ Throw(r) \/ Crash(r)
      PROVE  HolderIsNamed'
  BY <1>4 DEF Verify, SignIn, Throw, Crash
<1>5. ASSUME NEW r \in Requests, Complete(r) \/ Release(r) PROVE HolderIsNamed'
  <2>1. req[r] \in Holding
    BY <1>5 DEF Complete, Release
  <2>2. \A q \in Requests : req[q] \in Holding => q = r
    BY <2>1
  <2>3. req' = [req EXCEPT ![r] = "idle"]
    BY <1>5 DEF Complete, Release
  <2>4. \A q \in Requests : req'[q] \notin Holding
    BY <2>2, <2>3
  <2>5. QED BY <2>4
<1>6. ASSUME ExpireLock PROVE HolderIsNamed'
  BY <1>6 DEF ExpireLock
<1>7. ASSUME ExpireCompleted \/ UNCHANGED keyVars PROVE HolderIsNamed'
  BY <1>7 DEF ExpireCompleted, keyVars
<1>8. QED BY <1>1, <1>2, <1>3, <1>4, <1>5, <1>6, <1>7 DEF KeyNext, Step

LEMMA KeyInvHolds ==
  ASSUME Slow = FALSE
  PROVE  KeySpec => []KeyInv
<1>1. KeyInit => KeyInv
  BY DEF KeyInit, KeyInv, KeyTypeOK, HolderIsNamed, Holding, Places
<1>2. KeyInv /\ [KeyNext]_keyVars => KeyInv'
  BY KeyTypes, HolderStaysNamed DEF KeyInv
<1>3. QED BY <1>1, <1>2, PTL DEF KeySpec

(* The key and the handlers are well formed, slow handlers or not.          *)
THEOREM KeyTypeCorrect == KeySpec => []KeyTypeOK
<1>1. KeyInit => KeyTypeOK
  BY DEF KeyInit, KeyTypeOK, Places
<1>2. KeyTypeOK /\ [KeyNext]_keyVars => KeyTypeOK'
  BY KeyTypes
<1>3. QED BY <1>1, <1>2, PTL DEF KeySpec

(* Of any number of parallel requests with one key, at most one is past the *)
(* lock and may verify, as long as none outlives the lock.                  *)
THEOREM OnlyOneProcesses ==
  ASSUME Slow = FALSE
  PROVE  KeySpec => []OneProcesses
<1>1. KeyInv => OneProcesses
  BY DEF KeyInv, HolderIsNamed, OneProcesses
<1>2. QED BY KeyInvHolds, <1>1, PTL

(* A stored answer is never replaced or deleted by a handler, as long as    *)
(* none outlives the lock: until it expires, every retry gets it.           *)
THEOREM StoredAnswersAreKept ==
  ASSUME Slow = FALSE
  PROVE  KeySpec => AnswersAreKept
<1>1. KeyInv /\ [KeyNext]_keyVars => [key.state = "completed" => key' = key \/ req' = req]_keyVars
  <2>1. SUFFICES ASSUME KeyInv, KeyNext, key.state = "completed"
                 PROVE  key' = key \/ req' = req
    OBVIOUS
  <2>2. \A r \in Requests : req[r] \notin Holding
    BY <2>1 DEF KeyInv, HolderIsNamed
  <2>3. key # Free
    BY <2>1, KeyRecords
  <2>4. ASSUME NEW r \in Requests, Arrive(r) \/ Recheck(r) \/ Crash(r) PROVE key' = key
    BY <2>4 DEF Arrive, Recheck, Cached, Refused, Crash
  <2>5. ASSUME NEW r \in Requests, Acquire(r) PROVE key' = key
    BY <2>3, <2>5 DEF Acquire, Acquirable
  <2>6. ASSUME NEW r \in Requests
        PROVE  ~Verify(r) /\ ~SignIn(r) /\ ~Complete(r) /\ ~Throw(r) /\ ~Release(r)
    BY <2>2, <2>6 DEF Verify, SignIn, Complete, Throw, Release, Holding
  <2>7. ASSUME ExpireLock \/ ExpireCompleted PROVE req' = req
    BY <2>7 DEF ExpireLock, ExpireCompleted
  <2>8. QED BY <2>1, <2>4, <2>5, <2>6, <2>7 DEF KeyNext, Step
<1>2. QED BY KeyInvHolds, <1>1, PTL DEF KeySpec, AnswersAreKept

(***************************************************************************)
(* The rate limits, for any quota and any window.                          *)
(***************************************************************************)

LEMMA WindowAndQuota ==
  /\ Window \in Nat /\ Window > 0
  /\ \A k \in Keys : Quota[k] \in Nat /\ Quota[k] > 0
BY HttpAssumption DEF HttpAssumption

\* In a list with the oldest first, those that are too old for the window
\* are a prefix.
LEMMA OldestFirst ==
  ASSUME NEW L \in Nat, NEW old \in SUBSET (1..L),
         \A i \in old, j \in 1..L : j <= i => j \in old
  PROVE  /\ Cardinality(old) \in 0..L
         /\ old = 1..Cardinality(old)
<1>1. IsFiniteSet(1..L) /\ Cardinality(1..L) = L
  <2>1. 1..L = {} => L = 0
    OBVIOUS
  <2>2. QED BY <2>1, FS_Interval, FS_EmptySet
<1>2. IsFiniteSet(old) /\ Cardinality(old) <= L /\ Cardinality(old) \in Nat
  BY <1>1, FS_Subset, FS_CardinalityType
<1>3. PICK n \in Nat : n = Cardinality(old)
  BY <1>2
<1>4. IsFiniteSet(1..n) /\ Cardinality(1..n) = n
  <2>1. 1..n = {} => n = 0
    OBVIOUS
  <2>2. QED BY <2>1, FS_Interval, FS_EmptySet
<1>5. ASSUME NEW i \in old PROVE i <= n
  <2>1. i \in Nat /\ i > 0 /\ 1..i \subseteq old
    OBVIOUS
  <2>2. Cardinality(1..i) = i
    BY <2>1, FS_Interval
  <2>3. QED BY <2>1, <2>2, <1>2, <1>3, FS_Subset
<1>6. old \subseteq 1..n
  BY <1>5
<1>7. old = 1..n
  BY <1>3, <1>4, <1>6, FS_Subset
<1>8. QED BY <1>2, <1>3, <1>7

\* What is left of a list after a tick.
Sorted(ages) == \A i, j \in DOMAIN ages : i < j => ages[i] >= ages[j]

LEMMA RecentIsSuffix ==
  ASSUME NEW ages \in Seq(Nat), Sorted(ages)
  PROVE  \E n \in 0..Len(ages) :
           /\ Recent(ages) = [i \in 1..(Len(ages) - n) |-> ages[i + n] + 1]
           /\ \A i \in 1..Len(ages) : ages[i] + 1 >= Window <=> i <= n
<1> DEFINE old == {i \in DOMAIN ages : ages[i] + 1 >= Window}
<1>1. PICK L \in Nat : L = Len(ages) /\ DOMAIN ages = 1..L
  OBVIOUS
<1>2. old \in SUBSET (1..L)
  BY <1>1
<1>3. ASSUME NEW i \in old, NEW j \in 1..L, j <= i PROVE j \in old
  <2>1. ages[i] \in Nat /\ ages[j] \in Nat /\ ages[i] + 1 >= Window /\ i \in 1..L
    BY <1>1
  <2>2. ages[j] >= ages[i]
    <3>1. CASE j = i BY <3>1, <2>1
    <3>2. CASE j < i BY <3>2, <2>1, <1>1 DEF Sorted
    <3>3. QED BY <3>1, <3>2, <1>3, <2>1
  <2>3. ages[j] + 1 >= Window
    BY ONLY <2>1, <2>2, WindowAndQuota
  <2>4. QED BY <2>3, <1>1
<1>4. Cardinality(old) \in 0..L /\ old = 1..Cardinality(old)
  <2> HIDE DEF old
  <2>1. QED BY <1>2, <1>3, OldestFirst
<1>5. PICK n \in 0..L : n = Cardinality(old)
  BY <1>4
<1>6. Recent(ages) = [i \in 1..(Len(ages) - n) |-> ages[i + n] + 1]
  BY <1>5 DEF Recent
<1>7. ASSUME NEW i \in 1..L PROVE ages[i] + 1 >= Window <=> i <= n
  <2>1. ages[i] + 1 >= Window <=> i \in old
    BY <1>1
  <2>2. i \in old <=> i <= n
    <3> HIDE DEF old
    <3>1. QED BY <1>4, <1>5
  <2>3. QED BY <2>1, <2>2
<1>8. QED BY <1>1, <1>5, <1>6, <1>7

\* A list and its counter.  The first m passed before the window was opened
\* and are fewer than a quota; if everything counted since then passed, the
\* first of those is as old as the window.
Split(p, count, left, m) ==
  /\ Len(p) - m <= count
  /\ count > 0 =>
       /\ \A i \in 1..m : p[i] >= Window - left
       /\ \A i \in (m + 1)..Len(p) : p[i] <= Window - left
       /\ Len(p) - m = count => p[m + 1] = Window - left

InWindow(p, count, left, quota) ==
  /\ p \in Seq(Nat) /\ count \in 0..quota /\ left \in 0..Window
  /\ count = 0 <=> left = 0
  /\ Sorted(p) /\ \A i \in 1..Len(p) : p[i] < Window
  /\ \E m \in 0..Len(p) : m < quota /\ Split(p, count, left, m)

LEMMA PassedAreFew ==
  ASSUME NEW quota \in Nat, NEW p, NEW count, NEW left, quota > 0,
         InWindow(p, count, left, quota)
  PROVE  Len(p) < 2 * quota
<1>1. PICK m \in 0..Len(p) : m < quota /\ Len(p) - m <= count
  BY DEF InWindow, Split
<1>2. Len(p) \in Nat /\ count \in 0..quota
  BY DEF InWindow
<1>3. QED BY <1>1, <1>2

LEMMA FunctionIsSequence ==
  ASSUME NEW K \in Nat, NEW f \in [1..K -> Nat]
  PROVE  f \in Seq(Nat) /\ Len(f) = K /\ DOMAIN f = 1..K
OBVIOUS

LEMMA WindowTicks ==
  ASSUME NEW quota \in Nat, NEW p, NEW count, NEW left, quota > 0,
         InWindow(p, count, left, quota)
  PROVE  IF left <= 1 THEN InWindow(Recent(p), 0, 0, quota)
                      ELSE InWindow(Recent(p), count, left - 1, quota)
<1>1. p \in Seq(Nat) /\ count \in 0..quota /\ left \in 0..Window /\ Sorted(p)
  BY DEF InWindow
<1>2. PICK L \in Nat : L = Len(p) /\ DOMAIN p = 1..L
  BY <1>1
<1>3. PICK n \in 0..L : /\ Recent(p) = [i \in 1..(L - n) |-> p[i + n] + 1]
                        /\ \A i \in 1..L : p[i] + 1 >= Window <=> i <= n
  BY <1>1, <1>2, RecentIsSuffix
<1>4. PICK r : r = Recent(p)
  OBVIOUS
<1>5. L - n \in Nat /\ L - n <= L
  BY <1>3
<1>6. \A i \in 1..(L - n) : i + n \in 1..L /\ p[i + n] \in Nat
  BY <1>1, <1>2, <1>3
<1>7. r \in Seq(Nat) /\ Len(r) = L - n /\ DOMAIN r = 1..(L - n)
  <2>1. PICK K \in Nat : K = L - n
    BY <1>5
  <2>2. r = [i \in 1..K |-> p[i + n] + 1]
    BY <1>3, <1>4, <2>1
  <2>3. \A i \in 1..K : p[i + n] + 1 \in Nat
    BY <1>6, <2>1
  <2>4. r \in [1..K -> Nat]
    BY ONLY <2>2, <2>3
  <2>5. QED BY ONLY <2>1, <2>4, K \in Nat, FunctionIsSequence
<1>8. \A i \in 1..(L - n) : r[i] = p[i + n] + 1
  BY <1>3, <1>4
<1>9. Sorted(r)
  <2>1. SUFFICES ASSUME NEW i \in 1..(L - n), NEW j \in 1..(L - n), i < j
                 PROVE  r[i] >= r[j]
    BY <1>7 DEF Sorted
  <2>2. p[i + n] >= p[j + n]
    <3>1. i + n \in 1..L /\ j + n \in 1..L /\ i + n < j + n
      BY <1>3, <2>1
    <3>2. QED BY <3>1, <1>1, <1>2 DEF Sorted
  <2>3. p[i + n] \in Nat /\ p[j + n] \in Nat /\ r[i] = p[i + n] + 1 /\ r[j] = p[j + n] + 1
    BY <1>6, <1>8
  <2>4. QED BY ONLY <2>2, <2>3
<1>10. ASSUME NEW i \in 1..(L - n) PROVE r[i] < Window
  <2>1. i + n \in 1..L /\ p[i + n] \in Nat /\ r[i] = p[i + n] + 1
    BY <1>6, <1>8
  <2>2. i + n > n
    BY <1>3
  <2>3. ~(p[i + n] + 1 >= Window)
    BY <2>1, <2>2, <1>3
  <2>4. QED BY ONLY <2>1, <2>3, WindowAndQuota
<1>11. PICK m \in 0..L : m < quota /\ Split(p, count, left, m)
  BY <1>2 DEF InWindow
<1>12. L - m <= count
  BY <1>11, <1>2 DEF Split
<1>13. count > 0 => (\A i \in 1..m : p[i] >= Window - left)
  BY <1>11 DEF Split
<1>14. count > 0 => (\A i \in (m + 1)..L : p[i] <= Window - left)
  BY <1>11, <1>2 DEF Split
<1>15. count > 0 /\ L - m = count => p[m + 1] = Window - left
  BY <1>11, <1>2 DEF Split
<1>16. count = 0 <=> left = 0
  BY DEF InWindow
<1>17. CASE left <= 1
  <2>1. L - n < quota
    <3>1. CASE count = 0
      BY <3>1, <1>12, <1>11, <1>3, <1>2
    <3>2. CASE count > 0 /\ m > n
      <4>1. m \in 1..m /\ m \in 1..L
        BY <3>2, <1>3, <1>11
      <4>2. p[m] >= Window - left /\ p[m] \in Nat /\ left = 1
        BY <3>2, <4>1, <1>13, <1>17, <1>16, <1>1, <1>2
      <4>3. p[m] + 1 >= Window
        BY ONLY <4>2, WindowAndQuota
      <4>4. m <= n
        BY <4>1, <4>3, <1>3
      <4>5. QED BY <4>4, <3>2, <1>3, <1>11
    <3>3. CASE count > 0 /\ ~(m > n) /\ L - m < quota
      BY <3>3, <1>3, <1>11, <1>2
    <3>4. CASE count > 0 /\ ~(m > n) /\ ~(L - m < quota)
      <4>1. L - m = count /\ m + 1 \in 1..L
        BY <3>4, <1>12, <1>1, <1>2, <1>11
      <4>2. p[m + 1] = Window - left /\ p[m + 1] \in Nat /\ left = 1
        BY <3>4, <4>1, <1>15, <1>17, <1>16, <1>1, <1>2
      <4>3. p[m + 1] + 1 >= Window
        BY ONLY <4>2, WindowAndQuota
      <4>4. m + 1 <= n
        BY <4>1, <4>3, <1>3
      <4>5. QED BY <4>4, <4>1, <1>12, <1>1, <1>2, <1>3, <1>11
    <3>5. QED BY <3>1, <3>2, <3>3, <3>4, <1>1
  <2>2. Split(r, 0, 0, L - n)
    BY <1>7, <1>5 DEF Split
  <2>3. InWindow(r, 0, 0, quota)
    BY <2>1, <2>2, <1>5, <1>7, <1>9, <1>10, WindowAndQuota DEF InWindow
  <2>4. QED BY <2>3, <1>4, <1>17
<1>18. CASE ~(left <= 1)
  <2>1. count > 0 /\ left - 1 \in 1..Window
    BY <1>18, <1>16, <1>1, WindowAndQuota
  <2>2. n <= m
    <3>1. SUFFICES ASSUME ~(n <= m) PROVE FALSE
      OBVIOUS
    <3>2. n \in (m + 1)..L /\ n \in 1..L
      BY <3>1, <1>3, <1>11
    <3>3. p[n] <= Window - left /\ p[n] + 1 >= Window /\ p[n] \in Nat
      BY <3>2, <2>1, <1>14, <1>3, <1>1, <1>2
    <3>4. left \in Nat /\ left > 1
      BY <1>18, <1>1, WindowAndQuota
    <3>5. QED BY ONLY <3>3, <3>4, WindowAndQuota
  <2>3. PICK k \in 0..(L - n) : k = m - n
    BY <2>2, <1>3, <1>11
  <2>4. ASSUME NEW i \in 1..k PROVE r[i] >= Window - (left - 1)
    <3>1. i \in 1..(L - n) /\ i + n \in 1..m
      BY <2>3, <1>3, <1>11
    <3>2. p[i + n] >= Window - left /\ p[i + n] \in Nat /\ r[i] = p[i + n] + 1
      BY <3>1, <2>1, <1>13, <1>6, <1>8
    <3>3. left \in Nat
      BY <1>1, WindowAndQuota
    <3>4. QED BY ONLY <3>2, <3>3, WindowAndQuota
  <2>5. ASSUME NEW i \in (k + 1)..(L - n) PROVE r[i] <= Window - (left - 1)
    <3>1. i \in 1..(L - n) /\ i + n \in (m + 1)..L
      BY <2>3, <1>3, <1>11
    <3>2. p[i + n] <= Window - left /\ p[i + n] \in Nat /\ r[i] = p[i + n] + 1
      BY <3>1, <2>1, <1>14, <1>6, <1>8
    <3>3. left \in Nat
      BY <1>1, WindowAndQuota
    <3>4. QED BY ONLY <3>2, <3>3, WindowAndQuota
  <2>6. ASSUME (L - n) - k = count PROVE r[k + 1] = Window - (left - 1)
    <3>1. L - m = count /\ k + 1 \in 1..(L - n) /\ (k + 1) + n = m + 1
      BY <2>6, <2>3, <2>1, <1>1, <1>3, <1>11
    <3>2. p[m + 1] = Window - left /\ r[k + 1] = p[m + 1] + 1 /\ p[m + 1] \in Nat
      BY <3>1, <2>1, <1>15, <1>6, <1>8
    <3>3. left \in Nat
      BY <1>1, WindowAndQuota
    <3>4. QED BY ONLY <3>2, <3>3, WindowAndQuota
  <2>7. (L - n) - k <= count /\ k < quota
    BY <2>3, <1>12, <1>11, <1>3, <1>1
  <2>8. Split(r, count, left - 1, k)
    BY <2>4, <2>5, <2>6, <2>7, <1>7 DEF Split
  <2>9. /\ count = 0 <=> left - 1 = 0
        /\ left - 1 \in 0..Window
    BY <2>1, <1>18, <1>1, WindowAndQuota
  <2>10. InWindow(r, count, left - 1, quota)
    BY <2>3, <2>7, <2>8, <2>9, <1>1, <1>7, <1>9, <1>10 DEF InWindow
  <2>11. QED BY <2>10, <1>4, <1>18
<1>19. QED BY <1>17, <1>18

LEMMA AppendedZero ==
  ASSUME NEW p \in Seq(Nat), NEW L \in Nat, L = Len(p)
  PROVE  /\ Append(p, 0) \in Seq(Nat) /\ Len(Append(p, 0)) = L + 1
         /\ DOMAIN Append(p, 0) = 1..(L + 1)
         /\ \A i \in 1..L : Append(p, 0)[i] = p[i] /\ p[i] \in Nat
         /\ Append(p, 0)[L + 1] = 0
OBVIOUS

\* A request that passes is counted and is the youngest of the list.
LEMMA WindowCounts ==
  ASSUME NEW quota \in Nat, NEW p, NEW count, NEW left, quota > 0, count < quota,
         InWindow(p, count, left, quota)
  PROVE  InWindow(Append(p, 0), count + 1, IF count = 0 THEN Window ELSE left, quota)
<1>1. p \in Seq(Nat) /\ count \in 0..quota /\ left \in 0..Window /\ Sorted(p)
  BY DEF InWindow
<1>2. PICK L \in Nat : L = Len(p) /\ DOMAIN p = 1..L
  BY <1>1
<1>3. PICK r : r = Append(p, 0)
  OBVIOUS
<1>4. /\ r \in Seq(Nat) /\ Len(r) = L + 1 /\ DOMAIN r = 1..(L + 1)
      /\ \A i \in 1..L : r[i] = p[i] /\ p[i] \in Nat
      /\ r[L + 1] = 0
  BY ONLY <1>1, <1>2, <1>3, L \in Nat, AppendedZero
<1>5. Sorted(r)
  <2>1. SUFFICES ASSUME NEW i \in 1..(L + 1), NEW j \in 1..(L + 1), i < j
                 PROVE  r[i] >= r[j]
    BY <1>4 DEF Sorted
  <2>2. i \in 1..L
    BY <2>1
  <2>3. CASE j = L + 1
    <3>1. r[i] \in Nat /\ r[j] = 0
      BY <2>2, <2>3, <1>4
    <3>2. QED BY <3>1
  <2>4. CASE j \in 1..L
    BY <2>1, <2>2, <2>4, <1>1, <1>2, <1>4 DEF Sorted
  <2>5. QED BY <2>3, <2>4
<1>6. \A i \in 1..(L + 1) : r[i] < Window
  <2>1. \A i \in 1..L : p[i] < Window
    BY <1>2 DEF InWindow
  <2>2. QED BY <2>1, <1>4, WindowAndQuota
<1>7. PICK m \in 0..L : m < quota /\ Split(p, count, left, m)
  BY <1>2 DEF InWindow
<1>8. PICK l : l = IF count = 0 THEN Window ELSE left
  OBVIOUS
<1>9. l \in 0..Window /\ l # 0 /\ count + 1 \in 0..quota /\ count + 1 > 0
  BY <1>1, <1>8, WindowAndQuota DEF InWindow
<1>10. Split(r, count + 1, l, m)
  <2>1. (L + 1) - m <= count + 1
    BY <1>1, <1>2, <1>7 DEF Split
  <2>2. ASSUME NEW i \in 1..m PROVE r[i] >= Window - l
    <3>1. i \in 1..L /\ r[i] = p[i] /\ p[i] \in Nat
      BY <1>4, <1>7
    <3>2. CASE count = 0
      BY <3>1, <3>2, <1>8, WindowAndQuota
    <3>3. CASE count # 0
      BY <3>1, <3>3, <1>1, <1>7, <1>8 DEF Split
    <3>4. QED BY <3>2, <3>3
  <2>3. ASSUME NEW i \in (m + 1)..(L + 1) PROVE r[i] <= Window - l
    <3>1. CASE i = L + 1
      BY <3>1, <1>4, <1>9, WindowAndQuota
    <3>2. CASE i # L + 1
      <4>1. i \in (m + 1)..L /\ i \in 1..L /\ r[i] = p[i] /\ p[i] \in Nat
        BY <3>2, <1>4, <1>7
      <4>2. count > 0
        BY <4>1, <1>1, <1>2, <1>7 DEF Split
      <4>3. p[i] <= Window - left
        BY <4>1, <4>2, <1>2, <1>7 DEF Split
      <4>4. l = left
        BY <4>2, <1>8
      <4>5. QED BY <4>1, <4>3, <4>4
    <3>3. QED BY <3>1, <3>2
  <2>4. ASSUME (L + 1) - m = count + 1 PROVE r[m + 1] = Window - l
    <3>1. CASE count = 0
      BY <2>4, <3>1, <1>4, <1>7, <1>8, WindowAndQuota
    <3>2. CASE count # 0
      <4>1. count > 0 /\ L - m = count /\ m + 1 \in 1..L
        BY <2>4, <3>2, <1>1, <1>7
      <4>2. p[m + 1] = Window - left
        BY <4>1, <1>2, <1>7 DEF Split
      <4>3. QED BY <4>1, <4>2, <3>2, <1>4, <1>8
    <3>3. QED BY <3>1, <3>2
  <2>5. QED BY <2>1, <2>2, <2>3, <2>4, <1>4 DEF Split
<1>11. m \in 0..(L + 1) /\ (count + 1 = 0 <=> l = 0)
  BY <1>1, <1>7, <1>9
<1>12. InWindow(r, count + 1, l, quota)
  BY <1>4, <1>5, <1>6, <1>7, <1>9, <1>10, <1>11 DEF InWindow
<1>13. QED BY <1>3, <1>8, <1>12

\* One that is counted and whose answer is lost does not join the list.
LEMMA WindowCountsLost ==
  ASSUME NEW quota \in Nat, NEW p, NEW count, NEW left, quota > 0, count < quota,
         InWindow(p, count, left, quota)
  PROVE  InWindow(p, count + 1, IF count = 0 THEN Window ELSE left, quota)
<1>1. p \in Seq(Nat) /\ count \in 0..quota /\ left \in 0..Window /\ Sorted(p)
  BY DEF InWindow
<1>2. PICK L \in Nat : L = Len(p) /\ DOMAIN p = 1..L
  BY <1>1
<1>3. PICK m \in 0..L : m < quota /\ Split(p, count, left, m)
  BY <1>2 DEF InWindow
<1>4. PICK l : l = IF count = 0 THEN Window ELSE left
  OBVIOUS
<1>5. l \in 0..Window /\ l # 0 /\ count + 1 \in 0..quota /\ count + 1 > 0
  BY <1>1, <1>4, WindowAndQuota DEF InWindow
<1>6. L - m <= count
  BY <1>2, <1>3 DEF Split
<1>7. Split(p, count + 1, l, m)
  <2>1. L - m <= count + 1 /\ L - m # count + 1
    BY <1>1, <1>3, <1>6
  <2>2. CASE count = 0
    <3>1. m = L /\ l = Window
      BY <2>2, <1>3, <1>4, <1>6
    <3>2. \A i \in 1..m : p[i] \in Nat
      BY <3>1, <1>1, <1>2
    <3>3. QED BY <2>1, <3>1, <3>2, <1>2, WindowAndQuota DEF Split
  <2>3. CASE count # 0
    <3>1. count > 0 /\ l = left
      BY <2>3, <1>1, <1>4
    <3>2. QED BY <2>1, <3>1, <1>2, <1>3 DEF Split
  <2>4. QED BY <2>2, <2>3
<1>8. count + 1 = 0 <=> l = 0
  BY <1>5
<1>9. InWindow(p, count + 1, l, quota)
  <2>1. \A i \in 1..Len(p) : p[i] < Window
    BY DEF InWindow
  <2>2. QED BY <1>1, <1>2, <1>3, <1>5, <1>7, <1>8, <2>1 DEF InWindow
<1>10. QED BY <1>4, <1>9

LimitInv ==
  /\ window \in [Keys -> [count : Nat, left : Nat]]
  /\ passed \in [Keys -> Seq(Nat)]
  /\ \A k \in Keys : InWindow(passed[k], window[k].count, window[k].left, Quota[k])

LEMMA LimitCounts ==
  ASSUME LimitInv, NEW id, id \in Keys => ~Exhausted(id),
         window' = [window EXCEPT ![id] = Counted(id)],
         \/ passed' = passed
         \/ passed' = [passed EXCEPT ![id] = Append(@, 0)]
  PROVE  LimitInv'
<1>1. ASSUME id \in Keys
      PROVE  /\ window[id].count \in Nat /\ window[id].left \in Nat
             /\ Counted(id) \in [count : Nat, left : Nat]
             /\ Counted(id).count = window[id].count + 1
             /\ Counted(id).left = IF window[id].count = 0 THEN Window ELSE window[id].left
             /\ window[id].count < Quota[id]
             /\ Append(passed[id], 0) \in Seq(Nat)
  <2>1. window[id].count \in Nat /\ window[id].left \in Nat /\ passed[id] \in Seq(Nat)
    BY <1>1 DEF LimitInv
  <2>2. ~(window[id].count >= Quota[id]) /\ Quota[id] \in Nat
    BY <1>1, WindowAndQuota DEF Exhausted
  <2>3. QED BY <2>1, <2>2, WindowAndQuota, AppendedZero DEF Counted
<1>2. window' \in [Keys -> [count : Nat, left : Nat]] /\ passed' \in [Keys -> Seq(Nat)]
  <2>1. window' \in [Keys -> [count : Nat, left : Nat]]
    BY <1>1 DEF LimitInv
  <2>2. passed' \in [Keys -> Seq(Nat)]
    BY <1>1 DEF LimitInv
  <2>3. QED BY <2>1, <2>2
<1>3. ASSUME NEW k \in Keys
      PROVE  InWindow(passed'[k], window'[k].count, window'[k].left, Quota[k])
  <2>1. InWindow(passed[k], window[k].count, window[k].left, Quota[k])
    BY DEF LimitInv
  <2>2. CASE k # id
    <3>1. window'[k] = window[k] /\ passed'[k] = passed[k]
      BY <2>2 DEF LimitInv
    <3>2. QED BY <2>1, <3>1
  <2>3. CASE k = id
    <3>1. PICK p, count, left, quota :
            /\ p = passed[k] /\ count = window[k].count /\ left = window[k].left
            /\ quota = Quota[k]
      OBVIOUS
    <3>2. quota \in Nat /\ quota > 0 /\ count < quota
      BY <2>3, <3>1, <1>1, WindowAndQuota
    <3>3. InWindow(p, count, left, quota)
      BY <2>1, <3>1
    <3>4. /\ InWindow(Append(p, 0), count + 1, IF count = 0 THEN Window ELSE left, quota)
          /\ InWindow(p, count + 1, IF count = 0 THEN Window ELSE left, quota)
      BY <3>2, <3>3, WindowCounts, WindowCountsLost
    <3>5. window'[k] = Counted(id)
      BY <2>3 DEF LimitInv
    <3>6. /\ window'[k].count = count + 1
          /\ window'[k].left = IF count = 0 THEN Window ELSE left
      BY <3>1, <3>5, <2>3, <1>1
    <3>7. passed'[k] = p \/ passed'[k] = Append(p, 0)
      BY <2>3, <3>1 DEF LimitInv
    <3>8. QED BY <3>1, <3>4, <3>6, <3>7
  <2>4. QED BY <2>2, <2>3
<1>4. QED BY <1>2, <1>3 DEF LimitInv

LEMMA LimitTicks ==
  ASSUME LimitInv, PassTime
  PROVE  LimitInv'
<1>1. ASSUME NEW k \in Keys
      PROVE  /\ window'[k] = Ending(window[k]) /\ passed'[k] = Recent(passed[k])
             /\ InWindow(passed'[k], window'[k].count, window'[k].left, Quota[k])
             /\ window'[k] \in [count : Nat, left : Nat] /\ passed'[k] \in Seq(Nat)
  <2>1. window'[k] = Ending(window[k]) /\ passed'[k] = Recent(passed[k])
    BY DEF PassTime
  <2>2. PICK p, count, left, quota :
          /\ p = passed[k] /\ count = window[k].count /\ left = window[k].left
          /\ quota = Quota[k]
    OBVIOUS
  <2>3. quota \in Nat /\ quota > 0 /\ count \in Nat /\ left \in Nat
    BY <2>2, WindowAndQuota DEF LimitInv
  <2>4. InWindow(p, count, left, quota)
    BY <2>2 DEF LimitInv
  <2>5. IF left <= 1 THEN InWindow(Recent(p), 0, 0, quota)
                     ELSE InWindow(Recent(p), count, left - 1, quota)
    BY <2>3, <2>4, WindowTicks
  <2>6. IF left <= 1 THEN window'[k].count = 0 /\ window'[k].left = 0
                     ELSE window'[k].count = count /\ window'[k].left = left - 1
    BY <2>1, <2>2, <2>3 DEF Ending, Closed, LimitInv
  <2>7. window'[k] \in [count : Nat, left : Nat]
    <3>1. PICK w \in [count : Nat, left : Nat] : w = window[k]
      BY DEF LimitInv
    <3>2. CASE w.left <= 1
      BY <2>1, <3>1, <3>2 DEF Ending, Closed
    <3>3. CASE ~(w.left <= 1)
      <4>1. w.left - 1 \in Nat
        BY <3>3
      <4>2. window'[k] = [w EXCEPT !.left = w.left - 1]
        BY <2>1, <3>1, <3>3 DEF Ending
      <4>3. QED BY <4>1, <4>2
    <3>4. QED BY <3>2, <3>3
  <2>8. InWindow(passed'[k], window'[k].count, window'[k].left, Quota[k])
    BY <2>1, <2>2, <2>5, <2>6
  <2>9. passed'[k] \in Seq(Nat)
    BY <2>8 DEF InWindow
  <2>10. QED BY <2>1, <2>7, <2>8, <2>9
<1>2. window' \in [Keys -> [count : Nat, left : Nat]] /\ passed' \in [Keys -> Seq(Nat)]
  <2>1. /\ window' = [k \in Keys |-> Ending(window[k])]
        /\ passed' = [k \in Keys |-> Recent(passed[k])]
    BY DEF PassTime
  <2>2. QED BY <2>1, <1>1
<1>3. QED BY <1>1, <1>2 DEF LimitInv

LEMMA LimitInvHolds == ApiSpec => []LimitInv
<1>1. ApiInit => LimitInv
  <2>1. SUFFICES ASSUME ApiInit, NEW k \in Keys
                 PROVE  InWindow(passed[k], window[k].count, window[k].left, Quota[k])
    <3>1. Closed \in [count : Nat, left : Nat] /\ <<>> \in Seq(Nat)
      BY DEF Closed
    <3>2. QED BY <3>1 DEF ApiInit, LimitInv
  <2>2. passed[k] = <<>> /\ window[k].count = 0 /\ window[k].left = 0
    BY <2>1 DEF ApiInit, Closed
  <2>3. Quota[k] \in Nat /\ Quota[k] > 0 /\ Window \in Nat
    BY WindowAndQuota
  <2>4. Split(<<>>, 0, 0, 0)
    BY DEF Split
  <2>5. QED BY <2>2, <2>3, <2>4 DEF InWindow, Sorted
<1>2. ASSUME LimitInv, [ApiNext]_apiVars PROVE LimitInv'
  <2>1. ASSUME UNCHANGED <<window, passed>> PROVE LimitInv'
    BY <1>2, <2>1 DEF LimitInv
  <2>2. ASSUME NEW c \in Calls,
               Send(c) \/ Refuse(c) \/ See(c) \/ Pass(c) \/ Write(c) \/ Fault(c) \/ Lose(c)
        PROVE  LimitInv'
    BY <2>1, <2>2 DEF Send, Refuse, See, Pass, Write, Fault, Lose
  <2>3. ASSUME NEW c \in Calls, Count(c) PROVE LimitInv'
    <3>1. PICK id : id = StepOf(c).key
      OBVIOUS
    <3>2. CASE Exhausted(id)
      <4>1. UNCHANGED <<window, passed>>
        BY <2>3, <3>1, <3>2 DEF Count
      <4>2. QED BY <4>1, <2>1
    <3>3. CASE ~Exhausted(id)
      <4>1. /\ window' = [window EXCEPT ![id] = Counted(id)]
            /\ passed' = [passed EXCEPT ![id] = Append(@, 0)]
        BY <2>3, <3>1, <3>3 DEF Count
      <4>2. QED BY <1>2, <3>3, <4>1, LimitCounts
    <3>4. QED BY <3>2, <3>3
  <2>4. ASSUME NEW c \in Calls, FaultCounted(c) PROVE LimitInv'
    <3>1. PICK id : id = StepOf(c).key
      OBVIOUS
    <3>2. /\ ~Exhausted(id) /\ passed' = passed
          /\ window' = [window EXCEPT ![id] = Counted(id)]
      BY <2>4, <3>1 DEF FaultCounted
    <3>3. QED BY <1>2, <3>2, LimitCounts
  <2>5. ASSUME PassTime PROVE LimitInv'
    BY <1>2, <2>5, LimitTicks
  <2>6. ASSUME Done \/ UNCHANGED apiVars PROVE LimitInv'
    BY <2>1, <2>6 DEF Done, apiVars
  <2>7. QED BY <1>2, <2>2, <2>3, <2>4, <2>5, <2>6 DEF ApiNext
<1>3. QED BY <1>1, <1>2, PTL DEF ApiSpec

\* Around the end of a window less than twice the quota passes, for any quota,
\* window and number of callers: InWindow ties what passed in the last window
\* to the counter and to the time it has left.
THEOREM LimitsHold == ApiSpec => []TwiceTheLimitAtMost
<1>1. ASSUME LimitInv PROVE TwiceTheLimitAtMost
  <2>1. SUFFICES ASSUME NEW k \in Keys PROVE Len(passed[k]) < 2 * Quota[k]
    BY DEF TwiceTheLimitAtMost
  <2>2. Quota[k] \in Nat /\ Quota[k] > 0
    BY WindowAndQuota
  <2>3. InWindow(passed[k], window[k].count, window[k].left, Quota[k])
    BY <1>1 DEF LimitInv
  <2>4. QED BY <2>2, <2>3, PassedAreFew
<1>2. QED BY LimitInvHolds, <1>1, PTL

(***************************************************************************)
(* The table of endpoints. Of each endpoint: what its steps may answer     *)
(* with is documented (Documenting), but for what the guard says of an     *)
(* avatar upload; none answers OK of itself, and no failing write is       *)
(* reported as a refusal (Honest); no write is skipped for its failure,    *)
(* but for logout (Surefire); after the first write no step refuses, and   *)
(* no refusal writes, but with the codes excepted (Ordered); and it takes  *)
(* effect once, unless it makes or stamps something (Repeatable). The      *)
(* lemmas compute this step by step, so that EveryEndpoint can state it    *)
(* for all of them.                                                        *)
(***************************************************************************)

\* What a step may answer with, unless it passes.
Says(step) == step.codes \cup {step.seen, step.fault}

\* The writes a request is for.
Effects == {"once", "put", "more"}

\* The codes are documented.
Explained(codes, documents) ==
  \A code \in codes, status \in RefusalStatuses :
    code \in CodesOf(status) \ ByFramework => <<status, code>> \in documents

Reading(step) == step.op \notin Writing

\* It does not answer OK unless it finds the effect in place, and a failing
\* write is no refusal.
Upright(step) ==
  /\ "OK" \notin step.codes /\ step.fault # "OK"
  /\ step.op \in Writing => step.fault \notin Refusals

\* A write for the request is not skipped when it fails.
Sure(step) == step.op \in Effects => step.fault # "IGNORED"

\* The answers of a step that may come after a write.
Firm(step, except) == Says(step) \cap Refusals \subseteq except

Documenting(steps, documents) ==
  \A i \in DOMAIN steps : Explained(Says(steps[i]), documents)

Honest(steps) == \A i \in DOMAIN steps : Upright(steps[i])

Surefire(steps) == \A i \in DOMAIN steps : Sure(steps[i])

Ordered(steps, except) ==
  /\ \A i, j \in DOMAIN steps : i < j /\ ~Reading(steps[i]) => Firm(steps[j], except)
  /\ \A i \in DOMAIN steps : steps[i].marks \subseteq except

\* The same rows however often they run.
Repeatable(steps) == \A i \in DOMAIN steps : steps[i].op # "more"

Listed(s) == \E S : s \in Seq(S)

LEMMA Joined ==
  ASSUME NEW s, NEW t, Listed(s), Listed(t)
  PROVE  /\ Listed(s \o t)
         /\ Len(s) \in Nat /\ DOMAIN s = 1..Len(s) /\ DOMAIN (s \o t) \subseteq Int
         /\ \A i \in DOMAIN (s \o t) :
              \/ i \in DOMAIN s /\ (s \o t)[i] = s[i]
              \/ i - Len(s) \in DOMAIN t /\ (s \o t)[i] = t[i - Len(s)] /\ i > Len(s)
         /\ s # <<>> => s \o t # <<>>
<1>1. PICK S : s \in Seq(S)
  BY DEF Listed
<1>2. PICK T : t \in Seq(T)
  BY DEF Listed
<1>3. PICK U : U = S \cup T
  OBVIOUS
<1>4. s \in Seq(U) /\ t \in Seq(U)
  BY <1>1, <1>2, <1>3
<1>5. s \o t \in Seq(U)
  BY <1>4
<1>6. QED BY <1>4, <1>5 DEF Listed

\* Steps before which others are put, that write nothing.
LEMMA JoinedSteps ==
  ASSUME NEW s, NEW t, Listed(s), Listed(t), NEW documents, NEW except
  PROVE  /\ Documenting(s, documents) /\ Documenting(t, documents)
              => Documenting(s \o t, documents)
         /\ Honest(s) /\ Honest(t) => Honest(s \o t)
         /\ Surefire(s) /\ Surefire(t) => Surefire(s \o t)
         /\ Repeatable(s) /\ Repeatable(t) => Repeatable(s \o t)
         /\ (\A i \in DOMAIN s : Reading(s[i]) /\ s[i].marks = {}) /\ Ordered(t, except)
              => Ordered(s \o t, except)
<1>1. PICK st : st = s \o t
  OBVIOUS
<1>2. \A i \in DOMAIN st :
        \/ i \in DOMAIN s /\ st[i] = s[i]
        \/ i - Len(s) \in DOMAIN t /\ st[i] = t[i - Len(s)] /\ i > Len(s)
  BY <1>1, Joined
<1>3. DOMAIN st \subseteq Int /\ Len(s) \in Nat /\ DOMAIN s = 1..Len(s)
  BY <1>1, Joined
<1>4. Documenting(s, documents) /\ Documenting(t, documents) => Documenting(st, documents)
  BY ONLY <1>2 DEF Documenting
<1>5. (Honest(s) /\ Honest(t) => Honest(st)) /\ (Surefire(s) /\ Surefire(t) => Surefire(st))
      /\ (Repeatable(s) /\ Repeatable(t) => Repeatable(st))
  BY ONLY <1>2 DEF Honest, Surefire, Repeatable
<1>6. ASSUME \A i \in DOMAIN s : Reading(s[i]) /\ s[i].marks = {}, Ordered(t, except)
      PROVE  Ordered(st, except)
  <2>1. ASSUME NEW i \in DOMAIN st, NEW j \in DOMAIN st, i < j, ~Reading(st[i])
        PROVE  Firm(st[j], except)
    <3>1. i - Len(s) \in DOMAIN t /\ st[i] = t[i - Len(s)] /\ i > Len(s)
      BY <2>1, <1>2, <1>6
    <3>2. j - Len(s) \in DOMAIN t /\ st[j] = t[j - Len(s)]
      BY <2>1, <3>1, <1>2, <1>3
    <3>3. i - Len(s) < j - Len(s)
      BY <2>1, <1>3
    <3>4. QED BY <1>6, <2>1, <3>1, <3>2, <3>3 DEF Ordered
  <2>2. ASSUME NEW i \in DOMAIN st PROVE st[i].marks \subseteq except
    BY <1>2, <1>6, <2>2 DEF Ordered
  <2>3. QED BY <2>1, <2>2 DEF Ordered
<1>7. QED BY <1>1, <1>4, <1>5, <1>6

\* With which status a code is sent.
LEMMA CodeStatus ==
  ASSUME NEW status \in RefusalStatuses
  PROVE  /\ \A code \in {"INVALID_OTP", "IDEMPOTENCY_KEY_REQUIRED", "IDEMPOTENCY_KEY_INVALID",
                         "INVALID_CONTACT_PHONE", "DISPLAY_NAME_INVALID",
                         "SPLIT_VALIDATION_ERROR", "INVALID_EXPENSE_CURSOR",
                         "EXPENSE_COMMENT_INVALID_PARENT", "GROUP_INVITE_NOT_PENDING",
                         "INVITE_SELF", "AVATAR_FILE_REQUIRED", "AVATAR_FILE_TYPE_INVALID",
                         "RECEIPT_FILE_TYPE_MISMATCH", "RECEIPT_FILE_TYPE_INVALID"} :
              code \in CodesOf(status) <=> status = 400
         /\ \A code \in GuardCodes \cup {"REFRESH_TOKEN_INVALID", "REFRESH_TOKEN_EXPIRED",
                                         "TOKEN_REUSED"} :
              code \in CodesOf(status) <=> status = 401
         /\ \A code \in {"ACCOUNT_INACTIVE", "NOT_GROUP_MEMBER", "GROUP_ADMIN_REQUIRED",
                         "GROUP_OWNER_REQUIRED", "GROUP_INVITE_PREVIEW_NOT_PENDING",
                         "GROUP_OWNER_PROTECTED", "ADMIN_REMOVE_REQUIRES_OWNER"} :
              code \in CodesOf(status) <=> status = 403
         /\ \A code \in {"USER_NOT_FOUND", "GROUP_NOT_FOUND", "EXPENSE_NOT_FOUND",
                         "GROUP_MEMBER_NOT_FOUND", "SESSION_NOT_FOUND"} :
              code \in CodesOf(status) <=> status = 404
         /\ \A code \in {"ALREADY_GROUP_MEMBER", "INVITE_ALREADY_PENDING",
                         "EXPENSE_STALE_VERSION", "IDEMPOTENCY_CONFLICT"} :
              code \in CodesOf(status) <=> status = 409
         /\ "OTP_EXPIRED" \in CodesOf(status) <=> status = 410
         /\ "SESSION_LOCKED" \in CodesOf(status) <=> status = 423
         /\ \A code \in {"MAX_ATTEMPTS", "COOLDOWN_ACTIVE", "RATE_LIMITED_PHONE",
                         "RATE_LIMITED_IP", "CONTACT_SYNC_RATE_LIMIT_USER",
                         "CONTACT_SYNC_RATE_LIMIT_IP", "VERIFY_RATE_LIMITED"} :
              code \in CodesOf(status) <=> status = 429
         /\ \A code \in {"UNHANDLED", "INTERNAL_ERROR", "IGNORED", "none", "OK", "LOST"} :
              code \notin CodesOf(status)
BY DEF CodesOf, SignInCodes, ResourceCodes, TokenCodes, FileCodes, FrameworkCodes,
       RefusalStatuses, ErrorCode, GuardCodes

Failures == {"UNHANDLED", "INTERNAL_ERROR", "IGNORED", "none", "OK", "LOST"}

LEMMA NoRefusal == Failures \cap Refusals = {}
BY CodeStatus DEF Refusals, Failures

LEMMA Framework ==
  /\ ByFramework = {"VALIDATION_ERROR", "UNKNOWN_ERROR", "TOO_MANY_REQUESTS"}
  /\ ErrorCode(400) = "VALIDATION_ERROR" /\ ErrorCode(429) = "TOO_MANY_REQUESTS"
  /\ ErrorCode(413) = "UNKNOWN_ERROR"
BY DEF ByFramework, ErrorCode

LEMMA ExplainedParts ==
  ASSUME NEW documents, NEW codes, NEW more, NEW others
  PROVE  /\ Explained(ByFramework \cup Failures, documents)
         /\ Explained(codes, documents) /\ Explained(more, documents)
              => Explained(codes \cup more, documents)
         /\ Explained(codes, documents) /\ more \subseteq codes => Explained(more, documents)
         /\ Explained(codes, documents) => Explained(codes, documents \cup others)
BY CodeStatus DEF Explained, Failures

\* The parts of a step whose refusals write nothing.
Shape(step, op, codes, seen, fault) ==
  /\ step.op = op /\ step.codes = codes /\ step.seen = seen /\ step.fault = fault
  /\ step.marks = {}

LEMMA Makers ==
  /\ \A codes, seen : Shape(Look(codes, seen), "look", codes, seen, "UNHANDLED")
  /\ \A codes : Shape(Check(codes), "look", codes, "none", "UNHANDLED")
  /\ \A codes : Shape(Pure(codes), "look", codes, "none", "none")
  /\ \A seen : Shape(Once(seen), "once", {}, seen, "UNHANDLED")
  /\ \A id, code : Shape(Limit(id, code), "limit", {code}, "none", "UNHANDLED")
  /\ Shape(Call, "look", {}, "none", "UNHANDLED")
  /\ Shape(Put, "put", {}, "none", "UNHANDLED")
  /\ Shape(More, "more", {}, "none", "UNHANDLED")
  /\ Shape(Side, "side", {}, "none", "UNHANDLED")
<1> USE DEF Shape, Look, Check
<1>1. \A codes, seen : Shape(Look(codes, seen), "look", codes, seen, "UNHANDLED")
  OBVIOUS
<1>2. \A codes : Shape(Check(codes), "look", codes, "none", "UNHANDLED")
  OBVIOUS
<1>3. \A codes : Shape(Pure(codes), "look", codes, "none", "none")
  BY DEF Pure
<1>4. \A seen : Shape(Once(seen), "once", {}, seen, "UNHANDLED")
  BY DEF Once
<1>5. \A id, code : Shape(Limit(id, code), "limit", {code}, "none", "UNHANDLED")
  BY DEF Limit
<1>6. Shape(Call, "look", {}, "none", "UNHANDLED")
  BY DEF Call
<1>7. Shape(Put, "put", {}, "none", "UNHANDLED")
  BY DEF Put, Call
<1>8. Shape(More, "more", {}, "none", "UNHANDLED")
  BY DEF More, Call
<1>9. Shape(Side, "side", {}, "none", "UNHANDLED")
  BY DEF Side, Call
<1>10. QED BY <1>1, <1>2, <1>3, <1>4, <1>5, <1>6, <1>7, <1>8, <1>9

LEMMA ChangedSteps ==
  /\ \A seen, codes : Shape(Raced(Once(seen), codes), "once", codes, seen, "UNHANDLED")
  /\ \A codes : Shape(Raced(Put, codes), "put", codes, "none", "UNHANDLED")
  /\ \A codes : Shape(Raced(More, codes), "more", codes, "none", "UNHANDLED")
  /\ Shape(Quiet(Put), "put", {}, "none", "IGNORED")
  /\ Shape(Quiet(Call), "look", {}, "none", "IGNORED")
  /\ Shape(Emit, "side", {}, "none", "IGNORED")
<1> USE DEF Shape, Look, Check, Call
<1>1. \A seen, codes : Shape(Raced(Once(seen), codes), "once", codes, seen, "UNHANDLED")
  BY DEF Raced, Once
<1>2. \A codes : Shape(Raced(Put, codes), "put", codes, "none", "UNHANDLED")
  BY DEF Raced, Put
<1>3. \A codes : Shape(Raced(More, codes), "more", codes, "none", "UNHANDLED")
  BY DEF Raced, More
<1>4. Shape(Quiet(Put), "put", {}, "none", "IGNORED")
  BY DEF Quiet, Put
<1>5. Shape(Quiet(Call), "look", {}, "none", "IGNORED")
  BY DEF Quiet
<1>6. Shape(Emit, "side", {}, "none", "IGNORED")
  BY DEF Emit, Quiet, Side
<1>7. QED BY <1>1, <1>2, <1>3, <1>4, <1>5, <1>6

LEMMA SharedChecks ==
  /\ Shape(Throttler, "look", {ErrorCode(429)}, "none", "none")
  /\ Shape(JwtAuthGuard, "look", GuardCodes, "none", "INVALID_TOKEN")
  /\ Shape(Validated, "look", {ErrorCode(400)}, "none", "none")
  /\ Shape(Caller, "look", {"USER_NOT_FOUND", "ACCOUNT_INACTIVE"}, "none", "UNHANDLED")
  /\ Shape(GroupFound, "look", {"GROUP_NOT_FOUND"}, "none", "UNHANDLED")
  /\ Shape(Member, "look", {"GROUP_NOT_FOUND", "NOT_GROUP_MEMBER"}, "none", "UNHANDLED")
  /\ Shape(AdminOrOwner, "look", {"GROUP_NOT_FOUND", "NOT_GROUP_MEMBER",
                                  "GROUP_ADMIN_REQUIRED"}, "none", "UNHANDLED")
  /\ Shape(Owner, "look", {"GROUP_NOT_FOUND", "NOT_GROUP_MEMBER",
                           "GROUP_OWNER_REQUIRED"}, "none", "UNHANDLED")
  /\ Shape(ExpenseFound, "look", {"EXPENSE_NOT_FOUND"}, "none", "UNHANDLED")
<1>1. Shape(JwtAuthGuard, "look", GuardCodes, "none", "INVALID_TOKEN")
  BY DEF Shape, JwtAuthGuard, Check, Look
<1>2. Shape(Throttler, "look", {ErrorCode(429)}, "none", "none")
      /\ Shape(Validated, "look", {ErrorCode(400)}, "none", "none")
  BY Makers DEF Throttler, Validated
<1>3. /\ Shape(Caller, "look", {"USER_NOT_FOUND", "ACCOUNT_INACTIVE"}, "none", "UNHANDLED")
      /\ Shape(GroupFound, "look", {"GROUP_NOT_FOUND"}, "none", "UNHANDLED")
      /\ Shape(Member, "look", {"GROUP_NOT_FOUND", "NOT_GROUP_MEMBER"}, "none", "UNHANDLED")
      /\ Shape(ExpenseFound, "look", {"EXPENSE_NOT_FOUND"}, "none", "UNHANDLED")
  BY Makers DEF Caller, GroupFound, Member, ExpenseFound
<1>4. Member.codes = {"GROUP_NOT_FOUND", "NOT_GROUP_MEMBER"}
  BY <1>3 DEF Shape
<1>5. /\ Shape(AdminOrOwner, "look", Member.codes \cup {"GROUP_ADMIN_REQUIRED"}, "none", "UNHANDLED")
      /\ Shape(Owner, "look", Member.codes \cup {"GROUP_OWNER_REQUIRED"}, "none", "UNHANDLED")
  BY Makers DEF AdminOrOwner, Owner
<1>6. /\ Member.codes \cup {"GROUP_ADMIN_REQUIRED"}
           = {"GROUP_NOT_FOUND", "NOT_GROUP_MEMBER", "GROUP_ADMIN_REQUIRED"}
      /\ Member.codes \cup {"GROUP_OWNER_REQUIRED"}
           = {"GROUP_NOT_FOUND", "NOT_GROUP_MEMBER", "GROUP_OWNER_REQUIRED"}
  BY <1>4
<1>7. QED BY <1>1, <1>2, <1>3, <1>5, <1>6

\* What the table has to say of an endpoint.
Formed(e) == Honest(e.steps) /\ Listed(e.steps) /\ e.steps # <<>>

Table(e) == Formed(e) /\ (e.documents # {} => Documenting(e.steps, e.documents))

\* A step that only looks.
Plain(step) == Reading(step) /\ Upright(step) /\ step.marks = {}

\* Steps that write nothing.
ReadOnly(steps) ==
  \A i \in DOMAIN steps :
    Reading(steps[i]) /\ Upright(steps[i]) /\ steps[i].marks = {}

LEMMA ReadOnlySteps ==
  ASSUME NEW s, ReadOnly(s)
  PROVE  Honest(s) /\ Surefire(s) /\ Repeatable(s) /\ Ordered(s, {})
BY DEF ReadOnly, Reading, Honest, Surefire, Sure, Effects, Writing, Repeatable, Ordered

LEMMA Guards ==
  /\ ReadOnly(<<Throttler>>) /\ ReadOnly(<<Throttler, JwtAuthGuard>>)
  /\ Listed(<<Throttler>>) /\ Listed(<<Throttler, JwtAuthGuard>>)
  /\ <<Throttler>> # <<>> /\ <<Throttler, JwtAuthGuard>> # <<>>
  /\ \A d : Documenting(<<Throttler>>, d)
  /\ \A d : Documenting(<<Throttler, JwtAuthGuard>>, d \cup Unauthorized)
<1>1. /\ Throttler.op = "look" /\ Throttler.codes = {"TOO_MANY_REQUESTS"}
      /\ Throttler.fault = "none" /\ Says(Throttler) = {"TOO_MANY_REQUESTS", "none"}
  BY SharedChecks, Framework DEF Shape, Says
<1>2. /\ JwtAuthGuard.op = "look" /\ JwtAuthGuard.codes = GuardCodes
      /\ JwtAuthGuard.fault = "INVALID_TOKEN" /\ Says(JwtAuthGuard) = GuardCodes \cup {"none", "INVALID_TOKEN"}
  BY SharedChecks DEF Shape, Says
<1>3. PICK a, b : a = Throttler /\ b = JwtAuthGuard
  OBVIOUS
<1>4. Reading(a) /\ Upright(a) /\ a.marks = {} /\ Reading(b) /\ Upright(b) /\ b.marks = {}
  BY <1>1, <1>2, <1>3, SharedChecks DEF Reading, Upright, Writing, GuardCodes, Shape
<1>5. ReadOnly(<<a>>) /\ ReadOnly(<<a, b>>)
  BY ONLY <1>4 DEF ReadOnly
<1>6. Listed(<<a>>) /\ Listed(<<a, b>>) /\ <<a>> # <<>> /\ <<a, b>> # <<>>
  <2>1. <<a>> \in Seq({a, b}) /\ <<a, b>> \in Seq({a, b})
    BY ONLY TRUE
  <2>2. QED BY ONLY <2>1 DEF Listed
<1>7. ASSUME NEW d PROVE Explained(Says(a), d) /\ Explained(Says(b), d \cup Unauthorized)
  <2>1. Explained(Says(a), d)
    BY <1>1, <1>3, ExplainedParts, Framework DEF Failures
  <2>2. Explained(GuardCodes \cup {"none"}, d \cup Unauthorized)
    BY CodeStatus DEF Explained, Unauthorized, Documented, GuardCodes
  <2>3. Says(b) = GuardCodes \cup {"none"}
    BY <1>2, <1>3 DEF GuardCodes
  <2>4. QED BY <2>1, <2>2, <2>3
<1>8. ASSUME NEW d PROVE Documenting(<<a>>, d) /\ Documenting(<<a, b>>, d \cup Unauthorized)
  <2>1. \A i \in DOMAIN <<a>> : <<a>>[i] = a
    BY ONLY TRUE
  <2>2. \A i \in DOMAIN <<a, b>> : <<a, b>>[i] = a \/ <<a, b>>[i] = b
    BY ONLY TRUE
  <2>3. Explained(Says(a), d) /\ Explained(Says(a), d \cup Unauthorized)
        /\ Explained(Says(b), d \cup Unauthorized)
    BY <1>7
  <2>4. QED BY ONLY <2>1, <2>2, <2>3 DEF Documenting
<1>9. QED BY <1>3, <1>5, <1>6, <1>8

Kept(s, t) ==
  /\ Surefire(s) => Surefire(t)
  /\ \A except : Ordered(s, except) => Ordered(t, except)
  /\ Repeatable(s) => Repeatable(t)

LEMMA PrivateTable ==
  ASSUME NEW s, Listed(s), Honest(s), NEW d, d = {} \/ Documenting(s, d)
  PROVE  Table(Private(s, d)) /\ Kept(s, Private(s, d).steps)
<1>1. PICK g, t : g = <<Throttler, JwtAuthGuard>> /\ t = g \o s
  OBVIOUS
<1>2. ReadOnly(g) /\ Listed(g) /\ g # <<>> /\ Documenting(g, d \cup Unauthorized)
  BY <1>1, Guards
<1>3. Private(s, d).steps = t /\ Private(s, d).documents = (IF d = {} THEN {} ELSE d \cup Unauthorized)
  BY <1>1 DEF Private, Guarded
<1>4. /\ Honest(g) /\ Surefire(g) /\ Repeatable(g)
      /\ \A i \in DOMAIN g : Reading(g[i]) /\ g[i].marks = {}
  BY <1>2, ReadOnlySteps DEF ReadOnly
<1>5. Honest(t) /\ Kept(s, t)
  BY <1>1, <1>2, <1>4, JoinedSteps DEF Kept
<1>6. Listed(t) /\ t # <<>>
  BY <1>1, <1>2, Joined
<1>7. ASSUME d # {} PROVE Documenting(t, d \cup Unauthorized)
  <2>1. Documenting(s, d \cup Unauthorized)
    BY <1>7, ExplainedParts DEF Documenting
  <2>2. QED BY <2>1, <1>1, <1>2, JoinedSteps
<1>8. QED BY <1>3, <1>5, <1>6, <1>7 DEF Table, Formed

LEMMA PublicTable ==
  ASSUME NEW s, Listed(s), Honest(s), NEW d, d = {} \/ Documenting(s, d)
  PROVE  Table(Public(s, d)) /\ Kept(s, Public(s, d).steps)
<1>1. PICK g, t : g = <<Throttler>> /\ t = g \o s
  OBVIOUS
<1>2. ReadOnly(g) /\ Listed(g) /\ g # <<>> /\ Documenting(g, d)
  BY <1>1, Guards
<1>3. Public(s, d).steps = t /\ Public(s, d).documents = d
  BY <1>1 DEF Public
<1>4. /\ Honest(g) /\ Surefire(g) /\ Repeatable(g)
      /\ \A i \in DOMAIN g : Reading(g[i]) /\ g[i].marks = {}
  BY <1>2, ReadOnlySteps DEF ReadOnly
<1>5. Honest(t) /\ Kept(s, t)
  BY <1>1, <1>2, <1>4, JoinedSteps DEF Kept
<1>6. Listed(t) /\ t # <<>>
  BY <1>1, <1>2, Joined
<1>7. ASSUME d # {} PROVE Documenting(t, d)
  BY <1>7, <1>1, <1>2, JoinedSteps
<1>8. QED BY <1>3, <1>5, <1>6, <1>7 DEF Table, Formed

LEMMA ReadingEndpoints ==
  ASSUME NEW s, Listed(s), ReadOnly(s), NEW d, d = {} \/ Documenting(s, d)
  PROVE  LET e == Private(s, d) IN
         Table(e) /\ Surefire(e.steps) /\ Ordered(e.steps, {}) /\ Repeatable(e.steps)
BY ReadOnlySteps, PrivateTable DEF Kept

\* The steps the endpoints share.
LEMMA PlainSteps ==
  /\ Plain(Call) /\ Plain(Validated) /\ Plain(Caller) /\ Plain(GroupFound) /\ Plain(Member)
  /\ Plain(AdminOrOwner) /\ Plain(Owner) /\ Plain(ExpenseFound) /\ Plain(Quiet(Call))
  /\ \A codes : "OK" \notin codes => Plain(Check(codes)) /\ Plain(Pure(codes))
  /\ \A codes, seen : "OK" \notin codes => Plain(Look(codes, seen))
  /\ \A id, code : code # "OK" => Plain(Limit(id, code))
<1> USE DEF Plain, Reading, Upright, Shape, Writing
<1>1. \A codes : "OK" \notin codes => Plain(Check(codes)) /\ Plain(Pure(codes))
  BY Makers
<1>2. \A codes, seen : "OK" \notin codes => Plain(Look(codes, seen))
  BY Makers
<1>3. \A id, code : code # "OK" => Plain(Limit(id, code))
  BY Makers
<1>4. Plain(Call) /\ Plain(Quiet(Call))
  BY Makers, ChangedSteps
<1>5. Plain(Validated)
  BY SharedChecks, Framework
<1>6. Plain(Caller) /\ Plain(GroupFound) /\ Plain(ExpenseFound)
  BY SharedChecks
<1>7. Plain(Member) /\ Plain(AdminOrOwner) /\ Plain(Owner)
  BY SharedChecks
<1>8. QED BY <1>1, <1>2, <1>3, <1>4, <1>5, <1>6, <1>7

LEMMA ExplainedSteps ==
  ASSUME NEW d
  PROVE  /\ Explained(Says(Call), d) /\ Explained(Says(Validated), d)
         /\ Explained(Says(Put), d) /\ Explained(Says(More), d)
         /\ Explained(Says(Side), d) /\ Explained(Says(Emit), d)
         /\ \A codes : Explained(codes, d) =>
              /\ Explained(Says(Check(codes)), d) /\ Explained(Says(Pure(codes)), d)
              /\ Explained(Says(Raced(Put, codes)), d) /\ Explained(Says(Raced(More, codes)), d)
         /\ \A codes, seen : Explained(codes, d) /\ Explained({seen}, d) =>
              /\ Explained(Says(Look(codes, seen)), d)
              /\ Explained(Says(Raced(Once(seen), codes)), d)
         /\ \A id, code : Explained({code}, d) => Explained(Says(Limit(id, code)), d)
         /\ CallerDocs \subseteq d => Explained(Says(Caller), d)
         /\ <<404, "GROUP_NOT_FOUND">> \in d => Explained(Says(GroupFound), d)
         /\ MemberDocs \subseteq d =>
              Explained(Says(Member), d) /\ Explained(Says(Caller), d)
              /\ Explained(Says(GroupFound), d)
         /\ MemberDocs \subseteq d /\ <<403, "GROUP_ADMIN_REQUIRED">> \in d
              => Explained(Says(AdminOrOwner), d)
         /\ MemberDocs \subseteq d /\ <<403, "GROUP_OWNER_REQUIRED">> \in d
              => Explained(Says(Owner), d)
<1>1. Explained({"none", "UNHANDLED", "IGNORED", "VALIDATION_ERROR"}, d)
  BY ExplainedParts, Framework DEF Failures
<1>2. ASSUME NEW codes, Explained(codes, d)
      PROVE  Explained(codes \cup {"none", "UNHANDLED", "IGNORED", "VALIDATION_ERROR"}, d)
  BY <1>1, <1>2, ExplainedParts
<1>3. ASSUME NEW codes, Explained(codes, d)
      PROVE  /\ Explained(Says(Check(codes)), d) /\ Explained(Says(Pure(codes)), d)
             /\ Explained(Says(Raced(Put, codes)), d) /\ Explained(Says(Raced(More, codes)), d)
  <2>1. /\ Says(Check(codes)) \subseteq codes \cup {"none", "UNHANDLED", "IGNORED", "VALIDATION_ERROR"}
        /\ Says(Pure(codes)) \subseteq codes \cup {"none", "UNHANDLED", "IGNORED", "VALIDATION_ERROR"}
        /\ Says(Raced(Put, codes)) \subseteq codes \cup {"none", "UNHANDLED", "IGNORED", "VALIDATION_ERROR"}
        /\ Says(Raced(More, codes)) \subseteq codes \cup {"none", "UNHANDLED", "IGNORED", "VALIDATION_ERROR"}
    BY Makers, ChangedSteps DEF Shape, Says
  <2>2. QED BY <2>1, <1>2, <1>3, ExplainedParts, ZenonT(60)
<1>4. ASSUME NEW codes, Explained(codes, d), NEW seen, Explained({seen}, d)
      PROVE  /\ Explained(Says(Look(codes, seen)), d)
             /\ Explained(Says(Raced(Once(seen), codes)), d)
  <2>1. PICK all : all = codes \cup {seen}
    OBVIOUS
  <2>2. Explained(all \cup {"none", "UNHANDLED", "IGNORED", "VALIDATION_ERROR"}, d)
    BY <2>1, <1>2, <1>4, ExplainedParts
  <2>3. /\ Says(Look(codes, seen)) \subseteq all \cup {"none", "UNHANDLED", "IGNORED", "VALIDATION_ERROR"}
        /\ Says(Raced(Once(seen), codes)) \subseteq all \cup {"none", "UNHANDLED", "IGNORED", "VALIDATION_ERROR"}
    BY <2>1, Makers, ChangedSteps DEF Shape, Says
  <2>4. QED BY <2>2, <2>3, ExplainedParts
<1>5. ASSUME NEW id, NEW code, Explained({code}, d) PROVE Explained(Says(Limit(id, code)), d)
  <2>1. Says(Limit(id, code)) \subseteq {code} \cup {"none", "UNHANDLED", "IGNORED", "VALIDATION_ERROR"}
    BY Makers DEF Shape, Says
  <2>2. QED BY <2>1, <1>2, <1>5, ExplainedParts
<1>6. /\ Explained(Says(Call), d) /\ Explained(Says(Validated), d)
      /\ Explained(Says(Put), d) /\ Explained(Says(More), d)
      /\ Explained(Says(Side), d) /\ Explained(Says(Emit), d)
  <2>1. Says(Call) \cup Says(Validated) \cup Says(Put) \cup Says(More) \cup Says(Side) \cup Says(Emit)
          \subseteq {"none", "UNHANDLED", "IGNORED", "VALIDATION_ERROR"}
    BY Makers, ChangedSteps, SharedChecks, Framework DEF Shape, Says
  <2>2. QED BY <2>1, <1>1, ExplainedParts
<1>7. /\ Says(Caller) \subseteq {"USER_NOT_FOUND", "ACCOUNT_INACTIVE", "none", "UNHANDLED"}
      /\ Says(GroupFound) \subseteq {"GROUP_NOT_FOUND", "none", "UNHANDLED"}
      /\ Says(Member) \subseteq {"GROUP_NOT_FOUND", "NOT_GROUP_MEMBER", "none", "UNHANDLED"}
  BY SharedChecks DEF Shape, Says
<1>8. <<404, "GROUP_NOT_FOUND">> \in d => Explained({"GROUP_NOT_FOUND", "none", "UNHANDLED"}, d)
  BY CodeStatus DEF Explained
<1>9. CallerDocs \subseteq d =>
        Explained({"USER_NOT_FOUND", "ACCOUNT_INACTIVE", "none", "UNHANDLED"}, d)
  <2>1. CallerDocs \subseteq d => <<403, "ACCOUNT_INACTIVE">> \in d /\ <<404, "USER_NOT_FOUND">> \in d
    BY DEF CallerDocs, Documented
  <2>2. QED BY <2>1, CodeStatus DEF Explained
<1>10. MemberDocs \subseteq d =>
         /\ CallerDocs \subseteq d /\ <<404, "GROUP_NOT_FOUND">> \in d
         /\ Explained({"GROUP_NOT_FOUND", "NOT_GROUP_MEMBER", "none", "UNHANDLED"}, d)
  <2>1. MemberDocs \subseteq d => /\ CallerDocs \subseteq d /\ <<404, "GROUP_NOT_FOUND">> \in d
                                  /\ <<403, "NOT_GROUP_MEMBER">> \in d
    BY DEF CallerDocs, MemberDocs, Documented
  <2>2. QED BY <2>1, CodeStatus DEF Explained
<1>11. CallerDocs \subseteq d => Explained(Says(Caller), d)
  BY <1>7, <1>9, ExplainedParts
<1>12. <<404, "GROUP_NOT_FOUND">> \in d => Explained(Says(GroupFound), d)
  BY <1>7, <1>8, ExplainedParts
<1>13. MemberDocs \subseteq d => Explained(Says(Member), d)
  BY <1>7, <1>10, ExplainedParts
<1>14. ASSUME MemberDocs \subseteq d, <<403, "GROUP_ADMIN_REQUIRED">> \in d
       PROVE  Explained(Says(AdminOrOwner), d)
  <2>1. Explained({"GROUP_ADMIN_REQUIRED"}, d)
    BY <1>14, CodeStatus DEF Explained
  <2>2. Explained({"GROUP_NOT_FOUND", "NOT_GROUP_MEMBER", "none", "UNHANDLED"}
                  \cup {"GROUP_ADMIN_REQUIRED"}, d)
    BY <2>1, <1>10, <1>14, ExplainedParts
  <2>3. Says(AdminOrOwner) \subseteq {"GROUP_NOT_FOUND", "NOT_GROUP_MEMBER", "none", "UNHANDLED"}
                                     \cup {"GROUP_ADMIN_REQUIRED"}
    BY SharedChecks DEF Shape, Says
  <2>4. QED BY <2>2, <2>3, ExplainedParts
<1>15. ASSUME MemberDocs \subseteq d, <<403, "GROUP_OWNER_REQUIRED">> \in d
       PROVE  Explained(Says(Owner), d)
  <2>1. Explained({"GROUP_OWNER_REQUIRED"}, d)
    BY <1>15, CodeStatus DEF Explained
  <2>2. Explained({"GROUP_NOT_FOUND", "NOT_GROUP_MEMBER", "none", "UNHANDLED"}
                  \cup {"GROUP_OWNER_REQUIRED"}, d)
    BY <2>1, <1>10, <1>15, ExplainedParts
  <2>3. Says(Owner) \subseteq {"GROUP_NOT_FOUND", "NOT_GROUP_MEMBER", "none", "UNHANDLED"}
                              \cup {"GROUP_OWNER_REQUIRED"}
    BY SharedChecks DEF Shape, Says
  <2>4. QED BY <2>2, <2>3, ExplainedParts
<1>16. QED BY <1>3, <1>4, <1>5, <1>6, <1>10, <1>11, <1>12, <1>13, <1>14, <1>15

Reader(e) ==
  Table(e) /\ Surefire(e.steps) /\ Ordered(e.steps, {}) /\ Repeatable(e.steps)

LEMMA ListsAreListed ==
  ASSUME NEW a, NEW b, NEW c, NEW d, NEW e, NEW f, NEW g, NEW h, NEW j, NEW k
  PROVE  /\ Listed(<<>>)
         /\ Listed(<<a>>)
         /\ Listed(<<a, b>>)
         /\ Listed(<<a, b, c>>)
         /\ Listed(<<a, b, c, d>>)
         /\ Listed(<<a, b, c, d, e>>)
         /\ Listed(<<a, b, c, d, e, f>>)
         /\ Listed(<<a, b, c, d, e, f, g>>)
         /\ Listed(<<a, b, c, d, e, f, g, h>>)
         /\ Listed(<<a, b, c, d, e, f, g, h, j>>)
         /\ Listed(<<a, b, c, d, e, f, g, h, j, k>>)
<1>1. PICK S : S = {a, b, c, d, e, f, g, h, j, k}
  OBVIOUS
<1>2. a \in S /\ b \in S /\ c \in S /\ d \in S /\ e \in S /\ f \in S /\ g \in S /\ h \in S /\ j \in S /\ k \in S
  BY <1>1
<1>3. <<>> \in Seq(S)
  BY ONLY <1>2
<1>4. <<a>> \in Seq(S)
  BY ONLY <1>2
<1>5. <<a, b>> \in Seq(S)
  BY ONLY <1>2
<1>6. <<a, b, c>> \in Seq(S)
  BY ONLY <1>2
<1>7. <<a, b, c, d>> \in Seq(S)
  BY ONLY <1>2
<1>8. <<a, b, c, d, e>> \in Seq(S)
  BY ONLY <1>2
<1>9. <<a, b, c, d, e, f>> \in Seq(S)
  BY ONLY <1>2
<1>10. <<a, b, c, d, e, f, g>> \in Seq(S)
  BY ONLY <1>2
<1>11. <<a, b, c, d, e, f, g, h>> \in Seq(S)
  BY ONLY <1>2
<1>12. <<a, b, c, d, e, f, g, h, j>> \in Seq(S)
  BY ONLY <1>2
<1>13. <<a, b, c, d, e, f, g, h, j, k>> \in Seq(S)
  BY ONLY <1>2
<1>14. QED BY ONLY <1>3, <1>4, <1>5, <1>6, <1>7, <1>8, <1>9, <1>10, <1>11, <1>12, <1>13 DEF Listed

\* Writes, and what may come after them.
Writer(step) == Upright(step) /\ Sure(step) /\ step.marks = {}

\* A step that writes some of its refusals down.
Marker(step, except) == Upright(step) /\ Sure(step) /\ step.marks \subseteq except

LEMMA WritingSteps ==
  /\ Writer(Put) /\ Writer(More) /\ Writer(Side) /\ Writer(Emit)
  /\ \A codes : "OK" \notin codes =>
       Writer(Raced(Put, codes)) /\ Writer(Raced(More, codes))
  /\ \A codes, seen : "OK" \notin codes => Writer(Raced(Once(seen), codes))
  /\ \A step : Plain(step) => Writer(step) /\ step.op # "more"
  /\ \A except : /\ Firm(Call, except) /\ Firm(Put, except) /\ Firm(More, except)
                 /\ Firm(Side, except) /\ Firm(Emit, except)
                 /\ \A codes : codes \cap Refusals \subseteq except => Firm(Check(codes), except)
  /\ Put.op # "more" /\ Side.op # "more" /\ Emit.op # "more"
  /\ \A codes : Raced(Put, codes).op # "more"
  /\ \A codes, seen : Raced(Once(seen), codes).op # "more"
<1> USE DEF Writer, Upright, Sure, Shape, Effects, Writing
<1>1. "UNHANDLED" \notin Refusals /\ "IGNORED" \notin Refusals /\ "none" \notin Refusals
  BY NoRefusal DEF Failures
<1>2. Writer(Put) /\ Writer(More) /\ Writer(Side)
  BY <1>1, Makers
<1>3. Writer(Emit)
  BY <1>1, ChangedSteps
<1>4. ASSUME NEW codes, NEW seen, "OK" \notin codes
      PROVE  /\ Writer(Raced(Put, codes)) /\ Writer(Raced(More, codes))
             /\ Writer(Raced(Once(seen), codes))
  BY <1>1, <1>4, ChangedSteps
<1>5. \A step : Plain(step) => Writer(step) /\ step.op # "more"
  BY DEF Plain, Reading
<1>6. ASSUME NEW except
      PROVE  /\ Firm(Call, except) /\ Firm(Put, except) /\ Firm(More, except)
             /\ Firm(Side, except) /\ Firm(Emit, except)
  BY <1>1, Makers, ChangedSteps DEF Firm, Says
<1>7. ASSUME NEW except, NEW codes, codes \cap Refusals \subseteq except
      PROVE  Firm(Check(codes), except)
  BY <1>1, <1>7, Makers DEF Firm, Says
<1>8. Put.op # "more" /\ Side.op # "more" /\ Emit.op # "more"
  BY Makers, ChangedSteps
<1>9. \A codes, seen : Raced(Put, codes).op # "more" /\ Raced(Once(seen), codes).op # "more"
  BY ChangedSteps
<1>10. QED BY <1>2, <1>3, <1>4, <1>5, <1>6, <1>7, <1>8, <1>9

\* Steps that are honest, and of which none but the last ones write.
WritesLast(s, n, except) ==
  /\ \A i \in DOMAIN s : Writer(s[i]) \/ Marker(s[i], except)
  /\ \A i \in DOMAIN s : i <= n => Reading(s[i])
  /\ \A i \in DOMAIN s : i > n + 1 => Firm(s[i], except)

LEMMA WritingSequences ==
  ASSUME NEW s, Listed(s), NEW n \in Nat, NEW except, WritesLast(s, n, except)
  PROVE  Honest(s) /\ Surefire(s) /\ Ordered(s, except)
<1>1. DOMAIN s \subseteq Int
  BY DEF Listed
<1>2. \A i \in DOMAIN s : Upright(s[i]) /\ Sure(s[i]) /\ s[i].marks \subseteq except
  BY DEF WritesLast, Writer, Marker
<1>3. ASSUME NEW i \in DOMAIN s, NEW j \in DOMAIN s, i < j, ~Reading(s[i])
      PROVE  Firm(s[j], except)
  <2>1. j > n + 1
    BY <1>1, <1>3 DEF WritesLast
  <2>2. QED BY <2>1 DEF WritesLast
<1>4. QED BY <1>2, <1>3 DEF Ordered, Honest, Surefire

AlteringBut(e, except) == Table(e) /\ Surefire(e.steps) /\ Ordered(e.steps, except)

Altering(e) == AlteringBut(e, {})

LEMMA WritingEndpoints ==
  ASSUME NEW s, Listed(s), NEW n \in Nat, WritesLast(s, n, {}),
         NEW d, d = {} \/ Documenting(s, d)
  PROVE  /\ Altering(Private(s, d))
         /\ Altering(Public(s, d))
         /\ Repeatable(s) => Repeatable(Private(s, d).steps) /\ Repeatable(Public(s, d).steps)
BY WritingSequences, PrivateTable, PublicTable DEF Kept, Altering, AlteringBut

\* The endpoints of groups, users and tokens that only read.
LEMMA GroupReaders ==
  /\ Reader(ListMine)
  /\ Reader(ListMembers)
  /\ Reader(ListGroupActivity)
  /\ Reader(GetInvitePreview)
  /\ Reader(GetGroupMemberProfile)
  /\ Reader(GetMineById)
  /\ Reader(ListMyGroupInvites)
  /\ Reader(ListMyJoinedGroups)
  /\ Reader(ListMyGroupsHome)
  /\ Reader(SearchUsers)
  /\ Reader(GetMe)
<1>1. Reader(ListMine)
  <2>1. ReadOnly(ListMineSteps)
    BY PlainSteps DEF ReadOnly, Plain, ListMineSteps
  <2>2. Listed(ListMineSteps)
    BY ListsAreListed DEF ListMineSteps
  <2>3. PICK docs : docs = CallerDocs
    OBVIOUS
  <2>4. CallerDocs \subseteq docs
    BY <2>3 DEF CallerDocs, Documented
  <2>5. Documenting(ListMineSteps, docs)
    BY ONLY <2>4, ExplainedSteps DEF Documenting, ListMineSteps
  <2>6. QED BY <2>1, <2>2, <2>3, <2>5, ReadingEndpoints DEF ListMine, Reader
<1>2. Reader(ListMembers)
  <2>1. ReadOnly(ListMembersSteps)
    BY PlainSteps DEF ReadOnly, Plain, ListMembersSteps
  <2>2. Listed(ListMembersSteps)
    BY ListsAreListed DEF ListMembersSteps
  <2>3. PICK docs : docs = MemberDocs
    OBVIOUS
  <2>4. MemberDocs \subseteq docs
    BY <2>3 DEF MemberDocs, Documented
  <2>5. Documenting(ListMembersSteps, docs)
    BY ONLY <2>4, ExplainedSteps DEF Documenting, ListMembersSteps
  <2>6. QED BY <2>1, <2>2, <2>3, <2>5, ReadingEndpoints DEF ListMembers, Reader
<1>3. Reader(ListGroupActivity)
  <2>1. ReadOnly(ListGroupActivitySteps)
    BY PlainSteps DEF ReadOnly, Plain, ListGroupActivitySteps
  <2>2. Listed(ListGroupActivitySteps)
    BY ListsAreListed DEF ListGroupActivitySteps
  <2>3. PICK docs : docs = MemberDocs
    OBVIOUS
  <2>4. MemberDocs \subseteq docs
    BY <2>3 DEF MemberDocs, Documented
  <2>5. Documenting(ListGroupActivitySteps, docs)
    BY ONLY <2>4, ExplainedSteps DEF Documenting, ListGroupActivitySteps
  <2>6. QED BY <2>1, <2>2, <2>3, <2>5, ReadingEndpoints DEF ListGroupActivity, Reader
<1>4. Reader(GetInvitePreview)
  <2>1. ReadOnly(GetInvitePreviewSteps)
    BY PlainSteps DEF ReadOnly, Plain, GetInvitePreviewSteps
  <2>2. Listed(GetInvitePreviewSteps)
    BY ListsAreListed DEF GetInvitePreviewSteps
  <2>3. PICK docs : docs = Documented(403, {"ACCOUNT_INACTIVE", "GROUP_INVITE_PREVIEW_NOT_PENDING"})
                             \cup Documented(404, InviteeMissing)
    OBVIOUS
  <2>4. CallerDocs \subseteq docs /\ <<404, "GROUP_NOT_FOUND">> \in docs
    BY <2>3 DEF CallerDocs, Documented, InviteeMissing
  <2>5. Explained({"GROUP_MEMBER_NOT_FOUND", "GROUP_INVITE_PREVIEW_NOT_PENDING"}, docs)
    BY <2>3, CodeStatus DEF Explained, CallerDocs, MemberDocs, Documented, InviteeMissing
  <2>6. Documenting(GetInvitePreviewSteps, docs)
    BY ONLY <2>4, <2>5, ExplainedSteps DEF Documenting, GetInvitePreviewSteps
  <2>7. QED BY <2>1, <2>2, <2>3, <2>6, ReadingEndpoints DEF GetInvitePreview, Reader
<1>5. Reader(GetGroupMemberProfile)
  <2>1. ReadOnly(GetGroupProfileSteps)
    BY PlainSteps DEF ReadOnly, Plain, GetGroupProfileSteps
  <2>2. Listed(GetGroupProfileSteps)
    BY ListsAreListed DEF GetGroupProfileSteps
  <2>3. PICK docs : docs = MemberDocs
    OBVIOUS
  <2>4. MemberDocs \subseteq docs
    BY <2>3 DEF MemberDocs, Documented
  <2>5. Documenting(GetGroupProfileSteps, docs)
    BY ONLY <2>4, ExplainedSteps DEF Documenting, GetGroupProfileSteps
  <2>6. QED BY <2>1, <2>2, <2>3, <2>5, ReadingEndpoints DEF GetGroupMemberProfile, Reader
<1>6. Reader(GetMineById)
  <2>1. ReadOnly(GetMineByIdSteps)
    BY PlainSteps DEF ReadOnly, Plain, GetMineByIdSteps
  <2>2. Listed(GetMineByIdSteps)
    BY ListsAreListed DEF GetMineByIdSteps
  <2>3. PICK docs : docs = GroupDocs
    OBVIOUS
  <2>4. CallerDocs \subseteq docs /\ <<404, "GROUP_NOT_FOUND">> \in docs
    BY <2>3 DEF CallerDocs, Documented, GroupDocs
  <2>5. Documenting(GetMineByIdSteps, docs)
    BY ONLY <2>4, ExplainedSteps DEF Documenting, GetMineByIdSteps
  <2>6. QED BY <2>1, <2>2, <2>3, <2>5, ReadingEndpoints DEF GetMineById, Reader
<1>7. Reader(ListMyGroupInvites)
  <2>1. ReadOnly(ListPendingInvitesSteps)
    BY PlainSteps DEF ReadOnly, Plain, ListPendingInvitesSteps
  <2>2. Listed(ListPendingInvitesSteps)
    BY ListsAreListed DEF ListPendingInvitesSteps
  <2>3. PICK docs : docs = CallerDocs
    OBVIOUS
  <2>4. CallerDocs \subseteq docs
    BY <2>3 DEF CallerDocs, Documented
  <2>5. Documenting(ListPendingInvitesSteps, docs)
    BY ONLY <2>4, ExplainedSteps DEF Documenting, ListPendingInvitesSteps
  <2>6. QED BY <2>1, <2>2, <2>3, <2>5, ReadingEndpoints DEF ListMyGroupInvites, Reader
<1>8. Reader(ListMyJoinedGroups)
  <2>1. ReadOnly(ListMyActiveGroupsSteps)
    BY PlainSteps DEF ReadOnly, Plain, ListMyActiveGroupsSteps
  <2>2. Listed(ListMyActiveGroupsSteps)
    BY ListsAreListed DEF ListMyActiveGroupsSteps
  <2>3. PICK docs : docs = CallerDocs
    OBVIOUS
  <2>4. CallerDocs \subseteq docs
    BY <2>3 DEF CallerDocs, Documented
  <2>5. Documenting(ListMyActiveGroupsSteps, docs)
    BY ONLY <2>4, ExplainedSteps DEF Documenting, ListMyActiveGroupsSteps
  <2>6. QED BY <2>1, <2>2, <2>3, <2>5, ReadingEndpoints DEF ListMyJoinedGroups, Reader
<1>9. Reader(ListMyGroupsHome)
  <2>1. ReadOnly(ListMyGroupsHomeSteps)
    BY PlainSteps DEF ReadOnly, Plain, ListMyGroupsHomeSteps
  <2>2. Listed(ListMyGroupsHomeSteps)
    BY ListsAreListed DEF ListMyGroupsHomeSteps
  <2>3. PICK docs : docs = CallerDocs
    OBVIOUS
  <2>4. CallerDocs \subseteq docs
    BY <2>3 DEF CallerDocs, Documented
  <2>5. Documenting(ListMyGroupsHomeSteps, docs)
    BY ONLY <2>4, ExplainedSteps DEF Documenting, ListMyGroupsHomeSteps
  <2>6. QED BY <2>1, <2>2, <2>3, <2>5, ReadingEndpoints DEF ListMyGroupsHome, Reader
<1>10. Reader(SearchUsers)
  <2>1. ReadOnly(SearchUsersSteps)
    BY PlainSteps DEF ReadOnly, Plain, SearchUsersSteps
  <2>2. Listed(SearchUsersSteps)
    BY ListsAreListed DEF SearchUsersSteps
  <2>3. PICK docs : docs = CallerDocs
    OBVIOUS
  <2>4. CallerDocs \subseteq docs
    BY <2>3 DEF CallerDocs, Documented
  <2>5. Documenting(SearchUsersSteps, docs)
    BY ONLY <2>4, ExplainedSteps DEF Documenting, SearchUsersSteps
  <2>6. QED BY <2>1, <2>2, <2>3, <2>5, ReadingEndpoints DEF SearchUsers, Reader
<1>11. Reader(GetMe)
  <2>1. ReadOnly(FindUserSteps)
    BY PlainSteps DEF ReadOnly, Plain, FindUserSteps
  <2>2. Listed(FindUserSteps)
    BY ListsAreListed DEF FindUserSteps
  <2>3. PICK docs : docs = CallerDocs
    OBVIOUS
  <2>4. CallerDocs \subseteq docs
    BY <2>3 DEF CallerDocs, Documented
  <2>5. Documenting(FindUserSteps, docs)
    BY ONLY <2>4, ExplainedSteps DEF Documenting, FindUserSteps
  <2>6. QED BY <2>1, <2>2, <2>3, <2>5, ReadingEndpoints DEF GetMe, Reader
<1>12. QED BY <1>1, <1>2, <1>3, <1>4, <1>5, <1>6, <1>7, <1>8, <1>9, <1>10, <1>11

\* Those of expenses and analytics.
LEMMA ExpenseReaders ==
  /\ Reader(ClassifyExpense)
  /\ Reader(ListGroupExpenses)
  /\ Reader(GetGroupBalances)
  /\ Reader(GetExpenseDetail)
  /\ Reader(ListComments)
  /\ Reader(CategoryBreakdown)
  /\ Reader(MonthlyTrends)
  /\ Reader(TopSpenders)
  /\ Reader(Merchants)
  /\ Reader(Heatmap)
  /\ Reader(Recurring)
<1>1. Reader(ClassifyExpense)
  <2>1. ReadOnly(ClassifySteps)
    BY PlainSteps DEF ReadOnly, Plain, ClassifySteps
  <2>2. Listed(ClassifySteps)
    BY ListsAreListed DEF ClassifySteps
  <2>3. QED BY <2>1, <2>2, ReadingEndpoints DEF ClassifyExpense, Reader
<1>2. Reader(ListGroupExpenses)
  <2>1. ReadOnly(ExpenseFeedSteps)
    BY PlainSteps DEF ReadOnly, Plain, ExpenseFeedSteps
  <2>2. Listed(ExpenseFeedSteps)
    BY ListsAreListed DEF ExpenseFeedSteps
  <2>3. QED BY <2>1, <2>2, ReadingEndpoints DEF ListGroupExpenses, Reader
<1>3. Reader(GetGroupBalances)
  <2>1. ReadOnly(BalanceSteps)
    BY PlainSteps DEF ReadOnly, Plain, BalanceSteps
  <2>2. Listed(BalanceSteps)
    BY ListsAreListed DEF BalanceSteps
  <2>3. QED BY <2>1, <2>2, ReadingEndpoints DEF GetGroupBalances, Reader
<1>4. Reader(GetExpenseDetail)
  <2>1. ReadOnly(DetailSteps)
    BY PlainSteps DEF ReadOnly, Plain, DetailSteps
  <2>2. Listed(DetailSteps)
    BY ListsAreListed DEF DetailSteps
  <2>3. QED BY <2>1, <2>2, ReadingEndpoints DEF GetExpenseDetail, Reader
<1>5. Reader(ListComments)
  <2>1. ReadOnly(ListCommentsSteps)
    BY PlainSteps DEF ReadOnly, Plain, ListCommentsSteps
  <2>2. Listed(ListCommentsSteps)
    BY ListsAreListed DEF ListCommentsSteps
  <2>3. QED BY <2>1, <2>2, ReadingEndpoints DEF ListComments, Reader
<1>6. Reader(CategoryBreakdown)
  <2>1. ReadOnly(CachedReport)
    BY PlainSteps DEF ReadOnly, Plain, CachedReport
  <2>2. Listed(CachedReport)
    BY ListsAreListed DEF CachedReport
  <2>3. QED BY <2>1, <2>2, ReadingEndpoints DEF CategoryBreakdown, Reader
<1>7. Reader(MonthlyTrends)
  <2>1. ReadOnly(CachedReport)
    BY PlainSteps DEF ReadOnly, Plain, CachedReport
  <2>2. Listed(CachedReport)
    BY ListsAreListed DEF CachedReport
  <2>3. QED BY <2>1, <2>2, ReadingEndpoints DEF MonthlyTrends, Reader
<1>8. Reader(TopSpenders)
  <2>1. ReadOnly(UncachedReport)
    BY PlainSteps DEF ReadOnly, Plain, UncachedReport
  <2>2. Listed(UncachedReport)
    BY ListsAreListed DEF UncachedReport
  <2>3. QED BY <2>1, <2>2, ReadingEndpoints DEF TopSpenders, Reader
<1>9. Reader(Merchants)
  <2>1. ReadOnly(CachedReport)
    BY PlainSteps DEF ReadOnly, Plain, CachedReport
  <2>2. Listed(CachedReport)
    BY ListsAreListed DEF CachedReport
  <2>3. QED BY <2>1, <2>2, ReadingEndpoints DEF Merchants, Reader
<1>10. Reader(Heatmap)
  <2>1. ReadOnly(UncachedReport)
    BY PlainSteps DEF ReadOnly, Plain, UncachedReport
  <2>2. Listed(UncachedReport)
    BY ListsAreListed DEF UncachedReport
  <2>3. QED BY <2>1, <2>2, ReadingEndpoints DEF Heatmap, Reader
<1>11. Reader(Recurring)
  <2>1. ReadOnly(UncachedReport)
    BY PlainSteps DEF ReadOnly, Plain, UncachedReport
  <2>2. Listed(UncachedReport)
    BY ListsAreListed DEF UncachedReport
  <2>3. QED BY <2>1, <2>2, ReadingEndpoints DEF Recurring, Reader
<1>12. QED BY <1>1, <1>2, <1>3, <1>4, <1>5, <1>6, <1>7, <1>8, <1>9, <1>10, <1>11

\* The endpoints of groups and users that write.
LEMMA GroupWriters ==
  /\ Altering(AcceptInvite)
  /\ Altering(DeclineInvite) /\ Repeatable(DeclineInvite.steps)
  /\ Altering(AddMember(InvitePhoneSteps))
  /\ Altering(PatchMemberRole) /\ Repeatable(PatchMemberRole.steps)
  /\ Altering(RemoveMember) /\ Repeatable(RemoveMember.steps)
  /\ Altering(CreateGroup)
  /\ Altering(PatchMe(UpdateProfileSteps)) /\ Repeatable(PatchMe(UpdateProfileSteps).steps)
  /\ Altering(PatchMe(CompleteOnboardingSteps))
<1>1. Altering(AcceptInvite)
  <2>1. WritesLast(AcceptGroupInviteSteps, 4, {})
    BY PlainSteps, WritingSteps DEF WritesLast, Plain, AcceptGroupInviteSteps
  <2>2. Listed(AcceptGroupInviteSteps)
    BY ListsAreListed DEF AcceptGroupInviteSteps
  <2>3. PICK docs : docs = InviteeDocs
    OBVIOUS
  <2>4. CallerDocs \subseteq docs /\ <<404, "GROUP_NOT_FOUND">> \in docs
    BY <2>3 DEF CallerDocs, Documented, InviteeDocs, InviteeMissing
  <2>5. /\ Explained({"GROUP_MEMBER_NOT_FOUND"}, docs)
        /\ Explained({"OK"}, docs)
    BY <2>3, CodeStatus DEF Explained, CallerDocs, MemberDocs, Documented, InviteeDocs, InviteeMissing
  <2>6. Documenting(AcceptGroupInviteSteps, docs)
    BY ONLY <2>4, <2>5, ExplainedSteps DEF Documenting, AcceptGroupInviteSteps
  <2>7. QED BY <2>1, <2>2, <2>3, <2>6, WritingEndpoints DEF AcceptInvite, Reader
<1>2. Altering(DeclineInvite) /\ Repeatable(DeclineInvite.steps)
  <2>1. WritesLast(DeclineGroupInviteSteps, 4, {})
    BY PlainSteps, WritingSteps DEF WritesLast, Plain, DeclineGroupInviteSteps
  <2>2. Listed(DeclineGroupInviteSteps)
    BY ListsAreListed DEF DeclineGroupInviteSteps
  <2>3. Repeatable(DeclineGroupInviteSteps)
    BY PlainSteps, WritingSteps DEF Repeatable, DeclineGroupInviteSteps
  <2>4. PICK docs : docs = InviteeDocs
    OBVIOUS
  <2>5. CallerDocs \subseteq docs /\ <<404, "GROUP_NOT_FOUND">> \in docs
    BY <2>4 DEF CallerDocs, Documented, InviteeDocs, InviteeMissing
  <2>6. /\ Explained({"GROUP_MEMBER_NOT_FOUND", "GROUP_INVITE_NOT_PENDING"}, docs)
        /\ Explained({"GROUP_MEMBER_NOT_FOUND"}, docs)
    BY <2>4, CodeStatus DEF Explained, CallerDocs, MemberDocs, Documented, InviteeDocs, InviteeMissing
  <2>7. /\ Explained(Says(Look({"GROUP_MEMBER_NOT_FOUND", "GROUP_INVITE_NOT_PENDING"},
                                  "GROUP_MEMBER_NOT_FOUND")), docs)
        /\ Explained(Says(Raced(Once("GROUP_MEMBER_NOT_FOUND"), {"GROUP_MEMBER_NOT_FOUND"})), docs)
    BY ONLY <2>5, <2>6, ExplainedSteps
  <2>8. Documenting(DeclineGroupInviteSteps, docs)
    BY ONLY <2>5, <2>6, <2>7, ExplainedSteps DEF Documenting, DeclineGroupInviteSteps
  <2>9. QED BY <2>1, <2>2, <2>3, <2>4, <2>8, WritingEndpoints DEF DeclineInvite, Reader
<1>3. Altering(AddMember(InvitePhoneSteps))
  <2>1. WritesLast(InvitePhoneSteps, 5, {})
    BY PlainSteps, WritingSteps DEF WritesLast, Plain, InvitePhoneSteps
  <2>2. Listed(InvitePhoneSteps)
    BY ListsAreListed DEF InvitePhoneSteps
  <2>3. PICK docs : docs = AddMemberDocs
    OBVIOUS
  <2>4. <<403, "GROUP_ADMIN_REQUIRED">> \in docs
    BY <2>3 DEF Documented, AddMemberDocs
  <2>5. MemberDocs \subseteq docs
    BY <2>3 DEF MemberDocs, Documented, AddMemberDocs
  <2>6. Explained({"USER_NOT_FOUND", "INVITE_SELF"}, docs)
    BY <2>3, CodeStatus DEF Explained, CallerDocs, MemberDocs, Documented, AddMemberDocs
  <2>7. Documenting(InvitePhoneSteps, docs)
    BY ONLY <2>4, <2>5, <2>6, ExplainedSteps DEF Documenting, InvitePhoneSteps
  <2>8. QED BY <2>1, <2>2, <2>3, <2>7, WritingEndpoints DEF AddMember, AddMemberDocs
<1>4. Altering(PatchMemberRole) /\ Repeatable(PatchMemberRole.steps)
  <2>1. WritesLast(UpdateMemberRoleSteps, 5, {})
    BY PlainSteps, WritingSteps DEF WritesLast, Plain, UpdateMemberRoleSteps
  <2>2. Listed(UpdateMemberRoleSteps)
    BY ListsAreListed DEF UpdateMemberRoleSteps
  <2>3. Repeatable(UpdateMemberRoleSteps)
    BY PlainSteps, WritingSteps DEF Repeatable, UpdateMemberRoleSteps
  <2>4. PICK docs : docs = Documented(403, {"GROUP_OWNER_REQUIRED", "NOT_GROUP_MEMBER",
                                             "GROUP_OWNER_PROTECTED", "ACCOUNT_INACTIVE"})
                             \cup Documented(404, InviteeMissing)
    OBVIOUS
  <2>5. <<403, "GROUP_OWNER_REQUIRED">> \in docs
    BY <2>4 DEF Documented, InviteeMissing
  <2>6. MemberDocs \subseteq docs
    BY <2>4 DEF MemberDocs, Documented, InviteeMissing
  <2>7. /\ Explained({"GROUP_MEMBER_NOT_FOUND", "NOT_GROUP_MEMBER", "GROUP_OWNER_PROTECTED"}, docs)
        /\ Explained({"OK"}, docs)
        /\ Explained({"GROUP_MEMBER_NOT_FOUND"}, docs)
    BY <2>4, CodeStatus DEF Explained, CallerDocs, MemberDocs, Documented, InviteeMissing
  <2>8. Documenting(UpdateMemberRoleSteps, docs)
    BY ONLY <2>5, <2>6, <2>7, ExplainedSteps DEF Documenting, UpdateMemberRoleSteps
  <2>9. QED BY <2>1, <2>2, <2>3, <2>4, <2>8, WritingEndpoints DEF PatchMemberRole, Reader
<1>5. Altering(RemoveMember) /\ Repeatable(RemoveMember.steps)
  <2>1. WritesLast(RemoveMemberSteps, 5, {})
    BY PlainSteps, WritingSteps DEF WritesLast, Plain, RemoveMemberSteps
  <2>2. Listed(RemoveMemberSteps)
    BY ListsAreListed DEF RemoveMemberSteps
  <2>3. Repeatable(RemoveMemberSteps)
    BY PlainSteps, WritingSteps DEF Repeatable, RemoveMemberSteps
  <2>4. PICK docs : docs = Documented(403, {"GROUP_OWNER_PROTECTED", "ADMIN_REMOVE_REQUIRES_OWNER",
                                             "NOT_GROUP_MEMBER", "GROUP_ADMIN_REQUIRED", "ACCOUNT_INACTIVE"})
                             \cup Documented(404, InviteeMissing)
    OBVIOUS
  <2>5. <<403, "GROUP_ADMIN_REQUIRED">> \in docs
    BY <2>4 DEF Documented, InviteeMissing
  <2>6. MemberDocs \subseteq docs
    BY <2>4 DEF MemberDocs, Documented, InviteeMissing
  <2>7. /\ Explained({"GROUP_MEMBER_NOT_FOUND", "GROUP_OWNER_PROTECTED", "ADMIN_REMOVE_REQUIRES_OWNER"}, docs)
        /\ Explained({"GROUP_MEMBER_NOT_FOUND"}, docs)
    BY <2>4, CodeStatus DEF Explained, CallerDocs, MemberDocs, Documented, InviteeMissing
  <2>8. /\ Explained(Says(Look({"GROUP_MEMBER_NOT_FOUND", "GROUP_OWNER_PROTECTED",
                                   "ADMIN_REMOVE_REQUIRES_OWNER"}, "GROUP_MEMBER_NOT_FOUND")), docs)
        /\ Explained(Says(Raced(Once("GROUP_MEMBER_NOT_FOUND"), {"GROUP_MEMBER_NOT_FOUND"})), docs)
    BY ONLY <2>5, <2>6, <2>7, ExplainedSteps
  <2>9. Documenting(RemoveMemberSteps, docs)
    BY ONLY <2>5, <2>6, <2>7, <2>8, ExplainedSteps DEF Documenting, RemoveMemberSteps
  <2>10. QED BY <2>1, <2>2, <2>3, <2>4, <2>9, WritingEndpoints DEF RemoveMember, Reader
<1>6. Altering(CreateGroup)
  <2>1. WritesLast(CreateForUserSteps, 2, {})
    BY PlainSteps, WritingSteps DEF WritesLast, Plain, CreateForUserSteps
  <2>2. Listed(CreateForUserSteps)
    BY ListsAreListed DEF CreateForUserSteps
  <2>3. PICK docs : docs = CallerDocs
    OBVIOUS
  <2>4. CallerDocs \subseteq docs
    BY <2>3 DEF CallerDocs, Documented
  <2>5. Documenting(CreateForUserSteps, docs)
    BY ONLY <2>4, ExplainedSteps DEF Documenting, CreateForUserSteps
  <2>6. QED BY <2>1, <2>2, <2>3, <2>5, WritingEndpoints DEF CreateGroup, Reader
<1>7. Altering(PatchMe(UpdateProfileSteps)) /\ Repeatable(PatchMe(UpdateProfileSteps).steps)
  <2>1. WritesLast(UpdateProfileSteps, 3, {})
    BY PlainSteps, WritingSteps DEF WritesLast, Plain, UpdateProfileSteps
  <2>2. Listed(UpdateProfileSteps)
    BY ListsAreListed DEF UpdateProfileSteps
  <2>3. Repeatable(UpdateProfileSteps)
    BY PlainSteps, WritingSteps DEF Repeatable, UpdateProfileSteps
  <2>4. PICK docs : docs = CallerDocs \cup Documented(400, {"DISPLAY_NAME_INVALID"})
    OBVIOUS
  <2>5. CallerDocs \subseteq docs
    BY <2>4 DEF CallerDocs, Documented
  <2>6. /\ Explained({"DISPLAY_NAME_INVALID"}, docs)
        /\ Explained({"USER_NOT_FOUND"}, docs)
    BY <2>4, CodeStatus DEF Explained, CallerDocs, MemberDocs, Documented
  <2>7. Documenting(UpdateProfileSteps, docs)
    BY ONLY <2>5, <2>6, ExplainedSteps DEF Documenting, UpdateProfileSteps
  <2>8. QED BY <2>1, <2>2, <2>3, <2>4, <2>7, WritingEndpoints DEF PatchMe, Reader
<1>8. Altering(PatchMe(CompleteOnboardingSteps))
  <2>1. PICK codes : codes = Caller.codes
    OBVIOUS
  <2>2. codes = {"USER_NOT_FOUND", "ACCOUNT_INACTIVE"}
    BY <2>1, SharedChecks DEF Shape
  <2>3. PICK s : s = <<Validated, Look(codes, "OK"), Raced(More, {"USER_NOT_FOUND"})>>
    OBVIOUS
  <2>4. CompleteOnboardingSteps = s
    BY <2>1, <2>3 DEF CompleteOnboardingSteps
  <2>5. Plain(Look(codes, "OK")) /\ Writer(Raced(More, {"USER_NOT_FOUND"}))
    BY <2>2, PlainSteps, WritingSteps
  <2>6. WritesLast(s, 2, {})
    BY ONLY <2>3, <2>5, PlainSteps, WritingSteps DEF WritesLast, Plain
  <2>7. Listed(s)
    BY <2>3, ListsAreListed
  <2>8. PICK docs : docs = CallerDocs \cup Documented(400, {"DISPLAY_NAME_INVALID"})
    OBVIOUS
  <2>9. Explained(codes, docs) /\ Explained({"OK"}, docs) /\ Explained({"USER_NOT_FOUND"}, docs)
    BY <2>2, <2>8, CodeStatus DEF Explained, CallerDocs, Documented
  <2>10. Explained(Says(Look(codes, "OK")), docs)
         /\ Explained(Says(Raced(More, {"USER_NOT_FOUND"})), docs)
    BY ONLY <2>9, ExplainedSteps
  <2>11. Documenting(s, docs)
    BY ONLY <2>3, <2>10, ExplainedSteps DEF Documenting
  <2>12. QED BY <2>4, <2>6, <2>7, <2>8, <2>11, WritingEndpoints DEF PatchMe
<1>9. QED BY <1>1, <1>2, <1>3, <1>4, <1>5, <1>6, <1>7, <1>8

\* Those of expenses, which document no errors.
LEMMA ExpenseWriters ==
  /\ Altering(ReclassifyExpense)
  /\ Altering(CreateComment)
  /\ Altering(CreateReaction) /\ Repeatable(CreateReaction.steps)
  /\ Altering(CreateExpense)
  /\ Altering(DeleteExpense)
<1>1. Altering(ReclassifyExpense)
  <2>1. WritesLast(ReclassifySteps, 5, {})
    BY PlainSteps, WritingSteps DEF WritesLast, Plain, ReclassifySteps
  <2>2. Listed(ReclassifySteps)
    BY ListsAreListed DEF ReclassifySteps
  <2>3. QED BY <2>1, <2>2, WritingEndpoints DEF ReclassifyExpense
<1>2. Altering(CreateComment)
  <2>1. WritesLast(CreateCommentSteps, 4, {})
    BY PlainSteps, WritingSteps DEF WritesLast, Plain, CreateCommentSteps
  <2>2. Listed(CreateCommentSteps)
    BY ListsAreListed DEF CreateCommentSteps
  <2>3. QED BY <2>1, <2>2, WritingEndpoints DEF CreateComment, Reader
<1>3. Altering(CreateReaction) /\ Repeatable(CreateReaction.steps)
  <2>1. WritesLast(ReactionSteps, 4, {})
    BY PlainSteps, WritingSteps DEF WritesLast, Plain, ReactionSteps
  <2>2. Listed(ReactionSteps)
    BY ListsAreListed DEF ReactionSteps
  <2>3. Repeatable(ReactionSteps)
    BY PlainSteps, WritingSteps DEF Repeatable, ReactionSteps
  <2>4. QED BY <2>1, <2>2, <2>3, WritingEndpoints DEF CreateReaction, Reader
<1>4. Altering(CreateExpense)
  <2>1. WritesLast(CreateExpenseSteps, 6, {})
    BY PlainSteps, WritingSteps DEF WritesLast, Plain, CreateExpenseSteps, SplitComputed
  <2>2. Listed(CreateExpenseSteps)
    BY ListsAreListed DEF CreateExpenseSteps, SplitComputed
  <2>3. QED BY <2>1, <2>2, WritingEndpoints DEF CreateExpense, Reader
<1>5. Altering(DeleteExpense)
  <2>1. WritesLast(DeleteExpenseSteps, 3, {})
    BY PlainSteps, WritingSteps DEF WritesLast, Plain, DeleteExpenseSteps
  <2>2. Listed(DeleteExpenseSteps)
    BY ListsAreListed DEF DeleteExpenseSteps
  <2>3. QED BY <2>1, <2>2, WritingEndpoints DEF DeleteExpense
<1>6. QED BY <1>1, <1>2, <1>3, <1>4, <1>5

\* The steps of a try, and other steps of a handler's own.
LEMMA CaughtSteps ==
  ASSUME NEW code
  PROVE  /\ Shape([More EXCEPT !.fault = code], "more", {}, "none", code)
         /\ Shape([Side EXCEPT !.fault = code], "side", {}, "none", code)
         /\ \A codes, seen :
              /\ Shape([Look(codes, seen) EXCEPT !.fault = code], "look", codes, seen, code)
              /\ Shape([Raced(Once(seen), codes) EXCEPT !.fault = code], "once", codes, seen, code)
              /\ Shape([Once(seen) EXCEPT !.codes = codes, !.fault = code],
                       "once", codes, seen, code)
         /\ \A seen : Shape([Owner EXCEPT !.seen = seen], "look", Owner.codes, seen, "UNHANDLED")
<1> USE DEF Shape, Look
<1>1. Shape([More EXCEPT !.fault = code], "more", {}, "none", code)
  BY DEF More, Call, Check
<1>2. Shape([Side EXCEPT !.fault = code], "side", {}, "none", code)
  BY DEF Side, Call, Check
<1>3. \A codes, seen : Shape([Look(codes, seen) EXCEPT !.fault = code], "look", codes, seen, code)
  OBVIOUS
<1>4. \A codes, seen :
        Shape([Raced(Once(seen), codes) EXCEPT !.fault = code], "once", codes, seen, code)
  BY DEF Raced, Once
<1>5. \A codes, seen :
        Shape([Once(seen) EXCEPT !.codes = codes, !.fault = code], "once", codes, seen, code)
  BY DEF Once
<1>6. \A seen : Shape([Owner EXCEPT !.seen = seen], "look", Owner.codes, seen, "UNHANDLED")
  BY DEF Owner, Check
<1>7. QED BY <1>1, <1>2, <1>3, <1>4, <1>5, <1>6

FailingWith(step, code) == [step EXCEPT !.fault = code]

\* The parts of a step of a try that writes some of its refusals down.
Noting(step, op, codes, seen, marks) ==
  /\ step.op = op /\ step.codes = codes /\ step.seen = seen
  /\ step.fault = "INTERNAL_ERROR" /\ step.marks = marks

LEMMA MarkedSteps ==
  \A codes, seen, marks :
    /\ Marked(Look(codes, seen), marks).fault = "UNHANDLED"
    /\ Marked(Raced(Once(seen), codes), marks).fault = "UNHANDLED"
    /\ Noting(FailingWith(Marked(Look(codes, seen), marks), "INTERNAL_ERROR"),
              "look", codes, seen, marks)
    /\ Noting(FailingWith(Marked(Raced(Once(seen), codes), marks), "INTERNAL_ERROR"),
              "once", codes, seen, marks)
<1>1. SUFFICES ASSUME NEW codes, NEW seen, NEW marks
               PROVE  /\ Marked(Look(codes, seen), marks).fault = "UNHANDLED"
                      /\ Marked(Raced(Once(seen), codes), marks).fault = "UNHANDLED"
                      /\ Noting(FailingWith(Marked(Look(codes, seen), marks), "INTERNAL_ERROR"),
                                "look", codes, seen, marks)
                      /\ Noting(FailingWith(Marked(Raced(Once(seen), codes), marks),
                                            "INTERNAL_ERROR"),
                                "once", codes, seen, marks)
  OBVIOUS
<1>2. /\ Marked(Look(codes, seen), marks).fault = "UNHANDLED"
      /\ Noting(FailingWith(Marked(Look(codes, seen), marks), "INTERNAL_ERROR"),
                "look", codes, seen, marks)
  BY DEF Marked, Look, FailingWith, Noting
<1>3. /\ Marked(Raced(Once(seen), codes), marks).fault = "UNHANDLED"
      /\ Noting(FailingWith(Marked(Raced(Once(seen), codes), marks), "INTERNAL_ERROR"),
                "once", codes, seen, marks)
  BY DEF Marked, Raced, Once, Look, FailingWith, Noting
<1>4. QED BY <1>2, <1>3

LEMMA CaughtSequences ==
  ASSUME NEW code, NEW a, NEW b, NEW c, NEW d, a.fault = "none",
         b.fault # "none", c.fault # "none", d.fault # "none"
  PROVE  Caught(<<a, b, c, d>>, code)
           = <<a, FailingWith(b, code), FailingWith(c, code), FailingWith(d, code)>>
BY DEF Caught, FailingWith

LEMMA CaughtWrites ==
  ASSUME NEW code, NEW b, NEW c, NEW d, b.fault # "none", c.fault # "none", d.fault # "none"
  PROVE  Caught(<<b, c, d>>, code)
           = <<FailingWith(b, code), FailingWith(c, code), FailingWith(d, code)>>
BY DEF Caught, FailingWith

\* Reads before, and reads after that refuse nothing.
LEMMA JoinedReads ==
  ASSUME NEW s, NEW t, Listed(s), Listed(t), ReadOnly(s), NEW documents, NEW except
  PROVE  /\ Documenting(s, documents) /\ Documenting(t, documents)
              => Documenting(s \o t, documents)
         /\ Honest(t) => Honest(s \o t)
         /\ Surefire(t) => Surefire(s \o t)
         /\ Repeatable(t) => Repeatable(s \o t)
         /\ Ordered(t, except) => Ordered(s \o t, except)
         /\ Listed(s \o t)
BY ReadOnlySteps, JoinedSteps, Joined DEF ReadOnly

LEMMA JoinedEnd ==
  ASSUME NEW s, NEW t, Listed(s), Listed(t), NEW except, Ordered(s, except),
         \A i \in DOMAIN t : Firm(t[i], except) /\ t[i].marks = {}
  PROVE  Ordered(s \o t, except)
<1>1. PICK st : st = s \o t
  OBVIOUS
<1>2. \A i \in DOMAIN st :
        \/ i \in DOMAIN s /\ st[i] = s[i]
        \/ i - Len(s) \in DOMAIN t /\ st[i] = t[i - Len(s)] /\ i > Len(s)
  BY <1>1, Joined
<1>3. DOMAIN st \subseteq Int /\ Len(s) \in Nat /\ DOMAIN s = 1..Len(s)
  BY <1>1, Joined
<1>4. ASSUME NEW i \in DOMAIN st, NEW j \in DOMAIN st, i < j, ~Reading(st[i])
      PROVE  Firm(st[j], except)
  <2>1. CASE j \in DOMAIN s /\ st[j] = s[j]
    <3>1. i \in DOMAIN s /\ st[i] = s[i]
      BY <1>2, <1>3, <1>4, <2>1
    <3>2. QED BY <3>1, <1>4, <2>1 DEF Ordered
  <2>2. CASE j - Len(s) \in DOMAIN t /\ st[j] = t[j - Len(s)]
    BY <2>2
  <2>3. QED BY <1>2, <2>1, <2>2
<1>5. ASSUME NEW i \in DOMAIN st PROVE st[i].marks \subseteq except
  BY <1>2, <1>5 DEF Ordered
<1>6. QED BY <1>1, <1>4, <1>5 DEF Ordered

LEMMA HonestEndpoints ==
  ASSUME NEW s, Listed(s), Honest(s), NEW except, Ordered(s, except), Surefire(s),
         NEW d, d = {} \/ Documenting(s, d)
  PROVE  /\ AlteringBut(Private(s, d), except) /\ AlteringBut(Public(s, d), except)
         /\ Repeatable(s) => Repeatable(Private(s, d).steps) /\ Repeatable(Public(s, d).steps)
BY PrivateTable, PublicTable DEF Kept, AlteringBut

\* The endpoints whose steps come from several functions, or have a catch.
LEMMA RefreshTable ==
  AlteringBut(Refresh, {"TOKEN_REUSED"}) /\ Repeatable(Refresh.steps)
<1>1. PICK a, b, c, d :
        /\ a = Pure({"REFRESH_TOKEN_EXPIRED", "INVALID_SIGNATURE", "REFRESH_TOKEN_INVALID"})
        /\ b = FailingWith(Marked(Look({"REFRESH_TOKEN_INVALID", "TOKEN_REUSED"}, "TOKEN_REUSED"),
                                  {"TOKEN_REUSED"}), "INTERNAL_ERROR")
        /\ c = FailingWith(Marked(Raced(Once("TOKEN_REUSED"), {"TOKEN_REUSED"}),
                                  {"TOKEN_REUSED"}), "INTERNAL_ERROR")
        /\ d = [Side EXCEPT !.fault = "INTERNAL_ERROR"]
  OBVIOUS
<1>2. /\ Shape(a, "look", {"REFRESH_TOKEN_EXPIRED", "INVALID_SIGNATURE",
                           "REFRESH_TOKEN_INVALID"}, "none", "none")
      /\ Noting(b, "look", {"REFRESH_TOKEN_INVALID", "TOKEN_REUSED"}, "TOKEN_REUSED",
                {"TOKEN_REUSED"})
      /\ Noting(c, "once", {"TOKEN_REUSED"}, "TOKEN_REUSED", {"TOKEN_REUSED"})
      /\ Shape(d, "side", {}, "none", "INTERNAL_ERROR")
  BY <1>1, Makers, CaughtSteps, MarkedSteps
<1>3. PICK s : s = <<a, b, c, d>>
  OBVIOUS
<1>4. RotateRefreshTokenSteps = s
  <2>1. PICK x, y, z :
          /\ x = Marked(Look({"REFRESH_TOKEN_INVALID", "TOKEN_REUSED"}, "TOKEN_REUSED"),
                        {"TOKEN_REUSED"})
          /\ y = Marked(Raced(Once("TOKEN_REUSED"), {"TOKEN_REUSED"}), {"TOKEN_REUSED"})
          /\ z = Side
    OBVIOUS
  <2>2. a.fault = "none" /\ x.fault # "none" /\ y.fault # "none" /\ z.fault # "none"
    BY <1>2, <2>1, Makers, MarkedSteps DEF Shape
  <2>3. RotateRefreshTokenSteps = Caught(<<a, x, y, z>>, "INTERNAL_ERROR")
    BY <1>1, <2>1 DEF RotateRefreshTokenSteps
  <2>4. b = FailingWith(x, "INTERNAL_ERROR") /\ c = FailingWith(y, "INTERNAL_ERROR")
        /\ d = FailingWith(z, "INTERNAL_ERROR")
    BY <1>1, <2>1 DEF FailingWith
  <2>5. Caught(<<a, x, y, z>>, "INTERNAL_ERROR") = <<a, b, c, d>>
    BY ONLY <2>2, <2>4, CaughtSequences
  <2>6. QED BY <2>3, <2>5, <1>3
<1>5. "INTERNAL_ERROR" \notin Refusals /\ "none" \notin Refusals
  BY NoRefusal DEF Failures
<1>6. PICK except : except = {"TOKEN_REUSED"}
  OBVIOUS
<1>7. /\ Writer(a) /\ Marker(b, except) /\ Marker(c, except) /\ Writer(d) /\ Firm(d, except)
      /\ Reading(a) /\ Reading(b)
      /\ a.op # "more" /\ b.op # "more" /\ c.op # "more" /\ d.op # "more"
  <2>1. Writer(a) /\ Reading(a) /\ a.op # "more"
    BY <1>2 DEF Shape, Reading, Writer, Upright, Sure, Effects, Writing
  <2>2. Marker(b, except) /\ Reading(b) /\ b.op # "more"
    BY <1>2, <1>6 DEF Noting, Reading, Marker, Upright, Sure, Effects, Writing
  <2>3. Marker(c, except) /\ c.op # "more"
    BY <1>2, <1>5, <1>6 DEF Noting, Marker, Upright, Sure, Effects, Writing
  <2>4. Writer(d) /\ Firm(d, except) /\ d.op # "more"
    BY <1>2, <1>5 DEF Shape, Writer, Upright, Sure, Firm, Says, Effects, Writing
  <2>5. QED BY <2>1, <2>2, <2>3, <2>4
<1>8. WritesLast(s, 2, except) /\ Repeatable(s)
  BY ONLY <1>3, <1>7 DEF WritesLast, Repeatable
<1>9. PICK docs : docs = RefreshDocs
  OBVIOUS
<1>10. /\ Explained(Says(a), docs) /\ Explained(Says(b), docs)
       /\ Explained(Says(c), docs) /\ Explained(Says(d), docs)
  <2>1. Says(a) \cup Says(b) \cup Says(c) \cup Says(d)
          \subseteq {"REFRESH_TOKEN_EXPIRED", "INVALID_SIGNATURE", "REFRESH_TOKEN_INVALID",
                     "TOKEN_REUSED", "none", "INTERNAL_ERROR"}
    BY <1>2 DEF Shape, Noting, Says
  <2>2. Explained({"REFRESH_TOKEN_EXPIRED", "INVALID_SIGNATURE", "REFRESH_TOKEN_INVALID",
                   "TOKEN_REUSED", "none", "INTERNAL_ERROR"}, docs)
    BY <1>9, CodeStatus DEF Explained, RefreshDocs, Documented, GuardCodes
  <2>3. QED BY <2>1, <2>2, ExplainedParts
<1>11. Documenting(s, docs)
  BY ONLY <1>3, <1>10 DEF Documenting
<1>12. Listed(s) /\ Listed(<<Validated>>)
  BY <1>3, ListsAreListed
<1>13. ReadOnly(<<Validated>>)
  BY PlainSteps DEF ReadOnly, Plain
<1>14. Documenting(<<Validated>>, docs)
  BY ExplainedSteps DEF Documenting
<1>15. Honest(s) /\ Surefire(s) /\ Ordered(s, except)
  BY <1>8, <1>12, WritingSequences
<1>16. PICK st : st = <<Validated>> \o s
  OBVIOUS
<1>17. /\ Listed(st) /\ Honest(st) /\ Surefire(st) /\ Ordered(st, except) /\ Repeatable(st)
       /\ Documenting(st, docs)
  BY <1>8, <1>11, <1>12, <1>13, <1>14, <1>15, <1>16, JoinedReads
<1>18. Refresh = Public(st, docs)
  BY <1>4, <1>9, <1>16 DEF Refresh
<1>19. QED BY <1>6, <1>17, <1>18, HonestEndpoints

LEMMA ValidatedFirst ==
  /\ Listed(<<Validated>>) /\ ReadOnly(<<Validated>>)
  /\ \A docs : Documenting(<<Validated>>, docs)
<1>1. Listed(<<Validated>>)
  BY ListsAreListed
<1>2. ReadOnly(<<Validated>>)
  BY PlainSteps DEF ReadOnly, Plain
<1>3. ASSUME NEW docs PROVE Documenting(<<Validated>>, docs)
  BY ExplainedSteps DEF Documenting
<1>4. QED BY <1>1, <1>2, <1>3

LEMMA LogoutTable ==
  Table(Logout) /\ Ordered(Logout.steps, {}) /\ Repeatable(Logout.steps)
<1>1. PICK s, docs : s = RevokeRefreshTokenSteps /\ docs = Documented(400, {ErrorCode(400)})
  OBVIOUS
<1>2. /\ Shape(Quiet(Put), "put", {}, "none", "IGNORED")
      /\ Shape(Side, "side", {}, "none", "UNHANDLED")
      /\ "IGNORED" \notin Refusals /\ "UNHANDLED" \notin Refusals /\ "none" \notin Refusals
  BY Makers, ChangedSteps, NoRefusal DEF Failures
<1>3. PICK a, b : a = Quiet(Put) /\ b = Side
  OBVIOUS
<1>4. /\ Upright(a) /\ Upright(b) /\ Firm(b, {}) /\ a.op # "more" /\ b.op # "more"
      /\ a.marks = {} /\ b.marks = {}
  BY <1>2, <1>3 DEF Shape, Upright, Firm, Says, Writing
<1>5. s = <<a, b>>
  BY <1>1, <1>3 DEF RevokeRefreshTokenSteps
<1>6. Honest(s) /\ Repeatable(s) /\ Ordered(s, {})
  BY ONLY <1>4, <1>5 DEF Honest, Repeatable, Ordered
<1>7. Explained(Says(a), docs) /\ Explained(Says(b), docs)
  <2>1. Says(a) \cup Says(b) \subseteq ByFramework \cup Failures
    BY <1>2, <1>3 DEF Shape, Says, Failures
  <2>2. QED BY <2>1, ExplainedParts
<1>8. Documenting(s, docs)
  BY ONLY <1>5, <1>7 DEF Documenting
<1>9. Listed(s)
  BY <1>5, ListsAreListed
<1>10. PICK st : st = <<Validated>> \o s
  OBVIOUS
<1>11. /\ Listed(st) /\ Honest(st) /\ Ordered(st, {}) /\ Repeatable(st)
       /\ Documenting(st, docs)
  BY <1>6, <1>8, <1>9, <1>10, ValidatedFirst, JoinedReads
<1>12. Logout = Public(st, docs)
  BY <1>1, <1>10 DEF Logout
<1>13. QED BY <1>11, <1>12, PublicTable DEF Kept

LEMMA DeleteMineTable == Altering(DeleteMine) /\ Repeatable(DeleteMine.steps)
<1>1. PICK a, b : a = [Owner EXCEPT !.seen = "GROUP_NOT_FOUND"]
                  /\ b = Raced(Once("GROUP_NOT_FOUND"), {"GROUP_NOT_FOUND"})
  OBVIOUS
<1>2. /\ Shape(a, "look", {"GROUP_NOT_FOUND", "NOT_GROUP_MEMBER", "GROUP_OWNER_REQUIRED"},
               "GROUP_NOT_FOUND", "UNHANDLED")
      /\ Shape(b, "once", {"GROUP_NOT_FOUND"}, "GROUP_NOT_FOUND", "UNHANDLED")
  BY <1>1, ChangedSteps, CaughtSteps, SharedChecks DEF Shape
<1>3. PICK s : s = <<Validated, Caller, a, b>>
  OBVIOUS
<1>4. DeleteMineSteps = s
  BY <1>1, <1>3 DEF DeleteMineSteps
<1>5. Plain(a) /\ Writer(b) /\ b.op # "more"
  BY <1>2, NoRefusal
     DEF Shape, Plain, Reading, Writer, Upright, Sure, Effects, Writing, Failures
<1>6. WritesLast(s, 3, {}) /\ Repeatable(s)
  BY ONLY <1>3, <1>5, PlainSteps, WritingSteps DEF WritesLast, Repeatable, Plain
<1>7. PICK docs : docs = GroupDocs \cup Documented(403, {"NOT_GROUP_MEMBER", "GROUP_OWNER_REQUIRED"})
  OBVIOUS
<1>8. /\ Explained(Says(a), docs) /\ Explained(Says(b), docs) /\ CallerDocs \subseteq docs
  <2>1. Says(a) \cup Says(b)
          \subseteq {"GROUP_NOT_FOUND", "NOT_GROUP_MEMBER", "GROUP_OWNER_REQUIRED", "UNHANDLED"}
    BY <1>2 DEF Shape, Says
  <2>2. Explained({"GROUP_NOT_FOUND", "NOT_GROUP_MEMBER", "GROUP_OWNER_REQUIRED", "UNHANDLED"}, docs)
    BY <1>7, CodeStatus DEF Explained, GroupDocs, Documented
  <2>3. CallerDocs \subseteq docs
    BY <1>7 DEF CallerDocs, GroupDocs, Documented
  <2>4. QED BY <2>1, <2>2, <2>3, ExplainedParts
<1>9. Documenting(s, docs)
  BY ONLY <1>3, <1>8, ExplainedSteps DEF Documenting
<1>10. Listed(s)
  BY <1>3, ListsAreListed
<1>11. DeleteMine = Private(s, docs)
  BY <1>4, <1>7 DEF DeleteMine
<1>12. QED BY <1>6, <1>9, <1>10, <1>11, WritingEndpoints

\* Its first write is the deletion of the phone's invite.
LEMMA InviteUserTable ==
  LET e == AddMember(InviteUserSteps) IN
  Table(e) /\ Surefire(e.steps) /\ Ordered(e.steps, CodesOf(409)) /\ Repeatable(e.steps)
<1>1. PICK e : e = AddMember(InviteUserSteps)
  OBVIOUS
<1>2. PICK a, b, c :
        /\ a = Check({"USER_NOT_FOUND", "ACCOUNT_INACTIVE", "INVITE_SELF"})
        /\ b = Look({"INVITE_ALREADY_PENDING", "ALREADY_GROUP_MEMBER"}, "INVITE_ALREADY_PENDING")
        /\ c = Raced(Once("ALREADY_GROUP_MEMBER"), {"ALREADY_GROUP_MEMBER"})
  OBVIOUS
<1>3. /\ Shape(a, "look", {"USER_NOT_FOUND", "ACCOUNT_INACTIVE", "INVITE_SELF"}, "none", "UNHANDLED")
      /\ Shape(b, "look", {"INVITE_ALREADY_PENDING", "ALREADY_GROUP_MEMBER"},
               "INVITE_ALREADY_PENDING", "UNHANDLED")
      /\ Shape(c, "once", {"ALREADY_GROUP_MEMBER"}, "ALREADY_GROUP_MEMBER", "UNHANDLED")
  BY <1>2, Makers, ChangedSteps
<1>4. PICK s : s = <<Validated, Caller, GroupFound, AdminOrOwner, a, Side, b, c, Emit, Call>>
  OBVIOUS
<1>5. InviteUserSteps = s
  BY <1>2, <1>4 DEF InviteUserSteps
<1>6. PICK except : except = CodesOf(409)
  OBVIOUS
<1>7. "INVITE_ALREADY_PENDING" \in except /\ "ALREADY_GROUP_MEMBER" \in except
  BY <1>6, CodeStatus DEF RefusalStatuses
<1>8. /\ Plain(a) /\ Plain(b) /\ Writer(c) /\ c.op # "more"
      /\ Firm(b, except) /\ Firm(c, except)
  BY <1>3, <1>7, NoRefusal
     DEF Shape, Plain, Reading, Writer, Upright, Sure, Effects, Writing, Failures, Firm, Says
<1>9. Firm(Emit, except) /\ Firm(Call, except)
  BY WritingSteps
<1>10. WritesLast(s, 5, except) /\ Repeatable(s)
  BY ONLY <1>4, <1>8, <1>9, PlainSteps, WritingSteps DEF WritesLast, Repeatable, Plain
<1>11. PICK docs : docs = AddMemberDocs
  OBVIOUS
<1>12. <<403, "GROUP_ADMIN_REQUIRED">> \in docs /\ MemberDocs \subseteq docs
  BY <1>11 DEF MemberDocs, Documented, AddMemberDocs
<1>13. Explained(Says(a), docs) /\ Explained(Says(b), docs) /\ Explained(Says(c), docs)
  <2>1. Says(a) \cup Says(b) \cup Says(c)
          \subseteq {"USER_NOT_FOUND", "ACCOUNT_INACTIVE", "INVITE_SELF", "ALREADY_GROUP_MEMBER",
                     "INVITE_ALREADY_PENDING", "none", "UNHANDLED"}
    BY <1>3 DEF Shape, Says
  <2>2. Explained({"USER_NOT_FOUND", "ACCOUNT_INACTIVE", "INVITE_SELF", "ALREADY_GROUP_MEMBER",
                   "INVITE_ALREADY_PENDING", "none", "UNHANDLED"}, docs)
    BY <1>11, CodeStatus DEF Explained, AddMemberDocs, MemberDocs, Documented
  <2>3. QED BY <2>1, <2>2, ExplainedParts
<1>14. Documenting(s, docs)
  BY ONLY <1>4, <1>12, <1>13, ExplainedSteps DEF Documenting
<1>15. Listed(s)
  BY <1>4, ListsAreListed
<1>16. e = Private(s, docs)
  BY <1>1, <1>5, <1>11 DEF AddMember
<1>17. Honest(s) /\ Surefire(s) /\ Ordered(s, except)
  BY <1>10, <1>15, WritingSequences
<1>18. Table(e) /\ Surefire(e.steps) /\ Ordered(e.steps, except) /\ Repeatable(e.steps)
  BY <1>10, <1>14, <1>15, <1>16, <1>17, PrivateTable DEF Kept
<1>19. QED BY <1>1, <1>6, <1>18

LEMMA PlainTables == Reader(GetCategories) /\ Reader(Root) /\ Reader(CheckHealth)
<1>1. Reader(GetCategories)
  <2>1. ReadOnly(<<>>)
    BY DEF ReadOnly
  <2>2. QED BY <2>1, ListsAreListed, ReadingEndpoints DEF GetCategories, Reader
<1>2. Reader(Root)
  <2>1. ReadOnly(<<>>)
    BY DEF ReadOnly
  <2>2. QED BY <2>1, ListsAreListed, ReadOnlySteps, PublicTable DEF Root, Reader, Kept
<1>3. Reader(CheckHealth)
  <2>1. ReadOnly(<<Quiet(Call), Quiet(Call)>>)
    BY PlainSteps DEF ReadOnly, Plain
  <2>2. QED BY <2>1, ListsAreListed, ReadOnlySteps, PublicTable DEF CheckHealth, Reader, Kept
<1>4. QED BY <1>1, <1>2, <1>3

\* The annotation of its 401 does not list all the guard sends.
LEMMA UploadAvatarTable ==
  /\ Formed(UploadAvatar) /\ Surefire(UploadAvatar.steps) /\ Ordered(UploadAvatar.steps, {})
  /\ Documenting(UploadAvatar.steps, UploadAvatar.documents \cup Unauthorized)
<1>1. PICK codes, docs :
        /\ codes = {"AVATAR_FILE_TYPE_INVALID", ErrorCode(400), ErrorCode(413), "AVATAR_FILE_REQUIRED"}
        /\ docs = Documented(400, {"AVATAR_FILE_REQUIRED", "AVATAR_FILE_TYPE_INVALID"})
                  \cup Documented(401, {"UNAUTHORIZED", "TOKEN_EXPIRED"})
  OBVIOUS
<1>2. PICK s : s = <<Pure(codes), More>>
  OBVIOUS
<1>3. Explained(codes, docs) /\ "OK" \notin codes
  <2>1. Explained({"AVATAR_FILE_TYPE_INVALID", "AVATAR_FILE_REQUIRED"}, docs)
    BY <1>1, CodeStatus DEF Explained, Documented
  <2>2. Explained(ByFramework \cup Failures, docs)
    BY ExplainedParts
  <2>3. codes \subseteq {"AVATAR_FILE_TYPE_INVALID", "AVATAR_FILE_REQUIRED"}
                        \cup (ByFramework \cup Failures) /\ "OK" \notin codes
    BY <1>1, Framework
  <2>4. QED BY <2>1, <2>2, <2>3, ExplainedParts
<1>4. WritesLast(s, 1, {})
  BY <1>2, <1>3, PlainSteps, WritingSteps DEF WritesLast, Plain
<1>5. Documenting(s, docs)
  BY <1>2, <1>3, ExplainedSteps DEF Documenting
<1>6. Listed(s)
  BY <1>2, ListsAreListed
<1>7. Honest(s) /\ Surefire(s) /\ Ordered(s, {})
  BY <1>4, <1>6, WritingSequences
<1>8. <<401, "UNAUTHORIZED">> \in docs /\ docs # {}
  <2>1. <<401, "UNAUTHORIZED">> \in docs
    BY <1>1 DEF Documented
  <2>2. QED BY <2>1
<1>9. /\ UploadAvatar.steps = Private(s, docs).steps
      /\ UploadAvatar.documents \cup Unauthorized = Private(s, docs).documents
      /\ Private(s, docs).documents # {}
  BY <1>1, <1>2, <1>8 DEF UploadAvatar, UploadAvatarSteps, Private
<1>10. Table(Private(s, docs)) /\ Kept(s, Private(s, docs).steps)
  BY <1>5, <1>6, <1>7, PrivateTable
<1>11. QED BY <1>7, <1>9, <1>10 DEF Table, Formed, Kept

LEMMA UploadReceiptTable == Altering(UploadExpenseReceipt)
<1>1. PICK s, g : s = ReceiptSteps /\ g = <<ReceiptFile, Validated>>
  OBVIOUS
<1>2. Plain(ReceiptFile) /\ Plain(ReceiptSignature)
  BY PlainSteps, Framework DEF ReceiptFile, ReceiptSignature
<1>3. WritesLast(s, 3, {})
  BY <1>1, <1>2, PlainSteps, WritingSteps DEF WritesLast, Plain, ReceiptSteps
<1>4. ReadOnly(g) /\ Listed(g) /\ Listed(s)
  <2>1. ReadOnly(<<ReceiptFile, Validated>>)
    BY <1>2, PlainSteps DEF ReadOnly, Plain
  <2>2. Listed(<<ReceiptFile, Validated>>) /\ Listed(ReceiptSteps)
    BY ListsAreListed DEF ReceiptSteps
  <2>3. QED BY <1>1, <2>1, <2>2
<1>5. PICK st : st = g \o s
  OBVIOUS
<1>6. Listed(st) /\ Honest(st) /\ Surefire(st) /\ Ordered(st, {})
  BY <1>3, <1>4, <1>5, WritingSequences, JoinedReads
<1>7. UploadExpenseReceipt = Private(st, {})
  BY <1>1, <1>5 DEF UploadExpenseReceipt
<1>8. QED BY <1>6, <1>7, HonestEndpoints DEF Altering

LEMMA PatchTables ==
  \A found \in {ExpenseFound, VersionFound} :
    /\ Altering(PatchExpense(PatchSplitSteps(found)))
    /\ Altering(PatchExpense(PatchScalarSteps(found)))
<1>1. SUFFICES ASSUME NEW found \in {ExpenseFound, VersionFound}
               PROVE  /\ Altering(PatchExpense(PatchSplitSteps(found)))
                      /\ Altering(PatchExpense(PatchScalarSteps(found)))
  OBVIOUS
<1>2. Plain(VersionFound) /\ Plain(ExpenseFound)
  BY PlainSteps DEF VersionFound
<1>3. Plain(found) /\ Plain(SplitComputed) /\ Plain(Check({"SPLIT_VALIDATION_ERROR"}))
  BY <1>2, PlainSteps DEF SplitComputed
<1>4. PICK a, b : a = SplitComputed /\ b = Check({"SPLIT_VALIDATION_ERROR"})
  OBVIOUS
<1>5. PICK s, t :
        /\ s = <<Validated, Member, found, a, b, More, Call, Call>>
        /\ t = <<Validated, Member, found, More, Side, Call, Call>>
  OBVIOUS
<1>6. WritesLast(s, 5, {}) /\ WritesLast(t, 3, {})
  BY <1>3, <1>4, <1>5, PlainSteps, WritingSteps DEF WritesLast, Plain
<1>7. Listed(s) /\ Listed(t)
  BY <1>5, ListsAreListed
<1>8. PatchExpense(PatchSplitSteps(found)) = Private(s, {})
      /\ PatchExpense(PatchScalarSteps(found)) = Private(t, {})
  BY <1>4, <1>5 DEF PatchExpense, PatchSplitSteps, PatchScalarSteps
<1>9. QED BY <1>6, <1>7, <1>8, WritingEndpoints

LEMMA SendOtpTable == Altering(SendOtp)
<1>1. PICK p, q : p = FailingWith(More, "INTERNAL_ERROR") /\ q = FailingWith(Side, "INTERNAL_ERROR")
  OBVIOUS
<1>2. PICK w : w = <<p, q, q>>
  OBVIOUS
<1>3. PICK l, m, n : l = Limit("otp ip", "RATE_LIMITED_IP") /\ m = Check({"COOLDOWN_ACTIVE"})
                      /\ n = Limit("otp phone", "RATE_LIMITED_PHONE")
  OBVIOUS
<1>4. PICK g : g = <<Validated, l, m, n, Call, Side>>
  OBVIOUS
<1>5. More.fault # "none" /\ Side.fault # "none"
  BY Makers DEF Shape
<1>6. Caught(<<More, Side, Side>>, "INTERNAL_ERROR") = w
  BY <1>1, <1>2, <1>5, CaughtWrites
<1>7. Shape(p, "more", {}, "none", "INTERNAL_ERROR") /\ Shape(q, "side", {}, "none", "INTERNAL_ERROR")
  BY <1>1, CaughtSteps DEF FailingWith
<1>8. "INTERNAL_ERROR" \notin Refusals /\ "none" \notin Refusals
  BY NoRefusal DEF Failures
<1>9. Writer(p) /\ Writer(q) /\ Firm(p, {}) /\ Firm(q, {}) /\ p.marks = {} /\ q.marks = {}
  BY <1>7, <1>8 DEF Shape, Writer, Upright, Sure, Effects, Writing, Firm, Says
<1>10. Honest(w) /\ Surefire(w) /\ \A i \in DOMAIN w : Firm(w[i], {}) /\ w[i].marks = {}
  BY ONLY <1>2, <1>9 DEF Honest, Surefire, Writer
<1>11. WritesLast(g, 5, {})
  <2>1. Plain(l) /\ Plain(m) /\ Plain(n) /\ Plain(Validated) /\ Plain(Call) /\ Writer(Side)
    BY <1>3, PlainSteps, WritingSteps
  <2>2. \A step : Plain(step) => Writer(step) /\ Reading(step)
    BY WritingSteps DEF Plain
  <2>3. QED BY ONLY <1>4, <2>1, <2>2 DEF WritesLast
<1>12. Listed(g) /\ Listed(w)
  BY <1>2, <1>4, ListsAreListed
<1>13. PICK docs : docs = Documented(429, {"COOLDOWN_ACTIVE", "RATE_LIMITED_PHONE", "RATE_LIMITED_IP"})
  OBVIOUS
<1>14. /\ Explained({"COOLDOWN_ACTIVE"}, docs) /\ Explained({"RATE_LIMITED_PHONE"}, docs)
       /\ Explained({"RATE_LIMITED_IP"}, docs)
  BY <1>13, CodeStatus DEF Explained, Documented
<1>15. Documenting(g, docs)
  <2>1. /\ Explained(Says(l), docs) /\ Explained(Says(m), docs) /\ Explained(Says(n), docs)
        /\ Explained(Says(Validated), docs) /\ Explained(Says(Call), docs)
        /\ Explained(Says(Side), docs)
    BY <1>14, <1>3, ExplainedSteps
  <2>2. QED BY ONLY <1>4, <2>1 DEF Documenting
<1>16. Documenting(w, docs)
  <2>1. Says(p) \subseteq ByFramework \cup Failures /\ Says(q) \subseteq ByFramework \cup Failures
    BY <1>7 DEF Shape, Says, Failures
  <2>2. Explained(Says(p), docs) /\ Explained(Says(q), docs)
    BY <2>1, ExplainedParts
  <2>3. QED BY ONLY <1>2, <2>2 DEF Documenting
<1>17. PICK st : st = g \o w
  OBVIOUS
<1>18. Honest(g) /\ Surefire(g) /\ Ordered(g, {})
  BY <1>11, <1>12, WritingSequences
<1>19. Listed(st) /\ Honest(st) /\ Surefire(st) /\ Ordered(st, {}) /\ Documenting(st, docs)
  BY <1>10, <1>12, <1>15, <1>16, <1>17, <1>18, JoinedSteps, JoinedEnd, Joined
<1>20. SendOtp = Public(st, docs)
  BY <1>3, <1>4, <1>6, <1>13, <1>17 DEF SendOtp, SendOtpSteps
<1>21. QED BY <1>19, <1>20, HonestEndpoints DEF Altering

LEMMA VerifyOtpTable ==
  /\ AlteringBut(VerifyOtp, {"OTP_EXPIRED", "MAX_ATTEMPTS", "INVALID_OTP"})
  /\ Repeatable(VerifyOtp.steps)
<1>1. PICK codes, except :
        /\ codes = {"SESSION_NOT_FOUND", "SESSION_LOCKED", "OTP_EXPIRED", "MAX_ATTEMPTS",
                    "INVALID_OTP"}
        /\ except = {"OTP_EXPIRED", "MAX_ATTEMPTS", "INVALID_OTP"}
  OBVIOUS
<1>2. PICK a, b, c :
        /\ a = Limit("otp verify", "VERIFY_RATE_LIMITED")
        /\ b = VerifyScript
        /\ c = Check({"IDEMPOTENCY_CONFLICT"})
  OBVIOUS
<1>3. PICK g : g = <<Validated, KeyHeader, c>>
  OBVIOUS
<1>4. PICK s : s = <<a, b, Side, Side, Side, Side>>
  OBVIOUS
<1>5. PICK t : t = <<Side>>
  OBVIOUS
<1>6. Noting(b, "once", codes, "INTERNAL_ERROR", except)
  BY <1>1, <1>2 DEF VerifyScript, Once, Look, Noting
<1>7. "INTERNAL_ERROR" \notin Refusals
  BY NoRefusal DEF Failures
<1>8. Plain(a) /\ Marker(b, except) /\ b.op # "more"
  <2>1. Plain(a)
    BY <1>2, PlainSteps
  <2>2. QED BY <1>1, <1>6, <1>7, <2>1 DEF Noting, Marker, Upright, Sure, Effects, Writing
<1>9. Firm(Side, except) /\ Writer(a) /\ a.op # "more" /\ Writer(Side) /\ Side.op # "more"
  BY <1>8, WritingSteps
<1>10. WritesLast(s, 1, except) /\ Repeatable(s)
  BY ONLY <1>4, <1>8, <1>9 DEF WritesLast, Repeatable, Plain
<1>11. ReadOnly(g)
  <2>1. Plain(KeyHeader) /\ Plain(c) /\ Plain(Validated)
    BY <1>2, PlainSteps DEF KeyHeader
  <2>2. QED BY ONLY <1>3, <2>1 DEF ReadOnly, Plain
<1>12. Listed(g) /\ Listed(s) /\ Listed(t)
  BY <1>3, <1>4, <1>5, ListsAreListed
<1>13. PICK docs : docs = VerifyDocs \cup Documented(429, {"VERIFY_RATE_LIMITED", "MAX_ATTEMPTS"})
  OBVIOUS
<1>14. /\ Explained({"IDEMPOTENCY_KEY_REQUIRED", "IDEMPOTENCY_KEY_INVALID"}, docs)
       /\ Explained({"IDEMPOTENCY_CONFLICT"}, docs) /\ Explained({"VERIFY_RATE_LIMITED"}, docs)
       /\ Explained(codes, docs)
  <2>1. /\ <<400, "INVALID_OTP">> \in docs /\ <<400, "IDEMPOTENCY_KEY_REQUIRED">> \in docs
        /\ <<400, "IDEMPOTENCY_KEY_INVALID">> \in docs /\ <<404, "SESSION_NOT_FOUND">> \in docs
        /\ <<409, "IDEMPOTENCY_CONFLICT">> \in docs /\ <<410, "OTP_EXPIRED">> \in docs
        /\ <<423, "SESSION_LOCKED">> \in docs /\ <<429, "VERIFY_RATE_LIMITED">> \in docs
        /\ <<429, "MAX_ATTEMPTS">> \in docs
    BY <1>13 DEF VerifyDocs, Documented
  <2>2. QED BY <1>1, <2>1, CodeStatus DEF Explained
<1>15. Documenting(g, docs) /\ Documenting(t, docs)
  <2>1. /\ Explained(Says(KeyHeader), docs) /\ Explained(Says(c), docs)
        /\ Explained(Says(Validated), docs) /\ Explained(Says(Side), docs)
    BY <1>2, <1>14, ExplainedSteps DEF KeyHeader
  <2>2. QED BY ONLY <1>3, <1>5, <2>1 DEF Documenting
<1>16. Documenting(s, docs)
  <2>1. Explained(Says(a), docs) /\ Explained(Says(Side), docs)
    BY <1>2, <1>14, ExplainedSteps
  <2>2. Explained(codes \cup (ByFramework \cup Failures), docs)
    BY <1>14, ExplainedParts
  <2>3. Says(b) \subseteq codes \cup (ByFramework \cup Failures)
    BY <1>6 DEF Noting, Says, Failures
  <2>4. Explained(Says(b), docs)
    BY <2>2, <2>3, ExplainedParts
  <2>5. QED BY ONLY <1>4, <2>1, <2>4 DEF Documenting
<1>17. PICK gs, gst : gs = g \o s /\ gst = gs \o t
  OBVIOUS
<1>18. Honest(s) /\ Surefire(s) /\ Ordered(s, except)
  BY <1>10, <1>12, WritingSequences
<1>19. Listed(gs) /\ Honest(gs) /\ Surefire(gs) /\ Ordered(gs, except) /\ Repeatable(gs)
       /\ Documenting(gs, docs)
  BY <1>10, <1>11, <1>12, <1>15, <1>16, <1>17, <1>18, JoinedReads
<1>20. Honest(t) /\ Surefire(t) /\ Repeatable(t)
  BY ONLY <1>5, <1>9 DEF Honest, Surefire, Repeatable, Writer
<1>21. Honest(gst) /\ Surefire(gst) /\ Repeatable(gst) /\ Documenting(gst, docs) /\ Listed(gst)
  BY <1>12, <1>15, <1>17, <1>19, <1>20, JoinedSteps, Joined
<1>22. Ordered(gst, except)
  <2>1. \A i \in DOMAIN t : Firm(t[i], except) /\ t[i].marks = {}
    BY ONLY <1>5, <1>9 DEF Writer
  <2>2. QED BY <2>1, <1>12, <1>17, <1>19, JoinedEnd
<1>23. VerifyOtp = Public(gst, docs)
  BY <1>1, <1>2, <1>3, <1>4, <1>5, <1>13, <1>17 DEF VerifyOtp, VerifyOtpSteps
<1>24. QED BY <1>1, <1>21, <1>22, <1>23, HonestEndpoints

LEMMA SyncContactsTable == Altering(SyncContacts) /\ Repeatable(SyncContacts.steps)
<1>1. PICK g, h, s :
        g = <<Validated>> /\ h = EnforceForSync /\ s = SyncContactsSteps
  OBVIOUS
<1>2. PICK a, b : a = Limit("sync ip", "CONTACT_SYNC_RATE_LIMIT_IP")
                  /\ b = Limit("sync user", "CONTACT_SYNC_RATE_LIMIT_USER")
  OBVIOUS
<1>3. h = <<a, b>>
  BY <1>1, <1>2 DEF EnforceForSync
<1>4. ReadOnly(h) /\ ReadOnly(g) /\ Listed(g) /\ Listed(h)
  <2>1. Plain(a) /\ Plain(b)
    BY <1>2, PlainSteps
  <2>2. ReadOnly(h)
    BY ONLY <2>1, <1>3 DEF ReadOnly, Plain
  <2>3. QED BY <2>2, <1>1, <1>3, ValidatedFirst, ListsAreListed
<1>5. PICK p : p = Pure({"INVALID_CONTACT_PHONE"})
  OBVIOUS
<1>6. s = <<Caller, p, Put, Call, Call, Call>>
  BY <1>1, <1>5 DEF SyncContactsSteps
<1>7. Plain(p) /\ Plain(Caller) /\ Plain(Call)
  BY <1>5, PlainSteps
<1>8. WritesLast(s, 2, {}) /\ Repeatable(s)
  BY ONLY <1>6, <1>7, WritingSteps DEF WritesLast, Repeatable, Plain
<1>9. PICK docs : docs = CallerDocs \cup Documented(400, {"INVALID_CONTACT_PHONE"})
                    \cup Documented(429, {"CONTACT_SYNC_RATE_LIMIT_IP",
                                          "CONTACT_SYNC_RATE_LIMIT_USER"})
  OBVIOUS
<1>10. /\ Explained({"CONTACT_SYNC_RATE_LIMIT_IP"}, docs) /\ CallerDocs \subseteq docs
       /\ Explained({"CONTACT_SYNC_RATE_LIMIT_USER"}, docs)
       /\ Explained({"INVALID_CONTACT_PHONE"}, docs)
  BY <1>9, CodeStatus DEF Explained, Documented
<1>11. Documenting(h, docs)
  <2>1. Explained(Says(a), docs) /\ Explained(Says(b), docs)
    BY <1>2, <1>10, ExplainedSteps
  <2>2. QED BY ONLY <2>1, <1>3 DEF Documenting
<1>12. Documenting(s, docs)
  <2>1. Explained(Says(p), docs) /\ Explained(Says(Caller), docs) /\ Explained(Says(Put), docs)
        /\ Explained(Says(Call), docs)
    BY <1>5, <1>10, ExplainedSteps
  <2>2. QED BY ONLY <2>1, <1>6 DEF Documenting
<1>13. Documenting(g, docs) /\ Listed(s)
  BY <1>1, <1>6, ValidatedFirst, ListsAreListed
<1>14. PICK gh : gh = g \o h
  OBVIOUS
<1>15. ReadOnly(gh) /\ Listed(gh) /\ Documenting(gh, docs)
  <2>1. Listed(gh) /\ Documenting(gh, docs)
    BY <1>4, <1>11, <1>13, <1>14, JoinedSteps, Joined
  <2>2. \A i \in DOMAIN gh : (i \in DOMAIN g /\ gh[i] = g[i])
                             \/ (i - Len(g) \in DOMAIN h /\ gh[i] = h[i - Len(g)])
    BY <1>4, <1>14, Joined
  <2>3. ReadOnly(gh)
    BY ONLY <2>2, <1>4 DEF ReadOnly
  <2>4. QED BY <2>1, <2>3
<1>16. PICK st : st = gh \o s
  OBVIOUS
<1>17. Honest(s) /\ Surefire(s) /\ Ordered(s, {})
  BY <1>8, <1>13, WritingSequences
<1>18. Listed(st) /\ Honest(st) /\ Surefire(st) /\ Ordered(st, {}) /\ Repeatable(st)
       /\ Documenting(st, docs)
  BY <1>8, <1>12, <1>13, <1>15, <1>16, <1>17, JoinedReads
<1>19. SyncContacts = Private(st, docs)
  BY <1>1, <1>9, <1>14, <1>16 DEF SyncContacts
<1>20. QED BY <1>18, <1>19, HonestEndpoints DEF Altering

\* The refusals that may come after a write, or write themselves.
Excepted(e) ==
  CASE e = "invite_user" -> CodesOf(409)
    [] e = "refresh"     -> {"TOKEN_REUSED"}
    [] e = "verify_otp"  -> {"OTP_EXPIRED", "MAX_ATTEMPTS", "INVALID_OTP"}
    [] OTHER             -> {}

\* The answers that no document of the endpoint need list.
Excused(e) == IF e = "upload_avatar" THEN Unauthorized ELSE {}

\* The endpoints that may take effect twice.
Twice == Creating \cup Stamping \cup LookingFirst

Sane(e) ==
  /\ Formed(Endpoint[e])
  /\ Endpoint[e].documents # {}
       => Documenting(Endpoint[e].steps, Endpoint[e].documents \cup Excused(e))
  /\ e # "logout" => Surefire(Endpoint[e].steps)
  /\ Ordered(Endpoint[e].steps, Excepted(e))
  /\ e \notin Twice => Repeatable(Endpoint[e].steps)

LEMMA SaneEndpoints ==
  ASSUME NEW e, NEW x, Endpoint[e] = x
  PROVE  /\ AlteringBut(x, Excepted(e)) /\ (e \in Twice \/ Repeatable(x.steps)) => Sane(e)
         /\ Altering(x) /\ (e \in Twice \/ Repeatable(x.steps)) => Sane(e)
         /\ Reader(x) => Sane(e)
<1>1. ASSUME Table(x)
      PROVE  x.documents # {} => Documenting(x.steps, x.documents \cup Excused(e))
  BY <1>1, ExplainedParts DEF Table, Documenting
<1>2. Ordered(x.steps, {}) => Ordered(x.steps, Excepted(e))
  BY DEF Ordered, Firm
<1>3. QED BY <1>1, <1>2 DEF Sane, AlteringBut, Altering, Reader, Table

LEMMA GroupEndpoints ==
  \A e \in {"list_mine", "list_members", "list_activity", "invite_preview", "accept_invite",
            "decline_invite", "member_profile", "get_group", "delete_group", "invite_phone",
            "invite_user", "patch_role", "remove_member", "create_group", "list_invites",
            "list_joined", "home"} : Sane(e)
<1> USE SaneEndpoints, GroupReaders, GroupWriters DEF Twice, Creating, Stamping, LookingFirst
<1>1. Sane("list_mine") /\ Sane("list_members") /\ Sane("list_activity") /\ Sane("invite_preview")
  BY DEF Endpoint
<1>2. Sane("accept_invite") /\ Sane("decline_invite") /\ Sane("member_profile")
      /\ Sane("get_group")
  BY DEF Endpoint
<1>3. Sane("delete_group") /\ Sane("invite_phone")
  BY DeleteMineTable DEF Endpoint
<1>4. Sane("invite_user")
  BY InviteUserTable DEF Endpoint, Excepted, AlteringBut
<1>5. Sane("patch_role") /\ Sane("remove_member") /\ Sane("create_group")
  BY DEF Endpoint
<1>6. Sane("list_invites") /\ Sane("list_joined") /\ Sane("home")
  BY DEF Endpoint
<1>7. QED BY ONLY <1>1, <1>2, <1>3, <1>4, <1>5, <1>6

LEMMA UserEndpoints ==
  \A e \in {"search", "refresh", "logout", "get_me", "patch_me", "complete_onboarding",
            "send_otp", "verify_otp", "sync_contacts", "upload_avatar", "root", "health"} :
    Sane(e)
<1> USE SaneEndpoints, GroupReaders, GroupWriters, PlainTables
    DEF Twice, Creating, Stamping, LookingFirst
<1>1. Sane("search") /\ Sane("get_me") /\ Sane("root") /\ Sane("health")
  BY DEF Endpoint
<1>2. Sane("patch_me") /\ Sane("complete_onboarding")
  BY DEF Endpoint
<1>3. Sane("refresh")
  BY RefreshTable DEF Endpoint, Excepted
<1>4. Sane("logout")
  BY LogoutTable DEF Endpoint, Excepted, Excused, Sane, Table
<1>5. Sane("verify_otp")
  BY VerifyOtpTable DEF Endpoint, Excepted
<1>6. Sane("send_otp") /\ Sane("sync_contacts")
  BY SendOtpTable, SyncContactsTable DEF Endpoint
<1>7. Sane("upload_avatar")
  BY UploadAvatarTable DEF Endpoint, Excepted, Excused, Sane
<1>8. QED BY ONLY <1>1, <1>2, <1>3, <1>4, <1>5, <1>6, <1>7

LEMMA ExpenseEndpoints ==
  \A e \in {"classify", "reclassify", "categories", "list_expenses", "balances",
            "expense_detail", "list_comments", "create_comment", "create_reaction",
            "upload_receipt", "create_expense", "patch_split", "patch_scalar",
            "patch_split_versioned", "patch_scalar_versioned",
            "delete_expense", "category_breakdown", "monthly_trends", "top_spenders",
            "merchants", "heatmap", "recurring"} : Sane(e)
<1> USE SaneEndpoints, ExpenseReaders, ExpenseWriters
    DEF Twice, Creating, Stamping, LookingFirst
<1>1. Sane("classify") /\ Sane("reclassify") /\ Sane("categories") /\ Sane("list_expenses")
  BY PlainTables DEF Endpoint
<1>2. Sane("balances") /\ Sane("expense_detail") /\ Sane("list_comments")
  BY DEF Endpoint
<1>3. Sane("create_comment") /\ Sane("create_reaction") /\ Sane("create_expense")
      /\ Sane("delete_expense")
  BY DEF Endpoint
<1>4. Sane("upload_receipt") /\ Sane("patch_split") /\ Sane("patch_scalar")
  BY UploadReceiptTable, PatchTables DEF Endpoint
<1>5. Sane("patch_split_versioned") /\ Sane("patch_scalar_versioned")
  BY PatchTables DEF Endpoint
<1>6. Sane("category_breakdown") /\ Sane("monthly_trends") /\ Sane("top_spenders")
  BY DEF Endpoint
<1>7. Sane("merchants") /\ Sane("heatmap") /\ Sane("recurring")
  BY DEF Endpoint
<1>8. QED BY ONLY <1>1, <1>2, <1>3, <1>4, <1>5, <1>6, <1>7

LEMMA EveryEndpoint == ASSUME NEW e \in DOMAIN Endpoint PROVE Sane(e)
<1>1. DOMAIN Endpoint =
        {"list_mine", "list_members", "list_activity", "invite_preview", "accept_invite",
         "decline_invite", "member_profile", "get_group", "delete_group", "invite_phone",
         "invite_user", "patch_role", "remove_member", "create_group", "list_invites",
         "list_joined", "home"}
        \cup {"search", "refresh", "logout", "get_me", "patch_me", "complete_onboarding",
              "send_otp", "verify_otp", "sync_contacts", "upload_avatar", "root", "health"}
        \cup {"classify", "reclassify", "categories", "list_expenses", "balances",
              "expense_detail", "list_comments", "create_comment", "create_reaction",
              "upload_receipt", "create_expense", "patch_split", "patch_scalar",
              "patch_split_versioned", "patch_scalar_versioned",
              "delete_expense", "category_breakdown", "monthly_trends", "top_spenders",
              "merchants", "heatmap", "recurring"}
  BY DEF Endpoint
<1>2. QED BY <1>1, GroupEndpoints, UserEndpoints, ExpenseEndpoints

\* The endpoints that look first: where they look, and where they act. From
\* the look to the act nothing writes and no failure is skipped.
Gate ==
  [accept_invite |-> 6, delete_expense |-> 5, patch_split_versioned |-> 5,
   patch_scalar_versioned |-> 5, complete_onboarding |-> 4]
Act ==
  [accept_invite |-> 7, delete_expense |-> 6, patch_split_versioned |-> 8,
   patch_scalar_versioned |-> 6, complete_onboarding |-> 5]

Gated(steps, gate, act) ==
  \A i \in DOMAIN steps :
    /\ i = gate => steps[i].seen # "none"
    /\ gate <= i /\ i < act => steps[i].op = "look" /\ steps[i].fault # "IGNORED"
    /\ steps[i].op = "more" => i = act

LEMMA GatedAfterGuards ==
  ASSUME NEW s, Listed(s), NEW gate \in Nat, NEW act \in Nat, gate > 0, Gated(s, gate, act)
  PROVE  Gated(Guarded(s), gate + 2, act + 2)
<1>1. PICK a, b : a = Throttler /\ b = JwtAuthGuard
  OBVIOUS
<1>2. PICK g, steps : g = <<a, b>> /\ steps = g \o s
  OBVIOUS
<1>3. Guarded(s) = steps
  BY <1>1, <1>2 DEF Guarded
<1>4. Listed(g)
  BY <1>2, ListsAreListed
<1>5. /\ \A i \in DOMAIN steps :
           \/ i \in DOMAIN g /\ steps[i] = g[i]
           \/ i - Len(g) \in DOMAIN s /\ steps[i] = s[i - Len(g)] /\ i > Len(g)
      /\ DOMAIN steps \subseteq Int
  BY <1>2, <1>4, Joined
<1>6. a.op # "more" /\ b.op # "more"
  BY <1>1, SharedChecks DEF Shape
<1>7. Len(g) = 2 /\ \A i \in DOMAIN g : i <= 2 /\ g[i].op # "more"
  BY ONLY <1>2, <1>6
<1>8. ASSUME NEW i \in DOMAIN steps
      PROVE  /\ i = gate + 2 => steps[i].seen # "none"
             /\ gate + 2 <= i /\ i < act + 2
                  => steps[i].op = "look" /\ steps[i].fault # "IGNORED"
             /\ steps[i].op = "more" => i = act + 2
  <2>1. i \in Int
    BY <1>5
  <2>2. CASE i \in DOMAIN g /\ steps[i] = g[i]
    BY <1>7, <2>1, <2>2
  <2>3. CASE i - 2 \in DOMAIN s /\ steps[i] = s[i - 2]
    <3>1. PICK n : n = i - 2
      OBVIOUS
    <3>2. n \in Int /\ n \in DOMAIN s /\ steps[i] = s[n] /\ i = n + 2
      BY <2>1, <2>3, <3>1
    <3>3. /\ n = gate => s[n].seen # "none"
          /\ gate <= n /\ n < act => s[n].op = "look" /\ s[n].fault # "IGNORED"
          /\ s[n].op = "more" => n = act
      BY <3>2 DEF Gated
    <3>4. QED BY ONLY <3>2, <3>3, gate \in Nat, act \in Nat
  <2>4. QED BY <1>5, <1>7, <2>2, <2>3
<1>9. QED BY <1>3, <1>8 DEF Gated

LEMMA GatedEndpoints ==
  \A e \in LookingFirst :
    /\ Gated(Endpoint[e].steps, Gate[e], Act[e])
    /\ Gate[e] \in Nat /\ Act[e] \in Nat /\ 1 < Gate[e] /\ Gate[e] < Act[e]
<1>1. PICK a, b, c, d, f, v, m, n :
        /\ a = Look({"GROUP_MEMBER_NOT_FOUND"}, "OK")
        /\ b = Raced(More, {"GROUP_MEMBER_NOT_FOUND"})
        /\ c = Look(Caller.codes, "OK") /\ d = Raced(More, {"USER_NOT_FOUND"})
        /\ f = Look({"EXPENSE_NOT_FOUND"}, "EXPENSE_NOT_FOUND")
        /\ v = VersionFound /\ m = SplitComputed /\ n = Check({"SPLIT_VALIDATION_ERROR"})
  OBVIOUS
<1>2. /\ a.op = "look" /\ a.seen # "none" /\ a.fault # "IGNORED"
      /\ c.op = "look" /\ c.seen # "none" /\ c.fault # "IGNORED"
      /\ f.op = "look" /\ f.seen # "none" /\ f.fault # "IGNORED"
      /\ v.op = "look" /\ v.seen # "none" /\ v.fault # "IGNORED"
      /\ m.op = "look" /\ m.fault # "IGNORED" /\ n.op = "look" /\ n.fault # "IGNORED"
  BY <1>1, Makers DEF Shape, VersionFound, SplitComputed
<1>3. PICK w, u, g, r, e, l, o, z :
        /\ w = Validated /\ u = Caller /\ g = GroupFound /\ r = Member
        /\ e = Emit /\ l = Call /\ o = More /\ z = Side
  OBVIOUS
<1>4. /\ w.op # "more" /\ u.op # "more" /\ g.op # "more" /\ r.op # "more"
      /\ e.op # "more" /\ l.op # "more" /\ z.op # "more"
  BY <1>3, Makers, ChangedSteps, SharedChecks DEF Shape
<1>5. PICK accept, onboard, delete, split, scalar :
        /\ accept = <<w, u, g, a, b, e, e, l>> /\ onboard = <<w, c, d>>
        /\ delete = <<w, r, f, o, z, l, l>>
        /\ split = <<w, r, v, m, n, o, l, l>> /\ scalar = <<w, r, v, o, z, l, l>>
  OBVIOUS
<1>6. Gated(accept, 4, 5)
  BY ONLY <1>2, <1>4, <1>5 DEF Gated
<1>7. Gated(onboard, 2, 3)
  BY ONLY <1>2, <1>4, <1>5 DEF Gated
<1>8. Gated(delete, 3, 4)
  BY ONLY <1>2, <1>4, <1>5 DEF Gated
<1>9. Gated(split, 3, 6)
  BY ONLY <1>2, <1>4, <1>5 DEF Gated
<1>10. Gated(scalar, 3, 4)
  BY ONLY <1>2, <1>4, <1>5 DEF Gated
<1>11. Listed(accept) /\ Listed(onboard) /\ Listed(delete) /\ Listed(split) /\ Listed(scalar)
  BY <1>5, ListsAreListed
<1>12. /\ Gated(Guarded(accept), 4 + 2, 5 + 2) /\ Gated(Guarded(onboard), 2 + 2, 3 + 2)
       /\ Gated(Guarded(delete), 3 + 2, 4 + 2)
       /\ Gated(Guarded(split), 3 + 2, 6 + 2) /\ Gated(Guarded(scalar), 3 + 2, 4 + 2)
  BY <1>6, <1>7, <1>8, <1>9, <1>10, <1>11, GatedAfterGuards
<1>13. Endpoint["accept_invite"].steps = Guarded(accept)
  BY <1>1, <1>3, <1>5 DEF Endpoint, AcceptInvite, AcceptGroupInviteSteps, Private
<1>14. Endpoint["complete_onboarding"].steps = Guarded(onboard)
  BY <1>1, <1>3, <1>5 DEF Endpoint, PatchMe, CompleteOnboardingSteps, Private
<1>15. Endpoint["delete_expense"].steps = Guarded(delete)
  BY <1>1, <1>3, <1>5 DEF Endpoint, DeleteExpense, DeleteExpenseSteps, Private
<1>16. Endpoint["patch_split_versioned"].steps = Guarded(split)
  BY <1>1, <1>3, <1>5 DEF Endpoint, PatchExpense, PatchSplitSteps, Private
<1>17. Endpoint["patch_scalar_versioned"].steps = Guarded(scalar)
  BY <1>1, <1>3, <1>5 DEF Endpoint, PatchExpense, PatchScalarSteps, Private
<1>18. /\ Gate["accept_invite"] = 6 /\ Act["accept_invite"] = 7
       /\ Gate["complete_onboarding"] = 4 /\ Act["complete_onboarding"] = 5
       /\ Gate["delete_expense"] = 5 /\ Act["delete_expense"] = 6
       /\ Gate["patch_split_versioned"] = 5 /\ Act["patch_split_versioned"] = 8
       /\ Gate["patch_scalar_versioned"] = 5 /\ Act["patch_scalar_versioned"] = 6
  BY DEF Gate, Act
<1>19. /\ Gated(Guarded(accept), 6, 7) /\ Gated(Guarded(onboard), 4, 5)
       /\ Gated(Guarded(delete), 5, 6)
       /\ Gated(Guarded(split), 5, 8) /\ Gated(Guarded(scalar), 5, 6)
  BY <1>12
<1>20. QED BY ONLY <1>13, <1>14, <1>15, <1>16, <1>17, <1>18, <1>19 DEF LookingFirst

(***************************************************************************)
(* The copies on their way. CallIsRight ties what a copy was told and what *)
(* it has written to the steps of the table; it is inductive with the      *)
(* types.                                                                  *)
(***************************************************************************)

CallsTypeOK ==
  /\ endpoint \in DOMAIN Endpoint
  /\ \E answers : call \in [Calls -> [at : 0..Len(Steps), sends : Nat,
                                      answer : answers, changed : BOOLEAN]]
  /\ effects \in 0..2
  /\ overlapped \in BOOLEAN

\* What a copy has been told, and what it has written, is what its steps
\* say.
CallIsRight(c) ==
  /\ call[c].answer \in Refusals
       => \E i \in DOMAIN Steps : call[c].answer \in Says(Steps[i])
  /\ endpoint # "logout" =>
       /\ \A i \in DOMAIN Steps : i < call[c].at /\ Steps[i].op \in Effects => InPlace
       /\ call[c].answer = "OK" /\ Writes => InPlace
  /\ UnderWay(c) /\ call[c].changed
       => \E i \in DOMAIN Steps : i < call[c].at /\ ~Reading(Steps[i])
  /\ ~UnderWay(c) /\ call[c].changed /\ call[c].answer \in Refusals
       => call[c].answer \in Excepted(endpoint)

CallsAreRight == \A c \in Calls : CallIsRight(c)

LEMMA StepFacts ==
  ASSUME CallsTypeOK
  PROVE  /\ Steps # <<>> /\ Len(Steps) \in Nat /\ Len(Steps) > 0 /\ DOMAIN Steps = 1..Len(Steps)
         /\ \A i \in DOMAIN Steps : Upright(Steps[i])
         /\ endpoint # "logout" => \A i \in DOMAIN Steps : Sure(Steps[i])
         /\ \A i, j \in DOMAIN Steps :
              i < j /\ ~Reading(Steps[i]) => Firm(Steps[j], Excepted(endpoint))
         /\ \A i \in DOMAIN Steps : Steps[i].marks \subseteq Excepted(endpoint)
         /\ Documents # {} =>
              \A i \in DOMAIN Steps :
                Explained(Says(Steps[i]), Documents \cup Excused(endpoint))
         /\ endpoint \notin Twice => \A i \in DOMAIN Steps : Steps[i].op # "more"
<1>1. Sane(endpoint)
  BY EveryEndpoint DEF CallsTypeOK
<1>2. Listed(Steps) /\ Steps # <<>>
  BY <1>1 DEF Sane, Formed, Steps
<1>3. PICK steps : steps = Steps
  OBVIOUS
<1>4. PICK S : steps \in Seq(S)
  BY <1>2, <1>3 DEF Listed
<1>5. Len(steps) \in Nat /\ Len(steps) > 0 /\ DOMAIN steps = 1..Len(steps)
  BY ONLY <1>2, <1>3, <1>4
<1>6. Honest(steps) /\ Ordered(steps, Excepted(endpoint))
      /\ (endpoint # "logout" => Surefire(steps))
      /\ (endpoint \notin Twice => Repeatable(steps))
      /\ (Documents # {} => Documenting(steps, Documents \cup Excused(endpoint)))
  BY <1>1, <1>3 DEF Sane, Formed, Steps, Documents
<1>7. QED BY <1>2, <1>3, <1>5, <1>6 DEF Honest, Ordered, Surefire, Repeatable, Documenting

LEMMA CallFacts ==
  ASSUME CallsTypeOK, NEW c \in Calls
  PROVE  /\ call[c].at \in 0..Len(Steps) /\ call[c].changed \in BOOLEAN
         /\ UnderWay(c) => call[c].at \in DOMAIN Steps /\ StepOf(c) = Steps[call[c].at]
BY StepFacts DEF CallsTypeOK, UnderWay, StepOf

LEMMA AnsweredCall ==
  ASSUME CallsTypeOK, NEW c \in Calls, NEW code, NEW changes \in BOOLEAN,
         Answered(c, code, changes), endpoint' = endpoint, effects' \in 0..2,
         overlapped' \in BOOLEAN
  PROVE  /\ CallsTypeOK'
         /\ call'[c].at = 0 /\ call'[c].answer = code
         /\ call'[c].changed = (call[c].changed \/ changes)
         /\ \A d \in Calls : d # c => call'[d] = call[d]
<1>1. PICK answers : call \in [Calls -> [at : 0..Len(Steps), sends : Nat,
                                         answer : answers, changed : BOOLEAN]]
  BY DEF CallsTypeOK
<1>2. PICK more : more = answers \cup {code}
  OBVIOUS
<1>3. PICK n : n = Len(Steps)
  OBVIOUS
<1>4. n \in Nat
  BY <1>3, StepFacts
<1>5. call \in [Calls -> [at : 0..n, sends : Nat, answer : more, changed : BOOLEAN]]
  BY <1>1, <1>2, <1>3
<1>6. call' \in [Calls -> [at : 0..n, sends : Nat, answer : more, changed : BOOLEAN]]
  <2>1. call' = [call EXCEPT ![c].at = 0, ![c].answer = code, ![c].changed = @ \/ changes]
    BY DEF Answered
  <2>2. code \in more /\ 0 \in 0..n
    BY <1>2, <1>4
  <2>3. QED BY ONLY <1>5, <2>1, <2>2, c \in Calls, changes \in BOOLEAN,
              ZenonT(60)
<1>7. Len(Steps') = n
  BY <1>3 DEF Steps
<1>8. CallsTypeOK'
  BY <1>6, <1>7 DEF CallsTypeOK
<1>9. /\ call'[c].at = 0 /\ call'[c].answer = code
      /\ call'[c].changed = (call[c].changed \/ changes)
      /\ \A d \in Calls : d # c => call'[d] = call[d]
  BY <1>1 DEF Answered
<1>10. QED BY <1>8, <1>9

LEMMA PassedCall ==
  ASSUME CallsTypeOK, NEW c \in Calls, NEW changes \in BOOLEAN, UnderWay(c),
         Passed(c, changes), endpoint' = endpoint, effects' \in 0..2,
         overlapped' \in BOOLEAN
  PROVE  /\ CallsTypeOK'
         /\ call[c].at = Len(Steps) => call'[c].at = 0 /\ call'[c].answer = "OK"
         /\ call[c].at < Len(Steps)
              => call'[c].at = call[c].at + 1 /\ call'[c].answer = call[c].answer
         /\ call'[c].changed = (call[c].changed \/ changes)
         /\ \A d \in Calls : d # c => call'[d] = call[d]
<1>1. CASE call[c].at = Len(Steps)
  BY <1>1, AnsweredCall DEF Passed
<1>2. CASE call[c].at # Len(Steps)
  <2>1. PICK answers : call \in [Calls -> [at : 0..Len(Steps), sends : Nat,
                                           answer : answers, changed : BOOLEAN]]
    BY DEF CallsTypeOK
  <2>2. PICK n : n = Len(Steps)
    OBVIOUS
  <2>3. n \in Nat
    BY <2>2, StepFacts
  <2>4. call \in [Calls -> [at : 0..n, sends : Nat, answer : answers, changed : BOOLEAN]]
    BY <2>1, <2>2
  <2>5. call' = [call EXCEPT ![c].at = @ + 1, ![c].changed = @ \/ changes]
    BY <1>2 DEF Passed
  <2>6. call[c].at + 1 \in 0..n
    BY <1>2, <2>2, <2>3, <2>4
  <2>7. call' \in [Calls -> [at : 0..n, sends : Nat, answer : answers, changed : BOOLEAN]]
    BY ONLY <2>4, <2>5, <2>6, c \in Calls, changes \in BOOLEAN
  <2>8. Len(Steps') = n
    BY <2>2 DEF Steps
  <2>9. CallsTypeOK'
    BY <2>7, <2>8 DEF CallsTypeOK
  <2>10. /\ call'[c].at = call[c].at + 1 /\ call'[c].answer = call[c].answer
         /\ call'[c].changed = (call[c].changed \/ changes)
         /\ \A d \in Calls : d # c => call'[d] = call[d]
    BY <2>4, <2>5
  <2>11. QED BY <1>2, <2>9, <2>10
<1>3. QED BY <1>1, <1>2

\* A copy that stays where it is.
LEMMA OtherCall ==
  ASSUME CallsTypeOK, NEW d \in Calls, CallIsRight(d), call'[d] = call[d],
         endpoint' = endpoint, InPlace => InPlace'
  PROVE  CallIsRight(d)'
<1>1. Steps' = Steps /\ (Writes' <=> Writes)
  BY DEF Steps, Writes
<1>2. UnderWay(d)' <=> UnderWay(d)
  BY DEF UnderWay
<1>3. QED BY <1>1, <1>2 DEF CallIsRight

\* A copy that is answered by its step, or by nobody.
LEMMA AnsweringCall ==
  ASSUME CallsTypeOK, NEW c \in Calls, CallIsRight(c), UnderWay(c),
         NEW code, NEW changes \in BOOLEAN,
         call'[c].at = 0, call'[c].answer = code, call'[c].changed = (call[c].changed \/ changes),
         code \in Says(StepOf(c)) \cup {"LOST"},
         changes /\ code \in Refusals => code \in Excepted(endpoint),
         code = "OK" => InPlace,
         endpoint' = endpoint, InPlace => InPlace'
  PROVE  CallIsRight(c)'
<1>1. Steps' = Steps
  BY DEF Steps
<1>2. call[c].at \in DOMAIN Steps /\ StepOf(c) = Steps[call[c].at] /\ call[c].changed \in BOOLEAN
  BY CallFacts
<1>3. "LOST" \notin Refusals
  BY NoRefusal DEF Failures
<1>4. DOMAIN Steps \subseteq Nat /\ \A i \in DOMAIN Steps : ~(i < 0)
  BY StepFacts
<1>5. ~UnderWay(c)'
  BY DEF UnderWay
<1>6. code \in Refusals => \E i \in DOMAIN Steps : code \in Says(Steps[i])
  BY <1>2, <1>3
<1>7. ASSUME call'[c].changed, code \in Refusals
      PROVE  code \in Excepted(endpoint)
  <2>1. CASE changes
    BY <1>7, <2>1
  <2>2. CASE call[c].changed
    <3>1. PICK i \in DOMAIN Steps : i < call[c].at /\ ~Reading(Steps[i])
      BY <2>2 DEF CallIsRight
    <3>2. Firm(Steps[call[c].at], Excepted(endpoint))
      BY <3>1, <1>2, StepFacts
    <3>3. code \in Says(StepOf(c))
      BY <1>3, <1>7
    <3>4. QED BY <1>2, <1>7, <3>2, <3>3 DEF Firm
  <2>3. QED BY <1>7, <2>1, <2>2
<1>8. QED BY <1>1, <1>4, <1>5, <1>6, <1>7 DEF CallIsRight

\* A copy that goes on, or is through.
LEMMA PassingCall ==
  ASSUME CallsTypeOK, NEW c \in Calls, CallIsRight(c), UnderWay(c), NEW changes \in BOOLEAN,
         Passed(c, changes), endpoint' = endpoint, effects' \in 0..2, overlapped' \in BOOLEAN,
         changes => ~Reading(StepOf(c)),
         endpoint # "logout" /\ StepOf(c).op \in Effects => InPlace',
         InPlace => InPlace'
  PROVE  CallIsRight(c)'
<1>1. Steps' = Steps /\ (Writes' <=> Writes)
  BY DEF Steps, Writes
<1>2. /\ call[c].at \in DOMAIN Steps /\ StepOf(c) = Steps[call[c].at] /\ call[c].changed \in BOOLEAN
      /\ Len(Steps) \in Nat /\ DOMAIN Steps = 1..Len(Steps)
  BY CallFacts, StepFacts
<1>3. /\ call[c].at = Len(Steps) => call'[c].at = 0 /\ call'[c].answer = "OK"
      /\ call[c].at < Len(Steps)
           => call'[c].at = call[c].at + 1 /\ call'[c].answer = call[c].answer
      /\ call'[c].changed = (call[c].changed \/ changes)
  BY PassedCall
<1>4. "OK" \notin Refusals
  BY NoRefusal DEF Failures
<1>5. ASSUME endpoint # "logout", NEW i \in DOMAIN Steps, i <= call[c].at, Steps[i].op \in Effects
      PROVE  InPlace'
  <2>1. CASE i = call[c].at
    BY <1>2, <1>5, <2>1
  <2>2. CASE i < call[c].at
    BY <1>5, <2>2 DEF CallIsRight
  <2>3. QED BY <1>2, <1>5, <2>1, <2>2
<1>6. CASE call[c].at = Len(Steps)
  <2>1. call'[c].at = 0 /\ call'[c].answer = "OK" /\ ~UnderWay(c)'
    BY <1>3, <1>6 DEF UnderWay
  <2>2. endpoint # "logout" /\ Writes => InPlace'
    BY <1>2, <1>5, <1>6 DEF Writes, Writing, Effects
  <2>3. \A i \in DOMAIN Steps : ~(i < 0)
    BY <1>2
  <2>4. QED BY <1>1, <1>4, <2>1, <2>2, <2>3 DEF CallIsRight
<1>7. CASE call[c].at < Len(Steps)
  <2>1. call'[c].at = call[c].at + 1 /\ call'[c].answer = call[c].answer /\ UnderWay(c)'
    BY <1>2, <1>3, <1>7 DEF UnderWay
  <2>2. endpoint # "logout" =>
          \A i \in DOMAIN Steps : i < call[c].at + 1 /\ Steps[i].op \in Effects => InPlace'
    BY <1>2, <1>5
  <2>3. call'[c].changed => \E i \in DOMAIN Steps : i < call[c].at + 1 /\ ~Reading(Steps[i])
    <3>1. CASE changes
      BY <1>2, <3>1
    <3>2. CASE call[c].changed
      <4>1. PICK i \in DOMAIN Steps : i < call[c].at /\ ~Reading(Steps[i])
        BY <3>2 DEF CallIsRight
      <4>2. i < call[c].at + 1
        BY <1>2, <4>1
      <4>3. QED BY <4>1, <4>2
    <3>3. QED BY <1>3, <3>1, <3>2
  <2>4. QED BY <1>1, <2>1, <2>2, <2>3 DEF CallIsRight
<1>8. QED BY <1>2, <1>6, <1>7

LEMMA AppliedStep ==
  ASSUME effects \in 0..2, NEW step
  PROVE  /\ Applied(step) \in 0..2
         /\ InPlace => Applied(step) > 0
         /\ step.op \in Effects => Applied(step) > 0
         /\ step.op # "more" /\ effects # 2 => Applied(step) # 2
         /\ effects = 0 => Applied(step) # 2
BY DEF Applied, InPlace, Effects

LEMMA AnsweredStep ==
  ASSUME CallsTypeOK, CallsAreRight, NEW c \in Calls, UnderWay(c),
         NEW code, NEW changes \in BOOLEAN, Answered(c, code, changes),
         code \in Says(StepOf(c)) \cup {"LOST"},
         changes /\ code \in Refusals => code \in Excepted(endpoint),
         code = "OK" => InPlace,
         endpoint' = endpoint, effects' \in 0..2, overlapped' \in BOOLEAN, InPlace => InPlace'
  PROVE  CallsTypeOK' /\ CallsAreRight'
<1>1. /\ CallsTypeOK'
      /\ call'[c].at = 0 /\ call'[c].answer = code
      /\ call'[c].changed = (call[c].changed \/ changes)
      /\ \A d \in Calls : d # c => call'[d] = call[d]
  BY AnsweredCall
<1>2. CallIsRight(c)'
  BY <1>1, AnsweringCall DEF CallsAreRight
<1>3. ASSUME NEW d \in Calls, d # c PROVE CallIsRight(d)'
  BY <1>1, <1>3, OtherCall DEF CallsAreRight
<1>4. QED BY <1>1, <1>2, <1>3 DEF CallsAreRight

LEMMA PassedStep ==
  ASSUME CallsTypeOK, CallsAreRight, NEW c \in Calls, UnderWay(c), NEW changes \in BOOLEAN,
         Passed(c, changes), endpoint' = endpoint, effects' \in 0..2, overlapped' \in BOOLEAN,
         changes => ~Reading(StepOf(c)),
         endpoint # "logout" /\ StepOf(c).op \in Effects => InPlace',
         InPlace => InPlace'
  PROVE  CallsTypeOK' /\ CallsAreRight'
<1>1. CallsTypeOK' /\ \A d \in Calls : d # c => call'[d] = call[d]
  BY PassedCall
<1>2. CallIsRight(c)'
  BY PassingCall DEF CallsAreRight
<1>3. ASSUME NEW d \in Calls, d # c PROVE CallIsRight(d)'
  BY <1>1, <1>3, OtherCall DEF CallsAreRight
<1>4. QED BY <1>1, <1>2, <1>3 DEF CallsAreRight

LEMMA SendKeepsCalls ==
  ASSUME CallsTypeOK, CallsAreRight, NEW c \in Calls, Send(c)
  PROVE  CallsTypeOK' /\ CallsAreRight'
<1>1. Steps # <<>> /\ Len(Steps) \in Nat /\ Len(Steps) > 0
  BY StepFacts
<1>2. PICK answers : call \in [Calls -> [at : 0..Len(Steps), sends : Nat,
                                         answer : answers, changed : BOOLEAN]]
  BY DEF CallsTypeOK
<1>3. PICK n, more : n = Len(Steps) /\ more = answers \cup {"none"}
  OBVIOUS
<1>4. call \in [Calls -> [at : 0..n, sends : Nat, answer : more, changed : BOOLEAN]]
  BY <1>2, <1>3
<1>5. call' = [call EXCEPT ![c] = [at |-> 1, sends |-> call[c].sends + 1,
                                   answer |-> "none", changed |-> FALSE]]
  BY <1>1 DEF Send
<1>6. [at |-> 1, sends |-> call[c].sends + 1, answer |-> "none", changed |-> FALSE]
        \in [at : 0..n, sends : Nat, answer : more, changed : BOOLEAN]
  BY <1>1, <1>3, <1>4
<1>7. call' \in [Calls -> [at : 0..n, sends : Nat, answer : more, changed : BOOLEAN]]
  BY ONLY <1>4, <1>5, <1>6, c \in Calls
<1>8. /\ call'[c].at = 1 /\ call'[c].answer = "none" /\ call'[c].changed = FALSE
      /\ \A d \in Calls : d # c => call'[d] = call[d]
  BY <1>4, <1>5
<1>9. endpoint' = endpoint /\ effects' = effects /\ Steps' = Steps /\ (InPlace => InPlace')
  BY DEF Send, Steps, InPlace
<1>10. CallsTypeOK'
  <2>1. overlapped' \in BOOLEAN
    BY DEF Send, CallsTypeOK
  <2>2. QED BY <1>3, <1>7, <1>9, <2>1 DEF CallsTypeOK
<1>11. CallIsRight(c)'
  <2>1. "none" \notin Refusals
    BY NoRefusal DEF Failures
  <2>2. \A i \in DOMAIN Steps : ~(i < 1)
    BY StepFacts
  <2>3. QED BY <1>8, <1>9, <2>1, <2>2 DEF CallIsRight
<1>12. ASSUME NEW d \in Calls, d # c PROVE CallIsRight(d)'
  BY <1>8, <1>9, <1>12, OtherCall DEF CallsAreRight
<1>13. QED BY <1>10, <1>11, <1>12 DEF CallsAreRight

LEMMA FaultKeepsCalls ==
  ASSUME CallsTypeOK, CallsAreRight, NEW c \in Calls, Fault(c)
  PROVE  CallsTypeOK' /\ CallsAreRight'
<1>1. PICK applied \in BOOLEAN :
        /\ applied => StepOf(c).op \in Writing /\ ~Seeing(c)
        /\ effects' = IF applied THEN Applied(StepOf(c)) ELSE effects
        /\ IF StepOf(c).fault = "IGNORED" THEN Passed(c, applied)
                                        ELSE Answered(c, StepOf(c).fault, applied)
  BY DEF Fault
<1>2. UnderWay(c) /\ endpoint' = endpoint /\ overlapped' = overlapped /\ overlapped \in BOOLEAN
  BY DEF Fault, CallsTypeOK
<1>3. effects' \in 0..2 /\ (InPlace => InPlace')
  BY <1>1, AppliedStep DEF CallsTypeOK, InPlace
<1>4. Upright(StepOf(c)) /\ (endpoint # "logout" => Sure(StepOf(c)))
  BY <1>2, StepFacts, CallFacts
<1>5. CASE StepOf(c).fault = "IGNORED"
  <2>1. ~(endpoint # "logout" /\ StepOf(c).op \in Effects)
    BY <1>4, <1>5 DEF Sure
  <2>2. QED BY <1>1, <1>2, <1>3, <1>5, <2>1, PassedStep DEF Reading
<1>6. CASE StepOf(c).fault # "IGNORED"
  <2>1. Answered(c, StepOf(c).fault, applied) /\ StepOf(c).fault \in Says(StepOf(c))
    BY <1>1, <1>6 DEF Says
  <2>2. StepOf(c).fault # "OK" /\ ~(applied /\ StepOf(c).fault \in Refusals)
    BY <1>1, <1>4 DEF Upright
  <2>3. QED BY <1>2, <1>3, <2>1, <2>2, AnsweredStep
<1>7. QED BY <1>5, <1>6

LEMMA ChecksKeepCalls ==
  ASSUME CallsTypeOK, CallsAreRight, NEW c \in Calls, Refuse(c) \/ See(c) \/ Pass(c) \/ Write(c)
  PROVE  CallsTypeOK' /\ CallsAreRight'
<1>1. UnderWay(c) /\ endpoint' = endpoint /\ overlapped' = overlapped /\ overlapped \in BOOLEAN
  BY DEF Refuse, See, Pass, Write, CallsTypeOK
<1>2. Upright(StepOf(c)) /\ StepOf(c).marks \subseteq Excepted(endpoint)
  BY <1>1, StepFacts, CallFacts
<1>3. CASE Refuse(c)
  <2>1. PICK code \in StepOf(c).codes : Answered(c, code, code \in StepOf(c).marks)
    BY <1>3 DEF Refuse
  <2>2. effects' = effects /\ effects \in 0..2 /\ (InPlace => InPlace')
    BY <1>3 DEF Refuse, CallsTypeOK, InPlace
  <2>3. code # "OK" /\ code \in Says(StepOf(c)) /\ (code \in StepOf(c).marks) \in BOOLEAN
    BY <1>2 DEF Upright, Says
  <2>4. PICK changes \in BOOLEAN : changes = (code \in StepOf(c).marks)
    BY <2>3
  <2>5. Answered(c, code, changes)
    BY <2>1, <2>4
  <2>6. changes => code \in Excepted(endpoint)
    BY <1>2, <2>4
  <2>7. QED BY <1>1, <2>2, <2>3, <2>5, <2>6, AnsweredStep
<1>4. CASE See(c)
  <2>1. (StepOf(c).seen \in StepOf(c).marks) \in BOOLEAN
    OBVIOUS
  <2>2. PICK changes \in BOOLEAN : changes = (StepOf(c).seen \in StepOf(c).marks)
    BY <2>1
  <2>3. Answered(c, StepOf(c).seen, changes) /\ InPlace
    BY <1>4, <2>2 DEF See, Seeing
  <2>4. effects' = effects /\ effects \in 0..2 /\ (InPlace => InPlace')
    BY <1>4 DEF See, CallsTypeOK, InPlace
  <2>5. StepOf(c).seen \in Says(StepOf(c)) /\ (changes => StepOf(c).seen \in Excepted(endpoint))
    BY <1>2, <2>2 DEF Says
  <2>6. QED BY <1>1, <2>3, <2>4, <2>5, AnsweredStep
<1>5. CASE Pass(c)
  <2>1. Passed(c, FALSE) /\ StepOf(c).op \notin Effects
    BY <1>5 DEF Pass, Effects
  <2>2. effects' = effects /\ effects \in 0..2 /\ (InPlace => InPlace')
    BY <1>5 DEF Pass, CallsTypeOK, InPlace
  <2>3. QED BY <1>1, <2>1, <2>2, PassedStep
<1>6. CASE Write(c)
  <2>1. Passed(c, TRUE) /\ ~Reading(StepOf(c)) /\ effects' = Applied(StepOf(c))
    BY <1>6 DEF Write, Reading
  <2>2. /\ effects' \in 0..2 /\ (InPlace => InPlace')
        /\ StepOf(c).op \in Effects => InPlace'
    BY <2>1, AppliedStep DEF CallsTypeOK, InPlace
  <2>3. QED BY <1>1, <2>1, <2>2, PassedStep
<1>7. QED BY <1>3, <1>4, <1>5, <1>6

LEMMA CountsKeepCalls ==
  ASSUME CallsTypeOK, CallsAreRight, NEW c \in Calls, Count(c) \/ FaultCounted(c) \/ Lose(c)
  PROVE  CallsTypeOK' /\ CallsAreRight'
<1>1. /\ UnderWay(c) /\ endpoint' = endpoint /\ overlapped' = overlapped /\ overlapped \in BOOLEAN
      /\ effects' = effects /\ effects \in 0..2 /\ (InPlace => InPlace')
  BY DEF Count, FaultCounted, Lose, CallsTypeOK, InPlace
<1>2. Upright(StepOf(c))
  BY <1>1, StepFacts, CallFacts
<1>3. CASE Count(c)
  <2>1. CASE Passed(c, FALSE)
    <3>1. StepOf(c).op \notin Effects
      BY <1>3 DEF Count, Effects
    <3>2. QED BY <1>1, <2>1, <3>1, PassedStep
  <2>2. CASE \E code \in StepOf(c).codes : Answered(c, code, FALSE)
    <3>1. PICK code \in StepOf(c).codes : Answered(c, code, FALSE)
      BY <2>2
    <3>2. code # "OK" /\ code \in Says(StepOf(c))
      BY <1>2 DEF Upright, Says
    <3>3. QED BY <1>1, <3>1, <3>2, AnsweredStep
  <2>3. QED BY <1>3, <2>1, <2>2 DEF Count
<1>4. CASE FaultCounted(c)
  <2>1. Answered(c, StepOf(c).fault, FALSE) /\ StepOf(c).fault # "OK"
        /\ StepOf(c).fault \in Says(StepOf(c))
    BY <1>2, <1>4 DEF FaultCounted, Upright, Says
  <2>2. QED BY <1>1, <2>1, AnsweredStep
<1>5. CASE Lose(c)
  BY <1>1, <1>5, AnsweredStep DEF Lose
<1>6. QED BY <1>3, <1>4, <1>5

LEMMA CallsStayRight == ApiSpec => [](CallsTypeOK /\ CallsAreRight)
<1>1. ApiInit => CallsTypeOK /\ CallsAreRight
  <2>1. SUFFICES ASSUME ApiInit PROVE CallsTypeOK /\ CallsAreRight
    OBVIOUS
  <2>2. endpoint \in DOMAIN Endpoint /\ effects = 0 /\ overlapped = FALSE
        /\ call = [c \in Calls |-> [at |-> 0, sends |-> 0, answer |-> "none", changed |-> FALSE]]
    BY <2>1 DEF ApiInit
  <2>3. Listed(Steps)
    BY <2>2, EveryEndpoint DEF Sane, Formed, Steps
  <2>4. PICK n : n = Len(Steps)
    OBVIOUS
  <2>5. n \in Nat
    BY <2>3, <2>4 DEF Listed
  <2>6. PICK answers : answers = {"none"}
    OBVIOUS
  <2>7. call \in [Calls -> [at : 0..n, sends : Nat, answer : answers, changed : BOOLEAN]]
    BY <2>2, <2>5, <2>6
  <2>8. CallsTypeOK
    <3>1. endpoint \in DOMAIN Endpoint /\ effects \in 0..2
      BY ONLY <2>2
    <3>2. overlapped \in BOOLEAN
      BY ONLY <2>2, Zenon
    <3>3. QED BY ONLY <2>4, <2>7, <3>1, <3>2 DEF CallsTypeOK
  <2>9. \A i \in DOMAIN Steps : ~(i < 0)
    BY <2>8, StepFacts
  <2>10. "none" \notin Refusals
    BY NoRefusal DEF Failures
  <2>11. CallsAreRight
    BY <2>2, <2>9, <2>10 DEF CallsAreRight, CallIsRight, UnderWay
  <2>12. QED BY <2>8, <2>11
<1>2. CallsTypeOK /\ CallsAreRight /\ [ApiNext]_apiVars => CallsTypeOK' /\ CallsAreRight'
  <2>1. SUFFICES ASSUME CallsTypeOK, CallsAreRight, [ApiNext]_apiVars
                 PROVE  CallsTypeOK' /\ CallsAreRight'
    OBVIOUS
  <2>2. CASE \E c \in Calls : \/ Send(c) \/ Refuse(c) \/ See(c) \/ Pass(c) \/ Write(c)
                              \/ Count(c) \/ Fault(c) \/ FaultCounted(c) \/ Lose(c)
    BY <2>1, <2>2, SendKeepsCalls, FaultKeepsCalls, ChecksKeepCalls, CountsKeepCalls
  <2>3. CASE UNCHANGED <<endpoint, call, effects, overlapped>>
    BY <2>1, <2>3 DEF CallsTypeOK, CallsAreRight, CallIsRight, UnderWay, InPlace, Steps, Writes
  <2>4. QED BY <2>1, <2>2, <2>3 DEF ApiNext, PassTime, Done, apiVars
<1>3. QED BY <1>1, <1>2, PTL DEF ApiSpec

\* Every refusal but those of the framework is documented with the status it
\* is sent with, for all endpoints and any number of overlapping copies; the
\* guard's refusals of an avatar upload alone are not.
THEOREM RefusalsStayDocumented == ApiSpec => []RefusalsAreDocumented
<1>1. CallsTypeOK /\ CallsAreRight => RefusalsAreDocumented
  <2>1. SUFFICES ASSUME CallsTypeOK, CallsAreRight, NEW c \in Calls,
                        NEW status \in RefusalStatuses, ~UnderWay(c),
                        call[c].answer \in CodesOf(status) \ ByFramework, Documents # {},
                        ~(endpoint = "upload_avatar" /\ status = 401)
                 PROVE  <<status, call[c].answer>> \in Documents
    BY DEF RefusalsAreDocumented
  <2>2. call[c].answer \in Refusals
    BY <2>1 DEF Refusals
  <2>3. PICK i \in DOMAIN Steps : call[c].answer \in Says(Steps[i])
    BY <2>1, <2>2 DEF CallsAreRight, CallIsRight
  <2>4. Explained(Says(Steps[i]), Documents \cup Excused(endpoint))
    BY <2>1, StepFacts
  <2>5. <<status, call[c].answer>> \in Documents \cup Excused(endpoint)
    BY <2>1, <2>3, <2>4 DEF Explained
  <2>6. <<status, call[c].answer>> \notin Excused(endpoint)
    BY <2>1 DEF Excused, Unauthorized, Documented
  <2>7. QED BY <2>5, <2>6
<1>2. QED BY <1>1, CallsStayRight, PTL

\* After OK the effect is in place, and a refusal has changed nothing but what
\* the property excepts, wherever the copies before it were cut off.
THEOREM AnswersStayTrue == ApiSpec => []AnswersAreTrue
<1>1. CallsTypeOK /\ CallsAreRight => AnswersAreTrue
  BY DEF CallsAreRight, CallIsRight, AnswersAreTrue, Declined, Excepted
<1>2. QED BY <1>1, CallsStayRight, PTL

\* How the copies may move.
Sent(c) ==
  /\ ~UnderWay(c) /\ call'[c].at = 1 /\ effects' = effects
  /\ overlapped' = (overlapped \/ \E d \in Calls : UnderWay(d))

Moved(c) ==
  /\ UnderWay(c) /\ overlapped' = overlapped
  /\ effects' # effects => effects' = Applied(StepOf(c))
  /\ \/ call'[c].at = 0
     \/ /\ call'[c].at = call[c].at + 1
        /\ StepOf(c).op = "look" /\ StepOf(c).fault # "IGNORED"
             => ~Seeing(c) /\ effects' = effects

LEMMA PassedMoves ==
  ASSUME CallsTypeOK, NEW c \in Calls, NEW changes \in BOOLEAN, UnderWay(c),
         Passed(c, changes), endpoint' = endpoint, effects' \in 0..2, overlapped' \in BOOLEAN
  PROVE  /\ call'[c].at = 0 \/ call'[c].at = call[c].at + 1
         /\ \A d \in Calls : d # c => call'[d] = call[d]
<1>1. Len(Steps) \in Nat /\ call[c].at \in 0..Len(Steps)
  BY StepFacts, CallFacts
<1>2. QED BY <1>1, PassedCall

LEMMA Moves ==
  ASSUME CallsTypeOK, ApiNext
  PROVE  /\ endpoint' = endpoint
         /\ \/ call' = call /\ effects' = effects /\ overlapped' = overlapped
            \/ \E c \in Calls : /\ Sent(c) \/ Moved(c)
                                /\ \A d \in Calls : d # c => call'[d] = call[d]
<1>1. effects \in 0..2 /\ overlapped \in BOOLEAN
  BY DEF CallsTypeOK
<1>2. ASSUME NEW c \in Calls, Send(c)
      PROVE  Sent(c) /\ endpoint' = endpoint /\ \A d \in Calls : d # c => call'[d] = call[d]
  <2>1. Steps # <<>>
    BY StepFacts
  <2>2. PICK answers : call \in [Calls -> [at : 0..Len(Steps), sends : Nat,
                                           answer : answers, changed : BOOLEAN]]
    BY DEF CallsTypeOK
  <2>3. call' = [call EXCEPT ![c] = [at |-> 1, sends |-> call[c].sends + 1,
                                     answer |-> "none", changed |-> FALSE]]
    BY <1>2, <2>1 DEF Send
  <2>4. call'[c].at = 1 /\ \A d \in Calls : d # c => call'[d] = call[d]
    BY <2>2, <2>3
  <2>5. QED BY <1>2, <2>4 DEF Sent, Send
<1>3. ASSUME NEW c \in Calls, Refuse(c) \/ See(c) \/ Lose(c) \/ FaultCounted(c)
      PROVE  Moved(c) /\ endpoint' = endpoint /\ \A d \in Calls : d # c => call'[d] = call[d]
  <2>1. /\ UnderWay(c) /\ endpoint' = endpoint /\ effects' = effects /\ overlapped' = overlapped
    BY <1>3 DEF Refuse, See, Lose, FaultCounted
  <2>2. PICK code : \E changes \in BOOLEAN : Answered(c, code, changes)
    <3>1. \A x : (x \in StepOf(c).marks) \in BOOLEAN
      OBVIOUS
    <3>2. CASE Refuse(c)
      BY <3>1, <3>2 DEF Refuse
    <3>3. CASE See(c)
      BY <3>1, <3>3 DEF See
    <3>4. CASE Lose(c) \/ FaultCounted(c)
      BY <3>4 DEF Lose, FaultCounted
    <3>5. QED BY <1>3, <3>2, <3>3, <3>4
  <2>3. call'[c].at = 0 /\ \A d \in Calls : d # c => call'[d] = call[d]
    BY <1>1, <2>1, <2>2, AnsweredCall
  <2>4. QED BY <2>1, <2>3 DEF Moved
<1>4. ASSUME NEW c \in Calls, Pass(c) \/ Write(c)
      PROVE  Moved(c) /\ endpoint' = endpoint /\ \A d \in Calls : d # c => call'[d] = call[d]
  <2>1. /\ UnderWay(c) /\ endpoint' = endpoint /\ overlapped' = overlapped /\ ~Seeing(c)
    BY <1>4 DEF Pass, Write
  <2>2. /\ effects' # effects => effects' = Applied(StepOf(c))
        /\ StepOf(c).op = "look" => effects' = effects
        /\ effects' \in 0..2 /\ \E changes \in BOOLEAN : Passed(c, changes)
    BY <1>1, <1>4, AppliedStep DEF Pass, Write, Writing
  <2>3. /\ call'[c].at = 0 \/ call'[c].at = call[c].at + 1
        /\ \A d \in Calls : d # c => call'[d] = call[d]
    BY <1>1, <2>1, <2>2, PassedMoves
  <2>4. QED BY <2>1, <2>2, <2>3 DEF Moved
<1>5. ASSUME NEW c \in Calls, Count(c)
      PROVE  Moved(c) /\ endpoint' = endpoint /\ \A d \in Calls : d # c => call'[d] = call[d]
  <2>1. /\ UnderWay(c) /\ endpoint' = endpoint /\ overlapped' = overlapped /\ effects' = effects
        /\ StepOf(c).op = "limit"
    BY <1>5 DEF Count
  <2>2. \/ Passed(c, FALSE)
        \/ \E code \in StepOf(c).codes : Answered(c, code, FALSE)
    BY <1>5 DEF Count
  <2>3. /\ call'[c].at = 0 \/ call'[c].at = call[c].at + 1
        /\ \A d \in Calls : d # c => call'[d] = call[d]
    BY <1>1, <2>1, <2>2, PassedMoves, AnsweredCall
  <2>4. QED BY <2>1, <2>3 DEF Moved
<1>6. ASSUME NEW c \in Calls, Fault(c)
      PROVE  Moved(c) /\ endpoint' = endpoint /\ \A d \in Calls : d # c => call'[d] = call[d]
  <2>1. PICK applied \in BOOLEAN :
          /\ effects' = IF applied THEN Applied(StepOf(c)) ELSE effects
          /\ IF StepOf(c).fault = "IGNORED" THEN Passed(c, applied)
                                          ELSE Answered(c, StepOf(c).fault, applied)
    BY <1>6 DEF Fault
  <2>2. /\ UnderWay(c) /\ endpoint' = endpoint /\ overlapped' = overlapped
    BY <1>6 DEF Fault
  <2>3. effects' \in 0..2 /\ (effects' # effects => effects' = Applied(StepOf(c)))
    BY <1>1, <2>1, AppliedStep
  <2>4. CASE StepOf(c).fault = "IGNORED"
    BY <1>1, <2>1, <2>2, <2>3, <2>4, PassedMoves DEF Moved
  <2>5. CASE StepOf(c).fault # "IGNORED"
    BY <1>1, <2>1, <2>2, <2>3, <2>5, AnsweredCall DEF Moved
  <2>6. QED BY <2>4, <2>5
<1>7. CASE PassTime \/ Done
  BY <1>7 DEF PassTime, Done, apiVars
<1>8. QED BY <1>2, <1>3, <1>4, <1>5, <1>6, <1>7 DEF ApiNext

\* Past the look, and not yet past the act.
Committed(at, e) == Gate[e] < at /\ at <= Act[e]

\* Of the endpoints that look first, whoever is past the look has no effect
\* behind it, as long as no two copies overlap.
OnceInv ==
  /\ effects = 2 => endpoint \in Twice
  /\ endpoint \in LookingFirst /\ ~overlapped =>
       /\ effects # 2
       /\ \A c, d \in Calls : UnderWay(c) /\ UnderWay(d) => c = d
       /\ \A c \in Calls : Committed(call[c].at, endpoint) => effects = 0

LEMMA NotCommitted ==
  ASSUME NEW e \in LookingFirst
  PROVE  ~Committed(0, e) /\ ~Committed(1, e)
BY GatedEndpoints DEF Committed

LEMMA OnceKept ==
  ASSUME CallsTypeOK, OnceInv, ApiNext
  PROVE  OnceInv'
<1>1. CASE call' = call /\ effects' = effects /\ overlapped' = overlapped
  BY <1>1, Moves DEF OnceInv, UnderWay
<1>2. ASSUME NEW c \in Calls, \A d \in Calls : d # c => call'[d] = call[d], Sent(c)
      PROVE  OnceInv'
  <2>1. endpoint' = endpoint /\ effects' = effects /\ call'[c].at = 1
    BY <1>2, Moves DEF Sent
  <2>2. effects' = 2 => endpoint' \in Twice
    BY <2>1 DEF OnceInv
  <2>3. ASSUME endpoint \in LookingFirst, ~overlapped'
        PROVE  /\ effects' # 2
               /\ \A d, e \in Calls : UnderWay(d)' /\ UnderWay(e)' => d = e
               /\ \A d \in Calls : ~Committed(call'[d].at, endpoint)
    <3>1. ~overlapped /\ \A d \in Calls : ~UnderWay(d)
      BY <1>2, <2>3 DEF Sent
    <3>2. ASSUME NEW d \in Calls, d # c PROVE call'[d].at = 0
      <4>1. call[d].at \in 0..Len(Steps) /\ Len(Steps) \in Nat
        BY CallFacts, StepFacts
      <4>2. QED BY <1>2, <3>1, <3>2, <4>1 DEF UnderWay
    <3>3. \A d \in Calls : ~Committed(call'[d].at, endpoint)
      BY <2>1, <2>3, <3>2, NotCommitted
    <3>4. \A d \in Calls : UnderWay(d)' => d = c
      BY <3>2 DEF UnderWay
    <3>5. QED BY <2>1, <2>3, <3>1, <3>3, <3>4 DEF OnceInv
  <2>4. QED BY <2>1, <2>2, <2>3 DEF OnceInv
<1>3. ASSUME NEW c \in Calls, \A d \in Calls : d # c => call'[d] = call[d], Moved(c)
      PROVE  OnceInv'
  <2>1. /\ endpoint' = endpoint /\ overlapped' = overlapped /\ UnderWay(c) /\ effects \in 0..2
        /\ call[c].at \in DOMAIN Steps /\ StepOf(c) = Steps[call[c].at] /\ call[c].at \in Int
    <3>1. overlapped' = overlapped /\ UnderWay(c)
      BY <1>3 DEF Moved
    <3>2. endpoint' = endpoint /\ effects \in 0..2
      BY Moves DEF CallsTypeOK
    <3>3. call[c].at \in DOMAIN Steps /\ StepOf(c) = Steps[call[c].at] /\ call[c].at \in Int
      BY <3>1, CallFacts, StepFacts
    <3>4. QED BY <3>1, <3>2, <3>3
  <2>2. effects' = effects \/ effects' = Applied(StepOf(c))
    BY <1>3 DEF Moved
  <2>3. ASSUME effects' = 2 PROVE endpoint \in Twice
    <3>1. CASE effects = 2
      BY <3>1 DEF OnceInv
    <3>2. CASE effects # 2
      <4>1. StepOf(c).op = "more"
        BY <2>1, <2>2, <2>3, <3>2, AppliedStep
      <4>2. QED BY <2>1, <4>1, StepFacts
    <3>3. QED BY <3>1, <3>2
  <2>4. ASSUME endpoint \in LookingFirst, ~overlapped
        PROVE  /\ effects' # 2
               /\ \A d, e \in Calls : UnderWay(d)' /\ UnderWay(e)' => d = e
               /\ \A d \in Calls : Committed(call'[d].at, endpoint) => effects' = 0
    <3>1. ASSUME NEW d \in Calls, d # c PROVE call'[d].at = 0
      <4>1. ~UnderWay(d) /\ call'[d] = call[d]
        BY <1>3, <2>1, <2>4, <3>1 DEF OnceInv
      <4>2. call[d].at \in 0..Len(Steps) /\ Len(Steps) \in Nat
        BY CallFacts, StepFacts
      <4>3. QED BY <4>1, <4>2 DEF UnderWay
    <3>2. PICK at, gate, act : at = call[c].at /\ gate = Gate[endpoint] /\ act = Act[endpoint]
      OBVIOUS
    <3>3. gate \in Nat /\ act \in Nat /\ 1 < gate /\ gate < act /\ at \in Int
      BY <2>1, <2>4, <3>2, GatedEndpoints
    <3>4. /\ at = gate => StepOf(c).seen # "none"
          /\ gate <= at /\ at < act => StepOf(c).op = "look" /\ StepOf(c).fault # "IGNORED"
          /\ StepOf(c).op = "more" => at = act
      <4>1. Gated(Steps, gate, act)
        BY <2>4, <3>2, GatedEndpoints DEF Steps
      <4>2. QED BY <2>1, <3>2, <4>1 DEF Gated
    <3>5. effects # 2 /\ (gate < at /\ at <= act => effects = 0)
      BY <2>4, <3>2 DEF OnceInv, Committed
    <3>6. effects' # 2
      <4>1. CASE StepOf(c).op = "more"
        <5>1. effects = 0
          BY <3>3, <3>4, <3>5, <4>1
        <5>2. QED BY <2>1, <2>2, <5>1, AppliedStep
      <4>2. CASE StepOf(c).op # "more"
        BY <2>1, <2>2, <3>5, <4>2, AppliedStep
      <4>3. QED BY <4>1, <4>2
    <3>7. ASSUME gate < call'[c].at, call'[c].at <= act PROVE effects' = 0
      <4>1. call'[c].at = at + 1
        BY <1>3, <3>2, <3>3, <3>7 DEF Moved
      <4>2. gate <= at /\ at < act
        BY <3>3, <3>7, <4>1
      <4>3. ~Seeing(c) /\ effects' = effects
        BY <1>3, <3>2, <3>3, <3>4, <3>7, <4>1, <4>2 DEF Moved
      <4>4. CASE at = gate
        BY <2>1, <3>4, <4>3, <4>4 DEF Seeing, InPlace
      <4>5. CASE gate < at
        BY <3>5, <4>2, <4>3, <4>5, <3>3
      <4>6. QED BY <3>3, <4>2, <4>4, <4>5
    <3>8. \A d \in Calls : Committed(call'[d].at, endpoint) => effects' = 0
      <4>1. Committed(call'[c].at, endpoint) => effects' = 0
        BY <3>2, <3>7 DEF Committed
      <4>2. QED BY <2>4, <3>1, <4>1, NotCommitted
    <3>9. \A d \in Calls : UnderWay(d)' => d = c
      BY <3>1 DEF UnderWay
    <3>10. QED BY <3>6, <3>8, <3>9
  <2>5. QED BY <2>1, <2>3, <2>4 DEF OnceInv
<1>4. QED BY <1>1, <1>2, <1>3, Moves

\* A request that is sent again takes effect once, for any number of copies
\* and sendings, unless it makes or stamps something; the endpoints that look
\* first do as long as no two copies overlap.
THEOREM RetriesStaySafe == ApiSpec => []RetriesAreSafe
<1>1. ApiInit => OnceInv
  <2>1. SUFFICES ASSUME ApiInit PROVE OnceInv
    OBVIOUS
  <2>2. effects = 0 /\ \A c \in Calls : call[c].at = 0
    BY <2>1 DEF ApiInit
  <2>3. QED BY <2>2 DEF OnceInv, UnderWay
<1>2. CallsTypeOK /\ OnceInv /\ [ApiNext]_apiVars => OnceInv'
  <2>1. SUFFICES ASSUME CallsTypeOK, OnceInv, [ApiNext]_apiVars PROVE OnceInv'
    OBVIOUS
  <2>2. CASE ApiNext
    BY <2>1, <2>2, OnceKept
  <2>3. CASE UNCHANGED apiVars
    BY <2>1, <2>3 DEF apiVars, OnceInv, UnderWay
  <2>4. QED BY <2>1, <2>2, <2>3
<1>3. OnceInv => RetriesAreSafe
  BY DEF OnceInv, RetriesAreSafe, Twice
<1>4. QED BY <1>1, <1>2, <1>3, CallsStayRight, PTL DEF ApiSpec

(***************************************************************************)
(* Revocation of access tokens, for any clock resolution and any lifetimes *)
(* in which an access token does not outlive the Redis key.                *)
(***************************************************************************)

USE SecondAssumption, LifetimeAssumption, NoFlagAssumption

\* The Redis key, alive or not, carries the last revocation.
FlagIsLast ==
  \A u \in Users :
    IF flag[u] = NoFlag THEN lastRevoked[u] = 0
    ELSE /\ flag[u].stamp = lastRevoked[u]
         /\ flag[u].until = lastRevoked[u] + FlagTTL * Second

AccessInv == TypeOK /\ FlagIsLast

-----------------------------------------------------------------------------
(* Rounding to seconds. *)

LEMMA SecondsBounds ==
  ASSUME NEW n \in Nat
  PROVE  /\ Seconds(n) \in Nat
         /\ Seconds(n) * Second <= n
         /\ n < Seconds(n) * Second + Second
  BY SMTT(30) DEF Seconds

\* Rounding down loses less than a whole number of seconds can make up for.
LEMMA SecondsMonotone ==
  ASSUME NEW m \in Nat, NEW n \in Nat, NEW k \in Nat, m + k * Second <= n
  PROVE  Seconds(m) + k <= Seconds(n)
  <1>1. Seconds(m) \in Nat /\ Seconds(m) * Second <= m
    BY SecondsBounds
  <1>2. Seconds(n) \in Nat /\ n < Seconds(n) * Second + Second
    BY SecondsBounds
  <1>3. (Seconds(m) + k) * Second < (Seconds(n) + 1) * Second
    BY <1>1, <1>2, SMTT(30)
  <1>4. QED
    BY <1>1, <1>2, <1>3, SMTT(30)

-----------------------------------------------------------------------------
LEMMA AccessInit == Init => AccessInv
  BY DEF Init, AccessInv, TypeOK, FlagIsLast

LEMMA AccessStep == AccessInv /\ [Next]_vars => AccessInv'
  <1> SUFFICES ASSUME AccessInv, [Next]_vars PROVE AccessInv'
    OBVIOUS
  <1> USE DEF AccessInv, TypeOK, FlagIsLast
  <1>1. FlagTTL * Second \in Nat
    BY SMTT(30)
  <1>2. ASSUME NEW u \in Users, Sign(u)
        PROVE  AccessInv'
    BY <1>2 DEF Sign, AccessToken
  <1>3. ASSUME NEW u \in Users, Revoke(u)
        PROVE  AccessInv'
    <2> DEFINE new == [stamp |-> now, until |-> now + FlagTTL * Second]
    <2>1. new \in Flag /\ new # NoFlag
      BY <1>1 DEF Flag
    <2>2. new.stamp = now /\ new.until = now + FlagTTL * Second
      OBVIOUS
    <2> HIDE DEF new
    <2>3. /\ flag' = [flag EXCEPT ![u] = new]
          /\ lastRevoked' = [lastRevoked EXCEPT ![u] = now]
          /\ UNCHANGED <<now, issued>>
      BY <1>3 DEF Revoke, NewFlag, new
    <2>4. FlagIsLast'
      BY <2>1, <2>2, <2>3
    <2>5. QED
      BY <2>1, <2>3, <2>4
  <1>4. CASE Tick
    BY <1>4 DEF Tick
  <1>5. CASE UNCHANGED vars
    BY <1>5 DEF vars
  <1>6. QED
    BY <1>2, <1>3, <1>4, <1>5 DEF Next

THEOREM AccessTypeCorrect == Spec => []TypeOK
  <1>1. AccessInv => TypeOK
    BY DEF AccessInv
  <1>2. QED
    BY <1>1, AccessInit, AccessStep, PTL DEF Spec

\* A revoked access token is never admitted again.  While the Redis key lives
\* its stamp exceeds the rounded "iat"; when the key is gone the token, whose
\* lifetime and tolerance fit in the key's TTL, has expired.
THEOREM RevocationHolds == Spec => []RevokedStaysRevoked
  <1>1. AccessInv => RevokedStaysRevoked
    <2> SUFFICES ASSUME AccessInv, NEW a \in issued, a.signedAt < lastRevoked[a.user]
                 PROVE  ~Admitted(a)
      BY DEF RevokedStaysRevoked
    <2> DEFINE u == a.user
               s == a.signedAt
    <2>1. u \in Users /\ s \in Nat /\ lastRevoked[u] \in Nat /\ now \in Nat
      BY DEF AccessInv, TypeOK, AccessToken
    <2>2. /\ flag[u] # NoFlag
          /\ flag[u].stamp = lastRevoked[u]
          /\ flag[u].until = lastRevoked[u] + FlagTTL * Second
      BY <2>1 DEF AccessInv, FlagIsLast
    <2>3. CASE now < flag[u].until
      <3>1. Iat(a) * Second <= s
        BY <2>1, SecondsBounds DEF Iat
      <3>2. Iat(a) * Second < flag[u].stamp
        <4>1. Iat(a) \in Nat /\ Iat(a) * Second \in Nat
          BY <2>1, SecondsBounds, SMTT(30) DEF Iat
        <4>2. QED
          BY <2>1, <2>2, <3>1, <4>1
      <3>3. QED
        BY <2>2, <2>3, <3>2 DEF Admitted, IsUserRevoked, FlagUp
    <2>4. CASE ~(now < flag[u].until)
      <3>1. FlagTTL * Second \in Nat
        BY SMTT(30)
      <3>2. s + FlagTTL * Second <= now
        BY <2>1, <2>2, <2>4, <3>1
      <3>3. Seconds(s) + FlagTTL <= Seconds(now)
        BY <2>1, <3>2, SecondsMonotone
      <3>4. Seconds(s) \in Nat /\ Seconds(now) \in Nat
        BY <2>1, SecondsBounds
      <3>5. Expired(a)
        BY <3>3, <3>4 DEF Expired, Iat
      <3>6. QED
        BY <3>5 DEF Admitted
    <2>5. QED
      BY <2>3, <2>4
  <1>2. QED
    BY <1>1, AccessInit, AccessStep, PTL DEF Spec

\* A token signed a full second after the last revocation is not rejected as
\* revoked: rounding "iat" down cannot push it below the stamp.
THEOREM FreshTokensWork == Spec => []FreshTokenWorks
  <1>1. AccessInv => FreshTokenWorks
    <2> SUFFICES ASSUME AccessInv, NEW a \in issued,
                        a.signedAt >= lastRevoked[a.user] + Second
                 PROVE  ~(Iat(a) * Second < flag[a.user].stamp /\ FlagUp(a.user))
      BY DEF FreshTokenWorks, IsUserRevoked
    <2>1. a.user \in Users /\ a.signedAt \in Nat /\ lastRevoked[a.user] \in Nat
      BY DEF AccessInv, TypeOK, AccessToken
    <2>2. Iat(a) \in Nat /\ a.signedAt < Iat(a) * Second + Second
      BY <2>1, SecondsBounds DEF Iat
    <2>3. Iat(a) * Second \in Nat
      BY <2>2, SMTT(30)
    <2>4. FlagUp(a.user) => flag[a.user].stamp = lastRevoked[a.user]
      BY <2>1 DEF FlagUp, AccessInv, FlagIsLast
    <2>5. QED
      BY <2>1, <2>2, <2>3, <2>4
  <1>2. QED
    BY <1>1, AccessInit, AccessStep, PTL DEF Spec
=============================================================================
