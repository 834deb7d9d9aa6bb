------------------------ MODULE OtpSession_proofs -------------------------
(***************************************************************************)
(* What holds of OTP sessions for any number of phones, sessions, handlers *)
(* and ticks: the types, that a session is verified once, that one that is *)
(* gone stays gone, that guesses are bounded and that locks are final; and *)
(* that the keys of a session, all in all, behave as one code.             *)
(***************************************************************************)
EXTENDS OtpSession, TLAPS

-----------------------------------------------------------------------------
(* The types of the records the actions store. *)
SessionRow == [phone : Phones \cup {NoPhone}, status : Status,
               life : Int, lock : Int, ttl : Nat]
CountRow == [n : Nat, ttl : Nat]
PointerRow == [id : Sessions \cup {NoSession}, ttl : Nat]
ReqRow == [at : Places, phone : Phones \cup {NoPhone}, id : Sessions \cup {NoSession}]

LEMMA Ticks ==
  /\ Expiry \in Nat /\ Expiry > 0
  /\ Cooldown \in Nat /\ Cooldown > 0
  /\ LockTime \in Nat /\ LockTime > 0
  /\ VerifiedTTL \in Nat /\ VerifiedTTL > 0
  /\ Skew \in Nat
<1>1. {Expiry, Cooldown, LockTime, VerifiedTTL, MaxAttempts} \subseteq Nat \ {0} /\ Skew \in Nat
  BY ClockAssumption DEF ClockAssumption
<1>2. QED BY <1>1

LEMMA NoKeyTypes ==
  NoKey \in SessionRow /\ NoCount \in CountRow /\ NoPointer \in PointerRow /\ Idle \in ReqRow
BY DEF NoKey, NoCount, NoPointer, Idle, SessionRow, CountRow, PointerRow, ReqRow, Status, Places

LEMMA NewSessionType ==
  ASSUME NEW p \in Phones \cup {NoPhone}, NEW ahead \in Int
  PROVE  NewSession(p, ahead) \in SessionRow
BY Ticks DEF NewSession, SessionRow, Status

LEMMA RowUpdate ==
  ASSUME NEW row \in SessionRow, NEW st \in Status, NEW l \in Int, NEW t \in Nat
  PROVE  [row EXCEPT !.status = st, !.lock = l, !.ttl = t] \in SessionRow
BY DEF SessionRow

(* The rows the verification script writes back. *)
LEMMA WrittenRows ==
  ASSUME NEW row \in SessionRow, NEW ahead \in Int
  PROVE  /\ LockedRow(row, ahead) \in SessionRow
         /\ WrongRow(row, ahead) \in SessionRow
         /\ VerifiedRow(row) \in SessionRow
<1>1. row.life - ahead \in Int /\ LockTime + ahead \in Int /\ LockTime \in Nat
  BY Ticks DEF SessionRow
<1>2. {"LOCKED", "ACTIVE", "VERIFIED"} \subseteq Status
  BY DEF Status
<1>3. LockedRow(row, ahead) \in SessionRow
  BY <1>1, <1>2, RowUpdate DEF LockedRow
<1>4. WrongRow(row, ahead) \in SessionRow
  <2>1. CASE row.life - ahead > 0
    <3>1. row.life - ahead \in Nat /\ 0 \in Int
      BY <1>1, <2>1
    <3>2. [row EXCEPT !.status = "ACTIVE", !.lock = 0, !.ttl = row.life - ahead] \in SessionRow
      BY <3>1, <1>2, RowUpdate
    <3>3. QED BY <2>1, <3>2 DEF WrongRow
  <2>2. CASE ~(row.life - ahead > 0)
    BY <2>2 DEF WrongRow
  <2>3. QED BY <2>1, <2>2
<1>5. VerifiedRow(row) \in SessionRow
  BY Ticks DEF VerifiedRow, SessionRow, Status
<1>6. QED BY <1>3, <1>4, <1>5

LEMMA CountedType ==
  ASSUME NEW c \in CountRow
  PROVE  Counted(c) \in CountRow
BY Ticks DEF Counted, CountRow

(* The types again, by the names of the rows. *)
Types ==
  /\ session \in [Sessions -> SessionRow]
  /\ attempts \in [Sessions -> CountRow]
  /\ pointer \in [Phones -> PointerRow]
  /\ cooldown \in [Phones -> Nat]
  /\ req \in [Requests -> ReqRow]
  /\ drawn \in SUBSET Sessions
  /\ wrong \in [Sessions -> Nat]
  /\ right \in [Sessions -> Nat]
  /\ since \in [Phones -> 0..Cooldown]

LEMMA TypesAreTypeOK == TypeOK <=> Types
BY DEF TypeOK, Types, SessionRow, CountRow, PointerRow, ReqRow

(* One tick leaves every row well typed. *)
LEMMA TickedSession ==
  ASSUME NEW row \in SessionRow
  PROVE  (IF row.ttl <= 1 THEN NoKey
          ELSE [row EXCEPT !.ttl = @ - 1, !.life = RunDown(@),
                  !.lock = IF row.status = "LOCKED" THEN RunDown(@) ELSE @]) \in SessionRow
<1>1. CASE row.ttl <= 1
  BY <1>1, NoKeyTypes
<1>2. CASE ~(row.ttl <= 1)
  <2>1. row.ttl - 1 \in Nat /\ row.life \in Int /\ row.lock \in Int
    BY <1>2 DEF SessionRow
  <2>2. ASSUME NEW n \in Int PROVE RunDown(n) \in Int
    BY DEF RunDown
  <2>3. PICK t \in Nat : t = row.ttl - 1
    BY <2>1
  <2>4. PICK e \in Int : e = RunDown(row.life)
    BY <2>1, <2>2
  <2>5. PICK l \in Int : l = IF row.status = "LOCKED" THEN RunDown(row.lock) ELSE row.lock
    BY <2>1, <2>2
  <2>6. [row EXCEPT !.ttl = t, !.life = e, !.lock = l] \in SessionRow
    BY DEF SessionRow
  <2>7. QED BY <1>2, <2>3, <2>4, <2>5, <2>6
<1>3. QED BY <1>1, <1>2

LEMMA TickedTypes ==
  ASSUME Types, Tick
  PROVE  Types'
<1> USE Ticks, NoKeyTypes DEF Types
<1>1. session' \in [Sessions -> SessionRow]
  BY TickedSession DEF Tick
<1>2. attempts' \in [Sessions -> CountRow]
  <2>1. ASSUME NEW c \in CountRow
        PROVE  (IF c.ttl <= 1 THEN NoCount ELSE [c EXCEPT !.ttl = @ - 1]) \in CountRow
    BY DEF CountRow
  <2>2. QED BY <2>1 DEF Tick
<1>3. pointer' \in [Phones -> PointerRow]
  <2>1. ASSUME NEW q \in PointerRow
        PROVE  (IF q.ttl <= 1 THEN NoPointer ELSE [q EXCEPT !.ttl = @ - 1]) \in PointerRow
    BY DEF PointerRow
  <2>2. QED BY <2>1 DEF Tick
<1>4. cooldown' \in [Phones -> Nat]
  <2>1. ASSUME NEW n \in Nat PROVE Less(n) \in Nat
    BY DEF Less
  <2>2. QED BY <2>1 DEF Tick
<1>5. since' \in [Phones -> 0..Cooldown]
  <2>1. ASSUME NEW n \in 0..Cooldown
        PROVE  (IF n < Cooldown THEN n + 1 ELSE n) \in 0..Cooldown
    OBVIOUS
  <2>2. QED BY <2>1 DEF Tick
<1>6. QED BY <1>1, <1>2, <1>3, <1>4, <1>5 DEF Tick

(* A handler under way, and a session that exists, belong to a phone. *)
PhonesKnown ==
  /\ \A r \in Requests : req[r].at # "idle" => req[r].phone \in Phones
  /\ \A s \in Sessions : Exists(s) => session[s].phone \in Phones

LEMMA StepTypes ==
  ASSUME Types, PhonesKnown, [Next]_vars
  PROVE  Types'
<1> USE Ticks, NoKeyTypes DEF Types
<1>1. ASSUME NEW r \in Requests, NEW k \in ReqRow, req' = [req EXCEPT ![r] = k]
      PROVE  req' \in [Requests -> ReqRow]
  BY <1>1
<1>2. ASSUME NEW r \in Requests, NEW place \in Places, Goto(r, place)
      PROVE  req' \in [Requests -> ReqRow]
  BY <1>2 DEF Goto, ReqRow
<1>3. ASSUME NEW r \in Requests, Finish(r)
      PROVE  req' \in [Requests -> ReqRow]
  BY <1>1, <1>3 DEF Finish
<1>4. ASSUME NEW r \in Requests, NEW p \in Phones, SendStart(r, p) PROVE Types'
  <2>1. [at |-> "lookup", phone |-> p, id |-> NoSession] \in ReqRow
    BY DEF ReqRow, Places
  <2>2. QED BY <1>1, <1>4, <2>1 DEF SendStart, keys
<1>5. ASSUME NEW r \in Requests, SendLookUp(r) PROVE Types'
  <2>1. PICK q : q = pointer[req[r].phone]
    OBVIOUS
  <2>2. q \in PointerRow
    BY <1>5, <2>1 DEF PhonesKnown, SendLookUp
  <2>3. PICK place : place = IF q.ttl > 0 THEN "drop" ELSE "store"
    OBVIOUS
  <2>4. req' = [req EXCEPT ![r] = [req[r] EXCEPT !.id = q.id, !.at = place]]
    BY <1>5, <2>1, <2>3 DEF SendLookUp
  <2>5. [req[r] EXCEPT !.id = q.id, !.at = place] \in ReqRow
    BY <2>2, <2>3 DEF ReqRow, PointerRow, Places
  <2>6. req' \in [Requests -> ReqRow]
    BY <1>1, <2>4, <2>5
  <2>7. QED BY <1>5, <2>6 DEF SendLookUp, keys
<1>6. ASSUME NEW r \in Requests, SendDrop(r) PROVE Types'
  <2>1. "store" \in Places
    BY DEF Places
  <2>2. QED BY <1>2, <1>6, <2>1 DEF SendDrop
<1>7. ASSUME NEW r \in Requests, NEW s \in Sessions, NEW ahead \in -Skew..Skew,
             SendStore(r, s, ahead)
      PROVE  Types'
  <2>1. req[r] \in ReqRow /\ ahead \in Int /\ "point" \in Places
    BY DEF Places
  <2>2. NewSession(req[r].phone, ahead) \in SessionRow
    BY <2>1, NewSessionType DEF ReqRow
  <2>3. [req[r] EXCEPT !.id = s, !.at = "point"] \in ReqRow
    BY <2>1 DEF ReqRow
  <2>4. req' = [req EXCEPT ![r] = [req[r] EXCEPT !.id = s, !.at = "point"]]
    BY <1>7 DEF SendStore
  <2>5. req' \in [Requests -> ReqRow]
    BY <1>1, <2>3, <2>4
  <2>6. 0 \in 0..Cooldown
    OBVIOUS
  <2>7. QED BY <1>7, <2>2, <2>5, <2>6 DEF SendStore
<1>8. ASSUME NEW r \in Requests, SendPoint(r) PROVE Types'
  <2>1. PointerTo(r) \in PointerRow /\ "cool" \in Places
    BY DEF PointerTo, PointerRow, ReqRow, Places
  <2>2. QED BY <1>2, <1>8, <2>1 DEF SendPoint
<1>9. ASSUME NEW r \in Requests, SendCool(r) PROVE Types'
  BY <1>3, <1>9 DEF SendCool
<1>10. ASSUME NEW p \in Phones, ClearCooldown(p) PROVE Types'
  <2>1. Cooldown \in 0..Cooldown
    OBVIOUS
  <2>2. QED BY <1>10, <2>1 DEF ClearCooldown
<1>11. ASSUME NEW s \in Sessions PROVE Found(s) \in CountRow
  BY DEF Found
<1>12. ASSUME NEW s \in Sessions, NEW ahead \in -Skew..Skew, VerifyExpired(s, ahead)
       PROVE  Types'
  BY <1>11, <1>12 DEF VerifyExpired
<1>13. ASSUME NEW s \in Sessions, NEW ahead \in -Skew..Skew, VerifyWrong(s, ahead)
       PROVE  Types'
  <2>1. Counted(Found(s)) \in CountRow
    BY <1>11, CountedType
  <2>2. LockedRow(session[s], ahead) \in SessionRow /\ WrongRow(session[s], ahead) \in SessionRow
    <3>1. ahead \in Int /\ session[s] \in SessionRow
      OBVIOUS
    <3>2. QED BY <3>1, WrittenRows
  <2>3. wrong[s] + 1 \in Nat
    OBVIOUS
  <2>4. QED BY <1>13, <2>1, <2>2, <2>3 DEF VerifyWrong
<1>14. ASSUME NEW r \in Requests, NEW s \in Sessions, NEW ahead \in -Skew..Skew,
              VerifyRight(r, s, ahead)
       PROVE  Types'
  <2>1. VerifiedRow(session[s]) \in SessionRow
    BY WrittenRows
  <2>2. [at |-> "unpoint", phone |-> session[s].phone, id |-> s] \in ReqRow
    BY DEF ReqRow, SessionRow, Places
  <2>3. req' \in [Requests -> ReqRow]
    BY <1>1, <1>14, <2>2 DEF VerifyRight
  <2>4. right[s] + 1 \in Nat
    OBVIOUS
  <2>5. QED BY <1>14, <2>1, <2>3, <2>4 DEF VerifyRight
<1>15. ASSUME NEW r \in Requests, UnPoint(r) PROVE Types'
  BY <1>3, <1>15 DEF UnPoint
<1>16. ASSUME NEW r \in Requests, Fail(r) PROVE Types'
  BY <1>3, <1>16 DEF Fail, keys
<1>17. ASSUME Tick PROVE Types'
  BY <1>17, TickedTypes
<1>18. ASSUME UNCHANGED vars PROVE Types'
  BY <1>18 DEF vars
<1>19. QED
  BY <1>4, <1>5, <1>6, <1>7, <1>8, <1>9, <1>10, <1>12, <1>13, <1>14, <1>15, <1>16, <1>17, <1>18
  DEF Next, Send, Verify

(* What a step does to the phone a handler works for, and to a session's.  *)
LEMMA StepPhones ==
  ASSUME Types, PhonesKnown, [Next]_vars
  PROVE  PhonesKnown'
<1> USE DEF Types, PhonesKnown, Exists
<1> DEFINE Mine(r) == req'[r].at # "idle" => req'[r].phone \in Phones
           Row(s) == session'[s].ttl > 0 => session'[s].phone \in Phones
<1>1. ASSUME NEW r \in Requests, NEW k, k.at # "idle" => k.phone \in Phones,
             req' = [req EXCEPT ![r] = k]
      PROVE  \A q \in Requests : Mine(q)
  BY <1>1
<1>2. Idle.at = "idle"
  BY DEF Idle
<1>3. ASSUME NEW r \in Requests, NEW place, req[r].at # "idle", Goto(r, place)
      PROVE  \A q \in Requests : Mine(q)
  BY <1>3 DEF Goto, ReqRow
<1>4. ASSUME NEW r \in Requests, Finish(r)
      PROVE  \A q \in Requests : Mine(q)
  BY <1>1, <1>2, <1>4 DEF Finish
<1>5. ASSUME UNCHANGED session PROVE \A s \in Sessions : Row(s)
  BY <1>5
<1>6. NoKey.ttl = 0
  BY DEF NoKey
<1>7. ASSUME NEW r \in Requests, NEW p \in Phones, SendStart(r, p)
      PROVE  (\A q \in Requests : Mine(q)) /\ \A s \in Sessions : Row(s)
  BY <1>1, <1>5, <1>7 DEF SendStart, keys
<1>8. ASSUME NEW r \in Requests, SendLookUp(r)
      PROVE  (\A q \in Requests : Mine(q)) /\ \A s \in Sessions : Row(s)
  BY <1>5, <1>8 DEF SendLookUp, keys, ReqRow
<1>9. ASSUME NEW r \in Requests, SendDrop(r)
      PROVE  (\A q \in Requests : Mine(q)) /\ \A s \in Sessions : Row(s)
  BY <1>3, <1>6, <1>9 DEF SendDrop
<1>10. ASSUME NEW r \in Requests, NEW s \in Sessions, NEW ahead \in -Skew..Skew,
              SendStore(r, s, ahead)
       PROVE  (\A q \in Requests : Mine(q)) /\ \A t \in Sessions : Row(t)
  <2>1. req[r].phone \in Phones
    BY <1>10 DEF SendStore
  <2>2. NewSession(req[r].phone, ahead).phone = req[r].phone
    BY DEF NewSession
  <2>3. \A t \in Sessions : Row(t)
    BY <1>10, <2>1, <2>2 DEF SendStore
  <2>4. \A q \in Requests : Mine(q)
    BY <1>10, <2>1 DEF SendStore, ReqRow
  <2>5. QED BY <2>3, <2>4
<1>11. ASSUME NEW r \in Requests, SendPoint(r)
       PROVE  (\A q \in Requests : Mine(q)) /\ \A s \in Sessions : Row(s)
  BY <1>3, <1>5, <1>11 DEF SendPoint
<1>12. ASSUME NEW r \in Requests, SendCool(r) \/ UnPoint(r) \/ Fail(r)
       PROVE  (\A q \in Requests : Mine(q)) /\ \A s \in Sessions : Row(s)
  BY <1>4, <1>5, <1>12 DEF SendCool, UnPoint, Fail, keys
<1>13. ASSUME UNCHANGED <<session, req>> PROVE PhonesKnown'
  BY <1>13
<1>14. ASSUME NEW s \in Sessions, NEW ahead \in -Skew..Skew, VerifyWrong(s, ahead)
       PROVE  PhonesKnown'
  <2>1. session[s].phone \in Phones
    BY <1>14 DEF VerifyWrong, Guessable
  <2>2. PICK row : /\ session' = [session EXCEPT ![s] = row]
                   /\ row = LockedRow(session[s], ahead) \/ row = WrongRow(session[s], ahead)
    BY <1>14 DEF VerifyWrong
  <2>3. row.phone = session[s].phone
    BY <2>2 DEF LockedRow, WrongRow, SessionRow
  <2>4. QED BY <1>14, <2>1, <2>2, <2>3 DEF VerifyWrong
<1>15. ASSUME NEW r \in Requests, NEW s \in Sessions, NEW ahead \in -Skew..Skew,
              VerifyRight(r, s, ahead)
       PROVE  (\A q \in Requests : Mine(q)) /\ \A t \in Sessions : Row(t)
  <2>1. session[s].phone \in Phones
    BY <1>15 DEF VerifyRight, Guessable
  <2>2. VerifiedRow(session[s]).phone = session[s].phone
    BY DEF VerifiedRow, SessionRow
  <2>3. \A t \in Sessions : Row(t)
    BY <1>15, <2>1, <2>2 DEF VerifyRight
  <2>4. \A q \in Requests : Mine(q)
    BY <1>1, <1>15, <2>1 DEF VerifyRight
  <2>5. QED BY <2>3, <2>4
<1>16. ASSUME Tick PROVE PhonesKnown'
  <2>1. ASSUME NEW s \in Sessions PROVE Row(s)
    <3>1. session[s] \in SessionRow
      OBVIOUS
    <3>2. CASE session[s].ttl <= 1
      <4>1. session'[s] = NoKey
        BY <1>16, <3>2 DEF Tick
      <4>2. ~(NoKey.ttl > 0)
        BY <1>6
      <4>3. QED BY <4>1, <4>2
    <3>3. CASE ~(session[s].ttl <= 1)
      <4>1. session[s].ttl > 0
        BY <3>1, <3>3 DEF SessionRow
      <4>2. session'[s].phone = session[s].phone
        BY <1>16, <3>1, <3>3 DEF Tick, SessionRow
      <4>3. QED BY <4>1, <4>2
    <3>4. QED BY <3>2, <3>3
  <2>2. QED BY <1>16, <2>1 DEF Tick
<1>17. QED
  BY <1>7, <1>8, <1>9, <1>10, <1>11, <1>12, <1>13, <1>14, <1>15, <1>16
  DEF Next, Send, Verify, ClearCooldown, VerifyExpired, vars

-----------------------------------------------------------------------------
(* A session that was verified is VERIFIED until it is gone, and an id has  *)
(* no key before it is drawn: so nothing verifies it again.                 *)
Spent ==
  \A s \in Sessions :
    /\ s \notin drawn => ~Exists(s) /\ right[s] = 0
    /\ right[s] # 0 => right[s] = 1 /\ (Exists(s) => session[s].status = "VERIFIED")

OtpInv == Types /\ PhonesKnown /\ Spent

(* What one step may do to one session, said of its row and its history:    *)
(* nothing, make it, forget it, write a guess back, verify it, or age it.   *)
LEMMA OneSession ==
  ASSUME Types, [Next]_vars, NEW s \in Sessions
  PROVE  \/ session'[s] = session[s] /\ right'[s] = right[s]
         \/ s \notin drawn /\ s \in drawn' /\ right'[s] = right[s]
         \/ session'[s].ttl = 0 /\ right'[s] = right[s]
         \/ /\ Exists(s) /\ session[s].status # "VERIFIED"
            /\ right'[s] = right[s]
         \/ /\ Exists(s) /\ session[s].status # "VERIFIED"
            /\ session'[s].status = "VERIFIED" /\ right'[s] = right[s] + 1
         \/ Exists(s) /\ session'[s].status = session[s].status /\ right'[s] = right[s]
<1> USE DEF Types, Exists
<1>1. NoKey.ttl = 0
  BY DEF NoKey
<1>2. ASSUME NEW r \in Requests, NEW t \in Sessions, NEW ahead \in -Skew..Skew,
             SendStore(r, t, ahead)
      PROVE  \/ session'[s] = session[s] /\ right'[s] = right[s]
             \/ s \notin drawn /\ s \in drawn' /\ right'[s] = right[s]
  BY <1>2 DEF SendStore
<1>3. ASSUME NEW r \in Requests, SendDrop(r)
      PROVE  \/ session'[s] = session[s] /\ right'[s] = right[s]
             \/ session'[s].ttl = 0 /\ right'[s] = right[s]
  BY <1>1, <1>3 DEF SendDrop
<1>4. ASSUME NEW t \in Sessions, NEW ahead \in -Skew..Skew, VerifyWrong(t, ahead)
      PROVE  \/ session'[s] = session[s] /\ right'[s] = right[s]
             \/ Exists(s) /\ session[s].status # "VERIFIED" /\ right'[s] = right[s]
  BY <1>4 DEF VerifyWrong, Guessable
<1>5. ASSUME NEW r \in Requests, NEW t \in Sessions, NEW ahead \in -Skew..Skew,
             VerifyRight(r, t, ahead)
      PROVE  \/ session'[s] = session[s] /\ right'[s] = right[s]
             \/ /\ Exists(s) /\ session[s].status # "VERIFIED"
                /\ session'[s].status = "VERIFIED" /\ right'[s] = right[s] + 1
  <2>1. VerifiedRow(session[t]).status = "VERIFIED"
    BY DEF VerifiedRow, SessionRow
  <2>2. QED BY <1>5, <2>1 DEF VerifyRight, Guessable
<1>6. ASSUME Tick
      PROVE  \/ session'[s].ttl = 0 /\ right'[s] = right[s]
             \/ Exists(s) /\ session'[s].status = session[s].status /\ right'[s] = right[s]
  <2>1. session[s] \in SessionRow
    OBVIOUS
  <2>2. CASE session[s].ttl <= 1
    <3>1. session'[s] = NoKey
      BY <1>6, <2>2 DEF Tick
    <3>2. QED BY <1>1, <1>6, <3>1 DEF Tick
  <2>3. CASE ~(session[s].ttl <= 1)
    <3>1. session[s].ttl > 0
      BY <2>1, <2>3 DEF SessionRow
    <3>2. session'[s].status = session[s].status
      BY <1>6, <2>1, <2>3 DEF Tick, SessionRow
    <3>3. QED BY <1>6, <3>1, <3>2 DEF Tick
  <2>4. QED BY <2>2, <2>3
<1>7. ASSUME UNCHANGED <<session, right>>
      PROVE  session'[s] = session[s] /\ right'[s] = right[s]
  BY <1>7
<1>8. QED
  BY <1>2, <1>3, <1>4, <1>5, <1>6, <1>7
  DEF Next, Send, Verify, SendStart, SendLookUp, SendPoint, SendCool, UnPoint, Fail,
      ClearCooldown, VerifyExpired, keys, vars

LEMMA DrawnGrows ==
  ASSUME [Next]_vars
  PROVE  drawn \subseteq drawn'
BY DEF Next, Send, Verify, SendStart, SendLookUp, SendDrop, SendStore, SendPoint, SendCool,
   UnPoint, Fail, ClearCooldown, VerifyExpired, VerifyWrong, VerifyRight, Tick, vars

LEMMA StepSpent ==
  ASSUME OtpInv, [Next]_vars
  PROVE  Spent'
<1> USE DEF OtpInv, Spent, Types, Exists
<1>1. SUFFICES ASSUME NEW s \in Sessions
               PROVE  /\ s \notin drawn' => ~(session'[s].ttl > 0) /\ right'[s] = 0
                      /\ right'[s] # 0 =>
                           /\ right'[s] = 1
                           /\ session'[s].ttl > 0 => session'[s].status = "VERIFIED"
  OBVIOUS
<1>2. s \in drawn => s \in drawn'
  BY DrawnGrows
<1>3. right[s] \in Nat
  OBVIOUS
<1>4. QED BY <1>2, <1>3, OneSession

LEMMA OtpInvInit == Init => OtpInv
<1> SUFFICES ASSUME Init PROVE OtpInv
  OBVIOUS
<1>1. Types
  BY Ticks, NoKeyTypes DEF Init, Types
<1>2. PhonesKnown /\ Spent
  BY DEF Init, PhonesKnown, Spent, Exists, Idle, NoKey
<1>3. QED BY <1>1, <1>2 DEF OtpInv

LEMMA OtpInvHolds == Spec => []OtpInv
<1>1. OtpInv /\ [Next]_vars => OtpInv'
  BY StepTypes, StepPhones, StepSpent DEF OtpInv
<1>2. QED BY OtpInvInit, <1>1, PTL DEF Spec

(* Every key, counter and handler is well formed in every reachable state.  *)
THEOREM OtpTypeCorrect == Spec => []TypeOK
<1>1. OtpInv => TypeOK
  BY TypesAreTypeOK DEF OtpInv
<1>2. QED BY OtpInvHolds, <1>1, PTL

(* One OTP opens one sign-in: however many guesses and retries race, the    *)
(* verification script answers success once for a session.                  *)
THEOREM SessionsAreSingleUse == Spec => []SingleUse
<1>1. OtpInv => SingleUse
  <2>1. SUFFICES ASSUME OtpInv, NEW s \in Sessions PROVE right[s] <= 1
    BY DEF SingleUse
  <2>2. right[s] \in Nat /\ (right[s] # 0 => right[s] = 1)
    BY <2>1 DEF OtpInv, Types, Spent
  <2>3. QED BY <2>2
<1>2. QED BY OtpInvHolds, <1>1, PTL

(* A session that has run out or was replaced by a newer send never exists  *)
(* again: no guess under way stores it a second time.                       *)
THEOREM GoneSessionsStayGone == Spec => NoResurrection
<1>1. OtpInv /\ [Next]_vars =>
        [\A s \in drawn : ~Exists(s) => session'[s].ttl = 0]_vars
  <2>1. SUFFICES ASSUME OtpInv, OtpInv', [Next]_vars, NEW s \in drawn, ~Exists(s)
                 PROVE  session'[s].ttl = 0
    BY StepTypes, StepPhones, StepSpent DEF OtpInv
  <2>2. s \in Sessions /\ session[s].ttl \in Nat /\ session'[s].ttl \in Nat
    BY <2>1 DEF OtpInv, Types, SessionRow
  <2>3. session[s].ttl = 0
    BY <2>1, <2>2 DEF Exists
  <2>4. QED BY <2>1, <2>2, <2>3, OneSession DEF OtpInv, Exists
<1>2. QED BY OtpInvHolds, <1>1, PTL DEF Spec, NoResurrection

-----------------------------------------------------------------------------
(* The guesses.  A lock lasts so much longer than a code that, by whatever  *)
(* clock it has run out, the code has expired; and the counter of a code    *)
(* that can still be guessed has not run out, and counts every guess.       *)
LEMMA Margins ==
  /\ MaxAttempts \in Nat /\ MaxAttempts > 0
  /\ Expiry + 4 * Skew < LockTime
<1>1. {Expiry, Cooldown, LockTime, VerifiedTTL, MaxAttempts} \subseteq Nat \ {0}
  BY ClockAssumption DEF ClockAssumption
<1>2. Expiry + 4 * Skew < LockTime
  BY ClockAssumption DEF ClockAssumption
<1>. QED  BY <1>1, <1>2

\* Past by every clock.
Over(row) == row.life < -Skew

CounterKept(row, c, n) ==
  IF n = 0 THEN c.ttl = 0
  ELSE Over(row) \/ (c.ttl > 0 /\ c.n = n /\ row.life + LockTime <= c.ttl + Expiry + Skew)

LockLasts(row) == Over(row) \/ row.life + LockTime <= row.lock + Expiry + 2 * Skew

\* Of a session's row, its counter and its wrong guesses.
Guesses(row, c, n) ==
  /\ n <= MaxAttempts
  /\ row.ttl > 0 =>
       /\ row.life <= Expiry + Skew
       /\ row.status = "ACTIVE" => n < MaxAttempts /\ CounterKept(row, c, n)
       /\ row.status = "LOCKED" => LockLasts(row)

GuessInv ==
  \A s \in Sessions :
    /\ Guesses(session[s], attempts[s], wrong[s])
    /\ s \notin drawn => wrong[s] = 0 /\ attempts[s].ttl = 0

\* A row that can be guessed, at a time its code has not expired, is not locked.
LEMMA GuessableIsActive ==
  ASSUME NEW row \in SessionRow, NEW c \in CountRow, NEW n \in Nat, Guesses(row, c, n),
         NEW ahead \in -Skew..Skew, row.ttl > 0,
         row.status # "VERIFIED", ~(row.status = "LOCKED" /\ row.lock > ahead),
         ~(row.life < ahead)
  PROVE  row.status = "ACTIVE"
<1>1. row.life \in Int /\ row.lock \in Int /\ row.status \in Status
  BY DEF SessionRow
<1>2. ASSUME row.status = "LOCKED" PROVE FALSE
  <2>1. LockLasts(row) /\ ~(row.lock > ahead)
    BY <1>2 DEF Guesses
  <2>. QED  BY <1>1, <2>1, Ticks, Margins DEF LockLasts, Over
<1>. QED  BY <1>1, <1>2 DEF Status

\* A wrong guess.
LEMMA WrongGuess ==
  ASSUME NEW row \in SessionRow, NEW c \in CountRow, NEW n \in Nat, Guesses(row, c, n),
         NEW ahead \in -Skew..Skew, row.ttl > 0, row.status = "ACTIVE",
         ~(row.life < ahead)
  PROVE  Guesses(IF Counted(c).n >= MaxAttempts THEN LockedRow(row, ahead)
                 ELSE WrongRow(row, ahead), Counted(c), n + 1)
<1>1. row.life \in Int /\ row.ttl \in Nat /\ ahead \in Int /\ -Skew <= ahead /\ ahead <= Skew
  BY Ticks DEF SessionRow
<1>2. c.n \in Nat /\ c.ttl \in Nat
  BY DEF CountRow
<1>3. /\ row.life <= Expiry + Skew /\ ~Over(row)
      /\ n < MaxAttempts /\ CounterKept(row, c, n)
  BY <1>1, Ticks DEF Guesses, Over
<1>4. /\ Counted(c).n = n + 1 /\ Counted(c).ttl > 0
      /\ row.life + LockTime <= Counted(c).ttl + Expiry + Skew
  <2>1. CASE c.ttl = 0
    <3>1. n = 0
      BY <1>3, <2>1 DEF CounterKept
    <3>2. Counted(c) = [n |-> 1, ttl |-> LockTime]
      BY <2>1 DEF Counted
    <3>. QED  BY <1>1, <1>3, <3>1, <3>2, Ticks
  <2>2. CASE c.ttl # 0
    <3>1. n # 0 /\ c.n = n /\ row.life + LockTime <= c.ttl + Expiry + Skew
      BY <1>2, <1>3, <2>2 DEF CounterKept
    <3>2. Counted(c).n = c.n + 1 /\ Counted(c).ttl = c.ttl
      BY <2>2 DEF Counted, CountRow
    <3>. QED  BY <1>2, <2>2, <3>1, <3>2
  <2>. QED  BY <2>1, <2>2
<1>5. CASE Counted(c).n >= MaxAttempts
  <2>. DEFINE locked == LockedRow(row, ahead)
  <2>1. /\ locked.status = "LOCKED" /\ locked.life = row.life
        /\ locked.lock = LockTime + ahead
    BY DEF LockedRow, SessionRow
  <2>2. n + 1 <= MaxAttempts
    BY <1>3, Margins
  <2>3. row.life + LockTime <= LockTime + ahead + Expiry + 2 * Skew
    BY <1>1, <1>3, Ticks
  <2>. HIDE DEF locked
  <2>4. LockLasts(locked)
    BY <2>1, <2>3 DEF LockLasts
  <2>5. Guesses(locked, Counted(c), n + 1)
    BY <1>3, <2>1, <2>2, <2>4 DEF Guesses
  <2>. QED  BY <1>5, <2>5 DEF locked
<1>6. CASE ~(Counted(c).n >= MaxAttempts)
  <2>. DEFINE next == WrongRow(row, ahead)
  <2>1. next.life = row.life /\ next.status = "ACTIVE"
    BY DEF WrongRow, SessionRow
  <2>2. n + 1 < MaxAttempts
    BY <1>4, <1>6, Margins
  <2>. HIDE DEF next
  <2>3. CounterKept(next, Counted(c), n + 1)
    BY <1>4, <2>1 DEF CounterKept
  <2>4. Guesses(next, Counted(c), n + 1)
    BY <1>3, <2>1, <2>2, <2>3, Margins DEF Guesses
  <2>. QED  BY <1>6, <2>4 DEF next
<1>. QED  BY <1>5, <1>6

\* A tick.
LEMMA TickedGuesses ==
  ASSUME NEW row \in SessionRow, NEW c \in CountRow, NEW n \in Nat, Guesses(row, c, n),
         row.ttl > 1,
         NEW row2 \in SessionRow, row2.status = row.status, row2.life = RunDown(row.life),
         row.status = "LOCKED" => row2.lock = RunDown(row.lock),
         NEW c2 \in CountRow,
         c.ttl <= 1 => c2.ttl = 0, c.ttl > 1 => c2.ttl = c.ttl - 1 /\ c2.n = c.n
  PROVE  Guesses(row2, c2, n)
<1>1. row.life \in Int /\ row.lock \in Int /\ row2.life \in Int /\ row2.lock \in Int
  BY DEF SessionRow
<1>0. row.ttl > 0
  BY DEF SessionRow
<1>2. c.ttl \in Nat /\ c2.ttl \in Nat
  BY DEF CountRow
<1>3. row2.life <= row.life /\ (Over(row) => Over(row2)) /\ (~Over(row) => row2.life = row.life - 1)
  BY <1>1, Ticks DEF RunDown, Over
<1>4. row2.life <= Expiry + Skew
  BY <1>0, <1>1, <1>3, Ticks DEF Guesses
<1>5. ASSUME row.status = "ACTIVE" PROVE n < MaxAttempts /\ CounterKept(row2, c2, n)
  <2>1. n < MaxAttempts /\ CounterKept(row, c, n)
    BY <1>0, <1>5 DEF Guesses
  <2>2. CASE n = 0
    BY <1>2, <2>1, <2>2 DEF CounterKept
  <2>3. CASE n # 0 /\ Over(row)
    BY <1>3, <2>1, <2>3 DEF CounterKept
  <2>4. CASE n # 0 /\ ~Over(row)
    <3>1. c.ttl > 0 /\ c.n = n /\ row.life + LockTime <= c.ttl + Expiry + Skew
      BY <2>1, <2>4 DEF CounterKept
    <3>2. CASE c.ttl <= 1
      <4>1. Over(row2)
        BY <1>1, <1>2, <1>3, <2>4, <3>1, <3>2, Ticks, Margins DEF Over
      <4>. QED  BY <2>1, <2>4, <4>1 DEF CounterKept
    <3>3. CASE c.ttl > 1
      <4>1. c2.ttl > 0 /\ c2.n = n /\ row2.life + LockTime <= c2.ttl + Expiry + Skew
        BY <1>1, <1>2, <1>3, <2>4, <3>1, <3>3, Ticks
      <4>. QED  BY <2>1, <2>4, <4>1 DEF CounterKept
    <3>. QED  BY <1>2, <3>2, <3>3
  <2>. QED  BY <2>2, <2>3, <2>4
<1>6. ASSUME row.status = "LOCKED" PROVE LockLasts(row2)
  <2>1. LockLasts(row)
    BY <1>0, <1>6 DEF Guesses
  <2>2. row2.lock >= row.lock - 1
    BY <1>1, <1>6, Ticks DEF RunDown
  <2>. QED  BY <1>1, <1>3, <2>1, <2>2, Ticks DEF LockLasts
<1>. QED  BY <1>4, <1>5, <1>6 DEF Guesses

\* A key that is gone can not be guessed, and one that was verified neither.
LEMMA NothingToGuess ==
  ASSUME NEW row, NEW c, NEW n, n <= MaxAttempts, row.ttl = 0 \/ row.status = "VERIFIED",
         row.ttl > 0 => row.life <= Expiry + Skew
  PROVE  Guesses(row, c, n)
<1>1. ~(0 > 0)
  OBVIOUS
<1>. QED  BY <1>1 DEF Guesses

LEMMA StepGuesses ==
  ASSUME OtpInv, GuessInv, [Next]_vars
  PROVE  GuessInv'
<1>. USE DEF OtpInv, GuessInv, Types, Exists
<1>. DEFINE Mine(s) == /\ Guesses(session'[s], attempts'[s], wrong'[s])
                       /\ s \notin drawn' => wrong'[s] = 0 /\ attempts'[s].ttl = 0
<1>1. NoKey.ttl = 0 /\ NoCount.ttl = 0
  BY DEF NoKey, NoCount
<1>2. ASSUME NEW s \in Sessions PROVE Guesses(NoKey, NoCount, wrong[s])
  BY <1>1, NothingToGuess DEF Guesses
<1>3. ASSUME NEW r \in Requests, SendDrop(r), NEW s \in Sessions PROVE Mine(s)
  <2>1. CASE s = req[r].id
    <3>1. session'[s] = NoKey /\ attempts'[s] = NoCount /\ wrong'[s] = wrong[s] /\ drawn' = drawn
      BY <1>3, <2>1 DEF SendDrop
    <3>. QED  BY <3>1, <1>1, <1>2
  <2>2. CASE s # req[r].id
    <3>1. UNCHANGED <<session[s], attempts[s], wrong[s], drawn>>
      BY <1>3, <2>2 DEF SendDrop
    <3>. QED  BY <3>1
  <2>. QED  BY <2>1, <2>2
<1>4. ASSUME NEW r \in Requests, NEW t \in Sessions, NEW ahead \in -Skew..Skew,
             SendStore(r, t, ahead), NEW s \in Sessions
      PROVE  Mine(s)
  <2>1. CASE s = t
    <3>1. wrong[s] = 0 /\ attempts[s].ttl = 0 /\ s \in drawn'
      BY <1>4, <2>1 DEF SendStore
    <3>2. PICK row : row = NewSession(req[r].phone, ahead)
      OBVIOUS
    <3>3. session'[s] = row /\ attempts'[s] = attempts[s] /\ wrong'[s] = wrong[s]
      BY <1>4, <2>1, <3>2 DEF SendStore
    <3>4. row.status = "ACTIVE" /\ row.life = Expiry + ahead
      BY <3>2 DEF NewSession
    <3>5. row.life <= Expiry + Skew
      BY <3>4, Ticks
    <3>6. CounterKept(row, attempts[s], wrong[s]) /\ wrong[s] < MaxAttempts
      BY <3>1, Margins DEF CounterKept
    <3>7. Guesses(row, attempts[s], wrong[s])
      BY <3>1, <3>4, <3>5, <3>6, Margins DEF Guesses
    <3>. QED  BY <3>1, <3>3, <3>7
  <2>2. CASE s # t
    <3>1. /\ UNCHANGED <<session[s], attempts[s], wrong[s]>>
          /\ s \notin drawn' => s \notin drawn
      BY <1>4, <2>2 DEF SendStore
    <3>. QED  BY <3>1
  <2>. QED  BY <2>1, <2>2
<1>5. ASSUME NEW t \in Sessions, NEW ahead \in -Skew..Skew, VerifyExpired(t, ahead),
             NEW s \in Sessions
      PROVE  Mine(s)
  <2>1. UNCHANGED <<session[s], wrong[s], drawn>>
    BY <1>5 DEF VerifyExpired
  <2>2. attempts'[s] = attempts[s] \/ (attempts'[s] = NoCount /\ session[s].status = "LOCKED")
    BY <1>5 DEF VerifyExpired, Found
  <2>3. ASSUME session[s].status = "LOCKED" PROVE Guesses(session[s], NoCount, wrong[s])
    BY <2>3 DEF Guesses
  <2>. QED  BY <1>1, <2>1, <2>2, <2>3
<1>6. ASSUME NEW t \in Sessions, NEW ahead \in -Skew..Skew, VerifyWrong(t, ahead),
             NEW s \in Sessions
      PROVE  Mine(s)
  <2>1. CASE s = t
    <3>1. /\ session[s] \in SessionRow /\ attempts[s] \in CountRow /\ wrong[s] \in Nat
          /\ Guesses(session[s], attempts[s], wrong[s])
      OBVIOUS
    <3>2. /\ session[s].ttl > 0 /\ session[s].status # "VERIFIED"
          /\ ~(session[s].status = "LOCKED" /\ session[s].lock > ahead)
          /\ ~(session[s].life < ahead)
      BY <1>6, <2>1 DEF VerifyWrong, Guessable, Locked, Expired
    <3>3. session[s].status = "ACTIVE"
      BY ONLY <3>1, <3>2, <1>6, GuessableIsActive
    <3>4. Found(s) = attempts[s]
      BY <3>3 DEF Found
    <3>5. /\ attempts'[s] = Counted(attempts[s]) /\ wrong'[s] = wrong[s] + 1
          /\ session'[s] = IF Counted(attempts[s]).n >= MaxAttempts
                           THEN LockedRow(session[s], ahead) ELSE WrongRow(session[s], ahead)
      BY <1>6, <2>1, <3>4 DEF VerifyWrong
    <3>6. Guesses(session'[s], attempts'[s], wrong'[s])
      BY ONLY <3>1, <3>2, <3>3, <3>5, <1>6, WrongGuess
    <3>7. s \in drawn /\ drawn' = drawn
      BY <1>6, <3>2 DEF VerifyWrong, Spent
    <3>. QED  BY <3>6, <3>7
  <2>2. CASE s # t
    <3>1. UNCHANGED <<session[s], attempts[s], wrong[s], drawn>>
      BY <1>6, <2>2 DEF VerifyWrong
    <3>. QED  BY <3>1
  <2>. QED  BY <2>1, <2>2
<1>7. ASSUME NEW r \in Requests, NEW t \in Sessions, NEW ahead \in -Skew..Skew,
             VerifyRight(r, t, ahead), NEW s \in Sessions
      PROVE  Mine(s)
  <2>1. CASE s = t
    <3>1. /\ session'[s] = VerifiedRow(session[s]) /\ attempts'[s] = NoCount
          /\ UNCHANGED <<wrong[s], drawn>>
      BY <1>7, <2>1 DEF VerifyRight
    <3>2. /\ VerifiedRow(session[s]).status = "VERIFIED"
          /\ VerifiedRow(session[s]).life = session[s].life
      BY DEF VerifiedRow, SessionRow
    <3>3. wrong[s] <= MaxAttempts /\ session[s].life <= Expiry + Skew
      BY <1>7, <2>1 DEF VerifyRight, Guessable, Guesses
    <3>4. Guesses(VerifiedRow(session[s]), NoCount, wrong[s])
      BY <3>2, <3>3, NothingToGuess
    <3>. QED  BY <1>1, <3>1, <3>4
  <2>2. CASE s # t
    <3>1. UNCHANGED <<session[s], attempts[s], wrong[s], drawn>>
      BY <1>7, <2>2 DEF VerifyRight
    <3>. QED  BY <3>1
  <2>. QED  BY <2>1, <2>2
<1>8. ASSUME Tick, NEW s \in Sessions PROVE Mine(s)
  <2>1. /\ wrong'[s] = wrong[s] /\ drawn' = drawn /\ wrong[s] \in Nat
        /\ session[s] \in SessionRow /\ attempts[s] \in CountRow
        /\ Guesses(session[s], attempts[s], wrong[s])
    BY <1>8 DEF Tick
  <2>2. session'[s] \in SessionRow /\ attempts'[s] \in CountRow
    BY <1>8, TickedTypes
  <2>3. /\ attempts[s].ttl <= 1 => attempts'[s].ttl = 0
        /\ attempts[s].ttl > 1 => attempts'[s].ttl = attempts[s].ttl - 1
                                    /\ attempts'[s].n = attempts[s].n
    <3>1. attempts'[s] = IF attempts[s].ttl <= 1 THEN NoCount
                         ELSE [attempts[s] EXCEPT !.ttl = @ - 1]
      BY <1>8 DEF Tick
    <3>2. attempts[s].ttl \in Nat
      BY <2>1 DEF CountRow
    <3>. QED  BY ONLY <1>1, <2>1, <3>1, <3>2 DEF CountRow
  <2>4. CASE session[s].ttl <= 1
    <3>1. session'[s] = NoKey
      BY <1>8, <2>4 DEF Tick
    <3>2. Guesses(NoKey, attempts'[s], wrong[s])
      BY <1>1, <2>1, NothingToGuess DEF Guesses
    <3>3. attempts[s].ttl = 0 => attempts'[s].ttl = 0
      BY <2>3
    <3>. QED  BY <2>1, <3>1, <3>2, <3>3
  <2>5. CASE ~(session[s].ttl <= 1)
    <3>1. session[s].ttl > 1
      BY <2>1, <2>5 DEF SessionRow
    <3>2. /\ session'[s].status = session[s].status
          /\ session'[s].life = RunDown(session[s].life)
          /\ session[s].status = "LOCKED" => session'[s].lock = RunDown(session[s].lock)
      BY <1>8, <2>1, <2>5 DEF Tick, SessionRow
    <3>3. Guesses(session'[s], attempts'[s], wrong[s])
      BY ONLY <2>1, <2>2, <2>3, <3>1, <3>2, TickedGuesses
    <3>4. attempts[s].ttl = 0 => attempts'[s].ttl = 0
      BY <2>3
    <3>. QED  BY <2>1, <3>3, <3>4
  <2>. QED  BY <2>4, <2>5
<1>9. ASSUME UNCHANGED <<session, attempts, wrong, drawn>> PROVE GuessInv'
  BY <1>9
<1>10. (\A s \in Sessions : Mine(s)) => GuessInv'
  OBVIOUS
<1>. QED
  BY <1>3, <1>4, <1>5, <1>6, <1>7, <1>8, <1>9, <1>10
  DEF Next, Send, Verify, SendStart, SendLookUp, SendPoint, SendCool, UnPoint, Fail,
      ClearCooldown, keys, vars

LEMMA GuessInvHolds == Spec => [](OtpInv /\ GuessInv)
<1>1. Init => GuessInv
  <2>. SUFFICES ASSUME Init, NEW s \in Sessions
                PROVE  /\ Guesses(session[s], attempts[s], wrong[s])
                       /\ wrong[s] = 0 /\ attempts[s].ttl = 0
    BY DEF GuessInv
  <2>1. session[s] = NoKey /\ attempts[s] = NoCount /\ wrong[s] = 0
    BY DEF Init
  <2>2. NoKey.ttl = 0 /\ NoCount.ttl = 0
    BY DEF NoKey, NoCount
  <2>3. 0 <= MaxAttempts
    BY Margins
  <2>4. Guesses(NoKey, NoCount, 0)
    BY <2>2, <2>3, NothingToGuess
  <2>. QED  BY <2>1, <2>2, <2>4
<1>2. OtpInv /\ GuessInv /\ [Next]_vars => GuessInv'
  BY StepGuesses
<1>3. OtpInv /\ [Next]_vars => OtpInv'
  BY StepTypes, StepPhones, StepSpent DEF OtpInv
<1>. QED  BY OtpInvInit, <1>1, <1>2, <1>3, PTL DEF Spec

(* A code is guessed at most MaxAttempts times in all its life, however many *)
(* guesses race, whatever the servers' clocks say, and also after its lock   *)
(* and its counter have run out.                                             *)
THEOREM GuessesAreBounded == Spec => []BoundedGuesses
<1>1. GuessInv => BoundedGuesses
  BY DEF GuessInv, BoundedGuesses, Guesses
<1>. QED  BY GuessInvHolds, <1>1, PTL

(* A locked session stays locked until it is gone: when its lock has run out *)
(* by a server's clock, its code has expired by the same clock.              *)
THEOREM LocksAreFinal == Spec => LockIsFinal
<1>1. OtpInv /\ GuessInv /\ [Next]_vars =>
        [\A s \in Sessions :
           Exists(s) /\ session[s].status = "LOCKED" =>
             session'[s].ttl = 0 \/ session'[s].status = "LOCKED"]_vars
  <2>. SUFFICES ASSUME OtpInv, GuessInv, [Next]_vars, NEW s \in Sessions,
                       Exists(s), session[s].status = "LOCKED"
                PROVE  session'[s].ttl = 0 \/ session'[s].status = "LOCKED"
    OBVIOUS
  <2>. USE DEF OtpInv, Types, Exists
  <2>1. ASSUME NEW ahead \in -Skew..Skew
        PROVE  ~(Guessable(s, ahead) /\ ~Expired(s, ahead))
    <3>1. /\ session[s] \in SessionRow /\ attempts[s] \in CountRow /\ wrong[s] \in Nat
          /\ Guesses(session[s], attempts[s], wrong[s])
      BY DEF GuessInv
    <3>. QED  BY <3>1, GuessableIsActive DEF Guessable, Locked, Expired
  <2>2. s \in drawn
    BY DEF Spent
  <2>3. NoKey.ttl = 0
    BY DEF NoKey
  <2>4. ASSUME NEW r \in Requests, SendDrop(r)
        PROVE  session'[s] = session[s] \/ session'[s] = NoKey
    BY <2>4 DEF SendDrop
  <2>5. ASSUME NEW r \in Requests, NEW t \in Sessions, NEW ahead \in -Skew..Skew,
               SendStore(r, t, ahead)
        PROVE  session'[s] = session[s]
    BY <2>2, <2>5 DEF SendStore
  <2>6. ASSUME NEW t \in Sessions, NEW ahead \in -Skew..Skew,
               VerifyWrong(t, ahead) \/ \E r \in Requests : VerifyRight(r, t, ahead)
        PROVE  session'[s] = session[s]
    BY <2>1, <2>6 DEF VerifyWrong, VerifyRight
  <2>7. ASSUME Tick PROVE session'[s] = NoKey \/ session'[s].status = session[s].status
    <3>1. session[s] \in SessionRow
      OBVIOUS
    <3>. QED  BY <2>7, <3>1 DEF Tick, SessionRow
  <2>8. CASE UNCHANGED session
    BY <2>8
  <2>. QED
    BY <2>3, <2>4, <2>5, <2>6, <2>7, <2>8
    DEF Next, Send, Verify, SendStart, SendLookUp, SendPoint, SendCool, UnPoint, Fail,
        ClearCooldown, VerifyExpired, keys, vars
<1>. QED  BY GuessInvHolds, <1>1, PTL DEF Spec, LockIsFinal

-----------------------------------------------------------------------------
(***************************************************************************)
(* The keys of a session as the stages of one code.                        *)
(***************************************************************************)

\* The stage of a session by its key.
StagesAre ==
  /\ stageBar = [s \in Sessions |-> stageBar[s]]
  /\ \A s \in Sessions :
       /\ ~Exists(s) /\ s \in drawn => stageBar[s] = "ended"
       /\ ~Exists(s) /\ s \notin drawn => stageBar[s] = "unissued"
       /\ Exists(s) /\ session[s].status = "ACTIVE" => stageBar[s] = "open"
       /\ Exists(s) /\ session[s].status = "LOCKED" => stageBar[s] = "locked"
       /\ Exists(s) /\ session[s].status = "VERIFIED" => stageBar[s] = "used"

LEMMA Stages == StagesAre /\ StagesAre'
<1>1. StageOf["ACTIVE"] = "open" /\ StageOf["LOCKED"] = "locked" /\ StageOf["VERIFIED"] = "used"
  BY DEF StageOf
<1>2. StagesAre
  BY <1>1 DEF StagesAre, stageBar
<1>3. StagesAre'
  BY <1>1 DEF StagesAre, stageBar
<1>. QED  BY <1>2, <1>3

\* What the stage of a session rests on.
LEMMA SameStage ==
  ASSUME NEW s \in Sessions, session'[s] = session[s], s \in drawn' <=> s \in drawn
  PROVE  stageBar'[s] = stageBar[s]
<1>1. stageBar'[s] = IF session'[s].ttl > 0 THEN StageOf[session'[s].status]
                     ELSE IF s \in drawn' THEN "ended" ELSE "unissued"
  BY DEF stageBar, Exists
<1>2. stageBar[s] = IF session[s].ttl > 0 THEN StageOf[session[s].status]
                    ELSE IF s \in drawn THEN "ended" ELSE "unissued"
  BY DEF stageBar, Exists
<1>. QED  BY <1>1, <1>2

\* One session goes to a stage.
LEMMA OneMoves ==
  ASSUME NEW s \in Sessions, NEW x, stageBar'[s] = x,
         \A t \in Sessions \ {s} : stageBar'[t] = stageBar[t]
  PROVE  stageBar' = [stageBar EXCEPT ![s] = x]
<1>1. PICK f, g : /\ f = stageBar /\ g = stageBar'
                  /\ f = [t \in Sessions |-> f[t]] /\ g = [t \in Sessions |-> g[t]]
  BY Stages DEF StagesAre
<1>2. g[s] = x /\ \A t \in Sessions \ {s} : g[t] = f[t]
  BY <1>1
<1>3. g = [f EXCEPT ![s] = x]
  BY ONLY <1>1, <1>2, s \in Sessions
<1>. QED  BY <1>1, <1>3

\* Sessions end, or nothing happens.
LEMMA SessionsEnd ==
  ASSUME UNCHANGED <<wrong, right>>,
         \A s \in Sessions : \/ stageBar'[s] = stageBar[s]
                             \/ stageBar'[s] = "ended" /\ stageBar[s] # "unissued"
  PROVE  Code!Next
<1>1. PICK f, g : /\ f = stageBar /\ g = stageBar'
                  /\ f = [t \in Sessions |-> f[t]] /\ g = [t \in Sessions |-> g[t]]
  BY Stages DEF StagesAre
<1>2. PICK D : D = {s \in Sessions : g[s] # f[s]}
  OBVIOUS
<1>3. \A s \in Sessions : g[s] = f[s] \/ (g[s] = "ended" /\ f[s] # "unissued")
  BY <1>1
<1>4. g = [s \in Sessions |-> IF s \in D THEN "ended" ELSE f[s]] /\ D \in SUBSET Sessions
  BY ONLY <1>1, <1>2, <1>3
<1>5. \A s \in D : f[s] # "unissued"
  BY <1>2, <1>3
<1>6. Code!End(D)
  BY <1>1, <1>4, <1>5 DEF Code!End
<1>. QED  BY <1>4, <1>6 DEF Code!Next

\* A send stores a new session.
LEMMA CodeIsIssued ==
  ASSUME OtpInv, NEW r \in Requests, NEW s \in Sessions, NEW ahead \in -Skew..Skew,
         SendStore(r, s, ahead)
  PROVE  Code!Issue(s)
<1>1. ~Exists(s) /\ s \notin drawn
  BY DEF SendStore, OtpInv, Spent
<1>2. stageBar[s] = "unissued"
  BY <1>1, Stages DEF StagesAre
<1>3. PICK row : row = NewSession(req[r].phone, ahead)
  OBVIOUS
<1>4. session'[s] = row /\ \A t \in Sessions \ {s} : session'[t] = session[t]
  BY <1>3 DEF SendStore, OtpInv, Types
<1>5. row.ttl > 0 /\ row.status = "ACTIVE"
  BY <1>3, Ticks DEF NewSession
<1>6. stageBar'[s] = "open"
  BY <1>4, <1>5, Stages DEF StagesAre, Exists
<1>7. \A t \in Sessions \ {s} : stageBar'[t] = stageBar[t]
  BY <1>4, SameStage DEF SendStore
<1>8. stageBar' = [stageBar EXCEPT ![s] = "open"]
  BY <1>6, <1>7, OneMoves
<1>9. UNCHANGED <<wrong, right>>
  BY DEF SendStore
<1>. QED  BY <1>2, <1>8, <1>9 DEF Code!Issue

\* A guess of an open code finds its counter right.
LEMMA GuessCounts ==
  ASSUME NEW row \in SessionRow, NEW c \in CountRow, NEW n \in Nat, Guesses(row, c, n),
         NEW ahead \in -Skew..Skew, row.ttl > 0, row.status = "ACTIVE",
         ~(row.life < ahead)
  PROVE  Counted(c).n = n + 1 /\ n < MaxAttempts
<1>1. row.life \in Int /\ ahead \in Int /\ -Skew <= ahead
  BY Ticks DEF SessionRow
<1>2. c.n \in Nat /\ c.ttl \in Nat
  BY DEF CountRow
<1>3. ~Over(row) /\ n < MaxAttempts /\ CounterKept(row, c, n)
  BY <1>1, Ticks DEF Guesses, Over
<1>4. CASE c.ttl = 0
  <2>1. n = 0 /\ Counted(c).n = 1
    BY <1>3, <1>4 DEF CounterKept, Counted
  <2>. QED  BY <1>3, <2>1
<1>5. CASE c.ttl # 0
  <2>1. c.n = n /\ Counted(c).n = c.n + 1
    BY <1>3, <1>5 DEF CounterKept, Counted, CountRow
  <2>. QED  BY <1>3, <2>1
<1>. QED  BY <1>4, <1>5

\* What a guess finds, if it is compared with the code.
LEMMA GuessedIsOpen ==
  ASSUME OtpInv, GuessInv, NEW s \in Sessions, NEW ahead \in -Skew..Skew,
         Guessable(s, ahead), ~Expired(s, ahead)
  PROVE  /\ session[s] \in SessionRow /\ session[s].ttl > 0 /\ session[s].status = "ACTIVE"
         /\ stageBar[s] = "open"
         /\ Counted(attempts[s]).n = wrong[s] + 1 /\ wrong[s] < MaxAttempts /\ wrong[s] \in Nat
<1>1. /\ session[s] \in SessionRow /\ attempts[s] \in CountRow /\ wrong[s] \in Nat
      /\ Guesses(session[s], attempts[s], wrong[s])
  BY DEF OtpInv, Types, GuessInv
<1>2. /\ session[s].ttl > 0 /\ session[s].status # "VERIFIED"
      /\ ~(session[s].status = "LOCKED" /\ session[s].lock > ahead)
      /\ ~(session[s].life < ahead)
  BY DEF Guessable, Locked, Expired, Exists
<1>3. session[s].status = "ACTIVE"
  BY ONLY <1>1, <1>2, ahead \in -Skew..Skew, GuessableIsActive
<1>4. Counted(attempts[s]).n = wrong[s] + 1 /\ wrong[s] < MaxAttempts
  BY ONLY <1>1, <1>2, <1>3, ahead \in -Skew..Skew, GuessCounts
<1>5. stageBar[s] = "open"
  BY <1>2, <1>3, Stages DEF StagesAre, Exists
<1>. QED  BY <1>1, <1>2, <1>3, <1>4, <1>5

\* A wrong guess: the last one that is allowed locks.
LEMMA CodeIsMissed ==
  ASSUME OtpInv, GuessInv, NEW s \in Sessions, NEW ahead \in -Skew..Skew,
         VerifyWrong(s, ahead)
  PROVE  Code!Miss(s)
<1>1. /\ session[s] \in SessionRow /\ session[s].ttl > 0 /\ session[s].status = "ACTIVE"
      /\ stageBar[s] = "open"
      /\ Counted(attempts[s]).n = wrong[s] + 1 /\ wrong[s] < MaxAttempts /\ wrong[s] \in Nat
  BY GuessedIsOpen DEF VerifyWrong
<1>2. Found(s) = attempts[s]
  BY <1>1 DEF Found
<1>3. PICK row, next :
        /\ row = session[s] /\ next = session'[s]
        /\ next = IF wrong[s] + 1 >= MaxAttempts THEN LockedRow(row, ahead) ELSE WrongRow(row, ahead)
  BY <1>1, <1>2 DEF VerifyWrong, OtpInv, Types
<1>4. MaxAttempts \in Nat /\ (wrong[s] + 1 >= MaxAttempts <=> wrong[s] + 1 = MaxAttempts)
  BY <1>1, Margins
<1>5. stageBar'[s] = IF wrong[s] + 1 = MaxAttempts THEN "locked" ELSE "open"
  <2>1. CASE wrong[s] + 1 = MaxAttempts
    <3>1. next = LockedRow(row, ahead)
      BY <1>3, <1>4, <2>1
    <3>2. next.status = "LOCKED" /\ next.ttl > 0
      BY <1>1, <1>3, <3>1, Ticks DEF LockedRow, SessionRow
    <3>. QED  BY <1>3, <2>1, <3>2, Stages DEF StagesAre, Exists
  <2>2. CASE wrong[s] + 1 # MaxAttempts
    <3>1. next = WrongRow(row, ahead)
      BY <1>3, <1>4, <2>2
    <3>2. row.life - ahead \in Int /\ row.ttl > 0 /\ row.status = "ACTIVE" /\ row \in SessionRow
      BY <1>1, <1>3, Ticks DEF SessionRow
    <3>3. next.status = "ACTIVE" /\ next.ttl > 0
      BY ONLY <3>1, <3>2 DEF WrongRow, SessionRow
    <3>. QED  BY <1>3, <2>2, <3>3, Stages DEF StagesAre, Exists
  <2>. QED  BY <2>1, <2>2
<1>6. \A t \in Sessions \ {s} : stageBar'[t] = stageBar[t]
  BY SameStage DEF VerifyWrong, OtpInv, Types
<1>7. stageBar' = [stageBar EXCEPT ![s] = IF wrong[s] + 1 = MaxAttempts THEN "locked" ELSE "open"]
  BY <1>5, <1>6, OneMoves
<1>8. wrong' = [wrong EXCEPT ![s] = @ + 1] /\ right' = right
  BY DEF VerifyWrong
<1>. QED  BY <1>1, <1>7, <1>8 DEF Code!Miss

\* The right guess.
LEMMA CodeIsEntered ==
  ASSUME OtpInv, GuessInv, NEW r \in Requests, NEW s \in Sessions, NEW ahead \in -Skew..Skew,
         VerifyRight(r, s, ahead)
  PROVE  Code!Enter(s)
<1>1. session[s] \in SessionRow /\ stageBar[s] = "open"
  BY GuessedIsOpen DEF VerifyRight
<1>2. session'[s] = VerifiedRow(session[s])
  BY DEF VerifyRight, OtpInv, Types
<1>3. VerifiedRow(session[s]).status = "VERIFIED" /\ VerifiedRow(session[s]).ttl > 0
  BY <1>1, Ticks DEF VerifiedRow, SessionRow
<1>4. stageBar'[s] = "used"
  BY <1>2, <1>3, Stages DEF StagesAre, Exists
<1>5. \A t \in Sessions \ {s} : stageBar'[t] = stageBar[t]
  BY SameStage DEF VerifyRight, OtpInv, Types
<1>6. stageBar' = [stageBar EXCEPT ![s] = "used"]
  BY <1>4, <1>5, OneMoves
<1>7. right' = [right EXCEPT ![s] = @ + 1] /\ wrong' = wrong
  BY DEF VerifyRight
<1>. QED  BY <1>1, <1>6, <1>7 DEF Code!Enter

\* A send that drops the session before it, or a tick.
LEMMA CodesEnd ==
  ASSUME OtpInv, Tick \/ \E r \in Requests : SendDrop(r)
  PROVE  Code!Next
<1>1. UNCHANGED <<wrong, right, drawn>>
  BY DEF Tick, SendDrop
<1>2. ASSUME NEW s \in Sessions
      PROVE  \/ session'[s] = session[s] \/ session'[s] = NoKey
             \/ /\ session[s].ttl > 0 /\ session'[s].ttl > 0
                /\ session'[s].status = session[s].status
  <2>1. session[s] \in SessionRow
    BY DEF OtpInv, Types
  <2>2. CASE Tick
    <3>1. CASE session[s].ttl <= 1
      BY <2>2, <3>1 DEF Tick
    <3>2. CASE ~(session[s].ttl <= 1)
      <4>1. session[s].ttl \in Nat /\ session[s].ttl > 1
        BY <2>1, <3>2 DEF SessionRow
      <4>2. session'[s].status = session[s].status /\ session'[s].ttl = session[s].ttl - 1
        BY <2>1, <2>2, <3>2 DEF Tick, SessionRow
      <4>. QED  BY <4>1, <4>2
    <3>. QED  BY <3>1, <3>2
  <2>3. ASSUME NEW r \in Requests, SendDrop(r)
        PROVE  session'[s] = session[s] \/ session'[s] = NoKey
    BY <2>3 DEF SendDrop, OtpInv, Types
  <2>. QED  BY <2>2, <2>3
<1>3. ASSUME NEW s \in Sessions
      PROVE  \/ stageBar'[s] = stageBar[s]
             \/ stageBar'[s] = "ended" /\ stageBar[s] # "unissued"
  <2>1. CASE session'[s] = session[s]
    BY <1>1, <2>1, SameStage
  <2>2. CASE session'[s] = NoKey
    <3>1. ~Exists(s)'
      BY <2>2 DEF Exists, NoKey
    <3>2. session[s].status \in Status /\ (Exists(s) => s \in drawn)
      BY DEF OtpInv, Types, SessionRow, Spent
    <3>3. stageBar'[s] = IF s \in drawn THEN "ended" ELSE "unissued"
      BY <1>1, <3>1, Stages DEF StagesAre
    <3>4. s \in drawn => stageBar[s] # "unissued"
      BY <3>2, Stages DEF StagesAre, Status
    <3>5. s \notin drawn => stageBar[s] = "unissued"
      BY <3>2, Stages DEF StagesAre
    <3>. QED  BY <3>3, <3>4, <3>5
  <2>3. CASE /\ session[s].ttl > 0 /\ session'[s].ttl > 0
             /\ session'[s].status = session[s].status
    BY <2>3 DEF stageBar, Exists
  <2>. QED  BY <1>2, <2>1, <2>2, <2>3
<1>. QED  BY <1>1, <1>3, SessionsEnd

(* For any number of phones, sessions and handlers, any TTLs and clocks     *)
(* within their skew, the keys of a session go through the stages of one    *)
(* code: issued once, used once or locked by the last guess, and gone for   *)
(* good.                                                                    *)
THEOREM SessionsImplementCode == Spec => ImplementsCode
<1>1. Init => Code!Init
  <2>. SUFFICES ASSUME Init PROVE Code!Init
    OBVIOUS
  <2>1. \A s \in Sessions : stageBar[s] = "unissued"
    BY Stages DEF Init, StagesAre, Exists, NoKey
  <2>2. stageBar = [s \in Sessions |-> "unissued"]
    BY <2>1, Stages DEF StagesAre
  <2>. QED  BY <2>2 DEF Init, Code!Init
<1>2. OtpInv /\ GuessInv /\ [Next]_vars => [Code!Next]_(Code!vars)
  <2>. SUFFICES ASSUME OtpInv, GuessInv, [Next]_vars
                PROVE  Code!Next \/ UNCHANGED Code!vars
    OBVIOUS
  <2>1. CASE UNCHANGED <<session, drawn, wrong, right>>
    <3>1. stageBar' = stageBar
      BY <2>1 DEF stageBar, Exists
    <3>. QED  BY <2>1, <3>1 DEF Code!vars
  <2>2. ASSUME NEW r \in Requests, Send(r) PROVE Code!Next \/ UNCHANGED Code!vars
    <3>1. ASSUME NEW s \in Sessions, NEW ahead \in -Skew..Skew, SendStore(r, s, ahead)
          PROVE  Code!Next
      BY <3>1, CodeIsIssued DEF Code!Next
    <3>2. ASSUME SendDrop(r) PROVE Code!Next
      BY <3>2, CodesEnd
    <3>. QED
      BY <2>1, <2>2, <3>1, <3>2 DEF Send, SendStart, SendLookUp, SendPoint, SendCool, keys
  <2>3. CASE Verify
    <3>1. ASSUME NEW s \in Sessions, NEW ahead \in -Skew..Skew, VerifyWrong(s, ahead)
          PROVE  Code!Next
      BY <3>1, CodeIsMissed DEF Code!Next
    <3>2. ASSUME NEW r \in Requests, NEW s \in Sessions, NEW ahead \in -Skew..Skew,
                 VerifyRight(r, s, ahead)
          PROVE  Code!Next
      BY <3>2, CodeIsEntered DEF Code!Next
    <3>. QED  BY <2>1, <2>3, <3>1, <3>2 DEF Verify, VerifyExpired
  <2>4. CASE Tick
    BY <2>4, CodesEnd
  <2>5. CASE \E p \in Phones : ClearCooldown(p)
    BY <2>1, <2>5 DEF ClearCooldown
  <2>6. CASE \E r \in Requests : UnPoint(r) \/ Fail(r)
    BY <2>1, <2>6 DEF UnPoint, Fail, keys
  <2>7. CASE UNCHANGED vars
    BY <2>1, <2>7 DEF vars
  <2>. QED  BY <2>2, <2>3, <2>4, <2>5, <2>6, <2>7 DEF Next
<1>. QED  BY <1>1, <1>2, GuessInvHolds, PTL DEF Spec, ImplementsCode, Code!Spec
=============================================================================
