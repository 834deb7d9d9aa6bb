---------------------------- MODULE OtpSession ----------------------------
(***************************************************************************)
(* One-time-password sessions in Redis: OtpService.sendOtp, verifyOtp and  *)
(* clearSendCooldownForIdentifier, with the verification script of         *)
(* RedisService.                                                           *)
(*                                                                         *)
(* Time passes in ticks.  Every key carries the ticks left of its TTL and  *)
(* a session also those left until expiresAt and lockedUntil, so the state *)
(* space needs no bound on the clock.  Redis counts TTLs by its own clock, *)
(* while expiresAt and lockedUntil are compared with the Date.now() a      *)
(* server read before the call: a server may be up to Skew ticks ahead of  *)
(* Redis or behind it, each call by another amount ("ahead").              *)
(*                                                                         *)
(* A handler is interleaved at every await; the script is one action.  The *)
(* rate limiters only refuse calls (Fail covers a refusal).  The code is   *)
(* abstracted to whether a guess is right.                                 *)
(*                                                                         *)
(* An operator Name_slip is Name with a mistake a change could make; no    *)
(* specification uses them, they only show that a property would notice.   *)
(***************************************************************************)
EXTENDS FiniteSets, Integers

CONSTANTS
  Phones,       \* normalised phone numbers
  Sessions,     \* session ids (UUIDs), drawn once each
  Requests,     \* send and verify handlers that can be in flight
  Expiry,       \* EXPIRY_SECONDS, in ticks
  Cooldown,     \* COOLDOWN_SECONDS
  LockTime,     \* LOCK_DURATION_SECONDS
  VerifiedTTL,  \* the idempotency TTL of a verified session
  MaxAttempts,  \* MAX_ATTEMPTS
  Skew,         \* bound on the difference of a server's clock and Redis's
  NoSession, NoPhone

ASSUME ClockAssumption ==
  /\ {Expiry, Cooldown, LockTime, VerifiedTTL, MaxAttempts} \subseteq Nat \ {0}
  /\ Skew \in Nat
  /\ Expiry + 4 * Skew < LockTime
ASSUME NullAssumption == NoSession \notin Sessions /\ NoPhone \notin Phones

VARIABLES
  session,   \* otp:session:<id>: [phone, status, life, lock, ttl]; ttl 0: no key
  attempts,  \* otp:attempts:<id>: [n, ttl]; ttl 0: no key
  pointer,   \* otp:id:<phone>: [id, ttl]; ttl 0: no key
  cooldown,  \* otp:cooldown:<phone>: its ttl; 0: no key
  req,       \* handler -> [at, phone, id]
  drawn,     \* session ids that have been drawn
  wrong,     \* history: id -> wrong guesses compared with its code
  right,     \* history: id -> verifications that succeeded
  since      \* history: phone -> ticks since the last session, up to Cooldown

keys == <<session, attempts, pointer, cooldown>>
vars == <<session, attempts, pointer, cooldown, req, drawn, wrong, right, since>>

Status == {"ACTIVE", "LOCKED", "VERIFIED"}
Places == {"idle", "lookup", "drop", "store", "point", "cool", "unpoint"}

TypeOK ==
  /\ session \in [Sessions -> [phone : Phones \cup {NoPhone}, status : Status,
                               life : Int, lock : Int, ttl : Nat]]
  /\ attempts \in [Sessions -> [n : Nat, ttl : Nat]]
  /\ pointer \in [Phones -> [id : Sessions \cup {NoSession}, ttl : Nat]]
  /\ cooldown \in [Phones -> Nat]
  /\ req \in [Requests -> [at : Places, phone : Phones \cup {NoPhone},
                           id : Sessions \cup {NoSession}]]
  /\ drawn \in SUBSET Sessions
  /\ wrong \in [Sessions -> Nat]
  /\ right \in [Sessions -> Nat]
  /\ since \in [Phones -> 0..Cooldown]

-----------------------------------------------------------------------------
Idle == [at |-> "idle", phone |-> NoPhone, id |-> NoSession]
NoKey == [phone |-> NoPhone, status |-> "ACTIVE", life |-> 0, lock |-> 0, ttl |-> 0]
NoCount == [n |-> 0, ttl |-> 0]
NoPointer == [id |-> NoSession, ttl |-> 0]

Exists(s) == session[s].ttl > 0
Goto(r, place) == req' = [req EXCEPT ![r].at = place]
Finish(r) == req' = [req EXCEPT ![r] = Idle]

Init ==
  /\ session = [s \in Sessions |-> NoKey]
  /\ attempts = [s \in Sessions |-> NoCount]
  /\ pointer = [p \in Phones |-> NoPointer]
  /\ cooldown = [p \in Phones |-> 0]
  /\ req = [r \in Requests |-> Idle]
  /\ drawn = {}
  /\ wrong = [s \in Sessions |-> 0]
  /\ right = [s \in Sessions |-> 0]
  /\ since = [p \in Phones |-> Cooldown]

-----------------------------------------------------------------------------
(* sendOtp reads the TTL of the cooldown key; the limits let it pass. *)
SendStart(r, p) ==
  /\ req[r] = Idle
  /\ cooldown[p] = 0
  /\ req' = [req EXCEPT ![r] = [at |-> "lookup", phone |-> p, id |-> NoSession]]
  /\ UNCHANGED <<keys, drawn, wrong, right, since>>

(* invalidateExistingSession: GET of the pointer. *)
SendLookUp(r) ==
  LET p == pointer[req[r].phone] IN
  /\ req[r].at = "lookup"
  /\ req' = [req EXCEPT ![r].id = p.id, ![r].at = IF p.ttl > 0 THEN "drop" ELSE "store"]
  /\ UNCHANGED <<keys, drawn, wrong, right, since>>

(* One DEL of the session, its attempts and the pointer. *)
SendDrop(r) ==
  LET s == req[r].id IN
  /\ req[r].at = "drop"
  /\ session' = [session EXCEPT ![s] = NoKey]
  /\ attempts' = [attempts EXCEPT ![s] = NoCount]
  /\ pointer' = [pointer EXCEPT ![req[r].phone] = NoPointer]
  /\ Goto(r, "store")
  /\ UNCHANGED <<cooldown, drawn, wrong, right, since>>

NewSession(p, ahead) ==
  [phone |-> p, status |-> "ACTIVE", life |-> Expiry + ahead, lock |-> 0, ttl |-> Expiry]

SendStore(r, s, ahead) ==
  /\ req[r].at = "store"
  /\ s \notin drawn
  /\ drawn' = drawn \cup {s}
  /\ session' = [session EXCEPT ![s] = NewSession(req[r].phone, ahead)]
  /\ since' = [since EXCEPT ![req[r].phone] = 0]
  /\ req' = [req EXCEPT ![r].id = s, ![r].at = "point"]
  /\ UNCHANGED <<attempts, pointer, cooldown, wrong, right>>

PointerTo_phone(r) == [id |-> req[r].phone, ttl |-> Expiry]
PointerTo(r) == [id |-> req[r].id, ttl |-> Expiry]

SendPoint(r) ==
  /\ req[r].at = "point"
  /\ pointer' = [pointer EXCEPT ![req[r].phone] = PointerTo(r)]
  /\ Goto(r, "cool")
  /\ UNCHANGED <<session, attempts, cooldown, drawn, wrong, right, since>>

SendCool(r) ==
  /\ req[r].at = "cool"
  /\ cooldown' = [cooldown EXCEPT ![req[r].phone] = Cooldown]
  /\ Finish(r)
  /\ UNCHANGED <<session, attempts, pointer, drawn, wrong, right, since>>

(* clearSendCooldownForIdentifier, at logout. *)
ClearCooldown(p) ==
  /\ cooldown' = [cooldown EXCEPT ![p] = 0]
  /\ since' = [since EXCEPT ![p] = Cooldown]
  /\ UNCHANGED <<session, attempts, pointer, req, drawn, wrong, right>>

-----------------------------------------------------------------------------
\* The lock holds, by a clock that is "ahead" ticks ahead of Redis.
Locked(s, ahead) == session[s].status = "LOCKED" /\ session[s].lock > ahead
Expired(s, ahead) == session[s].life < ahead

\* The counter after INCR, with the EXPIRE of the first one.
Counted_short(c) == IF c.ttl = 0 THEN [n |-> 1, ttl |-> Cooldown] ELSE [c EXCEPT !.n = @ + 1]
Counted(c) == IF c.ttl = 0 THEN [n |-> 1, ttl |-> LockTime] ELSE [c EXCEPT !.n = @ + 1]

\* The counter a guess finds: a lock that has run out resets it.
Found(s) == IF session[s].status = "LOCKED" THEN NoCount ELSE attempts[s]

LockedRow_brief(row, ahead) ==
  [row EXCEPT !.status = "LOCKED", !.lock = Cooldown + ahead, !.ttl = LockTime]
LockedRow(row, ahead) ==
  [row EXCEPT !.status = "LOCKED", !.lock = LockTime + ahead, !.ttl = LockTime]

\* SETEX for the time that remains, when some does.
WrongRow(row, ahead) ==
  IF row.life - ahead > 0
  THEN [row EXCEPT !.status = "ACTIVE", !.lock = 0, !.ttl = row.life - ahead] ELSE row

VerifiedRow_open(row) == [row EXCEPT !.ttl = VerifiedTTL]
VerifiedRow(row) == [row EXCEPT !.status = "VERIFIED", !.ttl = VerifiedTTL]

Guessable_deleted(s, ahead) == session[s].status # "VERIFIED" /\ ~Locked(s, ahead)
Guessable(s, ahead) ==
  Exists(s) /\ session[s].status # "VERIFIED" /\ ~Locked(s, ahead)

(* The lock has run out but the code has expired: OTP_EXPIRED, though the   *)
(* script has already deleted the counter.  Other refusals change nothing.  *)
VerifyExpired(s, ahead) ==
  /\ Guessable(s, ahead) /\ Expired(s, ahead)
  /\ attempts' = [attempts EXCEPT ![s] = Found(s)]
  /\ UNCHANGED <<session, pointer, cooldown, req, drawn, wrong, right, since>>

VerifyWrong(s, ahead) ==
  LET c == Counted(Found(s)) IN
  /\ Guessable(s, ahead) /\ ~Expired(s, ahead)
  /\ attempts' = [attempts EXCEPT ![s] = c]
  /\ session' = [session EXCEPT ![s] =
       IF c.n >= MaxAttempts THEN LockedRow(@, ahead) ELSE WrongRow(@, ahead)]
  /\ wrong' = [wrong EXCEPT ![s] = @ + 1]
  /\ UNCHANGED <<pointer, cooldown, req, drawn, right, since>>

(* The right code: verified, and the handler goes on to delete the pointer. *)
VerifyRight(r, s, ahead) ==
  /\ req[r] = Idle
  /\ Guessable(s, ahead) /\ ~Expired(s, ahead)
  /\ session' = [session EXCEPT ![s] = VerifiedRow(@)]
  /\ attempts' = [attempts EXCEPT ![s] = NoCount]
  /\ right' = [right EXCEPT ![s] = @ + 1]
  /\ req' = [req EXCEPT ![r] = [at |-> "unpoint", phone |-> session[s].phone, id |-> s]]
  /\ UNCHANGED <<pointer, cooldown, drawn, wrong, since>>

(* DEL of the phone's pointer, whichever session it names by now. *)
UnPoint(r) ==
  /\ req[r].at = "unpoint"
  /\ pointer' = [pointer EXCEPT ![req[r].phone] = NoPointer]
  /\ Finish(r)
  /\ UNCHANGED <<session, attempts, cooldown, drawn, wrong, right, since>>

(* A call fails, a limit refuses, or the process dies. *)
Fail(r) ==
  /\ req[r] # Idle
  /\ Finish(r)
  /\ UNCHANGED <<keys, drawn, wrong, right, since>>

-----------------------------------------------------------------------------
Less(n) == IF n > 0 THEN n - 1 ELSE 0
RunDown(n) == IF n >= -Skew THEN n - 1 ELSE n   \* past, by every server's clock

(* One tick: every TTL runs down, and a key goes when its TTL does. *)
Tick ==
  /\ session' = [s \in Sessions |->
       IF session[s].ttl <= 1 THEN NoKey
       ELSE [session[s] EXCEPT !.ttl = @ - 1, !.life = RunDown(@),
               !.lock = IF session[s].status = "LOCKED" THEN RunDown(@) ELSE @]]
  /\ attempts' = [s \in Sessions |->
       IF attempts[s].ttl <= 1 THEN NoCount ELSE [attempts[s] EXCEPT !.ttl = @ - 1]]
  /\ pointer' = [p \in Phones |->
       IF pointer[p].ttl <= 1 THEN NoPointer ELSE [pointer[p] EXCEPT !.ttl = @ - 1]]
  /\ cooldown' = [p \in Phones |-> Less(cooldown[p])]
  /\ since' = [p \in Phones |-> IF since[p] < Cooldown THEN since[p] + 1 ELSE since[p]]
  /\ UNCHANGED <<req, drawn, wrong, right>>

Send(r) ==
  \/ \E p \in Phones : SendStart(r, p)
  \/ SendLookUp(r) \/ SendDrop(r)
  \/ \E s \in Sessions, ahead \in -Skew..Skew : SendStore(r, s, ahead)
  \/ SendPoint(r) \/ SendCool(r)

Verify ==
  \E s \in Sessions, ahead \in -Skew..Skew :
    \/ VerifyExpired(s, ahead) \/ VerifyWrong(s, ahead)
    \/ \E r \in Requests : VerifyRight(r, s, ahead)

Next ==
  \/ \E r \in Requests : Send(r) \/ UnPoint(r) \/ Fail(r)
  \/ Verify
  \/ \E p \in Phones : ClearCooldown(p)
  \/ Tick

Spec == Init /\ [][Next]_vars

-----------------------------------------------------------------------------
(* A code can be guessed at most MaxAttempts times over all its life: the   *)
(* counter outlives the code, and a lock that runs out finds it expired.    *)
BoundedGuesses == \A s \in Sessions : wrong[s] <= MaxAttempts

(* A session is verified at most once, by however many parallel calls and   *)
(* retries: one OTP opens one sign-in.                                      *)
SingleUse == \A s \in Sessions : right[s] <= 1

(* A session that was locked is never used again: it stays locked until it  *)
(* is gone, also when its lock runs out before its key does.                *)
LockIsFinal ==
  [][\A s \in Sessions :
       Exists(s) /\ session[s].status = "LOCKED" =>
         session'[s].ttl = 0 \/ session'[s].status = "LOCKED"]_vars

(* A session that is gone, run out or replaced by a newer send, never comes *)
(* back: a guess under way when it is deleted cannot store it again.        *)
NoResurrection ==
  [][\A s \in drawn : ~Exists(s) => session'[s].ttl = 0]_vars

\* The stage of the code that a session's keys hold.
StageOf == [ACTIVE |-> "open", LOCKED |-> "locked", VERIFIED |-> "used"]

stageBar ==
  [s \in Sessions |->
     IF Exists(s) THEN StageOf[session[s].status]
     ELSE IF s \in drawn THEN "ended" ELSE "unissued"]

Code == INSTANCE OneTimeCode WITH
  Codes <- Sessions, MaxGuesses <- MaxAttempts,
  stage <- stageBar, guesses <- wrong, entries <- right

(* The keys of a session, seen as one code: whatever runs out first, by     *)
(* whichever clock, the code goes through the stages of OneTimeCode.        *)
ImplementsCode == Code!Spec

Live(s) == Exists(s) /\ session[s].status = "ACTIVE" /\ session[s].life > 0

(* The API documentation of send: any previous active session of the phone  *)
(* is invalidated.  Refuted by two sends that overlap.                      *)
OneLiveSession ==
  \A s, t \in Sessions :
    Live(s) /\ Live(t) /\ session[s].phone = session[t].phone => s = t

(* The API documentation of send: 60 s between requests for one phone.      *)
(* Refuted by a second send that reads the cooldown before the first has    *)
(* written it.                                                              *)
SendsAreSpaced ==
  [][\A p \in Phones :
       (\E s \in drawn' \ drawn : session'[s].phone = p) => since[p] = Cooldown]_vars
=============================================================================
