---------------------------- MODULE Idempotency ----------------------------
(***************************************************************************)
(* The idempotency key of POST /otp/verify: IdempotencyService.getOrLock,  *)
(* complete and release, called by OtpController.verifyOtp around the      *)
(* verification.  Keys are independent, so one key is enough; all its      *)
(* requests carry the same session and code.                               *)
(*                                                                         *)
(* The verification is abstracted to what OtpSession and the sign-in make  *)
(* of it: it succeeds once for the session, any call of it may fail, and   *)
(* what follows the success (user, invites, tokens) may fail after it.     *)
(*                                                                         *)
(* The lock has a TTL of 30 s.  When Slow is FALSE a handler that is alive *)
(* always finishes within it; when TRUE a handler may take longer.         *)
(*                                                                         *)
(* An operator Name_slip is Name with a mistake a change could make; no    *)
(* specification uses them, they only show that a property would notice.   *)
(***************************************************************************)
EXTENDS Naturals

CONSTANTS Requests, Slow, NoRequest

ASSUME KeyAssumption == NoRequest \notin Requests /\ Slow \in BOOLEAN

VARIABLES
  key,        \* idem:<key>: Free, a processing lock or a completed response
  req,        \* handler -> where it is
  used,       \* the session has been verified
  delivered   \* history: a caller has been answered with the tokens

keyVars == <<key, req, used, delivered>>

Free == [state |-> "free", by |-> NoRequest, ttl |-> TRUE]
Lock_forever(r) == [state |-> "processing", by |-> r, ttl |-> FALSE]
Lock(r) == [state |-> "processing", by |-> r, ttl |-> TRUE]
Completed_empty(r) == [state |-> "completed", by |-> NoRequest, ttl |-> TRUE]
Completed(r) == [state |-> "completed", by |-> r, ttl |-> TRUE]   \* the tokens r made

\* Where a handler is between two awaits; "verify" to "release" are in the try.
Places == {"idle", "lock", "recheck", "verify", "signin", "complete", "release"}
Holding == {"verify", "signin", "complete", "release"}

KeyTypeOK ==
  /\ key \in {Free} \cup
       [state : {"processing", "completed"}, by : Requests, ttl : BOOLEAN]
  /\ req \in [Requests -> Places]
  /\ used \in BOOLEAN
  /\ delivered \in BOOLEAN

KeyInit ==
  /\ key = Free
  /\ req = [r \in Requests |-> "idle"]
  /\ used = FALSE
  /\ delivered = FALSE

Goto(r, place) == req' = [req EXCEPT ![r] = place]

-----------------------------------------------------------------------------
(* Answered from the cache, or refused with IDEMPOTENCY_CONFLICT. *)
Cached(r) ==
  /\ key.state = "completed"
  /\ Goto(r, "idle")
  /\ delivered' = TRUE
  /\ UNCHANGED <<key, used>>

Refused_inTry(r) == Goto(r, "release") /\ UNCHANGED <<key, used, delivered>>
Refused(r) == Goto(r, "idle") /\ UNCHANGED <<key, used, delivered>>

(* A request, or a retry, arrives and reads the key. *)
Arrive(r) ==
  /\ req[r] = "idle"
  /\ \/ Cached(r)
     \/ key.state = "processing" /\ Refused(r)
     \/ key = Free /\ Goto(r, "lock") /\ UNCHANGED <<key, used, delivered>>

Acquirable_always == TRUE
Acquirable == key = Free

(* SET NX with the TTL of the lock. *)
Acquire(r) ==
  /\ req[r] = "lock"
  /\ IF Acquirable THEN key' = Lock(r) /\ Goto(r, "verify")
                   ELSE key' = key /\ Goto(r, "recheck")
  /\ UNCHANGED <<used, delivered>>

Recheck(r) ==
  /\ req[r] = "recheck"
  /\ Cached(r) \/ (key.state # "completed" /\ Refused(r))

(* The verification script succeeds, for the one handler that comes first.  *)
Verify(r) ==
  /\ req[r] = "verify"
  /\ ~used
  /\ used' = TRUE
  /\ Goto(r, "signin")
  /\ UNCHANGED <<key, delivered>>

(* The user is upserted, invites are claimed and tokens made. *)
SignIn(r) ==
  /\ req[r] = "signin"
  /\ Goto(r, "complete")
  /\ UNCHANGED <<key, used, delivered>>

Complete(r) ==
  /\ req[r] = "complete"
  /\ key' = Completed(r)
  /\ Goto(r, "idle")
  /\ delivered' = TRUE
  /\ UNCHANGED used

(* Any call in the try fails, the verification also for its own reasons.    *)
Throw(r) ==
  /\ req[r] \in {"verify", "signin", "complete"}
  /\ Goto(r, "release")
  /\ UNCHANGED <<key, used, delivered>>

(* DEL of the key, whatever it holds by now. *)
Release(r) ==
  /\ req[r] = "release"
  /\ key' = Free
  /\ Goto(r, "idle")
  /\ UNCHANGED <<used, delivered>>

(* The process dies, or a call outside the try fails. *)
Crash(r) ==
  /\ req[r] # "idle"
  /\ Goto(r, "idle")
  /\ UNCHANGED <<key, used, delivered>>

-----------------------------------------------------------------------------
(* The TTLs run out. *)
ExpireLock ==
  /\ key.state = "processing" /\ key.ttl
  /\ Slow \/ req[key.by] \notin Holding
  /\ key' = Free
  /\ UNCHANGED <<req, used, delivered>>

ExpireCompleted ==
  /\ key.state = "completed"
  /\ key' = Free
  /\ UNCHANGED <<req, used, delivered>>

Step(r) ==
  \/ Acquire(r) \/ Recheck(r) \/ Verify(r) \/ SignIn(r) \/ Complete(r)
  \/ Throw(r) \/ Release(r)

KeyNext ==
  \/ \E r \in Requests : Arrive(r) \/ Step(r) \/ Crash(r)
  \/ ExpireLock \/ ExpireCompleted

KeySpec == KeyInit /\ [][KeyNext]_keyVars

(* Handlers run on and Redis lets the lock expire. *)
LiveSpec == KeySpec /\ WF_keyVars(ExpireLock) /\ \A r \in Requests : WF_keyVars(Step(r))

-----------------------------------------------------------------------------
(* The API documentation of verify: of parallel requests with one key, one  *)
(* processes.  Holds when no handler outlives its lock, and is refuted when *)
(* one does.                                                                *)
OneProcesses ==
  \A q, r \in Requests : req[q] \in Holding /\ req[r] \in Holding => q = r

(* The API documentation of verify: a retry with the same key gets the      *)
(* cached answer.  So a stored answer is never replaced or deleted by a     *)
(* handler; it only expires.  Refuted when a handler outlives its lock.     *)
AnswersAreKept ==
  [][key.state = "completed" => key' = key \/ req' = req]_keyVars

(* A lock is given up in the end, also when its handler has died or could   *)
(* not delete it: a key never refuses its client for ever.                  *)
LocksEnd == key.state = "processing" ~> key.state # "processing"

(* The comment on release: it lets the client retry.  So a free key that    *)
(* nobody works on is one whose session is still to be verified, or whose   *)
(* tokens somebody got.  Refuted by a failure after the verification.       *)
RetryCanSucceed ==
  key = Free /\ used /\ (\A r \in Requests : req[r] = "idle") => delivered
=============================================================================
