------------------------------- MODULE HttpApi -------------------------------
(***************************************************************************)
(* The HTTP interface: a request that is sent, sent again and sent twice   *)
(* at once, on its way through the steps of its endpoint (Endpoints).      *)
(*                                                                         *)
(* All requests of a behaviour are copies of one request to one endpoint:  *)
(* the double tap, the retry after a lost answer, the retry after an       *)
(* error.  Other callers appear as the free choice of every check to       *)
(* refuse, and by nothing else: they do not undo this request's effect.    *)
(* Between any two steps another copy may run, a database or Redis call    *)
(* may fail before or after it took effect, and the server may die.        *)
(***************************************************************************)
EXTENDS Endpoints, FiniteSets

CONSTANTS
  Calls,      \* the copies that may be under way at once
  MaxSends,   \* how often each of them is sent
  Quota,      \* the requests a window lets through, per key
  Window      \* the length of a window, in ticks

Endpoint ==
  [list_mine          |-> ListMine,
   list_members       |-> ListMembers,
   list_activity      |-> ListGroupActivity,
   invite_preview     |-> GetInvitePreview,
   accept_invite      |-> AcceptInvite,
   decline_invite     |-> DeclineInvite,
   member_profile     |-> GetGroupMemberProfile,
   get_group          |-> GetMineById,
   delete_group       |-> DeleteMine,
   invite_phone       |-> AddMember(InvitePhoneSteps),
   invite_user        |-> AddMember(InviteUserSteps),
   patch_role         |-> PatchMemberRole,
   remove_member      |-> RemoveMember,
   create_group       |-> CreateGroup,
   list_invites       |-> ListMyGroupInvites,
   list_joined        |-> ListMyJoinedGroups,
   home               |-> ListMyGroupsHome,
   search             |-> SearchUsers,
   refresh            |-> Refresh,
   logout             |-> Logout,
   get_me             |-> GetMe,
   patch_me           |-> PatchMe(UpdateProfileSteps),
   complete_onboarding |-> PatchMe(CompleteOnboardingSteps),
   send_otp           |-> SendOtp,
   verify_otp         |-> VerifyOtp,
   sync_contacts      |-> SyncContacts,
   upload_avatar      |-> UploadAvatar,
   root               |-> Root,
   health             |-> CheckHealth,
   classify           |-> ClassifyExpense,
   reclassify         |-> ReclassifyExpense,
   categories         |-> GetCategories,
   list_expenses      |-> ListGroupExpenses,
   balances           |-> GetGroupBalances,
   expense_detail     |-> GetExpenseDetail,
   list_comments      |-> ListComments,
   create_comment     |-> CreateComment,
   create_reaction    |-> CreateReaction,
   upload_receipt     |-> UploadExpenseReceipt,
   create_expense     |-> CreateExpense,
   patch_split        |-> PatchExpense(PatchSplitSteps(ExpenseFound)),
   patch_scalar       |-> PatchExpense(PatchScalarSteps(ExpenseFound)),
   patch_split_versioned  |-> PatchExpense(PatchSplitSteps(VersionFound)),
   patch_scalar_versioned |-> PatchExpense(PatchScalarSteps(VersionFound)),
   delete_expense     |-> DeleteExpense,
   category_breakdown |-> CategoryBreakdown,
   monthly_trends     |-> MonthlyTrends,
   top_spenders       |-> TopSpenders,
   merchants          |-> Merchants,
   heatmap            |-> Heatmap,
   recurring          |-> Recurring]

Keys == {"otp ip", "otp phone", "otp verify", "sync ip", "sync user"}

ASSUME HttpAssumption ==
  /\ IsFiniteSet(Calls)
  /\ MaxSends \in Nat /\ Window \in Nat \ {0}
  /\ Quota \in [Keys -> Nat \ {0}]

VARIABLES
  endpoint,    \* the endpoint the requests are for
  call,        \* the copies: [at, sends, answer, changed]; at 0: not under way
  effects,     \* how often the request took effect, counted up to two
  overlapped,  \* history: two copies were under way at once
  window,      \* the counters in Redis: [count, left]
  passed       \* history: the ages of the requests a key let through

apiVars == <<endpoint, call, effects, overlapped, window, passed>>

Steps == Endpoint[endpoint].steps
Documents == Endpoint[endpoint].documents

\* The step c takes next.
StepOf(c) == Steps[call[c].at]

UnderWay(c) == call[c].at > 0
InPlace == effects > 0

\* The kinds of steps that leave a trace in the tables or in Redis.
Writing == {"once", "put", "more", "side"}

\* The requests whose purpose is a write.
Writes == \E i \in DOMAIN Steps : Steps[i].op \in Writing \ {"side"}

ApiTypeOK ==
  /\ endpoint \in DOMAIN Endpoint
  /\ call \in [Calls -> [at : 0..Len(Steps), sends : 0..MaxSends,
                         answer : Codes \cup {"none", "OK", "LOST"},
                         changed : BOOLEAN]]
  /\ effects \in 0..2
  /\ overlapped \in BOOLEAN
  /\ window \in [Keys -> [count : Nat, left : 0..Window]]
  /\ passed \in [Keys -> Seq(0..Window)]

Closed == [count |-> 0, left |-> 0]

ApiInit ==
  /\ endpoint \in DOMAIN Endpoint
  /\ call = [c \in Calls |-> [at |-> 0, sends |-> 0, answer |-> "none", changed |-> FALSE]]
  /\ effects = 0
  /\ overlapped = FALSE
  /\ window = [k \in Keys |-> Closed]
  /\ passed = [k \in Keys |-> <<>>]

(***************************************************************************)
(* How a copy goes on.                                                     *)
(***************************************************************************)

Answered(c, code, changes) ==
  call' = [call EXCEPT ![c].at = 0, ![c].answer = code,
                       ![c].changed = @ \/ changes]

\* The next step, or the answer of the handler.
Passed(c, changes) ==
  IF call[c].at = Len(Steps)
    THEN Answered(c, "OK", changes)
    ELSE call' = [call EXCEPT ![c].at = @ + 1, ![c].changed = @ \/ changes]

\* The effect of a step on the rows of the request.
Applied(step) ==
  CASE step.op = "more" -> IF effects = 2 THEN 2 ELSE effects + 1
    [] step.op \in {"once", "put"} -> IF InPlace THEN effects ELSE 1
    [] OTHER -> effects

\* The step knows that the effect is in place.
Seeing(c) == StepOf(c).seen # "none" /\ InPlace

(***************************************************************************)
(* Actions.                                                                *)
(***************************************************************************)

\* The first sending of a copy, or the next: the answer may have been lost.
Send(c) ==
  /\ ~UnderWay(c)
  /\ call[c].sends < MaxSends
  /\ call' = [call EXCEPT ![c] =
                [at |-> IF Steps = <<>> THEN 0 ELSE 1, sends |-> @.sends + 1,
                 answer |-> "none", changed |-> FALSE]]
  /\ overlapped' = (overlapped \/ \E d \in Calls : UnderWay(d))
  /\ UNCHANGED <<endpoint, effects, window, passed>>

\* A check refuses, or a write finds its row gone or made by somebody else.
Refuse(c) ==
  /\ UnderWay(c) /\ StepOf(c).op # "limit"
  /\ \E code \in StepOf(c).codes : Answered(c, code, code \in StepOf(c).marks)
  /\ UNCHANGED <<endpoint, effects, overlapped, window, passed>>

\* The step finds the effect of another copy, or of an earlier sending.
See(c) ==
  /\ UnderWay(c) /\ Seeing(c)
  /\ Answered(c, StepOf(c).seen, StepOf(c).seen \in StepOf(c).marks)
  /\ UNCHANGED <<endpoint, effects, overlapped, window, passed>>

Pass(c) ==
  /\ UnderWay(c) /\ StepOf(c).op = "look" /\ ~Seeing(c)
  /\ Passed(c, FALSE)
  /\ UNCHANGED <<endpoint, effects, overlapped, window, passed>>

Write(c) ==
  /\ UnderWay(c) /\ StepOf(c).op \in Writing /\ ~Seeing(c)
  /\ effects' = Applied(StepOf(c))
  /\ Passed(c, TRUE)
  /\ UNCHANGED <<endpoint, overlapped, window, passed>>

\* The script atomicIncrementWithLimit.
Exhausted_late(k) == window[k].count > Quota[k]
Exhausted(k) == window[k].count >= Quota[k]
Counted(k) ==
  [count |-> window[k].count + 1,
   left |-> IF window[k].count = 0 THEN Window ELSE window[k].left]

Count(c) ==
  /\ UnderWay(c) /\ StepOf(c).op = "limit"
  /\ LET k == StepOf(c).key IN
     IF Exhausted(k)
       THEN /\ \E code \in StepOf(c).codes : Answered(c, code, FALSE)
            /\ UNCHANGED <<window, passed>>
       ELSE /\ Passed(c, FALSE)
            /\ window' = [window EXCEPT ![k] = Counted(k)]
            /\ passed' = [passed EXCEPT ![k] = Append(@, 0)]
  /\ UNCHANGED <<endpoint, effects, overlapped>>

\* The call of a step fails: its write may have been applied or not.
Fault(c) ==
  /\ UnderWay(c) /\ StepOf(c).fault # "none"
  /\ \E applied \in BOOLEAN :
       /\ applied => StepOf(c).op \in Writing /\ ~Seeing(c)
       /\ effects' = IF applied THEN Applied(StepOf(c)) ELSE effects
       /\ IF StepOf(c).fault = "IGNORED" THEN Passed(c, applied)
                                       ELSE Answered(c, StepOf(c).fault, applied)
  /\ UNCHANGED <<endpoint, overlapped, window, passed>>

\* The answer of the script is lost: the request was counted, and fails.
FaultCounted(c) ==
  /\ UnderWay(c) /\ StepOf(c).op = "limit" /\ ~Exhausted(StepOf(c).key)
  /\ window' = [window EXCEPT ![StepOf(c).key] = Counted(StepOf(c).key)]
  /\ Answered(c, StepOf(c).fault, FALSE)
  /\ UNCHANGED <<endpoint, effects, overlapped, passed>>

\* The server dies, or the connection: the caller gets no answer.
Lose(c) ==
  /\ UnderWay(c)
  /\ Answered(c, "LOST", FALSE)
  /\ UNCHANGED <<endpoint, effects, overlapped, window, passed>>

\* Time: windows end, and what passed a whole window ago no longer counts.
Ending(w) == IF w.left <= 1 THEN Closed ELSE [w EXCEPT !.left = @ - 1]

\* The ages of a list, the oldest first, a tick later and within a window.
Recent(ages) ==
  LET old == Cardinality({i \in DOMAIN ages : ages[i] + 1 >= Window})
  IN  [i \in 1..(Len(ages) - old) |-> ages[i + old] + 1]

PassTime ==
  /\ \E k \in Keys : passed[k] # <<>> \/ window[k] # Closed
  /\ window' = [k \in Keys |-> Ending(window[k])]
  /\ passed' = [k \in Keys |-> Recent(passed[k])]
  /\ UNCHANGED <<endpoint, call, effects, overlapped>>

\* All copies are sent and answered.
Done ==
  /\ \A c \in Calls : ~UnderWay(c) /\ call[c].sends = MaxSends
  /\ UNCHANGED apiVars

ApiNext ==
  \/ \E c \in Calls : \/ Send(c) \/ Refuse(c) \/ See(c) \/ Pass(c) \/ Write(c)
                      \/ Count(c) \/ Fault(c) \/ FaultCounted(c) \/ Lose(c)
  \/ PassTime
  \/ Done

ApiSpec == ApiInit /\ [][ApiNext]_apiVars

(***************************************************************************)
(* Properties.                                                             *)
(***************************************************************************)

\* The copy is answered with a refusal (4xx).
Declined(c) == ~UnderWay(c) /\ call[c].answer \in Refusals

\* Whatever the guard or a handler refuses a request with is documented under
\* the status it is sent with, by the endpoint's annotation or, for the 401 that
\* it leaves open, by the error code reference: a client written from them meets
\* no code it does not know.  Not so for the refusals of the framework
\* (parameters, sizes, throttling), the 5xx, the expense and analytics
\* controllers, which document no errors, and the 401 of the avatar upload,
\* whose annotation lists two of the guard's five codes.
RefusalsAreDocumented ==
  \A c \in Calls, status \in RefusalStatuses :
    /\ ~UnderWay(c) /\ call[c].answer \in CodesOf(status) \ ByFramework
    /\ Documents # {}
    /\ ~(endpoint = "upload_avatar" /\ status = 401)
    => <<status, call[c].answer>> \in Documents

\* What a caller is told is true: after OK the effect is in place, and a
\* request that is refused has changed nothing.  The three exceptions are the
\* code's: an invitation refused with 409 has deleted the phone's invite, a
\* reused refresh token has revoked the sessions, and a guess at a code is
\* counted, locks the session, or ends a lock.  The counters of the rate limits
\* are no change here.  Logout alone answers OK for a write that may have failed.
AnswersAreTrue ==
  \A c \in Calls :
    /\ ~UnderWay(c) /\ call[c].answer = "OK" /\ Writes /\ endpoint # "logout" => InPlace
    /\ Declined(c) /\ call[c].changed =>
         \/ endpoint = "invite_user" /\ call[c].answer \in CodesOf(409)
         \/ endpoint = "refresh" /\ call[c].answer = "TOKEN_REUSED"
         \/ endpoint = "verify_otp"
            /\ call[c].answer \in {"INVALID_OTP", "MAX_ATTEMPTS", "OTP_EXPIRED"}

\* The endpoints that make something new each time they are called; a client
\* that retries them makes it twice.
Creating ==
  {"create_group", "send_otp", "upload_avatar", "create_comment", "upload_receipt",
   "create_expense"}

\* The endpoints that stamp or log their change again each time: the expiry of a
\* phone's invite, and what is written to an expense of whatever version.
Stamping == {"invite_phone", "reclassify", "patch_split", "patch_scalar"}

\* The endpoints that look whether their change is there already, and write it
\* without a condition.
LookingFirst ==
  {"accept_invite", "delete_expense", "patch_split_versioned", "patch_scalar_versioned",
   "complete_onboarding"}

\* However often a request is sent, and wherever the copies before it were cut
\* off, it takes effect once; those that only look first take effect a second
\* time when two copies overlap, and only then.
RetriesAreSafe ==
  effects = 2 =>
    \/ endpoint \in Creating \cup Stamping
    \/ endpoint \in LookingFirst /\ overlapped

\* Around the end of a window more than its maximum passes, but never as much
\* as the maximum of two windows.
TwiceTheLimitAtMost == \A k \in Keys : Len(passed[k]) < 2 * Quota[k]
=============================================================================
