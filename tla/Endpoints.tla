------------------------------ MODULE Endpoints ------------------------------
(***************************************************************************)
(* The requests of the API as data: for each endpoint the sequence of      *)
(* steps that answer it, in the order of the code, and the error answers   *)
(* its controller documents.                                               *)
(*                                                                         *)
(* A step is one await of a handler, or one check: what it refuses with,   *)
(* which of its refusals it writes down, what it finds once the effect of  *)
(* this very request is in place, what happens when its database or Redis  *)
(* call fails, and whether it writes.                                      *)
(* What the steps do to the rows is in the component modules; here they    *)
(* matter for what the caller is told, so data is left out: whether a      *)
(* check refuses is a free choice.                                         *)
(***************************************************************************)
EXTENDS Naturals, Sequences

(***************************************************************************)
(* Steps.                                                                  *)
(***************************************************************************)

\* A look at the rows, which may refuse with one of codes, and which answers
\* seen when the effect of the request is in place ("none": it cannot tell).
Look(codes, seen) ==
  [op |-> "look", codes |-> codes, seen |-> seen, marks |-> {}, fault |-> "UNHANDLED",
   key |-> "none"]

Check(codes) == Look(codes, "none")

\* A call that only succeeds or fails: a read, or one that touches nothing but
\* caches, whose content can be computed again.
Call == Check({})

\* A check of the request itself: it calls nothing that could fail.
Pure(codes) == [Check(codes) EXCEPT !.fault = "none"]

\* A counted check: refused with code while the window of key is full.  What it
\* counts is requests; that is no effect of them.
Limit(key, code) == [Check({code}) EXCEPT !.op = "limit", !.key = key]

\* A write that a unique row or a condition lets through once; afterwards it
\* answers seen.
Once(seen) == [Look({}, seen) EXCEPT !.op = "once"]

\* A write that leaves each column the code reads the same however often it
\* runs.
Put == [Call EXCEPT !.op = "put"]

\* A write that adds a row each time it runs, or restamps one: a time or a log
\* entry of this run's own.
More == [Call EXCEPT !.op = "more"]

\* A write to another table than the one the request is for.
Side == [Call EXCEPT !.op = "side"]

\* A step that changes what is stored when it refuses with one of codes.
Marked(step, codes) == [step EXCEPT !.marks = codes]

\* A step whose failure is logged and forgotten.
Quiet(step) == [step EXCEPT !.fault = "IGNORED"]

\* Steps inside a try whose catch throws code.
Caught(steps, code) ==
  [i \in DOMAIN steps |->
     IF steps[i].fault = "none" THEN steps[i] ELSE [steps[i] EXCEPT !.fault = code]]

(***************************************************************************)
(* Answers: what an exception becomes.                                     *)
(***************************************************************************)

\* The code of an exception that carries none, by its status.
ErrorCode(status) ==
  CASE status = 400 -> "VALIDATION_ERROR"
    [] status = 429 -> "TOO_MANY_REQUESTS"
    [] OTHER        -> "UNKNOWN_ERROR"

SignInCodes(status) ==
  CASE status = 400 -> {"INVALID_OTP", "IDEMPOTENCY_KEY_REQUIRED", "IDEMPOTENCY_KEY_INVALID",
                        "INVALID_CONTACT_PHONE"}
    [] status = 404 -> {"SESSION_NOT_FOUND"}
    [] status = 409 -> {"IDEMPOTENCY_CONFLICT"}
    [] status = 410 -> {"OTP_EXPIRED"}
    [] status = 423 -> {"SESSION_LOCKED"}
    [] status = 429 -> {"MAX_ATTEMPTS", "COOLDOWN_ACTIVE", "RATE_LIMITED_PHONE",
                        "RATE_LIMITED_IP", "CONTACT_SYNC_RATE_LIMIT_USER",
                        "CONTACT_SYNC_RATE_LIMIT_IP", "VERIFY_RATE_LIMITED"}
    [] status = 500 -> {"INTERNAL_ERROR"}
    [] OTHER        -> {}

ResourceCodes(status) ==
  CASE status = 400 -> {"DISPLAY_NAME_INVALID", "SPLIT_VALIDATION_ERROR",
                        "INVALID_EXPENSE_CURSOR", "EXPENSE_COMMENT_INVALID_PARENT",
                        "GROUP_INVITE_NOT_PENDING", "INVITE_SELF"}
    [] status = 403 -> {"ACCOUNT_INACTIVE", "NOT_GROUP_MEMBER", "GROUP_ADMIN_REQUIRED",
                        "GROUP_OWNER_REQUIRED", "GROUP_INVITE_PREVIEW_NOT_PENDING",
                        "GROUP_OWNER_PROTECTED", "ADMIN_REMOVE_REQUIRES_OWNER"}
    [] status = 404 -> {"USER_NOT_FOUND", "GROUP_NOT_FOUND", "EXPENSE_NOT_FOUND",
                        "GROUP_MEMBER_NOT_FOUND"}
    [] status = 409 -> {"EXPENSE_STALE_VERSION", "ALREADY_GROUP_MEMBER",
                        "INVITE_ALREADY_PENDING"}
    [] OTHER        -> {}

GuardCodes ==
  {"UNAUTHORIZED", "INVALID_TOKEN", "TOKEN_EXPIRED", "INVALID_SIGNATURE",
   "SESSION_REVOKED"}

TokenCodes(status) ==
  IF status = 401
    THEN GuardCodes \cup {"REFRESH_TOKEN_INVALID", "REFRESH_TOKEN_EXPIRED", "TOKEN_REUSED"}
    ELSE {}

FileCodes(status) ==
  IF status = 400
    THEN {"AVATAR_FILE_REQUIRED", "AVATAR_FILE_TYPE_INVALID",
          "RECEIPT_FILE_TYPE_MISMATCH", "RECEIPT_FILE_TYPE_INVALID"}
    ELSE {}

\* The answers of the framework itself, before the handler.
ByFramework == {ErrorCode(status) : status \in {400, 413, 429}}

\* Without a handler of ours: the framework's default 500.
FrameworkCodes(status) ==
  CASE status \in {400, 413, 429} -> {ErrorCode(status)}
    [] status = 500              -> {"UNHANDLED"}
    [] OTHER                     -> {}

\* The codes an answer with this status may carry.
CodesOf(status) ==
  SignInCodes(status) \cup ResourceCodes(status) \cup TokenCodes(status)
    \cup FileCodes(status) \cup FrameworkCodes(status)

\* The request is refused with one of these; with 500, something failed.
RefusalStatuses == {400, 401, 403, 404, 409, 410, 413, 423, 429}
Refusals == UNION {CodesOf(status) : status \in RefusalStatuses}
Codes == Refusals \cup CodesOf(500)

\* An annotation of a controller: the codes it lists, or names in words.
Documented(status, codes) == {status} \X codes

(***************************************************************************)
(* What comes before a handler.                                            *)
(***************************************************************************)

\* In the memory of the process: the framework's throttler, per address.
Throttler == Pure({ErrorCode(429)})

\* Whatever fails while the token is checked, the revocation stamp in Redis
\* included, ends as an invalid token.
JwtAuthGuard == [Check(GuardCodes) EXCEPT !.fault = "INVALID_TOKEN"]

\* The body, query or path parameters do not validate.
Validated == Pure({ErrorCode(400)})

\* The annotations say of 401 only that the access token is missing or invalid;
\* the codes are in the error code reference of the API's description.
Unauthorized ==
  Documented(401, {"UNAUTHORIZED", "INVALID_TOKEN", "TOKEN_EXPIRED", "INVALID_SIGNATURE",
                   "REFRESH_TOKEN_INVALID", "REFRESH_TOKEN_EXPIRED", "TOKEN_REUSED",
                   "SESSION_REVOKED"})

Guarded(steps) == <<Throttler, JwtAuthGuard>> \o steps

Public(steps, documents) ==
  [steps |-> <<Throttler>> \o steps, documents |-> documents]

\* No documents: the controller says nothing of errors.
Private(steps, documents) ==
  [steps |-> Guarded(steps),
   documents |-> IF documents = {} THEN {} ELSE documents \cup Unauthorized]

(***************************************************************************)
(* Checks the handlers share.                                              *)
(***************************************************************************)

Caller == Check({"USER_NOT_FOUND", "ACCOUNT_INACTIVE"})
GroupFound == Check({"GROUP_NOT_FOUND"})
Member == Check({"GROUP_NOT_FOUND", "NOT_GROUP_MEMBER"})
AdminOrOwner == Check(Member.codes \cup {"GROUP_ADMIN_REQUIRED"})
Owner == Check(Member.codes \cup {"GROUP_OWNER_REQUIRED"})
ExpenseFound == Check({"EXPENSE_NOT_FOUND"})

\* tryEmit...: an event of the group's feed, best effort.
Emit == Quiet(Side)

CallerDocs == Documented(403, {"ACCOUNT_INACTIVE"}) \cup Documented(404, {"USER_NOT_FOUND"})

\* A write whose row somebody else may have removed, or made, before it.
Raced(step, codes) == [step EXCEPT !.codes = codes]

(***************************************************************************)
(* /groups                                                                 *)
(***************************************************************************)

ListMineSteps == <<Caller, Call>>
ListMine == Private(ListMineSteps, CallerDocs)

ListMembersSteps == <<Validated, Caller, Member, Call>>
MemberDocs ==
  Documented(403, {"NOT_GROUP_MEMBER", "ACCOUNT_INACTIVE"})
  \cup Documented(404, {"USER_NOT_FOUND", "GROUP_NOT_FOUND"})
ListMembers == Private(ListMembersSteps, MemberDocs)

ListGroupActivitySteps == <<Validated, Caller, Member, Call>>
ListGroupActivity == Private(ListGroupActivitySteps, MemberDocs)

GetInvitePreviewSteps ==
  <<Validated, Caller, GroupFound,
    Check({"GROUP_MEMBER_NOT_FOUND", "GROUP_INVITE_PREVIEW_NOT_PENDING"}), Call>>
InviteeMissing == {"USER_NOT_FOUND", "GROUP_NOT_FOUND", "GROUP_MEMBER_NOT_FOUND"}
GetInvitePreview ==
  Private(GetInvitePreviewSteps,
          Documented(403, {"ACCOUNT_INACTIVE", "GROUP_INVITE_PREVIEW_NOT_PENDING"})
          \cup Documented(404, InviteeMissing))

AcceptGroupInviteSteps_noLook ==
  <<Validated, Caller, GroupFound, Raced(More, {"GROUP_MEMBER_NOT_FOUND"}), Emit, Emit, Call>>

\* The roster is the answer when the row is active already.  Two requests that
\* both found it pending stamp joinedAt twice.
AcceptGroupInviteSteps ==
  <<Validated, Caller, GroupFound, Look({"GROUP_MEMBER_NOT_FOUND"}, "OK"),
    Raced(More, {"GROUP_MEMBER_NOT_FOUND"}), Emit, Emit, Call>>
InviteeDocs ==
  Documented(400, {"GROUP_INVITE_NOT_PENDING"})
  \cup Documented(403, {"ACCOUNT_INACTIVE"}) \cup Documented(404, InviteeMissing)
AcceptInvite == Private(AcceptGroupInviteSteps, InviteeDocs)

DeclineGroupInviteSteps_preview ==
  <<Validated, Caller, GroupFound,
    Look({"GROUP_MEMBER_NOT_FOUND", "GROUP_INVITE_PREVIEW_NOT_PENDING"},
         "GROUP_MEMBER_NOT_FOUND"),
    Raced(Once("GROUP_MEMBER_NOT_FOUND"), {"GROUP_MEMBER_NOT_FOUND"})>>
DeclineGroupInviteSteps ==
  <<Validated, Caller, GroupFound,
    Look({"GROUP_MEMBER_NOT_FOUND", "GROUP_INVITE_NOT_PENDING"}, "GROUP_MEMBER_NOT_FOUND"),
    Raced(Once("GROUP_MEMBER_NOT_FOUND"), {"GROUP_MEMBER_NOT_FOUND"})>>
DeclineInvite == Private(DeclineGroupInviteSteps, InviteeDocs)

GetGroupProfileSteps == <<Validated, Caller, Member, GroupFound>>
GetGroupMemberProfile == Private(GetGroupProfileSteps, MemberDocs)

GetMineByIdSteps == <<Validated, Caller, GroupFound>>
GroupDocs ==
  Documented(403, {"ACCOUNT_INACTIVE"})
  \cup Documented(404, {"USER_NOT_FOUND", "GROUP_NOT_FOUND"})
GetMineById == Private(GetMineByIdSteps, GroupDocs)

DeleteMineSteps ==
  <<Validated, Caller, [Owner EXCEPT !.seen = "GROUP_NOT_FOUND"],
    Raced(Once("GROUP_NOT_FOUND"), {"GROUP_NOT_FOUND"})>>
DeleteMine ==
  Private(DeleteMineSteps,
          GroupDocs \cup Documented(403, {"NOT_GROUP_MEMBER", "GROUP_OWNER_REQUIRED"}))

\* The phone belongs to no account: its invite is stored, or stored again with a
\* new date of expiry.
InvitePhoneSteps ==
  <<Validated, Caller, GroupFound, AdminOrOwner,
    Check({"USER_NOT_FOUND", "INVITE_SELF"}), More, Emit, Call>>

InviteUserSteps_early ==
  <<Validated, Caller, GroupFound, Side, AdminOrOwner,
    Check({"USER_NOT_FOUND", "ACCOUNT_INACTIVE", "INVITE_SELF"}),
    Look({"INVITE_ALREADY_PENDING", "ALREADY_GROUP_MEMBER"}, "INVITE_ALREADY_PENDING"),
    Raced(Once("ALREADY_GROUP_MEMBER"), {"ALREADY_GROUP_MEMBER"}), Emit, Call>>

\* An account is found: the phone's invite goes before its row is looked for.
InviteUserSteps ==
  <<Validated, Caller, GroupFound, AdminOrOwner,
    Check({"USER_NOT_FOUND", "ACCOUNT_INACTIVE", "INVITE_SELF"}), Side,
    Look({"INVITE_ALREADY_PENDING", "ALREADY_GROUP_MEMBER"}, "INVITE_ALREADY_PENDING"),
    Raced(Once("ALREADY_GROUP_MEMBER"), {"ALREADY_GROUP_MEMBER"}), Emit, Call>>

AddMemberDocs ==
  Documented(400, {"INVITE_SELF"}) \cup MemberDocs
  \cup Documented(403, {"GROUP_ADMIN_REQUIRED"})
  \cup Documented(409, {"ALREADY_GROUP_MEMBER", "INVITE_ALREADY_PENDING"})
AddMember(steps) == Private(steps, AddMemberDocs)

UpdateMemberRoleSteps ==
  <<Validated, Caller, GroupFound, Owner,
    Look({"GROUP_MEMBER_NOT_FOUND", "NOT_GROUP_MEMBER", "GROUP_OWNER_PROTECTED"}, "OK"),
    Raced(Put, {"GROUP_MEMBER_NOT_FOUND"}), Call>>
PatchMemberRole ==
  Private(UpdateMemberRoleSteps,
          Documented(403, {"GROUP_OWNER_REQUIRED", "NOT_GROUP_MEMBER",
                           "GROUP_OWNER_PROTECTED", "ACCOUNT_INACTIVE"})
          \cup Documented(404, InviteeMissing))

RemoveMemberSteps ==
  <<Validated, Caller, GroupFound, AdminOrOwner,
    Look({"GROUP_MEMBER_NOT_FOUND", "GROUP_OWNER_PROTECTED", "ADMIN_REMOVE_REQUIRES_OWNER"},
         "GROUP_MEMBER_NOT_FOUND"),
    Raced(Once("GROUP_MEMBER_NOT_FOUND"), {"GROUP_MEMBER_NOT_FOUND"}), Call>>
RemoveMember ==
  Private(RemoveMemberSteps,
          Documented(403, {"GROUP_OWNER_PROTECTED", "ADMIN_REMOVE_REQUIRES_OWNER",
                           "NOT_GROUP_MEMBER", "GROUP_ADMIN_REQUIRED", "ACCOUNT_INACTIVE"})
          \cup Documented(404, InviteeMissing))

CreateForUserSteps == <<Validated, Caller, More>>
CreateGroup == Private(CreateForUserSteps, CallerDocs)

(***************************************************************************)
(* /users                                                                  *)
(***************************************************************************)

ListPendingInvitesSteps == <<Caller, Call>>
ListMyGroupInvites == Private(ListPendingInvitesSteps, CallerDocs)

ListMyActiveGroupsSteps == <<Caller, Call>>
ListMyJoinedGroups == Private(ListMyActiveGroupsSteps, CallerDocs)

\* Counts and latest rows together, then a snapshot per group.
ListMyGroupsHomeSteps == <<Validated, Caller, Call, Call, Call>>
ListMyGroupsHome == Private(ListMyGroupsHomeSteps, CallerDocs)

SearchUsersSteps == <<Validated, Caller, Call>>
SearchUsers == Private(SearchUsersSteps, CallerDocs)

(***************************************************************************)
(* /auth, /otp                                                             *)
(***************************************************************************)

\* The token's own checks, its row, the mark, the successor; before a token is
\* refused as reused, its family and the user's sessions are revoked.
RotateRefreshTokenSteps ==
  Caught(<<Pure({"REFRESH_TOKEN_EXPIRED", "INVALID_SIGNATURE", "REFRESH_TOKEN_INVALID"}),
           Marked(Look({"REFRESH_TOKEN_INVALID", "TOKEN_REUSED"}, "TOKEN_REUSED"),
                  {"TOKEN_REUSED"}),
           Marked(Raced(Once("TOKEN_REUSED"), {"TOKEN_REUSED"}), {"TOKEN_REUSED"}), Side>>,
         "INTERNAL_ERROR")
RefreshDocs ==
  Documented(401, {"REFRESH_TOKEN_INVALID", "REFRESH_TOKEN_EXPIRED",
                   "INVALID_SIGNATURE", "TOKEN_REUSED", "SESSION_REVOKED"})
Refresh == Public(<<Validated>> \o RotateRefreshTokenSteps, RefreshDocs)

\* The token is revoked if that works; then the send cooldown is cleared.
RevokeRefreshTokenSteps == <<Quiet(Put), Side>>
Logout == Public(<<Validated>> \o RevokeRefreshTokenSteps, Documented(400, {ErrorCode(400)}))

FindUserSteps == <<Caller>>
GetMe == Private(FindUserSteps, CallerDocs)

UpdateProfileSteps ==
  <<Validated, Caller, Pure({"DISPLAY_NAME_INVALID"}), Raced(Put, {"USER_NOT_FOUND"})>>

\* The end of the onboarding alone: its time is stamped if the row had none.
CompleteOnboardingSteps ==
  <<Validated, Look(Caller.codes, "OK"), Raced(More, {"USER_NOT_FOUND"})>>
PatchMe(steps) ==
  Private(steps, CallerDocs \cup Documented(400, {"DISPLAY_NAME_INVALID"}))

\* The pointer is read and the session it names deleted; the new session,
\* pointer and cooldown are three calls in one try.
SendOtpSteps ==
  <<Validated, Limit("otp ip", "RATE_LIMITED_IP"), Check({"COOLDOWN_ACTIVE"}),
    Limit("otp phone", "RATE_LIMITED_PHONE"), Call, Side>>
  \o Caught(<<More, Side, Side>>, "INTERNAL_ERROR")
SendOtp ==
  Public(SendOtpSteps,
         Documented(429, {"COOLDOWN_ACTIVE", "RATE_LIMITED_PHONE", "RATE_LIMITED_IP"}))

\* The script verifies a session once.  A wrong guess is counted, the last one
\* locks the session, and a lock that is over takes its count away before the
\* code's own expiry is looked at.
VerifyScript ==
  [Once("INTERNAL_ERROR") EXCEPT
     !.codes = {"SESSION_NOT_FOUND", "SESSION_LOCKED", "OTP_EXPIRED", "MAX_ATTEMPTS",
                "INVALID_OTP"},
     !.marks = {"OTP_EXPIRED", "MAX_ATTEMPTS", "INVALID_OTP"},
     !.fault = "INTERNAL_ERROR"]

\* After the script: pointer, account, claim, tokens.
VerifyOtpSteps ==
  <<Limit("otp verify", "VERIFY_RATE_LIMITED"), VerifyScript, Side, Side, Side, Side>>
VerifyDocs ==
  Documented(400, {"INVALID_OTP", "IDEMPOTENCY_KEY_REQUIRED", "IDEMPOTENCY_KEY_INVALID"})
  \cup Documented(404, {"SESSION_NOT_FOUND"}) \cup Documented(409, {"IDEMPOTENCY_CONFLICT"})
  \cup Documented(410, {"OTP_EXPIRED"}) \cup Documented(423, {"SESSION_LOCKED"})

\* Each copy carries a key of its own here: Idempotency has those that share it,
\* and the lock on the key, which a handler that throws gives back before its
\* refusal is sent.  The answer is stored under the key at the end.
KeyHeader == Pure({"IDEMPOTENCY_KEY_REQUIRED", "IDEMPOTENCY_KEY_INVALID"})
VerifyOtp ==
  Public(<<Validated, KeyHeader, Check({"IDEMPOTENCY_CONFLICT"})>>
         \o VerifyOtpSteps \o <<Side>>,
         VerifyDocs \cup Documented(429, {"VERIFY_RATE_LIMITED", "MAX_ATTEMPTS"}))

(***************************************************************************)
(* /contacts, /upload, /, /health                                          *)
(***************************************************************************)

EnforceForSync ==
  <<Limit("sync ip", "CONTACT_SYNC_RATE_LIMIT_IP"),
    Limit("sync user", "CONTACT_SYNC_RATE_LIMIT_USER")>>
SyncContactsSteps ==
  <<Caller, Pure({"INVALID_CONTACT_PHONE"}), Put, Call, Call, Call>>
SyncContacts ==
  Private(<<Validated>> \o EnforceForSync \o SyncContactsSteps,
          CallerDocs \cup Documented(400, {"INVALID_CONTACT_PHONE"})
          \cup Documented(429, {"CONTACT_SYNC_RATE_LIMIT_IP", "CONTACT_SYNC_RATE_LIMIT_USER"}))

\* The interceptor stores the file, if there is one, under a fresh name.
UploadAvatarSteps ==
  <<Pure({"AVATAR_FILE_TYPE_INVALID", ErrorCode(400), ErrorCode(413),
          "AVATAR_FILE_REQUIRED"}), More>>

\* Its annotation of 401 lists codes of its own.
UploadAvatar ==
  [steps |-> Guarded(UploadAvatarSteps),
   documents |-> Documented(400, {"AVATAR_FILE_REQUIRED", "AVATAR_FILE_TYPE_INVALID"})
                 \cup Documented(401, {"UNAUTHORIZED", "TOKEN_EXPIRED"})]

Root == Public(<<>>, {})

CheckHealth == Public(<<Quiet(Call), Quiet(Call)>>, {})

(***************************************************************************)
(* /expenses and /groups/:groupId/expenses: no errors documented.          *)
(***************************************************************************)

ClassifySteps == <<Validated, Call, Call, Call>>
ClassifyExpense == Private(ClassifySteps, {})

\* The category is written with the time; then the hint, the feed, the caches.
ReclassifySteps ==
  <<Validated, Member, ExpenseFound, Check({"SPLIT_VALIDATION_ERROR"}),
    Check({"SPLIT_VALIDATION_ERROR"}), More, Side, Call, Side, Call>>
ReclassifyExpense == Private(ReclassifySteps, {})

\* From the taxonomy in memory.
GetCategories == Private(<<>>, {})

ExpenseFeedSteps == <<Validated, Caller, Member, Pure({"INVALID_EXPENSE_CURSOR"}), Call>>
ListGroupExpenses == Private(ExpenseFeedSteps, {})

\* The snapshot from the cache, or from the expenses and into the cache.
BalanceSteps == <<Validated, Member, Call, Call, Call, Call>>
GetGroupBalances == Private(BalanceSteps, {})

DetailSteps == <<Validated, Member, ExpenseFound, Call>>
GetExpenseDetail == Private(DetailSteps, {})

ListCommentsSteps ==
  <<Validated, Member, ExpenseFound, Pure({"INVALID_EXPENSE_CURSOR"}), Call>>
ListComments == Private(ListCommentsSteps, {})

CreateCommentSteps ==
  <<Validated, Member, ExpenseFound, Check({"EXPENSE_COMMENT_INVALID_PARENT"}), More, Side>>
CreateComment == Private(CreateCommentSteps, {})

\* The unique index stops a second row, with an error nobody catches.
ReactionSteps ==
  <<Validated, Member, ExpenseFound, Look({}, "OK"),
    Raced(Once("UNHANDLED"), {"UNHANDLED"}), Side>>
CreateReaction == Private(ReactionSteps, {})

\* A type outside the list is a plain Error of the interceptor.
ReceiptFile == Pure({ErrorCode(400), ErrorCode(413), "UNHANDLED"})
ReceiptSignature == Pure({"RECEIPT_FILE_TYPE_MISMATCH", "RECEIPT_FILE_TYPE_INVALID"})
\* The file, the attachment, the expense's link to it, the log.
ReceiptSteps ==
  <<ReceiptSignature, Member, ExpenseFound, Side, More, Side, Side>>
UploadExpenseReceipt == Private(<<ReceiptFile, Validated>> \o ReceiptSteps, {})

\* A split that does not add up is a plain Error of the engine.
SplitComputed == Pure({"SPLIT_VALIDATION_ERROR", "UNHANDLED"})

\* One transaction writes the expense; the hint and the caches come after it.
CreateExpenseSteps ==
  <<Validated, Member, SplitComputed, Check({"SPLIT_VALIDATION_ERROR"}), Call,
    Check({"SPLIT_VALIDATION_ERROR"}), More, Side, Call, Call>>
CreateExpense == Private(CreateExpenseSteps, {})

\* With expectedUpdatedAt the row just read must still be that version.
VersionFound ==
  Look({"EXPENSE_NOT_FOUND", "EXPENSE_STALE_VERSION"}, "EXPENSE_STALE_VERSION")

\* The transaction writes the expense, its shares and a log entry.
PatchSplitSteps(found) ==
  <<Validated, Member, found, SplitComputed, Check({"SPLIT_VALIDATION_ERROR"}), More,
    Call, Call>>
PatchScalarSteps(found) == <<Validated, Member, found, More, Side, Call, Call>>
PatchExpense(steps) == Private(steps, {})

\* Two requests that both found the expense stamp deletedAt twice.
DeleteExpenseSteps ==
  <<Validated, Member, Look({"EXPENSE_NOT_FOUND"}, "EXPENSE_NOT_FOUND"), More, Side,
    Call, Call>>
DeleteExpense == Private(DeleteExpenseSteps, {})

(***************************************************************************)
(* /groups/:groupId/analytics: no errors documented.                       *)
(***************************************************************************)

\* The report from the cache, or from the query and into the cache.
CachedReport == <<Validated, Caller, Member, Call, Call, Call>>
UncachedReport == <<Validated, Caller, Member, Call>>
CategoryBreakdown == Private(CachedReport, {})
MonthlyTrends == Private(CachedReport, {})
TopSpenders == Private(UncachedReport, {})
Merchants == Private(CachedReport, {})
Heatmap == Private(UncachedReport, {})
Recurring == Private(UncachedReport, {})
=============================================================================
