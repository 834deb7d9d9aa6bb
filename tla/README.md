# Formal models of the Qisma API

Qisma is a NestJS API over PostgreSQL (Prisma) and Redis: phone OTP login with
JWT sessions, groups and invitations, contacts sync, and shared expenses with
splits, comments, receipts and balances.  This directory holds TLA+ models of
its stateful parts, the TLC configurations that check them on small instances,
and TLAPS proofs of what matters most for every size.  Paths below are those of
the repository (`src/modules/...` under its root).

## 1. The system

Every request is a Node.js handler.  It runs alone between two `await`s and
interleaves with other handlers at each database or Redis call, so a check made
on a row that was read earlier may be stale when the next statement runs.
PostgreSQL runs at its default READ COMMITTED isolation; a single statement or a
Redis command (or Lua script) is atomic, a handler is not.  Nothing retries
automatically: a failed call ends the handler with an error and leaves what was
already written.

| Component | State | Operations | What is hard |
|---|---|---|---|
| Refresh tokens (`auth/services/token.service.ts`, `refresh-token.repository.ts`) | `refresh_tokens` rows: family, isValid, usedAt, expiresAt | issue, rotate, reuse detection, logout, revoke family / user | two refreshes of one token; revocation between the UPDATE and the INSERT of a rotation; crash there; client retry |
| Access tokens (`token.service.ts`, `jwt-auth.guard.ts`) | signed JWTs; Redis `auth:revoked:<user>` | sign, verify, revoke | whole-second `iat` against a millisecond stamp; TTL of the stamp |
| OTP sessions (`otp/otp.service.ts`, `redis.service.ts`) | Redis session, attempts counter, identifier pointer, cooldown | send, verify (Lua), clear cooldown | two sends; send against verify; several keys with TTLs; attempt limit |
| Idempotency (`common/services/idempotency.service.ts`) | Redis entry per key: processing or completed | getOrLock, complete, release | lock expiry under a slow request; release of another request's entry |
| Rate limits (`otp/services/rate-limit.service.ts`, `contacts/services/contact-sync-rate-limit.service.ts`) | Redis counters with TTL | check per IP, phone, verify, user | fixed windows; the order of the checks; a counter that is raised although the call fails |
| Group membership (`groups/groups.service.ts`, repositories) | `groups`, `group_members`, `group_invites` | create, delete, add, remove, change role, accept, decline, claim | permission checked before, write after; accept against decline; claim against add |
| Sign-in (`otp.service.ts` verify path) | users, invites, tokens | verify, upsert user, claim invites, issue tokens | a failure after the session is consumed |
| Expenses (`expenses/expenses.service.ts`) | expense, participants, payers, log | create, patch, delete, react, comment, feed | lost update, optimistic lock not atomic, membership check before transaction |
| Balance snapshot (`group-balance-cache.service.ts`) | Redis snapshot per group, TTL 300 s | get, set, invalidate | a fill that read before a write and stores after its invalidation |
| Analytics (`analytics/*`) | Redis reports per group | six reports, sweep | a sweep that deletes key by key while reports are computed |
| Splits and balances (`splits/*`) | none (pure) | six split modes, netting, simplification | rounding to the cent, remainder distribution, greedy matching |
| Comments (`expense-comments.service.ts`, cursors) | comment rows | create, list by pages | page boundaries among rows of one millisecond; rows that become visible late |
| Reactions, receipts, category hits (`expenses.service.ts`, `user-learning.service.ts`) | unique reactions, attachments and files, counters | react, upload, classify, reclassify | find-then-create; three calls for one receipt; NULL in a unique index |
| Contacts sync (`contacts/*`) | contact rows per user | replace the snapshot, match phones with accounts | two syncs of the same user; sign-ups during the answer |
| Client hooks (`client-integration/*`) | lists, cursors, busy flags, refs | refresh, load more, accept, decline | responses out of order; events between a response and its render |
| HTTP interface (controllers, guard, filter, interceptors, DTOs) | none of its own | 46 routes | what a failure turns into; retries after a lost answer |
| Users, profile, search | user row | upsert at login, update profile, search | a write to a row that is gone |
| Classification | taxonomy in memory | text matching | pure |
| Health, configuration, queues, upload storage, seeds | none of their own | I/O | – |

What makes each modelled component correct:

- **Refresh tokens**: a token is exchanged at most once; the rows of a family
  form a chain with at most one unused end; a detected reuse ends every session
  of the user; nobody is logged out without a replay or a logout; revocation is
  never undone.
- **Access tokens**: a token signed before a revocation is dead for the rest of
  its life, also after the Redis key is gone; one signed a second later works.
- **OTP sessions**: a bounded number of guesses in the whole life of a code; one
  sign-in per code; a lock is final; a session that is gone stays gone.
- **Idempotency**: of parallel requests one processes; a stored answer is never
  replaced; a lock does not stay for ever.
- **Groups**: one owner, nothing left of a deleted group, nobody joins without
  accepting, nobody invites or changes roles without the standing to do so,
  whatever was read before the write.
- **Rate limits**: never as much as twice the limit passes in a window's length.
- **Expenses**: participant rows and payer row match the amount; deletion is
  final; the snapshot is the balance of the tables unless a race or a failure
  that the TTL mends.
- **Splits and balances**: shares are exact, fair and ordered like the weights;
  nets balance; the proposed transfers settle them and are few.
- **Around an expense**: a reaction is logged once and only if it is there, a
  receipt that is shown has its row and its file, no counted hit is lost, a write
  leaves no older report in Redis but by a race or a failure that the TTL mends.
- **Comments**: pages tile the thread: nothing twice, nothing skipped, in order;
  the list never locks up.
- **Contacts**: what is stored is whole uploads, and a sync that is alone replaces
  what was there.
- **Invitations inbox**: a row is on the screen exactly if it is pending, unless it
  changed after the read the screen rests on.
- **HTTP interface**: a refusal is one the documentation lists, an answer is true,
  and a retry does not repeat an effect, but for the endpoints that make or stamp
  something each time.

## 2. Modules

A *handler* is a record or a place per request identifier; an action is the code
from the answer of one awaited call to the effect of the next one.  A Lua
script, a Redis command and a Prisma transaction are one action each.  `Fail`
(and `Crash`) is an exception of any awaited call or the death of the process.
What is called *history* in a module is a variable that no guard reads.
`Name_slip` operators are plausible mistakes in `Name`; no specification uses
them, they document which mistake each property notices.

| Module | Models | State | Actions |
|---|---|---|---|
| `RefreshTokens` | `token.service.ts`, `refresh-token.repository.ts` | `row` = the table; `at`, `token` = the request's handler; `flagged` = `auth:revoked:*` | `Login` (generateTokenPair), `Present`/`Find`/`MarkAsUsed`/`Create` (rotation; `updateMany` with its count), `RevokeFamily`/`FlagUser`/`RevokeAllForUser` (reuse), `Logout`, `Fail`, `Expire` |
| `TokenChain` | the promise of rotation, per family | `stage`, `head`, `spent` | `Open`, `Spend`, `Extend`, `Abandon` |
| `AccessTokens` | sign, verify, `isUserRevoked`, `revokeUserSessions` | `now`, `issued`, `flag`, history `lastRevoked` | `Sign`, `Revoke`, `Tick` |
| `OtpSession` | `otp.service.ts`, the verify script of `redis.service.ts` | `session`, `attempts`, `pointer`, `cooldown` with the ticks left of each TTL; `req` | `SendStart` … `SendCool`, `VerifyExpired`/`VerifyWrong`/`VerifyRight` (the branches of the script), `UnPoint`, `ClearCooldown`, `Fail`, `Tick` |
| `OneTimeCode` | the promise of a one-time code | `stage`, `guesses`, `entries` | `Issue`, `Miss`, `Enter`, `End` |
| `Idempotency` | `idempotency.service.ts` around `OtpController.verifyOtp` | `key`, `req`, `used`, history `delivered` | `Arrive`, `Acquire`, `Recheck`, `Verify`, `SignIn`, `Complete`, `Throw`, `Release`, `Crash`, `ExpireLock`, `ExpireCompleted` |
| `GroupMembership` | `groups.service.ts`, its repositories, the claim of invites at sign-in | `creator`, `alive`, `member`, `invite`, `feed`, `registered`, `req`, history `authority` | `CreateGroup`; `Start` and then the places of add, remove, change role, accept, decline, delete; `Emit`; `Login`/`ListInvites`/`LookUp`/`CommitClaim`/`RollBackClaim`; `Expire`, `Fail` |
| `ExpenseLedger` | `expenses.service.ts` writers and `getGroupBalanceView`, `group-balance-cache.service.ts` | `expense`, `cache`, `req`, history `missed` | `Read`/`Commit`/`Drop` (patch, delete, reclassify, receipt), `Create`, `ViewHit`/`ViewMiss`/`ViewRows`/`ViewShares`/`ViewFill`, `Expire`, `Fail` |
| `SplitMath` | `rounding.engine.ts`, `expense-split.service.ts` | none | operators: `Minor`, `Distribute`, the six split types |
| `GroupBalances` | `netFromExpense`, `balance.engine.ts`, `debt-simplification.service.ts` | `net`, `last`, `debtors`, `creditors`, `out` | `Bill`, `Simplify`, `Match` (one round of the loop), `Answer` |
| `Keyset` | keyset order and cursors of comments and feeds | none | operators: `Precedes`, `Beyond`, `Page`, `RowsInOrder`, `LastRow` |
| `CommentThread` | `expense-comments.service.ts`, `expense-comment-cursor.ts`, the hook `useExpenseCommentsInfinite` | `thread` = the table; `view`, `tailBusy`, `scope` = React state, ref and props; `seen` = what the last render closed over; `call` = requests and answers | `Post`/`Commit`/`Abort` (createComment), `Serve` (listComments), `ChangeScope`/`Refresh`/`LoadMore`, `Replace`/`AppendPage`/`FailFirst`/`FailMore`, `Render` |
| `InvitesInbox` | the hook `useGroupInvitesInbox`, its screen, and list, accept and decline behind it | `member` = the user's rows; `inbox`, `drawn` = React state and screen; `trip` = requests and answers; history `behind` | `Reload`, `PullRefresh`, `Tap`; `ServeList`, `Find`/`Decide`; `Arrive`, `Rejected`, `Draw`; `ByOthers` |
| `ContactSync` | `contacts.service.ts` `syncContacts` | `rows`, `users`, `sync` = the handlers with their transactions' snapshots and locks | `Begin`, `DeleteSees`/`Delete`, `Insert`/`UniqueViolation`, `Commit`, `Match`, `Filter`, `SignUp`, `Fail` |
| `ExpenseActivity` | reactions, receipts, reclassify and the tail of create and delete, `user-learning.service.ts`, `group-analytics-cache.service.ts` | `expense`, `marks`, `receipts`, `counters`, `report`, `req` | `React`/`CreateReaction`/`LogReaction`, `Upload`/`Attach`/`Point`, `Start`/`Commit`/`Find`/`Increment`/`CreateCounter`/`Sweep`, `Query`/`Fill`/`ExpireReport`, `Fail` |
| `Endpoints` | every controller method and the calls of its handler in order, with the errors it documents; guard, pipes, interceptors, exception filter | none | operators: kinds of steps, one sequence of steps and one documentation set per endpoint; 51 entries for the 46 routes, since the invite of a phone and of an account, the profile and the end of the onboarding, and the four kinds of patch differ |
| `HttpApi` | requests on their way through `Endpoints`, `atomicIncrementWithLimit` | `call`, `effects`, `window`, history `passed`, `overlapped` | `Send`, `Refuse`/`See`/`Pass`/`Write`/`Count`, `Fault`, `FaultCounted`, `Lose`, `PassTime` |

`MC*` modules only hold symmetry sets, sets of values and two state constraints:
`FewTokens` in `MCAccessTokens`, and `InOrder` in `MCRefreshTokens`, which takes
tokens, families and requests in the order of their numbers.  They are
interchangeable, so this leaves out renamings only; TLC's symmetry is not used
there because it is not sound for liveness.  `MCClientScreens` mounts one of the
two screens of the client kit at the start; they share nothing.  `*_proofs`
modules hold theorems.  A proof module of several components extends them all, so
the names that would clash carry the component's (`KeySpec`, `ApiSpec`,
`ActivitySpec`, `InboxSpec`).

`RefreshTokens` implements `TokenChain` under the mapping `headBar` (the unused
row of a family), `stageBar` (live while there is one, exchanging while a handler
is between its UPDATE and its INSERT, over otherwise) and `spentBar` (the used
rows).  The `parent` of a row is not a column: it records which exchange made a
row, so that "one heir" can be said.

`OtpSession` implements `OneTimeCode` under `stageBar`: a session with a key is open,
locked or used by the status in it; without one it is ended or unissued, by whether
its id has been drawn.  `guesses` and `entries` are the comparisons that went wrong
and right, so the counter with its own TTL, the two clocks and the lock that
overwrites the session all have to come to what the four actions say.

Choices that a reader should know of:

- A user stands for his phone number in `GroupMembership`; numbers are unique
  and normalised, users are never deleted by this code.
- Rate limits are in `HttpApi`; elsewhere they appear as calls that may fail.  They
  restrict what can happen, so every safety property shown without them holds
  with them.
- A failing call has had no effect, except in `HttpApi`, where a call may also
  take effect and fail.
- In `HttpApi` a write counts as the same again if it leaves each column the code
  reads as it was; a fresh time or a log entry makes it another.  The counters of
  the rate limits count requests and are no effect of theirs.
- In `HttpApi` all requests are copies of one request; other callers appear as the
  free choice of every check to refuse, and do not undo the effect.  Each copy of
  a verification carries an idempotency key of its own; `Idempotency` has those
  that share one.
- `ContactSync` runs its transactions at READ COMMITTED statement by statement: the
  snapshot of each statement, row locks of the DELETE, waits and violations of the
  unique index, rollback.
- `CommentThread` and `InvitesInbox` distinguish React's state from what the last
  render closed over or drew: a second event may come before it.
- A second create in `ExpenseActivity` would be another expense, so an expense is
  created once; the events of the feed and the balance snapshot are elsewhere.
- In `OtpSession` Redis's clock rules the TTLs and every server reads its own
  clock, off by at most `Skew` ticks in either direction at each call.
- `AccessTokens` has one process and one Redis connection, so stamps are written
  in clock order, as the code has it: no await lies between Date.now() and SET.
- A view of the balances reads the expenses and then their participants, since
  Prisma loads an `include` with a second SELECT.
- Debtors of one amount come in any order, since the rows come from a query
  without ORDER BY.
- The activity feed is reduced to whether a group has events.

## 3. What the runs check

The largest run takes about three minutes on two cores.  Deadlock is checked, except
where everything may be served: in `RefreshTokens` and `ContactSync` a request
identifier serves one call, and in `AccessTokens` the clock ends at `MaxNow`.

| Run | Instance | Distinct states | Shows |
|---|---|---|---|
| `refresh_tokens` | 2 users, 2 families, 3 tokens, 3 requests, 1 failed call | 186,769 | `NoFalseRevocation`, `ReusedMeansRevoked`, `ImplementsChain`, `ReuseEndsSessions` |
| `access_tokens` | 2 users, 2 tokens, 17 ticks, 3 to a second | 435,199 | `RevokedStaysRevoked` |
| `group_safety` | 3 people, 1 group, 2 handlers | 1.09 million | `OneOwner`, `NoOrphans`, `InvitedByAuthority`, `RoleChangesByOwner`, `JoiningIsConsent`, `PhoneInviteWaits` |
| `otp_safety` | 1 phone, 2 sessions, 2 handlers, `Expiry` 2, `LockTime` 7, `MaxAttempts` 2, `Skew` 1 | 3.06 million | `BoundedGuesses`, `SingleUse`, `LockIsFinal`, `ImplementsCode` |
| `idempotency` | 3 requests, any failures and crashes | 402 | `OneProcesses`, `AnswersAreKept`, `LocksEnd` |
| `expense_ledger` | 1 expense, 2 handlers, 2 titles, 2 amounts, 3 writes | 572,379 | `SharesMatchAmount`, `CacheIsFresh`, `DeletedStaysDeleted`, `StalenessEnds` |
| `expense_stale_patch` | the same | – | `NoLostUpdate` is violated (section 6) |
| `expense_activity` | 1 expense, 2 handlers, 1 reaction, 1 receipt, a category with and without a subcategory, 2 reports, 2 hits | 2.2 million | `TrailIsSound`, `NoHitIsLost`, `ReportsAreSwept` |
| `group_balances` | 4 users, 1 bill of every split type on balanced nets, 3 named participants | 19,226 | `SplitIsFair`, `SoundBillsAreSplit`, `NetsBalance`, `NobodyOverpays`, `SettlesInFewTransfers` |
| `contact_sync` | 3 syncs of one user, 2 phones, 4 uploads | 2.6 million | `UploadsAreWhole`, `SyncReplaces` |
| `client_screens` | thread: 3 comments, pages of 1, 3 scopes, 2 moments, 2 requests in flight; inbox: 2 groups, 2 requests in flight | 1.87 million | `InOrder`, `NothingSkipped`, `NeverStuck`, `InboxIsRight` |
| `http_api` | every route, 2 copies of a request sent twice each, quotas 1 and 2, windows of 2 ticks | 606,074 | `RefusalsAreDocumented`, `AnswersAreTrue`, `RetriesAreSafe`, `TwiceTheLimitAtMost` |

Some properties are stated and hold but are in no run: those that the proofs of
section 4 cover already (`TypeOK` of the proved modules, `SingleHeir`,
`OneUnusedPerFamily` and `RevocationIsMonotone` of `RefreshTokens`,
`FreshTokenWorks` of `AccessTokens`, `JoinedIffActive` of `GroupMembership`,
`IndicatorsEnd` of `InvitesInbox`, `NoResurrection` of `OtpSession`), the
type invariants of the other modules, and `NoContactLost` of `ContactSync`.  Adding
any of them to its component's configuration checks it (`NoContactLost` fails if
the two look-ups are swapped).

Why the bounds are enough for the interesting cases:

- *Refresh*: three requests are two that race for one token and a third that
  replays it or logs out; three tokens are a token, its heir and a second session,
  or a chain of three; two families and two users tell "family", "user" and
  "everyone" apart.  With one failure every place of a handler is a place where
  it stops.
- *Access tokens*: a lifetime of 2 s, a tolerance of 1 s and a stamp that lives
  3 s let a token outlive nothing but just fit; 17 ticks are past the death of a
  stamp set at any moment of the first two seconds; three ticks a second give
  every rounding of `iat`.
- *OTP*: two guesses with two handlers and a resend reach the limit, the lock,
  the end of the lock and the replaced session.  Counters count down, so time
  itself is unbounded.
- *Idempotency*: three requests are the holder, one that lost SET NX and one
  that arrives after; a request identifier serves again, so retries are unbounded.
- *Groups*: an owner, an admin and a member, or an owner, a member and an
  outsider; two handlers make every check-then-write race; identifiers serve
  again, and groups can be created and deleted in any order around them.
- *Expenses*: two writers, or a writer and a view, and a third write; every
  mixture of split and scalar patches, deletion and creation.  With three
  handlers and one title the properties also hold.
- *Around an expense*: two handlers race for a reaction, a receipt, a counter or a
  report; identifiers serve again.  Two reports are one swept and one not yet,
  two hits are two first hits or a first and a second.
- *Balances*: nine opening nets up to renaming, some around the dust of 0.01; the
  amounts 0.01, 0.0150 and 0.0401 do not divide by two or three and reach the
  half-up edge; percentages of a third and two thirds do not add up to 100.
- *Contacts*: three syncs give a waiting one, the one it waits for and one that
  begins in between; uploads of two phones in both orders wait for each other,
  an empty one inserts nothing, a shorter one must remove a row.
- *Comments*: three comments are a page boundary before, between and after two of
  one moment; two moments let a comment become visible behind a younger one; two
  requests are a refresh and a next page, or two refreshes.
- *Inbox*: two groups are the busy row and another one; two requests are a list
  and an accept, or two taps.
- *HTTP*: two copies overlap at every pair of steps and each is sent again after
  any answer; quotas of one and two on windows of two ticks fill and end.

Fairness.  Safety runs have none.  `FairSpec` of `RefreshTokens` has weak fairness
of each handler's steps: Node resumes a handler whose awaited call has answered.
A failed call rightly ends the handler, so `ReuseEndsSessions` asks nothing of a
behaviour with a failure.  `LiveSpec` of `Idempotency` adds that Redis lets a lock
expire; crashes stay possible.  `LiveSpec` of `ExpenseLedger` has only the expiry
of the snapshot, so `StalenessEnds` does not depend on any handler; writes stop
because of `MaxRev`, which is the property's premise.

## 4. What is proved

The TLA+ proof system checks the theorems below for every value of the constants
that satisfies the named assumptions.  These say that null values are outside the
sets they extend, that bounds and durations are natural numbers, and:

- `LifetimeAssumption`: an access token does not outlive the stamp
  (900 + 5 ≤ 604,800 s); `ClockAssumption`: a code with four skews does not outlive
  its lock (300 s against 900 s).
- `HttpAssumption`: quotas and the window are positive, and finitely many requests
  are made at once; `PagingAssumption`: there are finitely many comments, as in any
  table, and a page has room for one.
- `BalanceAssumption`: finitely many users, opening nets that sum to zero, amounts,
  shares and percentages that are not negative.
- `SyncAssumption`: an upload names no phone twice (`syncContacts` takes the distinct
  ones before it stores any); `ActivityAssumption`: the reports of a group are listed
  once each.
- In `ExpenseLedger` there is an expense, a title and an amount.

Every safety property that a passing run checks is a theorem, stated about the very
definition of the run.

| Module | Theorems | Argument |
|---|---|---|
| `RefreshTokens_proofs` | `TypeCorrect`, `ChainInvariant`, `RotationWinsOnce`, `FamilyHasOneHead`, `RevocationMonotone`, `NobodyIsRevokedForNothing`, `ReuseAnswerIsTrue`, `TableImplementsChain` | Inductive invariant `ChainInv`.  `SingleHeir` alone is not inductive: `Create` must know that no other handler exchanges the same token and that the family has no unused row (`ExchangeIsExclusive`), and a new row's parent must be used (`ParentIsUsed`).  `ReuseInv`, for the two theorems about reuse: a used row has its exchange, so who finds it used is the second to present it (`RevokerIsSecond`); a family is of one user; the flag is up before the rows go (`FlaggedFirst`).  `StepMoves` lists what any step may do to handlers and rows.  The refinement maps each of `Login`, `MarkAsUsed`, `Create`, `Fail` to a step of the chain and the rest to stuttering. |
| `GroupMembership_proofs` | `GroupTypeCorrect`, `ExactlyOneOwner`, `NothingLeftOfAGroup`, `JoinedExactlyIfActive`, `InvitationsAreAuthorised`, `OwnerChangesRoles`, `NoMembershipWithoutConsent`, `PhoneInvitesWait` | `IInv`: what each handler's local state says of the tables (`HandlersOK`), so a check stays good until the write: a handler past its check does not aim at the creator, creators do not change, and power once held is recorded (`PowersRecorded`).  For `PhoneInvitesWait`: a handler that takes a phone invite away works for somebody with an account (`AccountsOK`). |
| `OtpSession_proofs` | `OtpTypeCorrect`, `SessionsAreSingleUse`, `GoneSessionsStayGone`, `GuessesAreBounded`, `LocksAreFinal`, `SessionsImplementCode` | `Spent`: a verified session is VERIFIED until it is gone, and an id has no key before it is drawn.  One lemma (`OneSession`) lists what any step may do to one session.  `GuessInv`: a lock outlives its code by more than the skews, so by whatever clock it has run out the code has expired; and the counter of a code that can still be guessed is alive and counts every guess.  So a guess that is compared finds its code open and its count right, and the refinement maps `SendStore`, `VerifyWrong` and `VerifyRight` to `Issue`, `Miss` and `Enter`, keys that go to `End`, and the rest to stuttering. |
| `ExpenseLedger_proofs` | `LedgerTypeCorrect`, `SharesAlwaysMatch`, `DeletionIsFinal`, `UndisturbedSnapshotIsFresh` | `AllMatch` covers rows that do not exist yet.  `CacheInv`: what an undisturbed view has read so far is what the tables hold (`ReadsCurrent`), and what it stored is so until a writer that has yet to drop it or one that failed (`SnapshotHolds`). |
| `RequestGates_proofs`: the idempotency key | `KeyTypeCorrect`, `OnlyOneProcesses`, `StoredAnswersAreKept` | `HolderIsNamed`: who is past SET NX is named by the lock.  The last two assume `Slow = FALSE`; without it they are false (section 6). |
| The rate limits | `LimitsHold` | The counter and its TTL do not bound what passed in a window's length: two windows meet in it.  `InWindow`, kept by every step, splits the calls that passed into those before the open window, fewer than the quota, and those in it, no more than it has counted. |
| The endpoints | `RefusalsStayDocumented`, `AnswersStayTrue`, `RetriesStaySafe` | Two layers.  About the 51 entries of the table, one lemma for each kind of handler and then `EveryEndpoint` (`Sane`): each error a step can send is documented or excepted (`Documenting`; `Excused` for the 401 of the avatar upload), no step refuses after a write or writes as it refuses, but for the answers named in `Excepted` (`Ordered`), none answers OK before the effect is there or refuses because its own write failed (`Honest`), no write that the request is for is skipped (`Surefire`), and only the endpoints in `Twice` make or stamp more on each run (`Repeatable`).  About the requests, `CallIsRight`: what a copy has been told and has written is what the steps before its place say, whatever the other copies do; `OnceInv` for the five endpoints that look first (`LookingFirst`): without an overlap, no copy is between its look (`Gate`) and its write (`Act`) once the effect is there. |
| The access token | `AccessTypeCorrect`, `RevocationHolds`, `FreshTokensWork` | `FlagIsLast`: the stamp is the last revocation for as long as the key lives.  The rest is arithmetic on `iat` rounded down. |
| `ContactSync_proofs` | `UploadsStayWhole`, `CommitReplaces` | The rows of one request come and go together: a statement's snapshot, and what a transaction deletes, are whole uploads (`Whole`); what it deletes is still there, and what it inserts is the first part of its upload (`Held`); locks give a row to one deleting transaction and a phone to one inserting transaction (`Apart`), so the unique index holds at each commit (`Unique`).  Alone, a transaction deletes all there is (`AloneDeletesAll`). |
| `ClientScreens_proofs`: pages | `PagesTile` | The order is total on positions (`OrderIsTotal`), so a finite set of rows has a first and a last one (well-foundedness of finite subsets), a page is closed towards the front, and what is beyond its last row is what it left: for every table, direction and page size.  The ranks of the rows of a page are its indices, without gap (`RanksAreExact`). |
| The comment list | `ListNeverStuck`, `ListIsSound`, `ListStaysInOrder`, `ListSkipsNothing` | `NeverStuck` is inductive once the records are known to have their fields.  `ListInv`, for the others: an answer under way, like the list on the screen, is in order, ends at its cursor and covers the table it was read from between its two cursors (`IsPage`), and a next page that belongs to the list starts where the list ends and was read after it (`CallFits`).  So the two can be joined (`ListJoins`).  `StoredStay`: a comment that is in the table keeps its position, which is what makes an answer stay true while other comments become visible. |
| The inbox | `InboxAlwaysRight`, `InboxIndicatorsEnd` | An answer that has not arrived yet is right up to the rows that changed since its read (`AnswerIsRight`); a change of a row is noted in the screen and in every answer under way. |
| `GroupExpenses_proofs`: splits | `DistributeIsFair`, `LedgerIsGood`, `SplitsAreFair`, `SplitsAreExact`, `NetsStayBalanced` | `Distribute` gives the floors and then one unit each to the largest remainders.  The units left over are fewer than the participants with a remainder, so each part is its floor or one more, the parts add up to the total, a larger weight never has the smaller part, and nobody without a weight has any.  Each split type ends in it or in a sum the code checks, and a bill adds as much as it takes. |
| The settlement | `MatchIsSound`, `NobodyPaysTooMuch`, `SettlementIsShort`, `BalanceTypeCorrect` | `MatchInv`: what is open of a party and what its transfers came to are its rounded net, and each transfer settles one of two parties that were open, for good; so there are fewer transfers than parties. |
| Around an expense | `ActivityIsSound`, `TrailStaysSound`, `HitsAddUp`, `SweepsReachAll` | `ActivityInv`: what a request carries from place to place (`Fits`): the mark it has yet to log is there and unlogged, and no other request has it (`OneNote`); the counter it raises is one of its category; the report it is about to store is of today's table unless a write overtook it. |

Sums.  The prover cannot instantiate the library's induction theorems, whose
hypothesis is an operator.  What is proved of sums over a finite set rests instead on
the well-foundedness of its finite subsets (`FiniteInduction`): a family of subsets
that has the empty one, and with each also those with one element more, has the set
itself.  From it follow the equations of `SumFunctionOnSet` and what the splits and
the settlement need of them.

Only model-checked:

- `ReuseEndsSessions`, `LocksEnd`, `StalenessEnds`: liveness under fairness, which
  the prover does not handle.
- The type invariants of `InvitesInbox`, `ContactSync` and `HttpApi`: of them the
  inductive invariants have what the proofs need.
- That the promises of section 6 fail: a counterexample is the proof.

No module uses a RECURSIVE operator.

## 5. What is not modelled

- The sign-in as one handler over the tables of three components.  Its steps are in
  the modules of their components, over shared state where they share it (the
  claim of invites and the signing-up user in `GroupMembership`), and
  `VerifyOtpSteps` has them in order as one request; `Idempotency` abstracts them
  to "succeeds once, may fail after".
- Splits: negative amounts, and more than four decimals, which the columns do not
  hold; currencies, which no computation mixes in one call.
- Permission checks of expenses outside `Endpoints`: they only refuse, so what is
  shown without them holds with them.
- Token hashes, the signature of a JWT, the contents of a code: a signed
  identifier is presented as it was issued, a guess is right or wrong.
- What a report, a search or a classification answers (aggregate SQL, text
  matching over reference data): when a report is computed, kept and swept is in
  `ExpenseActivity`, the calls and refusals are in `Endpoints`.
- The hook's local edits that its sample screen never calls
  (`mergeUpdatedComment`, `removeCommentById`, `prependComment`), and
  `loadCommentPreviewForDetail`, a read without a cursor.
- `checkRateLimits`, `findActiveByUserId` and `deleteExpired`, which have no caller.
- Bodies that do not parse, CORS, static files, directories, buckets and URLs of
  uploads, mail and SMS providers, configuration, seeds, the queue (no job is
  enqueued): I/O.

## 6. Where the code and its documentation disagree

One promise is a run that ends in a counterexample:

| Run | Promise | Interleaving that breaks it |
|---|---|---|
| `expense_stale_patch` | `patch-expense.dto.ts:85`: 409 if the row changed | a patch commits between the check of `expectedUpdatedAt` and the UPDATE of another |

### Other promises refuted

These are stated in the modules and fail likewise.  To see a counterexample,
add the property to the component's configuration, with the change named.

| Property | Module, change | Promise | What happens |
|---|---|---|---|
| `ReuseRevokesFamily` | `RefreshTokens` | `README.md:18`, `auth.controller.ts:120`: reuse revokes the entire family | the replay is detected and the family revoked while the winning exchange is between `markAsUsed` and `create`; the INSERT adds a valid row |
| `LogoutRevokes` | `RefreshTokens` | `auth.controller.ts:302`: the token is marked revoked | `token.service.ts:237` catches every error of the call, a failed UPDATE too, and answers success |
| `DeclineDeletesPending` | `GroupMembership` | `groups.service.ts:722`: decline deletes a *pending* row | accept commits between the read and the DELETE of a decline by the same user |
| `AdminsRemovedByOwner` | `GroupMembership` | `groups.service.ts:535`: an admin cannot remove another admin | the target is promoted between the check and the DELETE (`:579`) |
| `AcceptLeavesActiveRow` | `GroupMembership` | `groups.service.ts:657`: an active row is not mutated | two accepts read the pending row; the second stamps `joinedAt` again (`:690`) |
| `OneLiveSession` | `OtpSession` | `otp.controller.ts:60`: a previous active session is invalidated | two sends look the pointer up before either writes it (`otp.service.ts:92`) |
| `SendsAreSpaced` | `OtpSession` | `otp.controller.ts:54`: 60 s between requests for a phone | the cooldown is read at the start of a send (`otp.service.ts:79`) and written at its end (`:122`) |
| `RetryCanSucceed` | `Idempotency`, `KeySpec` | `idempotency.service.ts:93`: releasing the lock allows a retry | a call after the verification script fails; the session is VERIFIED and no retry gets tokens |
| `OneProcesses` | `Idempotency`, `KeySpec` and `Slow = TRUE` | `otp.controller.ts:195`: one processes | the lock of 30 s expires under a slow handler |
| `AnswersAreKept` | `Idempotency`, `KeySpec` and `Slow = TRUE` | `otp.controller.ts:194`: the cached pair is returned | a slow handler that fails deletes the answer of the one that took over |
| `TransfersAreMinimal` | `GroupBalances`, five users, `StartNets <- MCGreedyNets`, `MaxBills = 0` | `balance.engine.ts:8`: minimal transfers | greedy matching settles −8, −6, 6, 4, 4 in four transfers where three do |
| `SnapshotIsOneUpload` | `ContactSync` | `contacts.service.ts:52`: a sync replaces the stored snapshot | two syncs: each DELETE sees the rows before, and both uploads are inserted if they share no phone |
| `OneCounterPerChoice` | `ExpenseActivity` | the unique index of `user_category_learning` | two first hits of a category without a subcategory: NULLs are distinct |
| `ListIsOfItsScope` | `CommentThread` | `useExpenseCommentsInfinite.ts`: a change of scope resets the list and loads page 1 | an answer for the old scope arrives last and is shown under the new one |

What follows from these and from the bounds of the properties that hold:

- A double-tapped reaction and a retried contact sync that collides answer 500: the
  unique violation (P2002) is not caught.
- A contact who signs up between the two look-ups of a sync is reported both as
  registered and as not.
- `actionGroupId` names one row, so a tap on a second row switches the buttons of the
  first one on again while its request is under way; accept and decline of one
  invitation may then overlap, which is `DeclineDeletesPending`.  A list that was
  read before an accept brings the invitation back, and an old accept's answer
  takes a newer invitation off the screen: `InboxIsRight` allows these and no
  others.
- `RetriesAreSafe` excepts the endpoints that make something new on each call
  (create group, send code, avatar, comment, receipt, expense) and those that stamp
  or log their change again: the invite of a phone (`expiresAt`), reclassify, and a
  patch without `expectedUpdatedAt` (`updatedAt`, and a log entry for a split).
  Accept, delete expense, a patch with `expectedUpdatedAt` and the end of the
  onboarding look first and write without a condition: two of them that overlap
  both take effect, stamp twice and answer 200; one after the other they do not.
  For a new expense this bites without any fault of the caller: the transaction commits, and a
  failing counter or sweep after it answers 500 for an expense that exists.
- `deleteExpense` writes its log and drops the caches after its UPDATE, outside a
  transaction: a failure between them leaves a deleted expense without its log.

- `AnswersAreTrue` excepts three refusals that change what is stored: an invitation
  refused with 409 has deleted the phone's invite, `TOKEN_REUSED` has revoked the
  sessions, and a guess at a code refused with `INVALID_OTP` or `MAX_ATTEMPTS` has
  been counted and may have locked the session; `OTP_EXPIRED` may have deleted the
  count of a lock that was over.

### Found by reading

No interleaving is needed for these; they came up while the steps of `Endpoints` were
compared with the documentation.

- `main.ts` documents `INTERNAL_ERROR` with 500 in the API's envelope.  The filter is
  `@Catch(HttpException)`, so uncaught errors of Prisma or Redis and plain `Error`s
  are answered with the framework's own body.  A split that does not add up and a
  receipt of an unlisted type are plain `Error`s, hence 500.
- The guard turns a failing look-up of the revocation stamp into 401
  `INVALID_TOKEN`: while Redis is down every caller seems logged out.
- The avatar upload documents `UNAUTHORIZED` and `TOKEN_EXPIRED` under 401; the guard
  also sends `INVALID_TOKEN`, `INVALID_SIGNATURE` and `SESSION_REVOKED` there.  The
  other annotations of a private route's 401 name no code: the codes are in the
  error code reference of `main.ts` (246-253), which `RefusalsAreDocumented` takes
  for them.
- `FILE_TOO_LARGE` is never sent: `getErrorCode` has no case for 413.
- `retryAfter` is said to be present on all rate-limit, cooldown and lock errors;
  `MAX_ATTEMPTS` and some `SESSION_LOCKED` have none.  It is the full window when
  the key expires between the script and TTL.
- `otp.controller.ts:53` speaks of 20 sends a minute per IP where the constant is
  10, and `:198` of a lock of 5 minutes where `LOCK_DURATION_SECONDS` is 900.
- The comment on contact limits says sliding windows; they are fixed.
- Reactions document 201 for a new and 200 for a repeated one; the answer is always
  201.  The refresh endpoint documents `SESSION_REVOKED`, which it never sends.
  `GROUP_INVITE_NOT_PENDING` on accept cannot occur, since a row is pending or
  active.  The error reference lists no expense codes.
- `analytics-query.dto.ts` says that active membership of the user asked about is
  checked in the service; it is not.  Heatmap and recurring ignore that user.
- `my-groups-home-responses.dto.ts:77` calls a group settled when `balanceNetMinor` is
  0; the code compares the unrounded net with 0 (`expenses.service.ts:103`), so a net
  below half a minor unit shows 0 and still counts as owed.

## 7. Plan

Done: every component with state of its own, the client kit, and the HTTP interface
over all of them; every safety property of the runs is a theorem (section 4).

Next, most important first:

1. `SignIn`: the whole of `POST /otp/verify` over the tables of its components, with
   an abstract specification: a code yields at most one token pair, and a phone
   invite becomes at most one pending row.
2. An abstract ledger (a set of live bills and their balance) implemented by
   `ExpenseLedger`, and several expenses in one run.
