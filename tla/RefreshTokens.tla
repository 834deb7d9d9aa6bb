--------------------------- MODULE RefreshTokens ---------------------------
(***************************************************************************)
(* Refresh-token rotation, reuse detection and logout: TokenService and    *)
(* RefreshTokenRepository, as concurrent HTTP requests run them.           *)
(*                                                                         *)
(* A request is a Node.js handler.  It runs alone between two awaits, so   *)
(* one action is the code from the answer of one database or Redis call to *)
(* the effect of the next one; the actions of different requests           *)
(* interleave freely.  Every request serves one call and keeps its answer, *)
(* so that properties can speak of what was answered.                      *)
(*                                                                         *)
(* Random UUIDs (jti, familyId) are members of Tokens and Families never   *)
(* drawn before.  The token hash is not modelled: a jti is signed once, so *)
(* a token with a valid signature always has the stored hash.              *)
(*                                                                         *)
(* An operator Name_slip is Name with a mistake a change could make; no    *)
(* specification uses them, they only show that a property would notice.   *)
(***************************************************************************)
EXTENDS Naturals

CONSTANTS
  Users,        \* database users
  Tokens,       \* refresh-token identifiers (jti)
  Families,     \* familyId values
  Requests,     \* refresh and logout calls
  NoRow,        \* no row has this jti
  NoToken,      \* the request has not presented a token; a row without parent
  MaxFailures   \* bound on the database and Redis calls that fail

Row == [user : Users, family : Families, parent : Tokens \cup {NoToken},
        valid : BOOLEAN, used : BOOLEAN, expired : BOOLEAN]

ASSUME NoRowAssumption == NoRow \notin Row
ASSUME NoTokenAssumption == NoToken \notin Tokens
ASSUME MaxFailuresAssumption == MaxFailures \in Nat

VARIABLES
  row,       \* the refresh_tokens table: jti -> row, or NoRow; "parent" is the
             \* token the row was exchanged for, which the table does not store
  at,        \* request -> where its handler is, or its answer
  token,     \* request -> the refresh token it presented
  flagged,   \* users with an auth:revoked key in Redis
  failures   \* calls that have failed so far

vars == <<row, at, token, flagged, failures>>

InHandler == {"find", "markUsed", "create", "revokeFamily", "flagUser", "revokeAll"}
Answers == {"rotated", "invalid", "reused", "error", "loggedOut"}

TypeOK ==
  /\ row \in [Tokens -> Row \cup {NoRow}]
  /\ at \in [Requests -> {"idle"} \cup InHandler \cup Answers]
  /\ token \in [Requests -> Tokens \cup {NoToken}]
  /\ flagged \in SUBSET Users
  /\ failures \in Nat

-----------------------------------------------------------------------------
Issued(t) == row[t] # NoRow
OfFamily(t, f) == Issued(t) /\ row[t].family = f
OfUser(t, u) == Issued(t) /\ row[t].user = u

\* The row generateTokenPair inserts; its user, family and parent are the caller's.
NewRow(u, f, p) ==
  [user |-> u, family |-> f, parent |-> p,
   valid |-> TRUE, used |-> FALSE, expired |-> FALSE]

\* updateMany({ isValid: false }) on the rows of the set S.
Invalidate(S) ==
  row' = [t \in Tokens |-> IF t \in S THEN [row[t] EXCEPT !.valid = FALSE]
                                      ELSE row[t]]

Goto(r, label) == at' = [at EXCEPT ![r] = label]

-----------------------------------------------------------------------------
Init ==
  /\ row = [t \in Tokens |-> NoRow]
  /\ at = [r \in Requests |-> "idle"]
  /\ token = [r \in Requests |-> NoToken]
  /\ flagged = {}
  /\ failures = 0

(* A verified OTP calls generateTokenPair without a family: a new one opens. *)
Login(u, f, t) ==
  /\ ~Issued(t)
  /\ \A s \in Tokens : ~OfFamily(s, f)
  /\ row' = [row EXCEPT ![t] = NewRow(u, f, NoToken)]
  /\ UNCHANGED <<at, token, flagged, failures>>

(* POST /v1/auth/refresh with token t arrives and its signature verifies. *)
Present(r, t) ==
  /\ at[r] = "idle"
  /\ Issued(t)
  /\ token' = [token EXCEPT ![r] = t]
  /\ Goto(r, "find")
  /\ UNCHANGED <<row, flagged, failures>>

(* findById answers, and the checks that follow it run without an await. *)
Find(r) ==
  LET stored == row[token[r]] IN
  /\ at[r] = "find"
  /\ Goto(r, IF ~stored.valid \/ stored.expired THEN "invalid"
             ELSE IF stored.used THEN "revokeFamily" ELSE "markUsed")
  /\ UNCHANGED <<row, token, flagged, failures>>

\* The row of token t has been exchanged, as the UPDATE's WHERE sees it.
AlreadyUsed_ignored(t) == FALSE
AlreadyUsed(t) == row[t].used

\* The UPDATE writes usedAt; the mistake writes back the row Find read.
SetUsed_wholeRow(t) == [row EXCEPT ![t].used = TRUE, ![t].valid = TRUE]
SetUsed(t) == [row EXCEPT ![t].used = TRUE]

(* UPDATE ... WHERE id AND usedAt IS NULL: one of several requests wins.   *)
(* The WHERE does not look at isValid again.                               *)
MarkAsUsed(r) ==
  LET t == token[r] IN
  /\ at[r] = "markUsed"
  /\ \/ /\ ~AlreadyUsed(t)
        /\ row' = SetUsed(t)
        /\ Goto(r, "create")
     \/ /\ AlreadyUsed(t)
        /\ Goto(r, "revokeFamily")
        /\ UNCHANGED row
  /\ UNCHANGED <<token, flagged, failures>>

(* generateTokenPair in the family of the exchanged token. *)
Create(r, t) ==
  LET stored == row[token[r]] IN
  /\ at[r] = "create"
  /\ ~Issued(t)
  /\ row' = [row EXCEPT ![t] = NewRow(stored.user, stored.family, token[r])]
  /\ Goto(r, "rotated")
  /\ UNCHANGED <<token, flagged, failures>>

\* Mistake: the user's sessions are not revoked after the family.
RevokeFamily_only(r) ==
  /\ at[r] = "revokeFamily"
  /\ Invalidate({t \in Tokens : OfFamily(t, row[token[r]].family)})
  /\ Goto(r, "reused")
  /\ UNCHANGED <<token, flagged, failures>>

RevokeFamily(r) ==
  /\ at[r] = "revokeFamily"
  /\ Invalidate({t \in Tokens : OfFamily(t, row[token[r]].family)})
  /\ Goto(r, "flagUser")
  /\ UNCHANGED <<token, flagged, failures>>

\* auth:revoked:<user>; the mistake makes the key from the jti.
FlagKey_jti(r) == token[r]
FlagKey(r) == row[token[r]].user

(* revokeUserSessions: first the Redis flag, ... *)
FlagUser(r) ==
  /\ at[r] = "flagUser"
  /\ flagged' = flagged \cup {FlagKey(r)}
  /\ Goto(r, "revokeAll")
  /\ UNCHANGED <<row, token, failures>>

\* The WHERE of revokeAllForUser; the mistakes drop the user from it, or name
\* the family once more.
SessionsToRevoke_everyone(r) == {t \in Tokens : Issued(t)}
SessionsToRevoke_family(r) == {t \in Tokens : OfFamily(t, row[token[r]].family)}
SessionsToRevoke(r) == {t \in Tokens : OfUser(t, row[token[r]].user)}

(* ... then every row of the user; the request answers TOKEN_REUSED. *)
RevokeAllForUser(r) ==
  /\ at[r] = "revokeAll"
  /\ Invalidate(SessionsToRevoke(r))
  /\ Goto(r, "reused")
  /\ UNCHANGED <<token, flagged, failures>>

(* POST /v1/auth/logout: one UPDATE, then 200.  revokeRefreshToken swallows *)
(* every error, so a failed UPDATE is answered like a successful one.       *)
Logout(r, t) ==
  /\ at[r] = "idle"
  /\ Issued(t)
  /\ token' = [token EXCEPT ![r] = t]
  /\ Goto(r, "loggedOut")
  /\ \/ Invalidate({t}) /\ UNCHANGED failures
     \/ failures < MaxFailures /\ failures' = failures + 1 /\ UNCHANGED row
  /\ UNCHANGED flagged

(* The pending call of a refresh fails, or the process dies at its await:  *)
(* what was written stays written and nothing more is.                     *)
Fail(r) ==
  /\ at[r] \in InHandler
  /\ failures < MaxFailures
  /\ failures' = failures + 1
  /\ Goto(r, "error")
  /\ UNCHANGED <<row, token, flagged>>

(* Seven days pass for t.  A child is created after its parent and lives   *)
(* as long, so it expires later.                                           *)
Expire(t) ==
  /\ Issued(t) /\ ~row[t].expired
  /\ row[t].parent # NoToken => row[row[t].parent].expired
  /\ row' = [row EXCEPT ![t].expired = TRUE]
  /\ UNCHANGED <<at, token, flagged, failures>>

Step(r) ==
  \/ Find(r)
  \/ MarkAsUsed(r)
  \/ \E t \in Tokens : Create(r, t)
  \/ RevokeFamily(r)
  \/ FlagUser(r)
  \/ RevokeAllForUser(r)

Next ==
  \/ \E u \in Users, f \in Families, t \in Tokens : Login(u, f, t)
  \/ \E r \in Requests :
       \/ \E t \in Tokens : Present(r, t) \/ Logout(r, t)
       \/ Step(r)
       \/ Fail(r)
  \/ \E t \in Tokens : Expire(t)

Spec == Init /\ [][Next]_vars

(* A handler that has started is not abandoned by the event loop. *)
FairSpec == Spec /\ \A r \in Requests : WF_vars(Step(r))

-----------------------------------------------------------------------------
(* Safety. *)

\* markAsUsed lets one exchange win: two rows never have the same parent, for
\* any number of concurrent refreshes, retries and failures.
SingleHeir ==
  \A s, t \in Tokens :
    Issued(s) /\ Issued(t) /\ row[s].parent = row[t].parent /\ row[s].parent # NoToken
      => s = t

\* A login has at most one token that can still be exchanged.
OneUnusedPerFamily ==
  \A s, t \in Tokens :
    /\ Issued(s) /\ Issued(t) /\ row[s].family = row[t].family
    /\ ~row[s].used /\ ~row[t].used
    => s = t

PresentedTwice(t) == \E q, r \in Requests : q # r /\ token[q] = t /\ token[r] = t

\* A row is revoked only for a reason: its own logout, or some token of the
\* same user presented more than once.  A client that presents each token
\* once, and whose user does, is never logged out by the others.
NoFalseRevocation ==
  \A t \in Tokens :
    Issued(t) /\ ~row[t].valid =>
      \/ \E r \in Requests : token[r] = t /\ at[r] = "loggedOut"
      \/ \E s \in Tokens : OfUser(s, row[t].user) /\ PresentedTwice(s)

\* TOKEN_REUSED is answered only when revocation is complete: the Redis flag of
\* the user is up and the token presented twice is revoked for good, however the
\* handler's four calls interleave with exchanges of the same token.
ReusedMeansRevoked ==
  \A r \in Requests :
    at[r] = "reused" =>
      /\ row[token[r]].user \in flagged
      /\ ~row[token[r]].valid

(* Why there is one heir and one unused token: the inductive invariant.     *)

\* A handler that has presented a token works on a row that exists.
PresentedIsIssued ==
  \A r \in Requests : at[r] # "idle" => token[r] \in Tokens /\ Issued(token[r])

\* While an exchange is between its UPDATE and its INSERT, its family has no
\* unused row, no other exchange is there, and its token has no heir yet.
ExchangeIsExclusive ==
  \A r \in Requests :
    at[r] = "create" =>
      /\ \A t \in Tokens : OfFamily(t, row[token[r]].family) => row[t].used
      /\ \A q \in Requests :
           at[q] = "create" /\ row[token[q]].family = row[token[r]].family => q = r
      /\ \A t \in Tokens : Issued(t) => row[t].parent # token[r]

\* Only an exchanged token has an heir.
ParentIsUsed ==
  \A t \in Tokens :
    Issued(t) /\ row[t].parent # NoToken =>
      Issued(row[t].parent) /\ row[row[t].parent].used

ChainInv ==
  /\ TypeOK
  /\ PresentedIsIssued
  /\ ExchangeIsExclusive
  /\ ParentIsUsed
  /\ OneUnusedPerFamily
  /\ SingleHeir

-----------------------------------------------------------------------------
(* Action properties. *)

\* No step brings a revoked or exchanged row back, and no row disappears.
RevocationIsMonotone ==
  [][\A t \in Tokens :
       Issued(t) =>
         /\ Issued(t)'
         /\ ~row[t].valid => ~row'[t].valid
         /\ row[t].used => row'[t].used]_vars

-----------------------------------------------------------------------------
(* Liveness. *)

\* Once reuse is detected, every token the user holds at that moment ends up
\* revoked, whatever else runs, unless a call has failed.
ReuseEndsSessions ==
  \A r \in Requests, t \in Tokens :
    (at[r] = "revokeFamily" /\ OfUser(t, row[token[r]].user)) ~> (failures > 0 \/ (Issued(t) /\ ~row[t].valid))

-----------------------------------------------------------------------------
(* What the documentation says and the interleaving does not keep. *)

\* Once a request has been answered TOKEN_REUSED no token of its family can be
\* used again.
ReuseRevokesFamily ==
  \A r \in Requests, t \in Tokens :
    at[r] = "reused" /\ OfFamily(t, row[token[r]].family) => ~row[t].valid

\* A token whose logout was answered 200 is revoked.
LogoutRevokes ==
  \A r \in Requests : at[r] = "loggedOut" => ~row[token[r]].valid

-----------------------------------------------------------------------------
(* The chain each family's rows form. *)

Unused(f) == {t \in Tokens : OfFamily(t, f) /\ ~row[t].used}
Exchanging(f) == \E r \in Requests : at[r] = "create" /\ row[token[r]].family = f

TheTokenOf(S) == IF S = {} THEN NoToken ELSE CHOOSE t \in S : TRUE

headBar == [f \in Families |-> TheTokenOf(Unused(f))]

stageBar ==
  [f \in Families |->
     IF Unused(f) # {} THEN "live"
     ELSE IF Exchanging(f) THEN "exchanging"
     ELSE IF \E t \in Tokens : OfFamily(t, f) THEN "over"
     ELSE "unopened"]

spentBar == {t \in Tokens : Issued(t) /\ row[t].used}

Chain == INSTANCE TokenChain WITH stage <- stageBar, head <- headBar, spent <- spentBar

\* The table, seen as one chain per family, behaves as TokenChain allows.
ImplementsChain == Chain!Spec
=============================================================================
