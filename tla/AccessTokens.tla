---------------------------- MODULE AccessTokens ----------------------------
(***************************************************************************)
(* Access-token admission: the JWT lifetime check and the per-user         *)
(* revocation stamp in Redis (TokenService.verifyAccessToken,              *)
(* isUserRevoked, revokeUserSessions), over a clock.                       *)
(*                                                                         *)
(* The clock counts ticks of Date.now(); a JWT carries whole seconds, so   *)
(* "iat" is rounded down.  Signing a pair and stamping a revocation each   *)
(* read the clock once.  Stamp and SET leave in one turn of the event loop *)
(* over one Redis connection, so stamps are stored in clock order.         *)
(*                                                                         *)
(* An operator Name_slip is Name with a mistake a change could make; no    *)
(* specification uses them, they only show that a property would notice.   *)
(***************************************************************************)
EXTENDS Integers

CONSTANTS
  Users,
  Second,      \* ticks of Date.now() in a second (1000 in the code)
  AccessTTL,   \* ACCESS_TOKEN_EXPIRY_SECONDS (900)
  Tolerance,   \* CLOCK_TOLERANCE_SECONDS (5)
  FlagTTL,     \* REFRESH_TOKEN_EXPIRY_SECONDS (604800): TTL of auth:revoked
  NoFlag,      \* the user has no auth:revoked key
  MaxNow       \* bound on the clock

ASSUME SecondAssumption == Second \in Nat \ {0}
ASSUME LifetimeAssumption ==
  /\ AccessTTL \in Nat /\ Tolerance \in Nat /\ FlagTTL \in Nat
  /\ AccessTTL + Tolerance <= FlagTTL
ASSUME NoFlagAssumption == NoFlag \notin [stamp : Nat, until : Nat]

VARIABLES
  now,           \* Date.now()
  issued,        \* access tokens signed so far
  flag,          \* user -> the auth:revoked key, or NoFlag
  lastRevoked    \* user -> clock of the last revokeUserSessions, 0 if none:
                 \* remembered beyond the life of the Redis key

vars == <<now, issued, flag, lastRevoked>>

AccessToken == [user : Users, signedAt : Nat]
Flag == [stamp : Nat, until : Nat]

TypeOK ==
  /\ now \in Nat
  /\ issued \in SUBSET AccessToken
  /\ flag \in [Users -> Flag \cup {NoFlag}]
  /\ lastRevoked \in [Users -> Nat]

-----------------------------------------------------------------------------
Seconds(ms) == ms \div Second
Iat(a) == Seconds(a.signedAt)

\* jsonwebtoken: expired when clockTimestamp >= exp + clockTolerance.
Expired(a) == Seconds(now) >= Iat(a) + AccessTTL + Tolerance

\* GET auth:revoked:<user> finds a key that has not expired.
FlagUp(u) == flag[u] # NoFlag /\ now < flag[u].until

\* The mistake adds the clock tolerance to the stamp as it is added to "exp".
IsUserRevoked_tolerant(a) ==
  FlagUp(a.user) /\ Iat(a) * Second < flag[a.user].stamp + Tolerance * Second

IsUserRevoked(a) == FlagUp(a.user) /\ Iat(a) * Second < flag[a.user].stamp

\* verifyAccessToken returns the payload instead of throwing.
Admitted(a) == ~Expired(a) /\ ~IsUserRevoked(a)

-----------------------------------------------------------------------------
(* The clock starts after the first second of the epoch: "iat" is never 0. *)
Init ==
  /\ now = Second
  /\ issued = {}
  /\ flag = [u \in Users |-> NoFlag]
  /\ lastRevoked = [u \in Users |-> 0]

(* generateTokenPair signs the access token of a login or of a rotation. *)
Sign(u) ==
  /\ issued' = issued \cup {[user |-> u, signedAt |-> now]}
  /\ UNCHANGED <<now, flag, lastRevoked>>

\* The key revokeUserSessions stores.  The mistakes: a TTL of the nominal
\* access-token lifetime, and the user id in the place of the stamp.
NewFlag_shortTTL(u) == [stamp |-> now, until |-> now + AccessTTL * Second]
NewFlag_swapped(u) == [stamp |-> u, until |-> now + FlagTTL * Second]
NewFlag(u) == [stamp |-> now, until |-> now + FlagTTL * Second]

(* revokeUserSessions: SET auth:revoked:<user> Date.now() EX FlagTTL. *)
Revoke(u) ==
  /\ flag' = [flag EXCEPT ![u] = NewFlag(u)]
  /\ lastRevoked' = [lastRevoked EXCEPT ![u] = now]
  /\ UNCHANGED <<now, issued>>

Tick ==
  /\ now < MaxNow
  /\ now' = now + 1
  /\ UNCHANGED <<issued, flag, lastRevoked>>

Next == Tick \/ \E u \in Users : Sign(u) \/ Revoke(u)

Spec == Init /\ [][Next]_vars

-----------------------------------------------------------------------------
\* An access token signed before its user's sessions were revoked is never
\* admitted again: neither through the rounding of "iat", nor through a later
\* revocation overwriting the stamp, nor after the Redis key has expired.
RevokedStaysRevoked ==
  \A a \in issued : a.signedAt < lastRevoked[a.user] => ~Admitted(a)

\* The rounding of "iat" costs at most a second: a token signed a second after
\* the last revocation or later is not taken for a revoked one, although one
\* signed in the same second may be.
FreshTokenWorks ==
  \A a \in issued :
    a.signedAt >= lastRevoked[a.user] + Second => ~IsUserRevoked(a)
=============================================================================
