------------------------ MODULE RefreshTokens_proofs ------------------------
(***************************************************************************)
(* Proofs about RefreshTokens for any users, tokens, families and          *)
(* requests: the inductive invariant ChainInv, the safety properties it    *)
(* contains, monotone revocation, who is revoked and why, and the          *)
(* refinement of TokenChain.                                               *)
(***************************************************************************)
EXTENDS RefreshTokens, TLAPS

USE NoRowAssumption, NoTokenAssumption, MaxFailuresAssumption

-----------------------------------------------------------------------------
(* What a step does to the table. *)

LEMMA NewRowType ==
  ASSUME NEW u \in Users, NEW f \in Families, NEW p \in Tokens \cup {NoToken}
  PROVE  NewRow(u, f, p) \in Row
  BY DEF NewRow, Row

\* The table keeps its rows and what identifies them; only "valid" and
\* "expired" may change.
SameChain ==
  \A t \in Tokens :
    /\ Issued(t)' <=> Issued(t)
    /\ Issued(t) => /\ row'[t].user = row[t].user
                    /\ row'[t].family = row[t].family
                    /\ row'[t].parent = row[t].parent
                    /\ row'[t].used = row[t].used

\* updateMany({ isValid: false }): no row comes or goes, validity only falls.
LEMMA InvalidateEffect ==
  ASSUME TypeOK, NEW S, S \subseteq {t \in Tokens : Issued(t)}, Invalidate(S)
  PROVE  /\ row' \in [Tokens -> Row \cup {NoRow}]
         /\ SameChain
         /\ \A t \in Tokens : Issued(t) /\ ~row[t].valid => ~row'[t].valid
  <1>1. \A t \in S : /\ row[t] \in Row
                     /\ [row[t] EXCEPT !.valid = FALSE] \in Row
    BY DEF TypeOK, Issued, Row
  <1>2. \A t \in Tokens : row'[t] = IF t \in S THEN [row[t] EXCEPT !.valid = FALSE]
                                              ELSE row[t]
    BY DEF Invalidate
  <1>3. row' \in [Tokens -> Row \cup {NoRow}]
    BY <1>1 DEF Invalidate, TypeOK
  <1>4. QED
    BY <1>1, <1>2, <1>3 DEF Issued, Row, TypeOK, SameChain

LEMMA OfSetsAreIssued ==
  /\ \A f : {t \in Tokens : OfFamily(t, f)} \subseteq {t \in Tokens : Issued(t)}
  /\ \A r : SessionsToRevoke(r) \subseteq {t \in Tokens : Issued(t)}
  BY DEF OfFamily, OfUser, SessionsToRevoke

-----------------------------------------------------------------------------
(* Type correctness. *)

\* Every variable keeps its type, and a handler that has presented a token
\* works on a row that exists: no handler reads a field of a missing row.
TypedInv == TypeOK /\ PresentedIsIssued

LEMMA TypedStep == TypedInv /\ [Next]_vars => TypedInv'
  <1> SUFFICES ASSUME TypedInv, [Next]_vars PROVE TypedInv'
    OBVIOUS
  <1> USE DEF TypedInv, InHandler, Answers, Goto
  <1>1. ASSUME NEW u \in Users, NEW f \in Families, NEW t \in Tokens, Login(u, f, t)
        PROVE  TypedInv'
    <2>1. NewRow(u, f, NoToken) \in Row
      BY NewRowType
    <2>2. QED
      BY <1>1, <2>1 DEF Login, TypeOK, PresentedIsIssued, Issued
  <1>2. ASSUME NEW r \in Requests, NEW t \in Tokens, Present(r, t)
        PROVE  TypedInv'
    BY <1>2 DEF Present, TypeOK, PresentedIsIssued, Issued
  <1>3. ASSUME NEW r \in Requests, NEW t \in Tokens, Logout(r, t)
        PROVE  TypedInv'
    <2>1. CASE Invalidate({t}) /\ UNCHANGED failures
      <3>1. {t} \subseteq {s \in Tokens : Issued(s)}
        BY <1>3 DEF Logout
      <3>2. QED
        BY <1>3, <2>1, <3>1, InvalidateEffect
           DEF Logout, TypeOK, PresentedIsIssued, SameChain
    <2>2. CASE failures' = failures + 1 /\ UNCHANGED row
      BY <1>3, <2>2 DEF Logout, TypeOK, PresentedIsIssued, Issued
    <2>3. QED
      BY <1>3, <2>1, <2>2 DEF Logout
  <1>4. ASSUME NEW r \in Requests, Find(r)
        PROVE  TypedInv'
    BY <1>4 DEF Find, TypeOK, PresentedIsIssued, Issued
  <1>5. ASSUME NEW r \in Requests, MarkAsUsed(r)
        PROVE  TypedInv'
    <2>1. token[r] \in Tokens /\ row[token[r]] \in Row
      BY <1>5 DEF MarkAsUsed, AlreadyUsed, SetUsed, PresentedIsIssued, TypeOK, Issued
    <2>2. [row[token[r]] EXCEPT !.used = TRUE] \in Row
      BY <2>1 DEF Row
    <2>3. QED
      BY <1>5, <2>1, <2>2 DEF MarkAsUsed, AlreadyUsed, SetUsed, TypeOK, PresentedIsIssued, Issued
  <1>6. ASSUME NEW r \in Requests, NEW t \in Tokens, Create(r, t)
        PROVE  TypedInv'
    <2>1. token[r] \in Tokens /\ row[token[r]] \in Row
      BY <1>6 DEF Create, PresentedIsIssued, TypeOK, Issued
    <2>2. NewRow(row[token[r]].user, row[token[r]].family, token[r]) \in Row
      BY <2>1, NewRowType DEF Row
    <2>3. QED
      BY <1>6, <2>1, <2>2 DEF Create, TypeOK, PresentedIsIssued, Issued
  <1>7. ASSUME NEW r \in Requests, RevokeFamily(r) \/ RevokeAllForUser(r)
        PROVE  TypedInv'
    BY <1>7, InvalidateEffect, OfSetsAreIssued
       DEF RevokeFamily, RevokeAllForUser, TypeOK, PresentedIsIssued, SameChain
  <1>8. ASSUME NEW r \in Requests, FlagUser(r)
        PROVE  TypedInv'
    <2>1. row[token[r]].user \in Users
      BY <1>8 DEF FlagUser, FlagKey, PresentedIsIssued, TypeOK, Issued, Row
    <2>2. QED
      BY <1>8, <2>1 DEF FlagUser, FlagKey, TypeOK, PresentedIsIssued, Issued
  <1>9. ASSUME NEW r \in Requests, Fail(r)
        PROVE  TypedInv'
    BY <1>9 DEF Fail, TypeOK, PresentedIsIssued, Issued
  <1>10. ASSUME NEW t \in Tokens, Expire(t)
         PROVE  TypedInv'
    <2>1. row[t] \in Row
      BY <1>10 DEF Expire, Issued, TypeOK
    <2>2. [row[t] EXCEPT !.expired = TRUE] \in Row
      BY <2>1 DEF Row
    <2>3. QED
      BY <1>10, <2>2 DEF Expire, TypeOK, PresentedIsIssued, Issued
  <1>11. CASE UNCHANGED vars
    BY <1>11 DEF vars, TypeOK, PresentedIsIssued, Issued
  <1>12. QED
    BY <1>1, <1>2, <1>3, <1>4, <1>5, <1>6, <1>7, <1>8, <1>9, <1>10, <1>11 DEF Next, Step

LEMMA TypedInit == Init => TypedInv
  BY DEF Init, TypedInv, TypeOK, PresentedIsIssued

\* Every reachable state of the token table and of the handlers is well typed.
THEOREM TypeCorrect == Spec => []TypeOK
  <1>1. TypedInv => TypeOK
    BY DEF TypedInv
  <1>2. QED
    BY <1>1, TypedInit, TypedStep, PTL DEF Spec

-----------------------------------------------------------------------------
(* The chain invariant.  Most steps are quiet: they keep the chain fields   *)
(* of every row and the set of handlers between UPDATE and INSERT.          *)

Quiet ==
  /\ SameChain
  /\ \A r \in Requests : (at'[r] = "create" <=> at[r] = "create")
                         /\ (at[r] = "create" => token'[r] = token[r])

LEMMA QuietSteps ==
  ASSUME TypedInv, NEW r \in Requests,
         \/ \E t \in Tokens : Present(r, t) \/ Logout(r, t)
         \/ Find(r) \/ RevokeFamily(r) \/ FlagUser(r) \/ RevokeAllForUser(r)
         \/ MarkAsUsed(r) /\ row[token[r]].used
         \/ Fail(r) /\ at[r] # "create"
  PROVE  Quiet
  <1> USE DEF Quiet, SameChain, TypedInv, Goto, InHandler
  <1>1. ASSUME NEW t \in Tokens, Present(r, t)
        PROVE  Quiet
    BY <1>1 DEF Present, TypeOK, Issued
  <1>2. ASSUME NEW t \in Tokens, Logout(r, t)
        PROVE  Quiet
    <2>1. CASE Invalidate({t})
      <3>1. {t} \subseteq {s \in Tokens : Issued(s)}
        BY <1>2 DEF Logout
      <3>2. SameChain
        BY <2>1, <3>1, InvalidateEffect
      <3>3. QED
        BY <1>2, <3>2 DEF Logout, TypeOK
    <2>2. CASE UNCHANGED row
      BY <1>2, <2>2 DEF Logout, TypeOK, Issued
    <2>3. QED
      BY <1>2, <2>1, <2>2 DEF Logout
  <1>3. CASE Find(r)
    BY <1>3 DEF Find, TypeOK, Issued
  <1>4. CASE RevokeFamily(r) \/ RevokeAllForUser(r)
    <2>1. SameChain
      BY <1>4, InvalidateEffect, OfSetsAreIssued DEF RevokeFamily, RevokeAllForUser
    <2>2. QED
      BY <1>4, <2>1 DEF RevokeFamily, RevokeAllForUser, TypeOK
  <1>5. CASE FlagUser(r)
    BY <1>5 DEF FlagUser, FlagKey, TypeOK, Issued
  <1>6. CASE MarkAsUsed(r) /\ row[token[r]].used
    BY <1>6 DEF MarkAsUsed, AlreadyUsed, SetUsed, TypeOK, Issued
  <1>7. CASE Fail(r) /\ at[r] # "create"
    BY <1>7 DEF Fail, TypeOK, Issued
  <1>8. QED
    BY <1>1, <1>2, <1>3, <1>4, <1>5, <1>6, <1>7

LEMMA QuietTime ==
  ASSUME TypedInv, (\E t \in Tokens : Expire(t)) \/ UNCHANGED vars
  PROVE  Quiet
  <1> USE DEF Quiet, SameChain, TypedInv
  <1>1. ASSUME NEW t \in Tokens, Expire(t)
        PROVE  Quiet
    <2>1. row[t] \in Row /\ [row[t] EXCEPT !.expired = TRUE] \in Row
      <3>1. row[t] \in Row
        BY <1>1 DEF Expire, Issued, TypeOK
      <3>2. QED
        BY <3>1 DEF Row
    <2>2. \A s \in Tokens :
            row'[s] = IF s = t THEN [row[t] EXCEPT !.expired = TRUE] ELSE row[s]
      BY <1>1 DEF Expire, TypeOK
    <2>3. /\ row[t] # NoRow /\ row'[t] # NoRow
          /\ row'[t].user = row[t].user /\ row'[t].family = row[t].family
          /\ row'[t].parent = row[t].parent /\ row'[t].used = row[t].used
      BY <2>1, <2>2, NoRowAssumption DEF Row
    <2>4. \A s \in Tokens : s # t => row'[s] = row[s]
      BY <2>2
    <2>5. SameChain
      BY <2>3, <2>4 DEF Issued
    <2>6. QED
      BY <1>1, <2>5 DEF Expire
  <1>2. CASE UNCHANGED vars
    BY <1>2 DEF vars, Issued
  <1>3. QED
    BY <1>1, <1>2

LEMMA QuietKeepsChainInv == ChainInv /\ Quiet /\ TypedInv' => ChainInv'
  <1> SUFFICES ASSUME ChainInv, Quiet, TypedInv' PROVE ChainInv'
    OBVIOUS
  <1> USE DEF ChainInv, Quiet, SameChain, PresentedIsIssued, TypedInv
  <1>1. ExchangeIsExclusive'
    BY DEF ExchangeIsExclusive, OfFamily
  <1>2. ParentIsUsed'
    <2>1. \A t \in Tokens : Issued(t) => row[t].parent \in Tokens \cup {NoToken}
      BY DEF TypeOK, Row, Issued
    <2>2. QED
      BY <2>1 DEF ParentIsUsed
  <1>3. OneUnusedPerFamily'
    BY DEF OneUnusedPerFamily
  <1>4. SingleHeir'
    BY DEF SingleHeir
  <1>5. QED
    BY <1>1, <1>2, <1>3, <1>4

\* A login opens a family nobody uses: no handler can be exchanging in it.
LEMMA LoginKeepsChainInv ==
  ASSUME ChainInv, TypedInv', NEW u \in Users, NEW f \in Families, NEW t \in Tokens,
         Login(u, f, t)
  PROVE  ChainInv'
  <1> USE DEF ChainInv, PresentedIsIssued, TypedInv, OfFamily
  <1> DEFINE new == NewRow(u, f, NoToken)
  <1>1. /\ ~Issued(t) /\ \A s \in Tokens : Issued(s) => row[s].family # f
        /\ at' = at /\ token' = token
        /\ row'[t] = new
        /\ \A s \in Tokens : s # t => row'[s] = row[s]
    BY DEF Login, TypeOK
  <1>2. new.family = f /\ new.parent = NoToken /\ new.used = FALSE /\ new \in Row
    BY DEF NewRow, Row
  <1> HIDE DEF new
  <1>3. \A r \in Requests : at[r] # "idle" =>
          /\ token[r] \in Tokens /\ Issued(token[r])
          /\ token[r] # t /\ row'[token[r]] = row[token[r]]
          /\ row[token[r]].family # f
    BY <1>1
  <1>4. ExchangeIsExclusive'
    BY <1>1, <1>2, <1>3 DEF ExchangeIsExclusive, Issued
  <1>5. ParentIsUsed'
    <2>1. \A s \in Tokens : Issued(s) => row[s].parent \in Tokens \cup {NoToken}
      BY DEF TypeOK, Row, Issued
    <2>2. QED
      BY <1>1, <1>2, <2>1 DEF ParentIsUsed, Issued
  <1>6. OneUnusedPerFamily'
    BY <1>1, <1>2 DEF OneUnusedPerFamily, Issued
  <1>7. SingleHeir'
    BY <1>1, <1>2 DEF SingleHeir, Issued
  <1>8. QED
    BY <1>4, <1>5, <1>6, <1>7

\* The winning UPDATE empties the family of unused rows, which is what keeps
\* every other handler out of the exchange.
LEMMA MarkKeepsChainInv ==
  ASSUME ChainInv, TypedInv', NEW r \in Requests, MarkAsUsed(r), ~row[token[r]].used
  PROVE  ChainInv'
  <1> USE DEF ChainInv, PresentedIsIssued, TypedInv, OfFamily
  <1> DEFINE t == token[r]
             marked == [row[t] EXCEPT !.used = TRUE]
  <1>1. t \in Tokens /\ Issued(t) /\ row[t] \in Row /\ at[r] = "markUsed"
    BY DEF MarkAsUsed, AlreadyUsed, SetUsed, TypeOK, Issued
  <1>2. /\ marked \in Row /\ marked.used = TRUE
        /\ marked.family = row[t].family /\ marked.parent = row[t].parent
    BY <1>1 DEF Row
  <1>3. /\ token' = token /\ row'[t] = marked
        /\ \A s \in Tokens : s # t => row'[s] = row[s]
        /\ at'[r] = "create" /\ \A q \in Requests : q # r => at'[q] = at[q]
    BY <1>1 DEF MarkAsUsed, AlreadyUsed, SetUsed, TypeOK, Goto
  <1> HIDE DEF marked
  <1>4. \A s \in Tokens : /\ Issued(s)' <=> Issued(s)
                          /\ Issued(s) => /\ row'[s].family = row[s].family
                                          /\ row'[s].parent = row[s].parent
                                          /\ row[s].used => row'[s].used
    BY <1>1, <1>2, <1>3 DEF Issued
  <1>5. \A q \in Requests : at[q] = "create" => row[token[q]].family # row[t].family
    BY <1>1 DEF ExchangeIsExclusive, MarkAsUsed
  <1>6. \A s \in Tokens : Issued(s) /\ row[s].family = row[t].family => row'[s].used
    BY <1>1, <1>2, <1>3 DEF OneUnusedPerFamily, MarkAsUsed
  <1>7. \A s \in Tokens : Issued(s) => row[s].parent # t
    BY <1>1, NoTokenAssumption DEF ParentIsUsed
  <1>8. ExchangeIsExclusive'
    <2> SUFFICES ASSUME NEW q \in Requests, at'[q] = "create"
                 PROVE  /\ \A s \in Tokens : Issued(s)' /\ row'[s].family = row'[token[q]].family
                                               => row'[s].used
                        /\ \A p \in Requests :
                             at'[p] = "create" /\ row'[token[p]].family = row'[token[q]].family
                               => p = q
                        /\ \A s \in Tokens : Issued(s)' => row'[s].parent # token[q]
      BY <1>3 DEF ExchangeIsExclusive
    <2>1. CASE q = r
      BY <2>1, <1>1, <1>3, <1>4, <1>5, <1>6, <1>7
    <2>2. CASE q # r
      BY <2>2, <1>1, <1>3, <1>4, <1>5 DEF ExchangeIsExclusive
    <2>3. QED
      BY <2>1, <2>2
  <1>9. ParentIsUsed'
    <2>1. \A s \in Tokens : Issued(s) => row[s].parent \in Tokens \cup {NoToken}
      BY DEF TypeOK, Row, Issued
    <2>2. QED
      BY <1>4, <2>1 DEF ParentIsUsed
  <1>10. OneUnusedPerFamily'
    BY <1>1, <1>2, <1>3, <1>4 DEF OneUnusedPerFamily
  <1>11. SingleHeir'
    BY <1>4 DEF SingleHeir
  <1>12. QED
    BY <1>8, <1>9, <1>10, <1>11

\* The INSERT finds its family without an unused row and its parent without an
\* heir, and leaves the exchange.
LEMMA CreateKeepsChainInv ==
  ASSUME ChainInv, TypedInv', NEW r \in Requests, NEW t \in Tokens, Create(r, t)
  PROVE  ChainInv'
  <1> USE DEF ChainInv, PresentedIsIssued, TypedInv, OfFamily
  <1> DEFINE p == token[r]
             f == row[p].family
             new == NewRow(row[p].user, f, p)
  <1>1. p \in Tokens /\ Issued(p) /\ row[p] \in Row /\ at[r] = "create" /\ ~Issued(t)
    BY DEF Create, TypeOK, Issued
  <1>2. new \in Row /\ new.family = f /\ new.parent = p /\ new.used = FALSE
    <2>1. row[p].user \in Users /\ row[p].family \in Families
      BY <1>1 DEF Row
    <2>2. QED
      BY <1>1, <2>1 DEF NewRow, Row
  <1>3. /\ token' = token /\ row'[t] = new
        /\ \A s \in Tokens : s # t => row'[s] = row[s]
        /\ at'[r] = "rotated" /\ \A q \in Requests : q # r => at'[q] = at[q]
    BY <1>1 DEF Create, TypeOK, Goto
  <1> HIDE DEF new
  <1>4. \A s \in Tokens : Issued(s) => s # t /\ row'[s] = row[s]
    BY <1>1, <1>3
  <1>5. /\ \A s \in Tokens : Issued(s) /\ row[s].family = f => row[s].used
        /\ \A s \in Tokens : Issued(s) => row[s].parent # p
        /\ \A q \in Requests : at[q] = "create" /\ q # r => row[token[q]].family # f
    BY <1>1 DEF ExchangeIsExclusive
  <1>6. \A s \in Tokens : Issued(s)' <=> Issued(s) \/ s = t
    BY <1>2, <1>3, NoRowAssumption DEF Issued
  <1>7. ExchangeIsExclusive'
    <2> SUFFICES ASSUME NEW q \in Requests, at'[q] = "create"
                 PROVE  /\ \A s \in Tokens : Issued(s)' /\ row'[s].family = row'[token[q]].family
                                               => row'[s].used
                        /\ \A o \in Requests :
                             at'[o] = "create" /\ row'[token[o]].family = row'[token[q]].family
                               => o = q
                        /\ \A s \in Tokens : Issued(s)' => row'[s].parent # token[q]
      BY <1>3 DEF ExchangeIsExclusive
    <2>1. q # r /\ at[q] = "create" /\ token[q] \in Tokens /\ Issued(token[q])
      BY <1>3
    <2>2. row[token[q]].family # f /\ row'[token[q]] = row[token[q]] /\ token[q] # p
      BY <2>1, <1>4, <1>5
    <2>3. \A s \in Tokens : Issued(s)' => \/ s = t /\ row'[s] = new
                                          \/ Issued(s) /\ row'[s] = row[s]
      BY <1>3, <1>4, <1>6
    <2>4. \A s \in Tokens : Issued(s)' /\ row'[s].family = row'[token[q]].family => row'[s].used
      BY <2>1, <2>2, <2>3, <1>2 DEF ExchangeIsExclusive
    <2>5. \A o \in Requests :
            at'[o] = "create" /\ row'[token[o]].family = row'[token[q]].family => o = q
      BY <2>1, <2>2, <1>3, <1>4 DEF ExchangeIsExclusive
    <2>6. \A s \in Tokens : Issued(s)' => row'[s].parent # token[q]
      BY <2>1, <2>2, <2>3, <1>2 DEF ExchangeIsExclusive
    <2>7. QED
      BY <2>4, <2>5, <2>6
  <1>8. ParentIsUsed'
    <2>1. \A s \in Tokens : Issued(s) => row[s].parent \in Tokens \cup {NoToken}
      BY DEF TypeOK, Row, Issued
    <2>2. QED
      BY <1>1, <1>2, <1>3, <1>4, <1>5, <1>6, <2>1 DEF ParentIsUsed
  <1>9. OneUnusedPerFamily'
    BY <1>2, <1>3, <1>4, <1>5, <1>6 DEF OneUnusedPerFamily
  <1>10. SingleHeir'
    BY <1>2, <1>3, <1>4, <1>5, <1>6 DEF SingleHeir
  <1>11. QED
    BY <1>7, <1>8, <1>9, <1>10

\* A crash between UPDATE and INSERT only removes a handler from the exchange.
LEMMA FailKeepsChainInv ==
  ASSUME ChainInv, TypedInv', NEW r \in Requests, Fail(r)
  PROVE  ChainInv'
  <1>1. /\ row' = row /\ token' = token
        /\ \A q \in Requests : at'[q] = "create" => at[q] = "create"
    BY DEF ChainInv, Fail, TypeOK, Goto
  <1>2. QED
    BY <1>1 DEF ChainInv, TypedInv, PresentedIsIssued, ExchangeIsExclusive, ParentIsUsed,
                OneUnusedPerFamily, SingleHeir, OfFamily, Issued

LEMMA ChainStep == ChainInv /\ [Next]_vars => ChainInv'
  <1> SUFFICES ASSUME ChainInv, [Next]_vars PROVE ChainInv'
    OBVIOUS
  <1>1. TypedInv /\ TypedInv'
    BY TypedStep DEF ChainInv, TypedInv
  <1>2. ASSUME NEW u \in Users, NEW f \in Families, NEW t \in Tokens, Login(u, f, t)
        PROVE  ChainInv'
    BY <1>1, <1>2, LoginKeepsChainInv
  <1>3. ASSUME NEW r \in Requests, NEW t \in Tokens, Create(r, t)
        PROVE  ChainInv'
    BY <1>1, <1>3, CreateKeepsChainInv
  <1>4. ASSUME NEW r \in Requests, MarkAsUsed(r), ~row[token[r]].used
        PROVE  ChainInv'
    BY <1>1, <1>4, MarkKeepsChainInv
  <1>5. ASSUME NEW r \in Requests, Fail(r)
        PROVE  ChainInv'
    BY <1>1, <1>5, FailKeepsChainInv
  <1>6. ASSUME NEW r \in Requests,
               \/ \E t \in Tokens : Present(r, t) \/ Logout(r, t)
               \/ Find(r) \/ RevokeFamily(r) \/ FlagUser(r) \/ RevokeAllForUser(r)
               \/ MarkAsUsed(r) /\ row[token[r]].used
        PROVE  ChainInv'
    <2>1. Quiet
      BY <1>6, <1>1, QuietSteps
    <2>2. QED
      BY <2>1, <1>1, QuietKeepsChainInv
  <1>7. CASE (\E t \in Tokens : Expire(t)) \/ UNCHANGED vars
    <2>1. Quiet
      BY <1>7, <1>1, QuietTime
    <2>2. QED
      BY <2>1, <1>1, QuietKeepsChainInv
  <1>8. QED
    BY <1>2, <1>3, <1>4, <1>5, <1>6, <1>7 DEF Next, Step

LEMMA ChainInit == Init => ChainInv
  BY DEF Init, ChainInv, TypeOK, PresentedIsIssued, ExchangeIsExclusive, ParentIsUsed,
         OneUnusedPerFamily, SingleHeir, Issued

THEOREM ChainInvariant == Spec => []ChainInv
  BY ChainInit, ChainStep, PTL DEF Spec

\* However refreshes, logouts, revocations, failures and expiries interleave,
\* a refresh token is exchanged for at most one successor.
THEOREM RotationWinsOnce == Spec => []SingleHeir
  <1>1. ChainInv => SingleHeir
    BY DEF ChainInv
  <1>2. QED
    BY <1>1, ChainInvariant, PTL

\* Every login has at most one token that can still be exchanged.
THEOREM FamilyHasOneHead == Spec => []OneUnusedPerFamily
  <1>1. ChainInv => OneUnusedPerFamily
    BY DEF ChainInv
  <1>2. QED
    BY <1>1, ChainInvariant, PTL

-----------------------------------------------------------------------------
(* Monotone revocation. *)

Mono ==
  \A t \in Tokens :
    Issued(t) =>
      /\ Issued(t)'
      /\ ~row[t].valid => ~row'[t].valid
      /\ row[t].used => row'[t].used

LEMMA MonoStep == TypedInv /\ [Next]_vars => Mono
  <1> SUFFICES ASSUME TypedInv, [Next]_vars PROVE Mono
    OBVIOUS
  <1> USE DEF TypedInv, TypeOK, Mono
  <1>1. ASSUME NEW u \in Users, NEW f \in Families, NEW t \in Tokens, Login(u, f, t)
        PROVE  Mono
    BY <1>1 DEF Login, Issued
  <1>2. ASSUME NEW r \in Requests, NEW t \in Tokens, Create(r, t)
        PROVE  Mono
    BY <1>2 DEF Create, Issued
  <1>3. ASSUME NEW S, S \subseteq {t \in Tokens : Issued(t)}, Invalidate(S)
        PROVE  Mono
    BY <1>3, InvalidateEffect DEF SameChain
  <1>4. ASSUME NEW r \in Requests, NEW t \in Tokens, Logout(r, t)
        PROVE  Mono
    <2>1. {t} \subseteq {s \in Tokens : Issued(s)}
      BY <1>4 DEF Logout
    <2>2. CASE Invalidate({t})
      BY <2>1, <2>2, <1>3
    <2>3. CASE UNCHANGED row
      BY <2>3 DEF Issued
    <2>4. QED
      BY <1>4, <2>2, <2>3 DEF Logout
  <1>5. ASSUME NEW r \in Requests, RevokeFamily(r) \/ RevokeAllForUser(r)
        PROVE  Mono
    BY <1>5, <1>3, OfSetsAreIssued DEF RevokeFamily, RevokeAllForUser
  <1>6. ASSUME NEW t \in Tokens, Issued(t),
               \/ row' = [row EXCEPT ![t].used = TRUE]
               \/ row' = [row EXCEPT ![t].expired = TRUE]
        PROVE  Mono
    <2>1. row[t] \in Row
      BY <1>6 DEF Issued
    <2>2. CASE row' = [row EXCEPT ![t].used = TRUE]
      BY <2>1, <2>2, NoRowAssumption DEF Issued, Row
    <2>3. CASE row' = [row EXCEPT ![t].expired = TRUE]
      BY <2>1, <2>3, NoRowAssumption DEF Issued, Row
    <2>4. QED
      BY <1>6, <2>2, <2>3
  <1>7. ASSUME NEW r \in Requests, MarkAsUsed(r)
        PROVE  Mono
    <2>1. token[r] \in Tokens /\ Issued(token[r])
      BY <1>7 DEF MarkAsUsed, AlreadyUsed, SetUsed, PresentedIsIssued
    <2>2. CASE row' = [row EXCEPT ![token[r]].used = TRUE]
      BY <2>1, <2>2, <1>6
    <2>3. CASE UNCHANGED row
      BY <2>3 DEF Issued
    <2>4. QED
      BY <1>7, <2>2, <2>3 DEF MarkAsUsed, AlreadyUsed, SetUsed
  <1>8. ASSUME NEW t \in Tokens, Expire(t)
        PROVE  Mono
    BY <1>8, <1>6 DEF Expire
  <1>9. ASSUME UNCHANGED row
        PROVE  Mono
    BY <1>9 DEF Issued
  <1>10. ASSUME NEW r \in Requests,
                Find(r) \/ FlagUser(r) \/ Fail(r) \/ \E t \in Tokens : Present(r, t)
         PROVE  Mono
    BY <1>10, <1>9 DEF Find, FlagUser, Fail, Present
  <1>11. CASE UNCHANGED vars
    BY <1>11, <1>9 DEF vars
  <1>12. QED
    BY <1>1, <1>2, <1>4, <1>5, <1>7, <1>8, <1>10, <1>11 DEF Next, Step

\* No handler, failure or later login makes a revoked or exchanged token good
\* again: the only way to be valid and unused is to be a new row.
THEOREM RevocationMonotone == Spec => RevocationIsMonotone
  <1>1. TypedInv /\ [Next]_vars => [Mono]_vars
    BY MonoStep
  <1>2. QED
    BY <1>1, TypedInit, TypedStep, PTL DEF Spec, RevocationIsMonotone, Mono

-----------------------------------------------------------------------------
(* Reuse and revocation.  What a step may do to the handlers and to the     *)
(* table, as far as it matters who revokes what, and why.                   *)

\* Handlers that have exchanged their token, or failed on the way.
Exchanged == {"create", "rotated", "error"}

HandlerMoves ==
  \A r \in Requests :
    /\ at[r] # "idle" => at'[r] # "idle" /\ token'[r] = token[r]
    /\ at'[r] = "idle" => at[r] = "idle" /\ token'[r] = token[r]
    /\ at[r] \in Exchanged => at'[r] \in Exchanged
    /\ at[r] = "loggedOut" => at'[r] = "loggedOut"
    /\ at'[r] = "revokeFamily" =>
         at[r] = "revokeFamily" \/ (at[r] \in {"find", "markUsed"} /\ row[token[r]].used)
    /\ at'[r] = "flagUser" => at[r] \in {"flagUser", "revokeFamily"}
    /\ at'[r] = "revokeAll" =>
         at[r] = "revokeAll" \/ (at[r] = "flagUser" /\ row[token[r]].user \in flagged')
    /\ at'[r] = "reused" =>
         at[r] = "reused" \/ (at[r] = "revokeAll" /\ ~row'[token[r]].valid)

RowsKept ==
  \A t \in Tokens :
    Issued(t) => /\ Issued(t)'
                 /\ row'[t].user = row[t].user /\ row'[t].family = row[t].family

\* A step inserts at most one row, in a new family or in one of its user.
NewIsOfItsUser ==
  \A t \in Tokens :
    Issued(t)' /\ ~Issued(t) =>
      /\ \A s \in Tokens : Issued(s)' /\ ~Issued(s) => s = t
      /\ \/ \A s \in Tokens : Issued(s) => row[s].family # row'[t].family
         \/ \E s \in Tokens : /\ Issued(s) /\ row[s].family = row'[t].family
                              /\ row[s].user = row'[t].user

UsedForAReason ==
  \A t \in Tokens :
    Issued(t)' /\ row'[t].used =>
      \/ Issued(t) /\ row[t].used
      \/ \E r \in Requests : at'[r] = "create" /\ token'[r] = t

RevokedForAReason ==
  \A t \in Tokens :
    Issued(t)' /\ ~row'[t].valid =>
      \/ Issued(t) /\ ~row[t].valid
      \/ \E r \in Requests : at'[r] = "loggedOut" /\ token'[r] = t
      \/ /\ Issued(t)
         /\ \E r \in Requests :
              \/ at[r] = "revokeFamily" /\ row[t].family = row[token[r]].family
              \/ at[r] = "revokeAll" /\ row[t].user = row[token[r]].user

Moves ==
  /\ HandlerMoves /\ RowsKept /\ NewIsOfItsUser /\ UsedForAReason /\ RevokedForAReason
  /\ flagged \subseteq flagged'

\* The handlers of a step that only moves r, and how.
LEMMA OneHandler ==
  ASSUME TypedInv, NEW r \in Requests, NEW label, at' = [at EXCEPT ![r] = label],
         UNCHANGED token, at[r] \in InHandler, label # "idle", label # "loggedOut",
         at[r] = "create" => label \in Exchanged,
         label = "revokeFamily" => at[r] \in {"find", "markUsed"} /\ row[token[r]].used,
         label = "flagUser" => at[r] = "revokeFamily",
         label = "revokeAll" => at[r] = "flagUser" /\ row[token[r]].user \in flagged',
         label = "reused" => at[r] = "revokeAll" /\ ~row'[token[r]].valid
  PROVE  HandlerMoves
  <1>1. /\ at'[r] = label
        /\ \A q \in Requests : q # r => at'[q] = at[q]
        /\ \A q \in Requests : token'[q] = token[q]
    BY DEF TypedInv, TypeOK
  <1>2. at[r] # "idle" /\ at[r] # "loggedOut" /\ (at[r] \in Exchanged => at[r] = "create")
    BY DEF InHandler, Exchanged
  <1>3. QED
    BY <1>1, <1>2 DEF HandlerMoves

\* The handlers of a step that starts one or moves none.
LEMMA NewHandler ==
  ASSUME TypedInv, NEW r \in Requests, NEW label \in {"find", "loggedOut"}, NEW t \in Tokens,
         at[r] = "idle", at' = [at EXCEPT ![r] = label], token' = [token EXCEPT ![r] = t]
  PROVE  /\ HandlerMoves
         /\ at'[r] = label /\ token'[r] = t
  <1>1. /\ at'[r] = label /\ token'[r] = t
        /\ \A q \in Requests : q # r => at'[q] = at[q] /\ token'[q] = token[q]
    BY DEF TypedInv, TypeOK
  <1>2. QED
    BY <1>1 DEF HandlerMoves, Exchanged

\* The rows of a step that leaves the table as it is.
LEMMA SameRows ==
  ASSUME UNCHANGED row
  PROVE  RowsKept /\ NewIsOfItsUser /\ UsedForAReason /\ RevokedForAReason
  BY DEF RowsKept, NewIsOfItsUser, UsedForAReason, RevokedForAReason, Issued

\* The rows of a step that inserts one.
LEMMA OneRowMore ==
  ASSUME TypedInv, NEW t \in Tokens, ~Issued(t), NEW u \in Users, NEW f \in Families,
         NEW p \in Tokens \cup {NoToken}, row' = [row EXCEPT ![t] = NewRow(u, f, p)],
         \/ \A s \in Tokens : Issued(s) => row[s].family # f
         \/ \E s \in Tokens : Issued(s) /\ row[s].family = f /\ row[s].user = u
  PROVE  RowsKept /\ NewIsOfItsUser /\ UsedForAReason /\ RevokedForAReason
  <1>1. /\ row'[t] = NewRow(u, f, p)
        /\ \A s \in Tokens : s # t => row'[s] = row[s]
    BY DEF TypedInv, TypeOK
  <1>2. /\ row'[t].user = u /\ row'[t].family = f
        /\ row'[t].valid /\ ~row'[t].used
    BY <1>1 DEF NewRow
  <1>3. QED
    BY <1>1, <1>2 DEF RowsKept, NewIsOfItsUser, UsedForAReason, RevokedForAReason, Issued

\* The rows of an updateMany: those of S, each for one of the reasons.
LEMMA RowsRevoked ==
  ASSUME TypedInv, NEW S, Invalidate(S), S \subseteq {t \in Tokens : Issued(t)},
         \A t \in S :
           \/ \E r \in Requests : at'[r] = "loggedOut" /\ token'[r] = t
           \/ \E r \in Requests :
                \/ at[r] = "revokeFamily" /\ row[t].family = row[token[r]].family
                \/ at[r] = "revokeAll" /\ row[t].user = row[token[r]].user
  PROVE  /\ RowsKept /\ NewIsOfItsUser /\ UsedForAReason /\ RevokedForAReason
         /\ \A t \in S : ~row'[t].valid
  <1>1. SameChain
    BY InvalidateEffect DEF TypedInv
  <1>2. \A t \in Tokens : row'[t] = IF t \in S THEN [row[t] EXCEPT !.valid = FALSE]
                                              ELSE row[t]
    BY DEF Invalidate
  <1>3. \A t \in S : ~row'[t].valid
    <2>1. \A t \in S : row[t] \in Row
      BY DEF TypedInv, TypeOK, Issued
    <2>2. QED
      BY <1>2, <2>1 DEF Row
  <1>4. RowsKept /\ NewIsOfItsUser
    BY <1>1 DEF SameChain, RowsKept, NewIsOfItsUser
  <1>5. UsedForAReason
    BY <1>1, Zenon DEF SameChain, UsedForAReason
  <1>6. RevokedForAReason
    <2> SUFFICES ASSUME NEW t \in Tokens, Issued(t)', ~row'[t].valid
                 PROVE  \/ Issued(t) /\ ~row[t].valid
                        \/ \E r \in Requests : at'[r] = "loggedOut" /\ token'[r] = t
                        \/ /\ Issued(t)
                           /\ \E r \in Requests :
                                \/ at[r] = "revokeFamily" /\ row[t].family = row[token[r]].family
                                \/ at[r] = "revokeAll" /\ row[t].user = row[token[r]].user
      BY DEF RevokedForAReason
    <2>1. Issued(t)
      BY <1>1 DEF SameChain
    <2>2. ~row[t].valid \/ t \in S
      BY <1>2
    <2>3. QED
      BY <2>1, <2>2
  <1>7. QED
    BY <1>3, <1>4, <1>5, <1>6

LEMMA StepMoves == TypedInv /\ [Next]_vars => Moves
  <1> SUFFICES ASSUME TypedInv, [Next]_vars PROVE Moves
    OBVIOUS
  <1>a. \A r \in Requests : at[r] # "idle" => token[r] \in Tokens /\ row[token[r]] \in Row
    BY DEF TypedInv, TypeOK, PresentedIsIssued, Issued
  <1>1. ASSUME NEW u \in Users, NEW f \in Families, NEW t \in Tokens, Login(u, f, t)
        PROVE  Moves
    <2>1. \A s \in Tokens : Issued(s) => row[s].family # f
      BY <1>1 DEF Login, OfFamily
    <2>2. RowsKept /\ NewIsOfItsUser /\ UsedForAReason /\ RevokedForAReason
      BY <1>1, <2>1, OneRowMore DEF Login
    <2>3. HandlerMoves /\ flagged \subseteq flagged'
      BY <1>1 DEF Login, HandlerMoves, Exchanged
    <2>4. QED
      BY <2>2, <2>3 DEF Moves
  <1>2. ASSUME NEW r \in Requests, NEW t \in Tokens, Present(r, t)
        PROVE  Moves
    BY <1>2, NewHandler, SameRows DEF Present, Moves, Goto
  <1>3. ASSUME NEW r \in Requests, NEW t \in Tokens, Logout(r, t)
        PROVE  Moves
    <2>1. HandlerMoves /\ at'[r] = "loggedOut" /\ token'[r] = t
      BY <1>3, NewHandler DEF Logout, Goto
    <2>2. RowsKept /\ NewIsOfItsUser /\ UsedForAReason /\ RevokedForAReason
      <3>1. CASE Invalidate({t})
        <4>1. {t} \subseteq {s \in Tokens : Issued(s)}
          BY <1>3 DEF Logout
        <4>2. QED
          BY <2>1, <3>1, <4>1, RowsRevoked
      <3>2. CASE UNCHANGED row
        BY <3>2, SameRows
      <3>3. QED
        BY <1>3, <3>1, <3>2 DEF Logout
    <2>3. QED
      BY <1>3, <2>1, <2>2 DEF Logout, Moves
  <1>4. ASSUME NEW r \in Requests, Find(r)
        PROVE  Moves
    <2> DEFINE label == IF ~row[token[r]].valid \/ row[token[r]].expired THEN "invalid"
                        ELSE IF row[token[r]].used THEN "revokeFamily" ELSE "markUsed"
    <2>1. /\ at' = [at EXCEPT ![r] = label] /\ at[r] = "find"
          /\ label \in {"invalid", "markUsed"} \/ (label = "revokeFamily" /\ row[token[r]].used)
      BY <1>4 DEF Find, Goto
    <2> HIDE DEF label
    <2>2. HandlerMoves
      BY <1>4, <2>1, OneHandler DEF Find, InHandler
    <2>3. QED
      BY <1>4, <2>2, SameRows DEF Find, Moves
  <1>5. ASSUME NEW r \in Requests, MarkAsUsed(r)
        PROVE  Moves
    <2>1. CASE row[token[r]].used /\ at' = [at EXCEPT ![r] = "revokeFamily"] /\ UNCHANGED row
      <3>1. HandlerMoves
        BY <1>5, <2>1, OneHandler DEF MarkAsUsed, InHandler
      <3>2. QED
        BY <1>5, <2>1, <3>1, SameRows DEF MarkAsUsed, Moves
    <2>2. CASE /\ row' = [row EXCEPT ![token[r]].used = TRUE]
               /\ at' = [at EXCEPT ![r] = "create"]
      <3>1. HandlerMoves
        BY <1>5, <2>2, OneHandler DEF MarkAsUsed, InHandler, Exchanged
      <3>2. /\ at'[r] = "create" /\ token'[r] = token[r]
            /\ token[r] \in Tokens /\ row[token[r]] \in Row
        BY <1>5, <2>2, <1>a DEF MarkAsUsed, TypedInv, TypeOK
      <3>3. /\ row'[token[r]] = [row[token[r]] EXCEPT !.used = TRUE]
            /\ \A s \in Tokens : s # token[r] => row'[s] = row[s]
        BY <2>2, <3>2 DEF TypedInv, TypeOK
      <3>4. /\ row'[token[r]] \in Row /\ Issued(token[r]) /\ Issued(token[r])'
            /\ row'[token[r]].user = row[token[r]].user
            /\ row'[token[r]].family = row[token[r]].family
            /\ row'[token[r]].valid = row[token[r]].valid
        BY <3>2, <3>3 DEF Row, Issued
      <3>5. RowsKept /\ NewIsOfItsUser
        BY <3>3, <3>4 DEF RowsKept, NewIsOfItsUser, Issued
      <3>6. UsedForAReason
        BY <3>2, <3>3 DEF UsedForAReason, Issued
      <3>7. RevokedForAReason
        BY <3>3, <3>4 DEF RevokedForAReason, Issued
      <3>8. QED
        BY <1>5, <3>1, <3>5, <3>6, <3>7 DEF MarkAsUsed, Moves
    <2>3. QED
      BY <1>5, <2>1, <2>2 DEF MarkAsUsed, AlreadyUsed, SetUsed, Goto
  <1>6. ASSUME NEW r \in Requests, NEW t \in Tokens, Create(r, t)
        PROVE  Moves
    <2>1. HandlerMoves
      BY <1>6, OneHandler DEF Create, Goto, InHandler, Exchanged
    <2>2. /\ token[r] \in Tokens /\ Issued(token[r])
          /\ row[token[r]].user \in Users /\ row[token[r]].family \in Families
      BY <1>6, <1>a DEF Create, Row, TypedInv, PresentedIsIssued
    <2>3. RowsKept /\ NewIsOfItsUser /\ UsedForAReason /\ RevokedForAReason
      <3>1. PICK u \in Users, f \in Families, p \in Tokens \cup {NoToken} :
              u = row[token[r]].user /\ f = row[token[r]].family /\ p = token[r]
        BY <2>2
      <3>2. ~Issued(t) /\ row' = [row EXCEPT ![t] = NewRow(u, f, p)]
        BY <1>6, <3>1 DEF Create
      <3>3. \E s \in Tokens : Issued(s) /\ row[s].family = f /\ row[s].user = u
        BY <2>2, <3>1
      <3>4. QED
        BY <3>2, <3>3, OneRowMore
    <2>4. QED
      BY <1>6, <2>1, <2>3 DEF Create, Moves
  <1>7. ASSUME NEW r \in Requests, RevokeFamily(r)
        PROVE  Moves
    <2>1. HandlerMoves
      BY <1>7, OneHandler DEF RevokeFamily, Goto, InHandler
    <2>2. RowsKept /\ NewIsOfItsUser /\ UsedForAReason /\ RevokedForAReason
      <3> DEFINE S == {t \in Tokens : OfFamily(t, row[token[r]].family)}
      <3>1. Invalidate(S) /\ S \subseteq {t \in Tokens : Issued(t)}
        BY <1>7, OfSetsAreIssued DEF RevokeFamily
      <3>2. \A t \in S : at[r] = "revokeFamily" /\ row[t].family = row[token[r]].family
        BY <1>7 DEF RevokeFamily, OfFamily
      <3> HIDE DEF S
      <3>3. QED
        BY <3>1, <3>2, RowsRevoked
    <2>3. QED
      BY <1>7, <2>1, <2>2 DEF RevokeFamily, Moves
  <1>8. ASSUME NEW r \in Requests, FlagUser(r)
        PROVE  Moves
    <2>1. row[token[r]].user \in flagged' /\ flagged \subseteq flagged'
      BY <1>8 DEF FlagUser, FlagKey
    <2>2. HandlerMoves
      BY <1>8, <2>1, OneHandler DEF FlagUser, Goto, InHandler
    <2>3. QED
      BY <1>8, <2>1, <2>2, SameRows DEF FlagUser, Moves
  <1>9. ASSUME NEW r \in Requests, RevokeAllForUser(r)
        PROVE  Moves
    <2> DEFINE S == SessionsToRevoke(r)
    <2>1. Invalidate(S) /\ S \subseteq {t \in Tokens : Issued(t)} /\ at[r] = "revokeAll"
      BY <1>9, OfSetsAreIssued DEF RevokeAllForUser
    <2>2. \A t \in S : row[t].user = row[token[r]].user
      BY DEF SessionsToRevoke, OfUser
    <2>3. token[r] \in S
      BY <2>1 DEF SessionsToRevoke, OfUser, TypedInv, PresentedIsIssued
    <2> HIDE DEF S
    <2>4. /\ RowsKept /\ NewIsOfItsUser /\ UsedForAReason /\ RevokedForAReason
          /\ ~row'[token[r]].valid
      BY <2>1, <2>2, <2>3, RowsRevoked
    <2>5. HandlerMoves
      BY <1>9, <2>4, OneHandler DEF RevokeAllForUser, Goto, InHandler
    <2>6. QED
      BY <1>9, <2>4, <2>5 DEF RevokeAllForUser, Moves
  <1>10. ASSUME NEW r \in Requests, Fail(r)
         PROVE  Moves
    <2>1. HandlerMoves
      BY <1>10, OneHandler DEF Fail, Goto, Exchanged
    <2>2. QED
      BY <1>10, <2>1, SameRows DEF Fail, Moves
  <1>11. ASSUME NEW t \in Tokens, Expire(t)
         PROVE  Moves
    <2>1. row[t] \in Row /\ Issued(t)
      BY <1>11 DEF Expire, Issued, TypedInv, TypeOK
    <2>2. /\ row'[t] = [row[t] EXCEPT !.expired = TRUE]
          /\ \A s \in Tokens : s # t => row'[s] = row[s]
      BY <1>11 DEF Expire, TypedInv, TypeOK
    <2>3. /\ Issued(t)' /\ row'[t].user = row[t].user /\ row'[t].family = row[t].family
          /\ row'[t].valid = row[t].valid /\ row'[t].used = row[t].used
      BY <2>1, <2>2 DEF Row, Issued
    <2>4. RowsKept /\ NewIsOfItsUser /\ UsedForAReason /\ RevokedForAReason
      BY <2>1, <2>2, <2>3
         DEF RowsKept, NewIsOfItsUser, UsedForAReason, RevokedForAReason, Issued
    <2>5. QED
      BY <1>11, <2>4 DEF Expire, Moves, HandlerMoves, Exchanged
  <1>12. CASE UNCHANGED vars
    BY <1>12, SameRows DEF vars, Moves, HandlerMoves, Exchanged
  <1>13. QED
    BY <1>1, <1>2, <1>3, <1>4, <1>5, <1>6, <1>7, <1>8, <1>9, <1>10, <1>11, <1>12
       DEF Next, Step

(* Why a revocation has a reason: a used row has its exchange, so who finds *)
(* it used is the second to present it; and a family is of one user.        *)
TokenIsPresented == \A r \in Requests : at[r] = "idle" => token[r] = NoToken

UsedIsExchanged ==
  \A t \in Tokens :
    Issued(t) /\ row[t].used => \E r \in Requests : at[r] \in Exchanged /\ token[r] = t

RevokerIsSecond ==
  \A r \in Requests :
    at[r] \in {"revokeFamily", "flagUser", "revokeAll"} => PresentedTwice(token[r])

FamilyIsOfOneUser ==
  \A s, t \in Tokens :
    Issued(s) /\ Issued(t) /\ row[s].family = row[t].family => row[s].user = row[t].user

FlaggedFirst ==
  \A r \in Requests : at[r] \in {"revokeAll", "reused"} => row[token[r]].user \in flagged

ReuseInv ==
  /\ TokenIsPresented /\ UsedIsExchanged /\ RevokerIsSecond /\ FamilyIsOfOneUser
  /\ NoFalseRevocation /\ FlaggedFirst /\ ReusedMeansRevoked

\* A token presented twice stays so.
LEMMA TwiceIsForEver ==
  ASSUME TokenIsPresented, HandlerMoves, NEW t \in Tokens, PresentedTwice(t)
  PROVE  PresentedTwice(t)'
  <1>1. \A r \in Requests : token[r] = t => token'[r] = t
    BY NoTokenAssumption DEF TokenIsPresented, HandlerMoves
  <1>2. QED
    BY <1>1 DEF PresentedTwice

LEMMA ReuseStep == TypedInv /\ ReuseInv /\ [Next]_vars => ReuseInv'
  <1> SUFFICES ASSUME TypedInv, ReuseInv, [Next]_vars PROVE ReuseInv'
    OBVIOUS
  <1>1. /\ HandlerMoves /\ RowsKept /\ NewIsOfItsUser /\ UsedForAReason /\ RevokedForAReason
        /\ flagged \subseteq flagged'
    BY StepMoves DEF Moves
  <1>2. \A r \in Requests : at[r] # "idle" => token[r] \in Tokens /\ Issued(token[r])
    BY DEF TypedInv, PresentedIsIssued
  <1>3. TokenIsPresented'
    BY <1>1 DEF ReuseInv, TokenIsPresented, HandlerMoves
  <1>4. UsedIsExchanged'
    <2> SUFFICES ASSUME NEW t \in Tokens, Issued(t)', row'[t].used
                 PROVE  \E r \in Requests : at'[r] \in Exchanged /\ token'[r] = t
      BY DEF UsedIsExchanged
    <2>1. CASE Issued(t) /\ row[t].used
      <3>1. PICK r \in Requests : at[r] \in Exchanged /\ token[r] = t
        BY <2>1 DEF ReuseInv, UsedIsExchanged
      <3>2. at'[r] \in Exchanged /\ token'[r] = t
        BY <1>1, <3>1 DEF HandlerMoves, Exchanged
      <3>3. QED
        BY <3>2
    <2>2. CASE \E r \in Requests : at'[r] = "create" /\ token'[r] = t
      BY <2>2 DEF Exchanged
    <2>3. QED
      BY <1>1, <2>1, <2>2 DEF UsedForAReason
  <1>5. RevokerIsSecond'
    <2> SUFFICES ASSUME NEW r \in Requests, at'[r] \in {"revokeFamily", "flagUser", "revokeAll"}
                 PROVE  \E p, q \in Requests :
                          p # q /\ token'[p] = token'[r] /\ token'[q] = token'[r]
      BY DEF RevokerIsSecond, PresentedTwice
    <2>1. \/ at[r] \in {"revokeFamily", "flagUser", "revokeAll"}
          \/ at[r] \in {"find", "markUsed"} /\ row[token[r]].used
      BY <1>1 DEF HandlerMoves
    <2>2. at[r] # "idle" /\ token'[r] = token[r] /\ token[r] \in Tokens /\ Issued(token[r])
      BY <1>1, <1>2, <2>1 DEF HandlerMoves
    <2>3. PresentedTwice(token[r])
      <3>1. CASE at[r] \in {"revokeFamily", "flagUser", "revokeAll"}
        BY <3>1 DEF ReuseInv, RevokerIsSecond
      <3>2. CASE at[r] \in {"find", "markUsed"} /\ row[token[r]].used
        <4>1. PICK q \in Requests : at[q] \in Exchanged /\ token[q] = token[r]
          BY <2>2, <3>2 DEF ReuseInv, UsedIsExchanged
        <4>2. q # r
          BY <3>2, <4>1 DEF Exchanged
        <4>3. QED
          BY <4>1, <4>2 DEF PresentedTwice
      <3>3. QED
        BY <2>1, <3>1, <3>2
    <2>4. PICK t \in Tokens : t = token[r]
      BY <2>2
    <2>5. PresentedTwice(t)'
      BY <1>1, <2>3, <2>4, TwiceIsForEver DEF ReuseInv
    <2>6. QED
      BY <2>2, <2>4, <2>5 DEF PresentedTwice
  <1>6. FamilyIsOfOneUser'
    <2> SUFFICES ASSUME NEW s \in Tokens, NEW t \in Tokens, Issued(s)', Issued(t)',
                        row'[s].family = row'[t].family
                 PROVE  row'[s].user = row'[t].user
      BY DEF FamilyIsOfOneUser
    <2>1. CASE Issued(s) /\ Issued(t)
      BY <1>1, <2>1 DEF RowsKept, ReuseInv, FamilyIsOfOneUser
    <2>2. CASE ~Issued(s) /\ ~Issued(t)
      BY <1>1, <2>2 DEF NewIsOfItsUser
    <2>3. CASE Issued(s) /\ ~Issued(t)
      BY <1>1, <2>3 DEF RowsKept, NewIsOfItsUser, ReuseInv, FamilyIsOfOneUser
    <2>4. CASE ~Issued(s) /\ Issued(t)
      BY <1>1, <2>4 DEF RowsKept, NewIsOfItsUser, ReuseInv, FamilyIsOfOneUser
    <2>5. QED
      BY <2>1, <2>2, <2>3, <2>4
  <1>7. NoFalseRevocation'
    <2> SUFFICES ASSUME NEW t \in Tokens, Issued(t)', ~row'[t].valid
                 PROVE  \/ \E r \in Requests : token'[r] = t /\ at'[r] = "loggedOut"
                        \/ \E s \in Tokens : OfUser(s, row[t].user)' /\ PresentedTwice(s)'
      BY DEF NoFalseRevocation, OfUser
    <2>1. ASSUME Issued(t), NEW s \in Tokens, OfUser(s, row[t].user), PresentedTwice(s)
          PROVE  OfUser(s, row[t].user)' /\ PresentedTwice(s)'
      <3>1. PresentedTwice(s)'
        BY <1>1, <2>1, TwiceIsForEver DEF ReuseInv
      <3>2. QED
        BY <1>1, <2>1, <3>1 DEF OfUser, RowsKept
    <2>2. CASE Issued(t) /\ ~row[t].valid
      <3>1. \/ \E r \in Requests : token[r] = t /\ at[r] = "loggedOut"
            \/ \E s \in Tokens : OfUser(s, row[t].user) /\ PresentedTwice(s)
        BY <2>2 DEF ReuseInv, NoFalseRevocation
      <3>2. \A r \in Requests :
              token[r] = t /\ at[r] = "loggedOut" => token'[r] = t /\ at'[r] = "loggedOut"
        BY <1>1 DEF HandlerMoves
      <3>3. QED
        BY <2>1, <2>2, <3>1, <3>2
    <2>3. ASSUME Issued(t), NEW r \in Requests,
                 \/ at[r] = "revokeFamily" /\ row[t].family = row[token[r]].family
                 \/ at[r] = "revokeAll" /\ row[t].user = row[token[r]].user
          PROVE  \E s \in Tokens : OfUser(s, row[t].user)' /\ PresentedTwice(s)'
      <3>1. token[r] \in Tokens /\ Issued(token[r]) /\ PresentedTwice(token[r])
        BY <1>2, <2>3 DEF ReuseInv, RevokerIsSecond
      <3>2. OfUser(token[r], row[t].user)
        BY <2>3, <3>1 DEF ReuseInv, FamilyIsOfOneUser, OfUser
      <3>3. PICK s \in Tokens : s = token[r]
        BY <3>1
      <3>4. QED
        BY <2>1, <2>3, <3>1, <3>2, <3>3
    <2>4. QED
      BY <1>1, <2>2, <2>3 DEF RevokedForAReason
  <1>8. FlaggedFirst'
    <2> SUFFICES ASSUME NEW r \in Requests, at'[r] \in {"revokeAll", "reused"}
                 PROVE  row'[token'[r]].user \in flagged'
      BY DEF FlaggedFirst
    <2>1. at[r] # "idle" /\ row[token[r]].user \in flagged'
      BY <1>1 DEF HandlerMoves, ReuseInv, FlaggedFirst
    <2>2. QED
      BY <1>1, <1>2, <2>1 DEF HandlerMoves, RowsKept
  <1>9. ReusedMeansRevoked'
    <2> SUFFICES ASSUME NEW r \in Requests, at'[r] = "reused"
                 PROVE  row'[token'[r]].user \in flagged' /\ ~row'[token'[r]].valid
      BY DEF ReusedMeansRevoked
    <2>1. at[r] = "reused" \/ (at[r] = "revokeAll" /\ ~row'[token[r]].valid)
      BY <1>1 DEF HandlerMoves
    <2>2. token'[r] = token[r] /\ token[r] \in Tokens /\ Issued(token[r])
      BY <1>1, <1>2, <2>1 DEF HandlerMoves
    <2>3. ~row'[token[r]].valid
      BY <2>1, <2>2, MonoStep DEF Mono, ReuseInv, ReusedMeansRevoked
    <2>4. QED
      BY <1>8, <2>2, <2>3 DEF FlaggedFirst
  <1>10. QED
    BY <1>3, <1>4, <1>5, <1>6, <1>7, <1>8, <1>9 DEF ReuseInv

LEMMA ReuseInvHolds == Spec => []ReuseInv
  <1>1. Init => ReuseInv
    BY DEF Init, ReuseInv, TokenIsPresented, UsedIsExchanged, RevokerIsSecond,
           FamilyIsOfOneUser, NoFalseRevocation, FlaggedFirst, ReusedMeansRevoked, Issued
  <1>2. QED
    BY <1>1, TypedInit, TypedStep, ReuseStep, PTL DEF Spec

\* Nobody is logged out by the doings of others: a row that is revoked was
\* logged out, or its user presented some token twice.
THEOREM NobodyIsRevokedForNothing == Spec => []NoFalseRevocation
  <1>1. ReuseInv => NoFalseRevocation
    BY DEF ReuseInv
  <1>2. QED
    BY <1>1, ReuseInvHolds, PTL

\* When TOKEN_REUSED is answered the user is flagged and the token revoked,
\* whatever exchanges, logouts and failures ran between the handler's calls.
THEOREM ReuseAnswerIsTrue == Spec => []ReusedMeansRevoked
  <1>1. ReuseInv => ReusedMeansRevoked
    BY DEF ReuseInv
  <1>2. QED
    BY <1>1, ReuseInvHolds, PTL

-----------------------------------------------------------------------------
(* Refinement of TokenChain.                                               *)

\* Under the invariant the head of a family is its unused row.
LEMMA HeadIsUnused ==
  ASSUME ChainInv, NEW f \in Families
  PROVE  /\ \A t \in Unused(f) : headBar[f] = t /\ Unused(f) = {t}
         /\ Unused(f) = {} => headBar[f] = NoToken
         /\ headBar[f] \in Tokens => headBar[f] \in Unused(f)
  <1>1. \A s, t \in Unused(f) : s = t
    BY DEF ChainInv, OneUnusedPerFamily, Unused, OfFamily
  <1>2. headBar[f] = TheTokenOf(Unused(f))
    BY DEF headBar
  <1>3. Unused(f) # {} => TheTokenOf(Unused(f)) \in Unused(f)
    BY DEF TheTokenOf
  <1>4. Unused(f) = {} => TheTokenOf(Unused(f)) = NoToken
    BY DEF TheTokenOf
  <1>5. QED
    BY <1>1, <1>2, <1>3, <1>4, NoTokenAssumption

LEMMA QuietKeepsBars ==
  ASSUME ChainInv, Quiet
  PROVE  UNCHANGED <<stageBar, headBar, spentBar>>
  <1> USE DEF Quiet, SameChain, ChainInv
  <1>1. \A f \in Families : /\ Unused(f)' = Unused(f)
                            /\ (\E t \in Tokens : OfFamily(t, f))' <=> (\E t \in Tokens : OfFamily(t, f))
    BY DEF Unused, OfFamily
  <1>2. \A f \in Families : Exchanging(f)' <=> Exchanging(f)
    BY DEF Exchanging, PresentedIsIssued
  <1>3. spentBar' = spentBar
    BY DEF spentBar
  <1>4. stageBar' = stageBar
    BY <1>1, <1>2 DEF stageBar
  <1>5. headBar' = headBar
    BY <1>1 DEF headBar
  <1>6. QED
    BY <1>3, <1>4, <1>5

\* A login opens its family's chain.
LEMMA LoginOpens ==
  ASSUME ChainInv, ChainInv', NEW u \in Users, NEW f \in Families, NEW t \in Tokens,
         Login(u, f, t)
  PROVE  Chain!Open(f, t)
  <1> USE DEF ChainInv
  <1>1. /\ ~Issued(t) /\ \A s \in Tokens : ~OfFamily(s, f)
        /\ at' = at /\ token' = token
        /\ row'[t] = NewRow(u, f, NoToken) /\ row'[t] # NoRow
        /\ row'[t].family = f /\ row'[t].used = FALSE
        /\ \A s \in Tokens : s # t => row'[s] = row[s]
    <2>1. NewRow(u, f, NoToken) \in Row
      BY NewRowType
    <2>2. NewRow(u, f, NoToken).family = f /\ NewRow(u, f, NoToken).used = FALSE
      BY DEF NewRow
    <2>3. QED
      BY <2>1, <2>2, NoRowAssumption DEF Login, TypeOK
  <1>2. Unused(f) = {} /\ Unused(f)' = {t}
    BY <1>1 DEF Unused, OfFamily, Issued
  <1>3. \A g \in Families : g # f => Unused(g)' = Unused(g)
    BY <1>1 DEF Unused, OfFamily, Issued
  <1>4. \A g \in Families : Exchanging(g)' <=> Exchanging(g)
    BY <1>1 DEF Exchanging, PresentedIsIssued
  <1>5. ~Exchanging(f)
    BY <1>1 DEF Exchanging, PresentedIsIssued, OfFamily
  <1>6. \A g \in Families : g # f =>
          ((\E s \in Tokens : OfFamily(s, g))' <=> (\E s \in Tokens : OfFamily(s, g)))
    BY <1>1 DEF OfFamily, Issued
  <1>7. Chain!Fresh(t)
    BY <1>1, HeadIsUnused DEF Chain!Fresh, spentBar, Unused, OfFamily
  <1>8. stageBar[f] = "unopened"
    BY <1>1, <1>2, <1>5 DEF stageBar
  <1>9. stageBar' = [stageBar EXCEPT ![f] = "live"]
    BY <1>2, <1>3, <1>4, <1>6 DEF stageBar
  <1>10. headBar' = [headBar EXCEPT ![f] = t]
    <2>1. headBar'[f] = t
      BY <1>2 DEF headBar, TheTokenOf
    <2>2. QED
      BY <1>3, <2>1 DEF headBar
  <1>11. spentBar' = spentBar
    BY <1>1 DEF spentBar, Issued
  <1>12. QED
    BY <1>7, <1>8, <1>9, <1>10, <1>11 DEF Chain!Open

\* The UPDATE that wins spends the head of the family.
LEMMA MarkSpends ==
  ASSUME ChainInv, ChainInv', NEW r \in Requests, MarkAsUsed(r),
         NEW t \in Tokens, NEW f \in Families,
         token[r] = t, row[t].family = f, ~row[t].used
  PROVE  Chain!Spend(f)
  <1> USE DEF ChainInv
  <1>1. Issued(t) /\ row[t] \in Row /\ at[r] = "markUsed"
    BY DEF MarkAsUsed, AlreadyUsed, SetUsed, TypeOK, PresentedIsIssued, Issued
  <1>2. /\ row'[t] = [row[t] EXCEPT !.used = TRUE]
        /\ \A s \in Tokens : s # t => row'[s] = row[s]
        /\ token' = token /\ at'[r] = "create" /\ \A q \in Requests : q # r => at'[q] = at[q]
    BY <1>1 DEF MarkAsUsed, AlreadyUsed, SetUsed, TypeOK, Goto
  <1>3. row'[t] \in Row /\ row'[t].family = f /\ row'[t].used = TRUE /\ row'[t] # NoRow
    BY <1>1, <1>2, NoRowAssumption DEF Row
  <1>4. \A s \in Tokens : /\ Issued(s)' <=> Issued(s)
                          /\ Issued(s) => row'[s].family = row[s].family
    BY <1>1, <1>2, <1>3 DEF Issued
  <1>5. Unused(f) = {t} /\ headBar[f] = t
    <2>1. t \in Unused(f)
      BY <1>1 DEF Unused, OfFamily
    <2>2. QED
      BY <1>1, <2>1, HeadIsUnused
  <1>6. Unused(f)' = {}
    BY <1>2, <1>3, <1>4, <1>5 DEF Unused, OfFamily
  <1>7. \A g \in Families : g # f => Unused(g)' = Unused(g)
    BY <1>2, <1>3, <1>4 DEF Unused, OfFamily
  <1>8. Exchanging(f)'
    BY <1>2, <1>3 DEF Exchanging
  <1>9. \A g \in Families : g # f => (Exchanging(g)' <=> Exchanging(g))
    BY <1>1, <1>2, <1>4 DEF Exchanging, PresentedIsIssued
  <1>10. \A g \in Families :
           (\E s \in Tokens : OfFamily(s, g))' <=> (\E s \in Tokens : OfFamily(s, g))
    BY <1>4 DEF OfFamily
  <1>11. stageBar[f] = "live" /\ stageBar' = [stageBar EXCEPT ![f] = "exchanging"]
    BY <1>1, <1>5, <1>6, <1>7, <1>8, <1>9, <1>10 DEF stageBar
  <1>12. headBar' = [headBar EXCEPT ![f] = NoToken]
    <2>1. headBar'[f] = NoToken
      BY <1>1, <1>6 DEF headBar, TheTokenOf
    <2>2. QED
      BY <1>7, <2>1 DEF headBar
  <1>13. spentBar' = spentBar \cup {headBar[f]}
    BY <1>1, <1>2, <1>3, <1>4, <1>5 DEF spentBar
  <1>14. QED
    BY <1>1, <1>11, <1>12, <1>13 DEF Chain!Spend

\* The INSERT puts a fresh head on the chain its exchange spent.
LEMMA CreateExtends ==
  ASSUME ChainInv, ChainInv', NEW r \in Requests, NEW t \in Tokens, Create(r, t),
         NEW p \in Tokens, NEW f \in Families, token[r] = p, row[p].family = f
  PROVE  Chain!Extend(f, t)
  <1> USE DEF ChainInv
  <1>1. Issued(p) /\ row[p] \in Row /\ at[r] = "create"
    BY DEF Create, TypeOK, PresentedIsIssued, Issued
  <1>2. /\ ~Issued(t)
        /\ row'[t] = NewRow(row[p].user, f, p)
        /\ \A s \in Tokens : s # t => row'[s] = row[s]
        /\ token' = token /\ at'[r] = "rotated" /\ \A q \in Requests : q # r => at'[q] = at[q]
    BY <1>1 DEF Create, TypeOK, Goto
  <1>3. row'[t].family = f /\ row'[t].used = FALSE /\ row'[t] # NoRow
    <2>1. row[p].user \in Users
      BY <1>1 DEF Row
    <2>2. row'[t] \in Row
      BY <1>2, <2>1, NewRowType
    <2>3. row'[t].family = f /\ row'[t].used = FALSE
      BY <1>2 DEF NewRow
    <2>4. QED
      BY <2>2, <2>3, NoRowAssumption
  <1>4. /\ \A s \in Tokens : OfFamily(s, f) => row[s].used
        /\ \A q \in Requests : at[q] = "create" /\ q # r => row[token[q]].family # f
    BY <1>1 DEF ExchangeIsExclusive
  <1>5. Unused(f) = {} /\ Unused(f)' = {t}
    BY <1>2, <1>3, <1>4 DEF Unused, OfFamily, Issued
  <1>6. \A g \in Families : g # f => Unused(g)' = Unused(g)
    BY <1>2, <1>3 DEF Unused, OfFamily, Issued
  <1>7. Exchanging(f)
    BY <1>1 DEF Exchanging
  <1>8. \A g \in Families : g # f => (Exchanging(g)' <=> Exchanging(g))
    BY <1>1, <1>2 DEF Exchanging, PresentedIsIssued
  <1>9. \A g \in Families : g # f =>
          ((\E s \in Tokens : OfFamily(s, g))' <=> (\E s \in Tokens : OfFamily(s, g)))
    BY <1>2, <1>3 DEF OfFamily, Issued
  <1>10. stageBar[f] = "exchanging" /\ stageBar' = [stageBar EXCEPT ![f] = "live"]
    BY <1>1, <1>5, <1>6, <1>7, <1>8, <1>9 DEF stageBar
  <1>11. headBar' = [headBar EXCEPT ![f] = t]
    <2>1. headBar'[f] = t
      BY <1>1, <1>5 DEF headBar, TheTokenOf
    <2>2. QED
      BY <1>6, <2>1 DEF headBar
  <1>12. spentBar' = spentBar
    BY <1>2, <1>3 DEF spentBar, Issued
  <1>13. Chain!Fresh(t)
    BY <1>2, HeadIsUnused DEF Chain!Fresh, spentBar, Unused, OfFamily
  <1>14. QED
    BY <1>1, <1>10, <1>11, <1>12, <1>13 DEF Chain!Extend

\* A handler lost between UPDATE and INSERT ends its family's chain.
LEMMA FailAbandons ==
  ASSUME ChainInv, NEW r \in Requests, Fail(r), at[r] = "create",
         NEW f \in Families, row[token[r]].family = f
  PROVE  Chain!Abandon(f)
  <1> USE DEF ChainInv
  <1>1. token[r] \in Tokens /\ Issued(token[r])
    BY DEF TypeOK, PresentedIsIssued, Issued
  <1>2. /\ row' = row /\ token' = token
        /\ at'[r] = "error" /\ \A q \in Requests : q # r => at'[q] = at[q]
    BY DEF Fail, TypeOK, Goto
  <1>3. /\ \A s \in Tokens : OfFamily(s, f) => row[s].used
        /\ \A q \in Requests : at[q] = "create" /\ q # r => row[token[q]].family # f
    BY <1>1 DEF ExchangeIsExclusive
  <1>4. Unused(f) = {} /\ \A g \in Families : Unused(g)' = Unused(g)
    BY <1>2, <1>3 DEF Unused, OfFamily, Issued
  <1>5. Exchanging(f) /\ ~Exchanging(f)'
    BY <1>2, <1>3 DEF Exchanging
  <1>6. \A g \in Families : g # f => (Exchanging(g)' <=> Exchanging(g))
    BY <1>2 DEF Exchanging
  <1>7. \A g \in Families :
          (\E s \in Tokens : OfFamily(s, g))' <=> (\E s \in Tokens : OfFamily(s, g))
    BY <1>2 DEF OfFamily, Issued
  <1>8. \E s \in Tokens : OfFamily(s, f)
    BY <1>1 DEF OfFamily
  <1>9. stageBar[f] = "exchanging" /\ stageBar' = [stageBar EXCEPT ![f] = "over"]
    BY <1>1, <1>4, <1>5, <1>6, <1>7, <1>8 DEF stageBar
  <1>10. headBar' = headBar /\ spentBar' = spentBar
    BY <1>2, <1>4 DEF headBar, spentBar, Issued
  <1>11. QED
    BY <1>1, <1>9, <1>10 DEF Chain!Abandon

\* The refresh_tokens table, whatever the handlers' interleaving, implements
\* one non-forking chain of single-use tokens per login.
THEOREM TableImplementsChain == Spec => ImplementsChain
  <1>1. Init => Chain!Init
    <2> SUFFICES ASSUME Init PROVE Chain!Init
      OBVIOUS
    <2>1. \A f \in Families : Unused(f) = {} /\ ~Exchanging(f) /\ \A t \in Tokens : ~OfFamily(t, f)
      BY DEF Init, Unused, Exchanging, OfFamily, Issued
    <2>2. QED
      BY <2>1 DEF Chain!Init, stageBar, headBar, spentBar, TheTokenOf, Init, Issued
  <1>2. ChainInv /\ ChainInv' /\ [Next]_vars => [Chain!Next]_(Chain!vars)
    <2> SUFFICES ASSUME ChainInv, ChainInv', [Next]_vars
                 PROVE  Chain!Next \/ UNCHANGED Chain!vars
      OBVIOUS
    <2>1. Quiet => UNCHANGED Chain!vars
      BY QuietKeepsBars DEF Chain!vars
    <2>2. \A r \in Requests :
            at[r] # "idle" => token[r] \in Tokens /\ row[token[r]].family \in Families
      <3>1. \A r \in Requests : at[r] # "idle" => token[r] \in Tokens /\ row[token[r]] \in Row
        BY DEF ChainInv, TypeOK, PresentedIsIssued, Issued
      <3>2. QED
        BY <3>1 DEF Row
    <2>3. ASSUME NEW u \in Users, NEW f \in Families, NEW t \in Tokens, Login(u, f, t)
          PROVE  Chain!Next
      BY <2>3, LoginOpens DEF Chain!Next
    <2>4. ASSUME NEW r \in Requests, NEW t \in Tokens, Create(r, t)
          PROVE  Chain!Next
      <3>1. token[r] \in Tokens /\ row[token[r]].family \in Families
        BY <2>4, <2>2 DEF Create
      <3>2. Chain!Extend(row[token[r]].family, t)
        BY <2>4, <3>1, CreateExtends
      <3>3. QED
        BY <3>1, <3>2 DEF Chain!Next
    <2>5. ASSUME NEW r \in Requests, MarkAsUsed(r), ~row[token[r]].used
          PROVE  Chain!Next
      BY <2>5, <2>2, MarkSpends DEF Chain!Next, MarkAsUsed
    <2>6. ASSUME NEW r \in Requests, Fail(r), at[r] = "create"
          PROVE  Chain!Next
      BY <2>6, <2>2, FailAbandons DEF Chain!Next
    <2>7. ASSUME NEW r \in Requests,
                 \/ \E t \in Tokens : Present(r, t) \/ Logout(r, t)
                 \/ Find(r) \/ RevokeFamily(r) \/ FlagUser(r) \/ RevokeAllForUser(r)
                 \/ MarkAsUsed(r) /\ row[token[r]].used
                 \/ Fail(r) /\ at[r] # "create"
          PROVE  Quiet
      BY <2>7, QuietSteps DEF TypedInv, ChainInv
    <2>8. ASSUME (\E t \in Tokens : Expire(t)) \/ UNCHANGED vars
          PROVE  Quiet
      BY <2>8, QuietTime DEF TypedInv, ChainInv
    <2>9. QED
      BY <2>1, <2>3, <2>4, <2>5, <2>6, <2>7, <2>8 DEF Next, Step
  <1>3. QED
    BY <1>1, <1>2, ChainInvariant, PTL DEF Spec, ImplementsChain, Chain!Spec
=============================================================================
