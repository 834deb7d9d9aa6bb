----------------------------- MODULE TokenChain -----------------------------
(***************************************************************************)
(* What refresh-token rotation promises, without saying how.               *)
(*                                                                         *)
(* A login opens a family with one token, its head.  Refreshing spends the *)
(* head, and the exchange that spent it, and no other, may put one new     *)
(* token at the head.  A token is the head of a family at most once, and a *)
(* family never has two heads: the sessions of a login form a chain, never *)
(* a tree.  An exchange may also never finish, which ends the chain.       *)
(*                                                                         *)
(* Revocation is not part of this promise: a revoked head is still the     *)
(* head, it merely cannot start an exchange any more.                      *)
(***************************************************************************)
CONSTANTS
  Tokens,      \* identifiers (jti) of refresh tokens
  Families,    \* identifiers of families, one per login
  NoToken      \* not a token

VARIABLES
  stage,       \* family -> "unopened", "live", "exchanging" or "over"
  head,        \* family -> the token at its head, or NoToken
  spent        \* the tokens that have been exchanged

vars == <<stage, head, spent>>

Stages == {"unopened", "live", "exchanging", "over"}

Fresh(t) == t \notin spent /\ \A f \in Families : head[f] # t

Init ==
  /\ stage = [f \in Families |-> "unopened"]
  /\ head  = [f \in Families |-> NoToken]
  /\ spent = {}

Open(f, t) ==
  /\ stage[f] = "unopened"
  /\ Fresh(t)
  /\ stage' = [stage EXCEPT ![f] = "live"]
  /\ head'  = [head EXCEPT ![f] = t]
  /\ UNCHANGED spent

Spend(f) ==
  /\ stage[f] = "live"
  /\ stage' = [stage EXCEPT ![f] = "exchanging"]
  /\ head'  = [head EXCEPT ![f] = NoToken]
  /\ spent' = spent \cup {head[f]}

Extend(f, t) ==
  /\ stage[f] = "exchanging"
  /\ Fresh(t)
  /\ stage' = [stage EXCEPT ![f] = "live"]
  /\ head'  = [head EXCEPT ![f] = t]
  /\ UNCHANGED spent

Abandon(f) ==
  /\ stage[f] = "exchanging"
  /\ stage' = [stage EXCEPT ![f] = "over"]
  /\ UNCHANGED <<head, spent>>

Next ==
  \E f \in Families :
    \/ \E t \in Tokens : Open(f, t) \/ Extend(f, t)
    \/ Spend(f)
    \/ Abandon(f)

Spec == Init /\ [][Next]_vars
=============================================================================
