-------------------------- MODULE MCRefreshTokens --------------------------
(* A small instance of RefreshTokens for TLC. *)
EXTENDS RefreshTokens, Naturals

(***************************************************************************)
(* Tokens, families and requests are interchangeable, and TLC's symmetry   *)
(* is not sound for a liveness property: their numbers are taken in order  *)
(* instead, which leaves out only renamings of what is left in.            *)
(***************************************************************************)
Opened(f) == \E t \in Tokens : OfFamily(t, f)

InOrder ==
  /\ \A t \in Tokens \ {1} : Issued(t) => Issued(t - 1)
  /\ \A f \in Families \ {1} : Opened(f) => Opened(f - 1)
  /\ \A r \in Requests \ {1} : at[r] # "idle" => at[r - 1] # "idle"
=============================================================================
