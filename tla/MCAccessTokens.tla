--------------------------- MODULE MCAccessTokens ---------------------------
(* A small instance of AccessTokens for TLC: three ticks make a second. *)
EXTENDS AccessTokens, FiniteSets

CONSTANT MaxIssued   \* bound on the tokens signed

\* TLC explores states with at most MaxIssued tokens.
FewTokens == Cardinality(issued) <= MaxIssued
=============================================================================
