-------------------------- MODULE MCIdempotency ---------------------------
(* Small instances of Idempotency for TLC. *)
EXTENDS Idempotency, TLC

\* Handlers are interchangeable.
Symmetric == Permutations(Requests)
=============================================================================
