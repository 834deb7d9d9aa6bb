--------------------------- MODULE MCOtpSession ---------------------------
(* Small instances of OtpSession for TLC. *)
EXTENDS OtpSession, TLC

\* Sessions and requests are interchangeable.
Symmetric == Permutations(Sessions) \cup Permutations(Requests)
=============================================================================
