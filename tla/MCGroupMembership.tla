------------------------- MODULE MCGroupMembership -------------------------
(* Small instances of GroupMembership for TLC. *)
EXTENDS GroupMembership, TLC

\* Users, groups and requests are interchangeable.
Symmetric == Permutations(Users) \cup Permutations(Groups) \cup Permutations(Requests)
=============================================================================
