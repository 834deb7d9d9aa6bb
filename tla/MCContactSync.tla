---------------------------- MODULE MCContactSync ----------------------------
(* ContactSync for TLC: uploads that overlap, in both orders, and none. *)
EXTENDS ContactSync

CONSTANTS p1, p2

MCUploads == {<<>>, <<p1, p2>>, <<p2, p1>>, <<p2>>}
=============================================================================
