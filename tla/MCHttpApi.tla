------------------------------ MODULE MCHttpApi ------------------------------
(* HttpApi for TLC: two copies of a request, each sent twice. *)
EXTENDS HttpApi

CONSTANTS c1, c2

\* The address lets two requests through, the phone, the session and the user one.
MCQuota == [k \in Keys |-> IF k \in {"otp ip", "sync ip"} THEN 2 ELSE 1]
=============================================================================
