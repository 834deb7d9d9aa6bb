---------------------------- MODULE OneTimeCode ----------------------------
(***************************************************************************)
(* What a one-time code promises, without keys, TTLs and clocks.           *)
(*                                                                         *)
(* A code is issued once and is open.  Each wrong guess is counted, and    *)
(* the last one that is allowed locks the code; the right guess uses it.   *)
(* A code that is locked or used is so until it ends, and a code that has  *)
(* ended, for whatever reason, is never issued again.  Codes end together  *)
(* when time runs out for several of them.                                 *)
(***************************************************************************)
EXTENDS Integers

CONSTANTS
  Codes,
  MaxGuesses   \* wrong guesses that lock a code

VARIABLES
  stage,       \* code -> "unissued", "open", "locked", "used" or "ended"
  guesses,     \* code -> wrong guesses
  entries      \* code -> right guesses

vars == <<stage, guesses, entries>>

Init ==
  /\ stage = [c \in Codes |-> "unissued"]
  /\ guesses = [c \in Codes |-> 0]
  /\ entries = [c \in Codes |-> 0]

Issue(c) ==
  /\ stage[c] = "unissued"
  /\ stage' = [stage EXCEPT ![c] = "open"]
  /\ UNCHANGED <<guesses, entries>>

Miss(c) ==
  /\ guesses' = [guesses EXCEPT ![c] = @ + 1]
  /\ stage[c] = "open"
  /\ stage' = [stage EXCEPT ![c] = IF guesses[c] + 1 = MaxGuesses THEN "locked" ELSE "open"]
  /\ UNCHANGED entries

Enter(c) ==
  /\ stage[c] = "open"
  /\ stage' = [stage EXCEPT ![c] = "used"]
  /\ entries' = [entries EXCEPT ![c] = @ + 1]
  /\ UNCHANGED guesses

End(D) ==
  /\ UNCHANGED <<guesses, entries>>
  /\ \A c \in D : stage[c] # "unissued"
  /\ stage' = [c \in Codes |-> IF c \in D THEN "ended" ELSE stage[c]]

Next ==
  \/ \E D \in SUBSET Codes : End(D)
  \/ \E c \in Codes : Issue(c) \/ Miss(c) \/ Enter(c)

Spec == Init /\ [][Next]_vars
=============================================================================
