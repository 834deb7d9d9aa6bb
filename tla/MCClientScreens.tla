-------------------------- MODULE MCClientScreens --------------------------
(***************************************************************************)
(* The two screens of the client kit.  A phone shows one of them; they     *)
(* share nothing, so a run is a run of the screen it shows.                *)
(***************************************************************************)
EXTENDS CommentThread, InvitesInbox, TLC

VARIABLE shown  \* the screen that is mounted

\* The thread in both directions, and the replies to one comment.
MCScreens == {[parent |-> NoParent, sort |-> "asc"],
              [parent |-> NoParent, sort |-> "desc"],
              [parent |-> Root, sort |-> "desc"]}

\* The screen that is not mounted waits in one state.
MCInit ==
  /\ shown \in {"thread", "inbox"}
  /\ Init
  /\ InboxInit
  /\ shown = "inbox" =>
       /\ thread = [c \in Comments |-> [state |-> IF c = Root THEN "stored" ELSE "none",
                                        at |-> 0, parent |-> NoParent]]
       /\ scope = [parent |-> NoParent, sort |-> "asc"]
  /\ shown = "thread" => member = [g \in Groups |-> "none"]

MCNext ==
  \/ shown = "thread" /\ Next /\ UNCHANGED <<inboxVars, shown>>
  \/ shown = "inbox" /\ InboxNext /\ UNCHANGED <<vars, shown>>

MCSpec == MCInit /\ [][MCNext]_<<vars, inboxVars, shown>>

Symmetric == Permutations(Groups)

TypesOK == TypeOK /\ InboxTypeOK
=============================================================================
