---------------------------- MODULE InvitesInbox ----------------------------
(***************************************************************************)
(* The inbox of group invitations on one user's phone (the hook            *)
(* useGroupInvitesInbox and its screen) and the three requests behind it:  *)
(* listPendingInvitesForUser, acceptGroupInvite and declineGroupInvite.    *)
(*                                                                         *)
(* Nothing numbers or cancels a request: a list that was read before an    *)
(* accept may arrive after it.  actionGroupId names one group only, so the *)
(* buttons of a row work again once another row is tapped, and a second    *)
(* event may come before the render of the first ("drawn" is what the last *)
(* render put on the screen).                                              *)
(*                                                                         *)
(* A request that fails while its handler runs takes the handler with it.  *)
(* Left out: the order of the list, the error banner (it disables          *)
(* nothing), and the roster that accept returns (the screen ignores it).   *)
(***************************************************************************)
EXTENDS Naturals

CONSTANTS
  Groups,
  MaxInFlight,  \* bound on the requests in flight at once
  NoGroup

ASSUME InboxAssumption ==
  /\ MaxInFlight \in Nat \ {0}
  /\ NoGroup \notin Groups

VARIABLES
  member,       \* group -> the user's row of group_members: its status, or none
  inbox,        \* the hook's state: [invites, loading, refreshing, busy]
  drawn,        \* what the last render showed of it: [invites, busy]
  trip,         \* request -> [kind, group, at, list, missed]
  behind        \* history: the groups whose row changed since the read which
                \* decided whether they are in the list

inboxVars == <<member, inbox, drawn, trip, behind>>

Trips == 1..MaxInFlight
Refreshes == {"full", "silent"}
Taps == {"accept", "decline"}

InboxTypeOK ==
  /\ member \in [Groups -> {"none", "pending", "active"}]
  /\ inbox \in [invites : SUBSET Groups, loading : BOOLEAN, refreshing : BOOLEAN,
                busy : Groups \cup {NoGroup}]
  /\ drawn \in [invites : SUBSET Groups, busy : Groups \cup {NoGroup}]
  /\ trip \in [Trips -> [kind : {"none"} \cup Refreshes \cup Taps,
                         group : Groups \cup {NoGroup},
                         at : {"sent", "found", "ok", "failed"},
                         list : SUBSET Groups, missed : SUBSET Groups]]
  /\ behind \subseteq Groups

-----------------------------------------------------------------------------
(* The server. *)

Pending == {g \in Groups : member[g] = "pending"}

\* An answer that was read from the row of g and has not arrived.
Rests(j, g) ==
  /\ trip[j].at = "ok"
  /\ trip[j].kind \in Refreshes \/ trip[j].group = g

\* The row of g becomes s: answers read before, and the list, miss it.
Becomes(g, s, answered) ==
  /\ member' = [member EXCEPT ![g] = s]
  /\ behind' = behind \cup {g}
  /\ trip' = [j \in Trips |->
                CASE j \in answered     -> [trip[j] EXCEPT !.at = "ok", !.missed = {}]
                  [] j \notin answered /\ Rests(j, g)
                                        -> [trip[j] EXCEPT !.missed = @ \cup {g}]
                  [] OTHER              -> trip[j]]

\* An invitation by an admin; a removal, or the user leaves.
Invited(g) ==
  /\ member[g] = "none"
  /\ Becomes(g, "pending", {})

Removed(g) ==
  /\ member[g] # "none"
  /\ Becomes(g, "none", {})

ByOthers(g) ==
  /\ Invited(g) \/ Removed(g)
  /\ UNCHANGED <<inbox, drawn>>

Answer(k, at, list) ==
  /\ trip' = [trip EXCEPT ![k].at = at, ![k].list = list, ![k].missed = {}]
  /\ UNCHANGED <<member, inbox, drawn, behind>>

\* listPendingInvitesForUser reads the rows.
ServeList(k) ==
  /\ trip[k].kind \in Refreshes
  /\ trip[k].at = "sent"
  /\ Answer(k, "ok", Pending)

\* findMembership of both handlers: no row is refused; of an active one,
\* accept returns the roster and decline refuses.
Found(kind, status) ==
  CASE status = "none"    -> "failed"
    [] status = "pending" -> "found"
    [] status = "active"  -> IF kind = "accept" THEN "ok" ELSE "failed"

Find(k) ==
  /\ trip[k].kind \in Taps
  /\ trip[k].at = "sent"
  /\ Answer(k, Found(trip[k].kind, member[trip[k].group]), {})

\* activateMembership and deleteByComposite do not look at the status again.
After(kind) == IF kind = "accept" THEN "active" ELSE "none"

Decide(k) ==
  /\ trip[k].kind \in Taps
  /\ trip[k].at = "found"
  /\ IF member[trip[k].group] = "none" THEN Answer(k, "failed", {})
     ELSE /\ Becomes(trip[k].group, After(trip[k].kind), {k})
          /\ UNCHANGED <<inbox, drawn>>

-----------------------------------------------------------------------------
(* The hook. *)

Trip(kind, g) == [kind |-> kind, group |-> g, at |-> "sent", list |-> {}, missed |-> {}]
NoTrip == Trip("none", NoGroup)
Idle(k) == trip[k] = NoTrip /\ \A j \in Trips : j < k => trip[j] # NoTrip

Start(k, kind, g, state) ==
  /\ Idle(k)
  /\ trip' = [trip EXCEPT ![k] = Trip(kind, g)]
  /\ inbox' = state
  /\ UNCHANGED <<member, drawn, behind>>

\* refresh("full") by the effect (reloadToken, configuration), and
\* onPullRefresh, which the banner's Retry calls too.
Reload(k) == Start(k, "full", NoGroup, [inbox EXCEPT !.loading = TRUE])
PullRefresh(k) == Start(k, "silent", NoGroup, [inbox EXCEPT !.refreshing = TRUE])

\* A button of a row on the screen, unless it is the busy row.
Tap(k, kind, g) ==
  /\ g \in drawn.invites
  /\ drawn.busy # g
  /\ Start(k, kind, g, [inbox EXCEPT !.busy = g])

\* The finally blocks: any refresh ends "refreshing", any tap "busy".
Calmed_onSuccess(state, kind, ok) ==
  CASE kind = "full"   -> [state EXCEPT !.loading = FALSE, !.refreshing = FALSE]
    [] kind = "silent" -> [state EXCEPT !.refreshing = FALSE]
    [] kind \in Taps   -> IF ok THEN [state EXCEPT !.busy = NoGroup] ELSE state

Calmed(state, kind, ok) ==
  CASE kind = "full"   -> [state EXCEPT !.loading = FALSE, !.refreshing = FALSE]
    [] kind = "silent" -> [state EXCEPT !.refreshing = FALSE]
    [] kind \in Taps   -> [state EXCEPT !.busy = NoGroup]

\* What an answer makes of the list: a list replaces it, a tap takes its row out.
Listing_append(invites, t) ==
  IF t.kind \in Refreshes THEN invites \cup t.list ELSE invites \ {t.group}

Listing(invites, t) ==
  IF t.kind \in Refreshes THEN t.list ELSE invites \ {t.group}

Arrive(k) ==
  /\ trip[k].kind # "none"
  /\ trip[k].at = "ok"
  /\ inbox' = Calmed([inbox EXCEPT !.invites = Listing(@, trip[k])], trip[k].kind, TRUE)
  /\ behind' = IF trip[k].kind \in Refreshes THEN trip[k].missed
               ELSE IF trip[k].group \in trip[k].missed THEN behind \cup {trip[k].group}
               ELSE behind \ {trip[k].group}
  /\ trip' = [trip EXCEPT ![k] = NoTrip]
  /\ UNCHANGED <<member, drawn>>

\* A refusal; or the request, the handler or the answer is lost.
Rejected(k) ==
  /\ trip[k].kind # "none"
  /\ inbox' = Calmed(inbox, trip[k].kind, FALSE)
  /\ trip' = [trip EXCEPT ![k] = NoTrip]
  /\ UNCHANGED <<member, drawn, behind>>

OnScreen(state) == [invites |-> state.invites, busy |-> state.busy]

Draw ==
  /\ drawn # OnScreen(inbox)
  /\ drawn' = OnScreen(inbox)
  /\ UNCHANGED <<member, inbox, trip, behind>>

-----------------------------------------------------------------------------
\* The hook is mounted and its effect has run.
InboxInit ==
  /\ member \in [Groups -> {"none", "pending", "active"}]
  /\ inbox = [invites |-> {}, loading |-> TRUE, refreshing |-> FALSE, busy |-> NoGroup]
  /\ drawn = OnScreen(inbox)
  /\ trip = [k \in Trips |-> IF k = 1 THEN Trip("full", NoGroup) ELSE NoTrip]
  /\ behind = Groups

InboxNext ==
  \/ Draw
  \/ \E g \in Groups : ByOthers(g)
  \/ \E k \in Trips :
       \/ ServeList(k) \/ Find(k) \/ Decide(k)
       \/ Reload(k) \/ PullRefresh(k)
       \/ Arrive(k) \/ Rejected(k)
  \/ \E k \in Trips, kind \in Taps, g \in Groups : Tap(k, kind, g)

InboxSpec == InboxInit /\ [][InboxNext]_inboxVars

-----------------------------------------------------------------------------
(***************************************************************************)
(* Properties.                                                             *)
(***************************************************************************)

(***************************************************************************)
(* The badge and the rows are right up to what happened since they were    *)
(* read: whatever overlaps, is refused or gets lost, an invitation is in   *)
(* the list exactly if it is pending, unless its row of group_members has  *)
(* changed after the read (of a refresh or of the tap on it) that put it   *)
(* there or took it out.                                                   *)
(***************************************************************************)
InboxIsRight ==
  \A g \in Groups \ behind : g \in inbox.invites <=> member[g] = "pending"

(***************************************************************************)
(* The indicators end: the screen says it loads or refreshes, and a row's  *)
(* buttons are off, only while a request of that kind, for that row, is    *)
(* under way that will switch them back.                                   *)
(***************************************************************************)
IndicatorsEnd ==
  /\ inbox.loading => \E k \in Trips : trip[k].kind = "full"
  /\ inbox.refreshing => \E k \in Trips : trip[k].kind = "silent"
  /\ inbox.busy # NoGroup =>
       \E k \in Trips : trip[k].kind \in Taps /\ trip[k].group = inbox.busy
=============================================================================
