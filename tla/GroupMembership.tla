-------------------------- MODULE GroupMembership --------------------------
(***************************************************************************)
(* Groups, memberships and phone invites: GroupsService with its           *)
(* repositories, and the claim of phone invites at sign-in.                *)
(*                                                                         *)
(* A request is a handler that stops at every await; an action is the code *)
(* from one database answer to the effect of the next call.  Handlers      *)
(* interleave freely, any of them may end at any call (Fail: an error, a   *)
(* crash), and a request identifier serves again once its handler ended.   *)
(*                                                                         *)
(* A user stands for his phone number too: users.identifier is unique and  *)
(* normalised as invites are.  users rows are never deleted or deactivated *)
(* by this code, so the user look-ups at the head of each handler are the  *)
(* guard actor \in registered.  Pure reads (lists, previews) are left out. *)
(*                                                                         *)
(* An operator Name_slip is Name with a mistake a change could make; no    *)
(* specification uses them, they only show that a property would notice.   *)
(***************************************************************************)
EXTENDS FiniteSets, Naturals

CONSTANTS
  Users,       \* people, each with one phone number
  Groups,      \* group ids, never drawn twice
  Requests,    \* handlers that can be in flight at once
  NoUser, NoRow, NoInvite, NoGroup

ASSUME NullAssumption ==
  /\ NoUser \notin Users
  /\ NoGroup \notin Groups

Roles == {"owner", "admin", "member"}

\* joined: joinedAt is stamped, not NULL.
MemberRow ==
  [role : Roles, status : {"pending", "active"},
   joined : BOOLEAN, addedBy : Users \cup {NoUser}]

InviteRow == [by : Users, expired : BOOLEAN]

ASSUME RowAssumption == NoRow \notin MemberRow /\ NoInvite \notin InviteRow

VARIABLES
  registered,  \* users with a row in the users table
  creator,     \* group -> groups.createdByUserId, NoUser before the group exists
  alive,       \* groups whose row is there
  member,      \* group_members: group -> user -> row or NoRow
  invite,      \* group_invites: group -> phone -> row or NoInvite
  feed,        \* groups with rows in group_activity_events
  req,         \* request -> the local state of its handler
  authority    \* history: pairs <<g, u>> where u has been active owner or admin

tables == <<registered, creator, alive, member, invite, feed>>
vars == <<registered, creator, alive, member, invite, feed, req, authority>>

Ops == {"none", "login", "add", "remove", "role", "accept", "decline", "delete"}
Places == {"idle", "target", "offline", "clear", "check", "create",
           "read", "write", "emit", "list", "look"}

\* role: for "role" the role asked for, for "remove" the caller's role as it was
\* read.  todo and fresh: the invites a claim still has to look at, and those
\* that need a membership; held: all it has read.
Claimed == [group : Groups, by : Users]
Handler ==
  [op : Ops, at : Places, actor : Users \cup {NoUser}, group : Groups \cup {NoGroup},
   target : Users \cup {NoUser}, role : Roles,
   held : SUBSET Claimed, todo : SUBSET Claimed, fresh : SUBSET Claimed]

TypeOK ==
  /\ registered \in SUBSET Users
  /\ creator \in [Groups -> Users \cup {NoUser}]
  /\ alive \in SUBSET Groups
  /\ member \in [Groups -> [Users -> MemberRow \cup {NoRow}]]
  /\ invite \in [Groups -> [Users -> InviteRow \cup {NoInvite}]]
  /\ feed \in SUBSET Groups
  /\ req \in [Requests -> Handler]
  /\ authority \in SUBSET (Groups \X Users)

-----------------------------------------------------------------------------
Idle == [op |-> "none", at |-> "idle", actor |-> NoUser, group |-> NoGroup,
         target |-> NoUser, role |-> "member", held |-> {}, todo |-> {}, fresh |-> {}]

Goto(r, place) == req' = [req EXCEPT ![r].at = place]
Finish(r) == req' = [req EXCEPT ![r] = Idle]
At(r, op, place) == req[r].op = op /\ req[r].at = place

TargetRow(r) == member[req[r].group][req[r].target]
SetTargetRow(r, row) ==
  member' = [member EXCEPT ![req[r].group][req[r].target] = row]

IsActive(row) == row # NoRow /\ row.status = "active"

\* requireOwner, and requireAdminOrOwner.
IsOwner(row) == IsActive(row) /\ row.role = "owner"
IsAdminOrOwner(row) == IsActive(row) /\ row.role # "member"

\* The row that addMember and claimPendingForNewUser insert.
PendingRow_active(by) ==
  [role |-> "member", status |-> "active", joined |-> TRUE, addedBy |-> by]
PendingRow_noInviter(by) ==
  [role |-> "member", status |-> "pending", joined |-> FALSE]
PendingRow(by) ==
  [role |-> "member", status |-> "pending", joined |-> FALSE, addedBy |-> by]

Powers(m) == {p \in Groups \X Users : IsAdminOrOwner(m[p[1]][p[2]])}

-----------------------------------------------------------------------------
Init ==
  /\ registered = {}
  /\ creator = [g \in Groups |-> NoUser]
  /\ alive = {}
  /\ member = [g \in Groups |-> [u \in Users |-> NoRow]]
  /\ invite = [g \in Groups |-> [u \in Users |-> NoInvite]]
  /\ feed = {}
  /\ req = [r \in Requests |-> Idle]
  /\ authority = {}

(* POST /v1/groups: one nested create of the group and its owner's row. *)
CreateGroup(r, u, g) ==
  /\ req[r] = Idle
  /\ u \in registered
  /\ creator[g] = NoUser
  /\ creator' = [creator EXCEPT ![g] = u]
  /\ alive' = alive \cup {g}
  /\ member' = [member EXCEPT ![g][u] =
       [role |-> "owner", status |-> "active", joined |-> TRUE, addedBy |-> NoUser]]
  /\ UNCHANGED <<registered, invite, feed, req>>

\* The permission each operation asks of the caller's row.
Permitted_anyMember(op, row) ==
  CASE op = "add" -> IsActive(row)
    [] op = "remove" -> IsAdminOrOwner(row)
    [] OTHER -> IsOwner(row)
Permitted_adminsToo(op, row) == IsAdminOrOwner(row)
Permitted(op, row) ==
  IF op \in {"add", "remove"} THEN IsAdminOrOwner(row) ELSE IsOwner(row)

Begin(r, h) == req' = [req EXCEPT ![r] = h]
NewHandler(op, u, g, t, place) ==
  [Idle EXCEPT !.op = op, !.actor = u, !.group = g, !.target = t, !.at = place]

(* addMember, removeMember, updateMemberRole and deleteMine pass their       *)
(* permission check; removeMember keeps the role it saw.                     *)
Start(r, op, u, g) ==
  /\ req[r] = Idle
  /\ u \in registered
  /\ Permitted(op, member[g][u])
  /\ Begin(r, [NewHandler(op, u, g, NoUser,
                  CASE op = "add" -> "target" [] op = "delete" -> "write" [] OTHER -> "read")
               EXCEPT !.role = IF op = "remove" THEN member[g][u].role ELSE "member"])
  /\ UNCHANGED tables

-----------------------------------------------------------------------------
(* addMember looks its target up; one who is not registered can only be      *)
(* invited by phone, and nobody can invite himself.                          *)
FindTarget(r, t) ==
  /\ At(r, "add", "target")
  /\ t # req[r].actor
  /\ Begin(r, [req[r] EXCEPT !.target = t,
                 !.at = IF t \in registered THEN "clear" ELSE "offline"])
  /\ UNCHANGED tables

(* upsertPendingPhoneInvite; the foreign key refuses a group that is gone. *)
InviteByPhone(r) ==
  LET h == req[r] IN
  /\ At(r, "add", "offline")
  /\ IF h.group \in alive
     THEN /\ invite' = [invite EXCEPT ![h.group][h.target] =
               [by |-> h.actor, expired |-> FALSE]]
          /\ Goto(r, "emit")
     ELSE Finish(r) /\ UNCHANGED invite
  /\ UNCHANGED <<registered, creator, alive, member, feed>>

\* deleteByGroupAndPhone.
WithoutPhone_wholeGroup(g, u) == [invite EXCEPT ![g] = [v \in Users |-> NoInvite]]
WithoutPhone(g, u) == [invite EXCEPT ![g][u] = NoInvite]

(* The phone invite goes before it is known whether a row will be made. *)
ClearPhoneInvite(r) ==
  /\ At(r, "add", "clear")
  /\ invite' = WithoutPhone(req[r].group, req[r].target)
  /\ Goto(r, "check")
  /\ UNCHANGED <<registered, creator, alive, member, feed>>

CheckMembership(r) ==
  /\ At(r, "add", "check")
  /\ IF TargetRow(r) = NoRow THEN Goto(r, "create") ELSE Finish(r)
  /\ UNCHANGED tables

\* The INSERT succeeds: no such membership yet, and the group is there.
Insertable_always(g, u) == TRUE
Insertable(g, u) == member[g][u] = NoRow /\ g \in alive

CreateMembership(r) ==
  LET h == req[r] IN
  /\ At(r, "add", "create")
  /\ IF Insertable(h.group, h.target)
     THEN SetTargetRow(r, PendingRow(h.actor)) /\ Goto(r, "emit")
     ELSE Finish(r) /\ UNCHANGED member
  /\ UNCHANGED <<registered, creator, alive, invite, feed>>

(* tryEmitInviteSent, tryEmitInviteAccepted, tryEmitMemberJoined: the event   *)
(* is stored or lost, the caller never notices.                              *)
Emit(r) ==
  /\ req[r].at = "emit"
  /\ feed' \in {feed, feed \cup ({req[r].group} \cap alive)}
  /\ Finish(r)
  /\ UNCHANGED <<registered, creator, alive, member, invite>>

-----------------------------------------------------------------------------
\* The checks on the target's row between its read and the write, for caller u
\* of role mine; role is the role updateMemberRole is asked to set.
Removable_ownerToo(u, t, mine, row) ==
  row # NoRow /\ (row.role = "admin" => mine = "owner" \/ u = t)
Removable(u, t, mine, row) ==
  /\ row # NoRow
  /\ row.role # "owner"
  /\ row.role = "admin" => mine = "owner" \/ u = t
Changeable(role, row) == IsActive(row) /\ row.role \notin {"owner", role}
IsPending(row) == row # NoRow /\ row.status = "pending"

(* The row that is about to be written is read first, and the write repeats  *)
(* none of the checks made here.                                             *)
ReadForRemove(r, t) ==
  LET h == req[r] IN
  /\ At(r, "remove", "read")
  /\ Removable(h.actor, t, h.role, member[h.group][t])
  /\ Begin(r, [h EXCEPT !.target = t, !.at = "write"])
  /\ UNCHANGED tables

ReadForRole(r, t, role) ==
  LET h == req[r] IN
  /\ At(r, "role", "read")
  /\ Changeable(role, member[h.group][t])
  /\ Begin(r, [h EXCEPT !.target = t, !.role = role, !.at = "write"])
  /\ UNCHANGED tables

(* acceptGroupInvite and declineGroupInvite; on an active row accept answers *)
(* without a write.                                                          *)
ReadInvite(r, op, u, g) ==
  /\ req[r] = Idle
  /\ IsPending(member[g][u])
  /\ Begin(r, NewHandler(op, u, g, u, "write"))
  /\ UNCHANGED tables

(* deleteByComposite, for removeMember and declineGroupInvite. *)
DeleteMembership(r) ==
  /\ req[r].op \in {"remove", "decline"} /\ req[r].at = "write"
  /\ SetTargetRow(r, NoRow)
  /\ Finish(r)
  /\ UNCHANGED <<registered, creator, alive, invite, feed>>

(* updateRole; P2025 when the row is gone. *)
UpdateRole(r) ==
  /\ At(r, "role", "write")
  /\ IF TargetRow(r) # NoRow
     THEN SetTargetRow(r, [TargetRow(r) EXCEPT !.role = req[r].role])
     ELSE UNCHANGED member
  /\ Finish(r)
  /\ UNCHANGED <<registered, creator, alive, invite, feed>>

\* activateMembership: UPDATE ... SET status = active, joinedAt = now.
Activated_unstamped(row) == [row EXCEPT !.status = "active"]
Activated(row) == [row EXCEPT !.status = "active", !.joined = TRUE]

AcceptInvite(r) ==
  /\ At(r, "accept", "write")
  /\ IF TargetRow(r) # NoRow
     THEN SetTargetRow(r, Activated(TargetRow(r))) /\ Goto(r, "emit")
     ELSE Finish(r) /\ UNCHANGED member
  /\ UNCHANGED <<registered, creator, alive, invite, feed>>

\* What ON DELETE CASCADE leaves of the invites when group g goes.
InvitesWithout_kept(g) == invite
InvitesWithout(g) == [invite EXCEPT ![g] = [u \in Users |-> NoInvite]]

(* deleteById; the rows that refer to the group go in the same statement. *)
DeleteGroup(r) ==
  LET g == req[r].group IN
  /\ At(r, "delete", "write")
  /\ alive' = alive \ {g}
  /\ member' = [member EXCEPT ![g] = [u \in Users |-> NoRow]]
  /\ invite' = InvitesWithout(g)
  /\ feed' = feed \ {g}
  /\ Finish(r)
  /\ UNCHANGED <<registered, creator>>

-----------------------------------------------------------------------------
(* POST /v1/otp/verify: upsertVerifiedLogin, then the claim transaction. *)
Login(r, u) ==
  /\ req[r] = Idle
  /\ registered' = registered \cup {u}
  /\ Begin(r, NewHandler("login", u, NoGroup, NoUser, "list"))
  /\ UNCHANGED <<creator, alive, member, invite, feed>>

\* The pending invites of phone u that have not expired.
Claimable(u) ==
  {c \in Claimed : LET i == invite[c.group][u] IN
     i # NoInvite /\ ~i.expired /\ i.by = c.by}

(* findMany of the transaction; without invites there is nothing to commit. *)
ListInvites(r) ==
  LET found == Claimable(req[r].actor) IN
  /\ At(r, "login", "list")
  /\ IF found = {} THEN Finish(r)
     ELSE Begin(r, [req[r] EXCEPT !.held = found, !.todo = found, !.fresh = {}, !.at = "look"])
  /\ UNCHANGED tables

(* findUnique for one invite: is there a membership row already? *)
LookUp(r, c) ==
  /\ At(r, "login", "look")
  /\ c \in req[r].todo
  /\ Begin(r, [req[r] EXCEPT !.todo = @ \ {c},
       !.fresh = IF member[c.group][req[r].actor] = NoRow THEN @ \cup {c} ELSE @])
  /\ UNCHANGED tables

\* Neither a unique constraint (P2002) nor a missing row (P2025) stops the claim.
Commits(r) ==
  /\ \A c \in req[r].held : invite[c.group][req[r].actor] # NoInvite
  /\ \A c \in req[r].fresh : Insertable(c.group, req[r].actor)

(* The creates and deletes of the transaction hold their row locks until the *)
(* commit, so all of them take effect here, or none.                         *)
CommitClaim(r) ==
  LET h == req[r]
      u == h.actor
      groups(S) == {c.group : c \in S}
      inviter(g) == (CHOOSE c \in h.fresh : c.group = g).by IN
  /\ At(r, "login", "look") /\ h.todo = {}
  /\ Commits(r)
  /\ member' = [g \in Groups |-> IF g \in groups(h.fresh)
                  THEN [member[g] EXCEPT ![u] = PendingRow(inviter(g))]
                  ELSE member[g]]
  /\ invite' = [g \in Groups |-> IF g \in groups(h.held)
                  THEN [invite[g] EXCEPT ![u] = NoInvite] ELSE invite[g]]
  /\ Finish(r)
  /\ UNCHANGED <<registered, creator, alive, feed>>

RollBackClaim(r) ==
  /\ At(r, "login", "look") /\ req[r].todo = {}
  /\ ~Commits(r)
  /\ Finish(r)
  /\ UNCHANGED tables

-----------------------------------------------------------------------------
(* Fourteen days pass: a phone invite is no longer claimable. *)
Expire(g, u) ==
  /\ invite[g][u] # NoInvite /\ ~invite[g][u].expired
  /\ invite' = [invite EXCEPT ![g][u].expired = TRUE]
  /\ UNCHANGED <<registered, creator, alive, member, feed, req>>

(* A check refuses, a call fails or the process dies: an open transaction is *)
(* rolled back, what was committed stays.                                    *)
Fail(r) ==
  /\ req[r] # Idle
  /\ Finish(r)
  /\ UNCHANGED tables

AddMember(r) ==
  \/ \E t \in Users : FindTarget(r, t)
  \/ InviteByPhone(r) \/ ClearPhoneInvite(r) \/ CheckMembership(r) \/ CreateMembership(r)
ChangeMember(r) ==
  \/ \E t \in Users : ReadForRemove(r, t)
  \/ \E t \in Users, role \in {"admin", "member"} : ReadForRole(r, t, role)
  \/ DeleteMembership(r) \/ UpdateRole(r) \/ AcceptInvite(r) \/ DeleteGroup(r)
Claim(r) ==
  ListInvites(r) \/ (\E c \in Claimed : LookUp(r, c)) \/ CommitClaim(r) \/ RollBackClaim(r)
Arrive(r) ==
  \E u \in Users :
    \/ Login(r, u)
    \/ \E g \in Groups :
         \/ CreateGroup(r, u, g)
         \/ \E op \in {"add", "remove", "role", "delete"} : Start(r, op, u, g)
         \/ \E op \in {"accept", "decline"} : ReadInvite(r, op, u, g)

Step(r) == Arrive(r) \/ AddMember(r) \/ ChangeMember(r) \/ Emit(r) \/ Claim(r) \/ Fail(r)

Next ==
  /\ \/ \E r \in Requests : Step(r)
     \/ \E g \in Groups, u \in Users : Expire(g, u)
  /\ authority' = authority \cup Powers(member')

Spec == Init /\ [][Next]_vars

-----------------------------------------------------------------------------
(* A group that exists has exactly one owner, its creator, as an active     *)
(* member, whatever requests overlap: rows are checked before they are      *)
(* written, and no check-then-write can catch the owner's row.              *)
OneOwner ==
  \A g \in alive, u \in Users :
    IF u = creator[g] THEN IsOwner(member[g][u])
    ELSE member[g][u] # NoRow => member[g][u].role # "owner"

(* Deleting a group leaves no membership, invite or feed event of it, and   *)
(* no handler that was in flight brings one back.                           *)
NoOrphans ==
  \A g \in Groups \ alive :
    /\ g \notin feed
    /\ \A u \in Users : member[g][u] = NoRow /\ invite[g][u] = NoInvite

(* docs/FE_GROUPS_INVITES_CONTRACT.md: a pending row has no joinedAt, an    *)
(* active one has; role changes, claims and accepts in any order keep it.   *)
JoinedIffActive ==
  \A g \in Groups, u \in Users :
    member[g][u] # NoRow =>
      (member[g][u].status = "active" <=> member[g][u].joined)

(* Every invitation, by phone or as a pending row, and every membership     *)
(* that came from one, was made by someone who has been an active admin or  *)
(* owner of that group: no path around requireAdminOrOwner exists.          *)
InvitedByAuthority ==
  \A g \in Groups, u \in Users :
    /\ member[g][u] # NoRow /\ u # creator[g] =>
         <<g, member[g][u].addedBy>> \in authority
    /\ invite[g][u] # NoInvite => <<g, invite[g][u].by>> \in authority

(* Only the owner changes a role: whoever was the owner when updateMember-  *)
(* Role checked is still the owner when it writes.                          *)
RoleChangesByOwner ==
  [][\A g \in Groups, u \in Users :
       LET old == member[g][u]
           new == member'[g][u] IN
       old # NoRow /\ new # NoRow /\ old.role # new.role =>
         \E r \in Requests : /\ At(r, "role", "write") /\ req[r].group = g
                             /\ IsOwner(member[g][req[r].actor])]_vars

(* Nobody becomes an active member without accepting: a row turns active    *)
(* only by its own user's accept, or as the owner row of a new group.       *)
JoiningIsConsent ==
  [][\A g \in Groups, u \in Users :
       ~IsActive(member[g][u]) /\ IsActive(member'[g][u]) =>
         \/ creator[g] = NoUser /\ creator'[g] = u
         \/ \E r \in Requests : At(r, "accept", "write") /\ req[r].actor = u]_vars

(* An invitation by phone to someone without an account stays until he      *)
(* signs in, as long as the group does: no administration path drops it.    *)
PhoneInviteWaits ==
  [][\A g \in Groups, u \in Users :
       invite[g][u] # NoInvite /\ invite'[g][u] = NoInvite =>
         u \in registered \/ g \notin alive']_vars

\* Request r, at its write of op, deletes the row of u in group g.
Deletes(r, op, g, u) ==
  /\ At(r, op, "write") /\ req[r].group = g /\ req[r].target = u
  /\ req'[r] = Idle
  /\ member[g][u] # NoRow /\ member'[g][u] = NoRow

(* The comment on declineGroupInvite: it deletes the pending row.  Refuted  *)
(* when an accept of the same user lands between its read and its delete.   *)
DeclineDeletesPending ==
  [][\A r \in Requests, g \in Groups, u \in Users :
       Deletes(r, "decline", g, u) => member[g][u].status = "pending"]_vars

(* The comment on removeMember: an admin cannot remove another admin unless *)
(* he is the owner.  Refuted when the target is promoted in between.        *)
AdminsRemovedByOwner ==
  [][\A r \in Requests, g \in Groups, u \in Users :
       Deletes(r, "remove", g, u) /\ member[g][u].role = "admin" =>
         req[r].actor \in {u, creator[g]}]_vars

(* The comment on acceptGroupInvite: idempotent, an active row is not       *)
(* mutated.  Refuted by two accepts that both read the pending row.         *)
AcceptLeavesActiveRow ==
  [][\A r \in Requests :
       At(r, "accept", "write") /\ IsActive(TargetRow(r))
         => ~(req'[r].op = "accept" /\ req'[r].at = "emit")]_vars
=============================================================================
