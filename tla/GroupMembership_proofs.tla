----------------------- MODULE GroupMembership_proofs -----------------------
(***************************************************************************)
(* Proofs about GroupMembership for any number of users, groups and        *)
(* concurrent requests.                                                    *)
(*                                                                         *)
(* OneOwner is not inductive: what keeps a stale check from hitting the    *)
(* owner's row is that a handler which has passed its check aims at        *)
(* somebody else than the creator, and the creator of a group never        *)
(* changes.  HandlerOK says this of every handler in flight, and that the  *)
(* caller has held the permission his operation asks for.                  *)
(***************************************************************************)
EXTENDS GroupMembership, TLAPS

Writes == {"remove", "role", "accept", "decline"}

\* What a handler's local state guarantees about the tables.
HandlerOK(h) ==
  /\ h.op # "none" => h.actor \in Users
  /\ h.op \notin {"none", "login"} => h.group \in Groups /\ creator[h.group] # NoUser
  /\ h.op \in {"add", "remove", "role", "delete"} => <<h.group, h.actor>> \in authority
  /\ h.op \in {"role", "delete"} => h.actor = creator[h.group]
  /\ h.op = "role" => h.role \in {"admin", "member"}
  /\ h.op = "accept" => h.actor = h.target
  /\ h.op \in Writes /\ h.at = "write" =>
       h.target \in Users /\ h.target # creator[h.group]
  /\ h.at \in {"offline", "clear", "check", "create"} => h.target \in Users
  /\ h.todo \subseteq h.held /\ h.fresh \subseteq h.held
  /\ \A c \in h.held : <<c.group, c.by>> \in authority

HandlersOK == \A r \in Requests : HandlerOK(req[r])

CreatorOK == \A g \in alive : creator[g] \in Users

PowersRecorded == Powers(member) \subseteq authority

\* The invariants that only speak of the tables.
TablesOK ==
  CreatorOK /\ OneOwner /\ NoOrphans /\ JoinedIffActive /\ InvitedByAuthority

IInv == TypeOK /\ HandlersOK /\ TablesOK /\ PowersRecorded

\* What every step leaves alone: creators, and who has held power.
Stable ==
  /\ authority \subseteq authority'
  /\ \A g \in Groups : creator[g] # NoUser => creator'[g] = creator[g]

-----------------------------------------------------------------------------
(* An idle handler is one, and guarantees nothing. *)
LEMMA IdleHandler ==
  /\ Idle \in Handler
  /\ HandlerOK(Idle)
  <1>1. Idle \in Handler
    BY DEF Idle, Handler, Ops, Places, Roles
  <1>2. HandlerOK(Idle)
    BY DEF Idle, HandlerOK, Writes
  <1> QED BY <1>1, <1>2

(* What a handler guarantees survives every step of another. *)
LEMMA HandlerStable ==
  ASSUME NEW h \in Handler, HandlerOK(h), Stable
  PROVE  HandlerOK(h)'
  BY DEF HandlerOK, Stable, Writes

(* A step that gives handler r the state h keeps all handlers in order. *)
LEMMA BeginOK ==
  ASSUME TypeOK, HandlersOK, Stable,
         NEW r \in Requests, NEW h \in Handler, Begin(r, h), HandlerOK(h)'
  PROVE  req' \in [Requests -> Handler] /\ HandlersOK'
  <1>1. req' \in [Requests -> Handler]
    BY DEF TypeOK, Begin
  <1>2. ASSUME NEW s \in Requests
        PROVE  HandlerOK(req[s])'
    <2>1. CASE s = r
      <3>1. req'[s] = h
        BY <2>1 DEF Begin, TypeOK
      <3> QED BY <3>1 DEF HandlerOK
    <2>2. CASE s # r
      <3>1. req'[s] = req[s] /\ req[s] \in Handler
        BY <2>2 DEF Begin, TypeOK
      <3>2. PICK k \in Handler : k = req[s]
        BY <3>1
      <3>3. HandlerOK(k)'
        BY <3>2, HandlerStable DEF HandlersOK
      <3> QED BY <3>1, <3>2, <3>3 DEF HandlerOK
    <2> QED BY <2>1, <2>2
  <1> QED BY <1>1, <1>2 DEF HandlersOK

(* A handler that ends keeps the others in order. *)
LEMMA FinishOK ==
  ASSUME TypeOK, HandlersOK, Stable, NEW r \in Requests, Finish(r)
  PROVE  req' \in [Requests -> Handler] /\ HandlersOK'
  <1>1. Begin(r, Idle)
    BY DEF Finish, Begin
  <1>2. HandlerOK(Idle)'
    BY IdleHandler, HandlerStable
  <1> QED BY <1>1, <1>2, IdleHandler, BeginOK

(* So does one that only moves on to a place with the same guarantees. *)
LEMMA GotoOK ==
  ASSUME TypeOK, HandlersOK, Stable, NEW r \in Requests,
         NEW place \in Places, Goto(r, place),
         place # "write",
         place \in {"offline", "clear", "check", "create"} =>
           req[r].target \in Users
  PROVE  req' \in [Requests -> Handler] /\ HandlersOK'
  <1>1. PICK k \in Handler : k = req[r]
    BY DEF TypeOK
  <1>2. PICK h : h = [k EXCEPT !.at = place]
    OBVIOUS
  <1>3. h \in Handler
    BY <1>1, <1>2 DEF Handler
  <1>4. Begin(r, h)
    BY <1>1, <1>2 DEF Goto, Begin, TypeOK
  <1>5. HandlerOK(h)
    BY <1>1, <1>2 DEF HandlersOK, HandlerOK, Writes, Handler
  <1> QED BY <1>3, <1>4, <1>5, HandlerStable, BeginOK

-----------------------------------------------------------------------------
(* One row of the member table changes, and no other. *)
LEMMA OneRow ==
  ASSUME TypeOK, NEW g \in Groups, NEW u \in Users, NEW row \in MemberRow \cup {NoRow},
         member' = [member EXCEPT ![g][u] = row]
  PROVE  /\ member' \in [Groups -> [Users -> MemberRow \cup {NoRow}]]
         /\ \A h \in Groups, v \in Users :
              member'[h][v] = IF h = g /\ v = u THEN row ELSE member[h][v]
  <1>1. member[g] \in [Users -> MemberRow \cup {NoRow}]
    BY DEF TypeOK
  <1>2. [member[g] EXCEPT ![u] = row] \in [Users -> MemberRow \cup {NoRow}]
    BY <1>1
  <1>3. member' = [member EXCEPT ![g] = [member[g] EXCEPT ![u] = row]]
    BY DEF TypeOK
  <1>4. member' \in [Groups -> [Users -> MemberRow \cup {NoRow}]]
    BY <1>2, <1>3 DEF TypeOK
  <1>5. ASSUME NEW h \in Groups, NEW v \in Users
        PROVE  member'[h][v] = IF h = g /\ v = u THEN row ELSE member[h][v]
    BY <1>1, <1>3 DEF TypeOK
  <1> QED BY <1>4, <1>5

(* A row of somebody else than the creator may be deleted, or replaced by   *)
(* one that is not an owner's and was granted by an authority.              *)
LEMMA RowChangeOK ==
  ASSUME TypeOK, TablesOK, Stable,
         NEW g \in Groups, NEW u \in Users, NEW row \in MemberRow \cup {NoRow},
         u # creator[g],
         row # NoRow =>
           /\ g \in alive
           /\ row.role # "owner"
           /\ row.status = "active" <=> row.joined
           /\ <<g, row.addedBy>> \in authority',
         member' = [member EXCEPT ![g][u] = row],
         UNCHANGED <<registered, creator, alive, invite, feed>>
  PROVE  member' \in [Groups -> [Users -> MemberRow \cup {NoRow}]] /\ TablesOK'
  <1>1. /\ member' \in [Groups -> [Users -> MemberRow \cup {NoRow}]]
        /\ \A h \in Groups, v \in Users :
             member'[h][v] = IF h = g /\ v = u THEN row ELSE member[h][v]
    BY OneRow
  <1>2. CreatorOK'
    BY DEF TablesOK, CreatorOK
  <1>3. OneOwner'
    <2> SUFFICES ASSUME NEW h \in alive, NEW v \in Users
                 PROVE  IF v = creator[h] THEN IsOwner(member'[h][v])
                        ELSE member'[h][v] # NoRow => member'[h][v].role # "owner"
      BY DEF OneOwner, IsOwner, IsActive
    <2>1. h \in Groups
      BY DEF TypeOK
    <2>2. member'[h][v] = IF h = g /\ v = u THEN row ELSE member[h][v]
      BY <1>1, <2>1
    <2> QED BY <2>1, <2>2 DEF TablesOK, OneOwner
  <1>4. NoOrphans'
    BY <1>1 DEF TablesOK, NoOrphans, TypeOK
  <1>5. JoinedIffActive'
    BY <1>1 DEF TablesOK, JoinedIffActive
  <1>6. InvitedByAuthority'
    BY <1>1 DEF TablesOK, InvitedByAuthority, Stable
  <1> QED BY <1>1, <1>2, <1>3, <1>4, <1>5, <1>6 DEF TablesOK

(* One invite changes: it goes, or is one that an authority made for a      *)
(* group that exists.                                                       *)
LEMMA InviteChangeOK ==
  ASSUME TypeOK, TablesOK, Stable,
         NEW g \in Groups, NEW u \in Users, NEW i \in InviteRow \cup {NoInvite},
         i # NoInvite => g \in alive /\ <<g, i.by>> \in authority',
         invite' = [invite EXCEPT ![g][u] = i],
         UNCHANGED <<creator, alive, member, feed>>
  PROVE  invite' \in [Groups -> [Users -> InviteRow \cup {NoInvite}]] /\ TablesOK'
  <1>1. invite[g] \in [Users -> InviteRow \cup {NoInvite}]
    BY DEF TypeOK
  <1>2. [invite[g] EXCEPT ![u] = i] \in [Users -> InviteRow \cup {NoInvite}]
    BY <1>1
  <1>3. invite' = [invite EXCEPT ![g] = [invite[g] EXCEPT ![u] = i]]
    BY DEF TypeOK
  <1>4. invite' \in [Groups -> [Users -> InviteRow \cup {NoInvite}]]
    BY <1>2, <1>3 DEF TypeOK
  <1>5. ASSUME NEW h \in Groups, NEW v \in Users
        PROVE  invite'[h][v] = IF h = g /\ v = u THEN i ELSE invite[h][v]
    BY <1>1, <1>3 DEF TypeOK
  <1>6. CreatorOK' /\ OneOwner' /\ JoinedIffActive'
    BY DEF TablesOK, CreatorOK, OneOwner, JoinedIffActive, IsOwner, IsActive
  <1>7. NoOrphans'
    BY <1>5 DEF TablesOK, NoOrphans, TypeOK
  <1>8. InvitedByAuthority'
    <2> SUFFICES ASSUME NEW h \in Groups, NEW v \in Users
                 PROVE  /\ member[h][v] # NoRow /\ v # creator[h] =>
                             <<h, member[h][v].addedBy>> \in authority'
                        /\ invite'[h][v] # NoInvite => <<h, invite'[h][v].by>> \in authority'
      BY DEF InvitedByAuthority
    <2>1. invite'[h][v] = IF h = g /\ v = u THEN i ELSE invite[h][v]
      BY <1>5
    <2>2. /\ member[h][v] # NoRow /\ v # creator[h] =>
               <<h, member[h][v].addedBy>> \in authority'
          /\ invite[h][v] # NoInvite => <<h, invite[h][v].by>> \in authority'
      BY DEF TablesOK, InvitedByAuthority, Stable
    <2> QED BY <2>1, <2>2
  <1> QED BY <1>4, <1>6, <1>7, <1>8 DEF TablesOK

(* Nothing but the feed changes, and only for a group that exists. *)
LEMMA FeedChangeOK ==
  ASSUME TypeOK, TablesOK, Stable, UNCHANGED <<creator, alive, member, invite>>,
         feed' \subseteq feed \cup alive
  PROVE  feed' \in SUBSET Groups /\ TablesOK'
  <1>1. feed' \in SUBSET Groups
    BY DEF TypeOK
  <1>2. CreatorOK' /\ OneOwner' /\ JoinedIffActive'
    BY DEF TablesOK, CreatorOK, OneOwner, JoinedIffActive, IsOwner, IsActive
  <1>3. NoOrphans'
    BY DEF TablesOK, NoOrphans
  <1>4. InvitedByAuthority'
    BY DEF TablesOK, InvitedByAuthority, Stable
  <1> QED BY <1>1, <1>2, <1>3, <1>4 DEF TablesOK

-----------------------------------------------------------------------------
(* What one step must establish; authority is treated with Next. *)
Types ==
  /\ registered \in SUBSET Users
  /\ creator \in [Groups -> Users \cup {NoUser}]
  /\ alive \in SUBSET Groups
  /\ member \in [Groups -> [Users -> MemberRow \cup {NoRow}]]
  /\ invite \in [Groups -> [Users -> InviteRow \cup {NoInvite}]]
  /\ feed \in SUBSET Groups
  /\ req \in [Requests -> Handler]

Kept == Types /\ HandlersOK /\ TablesOK

(* A step that only moves handlers along. *)
LEMMA OnlyHandlers ==
  ASSUME TypeOK, TablesOK, Stable, UNCHANGED tables,
         req' \in [Requests -> Handler], HandlersOK'
  PROVE  Kept'
  <1>1. Types'
    BY DEF TypeOK, Types, tables
  <1>2. CreatorOK' /\ OneOwner' /\ NoOrphans' /\ JoinedIffActive'
    BY DEF TablesOK, CreatorOK, OneOwner, NoOrphans, JoinedIffActive, IsOwner, IsActive, tables
  <1>3. InvitedByAuthority'
    BY DEF TablesOK, InvitedByAuthority, Stable, tables
  <1> QED BY <1>1, <1>2, <1>3 DEF Kept, TablesOK

(* A row of a caller with permission: the group exists, and he has held power. *)
LEMMA PermittedCaller ==
  ASSUME IInv, NEW g \in Groups, NEW u \in Users,
         NEW op \in {"add", "remove", "role", "delete"}, Permitted(op, member[g][u])
  PROVE  /\ g \in alive /\ creator[g] \in Users
         /\ <<g, u>> \in authority
         /\ op \in {"role", "delete"} => u = creator[g]
         /\ member[g][u].role \in Roles
  <1>1. member[g][u] # NoRow
    BY DEF Permitted, IsAdminOrOwner, IsOwner, IsActive
  <1>2. g \in alive
    BY <1>1 DEF IInv, TablesOK, NoOrphans
  <1>3. creator[g] \in Users
    BY <1>2 DEF IInv, TablesOK, CreatorOK
  <1>4. IsAdminOrOwner(member[g][u])
    BY DEF Permitted, IsAdminOrOwner, IsOwner, IsActive
  <1>5. <<g, u>> \in authority
    BY <1>4 DEF IInv, PowersRecorded, Powers
  <1>6. op \in {"role", "delete"} => u = creator[g]
    BY <1>2 DEF IInv, TablesOK, OneOwner, Permitted, IsOwner, IsActive
  <1>7. member[g][u].role \in Roles
    BY <1>1 DEF IInv, TypeOK, MemberRow
  <1> QED BY <1>2, <1>3, <1>5, <1>6, <1>7

(* A row that is not the owner's is not the creator's. *)
LEMMA NotTheCreator ==
  ASSUME IInv, NEW g \in Groups, NEW u \in Users, member[g][u] # NoRow,
         member[g][u].role # "owner" \/ member[g][u].status # "active"
  PROVE  g \in alive /\ creator[g] \in Users /\ u # creator[g]
  <1>1. g \in alive
    BY DEF IInv, TablesOK, NoOrphans
  <1>2. creator[g] \in Users
    BY <1>1 DEF IInv, TablesOK, CreatorOK
  <1>3. u # creator[g]
    BY <1>1 DEF IInv, TablesOK, OneOwner, IsOwner, IsActive
  <1> QED BY <1>1, <1>2, <1>3

-----------------------------------------------------------------------------
(* Handlers that arrive. *)
LEMMA StartKeeps ==
  ASSUME IInv, Stable, NEW r \in Requests, NEW u \in Users, NEW g \in Groups,
         NEW op \in {"add", "remove", "role", "delete"}, Start(r, op, u, g)
  PROVE  Kept'
  <1>1. PICK h : h = [NewHandler(op, u, g, NoUser,
                  CASE op = "add" -> "target" [] op = "delete" -> "write" [] OTHER -> "read")
               EXCEPT !.role = IF op = "remove" THEN member[g][u].role ELSE "member"]
    OBVIOUS
  <1>2. Begin(r, h) /\ UNCHANGED tables /\ Permitted(op, member[g][u])
    BY <1>1 DEF Start
  <1>3. /\ g \in alive /\ creator[g] \in Users /\ <<g, u>> \in authority
        /\ op \in {"role", "delete"} => u = creator[g]
        /\ member[g][u].role \in Roles
    BY <1>2, PermittedCaller
  <1>4. h \in Handler
    BY <1>1, <1>3 DEF NewHandler, Idle, Handler, Ops, Places, Roles
  <1>5. creator[g] # NoUser
    BY <1>3, NullAssumption
  <1>6. /\ h.op = op /\ h.actor = u /\ h.group = g /\ h.held = {} /\ h.fresh = {}
        /\ h.todo = {}
        /\ h.at = (CASE op = "add" -> "target" [] op = "delete" -> "write" [] OTHER -> "read")
        /\ op = "role" => h.role = "member"
    BY <1>1 DEF NewHandler, Idle
  <1>7. HandlerOK(h)
    BY <1>3, <1>5, <1>6 DEF HandlerOK, Writes
  <1> QED BY <1>2, <1>4, <1>7, HandlerStable, BeginOK, OnlyHandlers DEF IInv

LEMMA ReadInviteKeeps ==
  ASSUME IInv, Stable, NEW r \in Requests, NEW u \in Users, NEW g \in Groups,
         NEW op \in {"accept", "decline"}, ReadInvite(r, op, u, g)
  PROVE  Kept'
  <1>1. PICK h : h = NewHandler(op, u, g, u, "write")
    OBVIOUS
  <1>2. Begin(r, h) /\ UNCHANGED tables /\ IsPending(member[g][u])
    BY <1>1 DEF ReadInvite
  <1>3. g \in alive /\ creator[g] \in Users /\ u # creator[g]
    BY <1>2, NotTheCreator DEF IsPending
  <1>4. h \in Handler
    BY <1>1 DEF NewHandler, Idle, Handler, Ops, Places, Roles
  <1>5. creator[g] # NoUser
    BY <1>3, NullAssumption
  <1>6. HandlerOK(h)
    BY <1>1, <1>3, <1>5 DEF HandlerOK, Writes, NewHandler, Idle
  <1> QED BY <1>2, <1>4, <1>6, HandlerStable, BeginOK, OnlyHandlers DEF IInv

LEMMA LoginKeeps ==
  ASSUME IInv, Stable, NEW r \in Requests, NEW u \in Users, Login(r, u)
  PROVE  Kept'
  <1>1. PICK h : h = NewHandler("login", u, NoGroup, NoUser, "list")
    OBVIOUS
  <1>2. Begin(r, h) /\ registered' = registered \cup {u}
        /\ UNCHANGED <<creator, alive, member, invite, feed>>
    BY <1>1 DEF Login
  <1>3. h \in Handler
    BY <1>1 DEF NewHandler, Idle, Handler, Ops, Places, Roles
  <1>4. HandlerOK(h)
    BY <1>1 DEF HandlerOK, Writes, NewHandler, Idle
  <1>5. req' \in [Requests -> Handler] /\ HandlersOK'
    BY <1>2, <1>3, <1>4, HandlerStable, BeginOK DEF IInv
  <1>6. feed' \in SUBSET Groups /\ TablesOK'
    BY <1>2, FeedChangeOK DEF IInv
  <1> QED BY <1>2, <1>5, <1>6 DEF IInv, TypeOK, Kept, Types

(* A new group: no row of it was there, and its only row is its owner's. *)
LEMMA CreateGroupKeeps ==
  ASSUME IInv, Stable, NEW r \in Requests, NEW u \in Users, NEW g \in Groups,
         CreateGroup(r, u, g)
  PROVE  Kept'
  <1>1. PICK row : row = [role |-> "owner", status |-> "active", joined |-> TRUE,
                          addedBy |-> NoUser]
    OBVIOUS
  <1>2. row \in MemberRow
    BY <1>1 DEF MemberRow, Roles
  <1>3. /\ creator[g] = NoUser /\ creator' = [creator EXCEPT ![g] = u]
        /\ alive' = alive \cup {g} /\ member' = [member EXCEPT ![g][u] = row]
        /\ UNCHANGED <<registered, invite, feed, req>>
    BY <1>1 DEF CreateGroup
  <1>4. g \notin alive
    BY <1>3, NullAssumption DEF IInv, TablesOK, CreatorOK
  <1>5. /\ member' \in [Groups -> [Users -> MemberRow \cup {NoRow}]]
        /\ \A h \in Groups, v \in Users :
             member'[h][v] = IF h = g /\ v = u THEN row ELSE member[h][v]
    BY <1>2, <1>3, OneRow DEF IInv
  <1>6. \A h \in Groups : creator'[h] = IF h = g THEN u ELSE creator[h]
    BY <1>3 DEF IInv, TypeOK
  <1>7. CreatorOK'
    BY <1>3, <1>6 DEF IInv, TypeOK, TablesOK, CreatorOK
  <1>8. row # NoRow
    BY <1>2, RowAssumption
  <1>9. OneOwner'
    <2> SUFFICES ASSUME NEW h \in alive', NEW v \in Users
                 PROVE  IF v = creator'[h] THEN IsOwner(member'[h][v])
                        ELSE member'[h][v] # NoRow => member'[h][v].role # "owner"
      BY DEF OneOwner, IsOwner, IsActive
    <2>1. h \in Groups
      BY <1>3 DEF IInv, TypeOK
    <2>2. CASE h = g
      <3>1. member[g][v] = NoRow
        BY <1>4 DEF IInv, TablesOK, NoOrphans
      <3> QED BY <1>1, <1>5, <1>6, <1>8, <2>2, <3>1 DEF IsOwner, IsActive
    <2>3. CASE h # g
      <3>1. h \in alive /\ member'[h][v] = member[h][v] /\ creator'[h] = creator[h]
        BY <1>3, <1>5, <1>6, <2>1, <2>3
      <3> QED BY <3>1 DEF IInv, TablesOK, OneOwner
    <2> QED BY <2>2, <2>3
  <1>10. NoOrphans'
    BY <1>3, <1>5 DEF IInv, TablesOK, NoOrphans
  <1>11. JoinedIffActive'
    BY <1>1, <1>5 DEF IInv, TablesOK, JoinedIffActive
  <1>12. InvitedByAuthority'
    <2> SUFFICES ASSUME NEW h \in Groups, NEW v \in Users
                 PROVE  /\ member'[h][v] # NoRow /\ v # creator'[h] =>
                             <<h, member'[h][v].addedBy>> \in authority'
                        /\ invite[h][v] # NoInvite => <<h, invite[h][v].by>> \in authority'
      BY <1>3 DEF InvitedByAuthority
    <2>1. invite[h][v] # NoInvite => <<h, invite[h][v].by>> \in authority'
      BY DEF IInv, TablesOK, InvitedByAuthority, Stable
    <2>2. CASE h = g
      <3>1. member[g][v] = NoRow
        BY <1>4 DEF IInv, TablesOK, NoOrphans
      <3> QED BY <1>5, <1>6, <2>1, <2>2, <3>1
    <2>3. CASE h # g
      BY <1>5, <1>6, <2>1, <2>3 DEF IInv, TablesOK, InvitedByAuthority, Stable
    <2> QED BY <2>2, <2>3
  <1>13. HandlersOK'
    <2> SUFFICES ASSUME NEW s \in Requests PROVE HandlerOK(req[s])'
      BY DEF HandlersOK
    <2>1. PICK k \in Handler : k = req[s]
      BY DEF IInv, TypeOK
    <2>2. HandlerOK(k)'
      BY <2>1, HandlerStable DEF IInv, HandlersOK
    <2> QED BY <1>3, <2>1, <2>2 DEF HandlerOK
  <1>14. Types'
    BY <1>3, <1>5 DEF IInv, TypeOK, Types
  <1> QED BY <1>7, <1>9, <1>10, <1>11, <1>12, <1>13, <1>14 DEF Kept, TablesOK

-----------------------------------------------------------------------------
(* The steps of addMember. *)
LEMMA AddKeeps ==
  ASSUME IInv, Stable, NEW r \in Requests, AddMember(r)
  PROVE  Kept'
  <1>0. TypeOK /\ TablesOK /\ HandlersOK
    BY DEF IInv
  <1>1. PICK k \in Handler : k = req[r] /\ HandlerOK(k)
    BY <1>0 DEF TypeOK, HandlersOK
  <1>2. CASE \E t \in Users : FindTarget(r, t)
    <2>1. PICK t \in Users : FindTarget(r, t)
      BY <1>2
    <2>2. PICK h : h = [k EXCEPT !.target = t,
                         !.at = IF t \in registered THEN "clear" ELSE "offline"]
      OBVIOUS
    <2>3. Begin(r, h) /\ UNCHANGED tables /\ k.op = "add"
      BY <1>1, <2>1, <2>2 DEF FindTarget, At
    <2>4. h \in Handler
      BY <2>2 DEF Handler, Places
    <2>5. HandlerOK(h)
      BY <1>1, <2>2, <2>3 DEF HandlerOK, Writes, Handler
    <2> QED BY <1>0, <2>3, <2>4, <2>5, HandlerStable, BeginOK, OnlyHandlers
  <1>3. CASE InviteByPhone(r)
    <2>1. /\ k.op = "add" /\ k.at = "offline" /\ k.group \in Groups
          /\ k.target \in Users /\ k.actor \in Users /\ <<k.group, k.actor>> \in authority
      BY <1>1, <1>3 DEF InviteByPhone, At, HandlerOK
    <2>2. CASE k.group \in alive
      <3>1. PICK i : i = [by |-> k.actor, expired |-> FALSE]
        OBVIOUS
      <3>2. invite' = [invite EXCEPT ![k.group][k.target] = i] /\ Goto(r, "emit")
            /\ UNCHANGED <<registered, creator, alive, member, feed>>
        BY <1>1, <1>3, <2>2, <3>1 DEF InviteByPhone
      <3>3. i \in InviteRow /\ <<k.group, i.by>> \in authority'
        BY <2>1, <3>1 DEF InviteRow, Stable
      <3>4. invite' \in [Groups -> [Users -> InviteRow \cup {NoInvite}]] /\ TablesOK'
        BY <1>0, <2>1, <2>2, <3>2, <3>3, InviteChangeOK
      <3>5. req' \in [Requests -> Handler] /\ HandlersOK'
        BY <1>0, <3>2, GotoOK DEF Places
      <3> QED BY <1>0, <3>2, <3>4, <3>5 DEF TypeOK, Kept, Types
    <2>3. CASE k.group \notin alive
      <3>1. Finish(r) /\ UNCHANGED tables
        BY <1>1, <1>3, <2>3 DEF InviteByPhone, tables
      <3> QED BY <1>0, <3>1, FinishOK, OnlyHandlers
    <2> QED BY <2>2, <2>3
  <1>4. CASE ClearPhoneInvite(r)
    <2>1. /\ k.op = "add" /\ k.at = "clear" /\ k.group \in Groups /\ k.target \in Users
      BY <1>1, <1>4 DEF ClearPhoneInvite, At, HandlerOK
    <2>2. invite' = [invite EXCEPT ![k.group][k.target] = NoInvite] /\ Goto(r, "check")
          /\ UNCHANGED <<registered, creator, alive, member, feed>>
      BY <1>1, <1>4 DEF ClearPhoneInvite, WithoutPhone
    <2>3. invite' \in [Groups -> [Users -> InviteRow \cup {NoInvite}]] /\ TablesOK'
      BY <1>0, <2>1, <2>2, InviteChangeOK
    <2>4. req' \in [Requests -> Handler] /\ HandlersOK'
      BY <1>0, <1>1, <2>1, <2>2, GotoOK DEF Places
    <2> QED BY <1>0, <2>2, <2>3, <2>4 DEF TypeOK, Kept, Types
  <1>5. CASE CheckMembership(r)
    <2>1. k.at = "check" /\ k.target \in Users
      BY <1>1, <1>5 DEF CheckMembership, At, HandlerOK
    <2>2. UNCHANGED tables /\ (Goto(r, "create") \/ Finish(r))
      BY <1>5 DEF CheckMembership
    <2>3. req' \in [Requests -> Handler] /\ HandlersOK'
      BY <1>0, <1>1, <2>1, <2>2, GotoOK, FinishOK DEF Places
    <2> QED BY <1>0, <2>2, <2>3, OnlyHandlers
  <1>6. CASE CreateMembership(r)
    <2>1. /\ k.op = "add" /\ k.at = "create" /\ k.group \in Groups
          /\ k.target \in Users /\ k.actor \in Users /\ <<k.group, k.actor>> \in authority
      BY <1>1, <1>6 DEF CreateMembership, At, HandlerOK
    <2>2. CASE Insertable(k.group, k.target)
      <3>1. PICK row : row = PendingRow(k.actor)
        OBVIOUS
      <3>2. member' = [member EXCEPT ![k.group][k.target] = row] /\ Goto(r, "emit")
            /\ UNCHANGED <<registered, creator, alive, invite, feed>>
        BY <1>1, <1>6, <2>2, <3>1 DEF CreateMembership, SetTargetRow
      <3>3. row \in MemberRow
        BY <2>1, <3>1 DEF PendingRow, MemberRow, Roles
      <3>4. /\ k.group \in alive /\ row.role # "owner" /\ (row.status = "active" <=> row.joined)
            /\ <<k.group, row.addedBy>> \in authority'
        BY <2>1, <2>2, <3>1 DEF PendingRow, Insertable, Stable
      <3>5. k.target # creator[k.group]
        BY <1>0, <2>1, <2>2, <3>4 DEF Insertable, TablesOK, OneOwner, IsOwner, IsActive
      <3>6. member' \in [Groups -> [Users -> MemberRow \cup {NoRow}]] /\ TablesOK'
        BY <1>0, <2>1, <3>2, <3>3, <3>4, <3>5, RowChangeOK
      <3>7. req' \in [Requests -> Handler] /\ HandlersOK'
        BY <1>0, <3>2, GotoOK DEF Places
      <3> QED BY <1>0, <3>2, <3>6, <3>7 DEF TypeOK, Kept, Types
    <2>3. CASE ~Insertable(k.group, k.target)
      <3>1. Finish(r) /\ UNCHANGED tables
        BY <1>1, <1>6, <2>3 DEF CreateMembership, tables
      <3> QED BY <1>0, <3>1, FinishOK, OnlyHandlers
    <2> QED BY <2>2, <2>3
  <1> QED BY <1>2, <1>3, <1>4, <1>5, <1>6 DEF AddMember

-----------------------------------------------------------------------------
(* Reading, then writing the row of a member. *)
LEMMA ChangeKeeps ==
  ASSUME IInv, Stable, NEW r \in Requests, ChangeMember(r)
  PROVE  Kept'
  <1>0. TypeOK /\ TablesOK /\ HandlersOK
    BY DEF IInv
  <1>1. PICK k \in Handler : k = req[r] /\ HandlerOK(k)
    BY <1>0 DEF TypeOK, HandlersOK
  <1>2. CASE \E t \in Users : ReadForRemove(r, t)
    <2>1. PICK t \in Users : ReadForRemove(r, t)
      BY <1>2
    <2>2. PICK h : h = [k EXCEPT !.target = t, !.at = "write"]
      OBVIOUS
    <2>3. Begin(r, h) /\ UNCHANGED tables /\ k.op = "remove"
          /\ Removable(k.actor, t, k.role, member[k.group][t])
      BY <1>1, <2>1, <2>2 DEF ReadForRemove, At
    <2>4. k.group \in Groups
      BY <1>1, <2>3 DEF HandlerOK
    <2>5. t # creator[k.group]
      BY <2>3, <2>4, NotTheCreator DEF Removable
    <2>6. h \in Handler
      BY <2>2 DEF Handler, Places
    <2>7. HandlerOK(h)
      BY <1>1, <2>2, <2>3, <2>5 DEF HandlerOK, Writes, Handler
    <2> QED BY <1>0, <2>3, <2>6, <2>7, HandlerStable, BeginOK, OnlyHandlers
  <1>3. CASE \E t \in Users, role \in {"admin", "member"} : ReadForRole(r, t, role)
    <2>1. PICK t \in Users, role \in {"admin", "member"} : ReadForRole(r, t, role)
      BY <1>3
    <2>2. PICK h : h = [k EXCEPT !.target = t, !.role = role, !.at = "write"]
      OBVIOUS
    <2>3. Begin(r, h) /\ UNCHANGED tables /\ k.op = "role"
          /\ Changeable(role, member[k.group][t])
      BY <1>1, <2>1, <2>2 DEF ReadForRole, At
    <2>4. k.group \in Groups
      BY <1>1, <2>3 DEF HandlerOK
    <2>5. t # creator[k.group]
      BY <2>3, <2>4, NotTheCreator DEF Changeable, IsActive
    <2>6. h \in Handler
      BY <2>2 DEF Handler, Places, Roles
    <2>7. HandlerOK(h)
      BY <1>1, <2>2, <2>3, <2>5 DEF HandlerOK, Writes, Handler
    <2> QED BY <1>0, <2>3, <2>6, <2>7, HandlerStable, BeginOK, OnlyHandlers
  <1>4. CASE DeleteMembership(r)
    <2>1. /\ k.group \in Groups /\ k.target \in Users /\ k.target # creator[k.group]
          /\ member' = [member EXCEPT ![k.group][k.target] = NoRow] /\ Finish(r)
          /\ UNCHANGED <<registered, creator, alive, invite, feed>>
      BY <1>1, <1>4 DEF DeleteMembership, SetTargetRow, HandlerOK, Writes
    <2>2. member' \in [Groups -> [Users -> MemberRow \cup {NoRow}]] /\ TablesOK'
      BY <1>0, <2>1, RowChangeOK
    <2>3. req' \in [Requests -> Handler] /\ HandlersOK'
      BY <1>0, <2>1, FinishOK
    <2> QED BY <1>0, <2>1, <2>2, <2>3 DEF TypeOK, Kept, Types
  <1>5. CASE UpdateRole(r)
    <2>1. /\ k.group \in Groups /\ k.target \in Users /\ k.target # creator[k.group]
          /\ k.role \in {"admin", "member"} /\ Finish(r)
          /\ UNCHANGED <<registered, creator, alive, invite, feed>>
      BY <1>1, <1>5 DEF UpdateRole, At, HandlerOK, Writes
    <2>2. req' \in [Requests -> Handler] /\ HandlersOK'
      BY <1>0, <2>1, FinishOK
    <2>3. CASE member[k.group][k.target] # NoRow
      <3>1. PICK old \in MemberRow : old = member[k.group][k.target]
        BY <1>0, <2>1, <2>3 DEF TypeOK
      <3>2. PICK row : row = [old EXCEPT !.role = k.role]
        OBVIOUS
      <3>3. member' = [member EXCEPT ![k.group][k.target] = row]
        BY <1>1, <1>5, <2>3, <3>1, <3>2 DEF UpdateRole, TargetRow, SetTargetRow
      <3>4. row \in MemberRow
        BY <2>1, <3>2 DEF MemberRow, Roles
      <3>5. row.role = k.role /\ row.status = old.status /\ row.joined = old.joined
            /\ row.addedBy = old.addedBy
        BY <3>2 DEF MemberRow
      <3>6. k.group \in alive
        BY <1>0, <2>1, <2>3 DEF TablesOK, NoOrphans
      <3>7. /\ row.role # "owner"
            /\ row.status = "active" <=> row.joined
            /\ <<k.group, row.addedBy>> \in authority'
        BY <1>0, <2>1, <2>3, <3>1, <3>5 DEF TablesOK, JoinedIffActive, InvitedByAuthority, Stable
      <3>8. member' \in [Groups -> [Users -> MemberRow \cup {NoRow}]] /\ TablesOK'
        BY <1>0, <2>1, <3>3, <3>4, <3>6, <3>7, RowChangeOK
      <3> QED BY <1>0, <2>1, <2>2, <3>8 DEF TypeOK, Kept, Types
    <2>4. CASE member[k.group][k.target] = NoRow
      <3>1. UNCHANGED tables
        BY <1>1, <1>5, <2>1, <2>4 DEF UpdateRole, TargetRow, tables
      <3> QED BY <1>0, <2>2, <3>1, OnlyHandlers
    <2> QED BY <2>3, <2>4
  <1>6. CASE AcceptInvite(r)
    <2>1. /\ k.group \in Groups /\ k.target \in Users /\ k.target # creator[k.group]
          /\ UNCHANGED <<registered, creator, alive, invite, feed>>
      BY <1>1, <1>6 DEF AcceptInvite, At, HandlerOK, Writes
    <2>2. CASE member[k.group][k.target] # NoRow
      <3>1. PICK old \in MemberRow : old = member[k.group][k.target]
        BY <1>0, <2>1, <2>2 DEF TypeOK
      <3>2. PICK row : row = Activated(old)
        OBVIOUS
      <3>3. member' = [member EXCEPT ![k.group][k.target] = row] /\ Goto(r, "emit")
        BY <1>1, <1>6, <2>2, <3>1, <3>2 DEF AcceptInvite, TargetRow, SetTargetRow
      <3>4. row \in MemberRow
        BY <3>2 DEF MemberRow, Activated
      <3>5. row.role = old.role /\ row.status = "active" /\ row.joined
            /\ row.addedBy = old.addedBy
        BY <3>2 DEF MemberRow, Activated
      <3>6. k.group \in alive
        BY <1>0, <2>1, <2>2 DEF TablesOK, NoOrphans
      <3>7. row.role # "owner" /\ <<k.group, row.addedBy>> \in authority'
        BY <1>0, <2>1, <2>2, <3>1, <3>5, <3>6 DEF TablesOK, OneOwner, InvitedByAuthority, Stable
      <3>8. member' \in [Groups -> [Users -> MemberRow \cup {NoRow}]] /\ TablesOK'
        BY <1>0, <2>1, <3>3, <3>4, <3>5, <3>6, <3>7, RowChangeOK
      <3>9. req' \in [Requests -> Handler] /\ HandlersOK'
        BY <1>0, <3>3, GotoOK DEF Places
      <3> QED BY <1>0, <2>1, <3>8, <3>9 DEF TypeOK, Kept, Types
    <2>3. CASE member[k.group][k.target] = NoRow
      <3>1. UNCHANGED tables /\ Finish(r)
        BY <1>1, <1>6, <2>1, <2>3 DEF AcceptInvite, TargetRow, tables
      <3> QED BY <1>0, <3>1, FinishOK, OnlyHandlers
    <2> QED BY <2>2, <2>3
  <1>7. CASE DeleteGroup(r)
    <2>1. PICK g \in Groups : g = k.group
      BY <1>1, <1>7 DEF DeleteGroup, At, HandlerOK
    <2>2. /\ alive' = alive \ {g} /\ feed' = feed \ {g} /\ Finish(r)
          /\ member' = [member EXCEPT ![g] = [u \in Users |-> NoRow]]
          /\ invite' = [invite EXCEPT ![g] = [u \in Users |-> NoInvite]]
          /\ UNCHANGED <<registered, creator>>
      BY <1>1, <1>7, <2>1 DEF DeleteGroup, InvitesWithout
    <2>3. /\ \A h \in Groups, u \in Users :
               /\ member'[h][u] = IF h = g THEN NoRow ELSE member[h][u]
               /\ invite'[h][u] = IF h = g THEN NoInvite ELSE invite[h][u]
      BY <1>0, <2>2 DEF TypeOK
    <2>4. Types'
      <3>1. [u \in Users |-> NoRow] \in [Users -> MemberRow \cup {NoRow}]
        OBVIOUS
      <3>2. [u \in Users |-> NoInvite] \in [Users -> InviteRow \cup {NoInvite}]
        OBVIOUS
      <3>3. req' \in [Requests -> Handler]
        BY <1>0, <2>2, FinishOK
      <3> QED BY <1>0, <2>2, <3>1, <3>2, <3>3 DEF TypeOK, Types
    <2>5. HandlersOK'
      BY <1>0, <2>2, FinishOK
    <2>6. CreatorOK'
      BY <1>0, <2>2 DEF TablesOK, CreatorOK
    <2>7. OneOwner'
      <3> SUFFICES ASSUME NEW h \in alive \ {g}, NEW v \in Users
                   PROVE  IF v = creator[h] THEN IsOwner(member'[h][v])
                          ELSE member'[h][v] # NoRow => member'[h][v].role # "owner"
        BY <2>2 DEF OneOwner, IsOwner, IsActive
      <3>1. h \in Groups
        BY <1>0 DEF TypeOK
      <3>2. member'[h][v] = member[h][v]
        BY <2>3, <3>1
      <3> QED BY <1>0, <3>2 DEF TablesOK, OneOwner
    <2>8. NoOrphans'
      BY <1>0, <2>2, <2>3 DEF TablesOK, NoOrphans
    <2>9. JoinedIffActive'
      BY <1>0, <2>3 DEF TablesOK, JoinedIffActive
    <2>10. InvitedByAuthority'
      <3> SUFFICES ASSUME NEW h \in Groups, NEW v \in Users
                   PROVE  /\ member'[h][v] # NoRow /\ v # creator[h] =>
                               <<h, member'[h][v].addedBy>> \in authority'
                          /\ invite'[h][v] # NoInvite => <<h, invite'[h][v].by>> \in authority'
        BY <2>2 DEF InvitedByAuthority
      <3> QED BY <1>0, <2>3 DEF TablesOK, InvitedByAuthority, Stable
    <2> QED BY <2>4, <2>5, <2>6, <2>7, <2>8, <2>9, <2>10 DEF Kept, TablesOK
  <1> QED BY <1>2, <1>3, <1>4, <1>5, <1>6, <1>7 DEF ChangeMember

-----------------------------------------------------------------------------
LEMMA EmitKeeps ==
  ASSUME IInv, Stable, NEW r \in Requests, Emit(r)
  PROVE  Kept'
  <1>1. feed' \subseteq feed \cup alive /\ Finish(r)
        /\ UNCHANGED <<registered, creator, alive, member, invite>>
    BY DEF Emit
  <1>2. feed' \in SUBSET Groups /\ TablesOK'
    BY <1>1, FeedChangeOK DEF IInv
  <1>3. req' \in [Requests -> Handler] /\ HandlersOK'
    BY <1>1, FinishOK DEF IInv
  <1> QED BY <1>1, <1>2, <1>3 DEF IInv, TypeOK, Kept, Types

LEMMA FailKeeps ==
  ASSUME IInv, Stable, NEW r \in Requests, Fail(r)
  PROVE  Kept'
  BY FinishOK, OnlyHandlers DEF IInv, Fail

LEMMA ExpireKeeps ==
  ASSUME IInv, Stable, NEW g \in Groups, NEW u \in Users, Expire(g, u)
  PROVE  Kept'
  <1>1. PICK old \in InviteRow : old = invite[g][u]
    BY DEF Expire, IInv, TypeOK
  <1>2. PICK i : i = [old EXCEPT !.expired = TRUE]
    OBVIOUS
  <1>3. i \in InviteRow /\ i.by = old.by
    BY <1>2 DEF InviteRow
  <1>4. invite' = [invite EXCEPT ![g][u] = i]
        /\ UNCHANGED <<registered, creator, alive, member, feed, req>>
    BY <1>1, <1>2 DEF Expire
  <1>5. g \in alive /\ <<g, i.by>> \in authority'
    BY <1>1, <1>3 DEF Expire, IInv, TablesOK, NoOrphans, InvitedByAuthority, Stable
  <1>6. invite' \in [Groups -> [Users -> InviteRow \cup {NoInvite}]] /\ TablesOK'
    BY <1>3, <1>4, <1>5, InviteChangeOK DEF IInv
  <1>7. HandlersOK'
    <2> SUFFICES ASSUME NEW s \in Requests PROVE HandlerOK(req[s])'
      BY DEF HandlersOK
    <2>1. PICK k \in Handler : k = req[s]
      BY DEF IInv, TypeOK
    <2>2. HandlerOK(k)'
      BY <2>1, HandlerStable DEF IInv, HandlersOK
    <2> QED BY <1>4, <2>1, <2>2 DEF HandlerOK
  <1> QED BY <1>4, <1>6, <1>7 DEF IInv, TypeOK, Kept, Types

(* The fields of the row an invitation becomes. *)
LEMMA PendingFields ==
  ASSUME NEW by
  PROVE  LET row == PendingRow(by) IN
         row.role = "member" /\ row.status = "pending" /\ ~row.joined /\ row.addedBy = by
  BY DEF PendingRow

(* The claim transaction: at its commit the rows it creates are new, so none *)
(* is a creator's, and their inviters are those of the invites it read.      *)
LEMMA CommitKeeps ==
  ASSUME IInv, Stable, NEW r \in Requests, CommitClaim(r)
  PROVE  Kept'
  <1>0. TypeOK /\ TablesOK /\ HandlersOK
    BY DEF IInv
  <1>1. PICK k \in Handler : k = req[r] /\ HandlerOK(k)
    BY <1>0 DEF TypeOK, HandlersOK
  <1>2. PICK u \in Users : u = k.actor
    BY <1>1 DEF CommitClaim, At, HandlerOK
  <1>3. PICK made : made = {c.group : c \in k.fresh}
    OBVIOUS
  <1>4. PICK gone : gone = {c.group : c \in k.held}
    OBVIOUS
  <1>5. PICK inviter : inviter =
          [g \in Groups |-> (CHOOSE c \in k.fresh : c.group = g).by]
    OBVIOUS
  <1>6. /\ member' = [g \in Groups |-> IF g \in made
                        THEN [member[g] EXCEPT ![u] = PendingRow(inviter[g])] ELSE member[g]]
        /\ invite' = [g \in Groups |-> IF g \in gone
                        THEN [invite[g] EXCEPT ![u] = NoInvite] ELSE invite[g]]
        /\ Finish(r)
        /\ UNCHANGED <<registered, creator, alive, feed>>
    BY <1>1, <1>2, <1>3, <1>4, <1>5 DEF CommitClaim
  <1>7. ASSUME NEW g \in made
        PROVE  /\ g \in Groups /\ inviter[g] \in Users /\ <<g, inviter[g]>> \in authority'
               /\ member[g][u] = NoRow /\ g \in alive /\ u # creator[g]
    <2>1. PICK c \in k.fresh : c.group = g /\ c = (CHOOSE d \in k.fresh : d.group = g)
      BY <1>3
    <2>2. c \in Claimed /\ c \in k.held
      BY <1>1, <2>1 DEF Handler, HandlerOK
    <2>3. g \in Groups /\ inviter[g] = c.by /\ inviter[g] \in Users
      BY <1>5, <2>1, <2>2 DEF Claimed
    <2>4. <<g, inviter[g]>> \in authority'
      BY <1>1, <2>1, <2>2, <2>3 DEF HandlerOK, Stable
    <2>5. member[g][u] = NoRow /\ g \in alive
      BY <1>1, <1>2, <2>1 DEF CommitClaim, Commits, Insertable
    <2>6. u # creator[g]
      BY <1>0, <2>5 DEF TablesOK, OneOwner, IsOwner, IsActive
    <2> QED BY <2>3, <2>4, <2>5, <2>6
  <1>8. ASSUME NEW g \in Groups, NEW v \in Users
        PROVE  /\ member'[g][v] = IF g \in made /\ v = u THEN PendingRow(inviter[g])
                                  ELSE member[g][v]
               /\ invite'[g][v] = IF g \in gone /\ v = u THEN NoInvite ELSE invite[g][v]
    BY <1>0, <1>6 DEF TypeOK
  <1>9. ASSUME NEW g \in made PROVE PendingRow(inviter[g]) \in MemberRow
    BY <1>7 DEF PendingRow, MemberRow, Roles
  <1>10. member' \in [Groups -> [Users -> MemberRow \cup {NoRow}]]
    BY <1>0, <1>6, <1>9 DEF TypeOK
  <1>11. invite' \in [Groups -> [Users -> InviteRow \cup {NoInvite}]]
    BY <1>0, <1>6 DEF TypeOK
  <1>12. req' \in [Requests -> Handler] /\ HandlersOK'
    BY <1>0, <1>6, FinishOK
  <1>13. CreatorOK'
    BY <1>0, <1>6 DEF TablesOK, CreatorOK
  <1>14. OneOwner'
    <2> SUFFICES ASSUME NEW g \in alive, NEW v \in Users
                 PROVE  IF v = creator[g] THEN IsOwner(member'[g][v])
                        ELSE member'[g][v] # NoRow => member'[g][v].role # "owner"
      BY <1>6 DEF OneOwner, IsOwner, IsActive
    <2>1. g \in Groups
      BY <1>0 DEF TypeOK
    <2>2. CASE g \in made /\ v = u
      <3>1. member'[g][v] = PendingRow(inviter[g])
        BY <1>8, <2>1, <2>2
      <3> QED BY <1>7, <2>2, <3>1, PendingFields
    <2>3. CASE ~(g \in made /\ v = u)
      <3>1. member'[g][v] = member[g][v]
        BY <1>8, <2>1, <2>3
      <3> QED BY <1>0, <3>1 DEF TablesOK, OneOwner
    <2> QED BY <2>2, <2>3
  <1>15. NoOrphans'
    <2> SUFFICES ASSUME NEW g \in Groups \ alive
                 PROVE  /\ g \notin feed
                        /\ \A v \in Users : member'[g][v] = NoRow /\ invite'[g][v] = NoInvite
      BY <1>6 DEF NoOrphans
    <2>1. g \notin made
      BY <1>7
    <2> QED BY <1>0, <1>8, <2>1 DEF TablesOK, NoOrphans
  <1>16. JoinedIffActive'
    <2> SUFFICES ASSUME NEW g \in Groups, NEW v \in Users, member'[g][v] # NoRow
                 PROVE  member'[g][v].status = "active" <=> member'[g][v].joined
      BY DEF JoinedIffActive
    <2>1. CASE g \in made /\ v = u
      <3>1. member'[g][v] = PendingRow(inviter[g])
        BY <1>8, <2>1
      <3> QED BY <3>1, PendingFields
    <2>2. CASE ~(g \in made /\ v = u)
      <3>1. member'[g][v] = member[g][v]
        BY <1>8, <2>2
      <3> QED BY <1>0, <3>1 DEF TablesOK, JoinedIffActive
    <2> QED BY <2>1, <2>2
  <1>17. InvitedByAuthority'
    <2> SUFFICES ASSUME NEW g \in Groups, NEW v \in Users
                 PROVE  /\ member'[g][v] # NoRow /\ v # creator[g] =>
                             <<g, member'[g][v].addedBy>> \in authority'
                        /\ invite'[g][v] # NoInvite => <<g, invite'[g][v].by>> \in authority'
      BY <1>6 DEF InvitedByAuthority
    <2>1. invite'[g][v] # NoInvite => <<g, invite'[g][v].by>> \in authority'
      BY <1>0, <1>8 DEF TablesOK, InvitedByAuthority, Stable
    <2>2. CASE g \in made /\ v = u
      <3>1. member'[g][v] = PendingRow(inviter[g])
        BY <1>8, <2>2
      <3> QED BY <1>7, <2>1, <2>2, <3>1, PendingFields
    <2>3. CASE ~(g \in made /\ v = u)
      <3>1. member'[g][v] = member[g][v]
        BY <1>8, <2>3
      <3> QED BY <1>0, <2>1, <3>1 DEF TablesOK, InvitedByAuthority, Stable
    <2> QED BY <2>2, <2>3
  <1>18. Types'
    BY <1>0, <1>6, <1>10, <1>11, <1>12 DEF TypeOK, Types
  <1> QED BY <1>12, <1>13, <1>14, <1>15, <1>16, <1>17, <1>18 DEF Kept, TablesOK

LEMMA ClaimKeeps ==
  ASSUME IInv, Stable, NEW r \in Requests, Claim(r)
  PROVE  Kept'
  <1>0. TypeOK /\ TablesOK /\ HandlersOK
    BY DEF IInv
  <1>1. PICK k \in Handler : k = req[r] /\ HandlerOK(k)
    BY <1>0 DEF TypeOK, HandlersOK
  <1>2. CASE ListInvites(r)
    <2>1. PICK found : found = Claimable(k.actor)
      OBVIOUS
    <2>2. k.op = "login" /\ UNCHANGED tables /\ k.actor \in Users
      BY <1>1, <1>2 DEF ListInvites, At, HandlerOK
    <2>3. CASE found = {}
      <3>1. Finish(r)
        BY <1>1, <1>2, <2>1, <2>3 DEF ListInvites
      <3> QED BY <1>0, <2>2, <3>1, FinishOK, OnlyHandlers
    <2>4. CASE found # {}
      <3>1. PICK h : h = [k EXCEPT !.held = found, !.todo = found, !.fresh = {}, !.at = "look"]
        OBVIOUS
      <3>2. Begin(r, h)
        BY <1>1, <1>2, <2>1, <2>4, <3>1 DEF ListInvites
      <3>3. found \subseteq Claimed
        BY <2>1 DEF Claimable
      <3>4. h \in Handler
        BY <3>1, <3>3 DEF Handler, Places
      <3>5. \A c \in found : <<c.group, c.by>> \in authority
        BY <1>0, <2>1, <2>2 DEF Claimable, Claimed, TablesOK, InvitedByAuthority
      <3>7. HandlerOK(h)
        BY <1>1, <2>2, <3>1, <3>5 DEF HandlerOK, Writes, Handler
      <3> QED BY <1>0, <2>2, <3>2, <3>4, <3>7, HandlerStable, BeginOK, OnlyHandlers
    <2> QED BY <2>3, <2>4
  <1>3. CASE \E c \in Claimed : LookUp(r, c)
    <2>1. PICK c \in Claimed : LookUp(r, c)
      BY <1>3
    <2>2. PICK h : h = [k EXCEPT !.todo = k.todo \ {c},
             !.fresh = IF member[c.group][k.actor] = NoRow THEN k.fresh \cup {c} ELSE k.fresh]
      OBVIOUS
    <2>3. Begin(r, h) /\ UNCHANGED tables /\ k.op = "login" /\ k.at = "look" /\ c \in k.todo
      BY <1>1, <2>1, <2>2 DEF LookUp, At, Handler
    <2>4. h \in Handler
      BY <2>2 DEF Handler
    <2>5. HandlerOK(h)
      BY <1>1, <2>2, <2>3 DEF HandlerOK, Writes, Handler
    <2> QED BY <1>0, <2>3, <2>4, <2>5, HandlerStable, BeginOK, OnlyHandlers
  <1>4. CASE CommitClaim(r)
    BY <1>4, CommitKeeps
  <1>5. CASE RollBackClaim(r)
    BY <1>0, <1>5, FinishOK, OnlyHandlers DEF RollBackClaim
  <1> QED BY <1>2, <1>3, <1>4, <1>5 DEF Claim

-----------------------------------------------------------------------------
LEMMA InitOK == Init => IInv
  <1> SUFFICES ASSUME Init PROVE IInv
    OBVIOUS
  <1>1. Idle \in Handler /\ HandlerOK(Idle)
    BY IdleHandler
  <1>2. TypeOK
    BY <1>1 DEF Init, TypeOK
  <1>3. HandlersOK
    BY <1>1 DEF Init, HandlersOK, HandlerOK
  <1>4. TablesOK
    BY DEF Init, TablesOK, CreatorOK, OneOwner, NoOrphans, JoinedIffActive, InvitedByAuthority
  <1>5. PowersRecorded
    BY DEF Init, PowersRecorded, Powers, IsAdminOrOwner, IsActive
  <1> QED BY <1>2, <1>3, <1>4, <1>5 DEF IInv

LEMMA NextStable ==
  ASSUME IInv, Next
  PROVE  Stable
  <1>1. authority \subseteq authority'
    BY DEF Next
  <1>2. CASE creator' = creator
    BY <1>1, <1>2 DEF Stable
  <1>3. CASE \E r \in Requests, u \in Users, g \in Groups : CreateGroup(r, u, g)
    BY <1>1, <1>3 DEF Stable, CreateGroup, IInv, TypeOK
  <1>4. ASSUME NEW g \in Groups, NEW u \in Users, Expire(g, u) PROVE creator' = creator
    BY <1>4 DEF Expire
  <1>5. ASSUME NEW r \in Requests, Step(r), ~\E u \in Users, g \in Groups : CreateGroup(r, u, g)
        PROVE  creator' = creator
    <2>1. CASE Arrive(r)
      BY <1>5, <2>1 DEF Arrive, Login, Start, ReadInvite, tables
    <2>2. CASE AddMember(r)
      BY <2>2 DEF AddMember, FindTarget, InviteByPhone, ClearPhoneInvite, CheckMembership,
                  CreateMembership, tables
    <2>3. CASE ChangeMember(r)
      BY <2>3 DEF ChangeMember, ReadForRemove, ReadForRole, DeleteMembership, UpdateRole,
                  AcceptInvite, DeleteGroup, tables
    <2>4. CASE Emit(r) \/ Fail(r)
      BY <2>4 DEF Emit, Fail, tables
    <2>5. CASE Claim(r)
      BY <2>5 DEF Claim, ListInvites, LookUp, CommitClaim, RollBackClaim, tables
    <2> QED BY <1>5, <2>1, <2>2, <2>3, <2>4, <2>5 DEF Step
  <1> QED BY <1>2, <1>3, <1>4, <1>5 DEF Next

LEMMA StepOK == IInv /\ [Next]_vars => IInv'
  <1> SUFFICES ASSUME IInv, [Next]_vars PROVE IInv'
    OBVIOUS
  <1>1. CASE Next
    <2>1. Stable
      BY <1>1, NextStable
    <2>2. Kept'
      <3>1. ASSUME NEW g \in Groups, NEW u \in Users, Expire(g, u) PROVE Kept'
        BY <2>1, <3>1, ExpireKeeps
      <3>2. ASSUME NEW r \in Requests, Step(r) PROVE Kept'
        <4>1. CASE Arrive(r)
          BY <2>1, <4>1, LoginKeeps, CreateGroupKeeps, StartKeeps, ReadInviteKeeps DEF Arrive
        <4>2. CASE AddMember(r)
          BY <2>1, <4>2, AddKeeps
        <4>3. CASE ChangeMember(r)
          BY <2>1, <4>3, ChangeKeeps
        <4>4. CASE Emit(r) \/ Fail(r)
          BY <2>1, <4>4, EmitKeeps, FailKeeps
        <4>5. CASE Claim(r)
          BY <2>1, <4>5, ClaimKeeps
        <4> QED BY <3>2, <4>1, <4>2, <4>3, <4>4, <4>5 DEF Step
      <3> QED BY <1>1, <3>1, <3>2 DEF Next
    <2>3. Powers(member') \subseteq authority'
      BY <1>1 DEF Next
    <2>4. authority' \in SUBSET (Groups \X Users)
      BY <1>1 DEF Next, Powers, IInv, TypeOK
    <2>5. PowersRecorded'
      BY <2>3 DEF PowersRecorded, Powers, IsAdminOrOwner, IsActive
    <2> QED BY <2>2, <2>4, <2>5 DEF Kept, Types, TypeOK, IInv
  <1>2. CASE UNCHANGED vars
    <2>1. Stable
      BY <1>2 DEF Stable, vars
    <2>2. HandlersOK'
      <3> SUFFICES ASSUME NEW s \in Requests PROVE HandlerOK(req[s])'
        BY DEF HandlersOK
      <3>1. PICK k \in Handler : k = req[s]
        BY DEF IInv, TypeOK
      <3>2. HandlerOK(k)'
        BY <2>1, <3>1, HandlerStable DEF IInv, HandlersOK
      <3> QED BY <1>2, <3>1, <3>2 DEF HandlerOK, vars
    <2>3. Kept'
      BY <1>2, <2>1, <2>2, OnlyHandlers DEF IInv, TypeOK, vars, tables
    <2>4. PowersRecorded'
      BY <1>2 DEF IInv, PowersRecorded, Powers, IsAdminOrOwner, IsActive, vars
    <2> QED BY <1>2, <2>3, <2>4 DEF Kept, Types, TypeOK, IInv, vars
  <1> QED BY <1>1, <1>2

LEMMA Inductive == Spec => []IInv
  BY InitOK, StepOK, PTL DEF Spec

-----------------------------------------------------------------------------
(* The tables and the handlers keep their types, for any number of requests. *)
THEOREM GroupTypeCorrect == Spec => []TypeOK
  <1>1. IInv => TypeOK
    BY DEF IInv
  <1> QED BY <1>1, Inductive, PTL

(* A group that exists has its creator as its only owner, active, whatever   *)
(* stale checks of removeMember, updateMemberRole or decline overlap.        *)
THEOREM ExactlyOneOwner == Spec => []OneOwner
  <1>1. IInv => OneOwner
    BY DEF IInv, TablesOK
  <1> QED BY <1>1, Inductive, PTL

(* deleteMine leaves nothing behind, and no handler in flight (addMember, the *)
(* claim, the feed) brings a row of the group back.                           *)
THEOREM NothingLeftOfAGroup == Spec => []NoOrphans
  <1>1. IInv => NoOrphans
    BY DEF IInv, TablesOK
  <1> QED BY <1>1, Inductive, PTL

(* A membership has joinedAt exactly when it is active.                      *)
THEOREM JoinedExactlyIfActive == Spec => []JoinedIffActive
  <1>1. IInv => JoinedIffActive
    BY DEF IInv, TablesOK
  <1> QED BY <1>1, Inductive, PTL

(* Each membership and phone invite goes back to someone who has been an     *)
(* active admin or the owner of that group.                                  *)
THEOREM InvitationsAreAuthorised == Spec => []InvitedByAuthority
  <1>1. IInv => InvitedByAuthority
    BY DEF IInv, TablesOK
  <1> QED BY <1>1, Inductive, PTL

-----------------------------------------------------------------------------
(* How one membership row can change in a step. *)
Untouched(g, u) == member'[g][u] = member[g][u] \/ member'[g][u] = NoRow
Arrives(g, u) ==
  /\ member[g][u] = NoRow
  /\ (creator[g] = NoUser /\ creator'[g] = u) \/ ~IsActive(member'[g][u])
Rewritten(r, g, u, row) ==
  /\ req[r].group = g /\ req[r].target = u
  /\ member[g][u] # NoRow /\ member'[g][u] = row

Promoted(r, g, u) ==
  UpdateRole(r) /\ Rewritten(r, g, u, [member[g][u] EXCEPT !.role = req[r].role])
Accepted(r, g, u) ==
  AcceptInvite(r) /\ Rewritten(r, g, u, Activated(member[g][u]))

LEMMA RowStep ==
  ASSUME IInv, Next, NEW g \in Groups, NEW u \in Users
  PROVE  \/ Untouched(g, u) \/ Arrives(g, u)
         \/ \E r \in Requests : Promoted(r, g, u) \/ Accepted(r, g, u)
  <1>0. TypeOK /\ HandlersOK
    BY DEF IInv
  <1>1. CASE member' = member
    BY <1>1 DEF Untouched
  <1>2. ASSUME NEW r \in Requests, NEW v \in Users, NEW h \in Groups, CreateGroup(r, v, h)
        PROVE  Untouched(g, u) \/ Arrives(g, u)
    <2>1. CASE g # h \/ u # v
      BY <1>0, <1>2, <2>1 DEF CreateGroup, TypeOK, Untouched
    <2>2. CASE g = h /\ u = v
      <3>1. creator[g] = NoUser /\ creator'[g] = u
        BY <1>0, <1>2, <2>2 DEF CreateGroup, TypeOK
      <3>2. member[g][u] = NoRow
        BY <3>1, NullAssumption DEF IInv, TablesOK, CreatorOK, NoOrphans
      <3> QED BY <3>1, <3>2 DEF Arrives
    <2> QED BY <2>1, <2>2
  <1>3. ASSUME NEW r \in Requests, CreateMembership(r)
        PROVE  Untouched(g, u) \/ Arrives(g, u)
    <2>1. PICK k \in Handler : k = req[r] /\ HandlerOK(k) /\ k.op = "add" /\ k.at = "create"
      BY <1>0, <1>3 DEF TypeOK, HandlersOK, CreateMembership, At
    <2>2. k.group \in Groups /\ k.target \in Users
      BY <2>1 DEF HandlerOK
    <2>3. CASE Insertable(k.group, k.target) /\ g = k.group /\ u = k.target
      <3>1. member'[g][u] = PendingRow(k.actor) /\ member[g][u] = NoRow
        BY <1>0, <1>3, <2>1, <2>2, <2>3 DEF CreateMembership, SetTargetRow, TypeOK, Insertable
      <3> QED BY <3>1, PendingFields DEF Arrives, IsActive
    <2>4. CASE ~(Insertable(k.group, k.target) /\ g = k.group /\ u = k.target)
      BY <1>0, <1>3, <2>1, <2>2, <2>4 DEF CreateMembership, SetTargetRow, TypeOK, Untouched
    <2> QED BY <2>3, <2>4
  <1>4. ASSUME NEW r \in Requests, DeleteMembership(r)
        PROVE  Untouched(g, u)
    BY <1>0, <1>4 DEF DeleteMembership, SetTargetRow, TypeOK, Untouched
  <1>5. ASSUME NEW r \in Requests, DeleteGroup(r)
        PROVE  Untouched(g, u)
    BY <1>0, <1>5 DEF DeleteGroup, TypeOK, Untouched
  <1>6. ASSUME NEW r \in Requests, UpdateRole(r)
        PROVE  Untouched(g, u) \/ Promoted(r, g, u)
    <2>1. CASE member[g][u] # NoRow /\ g = req[r].group /\ u = req[r].target
      BY <1>0, <1>6, <2>1 DEF UpdateRole, SetTargetRow, TargetRow, TypeOK, Rewritten, Promoted
    <2>2. CASE ~(member[g][u] # NoRow /\ g = req[r].group /\ u = req[r].target)
      BY <1>0, <1>6, <2>2 DEF UpdateRole, SetTargetRow, TargetRow, TypeOK, Untouched
    <2> QED BY <2>1, <2>2
  <1>7. ASSUME NEW r \in Requests, AcceptInvite(r)
        PROVE  Untouched(g, u) \/ Accepted(r, g, u)
    <2>1. CASE member[g][u] # NoRow /\ g = req[r].group /\ u = req[r].target
      BY <1>0, <1>7, <2>1 DEF AcceptInvite, SetTargetRow, TargetRow, TypeOK, Rewritten, Accepted
    <2>2. CASE ~(member[g][u] # NoRow /\ g = req[r].group /\ u = req[r].target)
      BY <1>0, <1>7, <2>2 DEF AcceptInvite, SetTargetRow, TargetRow, TypeOK, Untouched
    <2> QED BY <2>1, <2>2
  <1>8. ASSUME NEW r \in Requests, CommitClaim(r)
        PROVE  Untouched(g, u) \/ Arrives(g, u)
    <2>1. PICK k \in Handler : k = req[r] /\ HandlerOK(k)
      BY <1>0 DEF TypeOK, HandlersOK
    <2>2. k.actor \in Users
      BY <1>8, <2>1 DEF CommitClaim, At, HandlerOK
    <2>3. CASE u = k.actor /\ \E c \in k.fresh : c.group = g
      <3>1. member[g][u] = NoRow
        BY <1>8, <2>1, <2>3 DEF CommitClaim, Commits, Insertable
      <3>2. \E by : member'[g][u] = PendingRow(by)
        BY <1>0, <1>8, <2>1, <2>3 DEF CommitClaim, TypeOK
      <3> QED BY <3>1, <3>2, PendingFields DEF Arrives, IsActive
    <2>4. CASE ~(u = k.actor /\ \E c \in k.fresh : c.group = g)
      BY <1>0, <1>8, <2>1, <2>2, <2>4 DEF CommitClaim, TypeOK, Untouched
    <2> QED BY <2>3, <2>4
  <1>9. ASSUME NEW r \in Requests, Step(r)
        PROVE  \/ member' = member
               \/ \E v \in Users, h \in Groups : CreateGroup(r, v, h)
               \/ CreateMembership(r) \/ DeleteMembership(r) \/ DeleteGroup(r)
               \/ UpdateRole(r) \/ AcceptInvite(r) \/ CommitClaim(r)
    <2>1. CASE Arrive(r)
      BY <2>1 DEF Arrive, Login, Start, ReadInvite, tables
    <2>2. CASE AddMember(r)
      BY <2>2 DEF AddMember, FindTarget, InviteByPhone, ClearPhoneInvite, CheckMembership, tables
    <2>3. CASE ChangeMember(r)
      BY <2>3 DEF ChangeMember, ReadForRemove, ReadForRole, tables
    <2>4. CASE Emit(r) \/ Fail(r)
      BY <2>4 DEF Emit, Fail, tables
    <2>5. CASE Claim(r)
      BY <2>5 DEF Claim, ListInvites, LookUp, RollBackClaim, tables
    <2> QED BY <1>9, <2>1, <2>2, <2>3, <2>4, <2>5 DEF Step
  <1>10. ASSUME NEW h \in Groups, NEW v \in Users, Expire(h, v) PROVE member' = member
    BY <1>10 DEF Expire
  <1>11. ASSUME NEW r \in Requests, Step(r)
         PROVE  \/ Untouched(g, u) \/ Arrives(g, u)
                \/ Promoted(r, g, u) \/ Accepted(r, g, u)
    <2>1. \/ member' = member
          \/ \E v \in Users, h \in Groups : CreateGroup(r, v, h)
          \/ CreateMembership(r) \/ DeleteMembership(r) \/ DeleteGroup(r)
          \/ UpdateRole(r) \/ AcceptInvite(r) \/ CommitClaim(r)
      BY <1>9, <1>11
    <2>2. CASE \E v \in Users, h \in Groups : CreateGroup(r, v, h)
      BY <1>2, <2>2
    <2>3. CASE CreateMembership(r) \/ CommitClaim(r)
      BY <1>3, <1>8, <2>3
    <2>4. CASE DeleteMembership(r) \/ DeleteGroup(r)
      BY <1>4, <1>5, <2>4
    <2>5. CASE UpdateRole(r) \/ AcceptInvite(r)
      BY <1>6, <1>7, <2>5
    <2>6. CASE member' = member
      BY <2>6 DEF Untouched
    <2> QED BY <2>1, <2>2, <2>3, <2>4, <2>5, <2>6
  <1>12. CASE \E r \in Requests : Step(r)
    <2>1. PICK r \in Requests : Step(r)
      BY <1>12
    <2> QED BY <1>11, <2>1
  <1>13. CASE \E h \in Groups, v \in Users : Expire(h, v)
    BY <1>1, <1>10, <1>13
  <1> QED BY <1>12, <1>13 DEF Next

(* A role changes only at the write of a role change whose caller is still   *)
(* the owner: no stale requireOwner check lets somebody else do it.          *)
THEOREM OwnerChangesRoles == Spec => RoleChangesByOwner
  <1>1. ASSUME IInv, Next, NEW g \in Groups, NEW u \in Users,
               member[g][u] # NoRow, member'[g][u] # NoRow,
               member[g][u].role # member'[g][u].role
        PROVE  \E r \in Requests : /\ At(r, "role", "write") /\ req[r].group = g
                                   /\ IsOwner(member[g][req[r].actor])
    <2>1. ASSUME NEW r \in Requests, Rewritten(r, g, u, Activated(member[g][u]))
          PROVE  FALSE
      <3>1. PICK old \in MemberRow : old = member[g][u]
        BY <1>1 DEF IInv, TypeOK
      <3> QED BY <1>1, <2>1, <3>1 DEF Rewritten, Activated, MemberRow
    <2>2. PICK r \in Requests : UpdateRole(r) /\ req[r].group = g
      <3>1. ~Untouched(g, u) /\ ~Arrives(g, u)
        BY <1>1 DEF Untouched, Arrives
      <3>2. PICK r \in Requests : Promoted(r, g, u) \/ Accepted(r, g, u)
        BY <1>1, <3>1, RowStep
      <3>3. Promoted(r, g, u)
        BY <2>1, <3>2 DEF Accepted
      <3> QED BY <3>3 DEF Promoted, Rewritten
    <2>3. At(r, "role", "write") /\ req[r].actor = creator[g]
      BY <1>1, <2>2 DEF UpdateRole, At, IInv, HandlersOK, HandlerOK
    <2>4. g \in alive
      BY <1>1 DEF IInv, TablesOK, NoOrphans
    <2>5. creator[g] \in Users
      BY <1>1, <2>4 DEF IInv, TablesOK, CreatorOK
    <2>6. IsOwner(member[g][creator[g]])
      BY <1>1, <2>4, <2>5 DEF IInv, TablesOK, OneOwner
    <2> QED BY <2>2, <2>3, <2>6
  <1>2. IInv /\ [Next]_vars =>
          [\A g \in Groups, u \in Users :
             LET old == member[g][u]
                 new == member'[g][u] IN
             old # NoRow /\ new # NoRow /\ old.role # new.role =>
               \E r \in Requests : /\ At(r, "role", "write") /\ req[r].group = g
                                   /\ IsOwner(member[g][req[r].actor])]_vars
    BY <1>1
  <1> QED BY <1>2, Inductive, PTL DEF Spec, RoleChangesByOwner

(* Nobody becomes an active member but by his own accept, or as the owner of *)
(* the group he creates.                                                     *)
THEOREM NoMembershipWithoutConsent == Spec => JoiningIsConsent
  <1>1. ASSUME IInv, Next, NEW g \in Groups, NEW u \in Users,
               ~IsActive(member[g][u]), IsActive(member'[g][u])
        PROVE  \/ creator[g] = NoUser /\ creator'[g] = u
               \/ \E r \in Requests : At(r, "accept", "write") /\ req[r].actor = u
    <2>1. ASSUME NEW r \in Requests, Promoted(r, g, u)
          PROVE  FALSE
      <3>1. PICK old \in MemberRow : old = member[g][u]
        BY <1>1, <2>1 DEF IInv, TypeOK, Rewritten, Promoted
      <3> QED BY <1>1, <2>1, <3>1 DEF Rewritten, Promoted, IsActive, MemberRow
    <2>2. CASE Untouched(g, u)
      BY <1>1, <2>2 DEF Untouched, IsActive
    <2>3. CASE Arrives(g, u)
      BY <1>1, <2>3 DEF Arrives
    <2>4. ASSUME NEW r \in Requests, AcceptInvite(r), req[r].target = u
          PROVE  At(r, "accept", "write") /\ req[r].actor = u
      BY <1>1, <2>4 DEF AcceptInvite, At, IInv, HandlersOK, HandlerOK
    <2>5. CASE \E r \in Requests : Accepted(r, g, u)
      <3>1. PICK r \in Requests : AcceptInvite(r) /\ req[r].target = u
        BY <2>5 DEF Accepted, Rewritten
      <3> QED BY <2>4, <3>1
    <2> QED BY <1>1, <2>1, <2>2, <2>3, <2>5, RowStep
  <1>2. IInv /\ [Next]_vars =>
          [\A g \in Groups, u \in Users :
             ~IsActive(member[g][u]) /\ IsActive(member'[g][u]) =>
               \/ creator[g] = NoUser /\ creator'[g] = u
               \/ \E r \in Requests : At(r, "accept", "write") /\ req[r].actor = u]_vars
    BY <1>1
  <1> QED BY <1>2, Inductive, PTL DEF Spec, JoiningIsConsent
-----------------------------------------------------------------------------
(* Phone invites.  Who takes one away works for somebody with an account:    *)
(* addMember clears that of a target it found, the claim those of its caller. *)
HasAccount(h) ==
  /\ h.at = "clear" => h.target \in registered
  /\ h.op = "login" => h.actor \in registered

AccountsOK == \A r \in Requests : HasAccount(req[r])

LEMMA AccountKept ==
  ASSUME TypeOK, AccountsOK, registered \subseteq registered',
         NEW r \in Requests, NEW h \in Handler, Begin(r, h), HasAccount(h)'
  PROVE  AccountsOK'
  <1> SUFFICES ASSUME NEW s \in Requests PROVE HasAccount(req[s])'
    BY DEF AccountsOK
  <1>1. CASE s = r
    <2>1. req'[s] = h
      BY <1>1 DEF Begin, TypeOK
    <2> QED BY <2>1 DEF HasAccount
  <1>2. CASE s # r
    <2>1. req'[s] = req[s]
      BY <1>2 DEF Begin, TypeOK
    <2> QED BY <2>1 DEF AccountsOK, HasAccount
  <1> QED BY <1>1, <1>2

LEMMA AccountOnTheWay ==
  ASSUME TypeOK, AccountsOK, registered \subseteq registered',
         NEW r \in Requests, NEW place \in Places, place # "clear", Goto(r, place)
  PROVE  AccountsOK'
  <1>1. PICK k \in Handler : k = req[r]
    BY DEF TypeOK
  <1>2. PICK h : h = [k EXCEPT !.at = place]
    OBVIOUS
  <1>3. h \in Handler /\ Begin(r, h)
    BY <1>1, <1>2 DEF Handler, Goto, Begin
  <1>4. HasAccount(h)'
    BY <1>1, <1>2 DEF Handler, AccountsOK, HasAccount
  <1> QED BY <1>3, <1>4, AccountKept

LEMMA AccountAtTheEnd ==
  ASSUME TypeOK, AccountsOK, registered \subseteq registered', NEW r \in Requests, Finish(r)
  PROVE  AccountsOK'
  <1>1. Begin(r, Idle) /\ HasAccount(Idle)'
    BY DEF Finish, Begin, Idle, HasAccount
  <1> QED BY <1>1, IdleHandler, AccountKept

LEMMA AccountsStep == IInv /\ AccountsOK /\ [Next]_vars => AccountsOK'
  <1> SUFFICES ASSUME IInv, AccountsOK, [Next]_vars PROVE AccountsOK'
    OBVIOUS
  <1>0. TypeOK
    BY DEF IInv
  <1>1. ASSUME NEW r \in Requests, NEW u \in Users, Login(r, u)
        PROVE  AccountsOK'
    <2>1. PICK h \in Handler : h = NewHandler("login", u, NoGroup, NoUser, "list")
      BY DEF NewHandler, Idle, Handler, Ops, Places, Roles
    <2>2. HasAccount(h)'
      BY <1>1, <2>1 DEF Login, HasAccount, NewHandler, Idle
    <2> QED BY <1>0, <1>1, <2>1, <2>2, AccountKept DEF Login
  <1>2. ASSUME NEW r \in Requests, NEW u \in Users, NEW g \in Groups,
               NEW op \in {"add", "remove", "role", "delete"}, Start(r, op, u, g)
        PROVE  AccountsOK'
    <2>1. PICK h : h = [NewHandler(op, u, g, NoUser,
                          CASE op = "add" -> "target" [] op = "delete" -> "write" [] OTHER -> "read")
                        EXCEPT !.role = IF op = "remove" THEN member[g][u].role ELSE "member"]
      OBVIOUS
    <2>2. member[g][u].role \in Roles
      BY <1>0, <1>2 DEF Start, Permitted, IsAdminOrOwner, IsOwner, IsActive, TypeOK, MemberRow
    <2>3. h \in Handler
      BY <2>1, <2>2 DEF NewHandler, Idle, Handler, Ops, Places, Roles
    <2>4. h.at # "clear" /\ h.op # "login"
      BY <2>1 DEF NewHandler, Idle
    <2> QED BY <1>0, <1>2, <2>1, <2>3, <2>4, AccountKept DEF Start, tables, HasAccount
  <1>3. ASSUME NEW r \in Requests, NEW u \in Users, NEW g \in Groups,
               NEW op \in {"accept", "decline"}, ReadInvite(r, op, u, g)
        PROVE  AccountsOK'
    <2>1. PICK h \in Handler : h = NewHandler(op, u, g, u, "write")
      BY DEF NewHandler, Idle, Handler, Ops, Places, Roles
    <2>2. h.at # "clear" /\ h.op # "login"
      BY <2>1 DEF NewHandler, Idle
    <2> QED BY <1>0, <1>3, <2>1, <2>2, AccountKept DEF ReadInvite, tables, HasAccount
  <1>4. ASSUME NEW r \in Requests, NEW t \in Users, FindTarget(r, t)
        PROVE  AccountsOK'
    <2>1. PICK k \in Handler : k = req[r]
      BY <1>0 DEF TypeOK
    <2>2. PICK h : h = [k EXCEPT !.target = t,
                          !.at = IF t \in registered THEN "clear" ELSE "offline"]
      OBVIOUS
    <2>3. h \in Handler /\ Begin(r, h)
      BY <1>4, <2>1, <2>2 DEF FindTarget, Handler, Places
    <2>4. HasAccount(h)'
      BY <1>4, <2>1, <2>2 DEF FindTarget, At, tables, HasAccount, Handler
    <2> QED BY <1>0, <1>4, <2>3, <2>4, AccountKept DEF FindTarget, tables
  <1>5. ASSUME NEW r \in Requests,
               \/ InviteByPhone(r) \/ ClearPhoneInvite(r)
               \/ CheckMembership(r) \/ CreateMembership(r)
        PROVE  AccountsOK'
    <2>1. /\ registered' = registered
          /\ Finish(r) \/ Goto(r, "emit") \/ Goto(r, "check") \/ Goto(r, "create")
      BY <1>5 DEF InviteByPhone, ClearPhoneInvite, CheckMembership, CreateMembership, tables
    <2> QED BY <1>0, <2>1, AccountOnTheWay, AccountAtTheEnd DEF Places
  <1>6. ASSUME NEW r \in Requests, NEW t \in Users, ReadForRemove(r, t)
        PROVE  AccountsOK'
    <2>1. PICK k \in Handler : k = req[r]
      BY <1>0 DEF TypeOK
    <2>2. PICK h : h = [k EXCEPT !.target = t, !.at = "write"]
      OBVIOUS
    <2>3. h \in Handler /\ Begin(r, h)
      BY <1>6, <2>1, <2>2 DEF ReadForRemove, Handler, Places
    <2>4. HasAccount(h)'
      BY <1>6, <2>1, <2>2 DEF ReadForRemove, At, HasAccount, Handler
    <2> QED BY <1>0, <1>6, <2>3, <2>4, AccountKept DEF ReadForRemove, tables
  <1>7. ASSUME NEW r \in Requests, NEW t \in Users, NEW role \in {"admin", "member"},
               ReadForRole(r, t, role)
        PROVE  AccountsOK'
    <2>1. PICK k \in Handler : k = req[r]
      BY <1>0 DEF TypeOK
    <2>2. PICK h : h = [k EXCEPT !.target = t, !.role = role, !.at = "write"]
      OBVIOUS
    <2>3. h \in Handler /\ Begin(r, h)
      BY <1>7, <2>1, <2>2 DEF ReadForRole, Handler, Places, Roles
    <2>4. HasAccount(h)'
      BY <1>7, <2>1, <2>2 DEF ReadForRole, At, HasAccount, Handler
    <2> QED BY <1>0, <1>7, <2>3, <2>4, AccountKept DEF ReadForRole, tables
  <1>8. ASSUME NEW r \in Requests,
               \/ DeleteMembership(r) \/ UpdateRole(r) \/ AcceptInvite(r) \/ DeleteGroup(r)
               \/ Emit(r) \/ Fail(r) \/ CommitClaim(r) \/ RollBackClaim(r)
        PROVE  AccountsOK'
    <2>1. registered' = registered /\ (Finish(r) \/ Goto(r, "emit"))
      BY <1>8 DEF DeleteMembership, UpdateRole, AcceptInvite, DeleteGroup, Emit, Fail,
                  CommitClaim, RollBackClaim, tables
    <2> QED BY <1>0, <2>1, AccountOnTheWay, AccountAtTheEnd DEF Places
  <1>9. ASSUME NEW r \in Requests, ListInvites(r)
        PROVE  AccountsOK'
    <2>1. PICK k \in Handler : k = req[r]
      BY <1>0 DEF TypeOK
    <2>2. PICK found \in SUBSET Claimed : found = Claimable(k.actor)
      BY DEF Claimable
    <2>3. PICK h : h = [k EXCEPT !.held = found, !.todo = found, !.fresh = {}, !.at = "look"]
      OBVIOUS
    <2>4. h \in Handler
      BY <2>1, <2>2, <2>3 DEF Handler, Places
    <2>5. registered' = registered /\ (Finish(r) \/ Begin(r, h))
      BY <1>9, <2>1, <2>2, <2>3 DEF ListInvites, tables
    <2>6. HasAccount(h)'
      BY <2>1, <2>3, <2>5 DEF AccountsOK, HasAccount, Handler
    <2> QED BY <1>0, <2>4, <2>5, <2>6, AccountKept, AccountAtTheEnd
  <1>10. ASSUME NEW r \in Requests, NEW c \in Claimed, LookUp(r, c)
         PROVE  AccountsOK'
    <2>1. PICK k \in Handler : k = req[r]
      BY <1>0 DEF TypeOK
    <2>2. PICK h : h = [k EXCEPT !.todo = @ \ {c},
                          !.fresh = IF member[c.group][k.actor] = NoRow THEN @ \cup {c} ELSE @]
      OBVIOUS
    <2>3. h \in Handler /\ Begin(r, h)
      BY <1>10, <2>1, <2>2 DEF LookUp, Handler
    <2>4. HasAccount(h)'
      BY <1>10, <2>1, <2>2 DEF LookUp, AccountsOK, HasAccount, Handler, tables
    <2> QED BY <1>0, <1>10, <2>3, <2>4, AccountKept DEF LookUp, tables
  <1>11. ASSUME UNCHANGED <<registered, req>>
         PROVE  AccountsOK'
    BY <1>11 DEF AccountsOK, HasAccount
  <1>12. ASSUME NEW r \in Requests, Step(r)
         PROVE  AccountsOK'
    <2>1. CASE Arrive(r)
      BY <1>1, <1>2, <1>3, <1>11, <2>1 DEF Arrive, CreateGroup
    <2>2. CASE AddMember(r)
      BY <1>4, <1>5, <2>2 DEF AddMember
    <2>3. CASE ChangeMember(r) \/ Emit(r) \/ Fail(r)
      BY <1>6, <1>7, <1>8, <2>3 DEF ChangeMember
    <2>4. CASE Claim(r)
      BY <1>8, <1>9, <1>10, <2>4 DEF Claim
    <2> QED BY <1>12, <2>1, <2>2, <2>3, <2>4 DEF Step
  <1> QED BY <1>11, <1>12 DEF Next, Expire, vars

(* An invitation by phone to someone without an account stays until he signs *)
(* in, as long as the group does: no administration path, and no claim of    *)
(* somebody else, takes it away.                                             *)
THEOREM PhoneInvitesWait == Spec => PhoneInviteWaits
  <1>1. ASSUME IInv, AccountsOK, IInv', Next, NEW g \in Groups, NEW u \in Users,
               invite[g][u] # NoInvite, invite'[g][u] = NoInvite
        PROVE  u \in registered \/ g \notin alive'
    <2>1. TypeOK /\ HandlersOK
      BY <1>1 DEF IInv
    <2>2. invite' # invite
      BY <1>1
    <2>3. ASSUME NEW h \in Groups, NEW v \in Users, Expire(h, v)
          PROVE  FALSE
      <3>1. PICK i \in InviteRow : i = invite[h][v]
        BY <2>1, <2>3 DEF Expire, TypeOK
      <3>2. [i EXCEPT !.expired = TRUE] \in InviteRow
        BY <3>1 DEF InviteRow
      <3>3. invite'[g][u] = invite[g][u] \/ invite'[g][u] = [i EXCEPT !.expired = TRUE]
        BY <2>1, <2>3, <3>1 DEF Expire, TypeOK
      <3> QED BY <1>1, <3>2, <3>3, RowAssumption
    <2>4. ASSUME NEW r \in Requests, InviteByPhone(r)
          PROVE  FALSE
      <3>1. PICK i : i = [by |-> req[r].actor, expired |-> FALSE]
        OBVIOUS
      <3>2. req[r].actor \in Users
        BY <2>1, <2>4 DEF InviteByPhone, At, HandlersOK, HandlerOK
      <3>3. i \in InviteRow
        BY <3>1, <3>2 DEF InviteRow
      <3>4. invite'[g][u] = invite[g][u] \/ invite'[g][u] = i
        BY <2>1, <2>4, <3>1 DEF InviteByPhone, TypeOK
      <3> QED BY <1>1, <3>3, <3>4, RowAssumption
    <2>5. ASSUME NEW r \in Requests, ClearPhoneInvite(r)
          PROVE  u \in registered
      <3>1. req[r].target = u
        BY <1>1, <2>1, <2>5 DEF ClearPhoneInvite, WithoutPhone, TypeOK
      <3> QED BY <1>1, <2>5, <3>1 DEF ClearPhoneInvite, At, AccountsOK, HasAccount
    <2>6. ASSUME NEW r \in Requests, DeleteGroup(r)
          PROVE  g \notin alive'
      <3>1. g = req[r].group
        BY <1>1, <2>1, <2>6 DEF DeleteGroup, InvitesWithout, TypeOK
      <3> QED BY <2>6, <3>1 DEF DeleteGroup
    <2>7. ASSUME NEW r \in Requests, CommitClaim(r)
          PROVE  u \in registered
      <3>1. PICK S : invite' = [x \in Groups |-> IF x \in S
                       THEN [invite[x] EXCEPT ![req[r].actor] = NoInvite] ELSE invite[x]]
        BY <2>7 DEF CommitClaim
      <3>2. req[r].actor = u
        BY <1>1, <2>1, <3>1 DEF TypeOK
      <3> QED BY <1>1, <2>7, <3>2 DEF CommitClaim, At, AccountsOK, HasAccount
    <2>8. ASSUME NEW r \in Requests, Step(r)
          PROVE  \/ InviteByPhone(r) \/ ClearPhoneInvite(r)
                 \/ DeleteGroup(r) \/ CommitClaim(r)
      <3>1. CASE Arrive(r)
        BY <2>2, <3>1 DEF Arrive, Login, CreateGroup, Start, ReadInvite, tables
      <3>2. CASE AddMember(r)
        BY <2>2, <3>2 DEF AddMember, FindTarget, CheckMembership, CreateMembership, tables
      <3>3. CASE ChangeMember(r)
        BY <2>2, <3>3 DEF ChangeMember, ReadForRemove, ReadForRole, DeleteMembership,
                          UpdateRole, AcceptInvite, tables
      <3>4. CASE Emit(r) \/ Fail(r)
        BY <2>2, <3>4 DEF Emit, Fail, tables
      <3>5. CASE Claim(r)
        BY <2>2, <3>5 DEF Claim, ListInvites, LookUp, RollBackClaim, tables
      <3> QED BY <2>8, <3>1, <3>2, <3>3, <3>4, <3>5 DEF Step
    <2> QED BY <1>1, <2>3, <2>4, <2>5, <2>6, <2>7, <2>8 DEF Next
  <1>2. IInv /\ AccountsOK /\ IInv' /\ [Next]_vars =>
          [\A g \in Groups, u \in Users :
             invite[g][u] # NoInvite /\ invite'[g][u] = NoInvite =>
               u \in registered \/ g \notin alive']_vars
    BY <1>1
  <1>3. Init => AccountsOK
    BY DEF Init, AccountsOK, HasAccount, Idle
  <1>4. Spec => []AccountsOK
    BY <1>3, AccountsStep, Inductive, PTL DEF Spec
  <1> QED BY <1>2, <1>4, Inductive, PTL DEF Spec, PhoneInviteWaits
=============================================================================
