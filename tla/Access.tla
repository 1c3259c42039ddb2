-------------------------------- MODULE Access --------------------------------
(***************************************************************************)
(* Who may do what, and how a request gets to do it: the tables behind     *)
(* authz/membershipService.js and authz/permissions.js, and the handlers   *)
(* of the REST routes that change them.  A handler awaits one check after  *)
(* another and then writes, whatever has happened to what it checked: each *)
(* check, and the write, is a step, and other requests run between them.   *)
(*                                                                         *)
(* One scope is modelled: a workspace with one channel, an organization,   *)
(* or the direct messages of one pair of users ("PAIR").                   *)
(***************************************************************************)
EXTENDS Integers, Sequences, FiniteSets

CONSTANTS
    Users,          \* with an account or still to get one
    Handlers,       \* requests in flight
    Nobody,
    MaxRequests,    \* bound: requests in a behaviour
    MaxOffers,      \* bound: membership invitations
    MaxDirects      \* bound: direct channels of the pair

ASSUME AccessAssumption ==
    /\ Nobody \notin Users
    /\ MaxRequests \in Nat /\ MaxOffers \in Nat /\ MaxDirects \in Nat

Kinds == {"WORKSPACE", "ORGANIZATION", "PAIR"}
WorkspaceRoles == {"MANAGER", "MEMBER"}     \* ASSIGNABLE_WORKSPACE_ROLES
OrgRoles == {"ORG_ADMIN", "ORG_MEMBER"}     \* ASSIGNABLE_ORG_ROLES
Roles == {"none", "OWNER"} \cup WorkspaceRoles \cup OrgRoles
RolesOf(k) == {"none"} \cup CASE k = "WORKSPACE" -> {"OWNER"} \cup WorkspaceRoles
                               [] k = "ORGANIZATION" -> OrgRoles
                               [] OTHER -> {}
ChannelTypes == {"PUBLIC", "PRIVATE"}
LinkStates == {"none", "PENDING", "EXPIRED", "ACCEPTED", "REVOKED"}
OfferStates == {"none", "PENDING", "ACCEPTED", "DECLINED"}
Offers == 1 .. MaxOffers
Directs == 1 .. MaxDirects

VARIABLES
    kind,           \* what the scope is; it never changes
    role,           \* workspace_members or organization_members
    owner,          \* workspaces.owner_id
    archived,       \* archived_at is set
    delegated,      \* workspaces.managers_can_archive
    discoverable,   \* workspaces.visibility = 'DISCOVERABLE'
    channel,        \* its type, "none" while there is no channel
    inChannel,      \* channel_members
    link,           \* the row of invitations
    offer,          \* the rows of membership_invitations, by order of insertion
    accounts,       \* the users that have an account
    admins,         \* users.is_system_admin
    direct,         \* the pair's DIRECT channels: none, fresh or aged
    req,            \* the request each handler serves
    started,        \* history: requests so far
    contested,      \* history: a write met an owner its checks had not seen
    visitors,       \* history: put in the channel without being members of the workspace
    born,           \* history: accounts made from the link
    crossed,        \* history: the link was revoked by a request that saw it pending
    orphaned,       \* history: an administrator was demoted by one who was none any more
    doubled         \* history: a direct channel was made beside one fresh for its maker

scope == <<kind, archived, delegated, discoverable>>
members == <<role, owner, contested>>
rooms == <<channel, inChannel, visitors>>
links == <<link, accounts, born, crossed>>
administrators == <<admins, orphaned>>
directs == <<direct, doubled>>
vars == <<scope, members, rooms, links, offer, administrators, directs, req, started>>

------------------------------------------------------------------------------
(* authz/permissions.js and the gates of authz/membershipService.js.          *)

Permissions == {"MANAGE_MEMBERS", "MANAGE_MANAGERS", "ARCHIVE", "TRANSFER_OWNERSHIP",
                "CHANGE_VISIBILITY", "MANAGE_SETTINGS", "ORG_INVITE", "ORG_MANAGE_MEMBERS"}

GrantedTo(r) ==
    CASE r = "OWNER" -> Permissions \ {"ORG_INVITE", "ORG_MANAGE_MEMBERS"}
      [] r = "MANAGER" -> {"MANAGE_MEMBERS", "ARCHIVE"}
      [] r = "ORG_ADMIN" -> {"ORG_INVITE", "ORG_MANAGE_MEMBERS"}
      [] OTHER -> {}

IsMember(u) == role[u] # "none"

\* requireWorkspacePermission and requireOrgPermission: a system administrator first.
HasPermission(u, p) ==
    \/ u \in admins
    \/ p \in GrantedTo(role[u]) /\ (p = "ARCHIVE" /\ role[u] = "MANAGER" => delegated)

MemberOrSystemAdmin(u) == IsMember(u) \/ u \in admins
ChannelMember(u) == channel # "none" /\ u \in inChannel
ChannelMemberOrSystemAdmin(u) == channel # "none" /\ (u \in admins \/ u \in inChannel)

------------------------------------------------------------------------------
(* A request: who calls, about whom, asking for what (a role, a type, a       *)
(* setting), the checks it still awaits, what the last read showed it, the    *)
(* row it works on, and (history) whether the scope was open at some moment.  *)

Idle == [op |-> "idle", by |-> Nobody, on |-> Nobody, as |-> "none", left |-> <<>>,
         saw |-> "none", from |-> Nobody, row |-> 0, open |-> FALSE]

\* Each check is one query, with the condition the handler puts on its answer.
Passes(q, check) ==
    CASE check \in Permissions -> HasPermission(q.by, check)
      [] check = "member" -> IsMember(q.by)
      [] check = "memberOrSystemAdmin" -> MemberOrSystemAdmin(q.by)
      [] check = "channelMember" -> ChannelMember(q.by)
      [] check = "channelMemberOrSystemAdmin" -> ChannelMemberOrSystemAdmin(q.by)
      [] check = "systemAdmin" -> q.by \in admins
      [] check = "notArchived" -> ~archived
      [] check = "isArchived" -> archived
      [] check = "discoverable" -> discoverable
      [] check = "changesVisibility" -> discoverable # (q.as = "DISCOVERABLE")
      [] check = "isNoMember" -> ~IsMember(q.on)
      [] check = "isMember" -> IsMember(q.on)
      [] check = "isNotOwner" -> IsMember(q.on) /\ role[q.on] # "OWNER"
      [] check = "mayChangeManagers" ->
              "MANAGER" \in {q.saw, q.as} => HasPermission(q.by, "MANAGE_MANAGERS")
      [] check = "isHeir" -> IsMember(q.on) /\ q.on # q.from
      [] check = "isPublic" -> channel = "PUBLIC"
      [] check = "isNotInChannel" -> q.on \notin inChannel
      [] check = "isInChannel" -> q.on \in inChannel
      [] check = "isAdministrator" -> q.on \in admins
      [] check = "isNoAdministrator" -> q.on \notin admins
      [] check = "nameIsFree" -> q.on \notin accounts
      [] check = "linkIsPending" -> link.status = "PENDING"
      [] check = "linkExists" -> link.status # "none"
      [] check = "mayRevoke" -> q.saw \in {"PENDING", "EXPIRED"}
              /\ (q.by = link.by \/ HasPermission(q.by, q.as))
      [] check = "noOfferPending" ->
              \A o \in Offers : ~(offer[o].status = "PENDING" /\ offer[o].to = q.on)
      [] check = "ownOfferPending" -> offer[q.row].status = "PENDING" /\ offer[q.row].to = q.by
      [] OTHER -> TRUE

\* What the handler keeps of the answer.
Sees(q, check) ==
    CASE check \in {"isMember", "isNotOwner", "isHeir", "membership"} -> role[q.on]
      [] check = "memberOrSystemAdmin" -> IF IsMember(q.by) THEN role[q.by] ELSE "override"
      [] check = "linkExists" -> link.status
      [] check = "freshDirect" ->
              IF \E d \in Directs : direct[d] \in (IF q.as = "recent" THEN {"fresh"}
                                                   ELSE {"fresh", "aged"})
              THEN "found" ELSE "missing"
      [] OTHER -> q.saw

Learn(q) ==
    [q EXCEPT !.left = Tail(@),
              !.saw = Sees(q, Head(q.left)),
              !.from = IF Head(q.left) = "owner" THEN owner ELSE @,
              !.row = IF Head(q.left) = "freshDirect"
                      THEN Cardinality({d \in Directs : direct[d] # "none"}) ELSE @,
              !.open = @ \/ ~archived]

\* Mutants: no row of invitations, no row of membership_invitations.
HoldsNoLink(q) == IF q.op \in {"acceptOffer", "declineOffer"} THEN <<"offer", q.row>>
                  ELSE <<q.op, 0>>
HoldsNoOffer(q) == IF q.op = "acceptLink" THEN <<"link", 0>> ELSE <<q.op, 0>>

\* What a transaction holds from its first statement on: the row it selected FOR
\* UPDATE, the pair's pg_advisory_xact_lock.
Holds(q) ==
    CASE q.op = "acceptLink" -> <<"link", 0>>
      [] q.op \in {"acceptOffer", "declineOffer"} -> <<"offer", q.row>>
      [] q.op = "openDirect" -> <<"pair", 0>>
      [] OTHER -> <<"nothing", 0>>

Free(what, h) == \A g \in Handlers \ {h} : Holds(req[g]) # what

\* A request whose first check passes.
Take(h, q) ==
    /\ req[h] = Idle
    /\ started < MaxRequests /\ started' = started + 1
    /\ Passes(q, Head(q.left)) /\ req' = [req EXCEPT ![h] = Learn(q)]
    /\ UNCHANGED <<scope, members, rooms, links, offer, administrators, directs>>

Ask(h, op, by, on, as, checks) ==
    Take(h, [Idle EXCEPT !.op = op, !.by = by, !.on = on, !.as = as, !.left = checks])

\* The handler has checks to come, or the bound on requests keeps it from a new one.
Awaits(h) == req[h].left # <<>> \/ (req[h] = Idle /\ started = MaxRequests)

\* The next awaited check; when it fails the handler answers and nothing is written.
Check(h) ==
    /\ req[h].left # <<>>
    /\ req' = [req EXCEPT ![h] =
                  IF Passes(req[h], Head(req[h].left)) THEN Learn(req[h]) ELSE Idle]
    /\ UNCHANGED <<scope, members, rooms, links, offer, administrators, directs, started>>

\* All checks have passed: the write, with which the request ends (the audit event
\* that follows changes nothing here, even when it fails).
Writes(h, op) ==
    /\ req[h].op = op /\ req[h].left = <<>>
    /\ req' = [req EXCEPT ![h] = Idle]
    /\ UNCHANGED started

\* INSERT INTO workspace_members or organization_members: the primary key refuses a
\* second row of the same user.
Enrolled(u, r) == IF IsMember(u) THEN role ELSE [role EXCEPT ![u] = r]

==============================================================================
