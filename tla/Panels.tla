-------------------------------- MODULE Panels --------------------------------
(***************************************************************************)
(* What the frontend's panels offer: for each panel, the requests that its *)
(* buttons would send for the rows which the lists of Listings show now.   *)
(* A panel hides a button by the role it was told (authz/permissions.js of *)
(* the frontend, "kept in sync by hand" with the backend's), by a flag of  *)
(* the row, or not at all; the route decides by its own checks.  Creating  *)
(* scopes and accounts, renaming, passwords and direct messages are left   *)
(* out.                                                                    *)
(***************************************************************************)
EXTENDS Listings

\* The request of a button: the one that row names, or 0.
Button(op, u, v, as, row, checks) ==
    [op |-> op, by |-> u, on |-> v, as |-> as, left |-> checks, saw |-> "none",
     from |-> Nobody, row |-> row, open |-> FALSE]
Press(op, u, v, as, checks) == Button(op, u, v, as, 0, checks)

\* PeoplePicker: rows with the flag cannot be chosen.
Eligible(rows, flag) == {v \in DOMAIN rows : ~rows[v][flag]}

------------------------------------------------------------------------------
(* A workspace.                                                               *)

\* Join, on each row.
BrowseWorkspaces(u) ==
    IF Discoverable(u) THEN {Press("subscribe", u, u, "MEMBER", SubscribeChecks)} ELSE {}

\* The settings open from the row of an own workspace, where archived ones have none, and
\* from the administrators' list, for any; a section shows by the role alone.
Shows(u, section) ==
    AllWorkspaces(u) \/ (OwnWorkspaces(u) /\ ~archived /\ section \in GrantedTo(role[u]))

InviteMember(u) ==
    IF Shows(u, "MANAGE_MEMBERS")
    THEN {Press("addMember", u, v, r, AddMemberChecks(r)) :
             v \in Eligible(PeopleFor(u), "alreadyMember"), r \in WorkspaceRoles}
    ELSE {}

InviteMembership(u) ==
    IF Shows(u, "MANAGE_MEMBERS")
    THEN {Press("offerMembership", u, v, r, OfferChecks(r)) :
             v \in Eligible(PeopleFor(u), "alreadyMember"), r \in WorkspaceRoles}
    ELSE {}

InviteLink(u) ==
    IF Shows(u, "MANAGE_MEMBERS")
    THEN {Press("createLink", u, Nobody, r, LinkChecks(r)) : r \in WorkspaceRoles} ELSE {}

\* The search without a channel finds all members; oneself cannot be chosen.
TransferTo(u) ==
    IF Shows(u, "TRANSFER_OWNERSHIP")
    THEN {Press("transferOwnership", u, v, "none", TransferChecks) :
             v \in {w \in accounts \ {u} : IsMember(w)}}
    ELSE {}

VisibilityButton(u) ==
    IF Shows(u, "CHANGE_VISIBILITY")
    THEN {Press("setVisibility", u, Nobody, IF discoverable THEN "PRIVATE" ELSE "DISCOVERABLE",
                VisibilityChecks)}
    ELSE {}

ManagersMayArchive(u) ==
    IF Shows(u, "MANAGE_SETTINGS")
    THEN {Press("setManagersCanArchive", u, Nobody, IF delegated THEN "kept" ELSE "delegated",
                SettingsChecks)}
    ELSE {}

ArchiveButton(u) ==
    IF Shows(u, "ARCHIVE")
    THEN {Press("archiveWorkspace", u, Nobody, "none", ArchiveChecks)} ELSE {}

\* Shown to the owner too, but disabled.
LeaveWorkspaceButton(u) ==
    IF OwnWorkspaces(u) /\ ~archived /\ role[u] # "OWNER"
    THEN {Press("leaveWorkspace", u, u, "none", LeaveWorkspaceChecks)} ELSE {}

UnarchiveButton(u) ==
    IF OwnWorkspaces(u) /\ archived /\ "ARCHIVE" \in GrantedTo(role[u])
    THEN {Press("unarchiveWorkspace", u, Nobody, "none", UnarchiveChecks)} ELSE {}

\* Each member has a role to choose and Remove, whoever looks and whoever it is.
ChooseRole(u) ==
    {Press("changeRole", u, v, r, MemberChecks) : v \in MembersOf(u), r \in WorkspaceRoles}
RemoveButton(u) == {Press("removeMember", u, v, "none", MemberChecks) : v \in MembersOf(u)}
RevokeButton(u) ==
    IF ListsLink(u) THEN {Press("revokeLink", u, Nobody, "MANAGE_MEMBERS", RevokeChecks)} ELSE {}

------------------------------------------------------------------------------
(* Its channels.                                                              *)

\* Over the override the form is there whatever became of the workspace.
NewChannel(u) ==
    IF AllWorkspaces(u) \/ (OwnWorkspaces(u) /\ ~archived)
    THEN {Press("createChannel", u, u, type, CreateChannelChecks) : type \in ChannelTypes}
    ELSE {}

JoinButton(u) ==
    IF OwnWorkspaces(u) /\ ListsChannel(u) /\ channel = "PUBLIC" /\ u \notin inChannel /\ ~archived
    THEN {Press("joinChannel", u, u, "none", JoinChannelChecks)} ELSE {}

\* Offered by the members of a private channel, and over the override.
AdmitsOthers(u) == OwnWorkspaces(u) /\ channel = "PRIVATE" /\ u \in inChannel /\ ~archived

AddToChannel(u) ==
    IF AllWorkspaces(u) \/ AdmitsOthers(u)
    THEN {Press("addChannelMember", u, v, "none", AddChannelMemberChecks) :
             v \in Eligible(ChannelCandidates(u), "alreadyInChannel")}
    ELSE {}

RemoveFromChannel(u) ==
    IF AdmitsOthers(u)
    THEN {Press("removeChannelMember", u, v, "none", RemoveChannelMemberChecks) :
             v \in ChannelPeople(u)}
    ELSE {}

LeaveChannelButton(u) ==
    IF OwnWorkspaces(u) /\ ChannelMember(u) /\ ~archived
    THEN {Press("leaveChannel", u, u, "none", LeaveChannelChecks)} ELSE {}

------------------------------------------------------------------------------
(* An organization, and the system administrators' own lists.                 *)

OrgAdd(u) ==
    {Press("orgAddMember", u, v, r, OrgAddMemberChecks) :
        v \in Eligible(OrgPeopleFor(u), "alreadyMember"), r \in OrgRoles}
OrgInvite(u) ==
    {Press("orgOfferMembership", u, v, r, OrgOfferChecks) :
        v \in Eligible(OrgPeopleFor(u), "alreadyMember"), r \in OrgRoles}
OrgLink(u) ==
    IF IsOrganization /\ Manages(u)
    THEN {Press("orgCreateLink", u, Nobody, r, OrgLinkChecks) : r \in OrgRoles} ELSE {}
OrgChooseRole(u) ==
    {Press("orgChangeRole", u, v, r, OrgMemberChecks) : v \in OrgMembersOf(u), r \in OrgRoles}
OrgRemoveButton(u) ==
    {Press("orgRemoveMember", u, v, "none", OrgMemberChecks) : v \in OrgMembersOf(u)}
OrgRevokeButton(u) ==
    IF OrgListsLink(u) THEN {Press("revokeLink", u, Nobody, "ORG_INVITE", RevokeChecks)} ELSE {}

\* The switcher offers to leave whatever organization is selected in it.
LeaveOrganization(u) ==
    IF OwnOrganizations(u) THEN {Press("orgLeave", u, u, "none", OrgLeaveChecks)} ELSE {}

\* An account's organizations, archived ones too, and those it could be put in.
AccountRole(u) ==
    {Press("orgChangeRole", u, v, r, OrgMemberChecks) :
        v \in {w \in accounts : OrganizationsOf(u, w)}, r \in OrgRoles}
AccountRemove(u) ==
    {Press("orgRemoveMember", u, v, "none", OrgMemberChecks) :
        v \in {w \in accounts : OrganizationsOf(u, w)}}
AccountAdd(u) ==
    IF u \in admins /\ IsOrganization /\ ~archived
    THEN {Press("orgAddMember", u, v, r, OrgAddMemberChecks) :
             v \in {w \in accounts : ~IsMember(w)}, r \in OrgRoles}
    ELSE {}
OrganizationToggle(u) ==
    IF u \in admins /\ IsOrganization
    THEN {IF archived THEN Press("orgUnarchive", u, Nobody, "none", OrgUnarchiveChecks)
                      ELSE Press("orgArchive", u, Nobody, "none", OrgArchiveChecks)}
    ELSE {}
PromoteButton(u) ==
    IF u \in admins
    THEN {Press("promote", u, v, "none", PromoteChecks) : v \in accounts \ admins} ELSE {}
DemoteButton(u) ==
    IF u \in admins
    THEN {Press("demote", u, v, "none", DemoteChecks) : v \in admins \ {u}} ELSE {}

------------------------------------------------------------------------------
(* One's invitations.                                                         *)

Accept(u) ==
    {Button("acceptOffer", u, u, "none", o, AcceptOfferChecks) : o \in OffersTo(u)}
Decline(u) ==
    {Button("declineOffer", u, u, "none", o, DeclineOfferChecks) : o \in OffersTo(u)}

------------------------------------------------------------------------------
\* The request as it comes to its ith check, knowing what the check before it saw.
At(q, i) ==
    IF i = 1 THEN q ELSE Learn(Button(q.op, q.by, q.on, q.as, q.row, <<q.left[i - 1]>>))

\* The route carries the request out as things stand: no check turns it away, or finds
\* that there is nothing to do.
Accepts(q) == \A i \in DOMAIN q.left : Passes(At(q, i), q.left[i])

\* What is offered in an archived scope, and refused there (archiving it again is answered
\* like the first time, and does nothing).
OfferedThoughArchived ==
    {"addMember", "offerMembership", "createLink", "changeRole", "removeMember", "acceptOffer",
     "transferOwnership", "setVisibility", "archiveWorkspace", "createChannel",
     "addChannelMember", "orgAddMember", "orgOfferMembership", "orgCreateLink", "orgChangeRole",
     "orgRemoveMember", "orgLeave"}

\* What is offered and refused all the same: besides those, managers to be made, changed or
\* removed by those who do not manage managers, and the owner to be changed or removed by
\* anyone; a second invitation; ownership for the owner; archiving by managers it is not
\* delegated to; leaving what one is no member of.
Refused(q) ==
    \/ archived /\ q.op \in OfferedThoughArchived
    \/ /\ q.op \in {"addMember", "offerMembership", "createLink"}
       /\ q.as = "MANAGER" /\ ~HasPermission(q.by, "MANAGE_MANAGERS")
    \/ /\ q.op \in {"changeRole", "removeMember"}
       /\ \/ role[q.on] = "OWNER"
          \/ "MANAGER" \in {q.as, role[q.on]} /\ ~HasPermission(q.by, "MANAGE_MANAGERS")
    \/ /\ q.op \in {"offerMembership", "orgOfferMembership"}
       /\ \E o \in Offers : offer[o].status = "PENDING" /\ offer[o].to = q.on
    \/ q.op = "transferOwnership" /\ q.on = owner
    \/ q.op \in {"archiveWorkspace", "unarchiveWorkspace"} /\ ~HasPermission(q.by, "ARCHIVE")
    \/ q.op = "orgLeave" /\ ~IsMember(q.by)

\* What these buttons send is accepted, but for what Refused names, and that is refused.
Answered(buttons) == \A q \in buttons : Accepts(q) <=> ~Refused(q)

\* The button of a panel leads into a refusal in the cases of Refused and in no other,
\* whatever the roles, overrides, flags and statuses: the gates of the panels, the
\* conditions of the lists and the checks of the routes, written apart, agree up to these.
ButtonsAreAnswered ==
    \A u \in accounts :
        \* BrowseWorkspacesPanel, WorkspaceSettingsSheet, WorkspaceSidebar
        /\ Answered(BrowseWorkspaces(u)) /\ Answered(InviteMember(u))
        /\ Answered(InviteMembership(u)) /\ Answered(InviteLink(u)) /\ Answered(TransferTo(u))
        /\ Answered(VisibilityButton(u)) /\ Answered(ManagersMayArchive(u))
        /\ Answered(ArchiveButton(u)) /\ Answered(LeaveWorkspaceButton(u))
        /\ Answered(UnarchiveButton(u)) /\ Answered(LeaveOrganization(u))
        \* UserManagementPanel, OrgManagementPanel
        /\ Answered(ChooseRole(u)) /\ Answered(RemoveButton(u)) /\ Answered(RevokeButton(u))
        /\ Answered(OrgAdd(u)) /\ Answered(OrgInvite(u)) /\ Answered(OrgLink(u))
        /\ Answered(OrgChooseRole(u)) /\ Answered(OrgRemoveButton(u))
        /\ Answered(OrgRevokeButton(u))
        \* CreateChannelSheet, ChannelDetailsPanel, NotificationPanel
        /\ Answered(NewChannel(u)) /\ Answered(JoinButton(u)) /\ Answered(AddToChannel(u))
        /\ Answered(RemoveFromChannel(u)) /\ Answered(LeaveChannelButton(u))
        /\ Answered(Accept(u)) /\ Answered(Decline(u))
        \* SystemAdminPanel
        /\ Answered(AccountRole(u)) /\ Answered(AccountRemove(u)) /\ Answered(AccountAdd(u))
        /\ Answered(OrganizationToggle(u)) /\ Answered(PromoteButton(u))
        /\ Answered(DemoteButton(u))

\* No button leads into another refusal or answer than these while no request is under way.
\* A request under way has changed nothing yet: whatever the tables come to, they come to it
\* without the others, so that TLC need not press the buttons in any other state.
OffersAreAccepted == (\A h \in Handlers : req[h] = Idle) => ButtonsAreAnswered

==============================================================================
