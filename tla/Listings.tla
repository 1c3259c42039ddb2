------------------------------- MODULE Listings -------------------------------
(***************************************************************************)
(* What the read routes show to whom: the lists from which the panels      *)
(* offer their actions, and every route that shows what was written in the *)
(* channel.  They are queries, each one operator over the state of         *)
(* Memberships: who is answered, and with which rows.  Pages, names and    *)
(* order are left out.                                                     *)
(***************************************************************************)
EXTENDS Memberships

IsWorkspace == kind = "WORKSPACE"
IsOrganization == kind = "ORGANIZATION"
Manages(u) == HasPermission(u, IF IsOrganization THEN "ORG_MANAGE_MEMBERS" ELSE "MANAGE_MEMBERS")

------------------------------------------------------------------------------
(* Lists of scopes.                                                           *)

\* Mutant: archived workspaces are offered too.
DiscoverableEvenArchived(u) == IsWorkspace /\ discoverable /\ ~IsMember(u)

\* GET /workspaces/discoverable: those the caller could subscribe to.
Discoverable(u) == IsWorkspace /\ discoverable /\ ~archived /\ ~IsMember(u)

\* GET /workspaces, GET /organizations: the caller's own; administrators see every
\* organization in the same list, every workspace in one of their own.
OwnWorkspaces(u) == IsWorkspace /\ IsMember(u)
OwnOrganizations(u) == IsOrganization /\ (IsMember(u) \/ u \in admins)
AllWorkspaces(u) == IsWorkspace /\ u \in admins

\* GET /admin/users/:userId/organizations.
OrganizationsOf(u, v) == u \in admins /\ IsOrganization /\ IsMember(v)

------------------------------------------------------------------------------
(* Lists of people.                                                           *)

\* GET .../members of either scope, for those who manage them.
MembersOf(u) == IF IsWorkspace /\ Manages(u) THEN {v \in accounts : IsMember(v)} ELSE {}
OrgMembersOf(u) == IF IsOrganization /\ Manages(u) THEN {v \in accounts : IsMember(v)} ELSE {}

\* GET .../people-search: accounts, with the flag alreadyMember.
PeopleFor(u) ==
    IF IsWorkspace /\ Manages(u)
    THEN [v \in accounts |-> [alreadyMember |-> IsMember(v)]] ELSE <<>>
OrgPeopleFor(u) ==
    IF IsOrganization /\ Manages(u)
    THEN [v \in accounts |-> [alreadyMember |-> IsMember(v)]] ELSE <<>>

\* GET .../members-search: the workspace's members, for a channel with the flag
\* alreadyInChannel; an organization's without the caller.
ChannelCandidates(u) ==
    IF IsWorkspace /\ MemberOrSystemAdmin(u) /\ ChannelMemberOrSystemAdmin(u)
    THEN [v \in {w \in accounts : IsMember(w)} |-> [alreadyInChannel |-> v \in inChannel]]
    ELSE <<>>
OrgColleagues(u) ==
    IF IsOrganization /\ IsMember(u) THEN {v \in accounts \ {u} : IsMember(v)} ELSE {}

\* GET .../channels/:channelId/members: also over the administrators' override.
ChannelPeople(u) == IF ChannelMemberOrSystemAdmin(u) THEN inChannel ELSE {}

\* GET /channels/:channelId/members: for mentions, without the caller.
Mentionable(u) == IF ChannelMember(u) THEN inChannel \ {u} ELSE {}

------------------------------------------------------------------------------
(* Lists of channels and invitations.                                         *)

\* GET .../channels: the public ones and one's own; administrators see all.
ListsChannel(u) ==
    /\ MemberOrSystemAdmin(u) /\ channel # "none"
    /\ u \in admins \/ channel = "PUBLIC" \/ u \in inChannel

\* GET .../invitations: the links that can still be redeemed.
ListsLink(u) == IsWorkspace /\ HasPermission(u, "MANAGE_MEMBERS") /\ link.status = "PENDING"
OrgListsLink(u) == IsOrganization /\ HasPermission(u, "ORG_INVITE") /\ link.status = "PENDING"

\* GET /membership-invitations: one's own, whatever became of the scope.
OffersTo(u) == {o \in Offers : offer[o].status = "PENDING" /\ offer[o].to = u}

------------------------------------------------------------------------------
(* What was written in the channel.                                           *)

\* For the members of the channel alone: its messages and threads, the revisions of one,
\* summaries and extracted tasks, a search within it, the frames of its room.
History(u) == ChannelMember(u)
Revisions(u) == ChannelMember(u)
Summarize(u) == ChannelMember(u)

\* Over all channels, joined with channel_members: semantic search, mentions.
SemanticSearch(u) == ChannelMember(u)
Mentions(u) == ChannelMember(u)

\* Over the channels of a workspace one is a member of, joined with channel_members.
OfWorkspace(u) == IsMember(u) /\ ChannelMember(u)
Tasks(u) == OfWorkspace(u)
Digest(u) == OfWorkspace(u)
Trending(u) == OfWorkspace(u)
References(u) == OfWorkspace(u)
Experts(u) == OfWorkspace(u)

\* A stored summary is shown to those who are in every channel it cites.
SummaryShown(u) == IsMember(u) /\ u \in inChannel
EntityPage(u) == References(u) \/ SummaryShown(u)

\* POST .../ai/summary: it is made of, and cites, what References shows its maker.
SummaryMade(u) == References(u)

Written(u) ==
    \/ History(u) \/ Revisions(u) \/ Summarize(u) \/ SemanticSearch(u) \/ Mentions(u)
    \/ Tasks(u) \/ Digest(u) \/ Trending(u) \/ Experts(u) \/ EntityPage(u)
    \/ SummaryMade(u)

\* Names and numbers: the entities of a workspace, and their relationships, for its
\* members; statistics and the audit log for system administrators.
EntityNamesShown(u) == IsMember(u)
Related(u) == IsMember(u)
Activity(u) == u \in admins
Collaboration(u) == u \in admins
Sentiment(u) == u \in admins
AuditLog(u) == u \in admins

Named(u) ==
    \/ OwnWorkspaces(u) \/ OwnOrganizations(u) \/ AllWorkspaces(u)
    \/ (\E v \in accounts : OrganizationsOf(u, v))
    \/ MembersOf(u) \cup OrgMembersOf(u) \cup OrgColleagues(u) # {}
    \/ DOMAIN PeopleFor(u) \cup DOMAIN OrgPeopleFor(u) \cup DOMAIN ChannelCandidates(u) # {}
    \/ ChannelPeople(u) \cup Mentionable(u) # {}
    \/ ListsChannel(u) \/ ListsLink(u) \/ OrgListsLink(u)
    \/ EntityNamesShown(u) \/ Related(u)
    \/ Activity(u) \/ Collaboration(u) \/ Sentiment(u) \/ AuditLog(u)

------------------------------------------------------------------------------
\* What was written in a channel is shown, by whatever route, only to members of its
\* workspace, and to those who got into the channel over an override or by a request
\* that overlapped the end of their membership.  Being a system administrator is not
\* enough: that shows the names of the channel and its members, as nothing does to
\* others outside.
WrittenStaysInside ==
    \A u \in Users :
        /\ Written(u) => IsMember(u) \/ u \in visitors
        /\ Named(u) => IsMember(u) \/ u \in visitors \/ u \in admins

==============================================================================
