----------------------------- MODULE Memberships -----------------------------
(***************************************************************************)
(* Workspaces, organizations, invitations, administrators and direct       *)
(* messages together, with what must hold however their requests overlap.  *)
(***************************************************************************)
EXTENDS Invitations, DirectMessages

\* A scope as one creation and any requests after it, one at a time, can have left
\* it: POST / makes the workspace and its OWNER row, or the organization and its
\* ORG_ADMIN row, in one transaction.
Settled ==
    /\ IF kind = "WORKSPACE"
       THEN owner \in accounts /\ {u \in Users : role[u] = "OWNER"} = {owner}
       ELSE owner = Nobody
    /\ \A u \in Users \ accounts : role[u] = "none"
    /\ channel # "none" => kind = "WORKSPACE"
    /\ inChannel \subseteq {u \in Users : channel # "none" /\ IsMember(u)}
    /\ kind = "PAIR" => 
         /\ link.status = "none" /\ \A o \in Offers : offer[o].status = "none"
         /\ ~archived

Init ==
    /\ kind \in Kinds
    /\ accounts \in SUBSET Users
    /\ admins \in SUBSET accounts /\ admins # {}
    /\ role \in [Users -> RolesOf(kind)]
    /\ owner \in Users \cup {Nobody}
    /\ archived \in BOOLEAN /\ delegated \in BOOLEAN /\ discoverable \in BOOLEAN
    /\ channel \in {"none"} \cup ChannelTypes
    /\ inChannel \in SUBSET Users
    /\ link \in [status : {"none"}, by : {Nobody}, role : {"none"}]
                \cup [status : {"PENDING"}, by : accounts,
                      role : RolesOf(kind) \ {"none", "OWNER"}]
    /\ offer \in [Offers -> [status : {"none"}, to : {Nobody}, role : {"none"}]
                            \cup [status : {"PENDING"}, to : accounts,
                                  role : RolesOf(kind) \ {"none", "OWNER"}]]
    /\ direct = [d \in Directs |-> "none"]
    /\ Settled
    /\ req = [h \in Handlers |-> Idle]
    /\ started = 0
    /\ contested = FALSE /\ crossed = FALSE /\ orphaned = FALSE /\ doubled = FALSE
    /\ visitors = {} /\ born = {}

Next ==
    \/ \E h \in Handlers :
          \/ Check(h)
          \/ /\ ~Awaits(h)
             /\ \/ WorkspaceRequest(h) \/ OrganizationRequest(h) \/ InvitationRequest(h)
                \/ OpenDirect(h)
    \/ LinkExpires \/ DirectAges

Spec == Init /\ [][Next]_vars

------------------------------------------------------------------------------
\* Of a request: its route, what it asks for, the checks to come, what it was answered.
Routes ==
    {"idle", "subscribe", "addMember", "changeRole", "removeMember", "leaveWorkspace",
     "transferOwnership", "archiveWorkspace", "unarchiveWorkspace", "setVisibility",
     "setManagersCanArchive", "createChannel", "joinChannel", "addChannelMember",
     "removeChannelMember", "leaveChannel", "orgAddMember", "orgChangeRole", "orgRemoveMember",
     "orgLeave", "orgArchive", "orgUnarchive", "createAccount", "promote", "demote",
     "createLink", "orgCreateLink", "acceptLink", "revokeLink", "offerMembership",
     "orgOfferMembership", "acceptOffer", "declineOffer", "openDirect"}
Asked ==
    Roles \cup ChannelTypes \cup {"DISCOVERABLE", "delegated", "kept", "here", "elsewhere",
                                  "recent", "anyAge", "ORG_INVITE", "MANAGE_MEMBERS"}
Checks ==
    Permissions \cup
    {"member", "memberOrSystemAdmin", "channelMember", "channelMemberOrSystemAdmin",
     "systemAdmin", "notArchived", "isArchived", "discoverable", "changesVisibility",
     "isNoMember", "isMember", "isNotOwner", "mayChangeManagers", "owner", "isHeir", "isPublic",
     "isNotInChannel", "isInChannel", "isAdministrator", "isNoAdministrator", "nameIsFree",
     "linkIsPending", "linkExists", "mayRevoke", "noOfferPending", "ownOfferPending",
     "membership", "freshDirect"}
Answers == Roles \cup LinkStates \cup {"override", "found", "missing"}

Requests ==
    [op : Routes, by : Users \cup {Nobody}, on : Users \cup {Nobody}, as : Asked,
     left : Seq(Checks), saw : Answers, from : Users \cup {Nobody}, row : Nat, open : BOOLEAN]

\* The variables keep their types.
TypeOK ==
    /\ kind \in Kinds
    /\ role \in [Users -> RolesOf(kind)]
    /\ owner \in Users \cup {Nobody}
    /\ archived \in BOOLEAN /\ delegated \in BOOLEAN /\ discoverable \in BOOLEAN
    /\ channel \in {"none"} \cup ChannelTypes
    /\ inChannel \subseteq Users /\ visitors \subseteq Users
    /\ link \in [status : LinkStates, by : Users \cup {Nobody}, role : RolesOf(kind)]
    /\ offer \in [Offers ->
                     [status : OfferStates, to : Users \cup {Nobody}, role : RolesOf(kind)]]
    /\ accounts \subseteq Users /\ born \subseteq Users /\ admins \subseteq Users
    /\ direct \in [Directs -> {"none", "fresh", "aged"}]
    /\ req \in [Handlers -> Requests]
    /\ started \in 0 .. MaxRequests
    /\ contested \in BOOLEAN /\ crossed \in BOOLEAN
    /\ orphaned \in BOOLEAN /\ doubled \in BOOLEAN

\* A workspace has exactly one member with the role OWNER, the one owner_id names,
\* through transfers, role changes, removals, departures and redeemed invitations,
\* as long as no write has met an owner that the request's own checks had not seen:
\* two transfers under way together do leave two.
OneOwner ==
    kind = "WORKSPACE" /\ ~contested => {u \in Users : role[u] = "OWNER"} = {owner}

\* What two overlapping requests both set out to make is made once: one account from a
\* link ("Row-locked so two concurrent accept calls on the same token can't both
\* succeed"), which then is ACCEPTED unless a revocation that had read it pending overwrote
\* that, and one direct channel of two users, unless its maker could not see the other.
NothingIsMadeTwice ==
    /\ Cardinality(born) <= 1 /\ ~doubled
    /\ born # {} => link.status = "ACCEPTED" \/ crossed

\* An invitation that has been answered, or revoked, keeps that answer, however
\* acceptance, refusal and revocation overlap; but a revocation that read the link
\* pending may land on an acceptance.
AnsweredIsFinal ==
    [][/\ \A o \in Offers : offer[o].status \in {"ACCEPTED", "DECLINED"} => offer'[o] = offer[o]
       /\ link.status \in {"ACCEPTED", "REVOKED"} => link' = link \/ crossed']_vars

\* Who belongs to an archived scope, and who is in its channel, changes only by a
\* request for which the scope was open at some moment: "a scope archived after the
\* invite was sent can no longer be joined via a stale token".  Only an administrator who
\* makes an account puts it into an archived organization.
ArchivedIsClosed ==
    [][archived /\ <<role, inChannel>>' # <<role, inChannel>>
       => \E h \in Handlers : /\ req[h].left = <<>> /\ req'[h] = Idle
                            /\ (req[h].open \/ req[h].op = "createAccount")]_vars

\* A system administrator remains, since nobody demotes himself, unless a demotion was
\* written by one who had been demoted while it was under way.
AdministratorRemains == admins # {} \/ orphaned

==============================================================================
