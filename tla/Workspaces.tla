------------------------------ MODULE Workspaces ------------------------------
(***************************************************************************)
(* routes/workspaces.js: one action per route, with a disjunct for the     *)
(* request and one for its write.  The checks are listed in the order the  *)
(* handler awaits them.  Lookups of the target's account by name are left  *)
(* out: an account is never deleted.                                       *)
(***************************************************************************)
EXTENDS Access

WorkspaceAsks(h, op, by, on, as, checks) ==
    kind = "WORKSPACE" /\ Ask(h, op, by, on, as, checks)

\* Managers are made by those who manage managers.
ToGrant(r) == IF r = "MANAGER" THEN "MANAGE_MANAGERS" ELSE "MANAGE_MEMBERS"

UnchangedButMembers == UNCHANGED <<scope, rooms, links, offer, administrators, directs>>
UnchangedButRooms == UNCHANGED <<scope, members, links, offer, administrators, directs>>
UnchangedButScope == UNCHANGED <<members, rooms, links, offer, administrators, directs>>

------------------------------------------------------------------------------
(* Members.                                                                   *)

SubscribeChecks == <<"discoverable", "notArchived", "isNoMember">>

Subscribe(h) ==
    \/ \E u \in accounts : WorkspaceAsks(h, "subscribe", u, u, "MEMBER", SubscribeChecks)
    \/ /\ Writes(h, "subscribe")
       /\ role' = Enrolled(req[h].on, "MEMBER")
       /\ UNCHANGED <<owner, contested>> /\ UnchangedButMembers

AddMemberChecks(r) == <<ToGrant(r), "notArchived", "isNoMember">>

AddMember(h) ==
    \/ \E u, v \in accounts, r \in WorkspaceRoles :
          WorkspaceAsks(h, "addMember", u, v, r, AddMemberChecks(r))
    \/ /\ Writes(h, "addMember")
       /\ role' = Enrolled(req[h].on, req[h].as)
       /\ UNCHANGED <<owner, contested>> /\ UnchangedButMembers

MemberChecks == <<"MANAGE_MEMBERS", "notArchived", "isNotOwner", "mayChangeManagers">>

\* The update finds no row when the member has gone, and whatever role the member has
\* by now otherwise: contested when that is an ownership it has not seen.
ChangeRole(h) ==
    \/ \E u, v \in accounts, r \in WorkspaceRoles :
          WorkspaceAsks(h, "changeRole", u, v, r, MemberChecks)
    \/ /\ Writes(h, "changeRole")
       /\ role' = [role EXCEPT ![req[h].on] = IF @ = "none" THEN @ ELSE req[h].as]
       /\ contested' = (contested \/ (role[req[h].on] = "OWNER" /\ req[h].saw # "OWNER"))
       /\ UNCHANGED owner /\ UnchangedButMembers

\* Mutant: the channel memberships stay.
RemovedFromWorkspaceOnly(u) ==
    /\ role' = [role EXCEPT ![u] = "none"]
    /\ UNCHANGED <<inChannel, visitors>>

\* One transaction: the channel memberships first, then the membership.
Removed(u) ==
    /\ role' = [role EXCEPT ![u] = "none"]
    /\ inChannel' = inChannel \ {u}
    /\ visitors' = visitors \ {u}

Dismissed(h) ==
    /\ Removed(req[h].on)
    /\ contested' = (contested \/ (role[req[h].on] = "OWNER" /\ req[h].saw # "OWNER"))
    /\ UNCHANGED <<owner, channel, scope, links, offer, administrators, directs>>

RemoveMember(h) ==
    \/ \E u, v \in accounts : WorkspaceAsks(h, "removeMember", u, v, "none", MemberChecks)
    \/ Writes(h, "removeMember") /\ Dismissed(h)

LeaveWorkspaceChecks == <<"member", "notArchived", "isNotOwner">>

LeaveWorkspace(h) ==
    \/ \E u \in accounts :
          WorkspaceAsks(h, "leaveWorkspace", u, u, "none", LeaveWorkspaceChecks)
    \/ Writes(h, "leaveWorkspace") /\ Dismissed(h)

\* Mutant: the caller, who may be a system administrator, becomes a manager.
HeiredFromCaller(q) ==
    [u \in Users |-> IF role[u] = "none" THEN "none"
                     ELSE IF u = q.on THEN "OWNER"
                     ELSE IF u = q.by THEN "MANAGER" ELSE role[u]]

\* One transaction: the owner that was read becomes a manager, the heir the owner;
\* an update of a row that is gone changes nothing.
Heired(q) ==
    [u \in Users |-> IF role[u] = "none" THEN "none"
                     ELSE IF u = q.on THEN "OWNER"
                     ELSE IF u = q.from THEN "MANAGER" ELSE role[u]]

TransferChecks == <<"TRANSFER_OWNERSHIP", "notArchived", "owner", "isHeir">>

TransferOwnership(h) ==
    \/ \E u, v \in accounts :
          WorkspaceAsks(h, "transferOwnership", u, v, "none", TransferChecks)
    \/ /\ Writes(h, "transferOwnership")
       /\ role' = Heired(req[h])
       /\ owner' = req[h].on
       /\ contested' = (contested \/ req[h].from # owner \/ ~IsMember(req[h].on))
       /\ UnchangedButMembers

------------------------------------------------------------------------------
(* Settings.                                                                  *)

ArchiveChecks == <<"ARCHIVE", "notArchived">>
UnarchiveChecks == <<"ARCHIVE", "isArchived">>
VisibilityChecks == <<"CHANGE_VISIBILITY", "notArchived", "changesVisibility">>
SettingsChecks == <<"MANAGE_SETTINGS">>

\* The row is read and written only when that changes it.
ArchiveWorkspace(h) ==
    \/ \E u \in accounts :
          WorkspaceAsks(h, "archiveWorkspace", u, Nobody, "none", ArchiveChecks)
    \/ /\ Writes(h, "archiveWorkspace")
       /\ archived' = TRUE
       /\ UNCHANGED <<kind, delegated, discoverable>> /\ UnchangedButScope

UnarchiveWorkspace(h) ==
    \/ \E u \in accounts :
          WorkspaceAsks(h, "unarchiveWorkspace", u, Nobody, "none", UnarchiveChecks)
    \/ /\ Writes(h, "unarchiveWorkspace")
       /\ archived' = FALSE
       /\ UNCHANGED <<kind, delegated, discoverable>> /\ UnchangedButScope

SetVisibility(h) ==
    \/ \E u \in accounts, v \in {"DISCOVERABLE", "PRIVATE"} :
          WorkspaceAsks(h, "setVisibility", u, Nobody, v, VisibilityChecks)
    \/ /\ Writes(h, "setVisibility")
       /\ discoverable' = (req[h].as = "DISCOVERABLE")
       /\ UNCHANGED <<kind, archived, delegated>> /\ UnchangedButScope

\* Open to the owner of an archived workspace too.
SetManagersCanArchive(h) ==
    \/ \E u \in accounts, v \in {"delegated", "kept"} :
          WorkspaceAsks(h, "setManagersCanArchive", u, Nobody, v, SettingsChecks)
    \/ /\ Writes(h, "setManagersCanArchive")
       /\ delegated' = (req[h].as = "delegated")
       /\ UNCHANGED <<kind, archived, discoverable>> /\ UnchangedButScope

------------------------------------------------------------------------------
(* The channel.  A channel made beside the one modelled is not followed.      *)

\* INSERT INTO channel_members; the user may have left the workspace since.
Seated(u, saw) ==
    /\ inChannel' = inChannel \cup {u}
    /\ visitors' = IF ~IsMember(u) /\ saw # "none" THEN visitors \cup {u} ELSE visitors

CreateChannelChecks == <<"memberOrSystemAdmin", "notArchived">>

CreateChannel(h) ==
    \/ /\ channel = "none"
       /\ \E u \in accounts, type \in ChannelTypes :
             WorkspaceAsks(h, "createChannel", u, u, type, CreateChannelChecks)
    \/ /\ Writes(h, "createChannel")
       /\ IF channel = "none"
          THEN /\ channel' = req[h].as
               /\ IF req[h].saw = "override" THEN UNCHANGED <<inChannel, visitors>>
                  ELSE Seated(req[h].by, req[h].saw)
          ELSE UNCHANGED rooms
       /\ UnchangedButRooms

JoinChannelChecks == <<"memberOrSystemAdmin", "notArchived", "isPublic", "isNotInChannel">>

JoinChannel(h) ==
    \/ \E u \in accounts : WorkspaceAsks(h, "joinChannel", u, u, "none", JoinChannelChecks)
    \/ /\ Writes(h, "joinChannel")
       /\ Seated(req[h].on, req[h].saw)
       /\ UNCHANGED channel /\ UnchangedButRooms

AddChannelMemberChecks ==
    <<"channelMemberOrSystemAdmin", "notArchived", "isMember", "isNotInChannel">>

AddChannelMember(h) ==
    \/ \E u, v \in accounts :
          WorkspaceAsks(h, "addChannelMember", u, v, "none", AddChannelMemberChecks)
    \/ /\ Writes(h, "addChannelMember")
       /\ Seated(req[h].on, req[h].saw)
       /\ UNCHANGED channel /\ UnchangedButRooms

Unseated(u) ==
    /\ inChannel' = inChannel \ {u}
    /\ visitors' = visitors \ {u}
    /\ UNCHANGED channel /\ UnchangedButRooms

RemoveChannelMemberChecks == <<"channelMemberOrSystemAdmin", "notArchived", "isInChannel">>

RemoveChannelMember(h) ==
    \/ \E u, v \in accounts :
          WorkspaceAsks(h, "removeChannelMember", u, v, "none", RemoveChannelMemberChecks)
    \/ Writes(h, "removeChannelMember") /\ Unseated(req[h].on)

LeaveChannelChecks == <<"channelMember", "notArchived">>

LeaveChannel(h) ==
    \/ \E u \in accounts : WorkspaceAsks(h, "leaveChannel", u, u, "none", LeaveChannelChecks)
    \/ Writes(h, "leaveChannel") /\ Unseated(req[h].on)

WorkspaceRequest(h) ==
    \/ Subscribe(h) \/ AddMember(h) \/ ChangeRole(h) \/ RemoveMember(h)
    \/ LeaveWorkspace(h) \/ TransferOwnership(h)
    \/ ArchiveWorkspace(h) \/ UnarchiveWorkspace(h)
    \/ SetVisibility(h) \/ SetManagersCanArchive(h)
    \/ CreateChannel(h) \/ JoinChannel(h) \/ AddChannelMember(h)
    \/ RemoveChannelMember(h) \/ LeaveChannel(h)

==============================================================================
