---------------------------- MODULE Organizations ----------------------------
(***************************************************************************)
(* routes/organizations.js, and the administrators' routes of              *)
(* routes/admin.js that change who is one.  An organization has no owner   *)
(* and may be left without ORG_ADMIN; only system administrators archive.  *)
(***************************************************************************)
EXTENDS Access

OrganizationAsks(h, op, by, on, as, checks) ==
    kind = "ORGANIZATION" /\ Ask(h, op, by, on, as, checks)

UnchangedButRoles ==
    UNCHANGED <<scope, owner, contested, rooms, links, offer, administrators, directs>>
UnchangedButAdministrators ==
    UNCHANGED <<scope, members, rooms, links, offer, directs>>

OrgAddMemberChecks == <<"ORG_MANAGE_MEMBERS", "notArchived", "isNoMember">>

OrgAddMember(h) ==
    \/ \E u, v \in accounts, r \in OrgRoles :
          OrganizationAsks(h, "orgAddMember", u, v, r, OrgAddMemberChecks)
    \/ /\ Writes(h, "orgAddMember")
       /\ role' = Enrolled(req[h].on, req[h].as)
       /\ UnchangedButRoles

OrgMemberChecks == <<"ORG_MANAGE_MEMBERS", "notArchived", "isMember">>

OrgChangeRole(h) ==
    \/ \E u, v \in accounts, r \in OrgRoles :
          OrganizationAsks(h, "orgChangeRole", u, v, r, OrgMemberChecks)
    \/ /\ Writes(h, "orgChangeRole")
       /\ role' = [role EXCEPT ![req[h].on] = IF @ = "none" THEN @ ELSE req[h].as]
       /\ UnchangedButRoles

OrgRemoveMember(h) ==
    \/ \E u, v \in accounts :
          OrganizationAsks(h, "orgRemoveMember", u, v, "none", OrgMemberChecks)
    \/ /\ Writes(h, "orgRemoveMember")
       /\ role' = [role EXCEPT ![req[h].on] = "none"]
       /\ UnchangedButRoles

OrgLeaveChecks == <<"member", "notArchived", "isMember">>

OrgLeave(h) ==
    \/ \E u \in accounts : OrganizationAsks(h, "orgLeave", u, u, "none", OrgLeaveChecks)
    \/ /\ Writes(h, "orgLeave")
       /\ role' = [role EXCEPT ![req[h].on] = "none"]
       /\ UnchangedButRoles

OrgArchiveChecks == <<"systemAdmin", "notArchived">>
OrgUnarchiveChecks == <<"systemAdmin", "isArchived">>

OrgArchive(h) ==
    \/ \E u \in accounts :
          OrganizationAsks(h, "orgArchive", u, Nobody, "none", OrgArchiveChecks)
    \/ /\ Writes(h, "orgArchive")
       /\ archived' = TRUE
       /\ UNCHANGED <<kind, delegated, discoverable, members, rooms, links, offer,
                      administrators, directs>>

OrgUnarchive(h) ==
    \/ \E u \in accounts :
          OrganizationAsks(h, "orgUnarchive", u, Nobody, "none", OrgUnarchiveChecks)
    \/ /\ Writes(h, "orgUnarchive")
       /\ archived' = FALSE
       /\ UNCHANGED <<kind, delegated, discoverable, members, rooms, links, offer,
                      administrators, directs>>

\* POST /admin/users: an account, in the organization named or in the oldest one (another
\* than this).  Whether the organization is archived is not looked at.
CreateAccount(h) ==
    \/ \E u \in admins, v \in Users \ accounts, place \in {"here", "elsewhere"} :
          /\ place = "here" => kind = "ORGANIZATION"
          /\ Ask(h, "createAccount", u, v, place, <<"systemAdmin", "nameIsFree">>)
    \/ /\ Writes(h, "createAccount")
       /\ IF req[h].on \in accounts THEN UNCHANGED <<accounts, role>>
          ELSE /\ accounts' = accounts \cup {req[h].on}
               /\ role' = IF req[h].as = "here" THEN Enrolled(req[h].on, "ORG_MEMBER") ELSE role
       /\ UNCHANGED <<scope, owner, contested, rooms, link, born, crossed, offer,
                      administrators, directs>>

PromoteChecks == <<"systemAdmin", "isNoAdministrator">>
DemoteChecks == <<"systemAdmin", "isAdministrator">>

Promote(h) ==
    \/ \E u, v \in accounts : Ask(h, "promote", u, v, "none", PromoteChecks)
    \/ /\ Writes(h, "promote")
       /\ admins' = admins \cup {req[h].on}
       /\ UNCHANGED orphaned /\ UnchangedButAdministrators

\* The demotion of an administrator by one who is no longer one when it is written.
Demoted(h) ==
    /\ admins' = admins \ {req[h].on}
    /\ orphaned' = (orphaned \/ req[h].by \notin admins)
    /\ UnchangedButAdministrators

\* Mutant: one's own account is not refused.
DemoteAnyone(h) ==
    \/ \E u, v \in accounts : Ask(h, "demote", u, v, "none", DemoteChecks)
    \/ Writes(h, "demote") /\ Demoted(h)

Demote(h) ==
    \/ \E u \in accounts : \E v \in accounts \ {u} :
          Ask(h, "demote", u, v, "none", DemoteChecks)
    \/ Writes(h, "demote") /\ Demoted(h)

OrganizationRequest(h) ==
    \/ OrgAddMember(h) \/ OrgChangeRole(h) \/ OrgRemoveMember(h) \/ OrgLeave(h)
    \/ OrgArchive(h) \/ OrgUnarchive(h)
    \/ CreateAccount(h) \/ Promote(h) \/ Demote(h)

==============================================================================
