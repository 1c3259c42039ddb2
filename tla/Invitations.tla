----------------------------- MODULE Invitations -----------------------------
(***************************************************************************)
(* Two ways into a scope: a link for a person without an account           *)
(* (invitations: routes/invitations.js) and an offer to an account         *)
(* (membership_invitations: routes/membershipInvitations.js), with the     *)
(* routes of workspaces.js and organizations.js that create them.          *)
(* Notifications and the organization membership that a new account gets   *)
(* beside that of a workspace are left out.                                *)
(***************************************************************************)
EXTENDS Workspaces, Organizations

UnchangedButLinks == UNCHANGED <<scope, owner, contested, rooms, offer, administrators, directs>>
UnchangedButOffers == UNCHANGED <<scope, owner, contested, rooms, links, administrators, directs>>

------------------------------------------------------------------------------
(* Links.  One is modelled: once it exists no other is created.               *)

LinkInserted(h) ==
    /\ link' = IF link.status = "none"
               THEN [status |-> "PENDING", by |-> req[h].by, role |-> req[h].as] ELSE link
    /\ UNCHANGED <<role, accounts, born, crossed>> /\ UnchangedButLinks

LinkChecks(r) == <<ToGrant(r), "notArchived">>
OrgLinkChecks == <<"ORG_INVITE", "notArchived">>

CreateWorkspaceLink(h) ==
    \/ \E u \in accounts, r \in WorkspaceRoles :
          /\ link.status = "none"
          /\ WorkspaceAsks(h, "createLink", u, Nobody, r, LinkChecks(r))
    \/ Writes(h, "createLink") /\ LinkInserted(h)

CreateOrgLink(h) ==
    \/ \E u \in accounts, r \in OrgRoles :
          /\ link.status = "none"
          /\ OrganizationAsks(h, "orgCreateLink", u, Nobody, r, OrgLinkChecks)
    \/ Writes(h, "orgCreateLink") /\ LinkInserted(h)

\* The account, the membership and the status are written in the transaction that
\* holds the link's row; a name taken meanwhile ends it without effect.
Redeemed(h) ==
    LET u == req[h].by IN
    /\ IF u \in accounts THEN UNCHANGED <<accounts, born, role, link>>
       ELSE /\ accounts' = accounts \cup {u} /\ born' = born \cup {u}
            /\ role' = Enrolled(u, link.role)
            /\ link' = [link EXCEPT !.status = "ACCEPTED"]
    /\ UNCHANGED crossed /\ UnchangedButLinks

\* Mutant: whether the scope is archived is not looked up again.
AcceptLinkWheneverPending(h) ==
    \/ /\ Free(<<"link", 0>>, h)
       /\ \E u \in Users \ accounts :
             Ask(h, "acceptLink", u, u, "none", <<"linkIsPending">>)
    \/ Writes(h, "acceptLink") /\ Redeemed(h)

AcceptLinkChecks == <<"linkIsPending", "notArchived">>

AcceptLink(h) ==
    \/ /\ Free(<<"link", 0>>, h)
       /\ \E u \in Users \ accounts :
             Ask(h, "acceptLink", u, u, "none", AcceptLinkChecks)
    \/ Writes(h, "acceptLink") /\ Redeemed(h)

RevokeChecks == <<"linkExists", "mayRevoke">>

\* The row is read without a lock, the update waits for one: it overwrites what a
\* redemption has committed meanwhile.
RevokeLink(h) ==
    \/ \E u \in accounts :
          Ask(h, "revokeLink", u, Nobody,
              IF kind = "ORGANIZATION" THEN "ORG_INVITE" ELSE "MANAGE_MEMBERS", RevokeChecks)
    \/ /\ Free(<<"link", 0>>, h) /\ Writes(h, "revokeLink")
       /\ link' = [link EXCEPT !.status = "REVOKED"]
       /\ crossed' = (crossed \/ (link.status = "ACCEPTED" /\ req[h].saw # "ACCEPTED"))
       /\ UNCHANGED <<role, accounts, born>> /\ UnchangedButLinks

\* expires_at passes.
LinkExpires ==
    /\ link.status = "PENDING"
    /\ link' = [link EXCEPT !.status = "EXPIRED"]
    /\ UNCHANGED <<role, accounts, born, crossed, req, started>> /\ UnchangedButLinks

------------------------------------------------------------------------------
(* Offers.  Nothing keeps two of them from being pending for one user.        *)

OfferInserted(h) ==
    /\ \E o \in Offers :
          /\ offer[o].status = "none" /\ \A p \in Offers : p < o => offer[p].status # "none"
          /\ offer' = [offer EXCEPT ![o] =
                          [status |-> "PENDING", to |-> req[h].on, role |-> req[h].as]]
    /\ UNCHANGED role /\ UnchangedButOffers

OfferChecks(r) == <<ToGrant(r), "notArchived", "isNoMember", "noOfferPending">>
OrgOfferChecks == <<"ORG_MANAGE_MEMBERS", "notArchived", "isNoMember", "noOfferPending">>

OfferWorkspaceMembership(h) ==
    \/ \E u, v \in accounts, r \in WorkspaceRoles :
          WorkspaceAsks(h, "offerMembership", u, v, r, OfferChecks(r))
    \/ Writes(h, "offerMembership") /\ OfferInserted(h)

OfferOrgMembership(h) ==
    \/ \E u, v \in accounts, r \in OrgRoles :
          OrganizationAsks(h, "orgOfferMembership", u, v, r, OrgOfferChecks)
    \/ Writes(h, "orgOfferMembership") /\ OfferInserted(h)

\* An own offer, taken with loadOwnPendingInvitationForUpdate.
TakeOffer(h, op, checks) ==
    \E u \in accounts, o \in Offers :
        /\ Free(<<"offer", o>>, h)
        /\ Take(h, [Idle EXCEPT !.op = op, !.by = u, !.on = u, !.row = o, !.left = checks])

\* A membership that was there is kept; one that appeared since the read makes the
\* insert fail, and the transaction with it.
AcceptOfferChecks == <<"ownOfferPending", "notArchived", "membership">>

AcceptOffer(h) ==
    \/ TakeOffer(h, "acceptOffer", AcceptOfferChecks)
    \/ /\ Writes(h, "acceptOffer")
       /\ IF req[h].saw = "none" /\ IsMember(req[h].on) THEN UNCHANGED <<role, offer>>
          ELSE /\ role' = Enrolled(req[h].on, offer[req[h].row].role)
               /\ offer' = [offer EXCEPT ![req[h].row].status = "ACCEPTED"]
       /\ UnchangedButOffers

DeclineOfferChecks == <<"ownOfferPending">>

DeclineOffer(h) ==
    \/ TakeOffer(h, "declineOffer", DeclineOfferChecks)
    \/ /\ Writes(h, "declineOffer")
       /\ offer' = [offer EXCEPT ![req[h].row].status = "DECLINED"]
       /\ UNCHANGED role /\ UnchangedButOffers

InvitationRequest(h) ==
    \/ CreateWorkspaceLink(h) \/ CreateOrgLink(h) \/ AcceptLink(h) \/ RevokeLink(h)
    \/ OfferWorkspaceMembership(h) \/ OfferOrgMembership(h)
    \/ AcceptOffer(h) \/ DeclineOffer(h)

==============================================================================
