---------------------------- MODULE MCMemberships ----------------------------
(***************************************************************************)
(* Memberships, Listings and Panels for TLC: settled scopes to start from, *)
(* chosen so that every route finds someone who may call it, and all pairs *)
(* of requests over them.                                                  *)
(***************************************************************************)
EXTENDS Panels, TLC

CONSTANTS ann, bob, cat, dan, eve

Unmade == [status |-> "none", by |-> Nobody, role |-> "none"]
Unsent == [status |-> "none", to |-> Nobody, role |-> "none"]

\* ann owns the workspace or administers the organization, bob comes second, cat is a
\* member or stands outside with an offer pending, dan and eve have no account yet.  The
\* link is bob's, from when he could still make one; a bare scope has no link, offer or
\* channel.  System administrators are those whose own role refuses something: the owner and
\* the outsider, or else the manager.
Scope(bare) ==
    /\ accounts = {ann, bob, cat}
    /\ link = IF bare THEN Unmade
              ELSE [status |-> "PENDING", by |-> bob,
                    role |-> IF kind = "WORKSPACE" THEN "MEMBER" ELSE "ORG_MEMBER"]
    /\ offer = [o \in Offers |->
                   IF o = 1 /\ ~bare /\ role[cat] = "none"
                   THEN [status |-> "PENDING", to |-> cat,
                         role |-> IF kind = "WORKSPACE" THEN "MANAGER" ELSE "ORG_MEMBER"]
                   ELSE Unsent]

Workspace(bare) ==
    /\ kind = "WORKSPACE" /\ owner = ann
    /\ \E r \in {"MEMBER", "none"} :
          role = [u \in Users |-> CASE u = ann -> "OWNER" [] u = bob -> "MANAGER"
                                    [] u = cat -> r [] OTHER -> "none"]
    /\ admins = (IF role[cat] = "none" THEN {ann, cat} ELSE {bob})
    /\ delegated = ~archived /\ discoverable = (role[cat] = "none")
    /\ channel = IF bare THEN "none" ELSE IF discoverable THEN "PUBLIC" ELSE "PRIVATE"
    /\ inChannel = (IF bare THEN {} ELSE {bob})

Organization ==
    /\ kind = "ORGANIZATION" /\ owner = Nobody
    /\ role = [u \in Users |-> CASE u = ann -> "ORG_ADMIN" [] u = bob -> "ORG_MEMBER"
                                 [] OTHER -> "none"]
    /\ admins = {ann, cat}
    /\ delegated = FALSE /\ discoverable = FALSE
    /\ channel = "none" /\ inChannel = {}

Pair ==
    /\ kind = "PAIR" /\ owner = Nobody
    /\ role = [u \in Users |-> "none"]
    /\ accounts = {ann, bob} /\ admins = {ann}
    /\ link = Unmade /\ offer = [o \in Offers |-> Unsent]
    /\ archived = FALSE /\ delegated = FALSE /\ discoverable = FALSE
    /\ channel = "none" /\ inChannel = {}

Start ==
    \/ \E bare \in BOOLEAN :
          /\ archived \in (IF bare THEN {FALSE} ELSE BOOLEAN)
          /\ Workspace(bare) \/ Organization
          /\ Scope(bare)
    \/ Pair

MCInit == Start /\ Init
MCSpec == MCInit /\ [][Next]_vars

Interchangeable == Permutations(Handlers)
==============================================================================
